--------------------------- MODULE CommandOutcomes ---------------------------
(***************************************************************************)
(* What can come back to a page that sent a command, and what              *)
(* js/command-feedback.mjs takes it to mean: a reply the verb gave, or an  *)
(* error with an HTTP status class and an error code.  "door" stands for   *)
(* 401 and 403 (and the codes that name them), "busy" for 5xx, 408, 429.   *)
(***************************************************************************)
CONSTANT NoAnswer

Error(http, code) == [form |-> "error", http |-> http, code |-> code]
Reply(form) == [form |-> form, http |-> "none", code |-> "none"]

Accepted == Reply("ok")
Silence == Error("none", "none")
AtTheDoor == Error("door", "none")
NotSent == Error("none", "offline")
SessionChanged == Error("none", "session_changed")
GatewayFault == Error("busy", "none")
ServerFault == Error("none", "fault")
Stale == {Reply("conflict"), Error("none", "version_conflict")}
Declined == {Error("none", "declined"), Reply("needs_confirm")}

Answers == {Accepted, Silence, AtTheDoor, NotSent, SessionChanged,
            GatewayFault, ServerFault} \cup Stale \cup Declined

ASSUME NoAnswerAssumption == NoAnswer \notin Answers

Statuses == {"ok", "conflict", "refused", "unknown"}

\* On a retry, a door that closed or a device that went offline says nothing
\* about the attempt before it; a gateway never settles a write.
SaysNothing(a, retry) ==
  \/ a.http = "busy"
  \/ retry /\ (a.http = "door" \/ a.code \in {"door", "offline", "session_changed"})

ClassifyError(a, retry) ==
  IF SaysNothing(a, retry) THEN "unknown"
  ELSE IF a.code \in {"version_conflict", "needs_confirm", "base_version"} THEN "conflict"
  ELSE IF a.code \in {"fault", "offline"} THEN "unknown"
  ELSE IF a.code \notin {"none", "session_changed"} \/ a.http = "door" THEN "refused"
  ELSE "unknown"

\* classifyCommandOutcome
Classify(a, retry) ==
  IF a.form = "error" THEN ClassifyError(a, retry)
  ELSE IF a.form \in {"conflict", "needs_confirm"} THEN "conflict"
  ELSE IF a.form = "ok" THEN "ok"
  ELSE "unknown"
==============================================================================
