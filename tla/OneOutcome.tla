------------------------------ MODULE OneOutcome ------------------------------
(***************************************************************************)
(* What the command kernel of js/command-feedback.mjs promises, with no    *)
(* keys, wires, retries or answers: every decision a person takes about an *)
(* operation takes effect at most once, is confirmed only after it took    *)
(* effect, is denied only if it did not, and takes no effect once it has   *)
(* been confirmed or denied.                                               *)
(***************************************************************************)
CONSTANTS Ops,         \* the operations commands are about (operationKey)
          Decisions,   \* one decision = one intended change, however often sent
          NoDecision

VARIABLES stage,       \* stage[op]: "idle", "open" (being sent) or "unresolved"
          current,     \* current[op]: the decision being carried out
          spent,       \* decisions taken so far
          landed       \* decisions that took effect in the record

vars == <<stage, current, spent, landed>>

Init ==
  /\ stage = [op \in Ops |-> "idle"]
  /\ current = [op \in Ops |-> NoDecision]
  /\ spent = {}
  /\ landed = {}

\* A new decision starts only when the previous one has been answered.
Decide(op, d) ==
  /\ stage[op] = "idle"
  /\ d \notin spent
  /\ stage' = [stage EXCEPT ![op] = "open"]
  /\ current' = [current EXCEPT ![op] = d]
  /\ spent' = spent \cup {d}
  /\ UNCHANGED landed

\* The record takes the decision, once, while it is still undecided.
Land(op) ==
  /\ stage[op] # "idle"
  /\ current[op] \notin landed
  /\ landed' = landed \cup {current[op]}
  /\ UNCHANGED <<stage, current, spent>>

LoseTrack(op) ==
  /\ stage[op] = "open"
  /\ stage' = [stage EXCEPT ![op] = "unresolved"]
  /\ UNCHANGED <<current, spent, landed>>

Check(op) ==
  /\ stage[op] = "unresolved"
  /\ stage' = [stage EXCEPT ![op] = "open"]
  /\ UNCHANGED <<current, spent, landed>>

Close(op) ==
  /\ stage[op] = "open"
  /\ stage' = [stage EXCEPT ![op] = "idle"]
  /\ current' = [current EXCEPT ![op] = NoDecision]
  /\ UNCHANGED <<spent, landed>>

Confirm(op) == current[op] \in landed /\ Close(op)

Deny(op) == current[op] \notin landed /\ Close(op)

Next ==
  \E op \in Ops :
    \/ \E d \in Decisions : Decide(op, d)
    \/ Land(op)
    \/ LoseTrack(op)
    \/ Check(op)
    \/ Confirm(op)
    \/ Deny(op)

Spec == Init /\ [][Next]_vars
===============================================================================
