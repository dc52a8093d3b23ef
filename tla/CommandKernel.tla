---------------------------- MODULE CommandKernel ----------------------------
(***************************************************************************)
(* The command kernel of js/command-feedback.mjs: one logical operation,   *)
(* one idempotency key, for everything the product writes.                 *)
(*                                                                         *)
(* A page holds `commands`, a map from operation to the one command that   *)
(* is being sent or was never answered.  performCommand claims the         *)
(* operation, sends one frozen request, races the answer against a         *)
(* 30-second deadline, and settles the operation with what it heard.  The  *)
(* deadline bounds the wait and not the write: a request may reach the     *)
(* record layer long after the page stopped waiting for it, and behind a   *)
(* later request with the same key.                                        *)
(*                                                                         *)
(* The record layer and the wire are not in the repository's source; they  *)
(* are modelled from what the code says and relies on: an answered key     *)
(* replays its stored answer, a refusal at the door stops the request      *)
(* before the verb runs, every leg of the wire can be lost or delayed.     *)
(***************************************************************************)
EXTENDS CommandOutcomes, Naturals, FiniteSets

CONSTANTS Ops,              \* operation keys
          Intents,          \* what the arguments of a command can say
          Keys,             \* idempotency keys newKey can mint
          Sends,            \* attempts: one per call of performCommand that sends
          StickyRefusals,   \* does the record layer also store a refusal by key?
          NoKey, NoRequest

Requests == [op : Ops, intent : Intents]

ASSUME ConstantsAssumption ==
  /\ Ops # {}
  /\ StickyRefusals \in BOOLEAN
  /\ NoKey \notin Keys
  /\ NoRequest \notin Requests

DockStates == {"idle", "pending", "checking", "confirmed", "refused", "unknown"}

VARIABLES
  commands,   \* commands[op]: the entry kept for op; status "absent" if none
  request,    \* request[k]: the frozen request minted with key k
  dock,       \* dock[op]: the feedback state the command dock shows
  sends,      \* sends[n]: attempt n on the wire, and whether its race is open
  memo,       \* memo[k]: the answer the record layer stored for key k
  committed,  \* the keys whose write the record holds
  verdict     \* verdict[k]: the definite status performCommand returned for k

pageVars == <<commands, request, dock, verdict>>
recordVars == <<memo, committed>>
vars == <<commands, request, dock, sends, memo, committed, verdict>>

Absent == [status |-> "absent", key |-> NoKey, since |-> 0]
Unsent == [leg |-> "unsent", key |-> NoKey, retry |-> FALSE,
           awaited |-> FALSE, answer |-> NoAnswer]

Minted == {k \in Keys : request[k] # NoRequest}
OpOf(n) == request[sends[n].key].op
Awaited(op) == {n \in Sends : sends[n].awaited /\ OpOf(n) = op}

Entries == {Absent} \cup [status : {"pending", "unknown"}, key : Keys, since : Nat]

\* Only an attempt whose answer is on its way back carries one.
Attempts == {Unsent}
  \cup [leg : {"out", "over"}, key : Keys, retry : BOOLEAN, awaited : BOOLEAN,
        answer : {NoAnswer}]
  \cup [leg : {"back"}, key : Keys, retry : BOOLEAN, awaited : BOOLEAN,
        answer : Answers]

TypeOK ==
  /\ commands \in [Ops -> Entries]
  /\ request \in [Keys -> Requests \cup {NoRequest}]
  /\ dock \in [Ops -> DockStates]
  /\ sends \in [Sends -> Attempts]
  /\ memo \in [Keys -> Answers \cup {NoAnswer}]
  /\ committed \subseteq Keys
  /\ verdict \in [Keys -> {"none"} \cup (Statuses \ {"unknown"})]

Init ==
  /\ commands = [op \in Ops |-> Absent]
  /\ request = [k \in Keys |-> NoRequest]
  /\ dock = [op \in Ops |-> "idle"]
  /\ sends = [n \in Sends |-> Unsent]
  /\ memo = [k \in Keys |-> NoAnswer]
  /\ committed = {}
  /\ verdict = [k \in Keys |-> "none"]

-----------------------------------------------------------------------------
(* The page: what the dock shows.                                          *)

FeedbackStateFor(status, retry) ==
  CASE status = "sending" -> IF retry THEN "checking" ELSE "pending"
    [] status = "in_flight" -> "pending"
    [] status = "ok" -> "confirmed"
    [] status \in {"refused", "conflict"} -> "refused"
    [] status \in {"blocked", "unknown"} -> "unknown"

-----------------------------------------------------------------------------
(* The page: claiming an operation (beginCommand, inside performCommand).  *)

Highest(s) == \A op \in Ops : commands[op].since <= s

\* nextSince: one past the highest place any kept entry holds.
NextSince(s) == s + 1

\* The claim is published before the request is awaited: both happen in one
\* turn of the event loop.
Claim(op, k, n, since, retry) ==
  /\ sends[n].leg = "unsent"
  /\ commands' = [commands EXCEPT ![op] =
                    [status |-> "pending", key |-> k, since |-> since]]
  /\ sends' = [sends EXCEPT ![n] =
                 [leg |-> "out", key |-> k, retry |-> retry,
                  awaited |-> TRUE, answer |-> NoAnswer]]
  /\ dock' = [dock EXCEPT ![op] = FeedbackStateFor("sending", retry)]
  /\ UNCHANGED <<memo, committed, verdict>>

\* Nothing is kept for op: a new key is minted and the request frozen.
StartFresh(op, intent, k, n) ==
  /\ commands[op].status = "absent"
  /\ request[k] = NoRequest
  /\ request' = [request EXCEPT ![k] = [op |-> op, intent |-> intent]]
  /\ \E s \in {commands[o].since : o \in Ops} :
       Highest(s) /\ Claim(op, k, n, NextSince(s), FALSE)

\* The same intent again while it is unresolved: the retained request, whole.
Recheck(op, intent, n) ==
  /\ commands[op].status = "unknown"
  /\ request[commands[op].key].intent = intent
  /\ Claim(op, commands[op].key, n, commands[op].since, TRUE)
  /\ UNCHANGED request

\* A request for op is open: nothing is sent.
ClickInFlight(op) ==
  /\ commands[op].status = "pending"
  /\ dock' = [dock EXCEPT ![op] = FeedbackStateFor("in_flight", FALSE)]
  /\ UNCHANGED <<commands, request, sends, memo, committed, verdict>>

\* A different intent while op is unresolved: nothing is sent.
ClickBlocked(op, intent) ==
  /\ commands[op].status = "unknown"
  /\ request[commands[op].key].intent # intent
  /\ dock' = [dock EXCEPT ![op] = FeedbackStateFor("blocked", FALSE)]
  /\ UNCHANGED <<commands, request, sends, memo, committed, verdict>>

-----------------------------------------------------------------------------
(* The page: settling an operation (settleCommand, after the race).        *)

\* What is left of attempt n on the wire; nothing carries an answer once over.
OnWire(n, leg) ==
  [sends EXCEPT ![n].leg = leg,
                ![n].answer = IF leg = "over" THEN NoAnswer ELSE @]

\* Mutant: an unknown outcome is dropped like any other.
AfterMut(entry, status) == Absent

\* Mutant: the entry is given the outcome's own status.
AfterTypeMut(entry, status) ==
  IF status = "ok" THEN Absent ELSE [entry EXCEPT !.status = status]

\* An unknown answer keeps the entry; every definite one drops it.
After(entry, status) ==
  IF status = "unknown" /\ entry.status # "absent"
  THEN [entry EXCEPT !.status = "unknown"]
  ELSE Absent

\* The race of attempt n ends with answer a, its wire left at `leg`.
Settle(n, a, leg) ==
  LET status == Classify(a, sends[n].retry)
      op == OpOf(n)
  IN /\ sends[n].awaited
     /\ sends' = [OnWire(n, leg) EXCEPT ![n].awaited = FALSE]
     /\ commands' = [commands EXCEPT ![op] = After(@, status)]
     /\ dock' = [dock EXCEPT ![op] = FeedbackStateFor(status, FALSE)]
     /\ verdict' = [verdict EXCEPT ![sends[n].key] =
                      IF status = "unknown" THEN @ ELSE status]
     /\ UNCHANGED <<request, memo, committed>>

\* Mutant: only a first attempt arms the deadline.
DeadlineMut(n) == ~ sends[n].retry /\ Settle(n, Silence, sends[n].leg)

\* The 30-second timer of performCommand.  The request, or its answer, may
\* still be on the wire.
Deadline(n) == Settle(n, Silence, sends[n].leg)

\* A gateway, a broken connection or a changed session answers in the verb's
\* place; the request may still be on its way to the record layer.
Unheard(n) ==
  /\ sends[n].leg \in {"out", "back"}
  /\ \E a \in {GatewayFault, Silence, SessionChanged} : Settle(n, a, sends[n].leg)

\* live-client.js refuses to send while the browser is offline.
RefuseOffline(n) == sends[n].leg = "out" /\ Settle(n, NotSent, "over")

\* Mutant: an answer that arrives after the deadline settles the operation.
HearMut(n) ==
  /\ sends[n].leg = "back"
  /\ sends' = [OnWire(n, "over") EXCEPT ![n].awaited = FALSE]
  /\ commands' = [commands EXCEPT ![OpOf(n)] =
                    After(@, Classify(sends[n].answer, sends[n].retry))]
  /\ UNCHANGED <<request, memo, committed, dock, verdict>>

\* The answer arrives while the page still waits for it.
Hear(n) == sends[n].leg = "back" /\ Settle(n, sends[n].answer, "over")

\* The answer arrives after the deadline: the race is over and nobody reads it.
HearTooLate(n) ==
  /\ sends[n].leg = "back"
  /\ ~ sends[n].awaited
  /\ sends' = OnWire(n, "over")
  /\ UNCHANGED <<commands, request, dock, memo, committed, verdict>>

-----------------------------------------------------------------------------
(* The record layer and the wire (external).                               *)

Answer(n, a) == sends' = [sends EXCEPT ![n].leg = "back", ![n].answer = a]

\* The key is known: the stored answer again, and nothing is written.
Replay(n) ==
  /\ memo[sends[n].key] # NoAnswer
  /\ Answer(n, memo[sends[n].key])
  /\ UNCHANGED recordVars

\* The write lands.  A fault after the commit can hide it.
Commit(n) ==
  LET k == sends[n].key
  IN /\ memo[k] = NoAnswer
     /\ committed' = committed \cup {k}
     /\ memo' = [memo EXCEPT ![k] = Accepted]
     /\ \E a \in {Accepted, ServerFault} : Answer(n, a)

\* The base of a frozen request only gets older: a stale one stays stale.
Conflict(n) ==
  LET k == sends[n].key
  IN /\ memo[k] = NoAnswer
     /\ \E a \in Stale : Answer(n, a) /\ memo' = [memo EXCEPT ![k] = a]
     /\ UNCHANGED committed

\* A judgement about the record as it stands.  Whether asking again can be
\* judged differently is StickyRefusals.
Decline(n) ==
  LET k == sends[n].key
  IN /\ memo[k] = NoAnswer
     /\ \E a \in Declined :
          Answer(n, a) /\ memo' = IF StickyRefusals THEN [memo EXCEPT ![k] = a] ELSE memo
     /\ UNCHANGED committed

\* The verb broke before it wrote anything.
Break(n) ==
  /\ memo[sends[n].key] = NoAnswer
  /\ Answer(n, ServerFault)
  /\ UNCHANGED recordVars

Run(n) ==
  /\ sends[n].leg = "out"
  /\ Replay(n) \/ Commit(n) \/ Conflict(n) \/ Decline(n) \/ Break(n)
  /\ UNCHANGED pageVars

\* 401 or 403: taken before the verb runs, so nothing is stored either.
TurnAway(n) ==
  /\ sends[n].leg = "out"
  /\ Answer(n, AtTheDoor)
  /\ UNCHANGED <<pageVars, recordVars>>

Lose(n) ==
  /\ sends[n].leg \in {"out", "back"}
  /\ sends' = OnWire(n, "over")
  /\ UNCHANGED <<pageVars, recordVars>>

-----------------------------------------------------------------------------
Click(op) ==
  \/ \E intent \in Intents, k \in Keys, n \in Sends : StartFresh(op, intent, k, n)
  \/ \E intent \in Intents, n \in Sends : Recheck(op, intent, n)
  \/ ClickInFlight(op)
  \/ \E intent \in Intents : ClickBlocked(op, intent)

Wait(n) == Deadline(n) \/ Unheard(n) \/ RefuseOffline(n) \/ Hear(n) \/ HearTooLate(n)

Network(n) == Run(n) \/ TurnAway(n) \/ Lose(n)

Next ==
  \/ \E op \in Ops : Click(op)
  \/ \E n \in Sends : Wait(n) \/ Network(n)

\* The browser fires the timer each attempt armed.
Fairness == \A n \in Sends : WF_vars(Deadline(n))

Spec == Init /\ [][Next]_vars /\ Fairness

-----------------------------------------------------------------------------
(* Properties.                                                             *)

\* At most one attempt per operation is being waited for, and exactly while
\* its entry says "pending": a double click, or the late answer of an earlier
\* attempt, never opens a second one nor closes the one that is open.
OneOpenSend ==
  /\ \A n \in Sends : sends[n].awaited =>
       /\ commands[OpOf(n)].status = "pending"
       /\ commands[OpOf(n)].key = sends[n].key
  /\ \A m, n \in Sends :
       sends[m].awaited /\ sends[n].awaited /\ OpOf(m) = OpOf(n) => m = n
  /\ \A op \in Ops : commands[op].status = "pending" => Awaited(op) # {}

\* A key without a definite verdict is still the key its operation keeps: an
\* operation never has a second key while the first may still take effect.
OneLiveKey ==
  \A k \in Minted :
    verdict[k] = "none" <=> commands[request[k].op].key = k

\* What a person is told is what the record holds, from then on: "ok" only for
\* a write that landed, "conflict" and "refused" ("was not saved") only for one
\* that did not and never will, whatever is still on the wire.
VerdictsTrue ==
  \A k \in Minted :
    /\ verdict[k] = "ok" => k \in committed
    /\ verdict[k] \in {"conflict", "refused"} => k \notin committed

\* Entries kept at the same time hold different places in the dock's order.
PlacesDistinct ==
  \A p, q \in Ops :
    commands[p].status # "absent" /\ commands[p].since = commands[q].since => p = q

\* The dock offers "Check outcome" for every operation that is unresolved and
\* for no other: an unresolved write is never badged refused, which would offer
\* "Try again", and a settled one is never left asking to be checked.
DockOffersCheck ==
  \A op \in Ops :
    /\ commands[op].status = "unknown" <=> dock[op] = "unknown"
    /\ commands[op].status = "pending" <=> dock[op] \in {"pending", "checking"}

\* No operation stays "still being sent" for ever: the deadline frees it even
\* if nothing ever comes back.
PendingEnds ==
  \A op \in Ops : commands[op].status = "pending" ~> commands[op].status # "pending"

\* What OneOutcome calls the stage of an operation with such an entry.
StageOf(status) ==
  IF status = "absent" THEN "idle" ELSE IF status = "pending" THEN "open" ELSE "unresolved"

\* The kernel implements the promise of OneOutcome: a decision is a key, it is
\* taken when the key is minted, and it has landed when the record holds it.
Promise == INSTANCE OneOutcome WITH
  Decisions <- Keys, NoDecision <- NoKey,
  stage <- [op \in Ops |-> StageOf(commands[op].status)],
  current <- [op \in Ops |-> commands[op].key],
  spent <- Minted,
  landed <- committed

\* Every decision takes effect at most once, and is reported as it ended.
KeepsPromise == Promise!Spec
==============================================================================
