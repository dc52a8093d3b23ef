------------------------- MODULE CommandKernelProofs -------------------------
(***************************************************************************)
(* Proofs about CommandKernel, for any operations, intents, keys and       *)
(* attempts.                                                               *)
(***************************************************************************)
EXTENDS CommandKernel, TLAPS

USE ConstantsAssumption, NoAnswerAssumption

-----------------------------------------------------------------------------
(* How answers are read.                                                   *)

\* An answer is one of these kinds and no two of them.
LEMMA AnswersApart ==
  /\ Accepted \notin Stale \cup Declined
  /\ AtTheDoor \notin Stale \cup Declined \cup {Accepted, ServerFault}
  /\ ServerFault \notin Stale \cup Declined \cup {Accepted}
  BY DEF Accepted, AtTheDoor, ServerFault, Stale, Declined, Error, Reply

\* Every answer the record layer or the transport gives is an answer.
LEMMA AnswersInAnswers ==
  {Accepted, Silence, AtTheDoor, NotSent, SessionChanged, GatewayFault,
   ServerFault} \cup Stale \cup Declined \subseteq Answers
  BY DEF Answers

\* classifyCommandOutcome is total, says "ok" only of an accepted answer, and
\* "conflict" or "refused" only of a judgement, or of the door on a first try.
LEMMA Classification ==
  ASSUME NEW a \in Answers, NEW retry \in BOOLEAN
  PROVE  /\ Classify(a, retry) \in Statuses
         /\ Classify(a, retry) = "ok" => a = Accepted
         /\ Classify(a, retry) \in {"conflict", "refused"} =>
              a \in Stale \cup Declined \/ (a = AtTheDoor /\ ~ retry)
  BY DEF Classify, ClassifyError, SaysNothing, Statuses, Answers, Accepted, Silence,
         AtTheDoor, NotSent, SessionChanged, GatewayFault, ServerFault, Stale,
         Declined, Error, Reply

\* What a gateway, the deadline, a lost session or an offline device leaves
\* behind settles nothing, first attempt or not.
LEMMA NothingSettled ==
  ASSUME NEW retry \in BOOLEAN,
         NEW a \in {Silence, GatewayFault, SessionChanged, NotSent}
  PROVE  Classify(a, retry) = "unknown"
  BY DEF Classify, ClassifyError, SaysNothing, Silence, SessionChanged, GatewayFault,
         NotSent, Error, Reply

LEMMA DockStatesShown ==
  ASSUME NEW retry \in BOOLEAN,
         NEW status \in Statuses \cup {"sending", "in_flight", "blocked"}
  PROVE  FeedbackStateFor(status, retry) \in DockStates
  BY DEF FeedbackStateFor, Statuses, DockStates

-----------------------------------------------------------------------------
(* Types.                                                                  *)

\* What the fields of an attempt and of an entry can be.
LEMMA AttemptFields ==
  ASSUME TypeOK, NEW n \in Sends
  PROVE  /\ sends[n].leg \in {"unsent", "out", "back", "over"}
         /\ sends[n].leg = "unsent" <=> sends[n] = Unsent
         /\ sends[n].leg # "unsent" => sends[n].key \in Keys
         /\ sends[n].leg = "back" => sends[n].answer \in Answers
         /\ sends[n].leg # "back" => sends[n].answer = NoAnswer
         /\ sends[n].awaited \in BOOLEAN /\ sends[n].retry \in BOOLEAN
         /\ sends[n].awaited => sends[n].leg # "unsent"
<1> DEFINE s == sends[n]
<1>1. s \in Attempts
  BY DEF TypeOK
<1> HIDE DEF s
<1>2. CASE s = Unsent
  BY <1>2 DEF Unsent, s
<1>3. CASE s \in [leg : {"out", "over"}, key : Keys, retry : BOOLEAN,
                  awaited : BOOLEAN, answer : {NoAnswer}]
  BY <1>3 DEF s, Unsent
<1>4. CASE s \in [leg : {"back"}, key : Keys, retry : BOOLEAN,
                  awaited : BOOLEAN, answer : Answers]
  BY <1>4 DEF s, Unsent
<1>5. QED
  BY <1>1, <1>2, <1>3, <1>4 DEF Attempts

LEMMA EntryFields ==
  ASSUME TypeOK, NEW op \in Ops
  PROVE  /\ commands[op].status \in {"absent", "pending", "unknown"}
         /\ commands[op].status = "absent" <=> commands[op] = Absent
         /\ commands[op].status # "absent" => commands[op].key \in Keys
         /\ commands[op].since \in Nat
  BY DEF TypeOK, Entries, Absent

\* An attempt after its wire moved on.
LEMMA OnWireType ==
  ASSUME TypeOK, NEW n \in Sends, sends[n].leg # "unsent",
         NEW leg \in {"out", "back", "over"}, leg = "over" \/ leg = sends[n].leg
  PROVE  /\ OnWire(n, leg) \in [Sends -> Attempts]
         /\ [OnWire(n, leg) EXCEPT ![n].awaited = FALSE] \in [Sends -> Attempts]
<1> DEFINE s == sends[n]
           t == [s EXCEPT !.leg = leg, !.answer = IF leg = "over" THEN NoAnswer ELSE @]
<1>1. /\ t \in Attempts
      /\ [t EXCEPT !.awaited = FALSE] \in Attempts
  <2>1. s \in Attempts /\ s # Unsent
    BY DEF TypeOK, Unsent
  <2> HIDE DEF s
  <2>2. CASE s \in [leg : {"out", "over"}, key : Keys, retry : BOOLEAN,
                    awaited : BOOLEAN, answer : {NoAnswer}]
    BY <2>2 DEF s, Attempts
  <2>3. CASE s \in [leg : {"back"}, key : Keys, retry : BOOLEAN,
                    awaited : BOOLEAN, answer : Answers]
    BY <2>3 DEF s, Attempts
  <2>4. QED
    BY <2>1, <2>2, <2>3 DEF Attempts
<1>2. OnWire(n, leg) = [sends EXCEPT ![n] = t]
  BY DEF OnWire, TypeOK
<1>3. [OnWire(n, leg) EXCEPT ![n].awaited = FALSE]
         = [sends EXCEPT ![n] = [t EXCEPT !.awaited = FALSE]]
  BY <1>2 DEF TypeOK
<1>4. sends \in [Sends -> Attempts]
  BY DEF TypeOK
<1> HIDE DEF s, t
<1>5. QED
  BY <1>1, <1>2, <1>3, <1>4

LEMMA SettleType ==
  ASSUME TypeOK, NEW n \in Sends, NEW a \in Answers, NEW leg \in {"out", "back", "over"},
         leg = "over" \/ leg = sends[n].leg, Settle(n, a, leg)
  PROVE  TypeOK'
<1> DEFINE status == Classify(a, sends[n].retry)
<1>0. sends[n].leg # "unsent" /\ sends[n].retry \in BOOLEAN
  BY AttemptFields DEF Settle
<1>1. status \in Statuses
  BY <1>0, Classification
<1>2. sends' \in [Sends -> Attempts]
  BY <1>0, OnWireType DEF Settle
<1>3. commands' \in [Ops -> Entries]
  <2>1. ASSUME NEW entry \in Entries PROVE After(entry, status) \in Entries
    BY DEF After, Absent, Entries
  <2>2. commands' = [commands EXCEPT ![OpOf(n)] = After(@, status)]
    BY DEF Settle
  <2> HIDE DEF status
  <2>3. QED
    BY <2>1, <2>2 DEF TypeOK
<1>4. dock' \in [Ops -> DockStates]
  <2>1. FeedbackStateFor(status, FALSE) \in DockStates
    BY <1>1, DockStatesShown
  <2>2. dock' = [dock EXCEPT ![OpOf(n)] = FeedbackStateFor(status, FALSE)]
    BY DEF Settle
  <2> HIDE DEF status
  <2>3. QED
    BY <2>1, <2>2 DEF TypeOK
<1>5. verdict' \in [Keys -> {"none"} \cup (Statuses \ {"unknown"})]
  BY <1>1 DEF TypeOK, Settle
<1>6. QED
  BY <1>2, <1>3, <1>4, <1>5 DEF TypeOK, Settle

LEMMA ClaimType ==
  ASSUME TypeOK, NEW op \in Ops, NEW k \in Keys, NEW n \in Sends,
         NEW since \in Nat, NEW retry \in BOOLEAN,
         Claim(op, k, n, since, retry),
         request' \in [Keys -> Requests \cup {NoRequest}]
  PROVE  TypeOK'
<1>1. FeedbackStateFor("sending", retry) \in DockStates
  BY DockStatesShown
<1>2. commands' \in [Ops -> Entries]
  BY DEF TypeOK, Claim, Entries
<1>3. sends' \in [Sends -> Attempts]
  BY DEF TypeOK, Claim, Attempts
<1>4. dock' \in [Ops -> DockStates]
  BY <1>1 DEF TypeOK, Claim
<1>5. QED
  BY <1>2, <1>3, <1>4 DEF TypeOK, Claim

LEMMA StartFreshType ==
  ASSUME TypeOK, NEW op \in Ops, NEW intent \in Intents, NEW k \in Keys,
         NEW n \in Sends, StartFresh(op, intent, k, n)
  PROVE  TypeOK'
<1>1. PICK s \in {commands[o].since : o \in Ops} : Claim(op, k, n, NextSince(s), FALSE)
  BY DEF StartFresh
<1>2. NextSince(s) \in Nat
  BY <1>1, EntryFields DEF NextSince
<1>3. request' \in [Keys -> Requests \cup {NoRequest}]
  BY DEF StartFresh, TypeOK, Requests
<1>4. QED
  BY <1>1, <1>2, <1>3, ClaimType

LEMMA AnswerType ==
  ASSUME TypeOK, NEW n \in Sends, sends[n].leg = "out", NEW a \in Answers, Answer(n, a)
  PROVE  sends' \in [Sends -> Attempts]
<1> DEFINE t == [sends[n] EXCEPT !.leg = "back", !.answer = a]
<1>1. t \in Attempts
  <2>1. sends[n] \in Attempts
    BY DEF TypeOK
  <2>2. sends[n] \in [leg : {"out", "over"}, key : Keys, retry : BOOLEAN,
                      awaited : BOOLEAN, answer : {NoAnswer}]
    BY <2>1 DEF Attempts, Unsent
  <2>3. QED
    BY <2>2 DEF Attempts
<1>2. sends' = [sends EXCEPT ![n] = t]
  BY DEF Answer, TypeOK
<1> HIDE DEF t
<1>3. QED
  BY <1>1, <1>2 DEF TypeOK

LEMMA RunType ==
  ASSUME TypeOK, NEW n \in Sends, Run(n)
  PROVE  TypeOK'
<1> USE AnswersInAnswers, AnswerType
<1>1. sends[n].leg = "out" /\ sends[n].key \in Keys
  BY AttemptFields DEF Run
<1>2. CASE Replay(n)
  BY <1>1, <1>2 DEF Replay, Run, recordVars, pageVars, TypeOK
<1>3. CASE Commit(n)
  BY <1>1, <1>3 DEF Commit, Run, pageVars, TypeOK
<1>4. CASE Conflict(n)
  BY <1>1, <1>4 DEF Conflict, Run, pageVars, TypeOK
<1>5. CASE Decline(n)
  BY <1>1, <1>5 DEF Decline, Run, pageVars, TypeOK
<1>6. CASE Break(n)
  BY <1>1, <1>6 DEF Break, Run, recordVars, pageVars, TypeOK
<1>7. QED
  BY <1>2, <1>3, <1>4, <1>5, <1>6 DEF Run

\* Every step of the page, the wire and the record layer keeps the types.
LEMMA StepType == TypeOK /\ [Next]_vars => TypeOK'
<1> SUFFICES ASSUME TypeOK, [Next]_vars PROVE TypeOK'
  OBVIOUS
<1> USE AnswersInAnswers
<1>1. ASSUME NEW op \in Ops, Click(op) PROVE TypeOK'
  <2>1. ASSUME NEW intent \in Intents, NEW n \in Sends, Recheck(op, intent, n)
        PROVE  TypeOK'
    <3>1. commands[op].key \in Keys /\ commands[op].since \in Nat
      BY <2>1, EntryFields DEF Recheck
    <3>2. request' \in [Keys -> Requests \cup {NoRequest}]
      BY <2>1 DEF Recheck, TypeOK
    <3>3. QED
      BY <2>1, <3>1, <3>2, ClaimType DEF Recheck
  <2>2. CASE ClickInFlight(op)
    <3>1. FeedbackStateFor("in_flight", FALSE) \in DockStates
      BY DockStatesShown
    <3>2. QED
      BY <2>2, <3>1 DEF ClickInFlight, TypeOK
  <2>3. ASSUME NEW intent \in Intents, ClickBlocked(op, intent)
        PROVE  TypeOK'
    <3>1. FeedbackStateFor("blocked", FALSE) \in DockStates
      BY DockStatesShown
    <3>2. QED
      BY <2>3, <3>1 DEF ClickBlocked, TypeOK
  <2>4. QED
    BY <1>1, <2>1, <2>2, <2>3, StartFreshType DEF Click
<1>2. ASSUME NEW n \in Sends, Wait(n) PROVE TypeOK'
  <2>1. CASE HearTooLate(n)
    <3>1. OnWire(n, "over") \in [Sends -> Attempts]
      BY <2>1, OnWireType DEF HearTooLate
    <3>2. QED
      BY <2>1, <3>1 DEF HearTooLate, TypeOK
  <2>2. CASE Deadline(n)
    <3>1. sends[n].leg \in {"out", "back", "over"}
      BY <2>2, AttemptFields DEF Deadline, Settle
    <3>2. QED
      BY <2>2, <3>1, SettleType DEF Deadline
  <2>3. CASE Unheard(n)
    BY <2>3, SettleType DEF Unheard
  <2>4. CASE RefuseOffline(n)
    BY <2>4, SettleType DEF RefuseOffline
  <2>5. CASE Hear(n)
    BY <2>5, AttemptFields, SettleType DEF Hear
  <2>6. QED
    BY <1>2, <2>1, <2>2, <2>3, <2>4, <2>5 DEF Wait
<1>3. ASSUME NEW n \in Sends, Network(n) PROVE TypeOK'
  <2>1. CASE TurnAway(n)
    BY <2>1, AnswerType DEF TurnAway, recordVars, pageVars, TypeOK
  <2>2. CASE Lose(n)
    <3>1. OnWire(n, "over") \in [Sends -> Attempts]
      BY <2>2, OnWireType DEF Lose
    <3>2. QED
      BY <2>2, <3>1 DEF Lose, recordVars, pageVars, TypeOK
  <2>3. QED
    BY <1>3, <2>1, <2>2, RunType DEF Network
<1>4. CASE UNCHANGED vars
  BY <1>4 DEF vars, TypeOK
<1>5. QED
  BY <1>1, <1>2, <1>3, <1>4 DEF Next

LEMMA InitType == Init => TypeOK
  BY DEF Init, TypeOK, Entries, Attempts, DockStates

\* The shape of the page's and the record layer's state, at every step.
THEOREM TypeCorrect == Spec => []TypeOK
  BY InitType, StepType, PTL DEF Spec

-----------------------------------------------------------------------------
(* The inductive invariant.  VerdictsTrue and OneLiveKey are not inductive *)
(* by themselves: what a page concludes from an answer is true only because*)
(* of what else may be on the wire with the same key.                      *)

\* A kept entry names a minted key, of its own operation, without a verdict.
EntriesFit ==
  \A op \in Ops : commands[op].status # "absent" =>
    /\ request[commands[op].key] \in Requests
    /\ request[commands[op].key].op = op
    /\ verdict[commands[op].key] = "none"

\* Only minted keys were ever sent, and an unminted one left no trace.
KeysFit ==
  /\ \A n \in Sends : sends[n].leg # "unsent" => request[sends[n].key] \in Requests
  /\ \A k \in Keys : request[k] = NoRequest => verdict[k] = "none" /\ memo[k] = NoAnswer

\* The store: accepted is committed, and nothing but judgements is stored.
StoreFits ==
  \A k \in Keys :
    /\ k \in committed <=> memo[k] = Accepted
    /\ memo[k] \in {NoAnswer, Accepted} \cup Stale \cup Declined

\* The judgements that the record layer stores and gives again for their key.
Lasting == Stale \cup (IF StickyRefusals THEN Declined ELSE {})

\* An answer on its way back says what the store says about its key.
AnswersFit ==
  \A n \in Sends : sends[n].leg = "back" =>
    /\ sends[n].answer \in {Accepted, AtTheDoor, ServerFault} \cup Stale \cup Declined
    /\ sends[n].answer = Accepted => memo[sends[n].key] = Accepted
    /\ sends[n].answer \in Lasting => memo[sends[n].key] = sends[n].answer

\* While a first attempt is awaited it is alone on the wire with its key, so a
\* door that turned it away turned the whole decision away.
FirstTryAlone ==
  \A n \in Sends : sends[n].awaited /\ ~ sends[n].retry =>
    /\ \A m \in Sends : m # n /\ sends[m].leg # "unsent" => sends[m].key # sends[n].key
    /\ sends[n].leg = "out" \/ sends[n].answer = AtTheDoor => memo[sends[n].key] = NoAnswer

\* Where refusals are stored, a denied key cannot land any more: its refusal is
\* stored, or no copy of its request is left on the wire.
DenialsHold ==
  \A k \in Keys :
    /\ verdict[k] = "ok" => memo[k] = Accepted
    /\ StickyRefusals /\ verdict[k] \in {"conflict", "refused"} =>
         /\ memo[k] # Accepted
         /\ memo[k] # NoAnswer \/ \A n \in Sends : sends[n].leg = "out" => sends[n].key # k

IInv ==
  /\ EntriesFit /\ KeysFit /\ StoreFits /\ AnswersFit
  /\ FirstTryAlone /\ DenialsHold /\ OneOpenSend /\ OneLiveKey

-----------------------------------------------------------------------------
(* The pieces every step of the proof looks at.                            *)

\* An awaited attempt belongs to an operation whose entry it fills.
LEMMA AwaitedFits ==
  ASSUME TypeOK, IInv, NEW n \in Sends, sends[n].awaited
  PROVE  /\ sends[n].key \in Keys
         /\ request[sends[n].key] \in Requests
         /\ OpOf(n) \in Ops
         /\ commands[OpOf(n)].status = "pending"
         /\ commands[OpOf(n)].key = sends[n].key
         /\ verdict[sends[n].key] = "none"
<1>1. sends[n].leg # "unsent" /\ sends[n].key \in Keys
  BY AttemptFields
<1>2. request[sends[n].key] \in Requests
  BY <1>1 DEF IInv, KeysFit
<1>3. OpOf(n) \in Ops
  BY <1>2 DEF OpOf, Requests
<1>4. commands[OpOf(n)].status = "pending" /\ commands[OpOf(n)].key = sends[n].key
  BY DEF IInv, OneOpenSend
<1>5. QED
  BY <1>1, <1>2, <1>3, <1>4 DEF IInv, EntriesFit

\* What the end of attempt n leaves behind, field by field.
Settled(n, leg, status) ==
  /\ request' = request /\ memo' = memo /\ committed' = committed
  /\ \A m \in Sends :
       /\ sends'[m].key = sends[m].key
       /\ m # n => sends'[m] = sends[m]
  /\ sends'[n].awaited = FALSE /\ sends'[n].leg = leg
  /\ leg # "over" => sends'[n].answer = sends[n].answer
  /\ \A o \in Ops \ {OpOf(n)} : commands'[o] = commands[o]
  /\ \A j \in Keys \ {sends[n].key} : verdict'[j] = verdict[j]
  /\ status = "unknown" =>
       /\ commands'[OpOf(n)].status = "unknown"
       /\ commands'[OpOf(n)].key = sends[n].key
       /\ verdict' = verdict
  /\ status # "unknown" =>
       /\ commands'[OpOf(n)] = Absent
       /\ verdict'[sends[n].key] = status

LEMMA SettleLeaves ==
  ASSUME TypeOK, IInv, NEW n \in Sends, NEW a \in Answers,
         NEW leg \in {"out", "back", "over"}, Settle(n, a, leg)
  PROVE  Settled(n, leg, Classify(a, sends[n].retry))
<1> DEFINE status == Classify(a, sends[n].retry)
<1>0. sends[n].awaited
  BY DEF Settle
<1>1. /\ OpOf(n) \in Ops
      /\ commands[OpOf(n)].status = "pending"
      /\ commands[OpOf(n)].key = sends[n].key
      /\ sends[n].key \in Keys
  BY <1>0, AwaitedFits
<1>2. sends[n].leg # "unsent"
  BY <1>0, AttemptFields
<1>3. commands[OpOf(n)] \in [status : {"pending", "unknown"}, key : Keys, since : Nat]
  BY <1>1 DEF TypeOK, Entries, Absent
<1>4. /\ request' = request /\ memo' = memo /\ committed' = committed
      /\ \A op \in Ops \ {OpOf(n)} : commands'[op] = commands[op]
      /\ commands'[OpOf(n)] = After(commands[OpOf(n)], status)
  <2>1. commands' = [commands EXCEPT ![OpOf(n)] = After(@, status)]
    BY DEF Settle
  <2>2. commands \in [Ops -> Entries]
    BY DEF TypeOK
  <2>3. /\ \A op \in Ops \ {OpOf(n)} : commands'[op] = commands[op]
        /\ commands'[OpOf(n)] = After(commands[OpOf(n)], status)
    BY <1>1, <2>1, <2>2
  <2>4. QED
    BY <2>3 DEF Settle
<1>5. /\ \A k \in Keys \ {sends[n].key} : verdict'[k] = verdict[k]
      /\ verdict'[sends[n].key] = IF status = "unknown" THEN verdict[sends[n].key] ELSE status
      /\ status = "unknown" => verdict' = verdict
  BY <1>1 DEF Settle, TypeOK
<1> HIDE DEF status
<1>6. /\ sends' = [OnWire(n, leg) EXCEPT ![n].awaited = FALSE]
      /\ sends \in [Sends -> Attempts]
  BY DEF Settle, TypeOK
<1>7. /\ \A m \in Sends : m # n => sends'[m] = sends[m]
      /\ sends'[n] = [[sends[n] EXCEPT !.leg = leg,
                         !.answer = IF leg = "over" THEN NoAnswer ELSE @] EXCEPT !.awaited = FALSE]
  BY <1>6 DEF OnWire
<1>8. sends[n] \in [leg : {"out", "over"}, key : Keys, retry : BOOLEAN, awaited : BOOLEAN,
                    answer : {NoAnswer}]
                \cup [leg : {"back"}, key : Keys, retry : BOOLEAN, awaited : BOOLEAN,
                      answer : Answers]
  BY <1>2, <1>6 DEF Attempts, Unsent
<1>9. /\ sends'[n].key = sends[n].key
      /\ sends'[n].awaited = FALSE /\ sends'[n].leg = leg
      /\ leg # "over" => sends'[n].answer = sends[n].answer
  BY <1>7, <1>8
<1>10. status = "unknown" => /\ commands'[OpOf(n)].status = "unknown"
                             /\ commands'[OpOf(n)].key = sends[n].key
  BY <1>1, <1>3, <1>4 DEF After
<1>11. status # "unknown" => commands'[OpOf(n)] = Absent
  BY <1>4 DEF After
<1>12. QED
  <2>1. \A m \in Sends : /\ sends'[m].key = sends[m].key
                         /\ m # n => sends'[m] = sends[m]
    BY <1>7, <1>9
  <2>2. Settled(n, leg, status)
    BY <1>4, <1>5, <1>9, <1>10, <1>11, <2>1 DEF Settled
  <2>3. QED
    BY <2>2 DEF status

\* A settled attempt keeps the invariant if its verdict is true and final.
LEMMA SettleInv ==
  ASSUME TypeOK, IInv, NEW n \in Sends, NEW a \in Answers,
         NEW leg \in {"out", "back", "over"}, leg = "over" \/ leg = sends[n].leg,
         Settle(n, a, leg),
         NEW status, status = Classify(a, sends[n].retry),
         status = "ok" => memo[sends[n].key] = Accepted,
         StickyRefusals /\ status \in {"conflict", "refused"} =>
           /\ memo[sends[n].key] # Accepted
           /\ \/ memo[sends[n].key] # NoAnswer
              \/ /\ leg = "over"
                 /\ \A m \in Sends : m # n /\ sends[m].leg # "unsent" =>
                                       sends[m].key # sends[n].key
  PROVE  IInv'
<1> DEFINE op == OpOf(n)
           k == sends[n].key
<1>0. sends[n].awaited
  BY DEF Settle
<1>1. /\ k \in Keys /\ op \in Ops /\ request[k] \in Requests
      /\ commands[op].status = "pending" /\ commands[op].key = k
      /\ verdict[k] = "none" /\ request[k].op = op
  BY <1>0, AwaitedFits DEF OpOf
<1>2. /\ request' = request /\ memo' = memo /\ committed' = committed
      /\ \A m \in Sends :
           /\ sends'[m].key = sends[m].key
           /\ m # n => sends'[m] = sends[m]
      /\ sends'[n].awaited = FALSE /\ sends'[n].leg = leg
      /\ leg # "over" => sends'[n].answer = sends[n].answer
      /\ \A o \in Ops \ {op} : commands'[o] = commands[o]
      /\ \A j \in Keys \ {k} : verdict'[j] = verdict[j]
      /\ status = "unknown" =>
           /\ commands'[op].status = "unknown"
           /\ commands'[op].key = k
           /\ verdict' = verdict
      /\ status # "unknown" => commands'[op] = Absent /\ verdict'[k] = status
  BY SettleLeaves, ZenonT(30) DEF Settled
<1>3. sends[n].leg # "unsent" /\ status \in Statuses
  BY <1>0, AttemptFields, Classification
<1>4. \A m \in Sends : m # n => (OpOf(m))' = OpOf(m)
  BY <1>2 DEF OpOf
<1> HIDE DEF op, k
<1>5. EntriesFit'
  <2> SUFFICES ASSUME NEW o \in Ops, commands'[o].status # "absent"
               PROVE  /\ request'[commands'[o].key] \in Requests
                      /\ request'[commands'[o].key].op = o
                      /\ verdict'[commands'[o].key] = "none"
    BY DEF EntriesFit
  <2>1. CASE o = op
    BY <1>1, <1>2, <2>1 DEF Absent
  <2>2. CASE o # op
    <3>1. /\ request[commands[o].key] \in Requests
          /\ request[commands[o].key].op = o
          /\ verdict[commands[o].key] = "none"
          /\ commands[o].key \in Keys
      BY <1>2, <2>2, EntryFields DEF IInv, EntriesFit
    <3>2. QED
      BY <1>1, <1>2, <2>2, <3>1
  <2>3. QED
    BY <2>1, <2>2
<1>6. KeysFit'
  BY <1>1, <1>2, <1>3 DEF IInv, KeysFit
<1>7. StoreFits'
  BY <1>2 DEF IInv, StoreFits
<1>8. AnswersFit'
  BY <1>2, <1>3 DEF IInv, AnswersFit
<1>9. FirstTryAlone'
  BY <1>2, <1>3 DEF IInv, FirstTryAlone
<1>10. DenialsHold'
  <2> SUFFICES ASSUME NEW j \in Keys
               PROVE  /\ verdict'[j] = "ok" => memo[j] = Accepted
                      /\ StickyRefusals /\ verdict'[j] \in {"conflict", "refused"} =>
                           /\ memo[j] # Accepted
                           /\ \/ memo[j] # NoAnswer
                              \/ \A m \in Sends : sends'[m].leg = "out" => sends'[m].key # j
    BY <1>2 DEF DenialsHold
  <2>1. CASE j # k
    <3>1. verdict'[j] = verdict[j]
      BY <1>2, <2>1
    <3>2. \A m \in Sends : sends'[m].leg = "out" /\ sends'[m].key = j =>
                            sends[m].leg = "out" /\ sends[m].key = j
      BY <1>2, <2>1 DEF k
    <3>3. QED
      BY <3>1, <3>2 DEF IInv, DenialsHold
  <2>2. CASE j = k
    <3>1. verdict'[k] \in {status, "none"} /\ (status = "unknown" => verdict'[k] = "none")
      BY <1>1, <1>2
    <3>2. leg = "over" /\ (\A m \in Sends : m # n /\ sends[m].leg # "unsent" =>
                                             sends[m].key # k)
            => \A m \in Sends : sends'[m].leg = "out" => sends'[m].key # k
      BY <1>2
    <3>3. QED
      BY <2>2, <3>1, <3>2 DEF k
  <2>3. QED
    BY <2>1, <2>2
<1>11. OneOpenSend'
  <2>1. \A m \in Sends : sends'[m].awaited => m # n /\ OpOf(m) # op
    BY <1>0, <1>2 DEF IInv, OneOpenSend, op
  <2>2. \A m \in Sends : sends'[m].awaited => OpOf(m) \in Ops
    BY <1>2, AwaitedFits
  <2>3. \A m \in Sends : sends'[m].awaited =>
          /\ commands'[(OpOf(m))'].status = "pending"
          /\ commands'[(OpOf(m))'].key = sends'[m].key
    BY <1>2, <1>4, <2>1, <2>2 DEF IInv, OneOpenSend
  <2>4. \A m, l \in Sends :
          sends'[m].awaited /\ sends'[l].awaited /\ (OpOf(m))' = (OpOf(l))' => m = l
    BY <1>2, <1>4, <2>1 DEF IInv, OneOpenSend
  <2>5. ASSUME NEW o \in Ops, commands'[o].status = "pending"
        PROVE  (Awaited(o))' # {}
    <3>1. o # op
      BY <1>2, <2>5 DEF Absent
    <3>2. PICK m \in Sends : sends[m].awaited /\ OpOf(m) = o
      BY <1>2, <2>5, <3>1 DEF IInv, OneOpenSend, Awaited
    <3>3. m # n
      BY <3>1, <3>2 DEF op
    <3>4. QED
      BY <1>2, <1>4, <3>2, <3>3 DEF Awaited
  <2>6. QED
    BY <2>3, <2>4, <2>5 DEF OneOpenSend
<1>12. OneLiveKey'
  <2>1. NoKey \notin Keys
    BY DEF ConstantsAssumption
  <2>2. Minted' = Minted
    BY <1>2 DEF Minted
  <2>3. ASSUME NEW j \in Minted
        PROVE  verdict'[j] = "none" <=> commands'[request'[j].op].key = j
    <3>1. j \in Keys /\ request[j] \in Requests /\ request[j].op \in Ops
      BY DEF Minted, TypeOK, Requests
    <3>2. verdict[j] = "none" <=> commands[request[j].op].key = j
      BY DEF IInv, OneLiveKey
    <3>3. CASE j = k
      BY <1>1, <1>2, <1>3, <2>1, <3>3 DEF Absent, Statuses
    <3>4. CASE j # k
      BY <1>1, <1>2, <2>1, <3>1, <3>2, <3>4 DEF Absent
    <3>5. QED
      BY <3>3, <3>4
  <2>4. QED
    BY <2>2, <2>3 DEF OneLiveKey
<1>13. QED
  BY <1>5, <1>6, <1>7, <1>8, <1>9, <1>10, <1>11, <1>12 DEF IInv

\* A claimed operation had nothing open, and its key is new or the one kept.
LEMMA ClaimInv ==
  ASSUME TypeOK, IInv, NEW op \in Ops, NEW k \in Keys, NEW n \in Sends,
         NEW since, NEW retry \in BOOLEAN, Claim(op, k, n, since, retry),
         commands[op].status # "pending",
         request'[k] \in Requests, request'[k].op = op, verdict[k] = "none",
         \A j \in Keys \ {k} : request'[j] = request[j],
         request[k] \in {NoRequest, request'[k]},
         ~ retry => request[k] = NoRequest,
         \A j \in Minted : j # k /\ request[j].op = op => verdict[j] # "none"
  PROVE  IInv'
<1>1. /\ sends[n].leg = "unsent"
      /\ commands' = [commands EXCEPT ![op] =
                        [status |-> "pending", key |-> k, since |-> since]]
      /\ sends' = [sends EXCEPT ![n] = [leg |-> "out", key |-> k, retry |-> retry,
                                        awaited |-> TRUE, answer |-> NoAnswer]]
      /\ memo' = memo /\ committed' = committed /\ verdict' = verdict
  BY DEF Claim
<1>2. /\ commands'[op].status = "pending" /\ commands'[op].key = k
      /\ \A o \in Ops \ {op} : commands'[o] = commands[o]
  BY <1>1 DEF TypeOK
<1>3. /\ sends'[n].leg = "out" /\ sends'[n].key = k /\ sends'[n].retry = retry
      /\ sends'[n].awaited /\ \A m \in Sends \ {n} : sends'[m] = sends[m]
  BY <1>1 DEF TypeOK
<1>4. ~ sends[n].awaited
  BY <1>1, AttemptFields
<1>5. \A m \in Sends : sends[m].leg # "unsent" =>
        /\ sends[m].key \in Keys /\ request[sends[m].key] \in Requests
        /\ request[sends[m].key] # NoRequest
        /\ request'[sends[m].key] = request[sends[m].key]
  BY AttemptFields, ConstantsAssumption DEF IInv, KeysFit
<1>6. \A m \in Sends : sends[m].awaited =>
        /\ sends[m].leg # "unsent" /\ OpOf(m) \in Ops /\ OpOf(m) # op
        /\ sends[m].key # k
        /\ (OpOf(m))' = OpOf(m)
  <2> SUFFICES ASSUME NEW m \in Sends, sends[m].awaited
               PROVE  /\ sends[m].leg # "unsent" /\ OpOf(m) \in Ops /\ OpOf(m) # op
                      /\ sends[m].key # k /\ (OpOf(m))' = OpOf(m)
    OBVIOUS
  <2>1. sends[m].leg # "unsent" /\ m # n
    BY <1>4, AttemptFields
  <2>2. OpOf(m) \in Ops /\ OpOf(m) # op
    BY AwaitedFits
  <2>3. (OpOf(m))' = OpOf(m)
    BY <1>3, <1>5, <2>1 DEF OpOf
  <2>4. sends[m].key # k
    BY <1>3, <2>1, <2>2, <2>3 DEF OpOf
  <2>5. QED
    BY <2>1, <2>2, <2>3, <2>4
<1>7. (OpOf(n))' = op
  BY <1>3 DEF OpOf
<1>8. EntriesFit'
  <2> SUFFICES ASSUME NEW o \in Ops, commands'[o].status # "absent"
               PROVE  /\ request'[commands'[o].key] \in Requests
                      /\ request'[commands'[o].key].op = o
                      /\ verdict'[commands'[o].key] = "none"
    BY DEF EntriesFit
  <2>1. CASE o = op
    BY <1>1, <1>2, <2>1
  <2>2. CASE o # op
    <3>1. /\ request[commands[o].key] \in Requests
          /\ request[commands[o].key].op = o
          /\ verdict[commands[o].key] = "none"
          /\ commands[o].key \in Keys
      BY <1>2, <2>2, EntryFields DEF IInv, EntriesFit
    <3>2. QED
      BY <1>1, <1>2, <2>2, <3>1, ConstantsAssumption
  <2>3. QED
    BY <2>1, <2>2
<1>9. KeysFit'
  BY <1>1, <1>3, <1>5, ConstantsAssumption DEF IInv, KeysFit
<1>10. StoreFits'
  BY <1>1 DEF IInv, StoreFits
<1>11. AnswersFit'
  BY <1>1, <1>3 DEF IInv, AnswersFit
<1>12. FirstTryAlone'
  <2> SUFFICES ASSUME NEW m \in Sends, sends'[m].awaited, ~ sends'[m].retry
               PROVE  /\ \A l \in Sends : l # m /\ sends'[l].leg # "unsent" =>
                                            sends'[l].key # sends'[m].key
                      /\ sends'[m].leg = "out" \/ sends'[m].answer = AtTheDoor =>
                           memo'[sends'[m].key] = NoAnswer
    BY DEF FirstTryAlone
  <2>1. CASE m = n
    BY <1>1, <1>3, <1>5, <2>1 DEF IInv, KeysFit
  <2>2. CASE m # n
    BY <1>1, <1>3, <1>6, <2>2 DEF IInv, FirstTryAlone
  <2>3. QED
    BY <2>1, <2>2
<1>13. DenialsHold'
  BY <1>1, <1>3 DEF IInv, DenialsHold
<1>14. OneOpenSend'
  <2>1. \A m \in Sends : sends'[m].awaited =>
          /\ commands'[(OpOf(m))'].status = "pending"
          /\ commands'[(OpOf(m))'].key = sends'[m].key
    BY <1>2, <1>3, <1>6, <1>7 DEF IInv, OneOpenSend
  <2>2. \A m, l \in Sends :
          sends'[m].awaited /\ sends'[l].awaited /\ (OpOf(m))' = (OpOf(l))' => m = l
    BY <1>3, <1>6, <1>7 DEF IInv, OneOpenSend
  <2>3. ASSUME NEW o \in Ops, commands'[o].status = "pending"
        PROVE  (Awaited(o))' # {}
    <3>1. CASE o = op
      BY <1>3, <1>7, <3>1 DEF Awaited
    <3>2. CASE o # op
      <4>1. PICK m \in Sends : sends[m].awaited /\ OpOf(m) = o
        BY <1>2, <2>3, <3>2 DEF IInv, OneOpenSend, Awaited
      <4>2. QED
        BY <1>3, <1>4, <1>6, <4>1 DEF Awaited
    <3>3. QED
      BY <3>1, <3>2
  <2>4. QED
    BY <2>1, <2>2, <2>3 DEF OneOpenSend
<1>15. OneLiveKey'
  <2> SUFFICES ASSUME NEW j \in Minted'
               PROVE  verdict'[j] = "none" <=> commands'[request'[j].op].key = j
    BY DEF OneLiveKey
  <2>1. CASE j = k
    BY <1>1, <1>2, <2>1
  <2>2. CASE j # k
    <3>1. j \in Minted /\ request'[j] = request[j] /\ request[j].op \in Ops
      BY <2>2 DEF Minted, TypeOK, Requests
    <3>2. verdict[j] = "none" <=> commands[request[j].op].key = j
      BY <3>1 DEF IInv, OneLiveKey
    <3>3. QED
      BY <1>1, <1>2, <2>2, <3>1, <3>2
  <2>3. QED
    BY <2>1, <2>2
<1>16. QED
  BY <1>8, <1>9, <1>10, <1>11, <1>12, <1>13, <1>14, <1>15 DEF IInv

\* A click keeps the invariant, whatever it decides to do.
LEMMA ClickInv ==
  ASSUME TypeOK, IInv, NEW op \in Ops, Click(op)
  PROVE  IInv'
<1>1. ASSUME NEW intent \in Intents, NEW k \in Keys, NEW n \in Sends,
             StartFresh(op, intent, k, n)
      PROVE  IInv'
  <2>1. PICK s \in {commands[o].since : o \in Ops} : Claim(op, k, n, NextSince(s), FALSE)
    BY <1>1 DEF StartFresh
  <2>2. commands[op].status = "absent" /\ request[k] = NoRequest /\ commands[op].key = NoKey
    BY <1>1, EntryFields DEF StartFresh, Absent
  <2>3. request' = [request EXCEPT ![k] = [op |-> op, intent |-> intent]]
    BY <1>1 DEF StartFresh
  <2>4. /\ request'[k] = [op |-> op, intent |-> intent]
        /\ \A j \in Keys \ {k} : request'[j] = request[j]
    BY <2>3 DEF TypeOK
  <2>5. request'[k] \in Requests /\ request'[k].op = op
    BY <2>4 DEF Requests
  <2>6. verdict[k] = "none"
    BY <2>2 DEF IInv, KeysFit
  <2>7. \A j \in Minted : j # k /\ request[j].op = op => verdict[j] # "none"
    BY <2>2 DEF IInv, OneLiveKey, Minted
  <2>8. QED
    BY <2>1, <2>2, <2>4, <2>5, <2>6, <2>7, ClaimInv, ZenonT(30)
<1>2. ASSUME NEW intent \in Intents, NEW n \in Sends, Recheck(op, intent, n)
      PROVE  IInv'
  <2> DEFINE k == commands[op].key
  <2>1. /\ commands[op].status = "unknown" /\ request' = request
        /\ Claim(op, k, n, commands[op].since, TRUE)
    BY <1>2 DEF Recheck
  <2>2. k \in Keys /\ request[k] \in Requests /\ request[k].op = op /\ verdict[k] = "none"
    BY <2>1, EntryFields DEF IInv, EntriesFit
  <2>3. \A j \in Minted : j # k /\ request[j].op = op => verdict[j] # "none"
    BY DEF IInv, OneLiveKey
  <2> HIDE DEF k
  <2>4. QED
    BY <2>1, <2>2, <2>3, ClaimInv
<1>3. ASSUME UNCHANGED <<commands, request, sends, memo, committed, verdict>>
      PROVE  IInv'
  BY <1>3 DEF IInv, EntriesFit, KeysFit, StoreFits, AnswersFit, FirstTryAlone,
              DenialsHold, OneOpenSend, OneLiveKey, Awaited, OpOf, Minted
<1>4. QED
  BY <1>1, <1>2, <1>3 DEF Click, ClickInFlight, ClickBlocked

\* A request or an answer dropped on the way keeps the invariant.
LEMMA WireInv ==
  ASSUME TypeOK, IInv, NEW n \in Sends, sends[n].leg \in {"out", "back"},
         sends' = OnWire(n, "over"),
         UNCHANGED <<commands, request, memo, committed, verdict>>
  PROVE  IInv'
<1>1. /\ \A m \in Sends : m # n => sends'[m] = sends[m]
      /\ sends'[n].key = sends[n].key /\ sends'[n].awaited = sends[n].awaited
      /\ sends'[n].retry = sends[n].retry
      /\ sends'[n].leg = "over" /\ sends'[n].answer = NoAnswer
  <2>1. sends \in [Sends -> Attempts] /\ sends[n] \in Attempts
    BY DEF TypeOK
  <2>2. /\ \A m \in Sends : m # n => sends'[m] = sends[m]
        /\ sends'[n] = [sends[n] EXCEPT !.leg = "over", !.answer = NoAnswer]
    BY <2>1 DEF OnWire
  <2>3. CASE sends[n] \in [leg : {"out", "over"}, key : Keys, retry : BOOLEAN,
                           awaited : BOOLEAN, answer : {NoAnswer}]
    BY <2>2, <2>3
  <2>4. CASE sends[n] \in [leg : {"back"}, key : Keys, retry : BOOLEAN,
                           awaited : BOOLEAN, answer : Answers]
    BY <2>2, <2>4
  <2>5. QED
    BY <2>1, <2>3, <2>4, <2>2 DEF Attempts, Unsent
<1>2. /\ \A m \in Sends : sends'[m].key = sends[m].key
      /\ \A m \in Sends : sends'[m].awaited = sends[m].awaited
      /\ \A m \in Sends : (OpOf(m))' = OpOf(m)
  BY <1>1 DEF OpOf
<1>3. EntriesFit' /\ StoreFits' /\ OneLiveKey'
  BY DEF IInv, EntriesFit, StoreFits, OneLiveKey, Minted
<1>4. KeysFit' /\ AnswersFit'
  BY <1>1 DEF IInv, KeysFit, AnswersFit
<1>5. FirstTryAlone'
  BY <1>1, NoAnswerAssumption, AnswersInAnswers DEF IInv, FirstTryAlone
<1>6. DenialsHold'
  BY <1>1 DEF IInv, DenialsHold
<1>7. OneOpenSend'
  BY <1>1, <1>2 DEF IInv, OneOpenSend, Awaited
<1>8. QED
  BY <1>3, <1>4, <1>5, <1>6, <1>7 DEF IInv

\* An attempt that ends, heard or not, keeps the invariant.
LEMMA WaitInv ==
  ASSUME TypeOK, IInv, NEW n \in Sends, Wait(n)
  PROVE  IInv'
<1> USE AnswersInAnswers
<1>1. ASSUME NEW a \in {Silence, GatewayFault, SessionChanged, NotSent},
             NEW leg \in {"out", "back", "over"}, leg = "over" \/ leg = sends[n].leg,
             Settle(n, a, leg)
      PROVE  IInv'
  <2>1. Classify(a, sends[n].retry) = "unknown"
    BY AttemptFields, NothingSettled
  <2>2. QED
    BY <1>1, <2>1, SettleInv
<1>2. CASE Deadline(n)
  <2>1. sends[n].leg \in {"out", "back", "over"}
    BY <1>2, AttemptFields DEF Deadline, Settle
  <2>2. QED
    BY <1>1, <1>2, <2>1 DEF Deadline
<1>3. CASE Unheard(n)
  BY <1>1, <1>3 DEF Unheard
<1>4. CASE RefuseOffline(n)
  BY <1>1, <1>4 DEF RefuseOffline
<1>5. CASE Hear(n)
  <2> DEFINE a == sends[n].answer
             status == Classify(a, sends[n].retry)
  <2>1. sends[n].leg = "back" /\ Settle(n, a, "over") /\ sends[n].awaited
    BY <1>5 DEF Hear, Settle
  <2>2. a \in Answers /\ sends[n].retry \in BOOLEAN
    BY <2>1, AttemptFields
  <2>3. /\ a = Accepted => memo[sends[n].key] = Accepted
        /\ a \in Lasting => memo[sends[n].key] = a
    BY <2>1 DEF IInv, AnswersFit
  <2>4. status = "ok" => memo[sends[n].key] = Accepted
    BY <2>2, <2>3, Classification
  <2>5. ASSUME StickyRefusals, status \in {"conflict", "refused"}
        PROVE  /\ memo[sends[n].key] # Accepted
               /\ \/ memo[sends[n].key] # NoAnswer
                  \/ \A m \in Sends : m # n /\ sends[m].leg # "unsent" =>
                                        sends[m].key # sends[n].key
    <3>1. CASE a \in Stale \cup Declined
      BY <2>2, <2>3, <2>5, <3>1, AnswersApart DEF Lasting
    <3>2. CASE a = AtTheDoor /\ ~ sends[n].retry
      BY <2>1, <3>2, NoAnswerAssumption DEF IInv, FirstTryAlone
    <3>3. QED
      BY <2>2, <2>5, <3>1, <3>2, Classification
  <2> HIDE DEF a, status
  <2>6. QED
    BY <2>1, <2>2, <2>4, <2>5, SettleInv DEF a, status
<1>6. CASE HearTooLate(n)
  <2>1. sends' = OnWire(n, "over") /\ ~ sends[n].awaited /\ sends[n].leg = "back"
    BY <1>6 DEF HearTooLate
  <2>2. QED
    BY <1>6, <2>1, WireInv DEF HearTooLate
<1>7. QED
  BY <1>2, <1>3, <1>4, <1>5, <1>6 DEF Wait

\* An answer keeps the invariant if the store backs it and never unsays.
LEMMA AnswerInv ==
  ASSUME TypeOK, IInv, NEW n \in Sends, sends[n].leg = "out",
         NEW a \in {Accepted, AtTheDoor, ServerFault} \cup Stale \cup Declined,
         Answer(n, a), UNCHANGED pageVars,
         \A j \in Keys \ {sends[n].key} :
           memo'[j] = memo[j] /\ (j \in committed' <=> j \in committed),
         sends[n].key \in committed' <=> memo'[sends[n].key] = Accepted,
         memo'[sends[n].key] \in {NoAnswer, Accepted} \cup Stale \cup Declined,
         memo[sends[n].key] # NoAnswer => memo'[sends[n].key] = memo[sends[n].key],
         a = Accepted => memo'[sends[n].key] = Accepted,
         a \in Lasting => memo'[sends[n].key] = a,
         a = AtTheDoor => memo'[sends[n].key] = memo[sends[n].key]
  PROVE  IInv'
<1> DEFINE k == sends[n].key
<1>1. k \in Keys /\ request[k] \in Requests
  BY AttemptFields DEF IInv, KeysFit
<1>2. commands' = commands /\ request' = request /\ verdict' = verdict
  BY DEF pageVars
<1>3. /\ \A m \in Sends : m # n => sends'[m] = sends[m]
      /\ sends'[n].key = k /\ sends'[n].awaited = sends[n].awaited
      /\ sends'[n].retry = sends[n].retry
      /\ sends'[n].leg = "back" /\ sends'[n].answer = a
  <2>1. sends \in [Sends -> Attempts] /\ sends[n] \in Attempts
    BY DEF TypeOK
  <2>2. /\ \A m \in Sends : m # n => sends'[m] = sends[m]
        /\ sends'[n] = [sends[n] EXCEPT !.leg = "back", !.answer = a]
    BY <2>1 DEF Answer
  <2>3. sends[n] \in [leg : {"out", "over"}, key : Keys, retry : BOOLEAN,
                      awaited : BOOLEAN, answer : {NoAnswer}]
    BY <2>1 DEF Attempts, Unsent
  <2>4. QED
    BY <2>2, <2>3
<1>4. /\ \A m \in Sends : sends'[m].key = sends[m].key
      /\ \A m \in Sends : sends'[m].awaited = sends[m].awaited
      /\ \A m \in Sends : sends'[m].retry = sends[m].retry
      /\ \A m \in Sends : (OpOf(m))' = OpOf(m)
  BY <1>2, <1>3 DEF OpOf
<1> HIDE DEF k
<1>5. EntriesFit' /\ OneLiveKey'
  BY <1>2 DEF IInv, EntriesFit, OneLiveKey, Minted
<1>6. KeysFit'
  BY <1>1, <1>2, <1>3, ConstantsAssumption DEF IInv, KeysFit, k
<1>7. StoreFits'
  BY DEF IInv, StoreFits
<1>8. AnswersFit'
  <2> SUFFICES ASSUME NEW m \in Sends, sends'[m].leg = "back"
               PROVE  /\ sends'[m].answer \in {Accepted, AtTheDoor, ServerFault}
                                                \cup Stale \cup Declined
                      /\ sends'[m].answer = Accepted => memo'[sends'[m].key] = Accepted
                      /\ sends'[m].answer \in Lasting =>
                           memo'[sends'[m].key] = sends'[m].answer
    BY DEF AnswersFit
  <2>1. CASE m = n
    BY <1>3, <2>1 DEF k
  <2>2. CASE m # n
    <3>1. /\ sends'[m] = sends[m] /\ sends[m].key \in Keys
          /\ sends[m].answer \in {Accepted, AtTheDoor, ServerFault} \cup Stale \cup Declined
          /\ sends[m].answer = Accepted => memo[sends[m].key] = Accepted
          /\ sends[m].answer \in Lasting =>
               memo[sends[m].key] = sends[m].answer
      BY <1>3, <2>2, AttemptFields DEF IInv, AnswersFit
    <3>2. memo[sends[m].key] # NoAnswer => memo'[sends[m].key] = memo[sends[m].key]
      BY <3>1
    <3>3. NoAnswer \notin {Accepted} \cup Lasting
      BY NoAnswerAssumption, AnswersInAnswers DEF Lasting
    <3>4. QED
      BY <3>1, <3>2, <3>3
  <2>3. QED
    BY <2>1, <2>2
<1>9. FirstTryAlone'
  <2> SUFFICES ASSUME NEW m \in Sends, sends'[m].awaited, ~ sends'[m].retry
               PROVE  /\ \A l \in Sends : l # m /\ sends'[l].leg # "unsent" =>
                                            sends'[l].key # sends'[m].key
                      /\ sends'[m].leg = "out" \/ sends'[m].answer = AtTheDoor =>
                           memo'[sends'[m].key] = NoAnswer
    BY DEF FirstTryAlone
  <2>1. sends[m].awaited /\ ~ sends[m].retry
    BY <1>4
  <2>2. /\ \A l \in Sends : l # m /\ sends[l].leg # "unsent" => sends[l].key # sends[m].key
        /\ sends[m].leg = "out" \/ sends[m].answer = AtTheDoor =>
             memo[sends[m].key] = NoAnswer
    BY <2>1 DEF IInv, FirstTryAlone
  <2>3. \A l \in Sends : l # m /\ sends'[l].leg # "unsent" => sends'[l].key # sends'[m].key
    BY <1>3, <1>4, <2>2
  <2>4. CASE m = n
    BY <1>3, <2>2, <2>3, <2>4 DEF k
  <2>5. CASE m # n
    <3>1. sends'[m] = sends[m] /\ sends[m].key # sends[n].key /\ sends[m].key \in Keys
      BY <1>3, <2>1, <2>2, <2>5, AttemptFields
    <3>2. QED
      BY <2>2, <2>3, <3>1
  <2>6. QED
    BY <2>4, <2>5
<1>10. DenialsHold'
  <2> SUFFICES ASSUME NEW j \in Keys
               PROVE  /\ verdict[j] = "ok" => memo'[j] = Accepted
                      /\ StickyRefusals /\ verdict[j] \in {"conflict", "refused"} =>
                           /\ memo'[j] # Accepted
                           /\ \/ memo'[j] # NoAnswer
                              \/ \A m \in Sends : sends'[m].leg = "out" => sends'[m].key # j
    BY <1>2 DEF DenialsHold
  <2>1. /\ verdict[j] = "ok" => memo[j] = Accepted
        /\ StickyRefusals /\ verdict[j] \in {"conflict", "refused"} =>
             /\ memo[j] # Accepted
             /\ memo[j] # NoAnswer \/ \A m \in Sends : sends[m].leg = "out" => sends[m].key # j
    BY DEF IInv, DenialsHold
  <2>2. \A m \in Sends : sends'[m].leg = "out" => sends[m].leg = "out"
    BY <1>3
  <2>3. CASE j = k
    <3>1. Accepted # NoAnswer
      BY NoAnswerAssumption, AnswersInAnswers
    <3>2. memo[k] # NoAnswer => memo'[k] = memo[k]
      BY DEF k
    <3>3. QED
      BY <2>1, <2>3, <3>1, <3>2 DEF k
  <2>4. CASE j # k
    BY <1>4, <2>1, <2>2, <2>4 DEF k
  <2>5. QED
    BY <2>3, <2>4
<1>11. OneOpenSend'
  BY <1>2, <1>4 DEF IInv, OneOpenSend, Awaited
<1>12. QED
  BY <1>5, <1>6, <1>7, <1>8, <1>9, <1>10, <1>11 DEF IInv

\* The record layer and the wire keep the invariant.
LEMMA NetworkInv ==
  ASSUME TypeOK, IInv, NEW n \in Sends, Network(n)
  PROVE  IInv'
<1> DEFINE k == sends[n].key
<1>1. CASE Run(n)
  <2>1. /\ sends[n].leg = "out" /\ k \in Keys /\ UNCHANGED pageVars
        /\ k \in committed <=> memo[k] = Accepted
        /\ memo[k] \in {NoAnswer, Accepted} \cup Stale \cup Declined
        /\ memo \in [Keys -> Answers \cup {NoAnswer}]
    BY <1>1, AttemptFields DEF Run, TypeOK, IInv, StoreFits
  <2>2. CASE Replay(n)
    <3>1. /\ memo[k] # NoAnswer /\ Answer(n, memo[k])
          /\ memo' = memo /\ committed' = committed
      BY <2>2 DEF Replay, recordVars
    <3>2. memo[k] # AtTheDoor
      BY <2>1, AnswersApart, NoAnswerAssumption, AnswersInAnswers
    <3>3. QED
      BY <2>1, <3>1, <3>2, AnswerInv
  <2>3. CASE Commit(n)
    <3>1. /\ memo[k] = NoAnswer /\ committed' = committed \cup {k}
          /\ memo' = [memo EXCEPT ![k] = Accepted]
      BY <2>3 DEF Commit
    <3>2. PICK a \in {Accepted, ServerFault} : Answer(n, a)
      BY <2>3 DEF Commit
    <3>3. memo'[k] = Accepted /\ \A j \in Keys \ {k} : memo'[j] = memo[j]
      BY <2>1, <3>1
    <3>4. a \notin Stale \cup Declined /\ a \notin Lasting /\ a # AtTheDoor
      BY AnswersApart DEF Lasting
    <3> HIDE DEF k
    <3>5. QED
      BY <2>1, <3>1, <3>2, <3>3, <3>4, AnswerInv DEF k
  <2>4. ASSUME NEW a \in Stale \cup Declined, Answer(n, a), memo[k] = NoAnswer,
               \/ memo' = [memo EXCEPT ![k] = a]
               \/ memo' = memo /\ a \notin Lasting,
               committed' = committed
        PROVE  IInv'
    <3>1. /\ memo'[k] = a \/ (memo'[k] = NoAnswer /\ a \notin Lasting)
          /\ \A j \in Keys \ {k} : memo'[j] = memo[j]
      BY <2>1, <2>4
    <3>2. a # Accepted /\ a # AtTheDoor /\ NoAnswer # Accepted
      BY AnswersApart, NoAnswerAssumption, AnswersInAnswers
    <3> HIDE DEF k
    <3>3. QED
      BY <2>1, <2>4, <3>1, <3>2, AnswerInv DEF k
  <2>5. CASE Conflict(n)
    BY <2>4, <2>5 DEF Conflict
  <2>6. CASE Decline(n)
    <3>1. PICK a \in Declined :
            Answer(n, a) /\ memo' = IF StickyRefusals THEN [memo EXCEPT ![k] = a] ELSE memo
      BY <2>6 DEF Decline
    <3>2. memo[k] = NoAnswer /\ committed' = committed
      BY <2>6 DEF Decline
    <3>3. ~ StickyRefusals => a \notin Lasting
      BY DEF Lasting, Stale, Declined, Error, Reply
    <3>4. QED
      BY <2>4, <3>1, <3>2, <3>3
  <2>7. CASE Break(n)
    <3>1. /\ Answer(n, ServerFault) /\ memo' = memo /\ committed' = committed
      BY <2>7 DEF Break, recordVars
    <3>2. ServerFault \notin Lasting
      BY AnswersApart DEF Lasting
    <3>3. QED
      BY <2>1, <3>1, <3>2, AnswersApart, AnswerInv
  <2>8. QED
    BY <1>1, <2>2, <2>3, <2>5, <2>6, <2>7 DEF Run
<1>2. CASE TurnAway(n)
  <2>1. /\ sends[n].leg = "out" /\ Answer(n, AtTheDoor) /\ UNCHANGED pageVars
        /\ memo' = memo /\ committed' = committed /\ k \in Keys
    BY <1>2, AttemptFields DEF TurnAway, recordVars
  <2>2. /\ k \in committed <=> memo[k] = Accepted
        /\ memo[k] \in {NoAnswer, Accepted} \cup Stale \cup Declined
    BY <2>1 DEF IInv, StoreFits
  <2>3. QED
    <3>1. AtTheDoor \notin Lasting
      BY AnswersApart DEF Lasting
    <3>2. QED
      BY <2>1, <2>2, <3>1, AnswersApart, AnswerInv
<1>3. CASE Lose(n)
  BY <1>3, WireInv DEF Lose, pageVars, recordVars
<1>4. QED
  BY <1>1, <1>2, <1>3 DEF Network

LEMMA InitInv == Init => IInv
  BY ConstantsAssumption, NoAnswerAssumption, AnswersInAnswers
     DEF Init, IInv, EntriesFit, KeysFit, StoreFits, AnswersFit, FirstTryAlone,
         DenialsHold, OneOpenSend, OneLiveKey, Absent, Unsent, Minted, Awaited

LEMMA StepInv == TypeOK /\ IInv /\ [Next]_vars => IInv'
<1> SUFFICES ASSUME TypeOK, IInv, [Next]_vars PROVE IInv'
  OBVIOUS
<1>1. CASE UNCHANGED vars
  BY <1>1 DEF vars, IInv, EntriesFit, KeysFit, StoreFits, AnswersFit, FirstTryAlone,
              DenialsHold, OneOpenSend, OneLiveKey, Awaited, OpOf, Minted
<1>2. QED
  BY <1>1, ClickInv, WaitInv, NetworkInv DEF Next

LEMMA Invariance == Spec => [](TypeOK /\ IInv)
<1>1. Init => TypeOK /\ IInv
  BY InitType, InitInv
<1>2. TypeOK /\ IInv /\ [Next]_vars => (TypeOK /\ IInv)'
  BY StepType, StepInv
<1>3. QED
  BY <1>1, <1>2, PTL DEF Spec

-----------------------------------------------------------------------------
(* What the invariant is for.                                              *)

\* No operation has two attempts being waited for, and "pending" is what the
\* page shows exactly while it has one.
THEOREM OneOpenSendHolds == Spec => []OneOpenSend
<1>1. TypeOK /\ IInv => OneOpenSend
  BY DEF IInv
<1>2. QED
  BY <1>1, Invariance, PTL

\* An operation never has a second key while its first may still take effect.
THEOREM OneLiveKeyHolds == Spec => []OneLiveKey
<1>1. TypeOK /\ IInv => OneLiveKey
  BY DEF IInv
<1>2. QED
  BY <1>1, Invariance, PTL

\* "Saved" is never said of a write that the record does not hold, however the
\* record layer treats refusals.
THEOREM ConfirmedHasLanded == Spec => [](\A k \in Minted : verdict[k] = "ok" => k \in committed)
<1>1. TypeOK /\ IInv => \A k \in Minted : verdict[k] = "ok" => k \in committed
  BY DEF IInv, DenialsHold, StoreFits, Minted
<1>2. QED
  BY <1>1, Invariance, PTL

\* Every verdict a person is given says what the record holds, for any number
\* of operations, retries and copies on the wire.
THEOREM VerdictsTrueHolds ==
  ASSUME StickyRefusals
  PROVE  Spec => []VerdictsTrue
<1>1. TypeOK /\ IInv => VerdictsTrue
  <2> SUFFICES ASSUME TypeOK, IInv, NEW k \in Minted
               PROVE  /\ verdict[k] = "ok" => k \in committed
                      /\ verdict[k] \in {"conflict", "refused"} => k \notin committed
    BY DEF VerdictsTrue
  <2>1. k \in Keys
    BY DEF Minted
  <2>2. QED
    BY <2>1 DEF IInv, DenialsHold, StoreFits
<1>2. QED
  BY <1>1, Invariance, PTL

\* The dock offers "Check outcome" for exactly the operations that are unresolved.
THEOREM DockOffersCheckHolds == Spec => []DockOffersCheck
<1>1. Init => DockOffersCheck
  BY DEF Init, DockOffersCheck, Absent
<1>2. TypeOK /\ IInv /\ DockOffersCheck /\ [Next]_vars => DockOffersCheck'
  <2> SUFFICES ASSUME TypeOK, IInv, DockOffersCheck, [Next]_vars PROVE DockOffersCheck'
    OBVIOUS
  <2>1. ASSUME NEW op \in Ops, NEW k, NEW n, NEW since, NEW retry \in BOOLEAN,
               Claim(op, k, n, since, retry)
        PROVE  DockOffersCheck'
    <3>1. /\ commands' = [commands EXCEPT ![op] =
                            [status |-> "pending", key |-> k, since |-> since]]
          /\ dock' = [dock EXCEPT ![op] = FeedbackStateFor("sending", retry)]
          /\ FeedbackStateFor("sending", retry) \in {"pending", "checking"}
      BY <2>1 DEF Claim, FeedbackStateFor
    <3>2. /\ commands'[op].status = "pending" /\ dock'[op] \in {"pending", "checking"}
          /\ \A o \in Ops \ {op} : commands'[o] = commands[o] /\ dock'[o] = dock[o]
      BY <3>1 DEF TypeOK
    <3>3. QED
      BY <3>2 DEF DockOffersCheck
  <2>2. ASSUME NEW op \in Ops, ClickInFlight(op) \/ \E intent \in Intents : ClickBlocked(op, intent)
        PROVE  DockOffersCheck'
    <3>1. /\ UNCHANGED commands
          /\ \/ commands[op].status = "pending" /\ dock' = [dock EXCEPT ![op] = "pending"]
             \/ commands[op].status = "unknown" /\ dock' = [dock EXCEPT ![op] = "unknown"]
      BY <2>2 DEF ClickInFlight, ClickBlocked, FeedbackStateFor
    <3>2. QED
      BY <3>1 DEF DockOffersCheck, TypeOK
  <2>3. ASSUME NEW n \in Sends, NEW a \in Answers, NEW leg, Settle(n, a, leg)
        PROVE  DockOffersCheck'
    <3> DEFINE status == Classify(a, sends[n].retry)
               o == OpOf(n)
    <3>1. status \in Statuses
      BY AttemptFields, Classification
    <3> HIDE DEF status
    <3>2. /\ commands' = [commands EXCEPT ![o] = After(@, status)]
          /\ dock' = [dock EXCEPT ![o] = FeedbackStateFor(status, FALSE)]
      BY <2>3 DEF Settle, status
    <3>3. /\ FeedbackStateFor(status, FALSE) = "unknown" <=> status = "unknown"
          /\ FeedbackStateFor(status, FALSE) \notin {"pending", "checking"}
      BY <3>1 DEF FeedbackStateFor, Statuses
    <3>4. o \in Ops /\ commands[o].status = "pending"
      BY <2>3, AwaitedFits DEF Settle, o
    <3> HIDE DEF o
    <3>5. After(commands[o], status).status = IF status = "unknown" THEN "unknown" ELSE "absent"
      BY <3>4, EntryFields DEF After, Absent, TypeOK, Entries
    <3>6. /\ commands'[o] = After(commands[o], status)
          /\ dock'[o] = FeedbackStateFor(status, FALSE)
          /\ \A p \in Ops \ {o} : commands'[p] = commands[p] /\ dock'[p] = dock[p]
      BY <3>2, <3>4 DEF TypeOK
    <3>7. QED
      BY <3>3, <3>5, <3>6 DEF DockOffersCheck
  <2>4. ASSUME NEW op \in Ops, Click(op) PROVE DockOffersCheck'
    <3>1. ASSUME NEW intent \in Intents, NEW k \in Keys, NEW n \in Sends,
                 StartFresh(op, intent, k, n)
          PROVE  DockOffersCheck'
      BY <2>1, <3>1 DEF StartFresh
    <3>2. ASSUME NEW intent \in Intents, NEW n \in Sends, Recheck(op, intent, n)
          PROVE  DockOffersCheck'
      BY <2>1, <3>2 DEF Recheck
    <3>3. QED
      BY <2>2, <2>4, <3>1, <3>2 DEF Click
  <2>5. ASSUME NEW n \in Sends, Wait(n) PROVE DockOffersCheck'
    <3>1. CASE Deadline(n) \/ Unheard(n) \/ RefuseOffline(n)
      BY <2>3, <3>1, AnswersInAnswers DEF Deadline, Unheard, RefuseOffline
    <3>2. CASE Hear(n)
      BY <2>3, <3>2, AttemptFields DEF Hear
    <3>3. CASE HearTooLate(n)
      BY <3>3 DEF HearTooLate, DockOffersCheck
    <3>4. QED
      BY <2>5, <3>1, <3>2, <3>3 DEF Wait
  <2>6. ASSUME NEW n \in Sends, Network(n) PROVE DockOffersCheck'
    BY <2>6 DEF Network, Run, TurnAway, Lose, pageVars, DockOffersCheck
  <2>7. CASE UNCHANGED vars
    BY <2>7 DEF vars, DockOffersCheck
  <2>8. QED
    BY <2>4, <2>5, <2>6, <2>7 DEF Next
<1>3. QED
  BY <1>1, <1>2, Invariance, PTL DEF Spec

-----------------------------------------------------------------------------
(* The kernel implements OneOutcome.                                       *)

\* What OneOutcome sees of the page.
Stage == [op \in Ops |-> StageOf(commands[op].status)]
Current == [op \in Ops |-> commands[op].key]

\* An entry that changes alone changes its own stage and decision alone.
LEMMA OneEntryChanges ==
  ASSUME NEW op \in Ops, \A o \in Ops \ {op} : commands'[o] = commands[o]
  PROVE  /\ Stage' = [Stage EXCEPT ![op] = Stage'[op]]
         /\ Current' = [Current EXCEPT ![op] = commands'[op].key]
         /\ Current[op] = commands[op].key
         /\ commands[op].status = "absent" => Stage[op] = "idle"
         /\ commands[op].status = "pending" => Stage[op] = "open"
         /\ commands[op].status = "unknown" => Stage[op] = "unresolved"
         /\ commands'[op].status = "absent" => Stage'[op] = "idle"
         /\ commands'[op].status = "pending" => Stage'[op] = "open"
         /\ commands'[op].status = "unknown" => Stage'[op] = "unresolved"
  BY DEF Stage, Current, StageOf

\* Each of these is a step of OneOutcome.
LEMMA PromiseSteps ==
  ASSUME NEW op \in Ops
  PROVE  /\ Promise!Land(op) => Promise!Next
         /\ Promise!LoseTrack(op) => Promise!Next
         /\ Promise!Confirm(op) => Promise!Next
         /\ Promise!Deny(op) => Promise!Next
  BY DEF Promise!Next

\* A step that leaves the entries, the requests and the record alone.
LEMMA NothingPromised ==
  ASSUME UNCHANGED <<commands, request, committed>>
  PROVE  UNCHANGED Promise!vars
  BY DEF Promise!vars, Minted

LEMMA ClickMaps ==
  ASSUME TypeOK, IInv, NEW op \in Ops, Click(op)
  PROVE  Promise!Next \/ UNCHANGED Promise!vars
<1>1. ASSUME NEW intent \in Intents, NEW k \in Keys, NEW n \in Sends,
             StartFresh(op, intent, k, n)
      PROVE  Promise!Decide(op, k)
  <2>1. PICK s \in {commands[o].since : o \in Ops} : Claim(op, k, n, NextSince(s), FALSE)
    BY <1>1 DEF StartFresh
  <2>2. /\ commands[op].status = "absent" /\ commands'[op].status = "pending"
        /\ commands'[op].key = k /\ committed' = committed
        /\ \A o \in Ops \ {op} : commands'[o] = commands[o]
    BY <1>1, <2>1 DEF StartFresh, Claim, TypeOK
  <2>3. k \notin Minted /\ Minted' = Minted \cup {k}
    BY <1>1, ConstantsAssumption DEF StartFresh, Minted, TypeOK, Requests
  <2>4. /\ Stage[op] = "idle" /\ Stage' = [Stage EXCEPT ![op] = "open"]
        /\ Current' = [Current EXCEPT ![op] = k]
    BY <2>2, OneEntryChanges
  <2>5. QED
    BY <2>2, <2>3, <2>4 DEF Promise!Decide, Stage, Current
<1>2. ASSUME NEW intent \in Intents, NEW n \in Sends, Recheck(op, intent, n)
      PROVE  Promise!Check(op)
  <2>1. /\ commands[op].status = "unknown" /\ commands'[op].status = "pending"
        /\ commands'[op].key = commands[op].key /\ committed' = committed
        /\ \A o \in Ops \ {op} : commands'[o] = commands[o]
        /\ Minted' = Minted
    BY <1>2 DEF Recheck, Claim, TypeOK, Minted
  <2>2. /\ Stage[op] = "unresolved" /\ Stage' = [Stage EXCEPT ![op] = "open"]
        /\ Current' = [Current EXCEPT ![op] = Current[op]]
    BY <2>1, OneEntryChanges
  <2>3. Current' = Current
    BY <2>2 DEF Current
  <2>4. QED
    BY <2>1, <2>2, <2>3 DEF Promise!Check, Stage, Current
<1>3. CASE ClickInFlight(op) \/ \E intent \in Intents : ClickBlocked(op, intent)
  BY <1>3, NothingPromised DEF ClickInFlight, ClickBlocked
<1>4. QED
  BY <1>1, <1>2, <1>3 DEF Click, Promise!Next

\* The end of an attempt confirms, denies or loses track of the decision.
LEMMA SettleMaps ==
  ASSUME StickyRefusals, TypeOK, IInv, IInv', NEW n \in Sends, NEW a \in Answers,
         NEW leg \in {"out", "back", "over"}, Settle(n, a, leg)
  PROVE  Promise!Next
<1> DEFINE k == sends[n].key
           status == Classify(a, sends[n].retry)
<1>1. sends[n].awaited /\ sends[n].retry \in BOOLEAN
  BY AttemptFields DEF Settle
<1>2. PICK op \in Ops :
        /\ op = OpOf(n) /\ k \in Keys
        /\ commands[op].status = "pending" /\ commands[op].key = k
  BY <1>1, AwaitedFits
<1>3. status \in Statuses
  BY <1>1, Classification
<1>4. Settled(n, leg, status)
  BY SettleLeaves
<1> HIDE DEF status
<1>5. /\ \A o \in Ops \ {op} : commands'[o] = commands[o]
      /\ Minted' = Minted /\ committed' = committed
  BY <1>2, <1>4 DEF Settled, Minted
<1>6. Stage[op] = "open" /\ Current[op] = k
  BY <1>2, <1>5, OneEntryChanges
<1>7. CASE status = "unknown"
  <2>1. commands'[op].status = "unknown" /\ commands'[op].key = k
    BY <1>2, <1>4, <1>7 DEF Settled
  <2> HIDE DEF k
  <2>2. Stage' = [Stage EXCEPT ![op] = "unresolved"] /\ Current' = [Current EXCEPT ![op] = k]
    BY <1>2, <1>5, <2>1, OneEntryChanges
  <2>3. Current' = Current
    BY <1>6, <2>2 DEF Current
  <2>4. Promise!LoseTrack(op)
    BY <1>5, <1>6, <2>2, <2>3 DEF Promise!LoseTrack, Stage, Current
  <2>5. QED
    BY <2>4, PromiseSteps
<1>8. CASE status # "unknown"
  <2>1. commands'[op] = Absent /\ verdict'[k] = status
    BY <1>2, <1>4, <1>8 DEF Settled
  <2>2. status = "ok" <=> k \in committed
    BY <1>2, <1>3, <1>5, <1>8, <2>1 DEF IInv, DenialsHold, StoreFits, Statuses
  <2> HIDE DEF k
  <2>3. Stage' = [Stage EXCEPT ![op] = "idle"] /\ Current' = [Current EXCEPT ![op] = NoKey]
    BY <1>2, <1>5, <2>1, OneEntryChanges DEF Absent
  <2>4. Promise!Close(op)
    BY <1>5, <1>6, <2>3 DEF Promise!Close, Stage, Current
  <2>5. CASE Current[op] \in committed
    <3>1. Promise!Confirm(op)
      BY <2>4, <2>5 DEF Promise!Confirm, Current
    <3>2. QED
      BY <3>1, PromiseSteps
  <2>6. CASE Current[op] \notin committed
    <3>1. Promise!Deny(op)
      BY <2>4, <2>6 DEF Promise!Deny, Current
    <3>2. QED
      BY <3>1, PromiseSteps
  <2>7. QED
    BY <2>5, <2>6
<1>9. QED
  BY <1>7, <1>8

\* A write lands while its decision is the operation's own and undecided, if a
\* refusal is as final as an acceptance.
LEMMA NetworkMaps ==
  ASSUME StickyRefusals, TypeOK, IInv, NEW n \in Sends, Network(n)
  PROVE  Promise!Next \/ UNCHANGED Promise!vars
<1> DEFINE k == sends[n].key
           op == OpOf(n)
<1>1. CASE Run(n) /\ Commit(n)
  <2>1. /\ sends[n].leg = "out" /\ memo[k] = NoAnswer
        /\ committed' = committed \cup {k}
        /\ commands' = commands /\ request' = request
    BY <1>1 DEF Run, Commit, pageVars
  <2>2. k \in Keys /\ request[k] \in Requests /\ op = request[k].op /\ op \in Ops
    BY <2>1, AttemptFields DEF IInv, KeysFit, OpOf, Requests
  <2>3. k \notin committed
    BY <2>1, <2>2, NoAnswerAssumption, AnswersInAnswers DEF IInv, StoreFits
  <2>4. verdict[k] = "none"
    <3>1. verdict[k] \in {"none", "ok", "conflict", "refused"}
      BY <2>2 DEF TypeOK, Statuses
    <3>2. verdict[k] # "ok"
      BY <2>1, <2>2, NoAnswerAssumption, AnswersInAnswers DEF IInv, DenialsHold
    <3>3. verdict[k] \notin {"conflict", "refused"}
      BY <2>1, <2>2 DEF IInv, DenialsHold
    <3>4. QED
      BY <3>1, <3>2, <3>3
  <2>5. k \in Minted
    BY <2>2, ConstantsAssumption DEF Minted
  <2>6. commands[op].key = k /\ commands[op].status # "absent"
    <3>1. commands[op].key = k
      BY <2>2, <2>4, <2>5 DEF IInv, OneLiveKey
    <3>2. QED
      BY <2>2, <3>1, EntryFields, ConstantsAssumption DEF Absent
  <2>7. commands[op].status \in {"pending", "unknown"}
    BY <2>2, <2>6, EntryFields
  <2> HIDE DEF op, k
  <2>8. Stage[op] # "idle" /\ Current[op] = k
    BY <2>2, <2>6, <2>7 DEF Stage, Current, StageOf
  <2>9. Promise!Land(op)
    <3>1. Stage' = Stage /\ Current' = Current /\ Minted' = Minted
      BY <2>1 DEF Stage, Current, Minted
    <3>2. QED
      BY <2>1, <2>3, <2>8, <3>1 DEF Promise!Land, Stage, Current
  <2>10. QED
    BY <2>2, <2>9, PromiseSteps
<1>2. CASE ~ (Run(n) /\ Commit(n))
  <2>1. UNCHANGED <<commands, request, committed>>
    BY <1>2 DEF Network, Run, Replay, Conflict, Decline, Break, TurnAway, Lose,
                pageVars, recordVars
  <2>2. QED
    BY <2>1, NothingPromised
<1>3. QED
  BY <1>1, <1>2

LEMMA WaitMaps ==
  ASSUME StickyRefusals, TypeOK, IInv, IInv', NEW n \in Sends, Wait(n)
  PROVE  Promise!Next \/ UNCHANGED Promise!vars
<1> USE AnswersInAnswers, SettleMaps
<1>1. CASE Deadline(n)
  <2>1. sends[n].leg \in {"out", "back", "over"}
    BY <1>1, AttemptFields DEF Deadline, Settle
  <2>2. QED
    BY <1>1, <2>1 DEF Deadline
<1>2. CASE Unheard(n)
  BY <1>2 DEF Unheard
<1>3. CASE RefuseOffline(n)
  BY <1>3 DEF RefuseOffline
<1>4. CASE Hear(n)
  BY <1>4, AttemptFields DEF Hear
<1>5. CASE HearTooLate(n)
  BY <1>5, NothingPromised DEF HearTooLate
<1>6. QED
  BY <1>1, <1>2, <1>3, <1>4, <1>5 DEF Wait

\* Every decision takes effect at most once, only while it is undecided, and
\* is reported as it ended: the kernel implements OneOutcome.
THEOREM ImplementsOneOutcome ==
  ASSUME StickyRefusals
  PROVE  Spec => KeepsPromise
<1>1. Init => Promise!Init
  BY DEF Init, Promise!Init, Absent, Minted, StageOf
<1>2. TypeOK /\ IInv /\ (TypeOK /\ IInv)' /\ [Next]_vars
        => [Promise!Next]_(Promise!vars)
  <2> SUFFICES ASSUME TypeOK, IInv, IInv', [Next]_vars
               PROVE  Promise!Next \/ UNCHANGED Promise!vars
    OBVIOUS
  <2>1. CASE UNCHANGED vars
    BY <2>1, NothingPromised DEF vars
  <2>2. QED
    BY <2>1, ClickMaps, WaitMaps, NetworkMaps DEF Next
<1>3. QED
  BY <1>1, <1>2, Invariance, PTL DEF Spec, KeepsPromise, Promise!Spec

-----------------------------------------------------------------------------
(* The order of the dock.                                                  *)

\* An absent entry holds place 0, and a kept one never does.
PlacesTaken ==
  \A op \in Ops : commands[op].status = "absent" <=> commands[op].since = 0

\* Kept entries never share a place, however often they are asked again.
THEOREM PlacesDistinctHolds == Spec => []PlacesDistinct
<1> DEFINE Places == PlacesDistinct /\ PlacesTaken
<1>1. Init => Places
  BY DEF Init, PlacesDistinct, PlacesTaken, Absent
<1>2. TypeOK /\ Places /\ [Next]_vars => Places'
  <2> SUFFICES ASSUME TypeOK, Places, [Next]_vars PROVE Places'
    OBVIOUS
  <2>1. ASSUME NEW op \in Ops, NEW intent \in Intents, NEW k \in Keys, NEW n \in Sends,
               StartFresh(op, intent, k, n)
        PROVE  Places'
    <3>1. PICK s \in {commands[o].since : o \in Ops} :
            Highest(s) /\ Claim(op, k, n, NextSince(s), FALSE)
      BY <2>1 DEF StartFresh
    <3>2. /\ s \in Nat /\ commands'[op].since = s + 1
          /\ commands'[op].status = "pending"
          /\ \A o \in Ops : commands[o].since \in Nat /\ commands[o].since <= s
          /\ \A o \in Ops \ {op} : commands'[o] = commands[o]
      BY <3>1, EntryFields DEF Claim, Highest, NextSince, TypeOK
    <3>3. PlacesTaken'
      BY <3>2 DEF PlacesTaken
    <3>4. PlacesDistinct'
      BY <3>2 DEF PlacesDistinct
    <3>5. QED
      BY <3>3, <3>4
  <2>2. ASSUME NEW op \in Ops, NEW intent \in Intents, NEW n \in Sends,
               Recheck(op, intent, n)
        PROVE  Places'
    <3>1. /\ commands[op].status # "absent" /\ commands'[op].since = commands[op].since
          /\ commands'[op].status # "absent"
          /\ \A o \in Ops \ {op} : commands'[o] = commands[o]
      BY <2>2 DEF Recheck, Claim, TypeOK
    <3>2. PlacesTaken'
      <4> SUFFICES ASSUME NEW o \in Ops
                   PROVE  commands'[o].status = "absent" <=> commands'[o].since = 0
        BY DEF PlacesTaken
      <4>1. CASE o = op
        BY <3>1, <4>1 DEF PlacesTaken
      <4>2. CASE o # op
        BY <3>1, <4>2 DEF PlacesTaken
      <4>3. QED
        BY <4>1, <4>2
    <3>3. PlacesDistinct'
      <4>1. \A o \in Ops : commands'[o].since = commands[o].since
        BY <3>1
      <4>2. \A o \in Ops : commands'[o].status # "absent" => commands[o].status # "absent"
        BY <3>1
      <4>3. QED
        BY <4>1, <4>2 DEF PlacesDistinct
    <3>4. QED
      BY <3>2, <3>3
  <2>3. ASSUME NEW n \in Sends, NEW a, NEW leg, Settle(n, a, leg)
        PROVE  Places'
    <3>1. \A o \in Ops :
            \/ commands'[o] = Absent
            \/ /\ commands'[o].status # "absent" /\ commands[o].status # "absent"
               /\ commands'[o].since = commands[o].since
      BY <2>3, EntryFields DEF Settle, After, Absent, TypeOK
    <3>2. PlacesTaken'
      BY <3>1 DEF PlacesTaken, Absent
    <3>3. PlacesDistinct'
      <4> SUFFICES ASSUME NEW p \in Ops, NEW q \in Ops,
                          commands'[p].status # "absent",
                          commands'[p].since = commands'[q].since
                   PROVE  p = q
        BY DEF PlacesDistinct
      <4>1. commands'[q].status # "absent"
        BY <3>2 DEF PlacesTaken
      <4>2. QED
        BY <3>1, <4>1 DEF PlacesDistinct, Absent
    <3>4. QED
      BY <3>2, <3>3
  <2>4. CASE UNCHANGED commands
    BY <2>4 DEF PlacesDistinct, PlacesTaken
  <2>5. ASSUME NEW op \in Ops, Click(op) PROVE Places'
    <3>1. CASE ClickInFlight(op) \/ \E intent \in Intents : ClickBlocked(op, intent)
      BY <2>4, <3>1 DEF ClickInFlight, ClickBlocked
    <3>2. QED
      BY <2>1, <2>2, <2>5, <3>1 DEF Click
  <2>6. ASSUME NEW n \in Sends, Wait(n) PROVE Places'
    BY <2>3, <2>4, <2>6 DEF Wait, Deadline, Unheard, RefuseOffline, Hear, HearTooLate
  <2>7. ASSUME NEW n \in Sends, Network(n) PROVE Places'
    BY <2>4, <2>7 DEF Network, Run, TurnAway, Lose, pageVars
  <2>8. QED
    BY <2>4, <2>5, <2>6, <2>7 DEF Next, vars
<1>3. QED
  BY <1>1, <1>2, TypeCorrect, PTL DEF Spec
=============================================================================
