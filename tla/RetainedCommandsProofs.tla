------------------------ MODULE RetainedCommandsProofs ------------------------
(***************************************************************************)
(* Proofs about RetainedCommands, for any operations, calls, intents and   *)
(* sessions.                                                               *)
(***************************************************************************)
EXTENDS RetainedCommands, TLAPS

USE ConstantsAssumption, NoAnswerAssumption

-----------------------------------------------------------------------------
(* The inductive invariant.                                                *)

Sent(m) == wire[m] # Unsent
Carries(m, k) == Sent(m) /\ wire[m].key = k
Is(c, told) == calls[c] # Idle /\ calls[c].told = told

\* An entry, retained or noted, is of an attempt that was made for its operation.
EntryFits(e, op) ==
  e # Absent => Carries(e.by, e.key) /\ calls[e.by].op = op

EntriesFit ==
  \A op \in Ops :
    /\ EntryFits(commands[op], op)
    /\ commands[op] # Absent => bindings[op] = wire[commands[op].by].binding
    /\ commands[op].status = "pending" => Open(commands[op].by)

NotesFit ==
  \A c \in Calls : calls[c] # Idle =>
    /\ EntryFits(calls[c].seen, calls[c].op)
    /\ calls[c].seen # Absent => calls[c].seenBinding = wire[calls[c].seen.by].binding
    /\ \/ calls[c].key = c
       \/ /\ calls[c].op \in Emails
          /\ calls[c].seen # Absent
          /\ calls[c].seen.key = calls[c].key

\* Whoever sent something has claimed its operation, with a request that its
\* maker was the first to send.
SentFit ==
  \A m \in Calls : Sent(m) =>
    /\ calls[m].step \in {"waiting", "done"} /\ calls[m].via = m
    /\ Carries(wire[m].key, wire[m].key)
    /\ calls[wire[m].key].op = calls[m].op

\* Whoever waits, waits for the attempt that the operation's entry names.
WaitsFit ==
  \A c \in Calls : calls[c].step = "waiting" =>
    /\ calls[c].via \in Calls /\ Open(calls[c].via) /\ Sent(calls[c].via)
    /\ calls[calls[c].via].op = calls[c].op
    /\ commands[calls[c].op] =
         [status |-> "pending", key |-> wire[calls[c].via].key, by |-> calls[c].via]

\* Whoever was told an outcome was told that of an attempt for its operation.
ToldFit ==
  \A c \in Calls : calls[c] # Idle =>
    /\ calls[c].told # "none" <=> calls[c].step = "done"
    /\ calls[c].told \in Statuses =>
         calls[c].via \in Calls /\ Sent(calls[c].via) /\ calls[calls[c].via].op = calls[c].op

\* What the record layer said is on its way, and only of requests it was sent.
JudgedFit ==
  /\ \A m \in Calls : Sent(m) /\ wire[m].leg = "back" =>
       \/ wire[m].answer = AtTheDoor
       \/ wire[m].answer \in Judgements /\ memo[wire[m].key] = wire[m].answer
  /\ \A k \in Calls : memo[k] # NoAnswer => Carries(k, k)

\* Nobody noted k as unresolved, so nobody can send it again.
Unseen(k) ==
  \A c \in Calls : calls[c] # Idle /\ calls[c].seen.status = "unknown" => calls[c].seen.key # k

\* The record has judged k, and if it took it, somebody was told so.
Closed(k) ==
  \/ memo[k] = Refusal
  \/ memo[k] = Accepted /\ \E d \in Calls : Is(d, "ok") /\ Reported(d) = k

\* No copy of k can reach the record any more, and none ever did.
Dead(k) ==
  /\ memo[k] = NoAnswer
  /\ Unseen(k)
  /\ \A m \in Calls : Carries(m, k) => wire[m].leg # "out"

\* Attempt n is the only one that ever carried its request.
FirstTry(n) ==
  /\ \A m \in Calls : Carries(m, wire[n].key) => m = n
  /\ Unseen(wire[n].key)
  /\ wire[n].leg = "out" \/ (wire[n].leg = "back" /\ wire[n].answer = AtTheDoor) =>
       memo[wire[n].key] = NoAnswer

FirstTries ==
  \A n \in Calls : Open(n) /\ ~ wire[n].retry =>
    FirstTry(n) \/ (calls[n].op \in Emails /\ Closed(wire[n].key))

\* A request that is no longer retained is settled for good.
Dropped ==
  \A k \in Calls : Carries(k, k) /\ commands[calls[k].op].key # k => Closed(k) \/ Dead(k)

ReportsFit ==
  \A c \in Calls :
    /\ Is(c, "ok") => memo[Reported(c)] = Accepted
    /\ Is(c, "refused") =>
         \/ memo[Reported(c)] = Refusal
         \/ calls[c].op \in Emails /\ Closed(Reported(c))
         \/ Dead(Reported(c)) /\ commands[calls[c].op].key # Reported(c)

Retained == EntriesFit /\ NotesFit /\ SentFit /\ WaitsFit /\ ToldFit
Judged == JudgedFit /\ FirstTries /\ Dropped /\ ReportsFit
IInv == TypeOK /\ Retained /\ ChecksSendNothing /\ Judged

-----------------------------------------------------------------------------
(* Types, and the forms a step can take.                                   *)

LEMMA Fields ==
  ASSUME TypeOK
  PROVE  /\ \A c \in Calls : calls[c].step = "idle" <=> calls[c] = Idle
         /\ \A c \in Calls : calls[c].step # "idle" => calls[c] \in Begun
         /\ \A c \in Calls : wire[c].leg = "unsent" <=> wire[c] = Unsent
         /\ \A c \in Calls : wire[c].leg # "unsent" => wire[c] \in Copies
         /\ \A op \in Ops : commands[op].status = "absent" <=> commands[op] = Absent
         /\ \A op \in Ops : commands[op] # Absent =>
              commands[op] \in [status : {"pending", "unknown"}, key : Calls, by : Calls]
  BY DEF TypeOK, Idle, Begun, Unsent, Copies, Absent, Entries

LEMMA Apart ==
  /\ Accepted # Refusal /\ AtTheDoor # Accepted /\ AtTheDoor # Refusal
  /\ NoAnswer \notin {Accepted, Refusal, AtTheDoor}
  /\ {Accepted, Refusal, AtTheDoor} \subseteq Answers
  BY DEF Accepted, Refusal, AtTheDoor, Error, Reply, Answers, Declined

\* How an attempt that says `status` ends: "ok" is an answer of the record; so is
\* a refusal, unless a first try was turned away or never left.
Ending(n, status, leg) ==
  /\ Settle(n, status, leg)
  /\ status \in {"ok", "refused", "unknown"}
  /\ leg = "over" \/ (leg = wire[n].leg /\ status = "unknown")
  /\ status = "ok" => wire[n].leg = "back" /\ wire[n].answer = Accepted
  /\ status = "refused" =>
       \/ wire[n].leg = "back" /\ wire[n].answer = Refusal
       \/ /\ ~ wire[n].retry
          /\ wire[n].leg = "out" \/ (wire[n].leg = "back" /\ wire[n].answer = AtTheDoor)

LEMMA AttemptsEnd ==
  ASSUME TypeOK, Retained, JudgedFit, NEW n \in Calls, Attempt(n)
  PROVE  \E status \in Statuses : \E leg \in {"out", "back", "over"} : Ending(n, status, leg)
<1>1. Open(n)
  BY DEF Attempt, Hear, GiveUp, RefuseOffline, Cancel, Settle
<1>2. wire[n] \in Copies
  BY <1>1, Fields DEF Open, Retained, WaitsFit, Sent
<1>3. wire[n].leg = "back" => wire[n].answer \in {Accepted, Refusal, AtTheDoor}
  BY <1>2 DEF JudgedFit, Sent, Judgements, Unsent, Copies
<1>4. ASSUME NEW a \in {Silence, GatewayFault, ServerFault, SessionChanged, NotSent},
             NEW retry \in BOOLEAN
      PROVE  Classify(a, retry) = "unknown"
  BY DEF Classify, ClassifyError, SaysNothing, Silence, GatewayFault, ServerFault,
         SessionChanged, NotSent, Error
<1>5. ASSUME NEW retry \in BOOLEAN
      PROVE  /\ Classify(Accepted, retry) = "ok"
             /\ Classify(Refusal, retry) = "refused"
             /\ Classify(AtTheDoor, retry) = IF retry THEN "unknown" ELSE "refused"
  BY DEF Classify, ClassifyError, SaysNothing, Accepted, Refusal, AtTheDoor, Error, Reply
<1>6. wire[n].retry \in BOOLEAN /\ wire[n].leg \in {"out", "back", "over"}
  BY <1>2 DEF Copies
<1>7. CASE Hear(n)
  BY <1>3, <1>5, <1>6, <1>7, Apart DEF Hear, Ending, Statuses
<1>8. CASE GiveUp(n)
  BY <1>4, <1>6, <1>8 DEF GiveUp, Ending, Statuses
<1>9. CASE RefuseOffline(n)
  BY <1>4, <1>6, <1>9 DEF RefuseOffline, Ending, Statuses
<1>10. CASE Cancel(n)
  BY <1>6, <1>10 DEF Cancel, Cancelled, Ending, Statuses
<1> QED
  BY <1>7, <1>8, <1>9, <1>10 DEF Attempt

\* A free operation's entry is what the call has to respect.
LEMMA FreeEntry ==
  ASSUME NEW c \in Calls, Free(c)
  PROVE  Prior(c) = commands[calls[c].op]
  BY DEF Free, Prior

-----------------------------------------------------------------------------
(* Type correctness, step by step.                                         *)

\* Whom a call can join has claimed the operation and can be waited for.
LEMMA JoinedAttempt ==
  ASSUME TypeOK, Retained, NEW c \in Calls, NEW s \in Sessions, Join(c, s)
  PROVE  /\ calls[c] \in Begun /\ calls[c].step = "scope"
         /\ Prior(c).by \in Calls
         /\ Carries(Prior(c).by, calls[c].key)
         /\ Prior(c).key = calls[c].key
         /\ calls[Prior(c).by].op = calls[c].op
         /\ calls[Prior(c).by] \in Begun
         /\ calls[Prior(c).by].step \in {"waiting", "done"}
         /\ calls[Prior(c).by].via = Prior(c).by
         /\ Prior(c).by # c
<1>1. calls[c] \in Begun /\ calls[c].step = "scope" /\ calls[c] # Idle
  BY Fields DEF Join, SameSession
<1>2. calls[c].seen \in Entries /\ calls[c].op \in Ops
  BY <1>1 DEF Begun
<1>3. Prior(c) \in Entries /\ EntryFits(Prior(c), calls[c].op)
  BY <1>1, <1>2 DEF Prior, TypeOK, Retained, EntriesFit, NotesFit
<1>4. Prior(c) # Absent /\ Prior(c).by \in Calls /\ Prior(c).key \in Calls
  BY <1>3 DEF Join, Free, Absent, Entries
<1>5. Prior(c).key = calls[c].key
  BY DEF Join, Repeats
<1>6. /\ calls[Prior(c).by].step \in {"waiting", "done"}
      /\ calls[Prior(c).by].via = Prior(c).by
  BY <1>3, <1>4 DEF EntryFits, Carries, Retained, SentFit
<1> QED
  BY <1>1, <1>3, <1>4, <1>5, <1>6, Fields DEF EntryFits

\* What a claim sends: the call's own request, or again the one retained.
ClaimKey(c) == IF Prior(c) # Absent THEN Prior(c).key ELSE calls[c].key
Sending(c, s) ==
  [leg |-> "out", key |-> ClaimKey(c), binding |-> s,
   retry |-> Prior(c) # Absent, answer |-> NoAnswer]

Holding(c) == [status |-> "pending", key |-> ClaimKey(c), by |-> c]
Awaiting(c) == [calls[c] EXCEPT !.step = "waiting", !.via = c]

LEMMA ClaimSteps ==
  ASSUME TypeOK, NEW c \in Calls, NEW s \in Sessions, Claim(c, s)
  PROVE  /\ calls[c] \in Begun /\ calls[c].step = "scope" /\ calls[c].op \in Ops
         /\ Prior(c) = commands[calls[c].op]
         /\ Prior(c) # Absent => Prior(c).status = "unknown"
         /\ ClaimKey(c) \in Calls
         /\ commands' = [commands EXCEPT ![calls[c].op] = Holding(c)]
         /\ bindings' = [bindings EXCEPT ![calls[c].op] = s]
         /\ calls' = [calls EXCEPT ![c] = Awaiting(c)]
         /\ wire' = [wire EXCEPT ![c] = Sending(c, s)]
         /\ memo' = memo
<1>1. calls[c] \in Begun /\ calls[c].step = "scope"
  BY Fields DEF Claim, SameSession
<1>2. calls[c].op \in Ops /\ calls[c].key \in Calls
  BY <1>1 DEF Begun
<1>3. Prior(c) = commands[calls[c].op] /\ Prior(c).status # "pending"
  BY FreeEntry DEF Claim, Free
<1>4. Prior(c) # Absent => Prior(c).status = "unknown" /\ Prior(c).key \in Calls
  BY <1>2, <1>3, Fields
<1> QED
  BY <1>1, <1>2, <1>3, <1>4 DEF Claim, ClaimKey, Sending, Holding, Awaiting

LEMMA ClaimTypes ==
  ASSUME TypeOK, NEW c \in Calls, NEW s \in Sessions, Claim(c, s)
  PROVE  TypeOK'
<1>1. /\ calls[c] \in Begun /\ calls[c].op \in Ops /\ ClaimKey(c) \in Calls
      /\ commands' = [commands EXCEPT ![calls[c].op] = Holding(c)]
      /\ bindings' = [bindings EXCEPT ![calls[c].op] = s]
      /\ calls' = [calls EXCEPT ![c] = Awaiting(c)]
      /\ wire' = [wire EXCEPT ![c] = Sending(c, s)]
      /\ memo' = memo
  BY ClaimSteps
<1>2. Holding(c) \in Entries
  BY <1>1 DEF Entries, Holding
<1>3. Awaiting(c) \in Begun
  BY <1>1 DEF Begun, Awaiting
<1>4. Sending(c, s) \in Copies
  BY <1>1 DEF Sending, Copies
<1> QED
  BY <1>1, <1>2, <1>3, <1>4 DEF TypeOK

\* What settling leaves of an entry, of its session and of the copy that was sent.
Kept(n, status) ==
  IF status = "unknown" THEN [status |-> "unknown", key |-> wire[n].key, by |-> n] ELSE Absent
BoundTo(op, status) == IF status = "unknown" THEN bindings[op] ELSE NoSession
CopyOf(n, leg, answer) == [wire[n] EXCEPT !.leg = leg, !.answer = answer]
AnswerLeft(n, leg) == IF leg = "over" THEN NoAnswer ELSE wire[n].answer

\* What settling an attempt changes.
LEMMA SettleSteps ==
  ASSUME TypeOK, Retained, NEW n \in Calls, NEW status, NEW leg, Settle(n, status, leg)
  PROVE  /\ calls[n] \in Begun /\ calls[n].op \in Ops /\ Open(n)
         /\ wire[n] \in Copies /\ wire[n].key \in Calls
         /\ commands[calls[n].op] = [status |-> "pending", key |-> wire[n].key, by |-> n]
         /\ commands' = [commands EXCEPT ![calls[n].op] = Kept(n, status)]
         /\ bindings' = [bindings EXCEPT ![calls[n].op] = BoundTo(calls[n].op, status)]
         /\ calls' = Told(n, status)
         /\ wire' = [wire EXCEPT ![n] = CopyOf(n, leg, AnswerLeft(n, leg))]
         /\ memo' = memo
<1>1. Open(n) /\ calls[n] \in Begun
  BY Fields DEF Settle, Open
<1>2. calls[n].op \in Ops
  BY <1>1 DEF Begun
<1>3. /\ Sent(n)
      /\ commands[calls[n].op] = [status |-> "pending", key |-> wire[n].key, by |-> n]
  BY <1>1 DEF Open, Retained, WaitsFit
<1>4. wire[n] \in Copies
  BY <1>3, Fields DEF Sent
<1>5. wire[n].key \in Calls
  BY <1>4 DEF Copies
<1>6. [commands[calls[n].op] EXCEPT !.status = "unknown"]
        = [status |-> "unknown", key |-> wire[n].key, by |-> n]
  BY <1>3
<1>7. commands' = [commands EXCEPT ![calls[n].op] = Kept(n, status)]
  <2>1. CASE status = "unknown"
    <3>1. commands' = [commands EXCEPT ![calls[n].op] =
                        [commands[calls[n].op] EXCEPT !.status = "unknown"]]
      BY <2>1 DEF Settle
    <3> QED
      BY <1>6, <2>1, <3>1 DEF Kept
  <2>2. CASE status # "unknown"
    BY <2>2 DEF Settle, Kept
  <2> QED
    BY <2>1, <2>2
<1>8. bindings' = [bindings EXCEPT ![calls[n].op] = BoundTo(calls[n].op, status)]
  BY <1>2 DEF Settle, TypeOK, BoundTo
<1>9. calls' = Told(n, status) /\ memo' = memo
  BY DEF Settle
<1>10. wire' = [wire EXCEPT ![n] = CopyOf(n, leg, AnswerLeft(n, leg))]
  <2>1. wire' = [wire EXCEPT ![n] = [wire[n] EXCEPT !.leg = leg,
                   !.answer = IF leg = "over" THEN NoAnswer ELSE @]]
    BY DEF Settle, OnWire
  <2> QED
    BY <2>1 DEF CopyOf, AnswerLeft
<1> QED
  BY <1>1, <1>2, <1>3, <1>4, <1>5, <1>7, <1>8, <1>9, <1>10

LEMMA CopyFields ==
  ASSUME NEW n \in Calls, wire[n] \in Copies, NEW leg \in {"out", "back", "over"},
         NEW answer \in Answers \cup {NoAnswer}
  PROVE  /\ CopyOf(n, leg, answer) \in Copies
         /\ CopyOf(n, leg, answer).leg = leg
         /\ CopyOf(n, leg, answer).answer = answer
         /\ CopyOf(n, leg, answer).key = wire[n].key
         /\ CopyOf(n, leg, answer).binding = wire[n].binding
         /\ CopyOf(n, leg, answer).retry = wire[n].retry
         /\ AnswerLeft(n, leg) \in Answers \cup {NoAnswer}
  BY DEF CopyOf, Copies, AnswerLeft

LEMMA SettleTypes ==
  ASSUME TypeOK, Retained, NEW n \in Calls, NEW status \in Statuses,
         NEW leg \in {"out", "back", "over"}, Settle(n, status, leg)
  PROVE  TypeOK'
<1>1. /\ calls[n].op \in Ops /\ wire[n] \in Copies /\ wire[n].key \in Calls
      /\ commands' = [commands EXCEPT ![calls[n].op] = Kept(n, status)]
      /\ bindings' = [bindings EXCEPT ![calls[n].op] = BoundTo(calls[n].op, status)]
      /\ calls' = Told(n, status)
      /\ wire' = [wire EXCEPT ![n] = CopyOf(n, leg, AnswerLeft(n, leg))]
      /\ memo' = memo
  BY SettleSteps
<1>2. commands' \in [Ops -> Entries]
  <2>1. Kept(n, status) \in Entries
    BY <1>1 DEF Kept, Entries
  <2> QED
    BY <1>1, <2>1 DEF TypeOK
<1>3. bindings' \in [Ops -> Sessions \cup {NoSession}]
  BY <1>1 DEF TypeOK, BoundTo
<1>4. calls' \in [Calls -> {Idle} \cup Begun]
  <2>1. ASSUME NEW c \in Calls, calls[c].step = "waiting"
        PROVE  [calls[c] EXCEPT !.step = "done", !.told = status] \in Begun
    <3>1. calls[c] \in Begun
      BY <2>1, Fields
    <3> QED
      BY <3>1 DEF Begun
  <2> QED
    BY <1>1, <2>1 DEF Told, TypeOK
<1>5. wire' \in [Calls -> {Unsent} \cup Copies]
  <2>1. CopyOf(n, leg, AnswerLeft(n, leg)) \in Copies
    <3>1. AnswerLeft(n, leg) \in Answers \cup {NoAnswer}
      BY <1>1 DEF AnswerLeft, Copies
    <3> QED
      BY <1>1, <3>1, CopyFields
  <2> QED
    BY <1>1, <2>1 DEF TypeOK
<1>6. memo' \in [Calls -> Judgements \cup {NoAnswer}]
  BY <1>1 DEF TypeOK
<1> QED
  BY <1>2, <1>3, <1>4, <1>5, <1>6 DEF TypeOK

\* What the record layer and the network change: one copy, and with a judgement
\* the memory of its key.
Heard(n, leg, answer) ==
  /\ wire' = [wire EXCEPT ![n] = CopyOf(n, leg, answer)]
  /\ leg = "back" => answer # NoAnswer /\ wire[n].leg = "out"
  /\ \/ answer \notin Judgements /\ memo' = memo
     \/ /\ answer \in Judgements /\ leg = "back"
        /\ memo[wire[n].key] \in {NoAnswer, answer}
        /\ memo' = [memo EXCEPT ![wire[n].key] = answer]

Sayable == Judgements \cup {AtTheDoor, NoAnswer}

LEMMA WireSteps ==
  ASSUME TypeOK, NEW n \in Calls, Serve(n) \/ Lose(n)
  PROVE  /\ wire[n] \in Copies /\ wire[n].key \in Calls
         /\ wire[n].leg \in {"out", "back"}
         /\ commands' = commands /\ bindings' = bindings /\ calls' = calls
         /\ \E leg \in {"back", "over"}, answer \in Sayable : Heard(n, leg, answer)
<1>1. wire[n].leg \in {"out", "back"} /\ wire[n] \in Copies
  BY Fields DEF Serve, Lose
<1>2. wire[n].key \in Calls
  BY <1>1 DEF Copies
<1>3. commands' = commands /\ bindings' = bindings /\ calls' = calls
  BY DEF Serve, Lose
<1>4. ASSUME Lose(n) PROVE Heard(n, "over", NoAnswer)
  <2>1. wire' = [wire EXCEPT ![n] = CopyOf(n, "over", NoAnswer)]
    BY <1>4 DEF Lose, OnWire, CopyOf
  <2> QED
    BY <1>4, <2>1, Apart DEF Heard, Lose, Judgements
<1>5. ASSUME NEW a, Answered(n, a)
      PROVE  wire' = [wire EXCEPT ![n] = CopyOf(n, "back", a)]
  BY <1>5 DEF Answered, CopyOf
<1>6. ASSUME wire[n].leg = "out", TurnAway(n) PROVE Heard(n, "back", AtTheDoor)
  BY <1>5, <1>6, Apart DEF Heard, TurnAway, Judgements
<1>7. ASSUME wire[n].leg = "out", Judge(n)
      PROVE  \E a \in Judgements : Heard(n, "back", a)
  <2>1. PICK a \in Judgements : /\ memo[wire[n].key] \in {NoAnswer, a}
                                /\ memo' = [memo EXCEPT ![wire[n].key] = a]
                                /\ Answered(n, a)
    BY <1>7 DEF Judge
  <2>2. a # NoAnswer
    BY Apart DEF Judgements
  <2>3. wire' = [wire EXCEPT ![n] = CopyOf(n, "back", a)]
    BY <1>5, <2>1
  <2>4. Heard(n, "back", a)
    BY <1>7, <2>1, <2>2, <2>3 DEF Heard
  <2> QED
    BY <2>4
<1>8. \E leg \in {"back", "over"}, answer \in Sayable : Heard(n, leg, answer)
  BY <1>4, <1>6, <1>7 DEF Serve, Lose, Sayable
<1> QED
  BY <1>1, <1>2, <1>3, <1>8

LEMMA WireTypes ==
  ASSUME TypeOK, NEW n \in Calls, Serve(n) \/ Lose(n)
  PROVE  TypeOK'
<1>1. /\ wire[n] \in Copies /\ wire[n].key \in Calls
      /\ commands' = commands /\ bindings' = bindings /\ calls' = calls
  BY WireSteps
<1>2. PICK leg \in {"back", "over"}, answer \in Sayable : Heard(n, leg, answer)
  BY WireSteps
<1>3. CopyOf(n, leg, answer) \in Copies
  BY <1>1, Apart, CopyFields DEF Sayable, Judgements
<1>4. wire' \in [Calls -> {Unsent} \cup Copies]
  BY <1>2, <1>3 DEF TypeOK, Heard
<1>5. memo' \in [Calls -> Judgements \cup {NoAnswer}]
  BY <1>1, <1>2 DEF TypeOK, Heard
<1> QED
  BY <1>1, <1>4, <1>5 DEF TypeOK

-----------------------------------------------------------------------------
(* Steps of one call: it observes, is turned back or joins.                *)

\* What such a step makes of call c.
Observing(c, new) ==
  /\ calls[c] = Idle
  /\ new.step = "scope" /\ new.told = "none"
  /\ new.seen = commands[new.op] /\ new.seenBinding = bindings[new.op]
  /\ new.key = c \/ /\ new.op \in Emails /\ new.seen # Absent
                    /\ new.seen.key = new.key

Scoping(c, new) ==
  /\ calls[c] # Idle /\ calls[c].step = "scope"
  /\ new.op = calls[c].op /\ new.key = calls[c].key
  /\ new.seen = calls[c].seen /\ new.seenBinding = calls[c].seenBinding

TurningBack(c, new) ==
  Scoping(c, new) /\ new.step = "done" /\ new.told \in TurnedBack

Joining(c, new) ==
  /\ Scoping(c, new)
  /\ new.via \in Calls
  /\ Sent(new.via)
  /\ calls[new.via].op = new.op
  /\ new.told = calls[new.via].told
  /\ new.step = IF calls[new.via].step = "done" THEN "done" ELSE "waiting"

CallStep(c, new) ==
  /\ new \in Begun
  /\ calls' = [calls EXCEPT ![c] = new]
  /\ commands' = commands /\ bindings' = bindings /\ wire' = wire /\ memo' = memo
  /\ Observing(c, new) \/ TurningBack(c, new) \/ Joining(c, new)

LEMMA StartIsStep ==
  ASSUME TypeOK, Retained, NEW c \in Calls, Start(c)
  PROVE  \E new : CallStep(c, new)
<1>1. ASSUME NEW op \in Ops, NEW intent \in Intents, NEW key \in Calls,
             Observe(c, op, intent, key),
             key = c \/ (op \in Emails /\ commands[op] # Absent /\ commands[op].key = key)
      PROVE  \E new : CallStep(c, new)
  <2> DEFINE new == [step |-> "scope", op |-> op, intent |-> intent, key |-> key,
                     seen |-> commands[op], seenBinding |-> bindings[op],
                     via |-> NoCall, told |-> "none"]
  <2>1. new \in Begun
    BY DEF TypeOK, Begun
  <2>2. calls' = [calls EXCEPT ![c] = new] /\ calls[c] = Idle
    BY <1>1 DEF Observe
  <2>3. Observing(c, new)
    BY <1>1, <2>2 DEF Observing
  <2>4. CallStep(c, new)
    BY <1>1, <2>1, <2>2, <2>3 DEF CallStep, Observe
  <2> QED
    BY <2>4
<1>2. ASSUME NEW op \in Ops, Repeat(c, op)
      PROVE  /\ commands[op].key \in Calls
             /\ calls[commands[op].key].intent \in Intents
  <2>1. EntryFits(commands[op], op) /\ commands[op] # Absent
    BY <1>2 DEF Repeat, Retained, EntriesFit
  <2>2. commands[op].key \in Calls /\ commands[op].by \in Calls
    BY <2>1, Fields
  <2>3. Carries(commands[op].key, commands[op].key)
    BY <2>1, <2>2 DEF EntryFits, Carries, Retained, SentFit
  <2>4. calls[commands[op].key].step \in {"waiting", "done"}
    BY <2>2, <2>3 DEF Carries, Retained, SentFit
  <2> QED
    BY <2>2, <2>4, Fields DEF Begun
<1>3. ASSUME NEW op \in Ops, Repeat(c, op) PROVE \E new : CallStep(c, new)
  <2>1. Observe(c, op, calls[commands[op].key].intent, commands[op].key)
    BY <1>3 DEF Repeat
  <2> QED
    BY <1>1, <1>2, <1>3, <2>1 DEF Repeat
<1>4. ASSUME NEW op \in Ops, NEW intent \in Intents, Make(c, op, intent)
      PROVE  \E new : CallStep(c, new)
  BY <1>1, <1>4 DEF Make
<1> QED
  BY <1>3, <1>4 DEF Start

LEMMA TurnBackIsStep ==
  ASSUME TypeOK, NEW c \in Calls, NEW t \in TurnedBack, TurnBack(c, t)
  PROVE  \E new : CallStep(c, new)
<1> DEFINE new == [calls[c] EXCEPT !.step = "done", !.told = t]
<1>1. calls[c] \in Begun /\ calls[c] # Idle
  BY Fields DEF TurnBack
<1>2. new \in Begun /\ new.step = "done" /\ new.told = t
  BY <1>1 DEF Begun
<1>3. /\ new.op = calls[c].op /\ new.key = calls[c].key
      /\ new.seen = calls[c].seen /\ new.seenBinding = calls[c].seenBinding
  BY <1>1 DEF Begun
<1>4. calls' = [calls EXCEPT ![c] = new]
  BY DEF TurnBack, Finish
<1>5. CallStep(c, new)
  <2> HIDE DEF new
  <2> QED
    BY <1>1, <1>2, <1>3, <1>4 DEF CallStep, TurnBack, TurningBack, Scoping
<1> QED
  BY <1>5

LEMMA JoinIsStep ==
  ASSUME TypeOK, Retained, NEW c \in Calls, NEW s \in Sessions, Join(c, s)
  PROVE  \E new : CallStep(c, new)
<1> DEFINE n == Prior(c).by
           step == IF calls[n].step = "done" THEN "done" ELSE "waiting"
           new == [calls[c] EXCEPT !.step = step, !.told = calls[n].told, !.via = n]
<1>1. n \in Calls /\ Sent(n) /\ calls[n] \in Begun /\ calls[n].op = calls[c].op
  BY JoinedAttempt DEF Carries
<1>2. calls[c] \in Begun /\ calls[c].step = "scope" /\ calls[c] # Idle
  <2>1. calls[c] \in Begun /\ calls[c].step = "scope"
    BY JoinedAttempt
  <2> QED
    BY <2>1 DEF Idle
<1>3. calls' = [calls EXCEPT ![c] = new]
  BY DEF Join
<1>4. step \in {"done", "waiting"} /\ calls[n].told \in {"none"} \cup Statuses \cup TurnedBack
  BY <1>1 DEF Begun
<1>5. /\ new \in Begun /\ new.step = step /\ new.told = calls[n].told /\ new.via = n
      /\ new.op = calls[c].op /\ new.key = calls[c].key
      /\ new.seen = calls[c].seen /\ new.seenBinding = calls[c].seenBinding
  <2> HIDE DEF n, step
  <2> QED
    BY <1>1, <1>2, <1>4 DEF Begun
<1>6. Joining(c, new)
  <2> HIDE DEF n, new
  <2> QED
    BY <1>1, <1>2, <1>5 DEF Joining, Scoping
<1>7. CallStep(c, new)
  <2> HIDE DEF n, new
  <2> QED
    BY <1>3, <1>5, <1>6 DEF CallStep, Join
<1> QED
  BY <1>7

LEMMA CallStepTypes ==
  ASSUME TypeOK, NEW c \in Calls, NEW new, CallStep(c, new)
  PROVE  TypeOK'
  BY DEF TypeOK, CallStep

LEMMA CallStepRetained ==
  ASSUME TypeOK, Retained, NEW c \in Calls, NEW new, CallStep(c, new)
  PROVE  Retained'
<1>1. /\ calls[c].step \in {"idle", "scope"} /\ ~ Sent(c)
      /\ new \in Begun /\ new # Idle /\ new.op \in Ops /\ new.seen \in Entries
  <2>1. calls[c].step \in {"idle", "scope"}
    BY Fields DEF CallStep, Observing, TurningBack, Joining, Scoping, Idle
  <2>2. ~ Sent(c)
    BY <2>1 DEF Retained, SentFit
  <2> QED
    BY <2>1, <2>2 DEF CallStep, Begun, Idle
<1>2. /\ calls' = [calls EXCEPT ![c] = new] /\ calls'[c] = new
      /\ \A x \in Calls : x # c => calls'[x] = calls[x]
      /\ commands' = commands /\ bindings' = bindings /\ wire' = wire
  BY DEF CallStep, TypeOK
<1>3. ASSUME NEW e \in Entries, NEW op, EntryFits(e, op)
      PROVE  EntryFits(e, op)' /\ (e # Absent => e.by \in Calls /\ e.by # c)
  <2>1. CASE e = Absent
    BY <2>1 DEF EntryFits
  <2>2. CASE e # Absent
    <3>1. e.by \in Calls /\ Sent(e.by)
      BY <1>3, <2>2 DEF EntryFits, Carries, Entries
    <3>2. e.by # c
      BY <1>1, <3>1
    <3> QED
      BY <1>2, <1>3, <3>1, <3>2 DEF EntryFits, Carries, Sent
  <2> QED
    BY <2>1, <2>2
<1>4. EntriesFit'
  <2> SUFFICES ASSUME NEW op \in Ops
               PROVE  /\ EntryFits(commands[op], op)'
                      /\ commands[op] # Absent => bindings[op] = wire[commands[op].by].binding
                      /\ commands[op].status = "pending" => Open(commands[op].by)'
    BY <1>2 DEF EntriesFit
  <2>1. commands[op] \in Entries /\ EntryFits(commands[op], op)
    BY DEF TypeOK, Retained, EntriesFit
  <2>2. commands[op].status = "pending" => Open(commands[op].by)'
    BY <1>2, <1>3, <2>1, Fields DEF Retained, EntriesFit, Open, Absent
  <2>3. EntryFits(commands[op], op)'
    BY <1>2, <1>3, <2>1
  <2> QED
    BY <2>2, <2>3 DEF Retained, EntriesFit
<1>5. NotesFit'
  <2>1. ASSUME NEW x \in Calls, x # c, calls[x] # Idle
        PROVE  /\ EntryFits(calls[x].seen, calls[x].op)'
               /\ calls'[x] = calls[x]
    <3>1. calls[x].seen \in Entries /\ EntryFits(calls[x].seen, calls[x].op)
      BY <2>1, Fields DEF Retained, NotesFit, Begun
    <3> QED
      BY <1>2, <1>3, <2>1, <3>1
  <2>2. EntryFits(new.seen, new.op)
    BY <1>1 DEF CallStep, Observing, TurningBack, Joining, Scoping, Retained, EntriesFit, NotesFit
  <2>3. EntryFits(new.seen, new.op)'
    <3>1. EntryFits(new.seen, new.op)'
       = (new.seen # Absent => Carries(new.seen.by, new.seen.key)' /\ calls'[new.seen.by].op = new.op)
      BY DEF EntryFits
    <3>2. CASE new.seen = Absent
      BY <3>1, <3>2
    <3>3. CASE new.seen # Absent
      <4>1. new.seen.by \in Calls /\ Carries(new.seen.by, new.seen.key)
            /\ calls[new.seen.by].op = new.op
        BY <1>1, <2>2, <3>3 DEF EntryFits, Entries
      <4>2. new.seen.by # c
        BY <1>1, <4>1 DEF Carries
      <4> QED
        BY <1>2, <3>1, <4>1, <4>2 DEF Carries, Sent
    <3> QED
      BY <3>2, <3>3
  <2>4. new.seen # Absent => new.seenBinding = wire[new.seen.by].binding
    BY <1>1 DEF CallStep, Observing, TurningBack, Joining, Scoping, Retained, EntriesFit, NotesFit
  <2>5. \/ new.key = c
        \/ new.op \in Emails /\ new.seen # Absent /\ new.seen.key = new.key
    BY <1>1 DEF CallStep, Observing, TurningBack, Joining, Scoping, Retained, NotesFit
  <2> QED
    BY <1>2, <2>1, <2>3, <2>4, <2>5 DEF Retained, NotesFit
<1>6. SentFit'
  <2> SUFFICES ASSUME NEW m \in Calls, Sent(m)
               PROVE  /\ calls'[m].step \in {"waiting", "done"} /\ calls'[m].via = m
                      /\ Carries(wire[m].key, wire[m].key)
                      /\ calls'[wire[m].key].op = calls'[m].op
    BY <1>2 DEF SentFit, Sent, Carries
  <2>1. m # c /\ wire[m].key \in Calls
    BY <1>1, Fields DEF Sent, Copies
  <2>2. Carries(wire[m].key, wire[m].key) /\ wire[m].key # c
    BY <1>1 DEF Carries, Retained, SentFit
  <2> QED
    BY <1>2, <2>1, <2>2 DEF Retained, SentFit
<1>7. WaitsFit'
  <2>1. ASSUME NEW x \in Calls, x # c, calls[x].step = "waiting"
        PROVE  /\ calls[x].via \in Calls /\ Open(calls[x].via)' /\ Sent(calls[x].via)'
               /\ calls'[calls[x].via].op = calls[x].op
    <3>1. calls[x].via \in Calls /\ Open(calls[x].via) /\ Sent(calls[x].via)
          /\ calls[calls[x].via].op = calls[x].op
      BY <2>1 DEF Retained, WaitsFit
    <3>2. calls[x].via # c
      BY <1>1, <3>1
    <3> QED
      BY <1>2, <2>1, <3>1, <3>2 DEF Open, Sent
  <2>2. ASSUME new.step = "waiting"
        PROVE  /\ new.via \in Calls /\ new.via # c
               /\ Open(new.via) /\ Sent(new.via)
               /\ calls[new.via].op = new.op
               /\ commands[new.op] =
                    [status |-> "pending", key |-> wire[new.via].key, by |-> new.via]
    <3>1. Joining(c, new) /\ calls[new.via].step # "done"
      BY <2>2 DEF CallStep, Observing, TurningBack, Joining
    <3>2. new.via \in Calls /\ Sent(new.via) /\ calls[new.via].op = new.op
      BY <3>1 DEF Joining
    <3>3. Open(new.via)
      BY <3>1, <3>2 DEF Retained, SentFit, Open
    <3> QED
      BY <1>1, <3>2, <3>3 DEF Retained, WaitsFit, Open
  <2>3. ASSUME new.step = "waiting" PROVE Open(new.via)' /\ Sent(new.via)'
    BY <1>2, <2>2, <2>3 DEF Open, Sent
  <2> DEFINE Waits(x, v) ==
               /\ v \in Calls /\ calls'[v].step = "waiting" /\ calls'[v].via = v /\ wire'[v] # Unsent
               /\ calls'[v].op = calls'[x].op
               /\ commands'[calls'[x].op] = [status |-> "pending", key |-> wire'[v].key, by |-> v]
  <2>4. ASSUME new.step = "waiting" PROVE Waits(c, new.via)
    <3>1. Open(new.via)' /\ Sent(new.via)'
      BY <2>3, <2>4
    <3> QED
      BY <1>2, <2>2, <2>4, <3>1 DEF Open, Sent
  <2>5. ASSUME NEW x \in Calls, x # c, calls[x].step = "waiting" PROVE Waits(x, calls[x].via)
    <3>1. commands[calls[x].op] =
            [status |-> "pending", key |-> wire[calls[x].via].key, by |-> calls[x].via]
      BY <2>5 DEF Retained, WaitsFit
    <3> QED
      BY <1>2, <2>1, <2>5, <3>1 DEF Open, Sent
  <2>6. \A x \in Calls : calls'[x].step = "waiting" => Waits(x, calls'[x].via)
    BY <1>2, <2>4, <2>5
  <2> QED
    BY <2>6 DEF WaitsFit, Open, Sent
<1>8. ToldFit'
  <2>1. ASSUME NEW x \in Calls, x # c, calls[x] # Idle, calls[x].told \in Statuses
        PROVE  calls[x].via \in Calls /\ Sent(calls[x].via)'
               /\ calls'[calls[x].via].op = calls[x].op
    <3>1. calls[x].via \in Calls /\ Sent(calls[x].via) /\ calls[calls[x].via].op = calls[x].op
      BY <2>1 DEF Retained, ToldFit
    <3> QED
      BY <1>1, <1>2, <2>1, <3>1 DEF Sent
  <2>2. new.told # "none" <=> new.step = "done"
    <3>1. CASE Joining(c, new)
      <4>1. new.via \in Calls /\ Sent(new.via)
        BY <3>1 DEF Joining
      <4>2. calls[new.via].step \in {"waiting", "done"}
        BY <4>1 DEF Retained, SentFit
      <4>3. calls[new.via] # Idle
        BY <4>2 DEF Idle
      <4> QED
        BY <3>1, <4>1, <4>3 DEF Joining, Retained, ToldFit
    <3>2. CASE ~ Joining(c, new)
      BY <3>2 DEF CallStep, Observing, TurningBack, TurnedBack
    <3> QED
      BY <3>1, <3>2
  <2>3. ASSUME new.told \in Statuses
        PROVE  new.via \in Calls /\ Sent(new.via)' /\ calls'[new.via].op = new.op
    <3>1. Joining(c, new)
      BY <2>3 DEF CallStep, Observing, TurningBack, TurnedBack, Statuses
    <3> QED
      BY <1>1, <1>2, <3>1 DEF Joining, Sent
  <2> QED
    BY <1>2, <2>1, <2>2, <2>3 DEF Retained, ToldFit
<1> QED
  BY <1>4, <1>5, <1>6, <1>7, <1>8 DEF Retained

-----------------------------------------------------------------------------
(* Steps of an attempt: it is claimed, it is settled, its copy travels.    *)

\* Fitting entries keep fitting while copies keep their request and calls their
\* operation.
LEMMA EntryKept ==
  ASSUME TypeOK, NEW e \in Entries, NEW op, EntryFits(e, op),
         \A m \in Calls : wire[m] # Unsent =>
           wire'[m] # Unsent /\ wire'[m].key = wire[m].key /\ calls'[m].op = calls[m].op
  PROVE  e # Absent => /\ e.by \in Calls /\ e.key \in Calls
                       /\ wire[e.by] # Unsent /\ wire[e.by].key = e.key
                       /\ wire'[e.by] # Unsent /\ wire'[e.by].key = e.key
                       /\ calls'[e.by].op = op
<1>1. CASE e = Absent
  BY <1>1
<1>2. CASE e # Absent
  <2>1. e.by \in Calls /\ e.key \in Calls
    BY <1>2 DEF Entries
  <2> QED
    BY <1>2, <2>1 DEF EntryFits, Carries, Sent
<1> QED
  BY <1>1, <1>2

LEMMA ClaimedKey ==
  ASSUME TypeOK, Retained, NEW c \in Calls, NEW s \in Sessions, Claim(c, s)
  PROVE  /\ ~ Sent(c)
         /\ \/ ClaimKey(c) = c
            \/ Carries(ClaimKey(c), ClaimKey(c)) /\ calls[ClaimKey(c)].op = calls[c].op
<1>1. /\ calls[c] \in Begun /\ calls[c].step = "scope" /\ calls[c].op \in Ops
      /\ ClaimKey(c) \in Calls
      /\ Prior(c) = commands[calls[c].op]
  BY ClaimSteps
<1>2. ~ Sent(c)
  BY <1>1 DEF Retained, SentFit
<1>3. calls[c] # Idle
  BY <1>1 DEF Idle
<1>4. ASSUME NEW e \in Entries, e # Absent, EntryFits(e, calls[c].op)
      PROVE  Carries(e.key, e.key) /\ calls[e.key].op = calls[c].op
  <2>1. e.by \in Calls /\ e.key \in Calls
    BY <1>4 DEF Entries
  <2> QED
    BY <1>4, <2>1 DEF EntryFits, Carries, Retained, SentFit
<1>5. CASE Prior(c) # Absent
  BY <1>1, <1>2, <1>4, <1>5 DEF TypeOK, Retained, EntriesFit, ClaimKey
<1>6. CASE Prior(c) = Absent
  <2>1. ClaimKey(c) = calls[c].key
    BY <1>6 DEF ClaimKey
  <2>2. calls[c].seen \in Entries
    BY <1>1 DEF Begun
  <2> QED
    BY <1>2, <1>3, <1>4, <2>1, <2>2 DEF Retained, NotesFit
<1> QED
  BY <1>5, <1>6

LEMMA ClaimRetained ==
  ASSUME TypeOK, Retained, NEW c \in Calls, NEW s \in Sessions, Claim(c, s)
  PROVE  Retained'
<1>a. PICK op \in Ops, key \in Calls : op = calls[c].op /\ key = ClaimKey(c)
  BY ClaimSteps
<1>1. /\ calls[c] \in Begun /\ calls[c].step = "scope" /\ op \in Ops /\ key \in Calls
      /\ commands' = [commands EXCEPT ![op] = Holding(c)]
      /\ bindings' = [bindings EXCEPT ![op] = s]
      /\ calls' = [calls EXCEPT ![c] = Awaiting(c)]
      /\ wire' = [wire EXCEPT ![c] = Sending(c, s)]
      /\ commands[op].status # "pending"
  BY <1>a, ClaimSteps DEF Absent
<1>2. ~ Sent(c) /\ (key = c \/ (Carries(key, key) /\ calls[key].op = op))
  BY <1>a, ClaimedKey
<1>3. /\ wire'[c] = Sending(c, s) /\ Sending(c, s).key = key
      /\ Sending(c, s).binding = s /\ Sent(c)'
      /\ \A m \in Calls : m # c => wire'[m] = wire[m]
      /\ commands'[op] = Holding(c)
      /\ \A o \in Ops : o # op => commands'[o] = commands[o] /\ bindings'[o] = bindings[o]
      /\ bindings'[op] = s
  BY <1>1, <1>a DEF TypeOK, Sending, Sent, Unsent
<1>4. /\ \A x \in Calls : x # c => calls'[x] = calls[x]
      /\ calls'[c] = Awaiting(c)
  BY <1>1 DEF TypeOK
<1>5. /\ Awaiting(c).step = "waiting" /\ Awaiting(c).via = c
      /\ Awaiting(c).op = op /\ Awaiting(c).key = calls[c].key
      /\ Awaiting(c).seen = calls[c].seen /\ Awaiting(c).seenBinding = calls[c].seenBinding
      /\ Awaiting(c).told = calls[c].told
      /\ Awaiting(c) # Idle /\ calls[c] # Idle
  <2>1. calls[c] # Idle
    BY <1>1 DEF Idle
  <2>2. Awaiting(c) \in Begun /\ Awaiting(c).step = "waiting" /\ Awaiting(c).via = c
    BY <1>1 DEF Awaiting, Begun
  <2>3. /\ Awaiting(c).op = calls[c].op /\ Awaiting(c).key = calls[c].key
        /\ Awaiting(c).seen = calls[c].seen /\ Awaiting(c).seenBinding = calls[c].seenBinding
        /\ Awaiting(c).told = calls[c].told
    BY <1>1 DEF Awaiting, Begun
  <2> QED
    BY <1>a, <2>1, <2>2, <2>3 DEF Idle
<1>6. Holding(c) # Absent /\ Holding(c) = [status |-> "pending", key |-> key, by |-> c]
  BY <1>a DEF Holding, Absent
<1>7. \A m \in Calls : Sent(m) =>
        m # c /\ Sent(m)' /\ wire'[m].key = wire[m].key /\ calls'[m].op = calls[m].op
  BY <1>2, <1>3, <1>4 DEF Sent
<1>b. \A m \in Calls : wire[m] # Unsent =>
        wire'[m] # Unsent /\ wire'[m].key = wire[m].key /\ calls'[m].op = calls[m].op
  BY <1>7 DEF Sent
<1>8. EntriesFit'
  <2>1. EntryFits(commands[op], op)' /\ Open(c)'
    BY <1>3, <1>4, <1>5, <1>6 DEF EntryFits, Carries, Open
  <2>2. ASSUME NEW o \in Ops, o # op
        PROVE  /\ EntryFits(commands[o], o)'
               /\ commands'[o] # Absent => bindings'[o] = wire'[commands'[o].by].binding
               /\ commands'[o].status = "pending" => Open(commands[o].by)'
    <3>1. commands[o] \in Entries /\ EntryFits(commands[o], o)
      BY DEF TypeOK, Retained, EntriesFit
    <3>2. commands'[o] = commands[o] /\ bindings'[o] = bindings[o]
      BY <1>3, <2>2
    <3>3. commands[o] # Absent =>
            /\ commands[o].by \in Calls /\ wire[commands[o].by] # Unsent
            /\ wire'[commands[o].by] # Unsent
            /\ wire'[commands[o].by].key = commands[o].key
            /\ calls'[commands[o].by].op = o
      BY <1>b, <3>1, EntryKept
    <3>4. commands[o] # Absent => commands[o].by # c
      BY <1>7, <3>3 DEF Sent
    <3>5. EntryFits(commands[o], o)'
      BY <3>2, <3>3 DEF EntryFits, Carries, Sent
    <3>6. commands[o] # Absent => bindings[o] = wire'[commands[o].by].binding
      BY <1>3, <3>3, <3>4 DEF Retained, EntriesFit
    <3>7. commands[o].status = "pending" => Open(commands[o].by)'
      BY <1>4, <3>2, <3>3, <3>4 DEF Retained, EntriesFit, Open, Absent
    <3> QED
      BY <3>2, <3>5, <3>6, <3>7
  <2> QED
    BY <1>3, <1>6, <2>1, <2>2 DEF EntriesFit
<1>9. NotesFit'
  <2> SUFFICES ASSUME NEW x \in Calls, calls[x] # Idle
               PROVE  /\ EntryFits(calls[x].seen, calls[x].op)'
                      /\ calls[x].seen # Absent =>
                           calls[x].seenBinding = wire'[calls[x].seen.by].binding
    BY <1>4, <1>5, <1>a DEF Retained, NotesFit
  <2>1. calls[x].seen \in Entries /\ EntryFits(calls[x].seen, calls[x].op)
    BY Fields DEF Retained, NotesFit, Begun
  <2>2. calls[x].seen # Absent =>
          /\ calls[x].seen.by \in Calls /\ wire[calls[x].seen.by] # Unsent
          /\ wire'[calls[x].seen.by] # Unsent
          /\ wire'[calls[x].seen.by].key = calls[x].seen.key
          /\ calls'[calls[x].seen.by].op = calls[x].op
    BY <1>b, <2>1, EntryKept
  <2>3. calls'[x].seen = calls[x].seen /\ calls'[x].op = calls[x].op
    BY <1>4, <1>5, <1>a
  <2> QED
    BY <1>3, <1>7, <2>2, <2>3 DEF EntryFits, Carries, Sent, Retained, NotesFit
<1>10. SentFit'
  <2>1. Carries(key, key)' /\ calls'[key].op = op
    BY <1>2, <1>3, <1>4, <1>5, <1>7 DEF Carries, Sent
  <2>2. ASSUME NEW m \in Calls, m # c, Sent(m)'
        PROVE  /\ calls'[m].step \in {"waiting", "done"} /\ calls'[m].via = m
               /\ Carries(wire[m].key, wire[m].key)'
               /\ calls'[wire'[m].key].op = calls'[m].op
    <3>1. Sent(m) /\ wire'[m] = wire[m] /\ calls'[m] = calls[m] /\ wire[m].key \in Calls
      BY <1>3, <1>4, <2>2, Fields DEF Sent, Copies
    <3>2. Carries(wire[m].key, wire[m].key) /\ calls[wire[m].key].op = calls[m].op
      BY <3>1 DEF Retained, SentFit
    <3>3. wire[m].key # c
      BY <1>2, <3>2 DEF Carries
    <3> QED
      BY <1>3, <1>4, <3>1, <3>2, <3>3 DEF Retained, SentFit, Carries, Sent
  <2> QED
    BY <1>3, <1>4, <1>5, <2>1, <2>2 DEF SentFit, Carries, Sent
<1>11. WaitsFit'
  <2>1. ASSUME NEW x \in Calls, x # c, calls[x].step = "waiting"
        PROVE  /\ calls[x].via \in Calls /\ calls[x].via # c
               /\ Open(calls[x].via) /\ Sent(calls[x].via)
               /\ calls[calls[x].via].op = calls[x].op
               /\ calls[x].op \in Ops /\ calls[x].op # op
               /\ commands[calls[x].op] =
                    [status |-> "pending", key |-> wire[calls[x].via].key, by |-> calls[x].via]
    <3>1. calls[x].op \in Ops
      BY <2>1, Fields DEF Begun
    <3> QED
      BY <1>1, <1>2, <2>1, <3>1 DEF Retained, WaitsFit
  <2>2. ASSUME NEW x \in Calls, x # c, calls[x].step = "waiting"
        PROVE  /\ Open(calls[x].via)' /\ Sent(calls[x].via)'
               /\ calls'[calls[x].via].op = calls[x].op
               /\ commands'[calls[x].op] = commands[calls[x].op]
               /\ wire'[calls[x].via].key = wire[calls[x].via].key
    <3>1. calls'[x] = calls[x] /\ calls[x].via \in Calls /\ calls[x].via # c
      BY <1>4, <2>1, <2>2
    <3>2. /\ calls'[calls[x].via] = calls[calls[x].via]
          /\ wire'[calls[x].via] = wire[calls[x].via]
      BY <1>3, <1>4, <3>1
    <3>3. /\ Open(calls[x].via) /\ Sent(calls[x].via)
          /\ calls[calls[x].via].op = calls[x].op
          /\ calls[x].op \in Ops /\ calls[x].op # op
      BY <2>1, <2>2
    <3>4. Open(calls[x].via)' /\ Sent(calls[x].via)'
      BY <3>1, <3>2, <3>3 DEF Open, Sent
    <3> QED
      BY <1>3, <3>2, <3>3, <3>4
  <2>3. Open(c)'
    BY <1>4, <1>5 DEF Open
  <2> QED
    BY <1>3, <1>4, <1>5, <1>6, <2>1, <2>2, <2>3 DEF WaitsFit
<1>12. ToldFit'
  <2>1. calls[c].told = "none"
    BY <1>1, <1>5 DEF Retained, ToldFit
  <2>2. ASSUME NEW x \in Calls, x # c, calls[x] # Idle, calls[x].told \in Statuses
        PROVE  calls[x].via \in Calls /\ Sent(calls[x].via)'
               /\ calls'[calls[x].via].op = calls[x].op
    <3>1. calls[x].via \in Calls /\ Sent(calls[x].via) /\ calls[calls[x].via].op = calls[x].op
      BY <2>2 DEF Retained, ToldFit
    <3> QED
      BY <1>4, <1>7, <2>2, <3>1
  <2> QED
    BY <1>4, <1>5, <2>1, <2>2 DEF Retained, ToldFit, Statuses
<1> QED
  BY <1>8, <1>9, <1>10, <1>11, <1>12 DEF Retained
\* The wire and the record layer leave every request as it was sent.
LEMMA WireKeepsRequests ==
  ASSUME TypeOK, NEW n \in Calls, Serve(n) \/ Lose(n)
  PROVE  \A m \in Calls : /\ wire'[m] # Unsent <=> wire[m] # Unsent
                          /\ wire'[m].key = wire[m].key
                          /\ wire'[m].binding = wire[m].binding
                          /\ wire'[m].retry = wire[m].retry
<1>1. wire[n] \in Copies
  BY WireSteps
<1>2. PICK leg \in {"back", "over"}, answer \in Sayable : Heard(n, leg, answer)
  BY WireSteps
<1>3. /\ CopyOf(n, leg, answer) \in Copies
      /\ CopyOf(n, leg, answer).key = wire[n].key
      /\ CopyOf(n, leg, answer).binding = wire[n].binding
      /\ CopyOf(n, leg, answer).retry = wire[n].retry
  BY <1>1, Apart, CopyFields DEF Sayable, Judgements
<1>4. wire[n] # Unsent /\ CopyOf(n, leg, answer) # Unsent
  BY <1>1, <1>3 DEF Copies, Unsent
<1> QED
  BY <1>2, <1>3, <1>4 DEF Heard, TypeOK

LEMMA WireRetained ==
  ASSUME TypeOK, Retained, NEW n \in Calls, Serve(n) \/ Lose(n)
  PROVE  Retained'
<1>1. commands' = commands /\ bindings' = bindings /\ calls' = calls
  BY WireSteps
<1>2. \A m \in Calls : /\ wire'[m] # Unsent <=> wire[m] # Unsent
                       /\ wire'[m].key = wire[m].key
                       /\ wire'[m].binding = wire[m].binding
  BY WireKeepsRequests
<1>3. \A m \in Calls : calls[m] # Idle => calls[m].seen \in Entries
  BY Fields DEF Begun
<1>4. \A m \in Calls : wire[m] # Unsent => wire[m].key \in Calls
  BY Fields DEF Copies
<1>5. EntriesFit'
  <2> SUFFICES ASSUME NEW op \in Ops, commands[op] # Absent
               PROVE  /\ wire'[commands[op].by] # Unsent
                      /\ wire'[commands[op].by].key = commands[op].key
                      /\ calls[commands[op].by].op = op
                      /\ bindings[op] = wire'[commands[op].by].binding
                      /\ commands[op].status = "pending" => Open(commands[op].by)
    BY <1>1 DEF EntriesFit, EntryFits, Carries, Sent, Open, Absent
  <2>1. commands[op].by \in Calls
    BY Fields
  <2> QED
    BY <1>2, <2>1 DEF Retained, EntriesFit, EntryFits, Carries, Sent
<1>6. NotesFit'
  <2> SUFFICES ASSUME NEW x \in Calls, calls[x] # Idle, calls[x].seen # Absent
               PROVE  /\ wire'[calls[x].seen.by] # Unsent
                      /\ wire'[calls[x].seen.by].key = calls[x].seen.key
                      /\ calls[calls[x].seen.by].op = calls[x].op
                      /\ calls[x].seenBinding = wire'[calls[x].seen.by].binding
    BY <1>1 DEF Retained, NotesFit, EntryFits, Carries, Sent
  <2>1. calls[x].seen.by \in Calls
    BY <1>3 DEF Entries
  <2> QED
    BY <1>2, <2>1 DEF Retained, NotesFit, EntryFits, Carries, Sent
<1>7. SentFit'
  BY <1>1, <1>2, <1>4 DEF Retained, SentFit, Carries, Sent
<1>8. WaitsFit'
  <2> SUFFICES ASSUME NEW x \in Calls, calls[x].step = "waiting"
               PROVE  /\ calls[x].via \in Calls /\ Open(calls[x].via)
                      /\ wire'[calls[x].via] # Unsent
                      /\ calls[calls[x].via].op = calls[x].op
                      /\ commands[calls[x].op] =
                           [status |-> "pending", key |-> wire'[calls[x].via].key, by |-> calls[x].via]
    BY <1>1 DEF WaitsFit, Open, Sent
  <2> DEFINE v == calls[x].via
  <2>1. /\ v \in Calls /\ Open(v) /\ wire[v] # Unsent /\ calls[v].op = calls[x].op
        /\ commands[calls[x].op] = [status |-> "pending", key |-> wire[v].key, by |-> v]
    BY DEF Retained, WaitsFit, Sent
  <2>2. wire'[v] # Unsent /\ wire'[v].key = wire[v].key
    BY <1>2, <2>1
  <2> QED
    BY <2>1, <2>2
<1>9. ToldFit'
  BY <1>1, <1>2 DEF Retained, ToldFit, Sent
<1> QED
  BY <1>5, <1>6, <1>7, <1>8, <1>9 DEF Retained

\* Whoever awaits attempt n is told; everybody else goes on as before.
LEMMA ToldFields ==
  ASSUME TypeOK, NEW n \in Calls, NEW status, calls' = Told(n, status)
  PROVE  \A x \in Calls :
           /\ calls[x].step = "waiting" /\ calls[x].via = n =>
                /\ calls'[x].step = "done" /\ calls'[x].told = status
                /\ calls'[x] # Idle
           /\ ~ (calls[x].step = "waiting" /\ calls[x].via = n) => calls'[x] = calls[x]
           /\ calls'[x] = Idle <=> calls[x] = Idle
           /\ calls[x] # Idle =>
                /\ calls'[x].op = calls[x].op /\ calls'[x].key = calls[x].key
                /\ calls'[x].seen = calls[x].seen /\ calls'[x].seenBinding = calls[x].seenBinding
                /\ calls'[x].via = calls[x].via
<1> SUFFICES ASSUME NEW x \in Calls, calls[x].step = "waiting", calls[x].via = n
             PROVE  /\ calls'[x].step = "done" /\ calls'[x].told = status
                    /\ calls'[x] # Idle /\ calls[x] # Idle
                    /\ calls'[x].op = calls[x].op /\ calls'[x].key = calls[x].key
                    /\ calls'[x].seen = calls[x].seen /\ calls'[x].seenBinding = calls[x].seenBinding
                    /\ calls'[x].via = calls[x].via
  BY DEF Told
<1>1. calls[x] \in Begun
  BY Fields
<1>2. calls'[x] = [calls[x] EXCEPT !.step = "done", !.told = status]
  BY DEF Told
<1>3. calls'[x].step = "done" /\ calls'[x].told = status
  BY <1>1, <1>2 DEF Begun
<1>4. calls'[x] # Idle /\ calls[x] # Idle
  BY <1>1, <1>3 DEF Idle, Begun
<1> QED
  BY <1>1, <1>2, <1>3, <1>4 DEF Begun

LEMMA SettleKeepsRequests ==
  ASSUME TypeOK, Retained, NEW n \in Calls, NEW status \in Statuses,
         NEW leg \in {"out", "back", "over"}, Settle(n, status, leg)
  PROVE  \A m \in Calls : /\ wire'[m] # Unsent <=> wire[m] # Unsent
                          /\ wire'[m].key = wire[m].key
                          /\ wire'[m].binding = wire[m].binding
                          /\ wire'[m].retry = wire[m].retry
<1>1. /\ wire[n] \in Copies
      /\ wire' = [wire EXCEPT ![n] = CopyOf(n, leg, AnswerLeft(n, leg))]
  BY SettleSteps
<1>2. AnswerLeft(n, leg) \in Answers \cup {NoAnswer}
  BY <1>1 DEF AnswerLeft, Copies
<1>3. /\ CopyOf(n, leg, AnswerLeft(n, leg)) \in Copies
      /\ CopyOf(n, leg, AnswerLeft(n, leg)).key = wire[n].key
      /\ CopyOf(n, leg, AnswerLeft(n, leg)).binding = wire[n].binding
      /\ CopyOf(n, leg, AnswerLeft(n, leg)).retry = wire[n].retry
  BY <1>1, <1>2, CopyFields
<1>4. wire[n] # Unsent /\ CopyOf(n, leg, AnswerLeft(n, leg)) # Unsent
  BY <1>1, <1>3 DEF Copies, Unsent
<1> QED
  BY <1>1, <1>3, <1>4 DEF TypeOK

LEMMA SettleRetained ==
  ASSUME TypeOK, Retained, NEW n \in Calls, NEW status \in Statuses,
         NEW leg \in {"out", "back", "over"}, Settle(n, status, leg)
  PROVE  Retained'
<1>a. PICK op \in Ops : op = calls[n].op
  BY SettleSteps
<1>1. /\ calls[n] # Idle /\ Open(n) /\ wire[n].key \in Calls
      /\ commands[op] = [status |-> "pending", key |-> wire[n].key, by |-> n]
      /\ calls' = Told(n, status)
  BY <1>a, SettleSteps DEF Begun, Idle
<1>2. /\ commands'[op] = Kept(n, status) /\ bindings'[op] = BoundTo(op, status)
      /\ \A o \in Ops : o # op => commands'[o] = commands[o] /\ bindings'[o] = bindings[o]
  <2>1. /\ commands' = [commands EXCEPT ![calls[n].op] = Kept(n, status)]
        /\ bindings' = [bindings EXCEPT ![calls[n].op] = BoundTo(calls[n].op, status)]
    BY SettleSteps
  <2> QED
    BY <1>a, <2>1 DEF TypeOK, BoundTo
<1>3. \A m \in Calls : /\ wire'[m] # Unsent <=> wire[m] # Unsent
                       /\ wire'[m].key = wire[m].key
                       /\ wire'[m].binding = wire[m].binding
  BY SettleKeepsRequests
<1>4. \A x \in Calls :
        /\ calls[x].step = "waiting" /\ calls[x].via = n =>
             calls'[x].step = "done" /\ calls'[x].told = status /\ calls'[x] # Idle
        /\ ~ (calls[x].step = "waiting" /\ calls[x].via = n) => calls'[x] = calls[x]
        /\ calls'[x] = Idle <=> calls[x] = Idle
        /\ calls[x] # Idle =>
             /\ calls'[x].op = calls[x].op /\ calls'[x].key = calls[x].key
             /\ calls'[x].seen = calls[x].seen /\ calls'[x].seenBinding = calls[x].seenBinding
             /\ calls'[x].via = calls[x].via
  BY <1>1, ToldFields
<1>5. \A m \in Calls : wire[m] # Unsent => calls[m] # Idle
  BY DEF Retained, SentFit, Sent, Idle
<1>6. \A m \in Calls : wire[m] # Unsent =>
        wire'[m] # Unsent /\ wire'[m].key = wire[m].key /\ calls'[m].op = calls[m].op
  BY <1>3, <1>4, <1>5
<1>7. EntriesFit'
  <2>1. /\ EntryFits(commands[op], op)'
        /\ commands'[op] # Absent => bindings'[op] = wire'[commands'[op].by].binding
        /\ commands'[op].status # "pending"
    <3>1. wire'[n] # Unsent /\ wire'[n].key = wire[n].key /\ calls'[n].op = op
      BY <1>1, <1>6, <1>a DEF Retained, WaitsFit, Open, Sent
    <3>2. bindings[op] = wire'[n].binding
      BY <1>1, <1>3 DEF Retained, EntriesFit, Absent
    <3> QED
      BY <1>2, <3>1, <3>2 DEF Kept, BoundTo, Absent, EntryFits, Carries, Sent
  <2>2. ASSUME NEW o \in Ops, o # op, commands[o] # Absent
        PROVE  /\ wire'[commands[o].by] # Unsent
               /\ wire'[commands[o].by].key = commands[o].key
               /\ calls'[commands[o].by].op = o
               /\ bindings[o] = wire'[commands[o].by].binding
               /\ commands[o].status = "pending" =>
                    calls'[commands[o].by].step = "waiting"
                    /\ calls'[commands[o].by].via = commands[o].by
    <3>1. commands[o] \in Entries /\ EntryFits(commands[o], o)
      BY DEF TypeOK, Retained, EntriesFit
    <3>2. /\ commands[o].by \in Calls
          /\ wire[commands[o].by] # Unsent /\ wire[commands[o].by].key = commands[o].key
          /\ wire'[commands[o].by] # Unsent
          /\ wire'[commands[o].by].key = commands[o].key
          /\ calls'[commands[o].by].op = o
      BY <1>6, <2>2, <3>1, EntryKept
    <3>3. bindings[o] = wire'[commands[o].by].binding
      BY <1>3, <2>2, <3>2 DEF Retained, EntriesFit
    <3>4. commands[o].by # n
      BY <1>6, <1>a, <2>2, <3>2
    <3>5. commands[o].status = "pending" => calls'[commands[o].by] = calls[commands[o].by]
      BY <1>4, <3>2, <3>4 DEF Retained, EntriesFit, Open
    <3> QED
      BY <3>2, <3>3, <3>5 DEF Retained, EntriesFit, Open
  <2> QED
    BY <1>2, <2>1, <2>2 DEF EntriesFit, EntryFits, Carries, Sent, Absent, Open
<1>8. NotesFit'
  <2>1. ASSUME NEW x \in Calls, calls[x] # Idle, calls[x].seen # Absent
        PROVE  /\ wire'[calls[x].seen.by] # Unsent
               /\ wire'[calls[x].seen.by].key = calls[x].seen.key
               /\ calls'[calls[x].seen.by].op = calls[x].op
               /\ calls[x].seenBinding = wire'[calls[x].seen.by].binding
    <3>1. calls[x].seen \in Entries /\ EntryFits(calls[x].seen, calls[x].op)
      BY <2>1, Fields DEF Retained, NotesFit, Begun
    <3>2. /\ calls[x].seen.by \in Calls
          /\ wire'[calls[x].seen.by] # Unsent
          /\ wire'[calls[x].seen.by].key = calls[x].seen.key
          /\ calls'[calls[x].seen.by].op = calls[x].op
      BY <1>6, <2>1, <3>1, EntryKept
    <3> QED
      BY <1>3, <2>1, <3>2 DEF Retained, NotesFit
  <2> QED
    BY <1>4, <2>1 DEF Retained, NotesFit, EntryFits, Carries, Sent
<1>9. SentFit'
  <2> SUFFICES ASSUME NEW m \in Calls, wire[m] # Unsent
               PROVE  /\ calls'[m].step \in {"waiting", "done"} /\ calls'[m].via = m
                      /\ wire'[wire[m].key] # Unsent /\ wire'[wire[m].key].key = wire[m].key
                      /\ calls'[wire[m].key].op = calls'[m].op
    BY <1>3 DEF SentFit, Carries, Sent
  <2>1. wire[m].key \in Calls
    BY Fields DEF Copies
  <2>2. /\ calls[m].step \in {"waiting", "done"} /\ calls[m].via = m
        /\ wire[wire[m].key] # Unsent /\ wire[wire[m].key].key = wire[m].key
        /\ calls[wire[m].key].op = calls[m].op
    BY DEF Retained, SentFit, Carries, Sent
  <2>3. calls'[m].step \in {"waiting", "done"} /\ calls'[m].via = m
    BY <1>4, <1>5, <2>2
  <2> QED
    BY <1>6, <2>1, <2>2, <2>3
<1>10. WaitsFit'
  <2> SUFFICES ASSUME NEW x \in Calls, calls'[x].step = "waiting"
               PROVE  /\ calls'[x].via \in Calls /\ Open(calls[x].via)' /\ Sent(calls[x].via)'
                      /\ calls'[calls'[x].via].op = calls'[x].op
                      /\ commands'[calls'[x].op] =
                           [status |-> "pending", key |-> wire'[calls'[x].via].key,
                            by |-> calls'[x].via]
    BY DEF WaitsFit
  <2>1. calls'[x] = calls[x] /\ calls[x].step = "waiting" /\ calls[x].via # n
    BY <1>4
  <2>2. /\ calls[x].via \in Calls /\ Open(calls[x].via) /\ Sent(calls[x].via)
        /\ calls[calls[x].via].op = calls[x].op
        /\ commands[calls[x].op] =
             [status |-> "pending", key |-> wire[calls[x].via].key, by |-> calls[x].via]
    BY <2>1 DEF Retained, WaitsFit
  <2>3. calls[x].op \in Ops /\ calls[x].op # op
    <3>1. calls[x].op \in Ops
      BY <2>1, Fields DEF Begun
    <3> QED
      BY <1>1, <2>1, <2>2, <3>1
  <2>4. calls'[calls[x].via] = calls[calls[x].via]
    BY <1>4, <2>1, <2>2 DEF Open
  <2>5. wire'[calls[x].via] # Unsent /\ wire'[calls[x].via].key = wire[calls[x].via].key
    BY <1>3, <2>2 DEF Sent
  <2>6. Open(calls[x].via)' /\ Sent(calls[x].via)'
    BY <2>1, <2>2, <2>4, <2>5 DEF Open, Sent
  <2> QED
    BY <1>2, <2>1, <2>2, <2>3, <2>4, <2>5, <2>6
<1>11. ToldFit'
  <2> SUFFICES ASSUME NEW x \in Calls, calls[x] # Idle
               PROVE  /\ calls'[x].told # "none" <=> calls'[x].step = "done"
                      /\ calls'[x].told \in Statuses =>
                           /\ calls[x].via \in Calls /\ wire[calls[x].via] # Unsent
                           /\ calls[calls[x].via].op = calls[x].op
    BY <1>4, <1>6 DEF ToldFit, Sent
  <2>1. CASE calls[x].step = "waiting" /\ calls[x].via = n
    BY <1>4, <2>1 DEF Retained, WaitsFit, Sent, Statuses
  <2>2. CASE ~ (calls[x].step = "waiting" /\ calls[x].via = n)
    BY <1>4, <2>2 DEF Retained, ToldFit, Sent
  <2> QED
    BY <2>1, <2>2
<1> QED
  BY <1>7, <1>8, <1>9, <1>10, <1>11 DEF Retained
-----------------------------------------------------------------------------
(* A check sends nothing while the attempt it noted is open.               *)

LEMMA ChecksStep ==
  ASSUME TypeOK, Retained, ChecksSendNothing, NEW c \in Calls,
         \/ \E new : CallStep(c, new)
         \/ \E s \in Sessions : Claim(c, s)
         \/ \E status \in Statuses : \E leg \in {"out", "back", "over"} : Settle(c, status, leg)
         \/ Serve(c) \/ Lose(c)
  PROVE  ChecksSendNothing'
<1>1. CASE \E new : CallStep(c, new)
  <2>1. PICK new : CallStep(c, new)
    BY <1>1
  <2>2. /\ \A x \in Calls : x # c => calls'[x] = calls[x]
        /\ wire' = wire
    BY <2>1 DEF CallStep, TypeOK
  <2>3. wire[c] = Unsent
    <3>1. calls[c].step \in {"idle", "scope"}
      BY <2>1, Fields DEF CallStep, Observing, TurningBack, Joining, Scoping, Idle
    <3> QED
      BY <3>1 DEF Retained, SentFit, Sent
  <2> QED
    BY <2>2, <2>3 DEF ChecksSendNothing
<1>2. CASE \E s \in Sessions : Claim(c, s)
  <2>1. PICK s \in Sessions : Claim(c, s)
    BY <1>2
  <2>2. /\ calls[c] \in Begun
        /\ calls' = [calls EXCEPT ![c] = Awaiting(c)]
        /\ wire' = [wire EXCEPT ![c] = Sending(c, s)]
    BY <2>1, ClaimSteps
  <2>3. ~ (calls[c].op \in Emails /\ calls[c].seen.status = "pending")
    BY <2>1 DEF Claim, Free, Prior
  <2>4. Awaiting(c).op = calls[c].op /\ Awaiting(c).seen = calls[c].seen
    BY <2>2 DEF Awaiting, Begun
  <2> QED
    BY <2>2, <2>3, <2>4 DEF ChecksSendNothing, TypeOK
<1>3. CASE \E status \in Statuses : \E leg \in {"out", "back", "over"} : Settle(c, status, leg)
  <2>1. PICK status \in Statuses, leg \in {"out", "back", "over"} : Settle(c, status, leg)
    BY <1>3
  <2>2. \A m \in Calls : wire'[m] # Unsent <=> wire[m] # Unsent
    BY <2>1, SettleKeepsRequests
  <2>3. calls' = Told(c, status)
    BY <2>1 DEF Settle
  <2>4. \A x \in Calls :
          /\ calls'[x] = Idle <=> calls[x] = Idle
          /\ calls[x] # Idle => calls'[x].op = calls[x].op /\ calls'[x].seen = calls[x].seen
    BY <2>3, ToldFields
  <2> QED
    BY <2>2, <2>4 DEF ChecksSendNothing
<1>4. CASE Serve(c) \/ Lose(c)
  <2>1. \A m \in Calls : wire'[m] # Unsent <=> wire[m] # Unsent
    BY <1>4, WireKeepsRequests
  <2> QED
    BY <1>4, <2>1, WireSteps DEF ChecksSendNothing
<1> QED
  BY <1>1, <1>2, <1>3, <1>4
-----------------------------------------------------------------------------
(* What was settled stays settled.                                         *)

\* k is not retained any more, and nothing that is left can bring it to the record.
Gone(k) == Carries(k, k) /\ Dead(k) /\ commands[calls[k].op].key # k

LEMMA Reports ==
  ASSUME TypeOK, Retained, NEW x \in Calls, calls[x] # Idle, calls[x].told \in Statuses
  PROVE  /\ calls[x].step = "done"
         /\ calls[x].via \in Calls /\ wire[calls[x].via] # Unsent
         /\ Reported(x) = wire[calls[x].via].key
         /\ Reported(x) \in Calls
         /\ Carries(Reported(x), Reported(x))
         /\ calls[Reported(x)].op = calls[x].op
<1>1. /\ calls[x].step = "done"
      /\ calls[x].via \in Calls /\ wire[calls[x].via] # Unsent
      /\ calls[calls[x].via].op = calls[x].op
  BY DEF Retained, ToldFit, Statuses, Sent
<1>2. wire[calls[x].via].key \in Calls
  BY <1>1, Fields DEF Copies
<1> QED
  BY <1>1, <1>2 DEF Retained, SentFit, Sent, Reported

\* A report stays as long as calls that were told something, requests and
\* judgements do.
LEMMA ReportsStay ==
  ASSUME TypeOK, Retained,
         \A x \in Calls : calls[x] # Idle /\ calls[x].told \in Statuses => calls'[x] = calls[x],
         \A m \in Calls : wire[m] # Unsent => wire'[m].key = wire[m].key,
         \A k \in Calls : memo[k] # NoAnswer => memo'[k] = memo[k]
  PROVE  /\ \A x \in Calls : calls[x] # Idle /\ calls[x].told \in Statuses =>
              wire'[calls'[x].via].key = Reported(x)
         /\ \A k \in Calls : Closed(k) => Closed(k)'
<1>1. ASSUME NEW x \in Calls, calls[x] # Idle, calls[x].told \in Statuses
      PROVE  wire'[calls'[x].via].key = Reported(x)
  BY <1>1, Reports
<1>2. ASSUME NEW k \in Calls, memo[k] = Refusal PROVE Closed(k)'
  BY <1>2, Apart DEF Closed
<1>3. ASSUME NEW k \in Calls, memo[k] = Accepted,
             NEW d \in Calls, calls[d] # Idle, calls[d].told = "ok", Reported(d) = k
      PROVE  Closed(k)'
  <2>1. calls[d].told \in Statuses
    BY <1>3 DEF Statuses
  <2>2. calls'[d] = calls[d] /\ wire'[calls'[d].via].key = k
    BY <1>1, <1>3, <2>1
  <2>3. memo'[k] = Accepted
    BY <1>3, Apart
  <2> QED
    BY <1>3, <2>2, <2>3 DEF Closed, Is, Reported
<1> QED
  BY <1>1, <1>2, <1>3 DEF Closed, Is

\* If settled requests stay settled, so are those that are not retained, and what
\* was told stays true.
LEMMA StillDropped ==
  ASSUME TypeOK, Retained, Judged,
         \A k \in Calls : Closed(k) => Closed(k)',
         \A k \in Calls : Gone(k) => Gone(k)',
         NEW k \in Calls, Carries(k, k), commands[calls[k].op].key # k
  PROVE  Closed(k)' \/ Dead(k)'
  BY DEF Judged, Dropped, Gone

Fit(x) ==
  /\ Is(x, "ok") => memo[Reported(x)] = Accepted
  /\ Is(x, "refused") =>
       \/ memo[Reported(x)] = Refusal
       \/ calls[x].op \in Emails /\ Closed(Reported(x))
       \/ Dead(Reported(x)) /\ commands[calls[x].op].key # Reported(x)

LEMMA StillFit ==
  ASSUME TypeOK, Retained, Judged,
         \A x \in Calls : calls[x] # Idle /\ calls[x].told \in Statuses => calls'[x] = calls[x],
         \A m \in Calls : wire[m] # Unsent => wire'[m].key = wire[m].key,
         \A k \in Calls : memo[k] # NoAnswer => memo'[k] = memo[k],
         \A k \in Calls : Carries(k, k) => calls'[k].op = calls[k].op,
         \A k \in Calls : Gone(k) => Gone(k)',
         NEW x \in Calls, calls[x] # Idle, calls[x].told \in Statuses
  PROVE  Fit(x)'
<1>1. PICK r \in Calls : r = Reported(x)
  BY Reports
<1>2. /\ wire'[calls'[x].via].key = r /\ calls'[x] = calls[x]
      /\ Closed(r) => Closed(r)'
  BY <1>1, ReportsStay
<1>3. Carries(r, r) /\ calls[r].op = calls[x].op /\ calls'[r].op = calls[r].op
  BY <1>1, Reports
<1>4. Reported(x)' = r
  BY <1>2 DEF Reported
<1>5. /\ calls[x].told = "ok" => memo[r] = Accepted
      /\ calls[x].told = "refused" =>
           \/ memo[r] = Refusal
           \/ calls[x].op \in Emails /\ Closed(r)
           \/ Gone(r)
  BY <1>1, <1>3 DEF Judged, ReportsFit, Is, Gone
<1>6. Gone(r)' => Dead(r)' /\ commands'[calls'[x].op].key # r
  BY <1>2, <1>3 DEF Gone
<1>7. /\ calls[x].told = "ok" => memo'[r] = Accepted
      /\ calls[x].told = "refused" =>
           \/ memo'[r] = Refusal
           \/ calls[x].op \in Emails /\ Closed(r)'
           \/ Dead(r)' /\ commands'[calls'[x].op].key # r
  BY <1>2, <1>5, <1>6, Apart
<1>8. Closed(r)' => Closed(Reported(x))'
  BY <1>4 DEF Closed, Reported
<1>9. Dead(r)' => Dead(Reported(x))'
  BY <1>4 DEF Dead, Reported, Unseen, Carries, Sent
<1> QED
  BY <1>2, <1>4, <1>7, <1>8, <1>9 DEF Fit, Is
-----------------------------------------------------------------------------
(* Judgements and reports, step by step.                                   *)

\* The request of an entry was made for its operation.
LEMMA KeyOfEntry ==
  ASSUME TypeOK, Retained, NEW op \in Ops, commands[op] # Absent
  PROVE  /\ commands[op].key \in Calls /\ commands[op].by \in Calls
         /\ Carries(commands[op].by, commands[op].key)
         /\ Carries(commands[op].key, commands[op].key)
         /\ calls[commands[op].key].op = op
<1>1. /\ commands[op].key \in Calls /\ commands[op].by \in Calls
      /\ Carries(commands[op].by, commands[op].key) /\ calls[commands[op].by].op = op
  BY Fields DEF Retained, EntriesFit, EntryFits
<1> QED
  BY <1>1 DEF Retained, SentFit, Carries

\* An open attempt is retained for its operation.
LEMMA EntryOfOpen ==
  ASSUME Retained, NEW n \in Calls, Open(n)
  PROVE  /\ wire[n] # Unsent
         /\ commands[calls[n].op].status = "pending"
         /\ commands[calls[n].op].key = wire[n].key
         /\ commands[calls[n].op].by = n
<1>1. /\ Sent(n)
      /\ commands[calls[n].op] = [status |-> "pending", key |-> wire[n].key, by |-> n]
  BY DEF Retained, WaitsFit, Open
<1> QED
  BY <1>1 DEF Sent

LEMMA CallStepJudged ==
  ASSUME TypeOK, Retained, Judged, NEW c \in Calls, NEW new, CallStep(c, new)
  PROVE  Judged'
<1>1. /\ calls'[c] = new
      /\ \A x \in Calls : x # c => calls'[x] = calls[x]
      /\ commands' = commands /\ bindings' = bindings /\ wire' = wire /\ memo' = memo
      /\ new \in Begun /\ new # Idle
  BY DEF CallStep, TypeOK, Begun, Idle
<1>2. calls[c].step \in {"idle", "scope"} /\ wire[c] = Unsent
  <2>1. calls[c].step \in {"idle", "scope"}
    BY Fields DEF CallStep, Observing, TurningBack, Joining, Scoping, Idle
  <2> QED
    BY <2>1 DEF Retained, SentFit, Sent
<1>3. ~ (calls[c] # Idle /\ calls[c].told \in Statuses)
  BY <1>2, Reports
<1>4. \A x \in Calls : calls[x] # Idle /\ calls[x].told \in Statuses => calls'[x] = calls[x]
  BY <1>1, <1>3
<1>5. \A k \in Calls : Carries(k, k) => calls'[k] = calls[k]
  BY <1>1, <1>2 DEF Carries, Sent
<1>6. \A k \in Calls : Closed(k) => Closed(k)'
  BY <1>1, <1>4, ReportsStay
<1>7. ASSUME NEW k \in Calls, Unseen(k),
             \A op \in Ops : commands[op].status = "unknown" => commands[op].key # k
      PROVE  Unseen(k)'
  <2>1. new.seen.status = "unknown" => new.seen.key # k
    <3>1. CASE Observing(c, new)
      BY <1>1, <1>7, <3>1 DEF Observing, Begun
    <3>2. CASE ~ Observing(c, new)
      <4>1. calls[c] # Idle /\ new.seen = calls[c].seen
        BY <3>2 DEF CallStep, TurningBack, Joining, Scoping
      <4> QED
        BY <1>7, <4>1 DEF Unseen
    <3> QED
      BY <3>1, <3>2
  <2> QED
    BY <1>1, <1>7, <2>1 DEF Unseen
<1>8. ASSUME NEW k \in Calls, Gone(k) PROVE Gone(k)'
  <2>1. ASSUME NEW op \in Ops, commands[op].status = "unknown"
        PROVE  commands[op].key # k
    BY <1>8, <2>1, KeyOfEntry DEF Gone, Absent
  <2>2. Unseen(k)'
    BY <1>7, <1>8, <2>1 DEF Gone, Dead
  <2> QED
    BY <1>1, <1>5, <1>8, <2>2 DEF Gone, Dead, Carries, Sent
<1>9. JudgedFit'
  BY <1>1 DEF Judged, JudgedFit, Carries, Sent
<1>10. FirstTries'
  <2> SUFFICES ASSUME NEW n \in Calls, Open(n)', ~ wire[n].retry
               PROVE  FirstTry(n)' \/ (calls'[n].op \in Emails /\ Closed(wire[n].key)')
    BY <1>1 DEF FirstTries
  <2>1. n # c
    <3>1. ASSUME Joining(c, new) PROVE new.via # c
      BY <1>2, <3>1 DEF Joining, Sent
    <3>2. new.step = "waiting" => Joining(c, new)
      BY DEF CallStep, Observing, TurningBack
    <3> QED
      BY <1>1, <3>1, <3>2 DEF Open
  <2>2. Open(n) /\ calls'[n] = calls[n]
    BY <1>1, <2>1 DEF Open
  <2>3. PICK k \in Calls : k = wire[n].key
    <3>1. wire[n] # Unsent
      BY <2>2 DEF Retained, WaitsFit, Open, Sent
    <3> QED
      BY <3>1, Fields DEF Copies
  <2>4. CASE FirstTry(n)
    <3>1. ASSUME NEW op \in Ops, commands[op].status = "unknown"
          PROVE  commands[op].key # k
      <4>1. SUFFICES ASSUME commands[op].key = k PROVE FALSE
        OBVIOUS
      <4>2. /\ commands[op] # Absent /\ commands[op].by \in Calls
            /\ Carries(commands[op].by, k) /\ calls[commands[op].by].op = op
        BY <3>1, <4>1, KeyOfEntry DEF Absent, Retained, EntriesFit, EntryFits
      <4>3. commands[op].by = n
        BY <2>3, <2>4, <4>2 DEF FirstTry
      <4>4. commands[calls[n].op].status = "pending" /\ calls[n].op = op
        BY <2>2, <4>2, <4>3, EntryOfOpen
      <4> QED
        BY <3>1, <4>4
    <3>2. Unseen(k)'
      BY <1>7, <2>3, <2>4, <3>1 DEF FirstTry
    <3>3. FirstTry(n)'
      BY <1>1, <2>3, <2>4, <3>2 DEF FirstTry, Carries, Sent, Unseen
    <3> QED
      BY <3>3
  <2>5. CASE calls[n].op \in Emails /\ Closed(wire[n].key)
    <3>1. Closed(k)'
      BY <1>6, <2>3, <2>5
    <3> QED
      BY <1>1, <2>2, <2>3, <2>5, <3>1 DEF Closed
  <2> QED
    BY <2>2, <2>4, <2>5 DEF Judged, FirstTries
<1>11. Dropped'
  <2> SUFFICES ASSUME NEW k \in Calls, Carries(k, k), commands[calls[k].op].key # k
               PROVE  Closed(k)' \/ Dead(k)'
    BY <1>1, <1>5 DEF Dropped, Carries, Sent
  <2> QED
    BY <1>6, <1>8, StillDropped
<1>12. ReportsFit'
  <2>1. ASSUME NEW x \in Calls, calls[x] # Idle, calls[x].told \in Statuses
        PROVE  Fit(x)'
    <3>1. \A k \in Calls : Carries(k, k) => calls'[k].op = calls[k].op
      BY <1>5
    <3> QED
      BY <1>1, <1>4, <1>8, <2>1, <3>1, StillFit
  <2>2. ASSUME new.told \in Statuses PROVE Fit(c)'
    <3>1. Joining(c, new)
      BY <2>2 DEF CallStep, Observing, TurningBack, TurnedBack, Statuses
    <3>2. PICK n \in Calls : n = new.via
      BY <3>1 DEF Joining
    <3>3. /\ wire[n] # Unsent /\ calls[n].told = new.told /\ calls[n].op = new.op
          /\ calls[n].via = n /\ calls[n] # Idle /\ n # c
      BY <1>2, <3>1, <3>2 DEF Joining, Retained, SentFit, Sent, Idle
    <3>4. Fit(n)'
      BY <2>1, <2>2, <3>3
    <3>5. calls'[n] = calls[n] /\ Reported(n)' = Reported(c)'
      BY <1>1, <3>2, <3>3 DEF Reported
    <3> QED
      BY <1>1, <3>3, <3>4, <3>5 DEF Fit, Is, Closed, Dead, Reported, Unseen, Carries, Sent
  <2>3. ASSUME NEW x \in Calls PROVE Fit(x)'
    <3>1. CASE x = c /\ new.told \in Statuses
      BY <2>2, <3>1
    <3>2. CASE x # c /\ calls[x] # Idle /\ calls[x].told \in Statuses
      BY <2>1, <3>2
    <3>3. CASE ~ (calls'[x] # Idle /\ calls'[x].told \in Statuses)
      BY <3>3 DEF Fit, Is, Statuses
    <3> QED
      BY <1>1, <3>1, <3>2, <3>3
  <2> QED
    BY <2>3 DEF ReportsFit, Fit
<1> QED
  BY <1>9, <1>10, <1>11, <1>12 DEF Judged
LEMMA ClaimJudged ==
  ASSUME TypeOK, Retained, Judged, NEW c \in Calls, NEW s \in Sessions, Claim(c, s)
  PROVE  Judged'
<1>a. PICK op \in Ops, key \in Calls : op = calls[c].op /\ key = ClaimKey(c)
  BY ClaimSteps
<1>1. /\ calls[c] \in Begun /\ calls[c].step = "scope" /\ calls[c] # Idle
      /\ commands[op] = Prior(c)
      /\ commands[op] # Absent => commands[op].status = "unknown" /\ commands[op].key = key
      /\ commands[op] = Absent => calls[c].key = key
      /\ memo' = memo
  BY <1>a, ClaimSteps DEF ClaimKey, Idle
<1>2. /\ calls'[c] = Awaiting(c)
      /\ \A x \in Calls : x # c => calls'[x] = calls[x]
      /\ wire'[c] = Sending(c, s)
      /\ \A m \in Calls : m # c => wire'[m] = wire[m]
      /\ commands'[op] = Holding(c)
      /\ \A o \in Ops : o # op => commands'[o] = commands[o]
  <2>1. /\ calls' = [calls EXCEPT ![c] = Awaiting(c)]
        /\ wire' = [wire EXCEPT ![c] = Sending(c, s)]
        /\ commands' = [commands EXCEPT ![calls[c].op] = Holding(c)]
    BY ClaimSteps
  <2> QED
    BY <1>a, <2>1 DEF TypeOK
<1>3. /\ Awaiting(c).step = "waiting" /\ Awaiting(c).op = op /\ Awaiting(c) # Idle
      /\ Awaiting(c).seen = calls[c].seen /\ Awaiting(c).told = calls[c].told
      /\ Awaiting(c).via = c
  <2>1. Awaiting(c) \in Begun /\ Awaiting(c).step = "waiting" /\ Awaiting(c).via = c
    BY <1>1 DEF Awaiting, Begun
  <2>2. /\ Awaiting(c).op = calls[c].op /\ Awaiting(c).seen = calls[c].seen
        /\ Awaiting(c).told = calls[c].told
    BY <1>1 DEF Awaiting, Begun
  <2> QED
    BY <1>a, <2>1, <2>2 DEF Idle
<1>4. /\ Sending(c, s).leg = "out" /\ Sending(c, s).key = key
      /\ Sending(c, s).retry = (commands[op] # Absent)
      /\ Sending(c, s) # Unsent /\ Holding(c).key = key
  BY <1>1, <1>a DEF Sending, Unsent, Holding
<1>5. /\ wire[c] = Unsent
      /\ key = c \/ (Carries(key, key) /\ calls[key].op = op)
  BY <1>a, ClaimedKey DEF Sent
<1>6. /\ ~ (calls[c] # Idle /\ calls[c].told \in Statuses)
      /\ calls'[c].told \notin Statuses
  BY <1>1, <1>2, <1>3, Reports
<1>7. /\ \A x \in Calls : calls[x] # Idle /\ calls[x].told \in Statuses => calls'[x] = calls[x]
      /\ \A m \in Calls : wire[m] # Unsent => wire'[m].key = wire[m].key
      /\ \A k \in Calls : memo[k] # NoAnswer => memo'[k] = memo[k]
      /\ \A k \in Calls : Carries(k, k) => calls'[k].op = calls[k].op
  BY <1>1, <1>2, <1>5, <1>6 DEF Carries, Sent
<1>8. \A k \in Calls : Closed(k) => Closed(k)'
  BY <1>7, ReportsStay
<1>9. \A k \in Calls : Unseen(k) => Unseen(k)'
  BY <1>1, <1>2, <1>3 DEF Unseen
<1>10. \A k, m \in Calls : Carries(m, k) => Carries(k, k) /\ calls[k].op = calls[m].op
  BY DEF Retained, SentFit, Carries
<1>11. \A k, m \in Calls : wire'[m] # Unsent /\ wire'[m].key = k =>
         (m = c /\ k = key) \/ (m # c /\ Carries(m, k))
  BY <1>2, <1>4 DEF Carries, Sent
<1>12. calls[c].key # c => calls[c].seen.key = calls[c].key /\ calls[c].seen.status = "unknown"
                           /\ op \in Emails
  <2>1. SUFFICES ASSUME calls[c].key # c
                 PROVE  calls[c].seen.key = calls[c].key /\ calls[c].seen.status = "unknown"
                        /\ op \in Emails
    OBVIOUS
  <2>2. op \in Emails /\ calls[c].seen # Absent /\ calls[c].seen.key = calls[c].key
    BY <1>1, <1>a, <2>1 DEF Retained, NotesFit
  <2>3. calls[c].seen.status # "pending"
    BY <1>a, <2>2 DEF Claim, Free, Prior
  <2>4. calls[c].seen \in Entries
    BY <1>1 DEF Begun
  <2> QED
    BY <2>2, <2>3, <2>4 DEF Entries
<1>13. ASSUME NEW k \in Calls, Gone(k) PROVE k # key /\ Gone(k)'
  <2>1. wire[k] # Unsent /\ k # c
    BY <1>5, <1>13 DEF Gone, Carries, Sent
  <2>2. k # key
    <3>1. CASE commands[op] # Absent
      <4>1. calls[key].op = op
        BY <1>1, <3>1, KeyOfEntry
      <4> QED
        BY <1>1, <1>13, <3>1, <4>1 DEF Gone
    <3>2. CASE commands[op] = Absent
      BY <1>1, <1>12, <1>13, <2>1, <3>2 DEF Gone, Dead, Unseen
    <3> QED
      BY <3>1, <3>2
  <2>3. Carries(k, k)' /\ calls'[k].op = calls[k].op
    BY <1>2, <1>13, <2>1 DEF Gone, Carries, Sent
  <2>4. commands'[calls[k].op].key # k
    <3>1. calls[k].op \in Ops
      <4>1. calls[k].step # "idle"
        BY <2>1 DEF Retained, SentFit, Sent
      <4> QED
        BY <4>1, Fields DEF Begun
    <3> QED
      BY <1>2, <1>4, <1>13, <2>2, <3>1 DEF Gone
  <2>5. memo'[k] = NoAnswer /\ Unseen(k)'
    BY <1>1, <1>9, <1>13 DEF Gone, Dead
  <2>6. ASSUME NEW m \in Calls, wire'[m] # Unsent, wire'[m].key = k
        PROVE  wire'[m].leg # "out"
    BY <1>2, <1>11, <1>13, <2>2, <2>6 DEF Gone, Dead
  <2> QED
    BY <2>2, <2>3, <2>4, <2>5, <2>6 DEF Gone, Dead, Carries, Sent
<1>14. JudgedFit'
  <2>1. ASSUME NEW m \in Calls, wire'[m] # Unsent, wire'[m].leg = "back"
        PROVE  \/ wire'[m].answer = AtTheDoor
               \/ wire'[m].answer \in Judgements /\ memo'[wire'[m].key] = wire'[m].answer
    BY <1>1, <1>2, <1>4, <2>1 DEF Judged, JudgedFit, Sent
  <2>2. ASSUME NEW k \in Calls, memo'[k] # NoAnswer PROVE Carries(k, k)'
    BY <1>1, <1>2, <1>5, <2>2 DEF Judged, JudgedFit, Carries, Sent
  <2> QED
    BY <2>1, <2>2 DEF JudgedFit, Sent
<1>15. FirstTries'
  <2>1. ASSUME NEW n \in Calls, n # c, Open(n), ~ wire[n].retry
        PROVE  FirstTry(n)' \/ (calls'[n].op \in Emails /\ Closed(wire[n].key)')
    <3>1. wire[n] # Unsent /\ wire'[n] = wire[n] /\ calls'[n] = calls[n]
      BY <1>2, <2>1 DEF Retained, WaitsFit, Open, Sent
    <3>2. PICK k \in Calls : k = wire[n].key
      BY <3>1, Fields DEF Copies
    <3>3. Carries(k, k) /\ calls[k].op = calls[n].op
      BY <1>10, <3>1, <3>2 DEF Carries, Sent
    <3>4. k # key
      <4>1. commands[calls[n].op].status = "pending"
        BY <2>1, EntryOfOpen
      <4>2. calls[n].op # op
        BY <1>1, <4>1 DEF Absent
      <4> QED
        BY <1>5, <3>3, <4>2 DEF Carries, Sent
    <3>5. CASE FirstTry(n)
      <4>1. ASSUME NEW m \in Calls, wire'[m] # Unsent, wire'[m].key = k PROVE m = n
        BY <1>11, <3>2, <3>4, <3>5, <4>1 DEF FirstTry
      <4>2. Unseen(k)'
        BY <1>9, <3>2, <3>5 DEF FirstTry
      <4>3. FirstTry(n)'
        BY <1>1, <3>1, <3>2, <3>5, <4>1, <4>2 DEF FirstTry, Carries, Sent, Unseen
      <4> QED
        BY <4>3
    <3>6. CASE calls[n].op \in Emails /\ Closed(wire[n].key)
      <4>1. Closed(k)'
        BY <1>8, <3>2, <3>6
      <4> QED
        BY <3>1, <3>2, <3>6, <4>1 DEF Closed
    <3> QED
      BY <2>1, <3>5, <3>6 DEF Judged, FirstTries
  <2>2. ASSUME ~ wire'[c].retry
        PROVE  FirstTry(c)' \/ (calls'[c].op \in Emails /\ Closed(wire[c].key)')
    <3>1. commands[op] = Absent /\ calls[c].key = key
      BY <1>1, <1>2, <1>4, <2>2
    <3>2. CASE key = c
      <4>1. \A m \in Calls : ~ Carries(m, c)
        BY <1>5, <1>10 DEF Carries, Sent
      <4>2. Unseen(c)
        <5> SUFFICES ASSUME NEW x \in Calls, calls[x] # Idle,
                            calls[x].seen.status = "unknown", calls[x].seen.key = c
                     PROVE  FALSE
          BY DEF Unseen
        <5>1. calls[x].seen \in Entries /\ calls[x].seen # Absent
          BY Fields DEF Begun, Absent
        <5>2. calls[x].seen.by \in Calls /\ Carries(calls[x].seen.by, c)
          BY <5>1 DEF Retained, NotesFit, EntryFits, Entries
        <5> QED
          BY <4>1, <5>2
      <4>3. memo[c] = NoAnswer
        BY <4>1 DEF Judged, JudgedFit
      <4>4. Unseen(c)' /\ memo'[c] = NoAnswer /\ wire'[c].key = c
        BY <1>1, <1>2, <1>4, <1>9, <3>2, <4>2, <4>3
      <4>5. \A m \in Calls : wire'[m] # Unsent /\ wire'[m].key = c => m = c
        BY <1>11, <4>1
      <4>6. FirstTry(c)'
        BY <4>4, <4>5 DEF FirstTry, Carries, Sent, Unseen
      <4> QED
        BY <4>6
    <3>3. CASE key # c
      <4>1. calls[c].seen.status = "unknown" /\ calls[c].seen.key = key /\ op \in Emails
        BY <1>12, <3>1, <3>3
      <4>2. Carries(key, key) /\ calls[key].op = op /\ commands[op].key # key
        BY <1>5, <3>1, <3>3 DEF Absent
      <4>3. Closed(key)
        BY <1>1, <4>1, <4>2 DEF Judged, Dropped, Dead, Unseen
      <4>4. Closed(key)' /\ calls'[c].op \in Emails /\ wire'[c].key = key
        BY <1>2, <1>3, <1>4, <1>8, <4>1, <4>3
      <4> QED
        BY <4>4 DEF Closed
    <3> QED
      BY <3>2, <3>3
  <2> QED
    BY <1>2, <2>1, <2>2 DEF FirstTries, Open
<1>16. Dropped'
  <2> SUFFICES ASSUME NEW k \in Calls, wire'[k] # Unsent, wire'[k].key = k,
                      commands'[calls'[k].op].key # k
               PROVE  Closed(k)' \/ Dead(k)'
    BY DEF Dropped, Carries, Sent
  <2>1. k # c
    BY <1>2, <1>3, <1>4
  <2>2. Carries(k, k) /\ calls'[k] = calls[k]
    BY <1>2, <2>1 DEF Carries, Sent
  <2>3. commands[calls[k].op].key # k
    <3>1. calls[k].op \in Ops
      <4>1. calls[k].step # "idle"
        BY <2>2 DEF Retained, SentFit, Carries
      <4> QED
        BY <4>1, Fields DEF Begun
    <3> QED
      BY <1>1, <1>2, <1>4, <2>2, <3>1 DEF Absent
  <2> QED
    BY <1>8, <1>13, <2>2, <2>3, StillDropped
<1>17. ReportsFit'
  <2>1. ASSUME NEW x \in Calls PROVE Fit(x)'
    <3>1. CASE calls[x] # Idle /\ calls[x].told \in Statuses
      BY <1>7, <1>13, <3>1, StillFit
    <3>2. CASE ~ (calls[x] # Idle /\ calls[x].told \in Statuses)
      <4>1. ~ (calls'[x] # Idle /\ calls'[x].told \in Statuses)
        BY <1>2, <1>6, <3>2
      <4> QED
        BY <4>1 DEF Fit, Is, Statuses
    <3> QED
      BY <3>1, <3>2
  <2> QED
    BY <2>1 DEF ReportsFit, Fit
<1> QED
  BY <1>14, <1>15, <1>16, <1>17 DEF Judged
LEMMA EndingJudged ==
  ASSUME TypeOK, Retained, Judged, NEW n \in Calls, NEW status \in Statuses,
         NEW leg \in {"out", "back", "over"}, Ending(n, status, leg)
  PROVE  Judged'
<1>b. Settle(n, status, leg)
  BY DEF Ending
<1>a. PICK op \in Ops, key \in Calls : op = calls[n].op /\ key = wire[n].key
  BY <1>b, SettleSteps
<1>1. /\ calls[n] # Idle /\ calls[n].step = "waiting" /\ calls[n].via = n /\ wire[n] \in Copies
      /\ commands[op].key = key /\ memo' = memo
  <2>1. calls[n] \in Begun /\ Open(n) /\ wire[n] \in Copies /\ memo' = memo
    BY <1>b, SettleSteps
  <2>2. commands[op].key = key
    BY <1>a, <2>1, EntryOfOpen
  <2> QED
    BY <2>1, <2>2 DEF Open, Begun, Idle
<1>2. /\ commands'[op] = Kept(n, status)
      /\ \A o \in Ops : o # op => commands'[o] = commands[o]
      /\ wire'[n] = CopyOf(n, leg, AnswerLeft(n, leg))
      /\ \A m \in Calls : m # n => wire'[m] = wire[m]
  <2>1. /\ commands' = [commands EXCEPT ![calls[n].op] = Kept(n, status)]
        /\ wire' = [wire EXCEPT ![n] = CopyOf(n, leg, AnswerLeft(n, leg))]
    BY <1>b, SettleSteps
  <2> QED
    BY <1>a, <2>1 DEF TypeOK
<1>3. \A x \in Calls :
        /\ calls[x].step = "waiting" /\ calls[x].via = n =>
             calls'[x].step = "done" /\ calls'[x].told = status /\ calls'[x] # Idle
        /\ ~ (calls[x].step = "waiting" /\ calls[x].via = n) => calls'[x] = calls[x]
        /\ calls'[x] = Idle <=> calls[x] = Idle
        /\ calls[x] # Idle =>
             /\ calls'[x].op = calls[x].op /\ calls'[x].seen = calls[x].seen
             /\ calls'[x].via = calls[x].via
  <2>1. calls' = Told(n, status)
    BY DEF Ending, Settle
  <2> QED
    BY <2>1, ToldFields
<1>4. \A m \in Calls : /\ wire'[m] # Unsent <=> wire[m] # Unsent
                       /\ wire'[m].key = wire[m].key
                       /\ wire'[m].retry = wire[m].retry
  BY SettleKeepsRequests DEF Ending
<1>5. /\ wire'[n].leg = leg /\ wire'[n].answer = AnswerLeft(n, leg)
      /\ \A m \in Calls : wire'[m].leg = "out" => wire[m].leg = "out"
  <2>1. AnswerLeft(n, leg) \in Answers \cup {NoAnswer}
    BY <1>1 DEF AnswerLeft, Copies
  <2>2. wire'[n].leg = leg /\ wire'[n].answer = AnswerLeft(n, leg)
    BY <1>1, <1>2, <2>1, CopyFields
  <2> QED
    BY <1>2, <2>2 DEF Ending
<1>6. \A m \in Calls : wire[m] # Unsent => calls[m] # Idle
  BY DEF Retained, SentFit, Sent, Idle
<1>7. /\ \A x \in Calls : calls[x] # Idle /\ calls[x].told \in Statuses => calls'[x] = calls[x]
      /\ \A m \in Calls : wire[m] # Unsent => wire'[m].key = wire[m].key
      /\ \A k \in Calls : memo[k] # NoAnswer => memo'[k] = memo[k]
      /\ \A k \in Calls : Carries(k, k) => calls'[k].op = calls[k].op
  <2>1. \A x \in Calls : calls[x] # Idle /\ calls[x].told \in Statuses => calls'[x] = calls[x]
    BY <1>3, Reports
  <2> QED
    BY <1>1, <1>3, <1>4, <1>6, <2>1 DEF Carries, Sent
<1>8. \A k \in Calls : Closed(k) => Closed(k)'
  BY <1>7, ReportsStay
<1>9. \A k \in Calls : Unseen(k) => Unseen(k)'
  BY <1>3 DEF Unseen
<1>10. Kept(n, status).key # key => Kept(n, status) = Absent /\ status # "unknown"
  BY <1>a DEF Kept
<1>11. ASSUME NEW k \in Calls, k # key PROVE Kept(n, status).key # k
  BY <1>a, <1>11 DEF Kept, Absent
<1>12. ASSUME NEW k \in Calls, Carries(k, k)
       PROVE  calls[k].op \in Ops /\ calls'[k].op = calls[k].op /\ Carries(k, k)'
  <2>1. calls[k].step # "idle" /\ wire[k] # Unsent
    BY <1>12 DEF Retained, SentFit, Carries, Sent
  <2>2. calls[k].op \in Ops
    BY <2>1, Fields DEF Begun
  <2> QED
    BY <1>4, <1>7, <1>12, <2>1, <2>2 DEF Carries, Sent
<1>13. ASSUME NEW k \in Calls, Gone(k) PROVE Gone(k)'
  <2>1. commands'[calls[k].op].key # k
    BY <1>1, <1>2, <1>11, <1>12, <1>13 DEF Gone
  <2>2. \A m \in Calls : wire'[m] # Unsent /\ wire'[m].key = k => wire'[m].leg # "out"
    BY <1>4, <1>5, <1>13 DEF Gone, Dead, Carries, Sent
  <2>3. memo'[k] = NoAnswer /\ Unseen(k)'
    BY <1>1, <1>9, <1>13 DEF Gone, Dead
  <2> QED
    BY <1>12, <1>13, <2>1, <2>2, <2>3 DEF Gone, Dead, Carries, Sent
\* How the request ends that is dropped here.
<1>14. /\ status = "ok" => memo[key] = Accepted
       /\ status = "refused" =>
            \/ memo[key] = Refusal
            \/ op \in Emails /\ Closed(key)
            \/ Dead(key)'
  <2>1. wire[n] # Unsent
    BY <1>1 DEF Copies, Unsent
  <2>2. wire[n].leg = "back" /\ wire[n].answer \in Judgements => memo[key] = wire[n].answer
    BY <1>a, <2>1, Apart DEF Judged, JudgedFit, Sent, Judgements
  <2>3. CASE status = "ok"
    BY <2>2, <2>3 DEF Ending, Judgements
  <2>4. CASE status = "refused" /\ wire[n].leg = "back" /\ wire[n].answer = Refusal
    BY <2>2, <2>4 DEF Judgements
  <2>5. CASE /\ status = "refused" /\ ~ wire[n].retry
             /\ wire[n].leg = "out" \/ (wire[n].leg = "back" /\ wire[n].answer = AtTheDoor)
    <3>1. FirstTry(n) \/ (op \in Emails /\ Closed(wire[n].key))
      BY <1>1, <1>a, <2>5 DEF Judged, FirstTries, Open
    <3>2. CASE op \in Emails /\ Closed(wire[n].key)
      BY <1>a, <2>5, <3>2 DEF Closed
    <3>3. CASE FirstTry(n)
      <4>1. memo'[key] = NoAnswer /\ Unseen(key)'
        BY <1>1, <1>9, <1>a, <2>5, <3>3 DEF FirstTry
      <4>2. \A m \in Calls : wire'[m] # Unsent /\ wire'[m].key = key => m = n
        BY <1>4, <1>a, <3>3 DEF FirstTry, Carries, Sent
      <4>3. wire'[n].leg = "over"
        BY <1>5, <2>5 DEF Ending
      <4>4. Dead(key)'
        BY <4>1, <4>2, <4>3 DEF Dead, Carries, Sent
      <4> QED
        BY <2>5, <4>4
    <3> QED
      BY <3>1, <3>2, <3>3
  <2> QED
    BY <2>3, <2>4, <2>5 DEF Ending
<1>15. status = "ok" => Closed(key)'
  <2>1. SUFFICES ASSUME status = "ok" PROVE Closed(key)'
    OBVIOUS
  <2>2. /\ calls'[n] # Idle /\ calls'[n].told = "ok"
        /\ wire'[calls'[n].via].key = key /\ memo'[key] = Accepted
    BY <1>1, <1>3, <1>4, <1>14, <1>a, <2>1
  <2> QED
    BY <2>2 DEF Closed, Is, Reported
<1>16. JudgedFit'
  <2>1. ASSUME NEW m \in Calls, wire'[m] # Unsent, wire'[m].leg = "back"
        PROVE  \/ wire'[m].answer = AtTheDoor
               \/ wire'[m].answer \in Judgements /\ memo'[wire'[m].key] = wire'[m].answer
    <3>1. wire[m] # Unsent /\ wire[m].leg = "back" /\ wire'[m].answer = wire[m].answer
      BY <1>2, <1>4, <1>5, <2>1 DEF Ending, AnswerLeft
    <3> QED
      BY <1>1, <1>4, <3>1 DEF Judged, JudgedFit, Sent
  <2>2. ASSUME NEW k \in Calls, memo'[k] # NoAnswer PROVE Carries(k, k)'
    BY <1>1, <1>4, <2>2 DEF Judged, JudgedFit, Carries, Sent
  <2> QED
    BY <2>1, <2>2 DEF JudgedFit, Sent
<1>17. FirstTries'
  <2> SUFFICES ASSUME NEW m \in Calls, Open(m)', ~ wire'[m].retry
               PROVE  FirstTry(m)' \/ (calls'[m].op \in Emails /\ Closed(wire[m].key)')
    BY DEF FirstTries
  <2>1. m # n /\ calls'[m] = calls[m] /\ Open(m)
    BY <1>1, <1>3 DEF Open
  <2>2. wire[m] # Unsent /\ wire'[m] = wire[m]
    BY <1>2, <2>1, EntryOfOpen
  <2>3. PICK k \in Calls : k = wire[m].key
    BY <2>2, Fields DEF Copies
  <2>4. CASE FirstTry(m)
    <3>1. Unseen(k)'
      BY <1>9, <2>3, <2>4 DEF FirstTry
    <3>2. \A x \in Calls : wire'[x] # Unsent /\ wire'[x].key = k => x = m
      BY <1>4, <2>3, <2>4 DEF FirstTry, Carries, Sent
    <3>3. FirstTry(m)'
      BY <1>1, <2>2, <2>3, <2>4, <3>1, <3>2 DEF FirstTry, Carries, Sent, Unseen
    <3> QED
      BY <3>3
  <2>5. CASE calls[m].op \in Emails /\ Closed(wire[m].key)
    <3>1. Closed(k)'
      BY <1>8, <2>3, <2>5
    <3> QED
      BY <2>1, <2>2, <2>3, <2>5, <3>1 DEF Closed
  <2> QED
    BY <2>1, <2>2, <2>4, <2>5 DEF Judged, FirstTries
<1>18. Dropped'
  <2> SUFFICES ASSUME NEW k \in Calls, Carries(k, k), commands'[calls'[k].op].key # k
               PROVE  Closed(k)' \/ Dead(k)'
    BY <1>4 DEF Dropped, Carries, Sent
  <2>1. calls[k].op \in Ops /\ calls'[k].op = calls[k].op
    BY <1>12
  <2>2. CASE commands[calls[k].op].key # k
    BY <1>8, <1>13, <2>2, StillDropped
  <2>3. CASE commands[calls[k].op].key = k
    <3>1. k = key /\ Kept(n, status).key # key
      BY <1>1, <1>2, <2>1, <2>3
    <3>2. status \in {"ok", "refused"}
      BY <1>10, <3>1 DEF Ending
    <3>3. status = "refused" => Closed(key) \/ Dead(key)'
      BY <1>14 DEF Closed
    <3> QED
      BY <1>8, <1>15, <3>1, <3>2, <3>3
  <2> QED
    BY <2>2, <2>3
<1>19. ReportsFit'
  <2>1. ASSUME NEW x \in Calls PROVE Fit(x)'
    <3>1. CASE calls[x] # Idle /\ calls[x].told \in Statuses
      BY <1>7, <1>13, <3>1, StillFit
    <3>2. CASE calls[x].step = "waiting" /\ calls[x].via = n
      <4>1. calls[x].op = op /\ calls[x] # Idle
        <5>1. calls[x].step # "idle"
          BY <3>2
        <5>2. calls[calls[x].via].op = calls[x].op
          BY <3>2 DEF Retained, WaitsFit
        <5> QED
          BY <1>a, <3>2, <5>1, <5>2 DEF Idle
      <4>2. /\ calls'[x] # Idle /\ calls'[x].told = status /\ calls'[x].op = op
            /\ wire'[calls'[x].via].key = key
        BY <1>3, <1>4, <1>a, <3>2, <4>1
      <4>3. status = "refused" =>
              \/ memo'[key] = Refusal
              \/ op \in Emails /\ Closed(key)'
              \/ Dead(key)' /\ commands'[op].key # key
        <5>1. status = "refused" => commands'[op].key # key
          BY <1>2 DEF Kept, Absent
        <5> QED
          BY <1>1, <1>8, <1>14, <5>1
      <4>4. Closed(key)' => Closed(Reported(x))'
        BY <4>2 DEF Closed, Reported
      <4>5. Dead(key)' => Dead(Reported(x))'
        BY <4>2 DEF Dead, Reported, Unseen, Carries, Sent
      <4>6. Reported(x)' = key
        BY <4>2 DEF Reported
      <4> QED
        BY <1>1, <1>14, <4>2, <4>3, <4>4, <4>5, <4>6 DEF Fit, Is
    <3>3. CASE /\ ~ (calls[x] # Idle /\ calls[x].told \in Statuses)
               /\ ~ (calls[x].step = "waiting" /\ calls[x].via = n)
      <4>1. ~ (calls'[x] # Idle /\ calls'[x].told \in Statuses)
        BY <1>3, <3>3
      <4> QED
        BY <4>1 DEF Fit, Is, Statuses
    <3> QED
      BY <3>1, <3>2, <3>3
  <2> QED
    BY <2>1 DEF ReportsFit, Fit
<1> QED
  BY <1>16, <1>17, <1>18, <1>19 DEF Judged
LEMMA WireJudged ==
  ASSUME TypeOK, Retained, Judged, NEW n \in Calls, Serve(n) \/ Lose(n)
  PROVE  Judged'
<1>1. /\ wire[n] \in Copies /\ wire[n].leg \in {"out", "back"}
      /\ commands' = commands /\ calls' = calls
  BY WireSteps
<1>2. PICK leg \in {"back", "over"}, answer \in Sayable : Heard(n, leg, answer)
  BY WireSteps
<1>a. PICK key \in Calls : key = wire[n].key
  BY WireSteps
<1>3. \A m \in Calls : /\ wire'[m] # Unsent <=> wire[m] # Unsent
                       /\ wire'[m].key = wire[m].key
                       /\ wire'[m].retry = wire[m].retry
  BY WireKeepsRequests
<1>4. /\ wire'[n].leg = leg /\ wire'[n].answer = answer
      /\ \A m \in Calls : m # n => wire'[m] = wire[m]
  <2>1. answer \in Answers \cup {NoAnswer}
    BY Apart DEF Sayable, Judgements
  <2>2. wire' = [wire EXCEPT ![n] = CopyOf(n, leg, answer)]
    BY <1>2 DEF Heard
  <2>3. CopyOf(n, leg, answer).leg = leg /\ CopyOf(n, leg, answer).answer = answer
    BY <1>1, <2>1, CopyFields
  <2> QED
    BY <2>2, <2>3 DEF TypeOK
<1>5. wire[n] # Unsent
  BY <1>1 DEF Copies, Unsent
<1>6. \/ answer \notin Judgements /\ memo' = memo
      \/ /\ answer \in Judgements /\ leg = "back" /\ wire[n].leg = "out"
         /\ memo[key] \in {NoAnswer, answer} /\ memo'[key] = answer
         /\ \A k \in Calls : k # key => memo'[k] = memo[k]
  BY <1>2, <1>a DEF Heard, TypeOK
<1>7. leg = "back" => answer # NoAnswer /\ wire[n].leg = "out"
  BY <1>2 DEF Heard
<1>8. /\ \A x \in Calls : calls[x] # Idle /\ calls[x].told \in Statuses => calls'[x] = calls[x]
      /\ \A m \in Calls : wire[m] # Unsent => wire'[m].key = wire[m].key
      /\ \A k \in Calls : memo[k] # NoAnswer => memo'[k] = memo[k]
      /\ \A k \in Calls : Carries(k, k) => calls'[k].op = calls[k].op
  BY <1>1, <1>3, <1>6
<1>9. \A k \in Calls : Closed(k) => Closed(k)'
  BY <1>8, ReportsStay
<1>10. ASSUME NEW k \in Calls, Gone(k) PROVE Gone(k)'
  <2>1. memo'[k] = NoAnswer
    BY <1>5, <1>6, <1>10, <1>a DEF Gone, Dead, Carries, Sent
  <2>2. \A m \in Calls : wire'[m] # Unsent /\ wire'[m].key = k => wire'[m].leg # "out"
    BY <1>3, <1>4, <1>10 DEF Gone, Dead, Carries, Sent
  <2> QED
    BY <1>1, <1>3, <1>10, <2>1, <2>2 DEF Gone, Dead, Carries, Sent, Unseen
<1>11. JudgedFit'
  <2>1. ASSUME NEW m \in Calls, wire'[m] # Unsent, wire'[m].leg = "back"
        PROVE  \/ wire'[m].answer = AtTheDoor
               \/ wire'[m].answer \in Judgements /\ memo'[wire'[m].key] = wire'[m].answer
    <3>1. CASE m = n
      BY <1>3, <1>4, <1>6, <1>7, <1>a, <2>1, <3>1 DEF Sayable
    <3>2. CASE m # n
      <4>1. wire[m].key \in Calls
        BY <1>3, <2>1, Fields DEF Copies
      <4> QED
        BY <1>3, <1>4, <1>8, <2>1, <3>2, <4>1, Apart DEF Judged, JudgedFit, Sent, Judgements
    <3> QED
      BY <3>1, <3>2
  <2>2. ASSUME NEW k \in Calls, memo'[k] # NoAnswer PROVE Carries(k, k)'
    <3>1. Carries(key, key)
      BY <1>5, <1>a DEF Retained, SentFit, Sent
    <3>2. memo[k] # NoAnswer \/ k = key
      BY <1>6, <2>2
    <3> QED
      BY <1>3, <3>1, <3>2 DEF Judged, JudgedFit, Carries, Sent
  <2> QED
    BY <2>1, <2>2 DEF JudgedFit, Sent
<1>12. FirstTries'
  <2> SUFFICES ASSUME NEW m \in Calls, Open(m), ~ wire[m].retry
               PROVE  FirstTry(m)' \/ (calls[m].op \in Emails /\ Closed(wire[m].key)')
    BY <1>1, <1>3 DEF FirstTries, Open
  <2>1. wire[m] # Unsent
    BY EntryOfOpen
  <2>2. PICK k \in Calls : k = wire[m].key
    BY <2>1, Fields DEF Copies
  <2>3. CASE FirstTry(m)
    <3>1. \A x \in Calls : wire'[x] # Unsent /\ wire'[x].key = k => x = m
      BY <1>3, <2>2, <2>3 DEF FirstTry, Carries, Sent
    <3>2. wire'[m].leg = "out" \/ (wire'[m].leg = "back" /\ wire'[m].answer = AtTheDoor) =>
            memo'[k] = NoAnswer
      <4>1. CASE m = n
        <5>1. AtTheDoor \notin Judgements
          BY Apart DEF Judgements
        <5> QED
          BY <1>4, <1>6, <1>7, <2>2, <2>3, <4>1, <5>1 DEF FirstTry
      <4>2. CASE m # n
        <5>1. key # k
          BY <1>5, <1>a, <2>2, <2>3, <4>2 DEF FirstTry, Carries, Sent
        <5> QED
          BY <1>4, <1>6, <2>2, <2>3, <4>2, <5>1 DEF FirstTry
      <4> QED
        BY <4>1, <4>2
    <3>3. Unseen(k)'
      BY <1>1, <2>2, <2>3 DEF FirstTry, Unseen
    <3>4. FirstTry(m)'
      BY <1>3, <2>2, <3>1, <3>2, <3>3 DEF FirstTry, Carries, Sent, Unseen
    <3> QED
      BY <3>4
  <2>4. CASE calls[m].op \in Emails /\ Closed(wire[m].key)
    <3>1. Closed(k)'
      BY <1>9, <2>2, <2>4
    <3> QED
      BY <1>3, <2>2, <2>4, <3>1 DEF Closed
  <2> QED
    BY <2>3, <2>4 DEF Judged, FirstTries
<1>13. Dropped'
  <2> SUFFICES ASSUME NEW k \in Calls, Carries(k, k), commands[calls[k].op].key # k
               PROVE  Closed(k)' \/ Dead(k)'
    BY <1>1, <1>3 DEF Dropped, Carries, Sent
  <2> QED
    BY <1>9, <1>10, StillDropped
<1>14. ReportsFit'
  <2>1. ASSUME NEW x \in Calls PROVE Fit(x)'
    <3>1. CASE calls[x] # Idle /\ calls[x].told \in Statuses
      BY <1>8, <1>10, <3>1, StillFit
    <3>2. CASE ~ (calls[x] # Idle /\ calls[x].told \in Statuses)
      BY <1>1, <3>2 DEF Fit, Is, Statuses
    <3> QED
      BY <3>1, <3>2
  <2> QED
    BY <2>1 DEF ReportsFit, Fit
<1> QED
  BY <1>11, <1>12, <1>13, <1>14 DEF Judged
-----------------------------------------------------------------------------
(* The theorems.                                                           *)

\* The forms a step can take.
LEMMA StepForms ==
  ASSUME TypeOK, Retained, JudgedFit, Next
  PROVE  \E c \in Calls :
           \/ \E new : CallStep(c, new)
           \/ \E s \in Sessions : Claim(c, s)
           \/ \E status \in Statuses : \E leg \in {"out", "back", "over"} : Ending(c, status, leg)
           \/ Serve(c) \/ Lose(c)
<1>1. PICK c \in Calls : Start(c) \/ Scoped(c) \/ Attempt(c) \/ Serve(c) \/ Lose(c)
  BY DEF Next
<1>2. CASE Start(c)
  BY <1>2, StartIsStep
<1>3. CASE Scoped(c)
  <2>1. ASSUME NEW t \in TurnedBack, TurnBack(c, t) PROVE \E new : CallStep(c, new)
    BY <2>1, TurnBackIsStep
  <2>2. ASSUME NEW s \in Sessions, SessionMoved(c, s) \/ InFlight(c, s) \/ Unresolved(c, s)
        PROVE  \E new : CallStep(c, new)
    BY <2>1, <2>2 DEF SessionMoved, InFlight, Unresolved, TurnedBack
  <2>3. ASSUME NEW s \in Sessions, Join(c, s) PROVE \E new : CallStep(c, new)
    BY <2>3, JoinIsStep
  <2>4. ASSUME ScopeFails(c) PROVE \E new : CallStep(c, new)
    BY <2>1, <2>4 DEF ScopeFails, TurnedBack
  <2> QED
    BY <1>3, <2>2, <2>3, <2>4 DEF Scoped
<1>4. CASE Attempt(c)
  BY <1>4, AttemptsEnd
<1> QED
  BY <1>1, <1>2, <1>3, <1>4

LEMMA InitiallyIInv == Init => IInv
<1> SUFFICES ASSUME Init PROVE IInv
  OBVIOUS
<1>1. TypeOK
  BY DEF Init, TypeOK, Entries
<1>2. /\ \A op \in Ops : commands[op] = Absent
      /\ \A c \in Calls : calls[c] = Idle /\ wire[c] = Unsent /\ memo[c] = NoAnswer
  BY DEF Init
<1>3. Retained
  BY <1>2 DEF Retained, EntriesFit, NotesFit, SentFit, WaitsFit, ToldFit, EntryFits, Sent,
              Idle, Absent
<1>4. Judged
  BY <1>2 DEF Judged, JudgedFit, FirstTries, Dropped, ReportsFit, Carries, Sent, Is, Open, Idle
<1> QED
  BY <1>1, <1>2, <1>3, <1>4 DEF IInv, ChecksSendNothing

LEMMA IInvKept == IInv /\ [Next]_vars => IInv'
<1> SUFFICES ASSUME IInv, [Next]_vars PROVE IInv'
  OBVIOUS
<1>1. CASE UNCHANGED vars
  <2>1. TypeOK'
    BY <1>1 DEF IInv, TypeOK, vars
  <2>2. Retained'
    BY <1>1 DEF IInv, Retained, EntriesFit, NotesFit, SentFit, WaitsFit, ToldFit, EntryFits,
                Carries, Sent, Open, vars
  <2>3. ChecksSendNothing'
    BY <1>1 DEF IInv, ChecksSendNothing, vars
  <2>4. Judged'
    BY <1>1 DEF IInv, Judged, JudgedFit, FirstTries, FirstTry, Dropped, ReportsFit, Closed, Dead,
                Unseen, Is, Reported, Carries, Sent, Open, vars
  <2> QED
    BY <2>1, <2>2, <2>3, <2>4 DEF IInv
<1>2. CASE Next
  <2>1. PICK c \in Calls :
          \/ \E new : CallStep(c, new)
          \/ \E s \in Sessions : Claim(c, s)
          \/ \E status \in Statuses : \E leg \in {"out", "back", "over"} : Ending(c, status, leg)
          \/ Serve(c) \/ Lose(c)
    BY <1>2, StepForms DEF IInv, Judged
  <2>2. TypeOK /\ Retained /\ ChecksSendNothing /\ Judged
    BY DEF IInv
  <2>3. TypeOK'
    BY <2>1, <2>2, CallStepTypes, ClaimTypes, SettleTypes, WireTypes DEF Ending
  <2>4. Retained'
    BY <2>1, <2>2, CallStepRetained, ClaimRetained, SettleRetained, WireRetained DEF Ending
  <2>5. ChecksSendNothing'
    BY <2>1, <2>2, ChecksStep DEF Ending
  <2>6. Judged'
    BY <2>1, <2>2, CallStepJudged, ClaimJudged, EndingJudged, WireJudged
  <2> QED
    BY <2>3, <2>4, <2>5, <2>6 DEF IInv
<1> QED
  BY <1>1, <1>2

THEOREM Invariance == Spec => []IInv
  BY InitiallyIInv, IInvKept, PTL DEF Spec

\* Every reachable state is well formed, whatever the operations, calls and sessions.
THEOREM TypeCorrect == Spec => []TypeOK
<1>1. IInv => TypeOK
  BY DEF IInv
<1> QED
  BY <1>1, Invariance, PTL

\* A check of an email action that is made while it is being sent never sends
\* anything itself (retained-commands.mjs notes the open attempt before it awaits
\* the session).
THEOREM ChecksSendNothingHolds == Spec => []ChecksSendNothing
<1>1. IInv => ChecksSendNothing
  BY DEF IInv
<1> QED
  BY <1>1, Invariance, PTL

\* However many calls wait for the session of an operation together, one attempt is
\* open, with the retained request, and everybody who waits, waits for it.
THEOREM OneOpenAttemptHolds == Spec => []OneOpenAttempt
<1>1. IInv => OneOpenAttempt
  <2> SUFFICES ASSUME IInv PROVE OneOpenAttempt
    OBVIOUS
  <2>1. ASSUME NEW n \in Calls, Open(n)
        PROVE  /\ commands[calls[n].op] = [status |-> "pending", key |-> wire[n].key, by |-> n]
               /\ bindings[calls[n].op] = wire[n].binding
    <3>1. commands[calls[n].op] = [status |-> "pending", key |-> wire[n].key, by |-> n]
      BY <2>1 DEF IInv, Retained, WaitsFit, Open
    <3>2. calls[n].op \in Ops
      BY <2>1, Fields DEF IInv, Open, Begun
    <3>3. commands[calls[n].op] # Absent /\ commands[calls[n].op].by = n
      BY <3>1 DEF Absent
    <3> QED
      BY <3>1, <3>2, <3>3 DEF IInv, Retained, EntriesFit
  <2> QED
    BY <2>1 DEF OneOpenAttempt, IInv, Retained, EntriesFit, WaitsFit
<1> QED
  BY <1>1, Invariance, PTL

\* "ok" is told only of what the record took, and a refusal only of what it did not
\* take and never will, but to a check that another check has overtaken.
THEOREM AnswersTrueHolds == Spec => []AnswersTrue
<1>1. IInv => AnswersTrue
  <2> SUFFICES ASSUME IInv, NEW c \in Calls, calls[c] # Idle
               PROVE  /\ calls[c].told = "ok" => memo[Reported(c)] = Accepted
                      /\ calls[c].told = "refused" /\ memo[Reported(c)] = Accepted =>
                           /\ calls[c].op \in Emails
                           /\ \E d \in Calls \ {c} : calls[d] # Idle /\ calls[d].told = "ok"
                                                     /\ Reported(d) = Reported(c)
    BY DEF AnswersTrue
  <2>1. /\ Is(c, "ok") => memo[Reported(c)] = Accepted
        /\ Is(c, "refused") =>
             \/ memo[Reported(c)] = Refusal
             \/ calls[c].op \in Emails /\ Closed(Reported(c))
             \/ Dead(Reported(c))
    BY DEF IInv, Judged, ReportsFit
  <2>2. ASSUME calls[c].told = "refused", memo[Reported(c)] = Accepted
        PROVE  calls[c].op \in Emails /\ Closed(Reported(c))
    BY <2>1, <2>2, Apart DEF Is, Dead
  <2>3. ASSUME calls[c].told = "refused", Closed(Reported(c)), memo[Reported(c)] = Accepted
        PROVE  \E d \in Calls \ {c} : calls[d] # Idle /\ calls[d].told = "ok"
                                      /\ Reported(d) = Reported(c)
    BY <2>3, Apart DEF Closed, Is
  <2> QED
    BY <2>1, <2>2, <2>3 DEF Is
<1> QED
  BY <1>1, Invariance, PTL

\* While its outcome is unknown, a request keeps its key and its session, through
\* every check and whoever makes it.
THEOREM KeptAsMadeHolds == Spec => KeptAsMade
<1>1. ASSUME IInv, [Next]_vars, NEW op \in Ops, commands[op] # Absent, commands'[op] # Absent
      PROVE  commands'[op].key = commands[op].key /\ bindings'[op] = bindings[op]
  <2>1. CASE UNCHANGED vars
    BY <2>1 DEF vars
  <2>2. CASE Next
    <3>1. PICK c \in Calls :
            \/ \E new : CallStep(c, new)
            \/ \E s \in Sessions : Claim(c, s)
            \/ \E status \in Statuses : \E leg \in {"out", "back", "over"} : Ending(c, status, leg)
            \/ Serve(c) \/ Lose(c)
      BY <1>1, <2>2, StepForms DEF IInv, Judged
    <3>2. ASSUME NEW s \in Sessions, Claim(c, s)
          PROVE  commands'[op].key = commands[op].key /\ bindings'[op] = bindings[op]
      <4>1. /\ calls[c] \in Begun /\ calls[c].op \in Ops
            /\ Prior(c) = commands[calls[c].op]
            /\ commands' = [commands EXCEPT ![calls[c].op] = Holding(c)]
            /\ bindings' = [bindings EXCEPT ![calls[c].op] = s]
        BY <1>1, <3>2, ClaimSteps DEF IInv
      <4>2. CASE calls[c].op # op
        BY <1>1, <4>1, <4>2 DEF IInv, TypeOK
      <4>3. CASE calls[c].op = op
        <5>1. ClaimKey(c) = commands[op].key
          BY <1>1, <4>1, <4>3 DEF ClaimKey
        <5>2. commands'[op].key = ClaimKey(c) /\ bindings'[op] = s
          BY <1>1, <4>1, <4>3 DEF IInv, TypeOK, Holding
        <5>3. PriorBinding(c) = s
          BY <1>1, <3>2, <4>1, <4>3 DEF Claim, SameSession
        <5>4. PriorBinding(c) = bindings[op]
          <6>1. calls[c] # Idle
            BY <3>2 DEF Claim, SameSession, Idle
          <6>2. calls[c].seen # Absent =>
                  calls[c].seenBinding = wire[calls[c].seen.by].binding
            BY <1>1, <6>1 DEF IInv, Retained, NotesFit
          <6>3. bindings[op] = wire[commands[op].by].binding
            BY <1>1 DEF IInv, Retained, EntriesFit
          <6> QED
            BY <1>1, <4>1, <4>3, <6>2, <6>3 DEF PriorBinding
        <5> QED
          BY <5>1, <5>2, <5>3, <5>4
      <4> QED
        BY <4>2, <4>3
    <3>3. ASSUME NEW status \in Statuses, NEW leg \in {"out", "back", "over"},
                 Settle(c, status, leg)
          PROVE  commands'[op].key = commands[op].key /\ bindings'[op] = bindings[op]
      <4>1. /\ calls[c].op \in Ops /\ commands[calls[c].op].key = wire[c].key
            /\ commands' = [commands EXCEPT ![calls[c].op] = Kept(c, status)]
            /\ bindings' = [bindings EXCEPT ![calls[c].op] = BoundTo(calls[c].op, status)]
        <5>1. /\ calls[c].op \in Ops /\ Open(c)
              /\ commands' = [commands EXCEPT ![calls[c].op] = Kept(c, status)]
              /\ bindings' = [bindings EXCEPT ![calls[c].op] = BoundTo(calls[c].op, status)]
          BY <1>1, <3>3, SettleSteps DEF IInv
        <5> QED
          BY <1>1, <5>1, EntryOfOpen DEF IInv
      <4> QED
        BY <1>1, <4>1 DEF IInv, TypeOK, Kept, BoundTo
    <3>4. CASE \E new : CallStep(c, new)
      BY <3>4 DEF CallStep
    <3>5. CASE Serve(c) \/ Lose(c)
      BY <3>5 DEF Serve, Lose
    <3> QED
      BY <3>1, <3>2, <3>3, <3>4, <3>5 DEF Ending
  <2> QED
    BY <1>1, <2>1, <2>2
<1>2. IInv /\ [Next]_vars =>
        [\A op \in Ops : commands[op] # Absent /\ commands'[op] # Absent =>
           commands'[op].key = commands[op].key /\ bindings'[op] = bindings[op]]_vars
  BY <1>1
<1> QED
  BY <1>2, Invariance, PTL DEF Spec, KeptAsMade
-----------------------------------------------------------------------------
(* Refinement of OneOutcome.                                               *)

Stage == [op \in Plain |-> StageOf(commands[op].status)]
Current == [op \in Plain |-> commands[op].key]
Landed == {k \in Claimed : memo[k] = Accepted}

LEMMA StageMoves ==
  ASSUME NEW op \in Plain, \A o \in Ops : o # op => commands'[o] = commands[o]
  PROVE  /\ Stage' = [Stage EXCEPT ![op] = StageOf(commands'[op].status)]
         /\ Current' = [Current EXCEPT ![op] = commands'[op].key]
         /\ Stage[op] = StageOf(commands[op].status)
         /\ Current[op] = commands[op].key
<1>1. \A o \in Plain : o # op => StageOf(commands'[o].status) = StageOf(commands[o].status)
  BY DEF Plain
<1> QED
  BY <1>1 DEF Stage, Current, Plain

LEMMA NothingPromised ==
  ASSUME \A op \in Plain : commands'[op] = commands[op],
         Claimed' = Claimed, Landed' = Landed
  PROVE  UNCHANGED Promise!vars
  BY DEF Promise!vars, Landed

\* A request that was sent was made for an operation, and stays made for it.
LEMMA SentOps ==
  ASSUME TypeOK, Retained, NEW k \in Calls, wire[k] # Unsent
  PROVE  calls[k] # Idle /\ calls[k].op \in Ops /\ wire[k].key \in Calls
<1>1. calls[k].step # "idle"
  BY DEF Retained, SentFit, Sent
<1>2. calls[k].op \in Ops
  BY <1>1, Fields DEF Begun
<1> QED
  BY <1>1, <1>2, Fields DEF Idle, Copies

\* Steps that send nothing leave the decisions taken as they are.
LEMMA ClaimedKept ==
  ASSUME TypeOK, Retained,
         \A m \in Calls : /\ wire'[m] # Unsent <=> wire[m] # Unsent
                          /\ wire'[m].key = wire[m].key,
         \A m \in Calls : wire[m] # Unsent => calls'[m].op = calls[m].op
  PROVE  Claimed' = Claimed
  BY DEF Claimed

LEMMA CallStepMaps ==
  ASSUME IInv, NEW c \in Calls, NEW new, CallStep(c, new)
  PROVE  UNCHANGED Promise!vars
<1>1. TypeOK /\ Retained
  BY DEF IInv
<1>2. wire[c] = Unsent
  <2>1. calls[c].step \in {"idle", "scope"}
    BY <1>1, Fields DEF CallStep, Observing, TurningBack, Joining, Scoping, Idle
  <2> QED
    BY <1>1, <2>1 DEF Retained, SentFit, Sent
<1>3. /\ \A x \in Calls : x # c => calls'[x] = calls[x]
      /\ commands' = commands /\ wire' = wire /\ memo' = memo
  BY <1>1 DEF CallStep, TypeOK
<1>4. Claimed' = Claimed
  BY <1>1, <1>2, <1>3, ClaimedKept
<1>5. Landed' = Landed
  BY <1>3, <1>4 DEF Landed
<1> QED
  BY <1>3, <1>4, <1>5, NothingPromised

LEMMA ClaimMaps ==
  ASSUME IInv, NEW c \in Calls, NEW s \in Sessions, Claim(c, s)
  PROVE  Promise!Next \/ UNCHANGED Promise!vars
<1>1. TypeOK /\ Retained /\ JudgedFit
  BY DEF IInv, Judged
<1>a. PICK op \in Ops, key \in Calls : op = calls[c].op /\ key = ClaimKey(c)
  BY <1>1, ClaimSteps
<1>2. /\ commands[op] # Absent => commands[op].status = "unknown" /\ commands[op].key = key
      /\ commands[op] = Absent => calls[c].key = key
      /\ memo' = memo /\ calls[c] \in Begun /\ calls[c].step = "scope"
  BY <1>1, <1>a, ClaimSteps DEF ClaimKey
<1>3. /\ calls'[c] = Awaiting(c)
      /\ \A x \in Calls : x # c => calls'[x] = calls[x]
      /\ wire'[c] = Sending(c, s)
      /\ \A m \in Calls : m # c => wire'[m] = wire[m]
      /\ commands'[op] = Holding(c)
      /\ \A o \in Ops : o # op => commands'[o] = commands[o]
  <2>1. /\ calls' = [calls EXCEPT ![c] = Awaiting(c)]
        /\ wire' = [wire EXCEPT ![c] = Sending(c, s)]
        /\ commands' = [commands EXCEPT ![calls[c].op] = Holding(c)]
    BY <1>1, ClaimSteps
  <2> QED
    BY <1>1, <1>a, <2>1 DEF TypeOK
<1>4. /\ Awaiting(c).op = op /\ Sending(c, s).key = key /\ Sending(c, s) # Unsent
      /\ Holding(c).key = key /\ Holding(c).status = "pending"
  BY <1>2, <1>a DEF Awaiting, Begun, Sending, Unsent, Holding
<1>5. /\ wire[c] = Unsent
      /\ key = c \/ wire[key] # Unsent
  BY <1>1, <1>a, ClaimedKey DEF Sent, Carries
<1>6. memo[c] = NoAnswer
  BY <1>1, <1>5 DEF JudgedFit, Carries, Sent
<1>7. Claimed' = IF key = c /\ op \in Plain THEN Claimed \cup {c} ELSE Claimed
  BY <1>3, <1>4, <1>5 DEF Claimed
<1>8. Landed' = Landed
  BY <1>2, <1>6, <1>7, Apart DEF Landed
<1>9. CASE op \in Emails
  <2>1. \A o \in Plain : commands'[o] = commands[o]
    BY <1>3, <1>9 DEF Plain
  <2>2. Claimed' = Claimed
    BY <1>7, <1>9 DEF Plain
  <2> QED
    BY <1>8, <2>1, <2>2, NothingPromised
<1>10. CASE op \notin Emails /\ commands[op] = Absent
  <2>1. key = c
    <3>1. calls[c] # Idle
      BY <1>2 DEF Idle
    <3> QED
      BY <1>1, <1>2, <1>10, <1>a, <3>1 DEF Retained, NotesFit
  <2>2. op \in Plain /\ c \notin Claimed /\ Claimed' = Claimed \cup {c}
    BY <1>5, <1>7, <1>10, <2>1 DEF Plain, Claimed
  <2>3. Stage' = [Stage EXCEPT ![op] = "open"] /\ Stage[op] = "idle"
    <3>1. Stage' = [Stage EXCEPT ![op] = StageOf(commands'[op].status)]
      BY <1>3, <2>2, StageMoves
    <3>2. Stage[op] = StageOf(commands[op].status)
      BY <1>3, <2>2, StageMoves
    <3>3. commands'[op].status = "pending" /\ commands[op].status = "absent"
      BY <1>3, <1>4, <1>10 DEF Absent
    <3> QED
      BY <3>1, <3>2, <3>3 DEF StageOf
  <2>4. Current' = [Current EXCEPT ![op] = c]
    BY <1>3, <1>4, <2>1, <2>2 DEF Current, Plain
  <2>5. Promise!Decide(op, c)
    BY <1>8, <2>2, <2>3, <2>4 DEF Promise!Decide, Stage, Current, Landed
  <2> QED
    BY <2>2, <2>5 DEF Promise!Next
<1>11. CASE op \notin Emails /\ commands[op] # Absent
  <2>1. op \in Plain /\ key # c
    <3>1. Carries(key, key)
      BY <1>1, <1>2, <1>11, KeyOfEntry
    <3> QED
      BY <1>5, <1>11, <3>1 DEF Plain, Carries, Sent
  <2>2. Stage' = [Stage EXCEPT ![op] = "open"] /\ Stage[op] = "unresolved"
    <3>1. Stage' = [Stage EXCEPT ![op] = StageOf(commands'[op].status)]
      BY <1>3, <2>1, StageMoves
    <3>2. Stage[op] = StageOf(commands[op].status)
      BY <1>3, <2>1, StageMoves
    <3>3. commands'[op].status = "pending" /\ commands[op].status = "unknown"
      BY <1>2, <1>3, <1>4, <1>11
    <3> QED
      BY <3>1, <3>2, <3>3 DEF StageOf
  <2>3. Current' = Current
    BY <1>2, <1>3, <1>4, <1>11, <2>1 DEF Current, Plain
  <2>4. Promise!Check(op)
    BY <1>7, <1>8, <2>1, <2>2, <2>3 DEF Promise!Check, Stage, Current, Landed
  <2> QED
    BY <2>1, <2>4 DEF Promise!Next
<1> QED
  BY <1>9, <1>10, <1>11

LEMMA EndingMaps ==
  ASSUME IInv, NEW n \in Calls, NEW status \in Statuses,
         NEW leg \in {"out", "back", "over"}, Ending(n, status, leg)
  PROVE  Promise!Next \/ UNCHANGED Promise!vars
<1>1. TypeOK /\ Retained /\ Judged /\ Judged' /\ Settle(n, status, leg)
  BY EndingJudged DEF IInv, Ending
<1>a. PICK op \in Ops, key \in Calls : op = calls[n].op /\ key = wire[n].key
  BY <1>1, SettleSteps
<1>2. /\ commands[op].status = "pending" /\ commands[op].key = key
      /\ wire[n] # Unsent /\ memo' = memo /\ calls' = Told(n, status)
      /\ calls[n].step = "waiting" /\ calls[n].via = n
  <2>1. Open(n) /\ memo' = memo
    BY <1>1, SettleSteps
  <2> QED
    BY <1>1, <1>a, <2>1, EntryOfOpen DEF Settle, Open
<1>3. /\ commands'[op] = Kept(n, status)
      /\ \A o \in Ops : o # op => commands'[o] = commands[o]
  <2>1. commands' = [commands EXCEPT ![calls[n].op] = Kept(n, status)]
    BY <1>1, SettleSteps
  <2> QED
    BY <1>1, <1>a, <2>1 DEF TypeOK
<1>4. \A m \in Calls : /\ wire'[m] # Unsent <=> wire[m] # Unsent
                       /\ wire'[m].key = wire[m].key
  BY <1>1, SettleKeepsRequests
<1>5. /\ \A x \in Calls : calls[x] # Idle => calls'[x].op = calls[x].op
      /\ calls'[n] # Idle /\ calls'[n].told = status /\ calls'[n].via = n /\ calls'[n].op = op
  <2>1. calls[n] # Idle
    BY <1>1, <1>2, SentOps
  <2> QED
    BY <1>1, <1>2, <1>a, <2>1, ToldFields
<1>6. \A m \in Calls : wire[m] # Unsent => calls[m] # Idle
  BY <1>1, SentOps
<1>7. Claimed' = Claimed /\ Landed' = Landed
  <2>1. Claimed' = Claimed
    BY <1>1, <1>4, <1>5, <1>6, ClaimedKept
  <2> QED
    BY <1>2, <2>1 DEF Landed
<1>8. CASE op \in Emails
  <2>1. \A o \in Plain : commands'[o] = commands[o]
    BY <1>3, <1>8 DEF Plain
  <2> QED
    BY <1>7, <2>1, NothingPromised
<1>9. CASE op \notin Emails
  <2>1. op \in Plain /\ Stage[op] = "open" /\ Current[op] = key
    BY <1>2, <1>9 DEF Plain, Stage, StageOf, Current
  <2>2. key \in Claimed
    <3>1. Carries(key, key) /\ calls[key].op = op
      BY <1>1, <1>2, <1>a DEF Retained, SentFit, Sent
    <3> QED
      BY <2>1, <3>1 DEF Claimed, Carries, Sent
  <2>3. CASE status = "unknown"
    <3>1. Stage' = [Stage EXCEPT ![op] = "unresolved"] /\ Current' = Current
      <4>1. /\ Stage' = [Stage EXCEPT ![op] = StageOf(commands'[op].status)]
            /\ Current' = [Current EXCEPT ![op] = commands'[op].key]
        BY <1>3, <2>1, StageMoves
      <4>2. commands'[op].status = "unknown" /\ commands'[op].key = key
        BY <1>3, <1>a, <2>3 DEF Kept
      <4>3. StageOf("unknown") = "unresolved"
        BY DEF StageOf
      <4>4. Current' = [Current EXCEPT ![op] = Current[op]]
        BY <2>1, <4>1, <4>2
      <4> QED
        BY <2>1, <4>1, <4>2, <4>3, <4>4 DEF Current
    <3>2. Promise!LoseTrack(op)
      BY <1>7, <2>1, <3>1 DEF Promise!LoseTrack, Stage, Current, Landed
    <3> QED
      BY <2>1, <3>2 DEF Promise!Next
  <2>4. CASE status # "unknown"
    <3>1. /\ Stage' = [Stage EXCEPT ![op] = "idle"]
          /\ Current' = [Current EXCEPT ![op] = NoCall]
      <4>1. /\ Stage' = [Stage EXCEPT ![op] = StageOf(commands'[op].status)]
            /\ Current' = [Current EXCEPT ![op] = commands'[op].key]
        BY <1>3, <2>1, StageMoves
      <4>2. commands'[op].status = "absent" /\ commands'[op].key = NoCall
        BY <1>3, <2>4 DEF Kept, Absent
      <4>3. StageOf("absent") = "idle"
        BY DEF StageOf
      <4> QED
        BY <4>1, <4>2, <4>3
    <3>2. Promise!Close(op)
      BY <1>7, <2>1, <3>1 DEF Promise!Close, Stage, Current, Landed
    <3>3. wire'[calls'[n].via].key = key
      BY <1>4, <1>5, <1>a
    <3>4. status = "ok" => memo[key] = Accepted
      BY <1>1, <1>2, <1>5, <3>3 DEF Judged, ReportsFit, Is, Reported
    <3>5. status = "refused" => memo[key] # Accepted
      <4>1. status = "refused" => memo'[key] = Refusal \/ memo'[key] = NoAnswer
        BY <1>1, <1>5, <1>9, <3>3 DEF Judged, ReportsFit, Is, Reported, Dead
      <4> QED
        BY <1>2, <4>1, Apart
    <3>6. status \in {"ok", "refused"}
      BY <2>4 DEF Ending
    <3>7. CASE status = "ok"
      <4>1. Promise!Confirm(op)
        BY <2>1, <2>2, <3>2, <3>4, <3>7 DEF Promise!Confirm, Current
      <4> QED
        BY <2>1, <4>1 DEF Promise!Next
    <3>8. CASE status = "refused"
      <4>1. Promise!Deny(op)
        BY <2>1, <3>2, <3>5, <3>8 DEF Promise!Deny, Current
      <4> QED
        BY <2>1, <4>1 DEF Promise!Next
    <3> QED
      BY <3>6, <3>7, <3>8
  <2> QED
    BY <2>3, <2>4
<1> QED
  BY <1>8, <1>9

LEMMA WireMaps ==
  ASSUME IInv, NEW n \in Calls, Serve(n) \/ Lose(n)
  PROVE  Promise!Next \/ UNCHANGED Promise!vars
<1>1. TypeOK /\ Retained /\ Judged
  BY DEF IInv
<1>2. PICK leg \in {"back", "over"}, answer \in Sayable : Heard(n, leg, answer)
  BY <1>1, WireSteps
<1>3. /\ wire[n] \in Copies /\ commands' = commands /\ calls' = calls
  BY <1>1, WireSteps
<1>a. PICK key \in Calls : key = wire[n].key
  BY <1>1, WireSteps
<1>4. wire[n] # Unsent
  BY <1>3 DEF Copies, Unsent
<1>5. Claimed' = Claimed
  <2>1. \A m \in Calls : /\ wire'[m] # Unsent <=> wire[m] # Unsent
                         /\ wire'[m].key = wire[m].key
    BY <1>1, WireKeepsRequests
  <2> QED
    BY <1>1, <1>3, <2>1, ClaimedKept
<1>6. CASE /\ answer = Accepted /\ memo[key] = NoAnswer /\ leg = "back" /\ wire[n].leg = "out"
           /\ memo' = [memo EXCEPT ![key] = Accepted]
           /\ key \in Claimed
  <2>1. Carries(key, key) /\ calls[key].op \in Plain
    BY <1>6 DEF Claimed, Carries, Sent
  <2>2. commands[calls[key].op].key = key
    <3>1. ~ Closed(key) /\ ~ Dead(key)
      BY <1>4, <1>6, <1>a, Apart DEF Closed, Dead, Carries, Sent
    <3> QED
      BY <1>1, <2>1, <3>1 DEF Judged, Dropped
  <2>3. PICK op \in Plain : op = calls[key].op
    BY <2>1
  <2>4. Stage[op] # "idle" /\ Current[op] = key
    BY <2>2, <2>3, <1>1, Fields DEF Stage, StageOf, Current, Plain, Absent
  <2>5. key \notin Landed /\ Landed' = Landed \cup {key}
    BY <1>1, <1>5, <1>6, Apart DEF Landed, TypeOK, Claimed
  <2>6. Promise!Land(op)
    BY <1>3, <1>5, <2>4, <2>5 DEF Promise!Land, Stage, Current, Landed
  <2> QED
    BY <2>6 DEF Promise!Next
<1>7. CASE ~ (/\ answer = Accepted /\ memo[key] = NoAnswer /\ leg = "back" /\ wire[n].leg = "out"
              /\ memo' = [memo EXCEPT ![key] = Accepted]
              /\ key \in Claimed)
  <2>1. \A k \in Claimed : memo'[k] = Accepted <=> memo[k] = Accepted
    <3>1. CASE answer \notin Judgements
      BY <1>2, <3>1 DEF Heard
    <3>2. CASE answer \in Judgements
      <4>1. /\ leg = "back" /\ wire[n].leg = "out"
            /\ memo[key] \in {NoAnswer, answer} /\ memo' = [memo EXCEPT ![key] = answer]
        BY <1>2, <1>a, <3>2 DEF Heard
      <4>2. \A k \in Calls : k # key => memo'[k] = memo[k]
        BY <1>1, <4>1 DEF TypeOK
      <4>3. memo'[key] = answer
        BY <1>1, <4>1 DEF TypeOK
      <4>4. key \in Claimed => (memo'[key] = Accepted <=> memo[key] = Accepted)
        BY <1>7, <3>2, <4>1, <4>3, Apart DEF Judgements
      <4> QED
        BY <4>2, <4>4 DEF Claimed
    <3> QED
      BY <3>1, <3>2
  <2>2. Landed' = Landed
    BY <1>5, <2>1 DEF Landed
  <2> QED
    BY <1>3, <1>5, <2>2, NothingPromised
<1> QED
  BY <1>6, <1>7

\* Commands that are no email action take effect at most once and are reported as
\* they ended, whatever other calls do while one awaits its session.
THEOREM ImplementsOneOutcome == Spec => KeepsPromise
<1>1. Init => Promise!Init
  <2> SUFFICES ASSUME Init PROVE Promise!Init
    OBVIOUS
  <2>1. \A op \in Plain : commands[op] = Absent
    BY DEF Init, Plain
  <2>2. Claimed = {}
    BY DEF Init, Claimed
  <2> QED
    BY <2>1, <2>2 DEF Promise!Init, Absent, StageOf
<1>2. IInv /\ [Next]_vars => [Promise!Next]_(Promise!vars)
  <2> SUFFICES ASSUME IInv, [Next]_vars PROVE Promise!Next \/ UNCHANGED Promise!vars
    OBVIOUS
  <2>1. CASE UNCHANGED vars
    BY <2>1, NothingPromised DEF vars, Claimed, Landed
  <2>2. CASE Next
    <3>1. PICK c \in Calls :
            \/ \E new : CallStep(c, new)
            \/ \E s \in Sessions : Claim(c, s)
            \/ \E status \in Statuses : \E leg \in {"out", "back", "over"} : Ending(c, status, leg)
            \/ Serve(c) \/ Lose(c)
      BY <2>2, StepForms DEF IInv, Judged
    <3> QED
      BY <3>1, CallStepMaps, ClaimMaps, EndingMaps, WireMaps
  <2> QED
    BY <2>1, <2>2
<1> QED
  BY <1>1, <1>2, Invariance, PTL DEF Spec, KeepsPromise, Promise!Spec
===============================================================================
