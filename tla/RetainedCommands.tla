--------------------------- MODULE RetainedCommands ---------------------------
(***************************************************************************)
(* js/retained-commands.mjs as js/live-client.js uses it for the writes    *)
(* that belong to a session: send() notes what is retained for its         *)
(* operation, awaits the session, looks again, and then claims the         *)
(* operation, joins the attempt that is open, or is turned back.  What was *)
(* sent is retained, bound to its session, until its outcome is known.     *)
(*                                                                         *)
(* Other calls of send() run while one awaits the session.  The calls of   *)
(* an email action carry `method`: they repeat a whole request, key        *)
(* included, and share the promise of an attempt that is open.  All others *)
(* are recognised by what they ask for.                                    *)
(*                                                                         *)
(* A call makes at most one request of its own, so calls also name         *)
(* idempotency keys and attempts.  Wire and record layer are external, and *)
(* as in CommandKernel: a key is judged once.                              *)
(***************************************************************************)
EXTENDS CommandOutcomes, FiniteSets

CONSTANTS Ops,       \* operation keys
          Emails,    \* those whose calls carry a method
          Intents,   \* what a request can ask for, besides its key
          Calls,     \* calls of send()
          Sessions,  \* what scope() can answer
          NoCall, NoSession

ASSUME ConstantsAssumption ==
  /\ Emails \subseteq Ops
  /\ NoCall \notin Calls
  /\ NoSession \notin Sessions

VARIABLES
  commands,   \* commands[op]: the retained entry: key, status, claiming call
  bindings,   \* bindings[op]: the session the retained request is bound to
  calls,      \* calls[c]: how far a call is, what it noted, what it was told
  wire,       \* wire[c]: the copy of a request that c sent
  memo        \* memo[k]: the record layer's judgement of key k

vars == <<commands, bindings, calls, wire, memo>>

Absent == [status |-> "absent", key |-> NoCall, by |-> NoCall]
Idle == [step |-> "idle"]
Unsent == [leg |-> "unsent"]

\* A decline stands for a version conflict too: both end a command alike.
Refusal == Error("none", "declined")
Judgements == {Accepted, Refusal}
TurnedBack == {"unverified", "session_changed", "unresolved_command", "command_in_flight"}

Entries == {Absent} \cup [status : {"pending", "unknown"}, key : Calls, by : Calls]

Begun == [step : {"scope", "waiting", "done"}, op : Ops, intent : Intents, key : Calls,
          seen : Entries, seenBinding : Sessions \cup {NoSession},
          via : Calls \cup {NoCall}, told : {"none"} \cup Statuses \cup TurnedBack]
Copies == [leg : {"out", "back", "over"}, key : Calls, binding : Sessions,
           retry : BOOLEAN, answer : Answers \cup {NoAnswer}]

TypeOK ==
  /\ commands \in [Ops -> Entries]
  /\ bindings \in [Ops -> Sessions \cup {NoSession}]
  /\ calls \in [Calls -> {Idle} \cup Begun]
  /\ wire \in [Calls -> {Unsent} \cup Copies]
  /\ memo \in [Calls -> Judgements \cup {NoAnswer}]

Init ==
  /\ commands = [op \in Ops |-> Absent]
  /\ bindings = [op \in Ops |-> NoSession]
  /\ calls = [c \in Calls |-> Idle]
  /\ wire = [c \in Calls |-> Unsent]
  /\ memo = [c \in Calls |-> NoAnswer]

-----------------------------------------------------------------------------
(* send(), up to the session.                                              *)

Observe(c, op, intent, key) ==
  /\ calls[c] = Idle
  /\ calls' = [calls EXCEPT ![c] =
       [step |-> "scope", op |-> op, intent |-> intent, key |-> key,
        seen |-> commands[op], seenBinding |-> bindings[op],
        via |-> NoCall, told |-> "none"]]
  /\ UNCHANGED <<commands, bindings, wire, memo>>

\* A request with a key of its own.
Make(c, op, intent) == Observe(c, op, intent, c)

\* "Check outcome" of an email action: the request that details() names.
Repeat(c, op) ==
  /\ op \in Emails
  /\ commands[op] # Absent
  /\ Observe(c, op, calls[commands[op].key].intent, commands[op].key)

-----------------------------------------------------------------------------
(* send(), once the session is known.                                      *)

\* Mutant: an attempt that was open when the call was made is forgotten when
\* it settles meanwhile.
PriorMut(c) == commands[calls[c].op]

\* The entry this call has to respect.  Entries are never changed in place, so
\* the one noted before the session was awaited still says what it said then.
Prior(c) ==
  IF calls[c].op \in Emails /\ calls[c].seen.status = "pending"
  THEN calls[c].seen
  ELSE commands[calls[c].op]

PriorBinding(c) ==
  IF Prior(c) = calls[c].seen THEN calls[c].seenBinding ELSE bindings[calls[c].op]

\* Mutant: the outcome is written where the step belongs.
FinishMut(c, told) == [calls EXCEPT ![c].step = told]

Finish(c, told) == [calls EXCEPT ![c].step = "done", ![c].told = told]

TurnBack(c, told) ==
  /\ calls[c].step = "scope"
  /\ calls' = Finish(c, told)
  /\ UNCHANGED <<commands, bindings, wire, memo>>

ScopeFails(c) == TurnBack(c, "unverified")

\* Mutant: the session is not compared.
SameSessionMut(c, s) == calls[c].step = "scope"

SameSession(c, s) ==
  /\ calls[c].step = "scope"
  /\ Prior(c) = Absent \/ PriorBinding(c) = s

SessionMoved(c, s) == ~ SameSession(c, s) /\ TurnBack(c, "session_changed")

\* An email action repeats the whole request, any other command its intent.
Repeats(c) ==
  IF calls[c].op \in Emails
  THEN Prior(c).key = calls[c].key
  ELSE calls[Prior(c).key].intent = calls[c].intent

\* Mutant: what was noted before the session was awaited decides.
FreeMut(c) == calls[c].seen.status # "pending"

\* No attempt is open for the operation.
Free(c) == Prior(c).status # "pending"

InFlight(c, s) ==
  /\ SameSession(c, s)
  /\ calls[c].op \notin Emails
  /\ ~ Free(c)
  /\ TurnBack(c, "command_in_flight")

Unresolved(c, s) ==
  /\ SameSession(c, s)
  /\ Prior(c) # Absent
  /\ calls[c].op \in Emails \/ Free(c)
  /\ ~ Repeats(c)
  /\ TurnBack(c, "unresolved_command")

\* The call awaits the promise of the open attempt, which may be settled by now.
Join(c, s) ==
  LET n == Prior(c).by
  IN /\ SameSession(c, s)
     /\ calls[c].op \in Emails
     /\ ~ Free(c)
     /\ Repeats(c)
     /\ calls' = [calls EXCEPT
                    ![c].step = IF calls[n].step = "done" THEN "done" ELSE "waiting",
                    ![c].told = calls[n].told,
                    ![c].via = n]
     /\ UNCHANGED <<commands, bindings, wire, memo>>

\* beginCommand starts: with the call's own request, or the retained one again.
Claim(c, s) ==
  LET op == calls[c].op
      retry == Prior(c) # Absent
      key == IF retry THEN Prior(c).key ELSE calls[c].key
  IN /\ SameSession(c, s)
     /\ Free(c)
     /\ retry => Repeats(c)
     /\ commands' = [commands EXCEPT ![op] = [status |-> "pending", key |-> key, by |-> c]]
     /\ bindings' = [bindings EXCEPT ![op] = s]
     /\ calls' = [calls EXCEPT ![c].step = "waiting", ![c].via = c]
     /\ wire' = [wire EXCEPT ![c] = [leg |-> "out", key |-> key, binding |-> s,
                                     retry |-> retry, answer |-> NoAnswer]]
     /\ UNCHANGED memo

-----------------------------------------------------------------------------
(* The attempt of call n.                                                  *)

Open(n) == calls[n].step = "waiting" /\ calls[n].via = n

\* Everybody who awaits attempt n hears how it ended.
Told(n, status) ==
  [c \in Calls |-> IF calls[c].step = "waiting" /\ calls[c].via = n
                   THEN [calls[c] EXCEPT !.step = "done", !.told = status]
                   ELSE calls[c]]

\* What is left of attempt n on the wire; nothing carries an answer once over.
OnWire(n, leg) ==
  [wire EXCEPT ![n].leg = leg, ![n].answer = IF leg = "over" THEN NoAnswer ELSE @]

\* An unknown outcome keeps the entry and its session, a definite one drops both.
Settle(n, status, leg) ==
  LET op == calls[n].op
  IN /\ Open(n)
     /\ IF status = "unknown"
        THEN /\ commands' = [commands EXCEPT ![op].status = "unknown"]
             /\ UNCHANGED bindings
        ELSE /\ commands' = [commands EXCEPT ![op] = Absent]
             /\ bindings' = [bindings EXCEPT ![op] = NoSession]
     /\ calls' = Told(n, status)
     /\ wire' = OnWire(n, leg)
     /\ UNCHANGED memo

\* Mutant: a retry is read like a first attempt.
HearMut(n) ==
  /\ wire[n].leg = "back"
  /\ Settle(n, Classify(wire[n].answer, FALSE), "over")

Hear(n) ==
  /\ wire[n].leg = "back"
  /\ Settle(n, Classify(wire[n].answer, wire[n].retry), "over")

\* Ten seconds are over, a gateway or a fault answers in the verb's place, or the
\* session ends on the way; the request or its answer may still be travelling.
GiveUp(n) ==
  \E a \in {Silence, GatewayFault, ServerFault, SessionChanged} :
    Settle(n, Classify(a, wire[n].retry), wire[n].leg)

\* An email action looks whether the browser is online just before it sends.
RefuseOffline(n) ==
  /\ Open(n)
  /\ calls[n].op \in Emails
  /\ wire[n].leg = "out"
  /\ Settle(n, Classify(NotSent, wire[n].retry), "over")

\* Mutant: a cancelled retry is reported like a cancelled first attempt.
CancelledMut(retry) == "refused"

\* A request that never left is refused; a retry that never left says nothing
\* about the attempt before it.
Cancelled(retry) == IF retry THEN "unknown" ELSE "refused"

\* The page left before the request did (requireActive).
Cancel(n) ==
  /\ Open(n)
  /\ calls[n].op \notin Emails
  /\ wire[n].leg = "out"
  /\ Settle(n, Cancelled(wire[n].retry), "over")

-----------------------------------------------------------------------------
(* The record layer and the wire (external).                               *)

Answered(n, a) == wire' = [wire EXCEPT ![n].leg = "back", ![n].answer = a]

\* A key is judged once and its judgement repeated.
Judge(n) ==
  \E a \in Judgements :
    /\ memo[wire[n].key] \in {NoAnswer, a}
    /\ memo' = [memo EXCEPT ![wire[n].key] = a]
    /\ Answered(n, a)

TurnAway(n) == Answered(n, AtTheDoor) /\ UNCHANGED memo

Serve(n) ==
  /\ wire[n].leg = "out"
  /\ Judge(n) \/ TurnAway(n)
  /\ UNCHANGED <<commands, bindings, calls>>

Lose(n) ==
  /\ wire[n].leg \in {"out", "back"}
  /\ wire' = OnWire(n, "over")
  /\ UNCHANGED <<commands, bindings, calls, memo>>

-----------------------------------------------------------------------------
Start(c) == \E op \in Ops : Repeat(c, op) \/ \E intent \in Intents : Make(c, op, intent)

Scoped(c) ==
  \/ ScopeFails(c)
  \/ \E s \in Sessions : \/ SessionMoved(c, s) \/ InFlight(c, s) \/ Unresolved(c, s)
                         \/ Join(c, s) \/ Claim(c, s)

Attempt(n) == Hear(n) \/ GiveUp(n) \/ RefuseOffline(n) \/ Cancel(n)

Next == \E c \in Calls : Start(c) \/ Scoped(c) \/ Attempt(c) \/ Serve(c) \/ Lose(c)

Spec == Init /\ [][Next]_vars

-----------------------------------------------------------------------------
(* Properties.                                                             *)

\* A check of an email action that is made while it is being sent sends
\* nothing itself, however long the session is awaited and however the attempt
\* ends meanwhile.
ChecksSendNothing ==
  \A c \in Calls : calls[c] # Idle /\ calls[c].op \in Emails
                   /\ calls[c].seen.status = "pending" => wire[c] = Unsent

\* An operation has one open attempt, which carries the retained request in the
\* session it is bound to; an entry that says "pending" has one, and so does every
\* call that waits, its own or the one it joined.
OneOpenAttempt ==
  /\ \A n \in Calls : Open(n) =>
       /\ commands[calls[n].op] = [status |-> "pending", key |-> wire[n].key, by |-> n]
       /\ bindings[calls[n].op] = wire[n].binding
  /\ \A op \in Ops : commands[op].status = "pending" => Open(commands[op].by)
  /\ \A c \in Calls : calls[c].step = "waiting" => Open(calls[c].via)

\* While its outcome is unknown, a request keeps its key and its session.
KeptAsMade ==
  [][\A op \in Ops : commands[op] # Absent /\ commands'[op] # Absent =>
       commands'[op].key = commands[op].key /\ bindings'[op] = bindings[op]]_vars

\* The request whose outcome a call was told.
Reported(c) == wire[calls[c].via].key

\* "ok" is told only of a request that the record took, and a refusal only of one
\* that it did not take and never will.  A check of an email action that the
\* session held up may send its request again after another check has settled it;
\* then the other one was told that it was taken.
AnswersTrue ==
  \A c \in Calls : calls[c] # Idle =>
    /\ calls[c].told = "ok" => memo[Reported(c)] = Accepted
    /\ calls[c].told = "refused" /\ memo[Reported(c)] = Accepted =>
         /\ calls[c].op \in Emails
         /\ \E d \in Calls \ {c} :
              calls[d] # Idle /\ calls[d].told = "ok" /\ Reported(d) = Reported(c)

Plain == Ops \ Emails
Claimed == {c \in Calls : wire[c] # Unsent /\ wire[c].key = c /\ calls[c].op \in Plain}
StageOf(status) ==
  IF status = "absent" THEN "idle" ELSE IF status = "pending" THEN "open" ELSE "unresolved"

\* Commands that are no email action keep the promise of OneOutcome, as those
\* of the kernel do.
Promise == INSTANCE OneOutcome WITH
  Ops <- Plain, Decisions <- Calls, NoDecision <- NoCall,
  stage <- [op \in Plain |-> StageOf(commands[op].status)],
  current <- [op \in Plain |-> commands[op].key],
  spent <- Claimed,
  landed <- {c \in Claimed : memo[c] = Accepted}

\* A decision takes effect at most once and is reported as it ended.
KeepsPromise == Promise!Spec
===============================================================================
