--------------------------- MODULE BoardSyncProofs ---------------------------
(***************************************************************************)
(* Proofs about BoardSync, for any cells, requests, polls, readers and     *)
(* bounds.                                                                 *)
(***************************************************************************)
EXTENDS BoardSync, TLAPS

USE BoardAssumption

-----------------------------------------------------------------------------
(* Types.  The parts of TypeOK that a group of variables is about.         *)

PageType ==
  /\ own \in [Cells -> Nat] /\ shown \in [Cells -> Nat]
  /\ holds \in [Cells -> [value : Nat, at : Nat]]

RecordType == truth \in [Cells -> Nat] /\ events \in Nat

ReadsType ==
  /\ reads \in [Requests ->
       [stage : {"none", "open", "settled", "cleared"}, id : Nat, generation : Nat,
        started_at : Nat, wire : Wires \cup {NoOne}]]
  /\ \A r \in Requests : reads[r].stage # "none" => reads[r].wire \in Wires

QueueType ==
  /\ queued \in [request : Requests \cup {NoOne}, behind : Requests \cup {NoOne}, quiet : BOOLEAN]
  /\ queued # Nothing => queued.request \in Requests /\ queued.behind \in Requests

TicketType ==
  /\ clock \in Nat /\ generation \in Nat /\ boardSeq \in Nat /\ foreground \in Nat
  /\ boardRun \in Requests \cup {NoOne}

AskType ==
  /\ awaits \in [Requests -> Requests \cup {NoOne}]
  /\ outcome \in [Requests -> Outcomes]
  /\ floor \in [Requests -> [Cells -> Nat]]

HealthType ==
  online \in BOOLEAN /\ boardHealth \in Healths /\ feedHealth \in Healths \ {"render_failed"}

FeedType ==
  /\ pollSeq \in Nat /\ pollRun \in Polls \cup {NoOne} /\ cursor \in Nat
  /\ polls \in [Polls -> [stage : {"none", "open", "settled"}, id : Nat,
                          generation : Nat, cursor : Nat]]

WireType ==
  /\ wires \in [Wires -> [stage : {"none", "sent", "arrived", "lost"}, data : [Cells -> Nat]]]
  /\ flight \in Wires \cup {NoOne}

LEMMA TypeParts ==
  /\ TypeOK => /\ PageType /\ RecordType /\ ReadsType /\ QueueType /\ TicketType
               /\ AskType /\ HealthType /\ FeedType /\ WireType
  /\ /\ PageType /\ RecordType /\ ReadsType /\ QueueType /\ TicketType
     /\ AskType /\ HealthType /\ FeedType /\ WireType
     => TypeOK
  BY DEF TypeOK, PageType, RecordType, ReadsType, QueueType, TicketType, AskType,
         HealthType, FeedType, WireType

LEMMA TypePartsNext ==
  /\ PageType' /\ RecordType' /\ ReadsType' /\ QueueType' /\ TicketType'
  /\ AskType' /\ HealthType' /\ FeedType' /\ WireType'
  => TypeOK'
  BY DEF TypeOK, PageType, RecordType, ReadsType, QueueType, TicketType, AskType,
         HealthType, FeedType, WireType

\* A group of variables that does not change keeps its type.
LEMMA Frames ==
  ASSUME TypeOK
  PROVE  /\ UNCHANGED pageVars => PageType'
         /\ UNCHANGED recordVars => RecordType'
         /\ UNCHANGED reads => ReadsType'
         /\ UNCHANGED queued => QueueType'
         /\ UNCHANGED <<clock, generation, boardSeq, foreground, boardRun>> => TicketType'
         /\ UNCHANGED <<awaits, outcome, floor>> => AskType'
         /\ UNCHANGED <<online, boardHealth, feedHealth>> => HealthType'
         /\ UNCHANGED <<pollSeq, pollRun, polls, cursor>> => FeedType'
         /\ UNCHANGED wireVars => WireType'
  BY TypeParts DEF PageType, RecordType, ReadsType, QueueType, TicketType, AskType,
         HealthType, FeedType, WireType, pageVars, recordVars, wireVars

\* The wire of a new read.
LEMMA SendType ==
  ASSUME TypeOK, NEW k \in Wires, Send(k)
  PROVE  WireFor(k) \in Wires /\ WireType'
<1>1. WireFor(k) \in Wires
  BY DEF TypeOK, WireFor
<1>2. CASE WireFor(k) = k
  BY <1>2, SMTT(30) DEF Send, TypeOK, WireType
<1>3. CASE WireFor(k) # k
  BY <1>1, <1>3, Frames DEF Send
<1>4. QED
  BY <1>1, <1>2, <1>3

LEMMA StartReadType ==
  ASSUME TypeOK, NEW k \in Requests, NEW quiet, NEW seq \in Nat, NEW now \in Nat,
         NEW waiting \in Nat, UNCHANGED generation,
         StartRead(k, quiet, seq, now, waiting)
  PROVE  ReadsType' /\ TicketType' /\ WireType'
<1>1. Send(k) /\ k \in Wires
  BY DEF StartRead, Wires
<1>2. WireFor(k) \in Wires /\ WireType'
  BY <1>1, SendType
<1>3. ReadsType'
  BY <1>2 DEF StartRead, TypeOK, ReadsType
<1>4. TicketType'
  BY DEF StartRead, TypeOK, TicketType
<1>5. QED
  BY <1>2, <1>3, <1>4

LEMMA AskTypes ==
  ASSUME TypeOK, NEW k \in Requests, NEW quiet \in BOOLEAN, NEW now \in Nat,
         UNCHANGED <<generation, outcome, truth>>, Ask(k, quiet, now)
  PROVE  ReadsType' /\ TicketType' /\ WireType' /\ QueueType' /\ AskType'
<1>1. ASSUME NEW e \in Requests, NoteAsk(k, e)
      PROVE  AskType'
  BY <1>1 DEF NoteAsk, TypeOK, AskType
<1>2. CASE JoinQueued(k, quiet, now)
  <2>1. queued.request \in Requests
    BY <1>2 DEF JoinQueued, TypeOK
  <2>2. AskType'
    BY <1>1, <1>2, <2>1 DEF JoinQueued
  <2>3. TicketType'
    BY <1>2 DEF JoinQueued, TypeOK, TicketType
  <2>4. QED
    BY <1>2, <2>2, <2>3, Frames DEF JoinQueued
<1>3. CASE StartNow(k, quiet, now)
  <2>1. AskType' /\ QueueType'
    BY <1>1, <1>3, Frames DEF StartNow
  <2>2. boardSeq \in Nat /\ foreground \in Nat
    BY DEF TypeOK
  <2>3. QED
    BY <1>3, <2>1, <2>2, StartReadType DEF StartNow
<1>4. CASE QueueUp(k, quiet, now)
  <2>1. AskType'
    BY <1>1, <1>4 DEF QueueUp
  <2>2. QueueType' /\ TicketType'
    BY <1>4 DEF QueueUp, TypeOK, QueueType, TicketType
  <2>3. QED
    BY <1>4, <2>1, <2>2, Frames DEF QueueUp
<1>5. QED
  BY <1>2, <1>3, <1>4 DEF Ask

LEMMA InitType == Init => TypeOK
  BY DEF Init, TypeOK, NoHold, NoRead, NoPoll, NoWire, Nothing, Outcomes, Healths

LEMMA StageType ==
  ASSUME TypeOK, NEW r \in Requests, reads[r].stage # "none",
         NEW stage \in {"settled", "cleared"},
         reads' = [reads EXCEPT ![r].stage = stage]
  PROVE  ReadsType'
<1>1. [reads[r] EXCEPT !.stage = stage] \in
        [stage : {"none", "open", "settled", "cleared"}, id : Nat, generation : Nat,
         started_at : Nat, wire : Wires \cup {NoOne}]
  <2>1. reads[r] \in [stage : {"none", "open", "settled", "cleared"}, id : Nat,
                      generation : Nat, started_at : Nat, wire : Wires \cup {NoOne}]
    BY TypeParts DEF ReadsType
  <2>2. QED
    BY <2>1
<1>2. reads' = [reads EXCEPT ![r] = [reads[r] EXCEPT !.stage = stage]]
  BY DEF TypeOK
<1>3. \A s \in Requests : reads'[s].wire = reads[s].wire
  BY <1>2 DEF TypeOK
<1>4. \A s \in Requests : s # r => reads'[s].stage = reads[s].stage
  BY <1>2 DEF TypeOK
<1>5. QED
  BY <1>1, <1>2, <1>3, <1>4 DEF TypeOK, ReadsType

LEMMA AnswerType ==
  ASSUME TypeOK, NEW r \in Requests, Answer(r)
  PROVE  TypeOK'
<1> DEFINE W == wires[reads[r].wire]
<1>1. reads[r].wire \in Wires
  BY DEF Answer, TypeOK
<1>2. Merge(r) \in [Cells -> Nat]
  BY <1>1 DEF Merge, TypeOK
<1>3. Release(r) \in [Cells -> [value : Nat, at : Nat]]
  BY DEF Release, NoHold, TypeOK
<1>4. ASSUME NEW what \in Outcomes, Tell(r, what), UNCHANGED <<awaits, floor>>
      PROVE  AskType'
  BY <1>4 DEF Tell, AskType, TypeOK
<1>5. PageType' /\ AskType' /\ boardHealth' \in Healths
  <2>1. shown' \in [Cells -> Nat] /\ holds' \in [Cells -> [value : Nat, at : Nat]]
    BY <1>2, <1>3 DEF Answer, Superseded, ReadFailed, Applied, ApplyFailed, TypeOK
  <2>2. PageType'
    BY <2>1 DEF Answer, PageType, TypeOK
  <2>3. boardHealth' \in Healths
    BY DEF Answer, Superseded, ReadFailed, Applied, ApplyFailed, TypeOK, Healths
  <2>4. \E what \in Outcomes : Tell(r, what)
    BY DEF Answer, Superseded, ReadFailed, Applied, ApplyFailed, Outcomes
  <2>5. AskType'
    BY <1>4, <2>4 DEF Answer
  <2>6. QED
    BY <2>2, <2>3, <2>5
<1>6. ReadsType'
  BY StageType DEF Answer
<1>7. TicketType'
  BY DEF Answer, TypeOK, TicketType
<1>8. HealthType' /\ FeedType'
  BY <1>5, Frames DEF Answer, TypeOK, HealthType, feedVars
<1>9. RecordType' /\ QueueType' /\ WireType'
  BY Frames DEF Answer
<1> QED
  BY <1>5, <1>6, <1>8, <1>9, <1>7, TypePartsNext

LEMMA ClearType ==
  ASSUME TypeOK, NEW r \in Requests, Clear(r)
  PROVE  TypeOK'
<1>1. ReadsType'
  BY StageType DEF Clear
<1>2. TicketType'
  BY DEF Clear, TypeOK, TicketType
<1>3. QED
  BY <1>1, <1>2, Frames, TypePartsNext DEF Clear, feedVars

LEMMA FireType ==
  ASSUME TypeOK, Fire
  PROVE  TypeOK'
<1>1. /\ queued.request \in Requests
      /\ boardSeq \in Nat /\ clock \in Nat /\ foreground \in Nat
  BY DEF Fire, TypeOK
<1>2. ReadsType' /\ TicketType' /\ WireType'
  BY <1>1, StartReadType DEF Fire
<1>3. QueueType'
  BY DEF Fire, QueueType, Nothing
<1>4. QED
  BY <1>2, <1>3, Frames, TypePartsNext DEF Fire, feedVars

LEMMA AbandonedTypes ==
  TypeOK => SeqAbandoned \in Nat /\ ForegroundAbandoned \in Nat
  BY DEF SeqAbandoned, ForegroundAbandoned, TypeOK

LEMMA CallerType ==
  ASSUME TypeOK, Callers
  PROVE  TypeOK'
<1> USE DEF feedVars
<1>1. clock \in Nat /\ ClockNoted \in Nat
  BY DEF TypeOK, ClockNoted
<1>2. ASSUME NEW k \in Requests, NEW quiet \in BOOLEAN, Refresh(k, quiet)
      PROVE  TypeOK'
  <2>1. ReadsType' /\ TicketType' /\ WireType' /\ QueueType' /\ AskType'
    BY <1>1, <1>2, AskTypes DEF Refresh, recordVars
  <2>2. QED
    BY <1>2, <2>1, Frames, TypePartsNext DEF Refresh
<1>3. ASSUME NEW k \in Requests, NEW quiet \in BOOLEAN, ForceRefresh(k, quiet)
      PROVE  TypeOK'
  <2>1. ReadsType' /\ TicketType' /\ WireType'
    BY <1>1, <1>3, AbandonedTypes, StartReadType DEF ForceRefresh
  <2>2. QueueType' /\ AskType'
    BY <1>3 DEF ForceRefresh, TypeOK, QueueType, AskType, Nothing
  <2>3. QED
    BY <1>3, <2>1, <2>2, Frames, TypePartsNext DEF ForceRefresh
<1>4. ASSUME NEW c \in Cells, NEW k \in Requests, ConfirmLocalWrite(c, k)
      PROVE  TypeOK'
  <2>1. ReadsType' /\ TicketType' /\ WireType' /\ QueueType' /\ AskType'
    BY <1>1, <1>4, AskTypes DEF ConfirmLocalWrite, recordVars
  <2>2. PageType'
    BY <1>1, <1>4 DEF ConfirmLocalWrite, TypeOK, PageType
  <2>3. QED
    BY <1>4, <2>1, <2>2, Frames, TypePartsNext DEF ConfirmLocalWrite
<1>5. ASSUME NEW c \in Cells, NEW k \in Requests, ReconcileNewerState(c, k)
      PROVE  TypeOK'
  <2>1. ReadsType' /\ TicketType' /\ WireType' /\ QueueType' /\ AskType'
    BY <1>1, <1>5, AskTypes DEF ReconcileNewerState, recordVars
  <2>2. PageType'
    BY <1>5 DEF ReconcileNewerState, TypeOK, PageType
  <2>3. QED
    BY <1>5, <2>1, <2>2, Frames, TypePartsNext DEF ReconcileNewerState
<1>6. ASSUME NEW p \in Polls, PollChanges(p) \/ ForcePoll(p)
      PROVE  TypeOK'
  <2>1. PICK seq \in Nat : StartPoll(p, seq)
    BY <1>6 DEF PollChanges, ForcePoll, TypeOK
  <2>2. FeedType' /\ TicketType'
    BY <2>1 DEF StartPoll, TypeOK, FeedType, TicketType, boardVars
  <2>3. HealthType'
    BY <2>1, Frames DEF StartPoll, boardVars
  <2>4. QED
    BY <2>1, <2>2, <2>3, Frames, TypePartsNext DEF StartPoll, boardVars
<1>7. QED
  BY <1>2, <1>3, <1>4, <1>5, <1>6 DEF Callers

LEMMA PollAnswerType ==
  ASSUME TypeOK, NEW p \in Polls, PollAnswer(p)
  PROVE  TypeOK'
<1>1. HealthType'
  BY DEF PollAnswer, TypeOK, HealthType, Healths, boardVars
<1>2. cursor' \in Nat
  BY DEF PollAnswer, TypeOK
<1>3. [polls[p] EXCEPT !.stage = "settled"] \in
        [stage : {"none", "open", "settled"}, id : Nat, generation : Nat, cursor : Nat]
  <2>1. polls[p] \in [stage : {"none", "open", "settled"}, id : Nat, generation : Nat,
                      cursor : Nat]
    BY TypeParts DEF FeedType
  <2>2. QED
    BY <2>1
<1>4. polls' = [polls EXCEPT ![p] = [polls[p] EXCEPT !.stage = "settled"]]
  BY DEF PollAnswer, TypeOK
<1>5. FeedType'
  BY <1>2, <1>3, <1>4 DEF PollAnswer, TypeOK, FeedType
<1>6. QED
  BY <1>1, <1>5, Frames, TypePartsNext DEF PollAnswer, boardVars

LEMMA WorldType ==
  ASSUME TypeOK, World
  PROVE  TypeOK'
<1>1. ASSUME DropInFlight
      PROVE  /\ PageType' /\ RecordType' /\ ReadsType' /\ QueueType' /\ TicketType'
             /\ AskType' /\ FeedType' /\ WireType'
  <2>1. TicketType' /\ FeedType'
    BY <1>1, AbandonedTypes DEF DropInFlight, TypeOK, TicketType, FeedType
  <2>2. QueueType' /\ AskType'
    BY <1>1 DEF DropInFlight, TypeOK, QueueType, AskType, Nothing, Cancelled, Outcomes
  <2>3. QED
    BY <1>1, <2>1, <2>2, Frames DEF DropInFlight
<1>2. CASE Invalidate \/ GoOffline \/ ComeBack
  <2>1. HealthType'
    BY <1>2 DEF Invalidate, GoOffline, ComeBack, TypeOK, HealthType, Healths
  <2>2. QED
    BY <1>1, <1>2, <2>1, TypePartsNext DEF Invalidate, GoOffline, ComeBack
<1>3. ASSUME NEW c \in Cells, Change(c)
      PROVE  TypeOK'
  <2>1. PageType' /\ RecordType'
    BY <1>3 DEF Change, TypeOK, PageType, RecordType
  <2>2. QED
    BY <1>3, <2>1, Frames, TypePartsNext DEF Change, boardVars, feedVars
<1>4. ASSUME NEW w \in Wires, Arrive(w) \/ Lose(w)
      PROVE  TypeOK'
  <2>1. ASSUME NEW d \in Snapshots(w),
               wires' = [wires EXCEPT ![w] = [stage |-> "arrived", data |-> d]],
               flight' \in {NoOne, flight}
        PROVE  WireType'
    <3>1. d \in [Cells -> Nat]
      BY DEF Snapshots
    <3>2. QED
      BY <2>1, <3>1 DEF TypeOK, WireType
  <2>2. ASSUME Arrive(w) PROVE WireType'
    BY <2>1, <2>2 DEF Arrive
  <2>3. ASSUME Lose(w) PROVE WireType'
    BY <2>3, ZenonT(30) DEF Lose, TypeOK, WireType
  <2>4. WireType'
    BY <1>4, <2>2, <2>3
  <2>5. QED
    BY <1>4, <2>4, Frames, TypePartsNext DEF Arrive, Lose, boardVars, feedVars
<1>5. ASSUME NEW o \in Others, OtherRead(o)
      PROVE  TypeOK'
  <2>1. WireType'
    BY <1>5, SendType DEF OtherRead, Wires
  <2>2. QED
    BY <1>5, <2>1, Frames, TypePartsNext DEF OtherRead, boardVars, feedVars
<1>6. QED
  BY <1>2, <1>3, <1>4, <1>5 DEF World

LEMMA StepType == TypeOK /\ [Next]_vars => TypeOK'
<1> SUFFICES ASSUME TypeOK, [Next]_vars
    PROVE  TypeOK'
  OBVIOUS
<1>1. CASE Callers
  BY <1>1, CallerType
<1>2. CASE Callbacks
  BY <1>2, AnswerType, ClearType, FireType, PollAnswerType DEF Callbacks
<1>3. CASE World
  BY <1>3, WorldType
<1>4. CASE UNCHANGED vars
  BY <1>4, Frames, TypePartsNext DEF vars, boardVars, feedVars
<1>5. QED
  BY <1>1, <1>2, <1>3, <1>4 DEF Next

\* BoardSync stays type correct: whatever requests, answers, losses and returns of
\* the network do to one another, the coordinator's state keeps its shape.
THEOREM TypeCorrect == Spec => []TypeOK
  BY InitType, StepType, PTL DEF Spec

-----------------------------------------------------------------------------
(* The coordinator's inductive invariant.  OneLiveRead, SpinnerIsReal and  *)
(* NoOneStranded lean on one another and on what a ticket and a queued     *)
(* follow-up are.                                                          *)

\* Tickets are handed out in order and no two open reads hold the same one.
Tickets ==
  /\ \A r \in Requests : /\ reads[r].id <= boardSeq
                         /\ reads[r].generation <= generation
                         /\ reads[r].started_at <= clock
  /\ \A r, s \in Requests :
       reads[r].stage = "open" /\ reads[s].stage = "open" /\ reads[r].id = reads[s].id => r = s

\* A follow-up has not read yet, and is behind the open read or one that has just
\* ended.
QueueBehind ==
  queued # Nothing =>
    /\ reads[queued.request].stage = "none"
    /\ awaits[queued.request] # NoOne
    /\ \/ boardRun = queued.behind
       \/ boardRun = NoOne /\ reads[queued.behind].stage = "cleared"

Asked == \A r \in Requests : reads[r].stage # "none" => awaits[r] # NoOne

Coordinated ==
  /\ Tickets /\ OneLiveRead /\ QueueBehind /\ Asked /\ SpinnerIsReal /\ NoOneStranded

\* The fields of a read as they are used below.
LEMMA ReadFields ==
  ASSUME TypeOK, NEW r \in Requests
  PROVE  /\ reads[r].stage \in {"none", "open", "settled", "cleared"}
         /\ reads[r].id \in Nat /\ reads[r].generation \in Nat /\ reads[r].started_at \in Nat
         /\ reads[r].stage # "none" => reads[r].wire \in Wires
<1>1. reads[r] \in [stage : {"none", "open", "settled", "cleared"}, id : Nat,
                    generation : Nat, started_at : Nat, wire : Wires \cup {NoOne}]
  BY TypeParts DEF ReadsType
<1>2. reads[r].stage # "none" => reads[r].wire \in Wires
  BY DEF TypeOK
<1>3. QED
  BY <1>1, <1>2

LEMMA TicketFields ==
  ASSUME TypeOK
  PROVE  /\ clock \in Nat /\ generation \in Nat /\ boardSeq \in Nat /\ foreground \in Nat
         /\ boardRun \in Requests \cup {NoOne} /\ NoOne \notin Requests
         /\ queued # Nothing => queued.request \in Requests /\ queued.behind \in Requests
  BY DEF TypeOK, Wires

\* A read that starts is the live one, and every other read stops being it.
LEMMA StartReadLive ==
  ASSUME TypeOK, Tickets, NEW k \in Requests, NEW quiet, NEW waiting,
         NEW seq \in Nat, NEW now \in Nat, boardSeq <= seq, clock <= now,
         UNCHANGED generation, StartRead(k, quiet, seq, now, waiting)
  PROVE  /\ Tickets'
         /\ Live(k)' /\ reads'[k].stage = "open" /\ reads'[k].id = seq + 1
         /\ reads'[k].started_at = now + 1 /\ reads'[k].wire = WireFor(k)
         /\ \A r \in Requests \ {k} : reads'[r] = reads[r] /\ ~ Live(r)'
         /\ boardRun' = k /\ OneLiveRead'
<1> DEFINE t == [stage |-> "open", id |-> seq + 1, generation |-> generation,
                 started_at |-> now + 1, wire |-> WireFor(k)]
<1>1. /\ reads' = [reads EXCEPT ![k] = t]
      /\ boardSeq' = seq + 1 /\ clock' = now + 1 /\ boardRun' = k
  BY DEF StartRead
<1>2. reads'[k] = t /\ \A r \in Requests \ {k} : reads'[r] = reads[r]
  BY <1>1 DEF TypeOK
<1>3. /\ t.stage = "open" /\ t.id = seq + 1 /\ t.generation = generation
      /\ t.started_at = now + 1 /\ t.wire = WireFor(k)
  OBVIOUS
<1> HIDE DEF t
<1>4. Tickets'
  <2>1. \A r \in Requests : /\ reads'[r].id <= seq + 1
                            /\ reads'[r].generation <= generation
                            /\ reads'[r].started_at <= now + 1
    BY <1>2, <1>3, ReadFields, TicketFields DEF Tickets
  <2>2. \A r \in Requests \ {k} : reads'[r].id # seq + 1
    BY <1>2, ReadFields, TicketFields DEF Tickets
  <2>3. ASSUME NEW r \in Requests, NEW s \in Requests, reads'[r].stage = "open",
               reads'[s].stage = "open", reads'[r].id = reads'[s].id
        PROVE  r = s
    <3>1. CASE r = k \/ s = k
      BY <2>2, <2>3, <3>1, <1>2, <1>3
    <3>2. CASE r # k /\ s # k
      BY <2>3, <3>2, <1>2 DEF Tickets
    <3>3. QED
      BY <3>1, <3>2
  <2>4. QED
    BY <1>1, <2>1, <2>3 DEF Tickets
<1>5. Live(k)'
  BY <1>1, <1>2, <1>3 DEF Live, Current
<1>6. \A r \in Requests \ {k} : ~ Live(r)'
  BY <1>1, <1>2, ReadFields, TicketFields DEF Live, Current, Tickets
<1>7. OneLiveRead'
  BY <1>1, <1>5, <1>6 DEF OneLiveRead, Live
<1>8. QED
  BY <1>1, <1>2, <1>3, <1>4, <1>5, <1>6, <1>7

\* The reads once request k has started one.
ReadsMoved(k) ==
  reads'[k].stage = "open" /\ \A r \in Requests \ {k} : reads'[r] = reads[r]

LEMMA StartReadKeeps ==
  ASSUME TypeOK, Tickets, NEW k \in Requests, NEW quiet, NEW waiting,
         NEW seq \in Nat, NEW now \in Nat, boardSeq <= seq, clock <= now,
         UNCHANGED generation, StartRead(k, quiet, seq, now, waiting)
  PROVE  Tickets' /\ OneLiveRead' /\ ReadsMoved(k)
  BY StartReadLive DEF ReadsMoved

\* Nobody is stranded by a read that starts, if whoever still waits waits for that
\* read or for one that is open already.
LEMMA StartReadStrandsNobody ==
  ASSUME TypeOK, NoOneStranded, NEW k \in Requests, ReadsMoved(k),
         \A j \in Requests : awaits'[j] # NoOne /\ outcome'[j] = "none" =>
           \/ awaits'[j] = k
           \/ /\ awaits'[j] = awaits[j] /\ outcome[j] = "none"
              /\ ~ (queued # Nothing /\ awaits[j] = queued.request)
  PROVE  NoOneStranded'
<1> SUFFICES ASSUME NEW j \in Requests, awaits'[j] # NoOne, outcome'[j] = "none"
    PROVE  reads'[awaits'[j]].stage = "open"
  BY DEF NoOneStranded
<1>1. CASE awaits'[j] = k
  BY <1>1 DEF ReadsMoved
<1>2. CASE awaits'[j] # k
  <2>1. awaits'[j] = awaits[j] /\ reads[awaits[j]].stage = "open"
    BY <1>2 DEF NoOneStranded
  <2>2. awaits[j] \in Requests
    BY <2>1 DEF TypeOK
  <2>3. QED
    BY <1>2, <2>1, <2>2 DEF ReadsMoved
<1>3. QED
  BY <1>1, <1>2

\* With no open read nobody is waiting for one.
LEMMA IdleBadge ==
  ASSUME TypeOK, SpinnerIsReal, boardRun = NoOne
  PROVE  foreground = 0
  BY TicketFields DEF SpinnerIsReal

\* The badge after a read starts while no other is awaited.
LEMMA StartReadBadge ==
  ASSUME TypeOK, Tickets, NEW k \in Requests, NEW quiet \in BOOLEAN,
         NEW seq \in Nat, NEW now \in Nat, boardSeq <= seq, clock <= now,
         UNCHANGED generation, StartRead(k, quiet, seq, now, 0)
  PROVE  SpinnerIsReal'
<1>1. Live(k)' /\ reads'[k].id = seq + 1 /\ boardRun' = k
  BY StartReadLive
<1>2. foreground' \in {0, seq + 1}
  BY DEF StartRead
<1>3. QED
  BY <1>1, <1>2 DEF SpinnerIsReal

\* What the coordinator keeps, whichever way a request is taken up.
LEMMA AskCoordinated ==
  ASSUME TypeOK, Coordinated, NEW k \in Requests, NEW quiet \in BOOLEAN, NEW now \in Nat,
         clock <= now, UNCHANGED <<generation, outcome>>, Ask(k, quiet, now)
  PROVE  Coordinated'
<1> USE DEF Coordinated
<1>1. CASE JoinQueued(k, quiet, now)
  <2> USE <1>1 DEF JoinQueued, NoteAsk
  <2>1. awaits' = [awaits EXCEPT ![k] = queued.request] /\ queued.request \in Requests
    BY TicketFields
  <2>2. \A j \in Requests : awaits[j] # NoOne => awaits'[j] # NoOne
    BY <2>1, TicketFields DEF TypeOK
  <2>3. Tickets'
    BY ReadFields, TicketFields DEF Tickets
  <2>4. OneLiveRead' /\ SpinnerIsReal'
    BY DEF OneLiveRead, SpinnerIsReal, Live, Current
  <2>5. QueueBehind' /\ Asked'
    BY <2>2, TicketFields DEF QueueBehind, Asked
  <2>6. NoOneStranded'
    BY <2>1, TicketFields DEF NoOneStranded, QueueBehind, TypeOK
  <2>7. QED
    BY <2>3, <2>4, <2>5, <2>6
<1>2. CASE StartNow(k, quiet, now)
  <2> USE <1>2 DEF StartNow, NoteAsk
  <2>1. foreground = 0 /\ StartRead(k, quiet, boardSeq, now, 0)
    BY IdleBadge
  <2>2. Tickets' /\ OneLiveRead' /\ ReadsMoved(k)
    BY <2>1, StartReadKeeps, TicketFields
  <2>3. SpinnerIsReal'
    BY <2>1, StartReadBadge, TicketFields
  <2>4. awaits' = [awaits EXCEPT ![k] = k]
    OBVIOUS
  <2>5. QueueBehind'
    BY DEF QueueBehind, Nothing
  <2>6. Asked'
    BY <2>2, <2>4, TicketFields DEF Asked, ReadsMoved, TypeOK
  <2>7. NoOneStranded'
    <3>1. \A j \in Requests : awaits'[j] = IF j = k THEN k ELSE awaits[j]
      BY <2>4 DEF TypeOK
    <3>2. QED
      BY <2>2, <3>1, StartReadStrandsNobody
  <2>8. QED
    BY <2>2, <2>3, <2>5, <2>6, <2>7
<1>3. CASE QueueUp(k, quiet, now)
  <2> USE <1>3 DEF QueueUp, NoteAsk
  <2>1. /\ queued' = [request |-> k, behind |-> boardRun, quiet |-> quiet]
        /\ queued' # Nothing
    BY TicketFields DEF Nothing
  <2>2. awaits' = [awaits EXCEPT ![k] = k] /\ awaits[k] = NoOne
    BY DEF Ask, Unasked
  <2>3. Tickets'
    BY ReadFields, TicketFields DEF Tickets
  <2>4. OneLiveRead' /\ SpinnerIsReal'
    BY DEF OneLiveRead, SpinnerIsReal, Live, Current
  <2>5. QueueBehind'
    BY <2>1, <2>2, TicketFields DEF QueueBehind, Asked, TypeOK
  <2>6. Asked'
    BY <2>2, TicketFields DEF Asked, TypeOK
  <2>7. NoOneStranded'
    BY <2>1, <2>2, TicketFields DEF NoOneStranded, TypeOK
  <2>8. QED
    BY <2>3, <2>4, <2>5, <2>6, <2>7
<1>4. QED
  BY <1>1, <1>2, <1>3 DEF Ask

LEMMA ForceCoordinated ==
  ASSUME TypeOK, Coordinated, NEW k \in Requests, NEW quiet \in BOOLEAN,
         ForceRefresh(k, quiet)
  PROVE  Coordinated'
<1> USE DEF Coordinated, ForceRefresh
<1>1. /\ ForegroundAbandoned = 0 /\ SeqAbandoned \in Nat /\ boardSeq <= SeqAbandoned
  BY IdleBadge, TicketFields DEF ForegroundAbandoned, SeqAbandoned
<1>2. StartRead(k, quiet, SeqAbandoned, clock, 0) /\ UNCHANGED generation
  BY <1>1
<1>3. Tickets' /\ OneLiveRead' /\ ReadsMoved(k)
  BY <1>1, <1>2, StartReadKeeps, TicketFields
<1>4. SpinnerIsReal'
  BY <1>1, <1>2, StartReadBadge, TicketFields
<1>5. QueueBehind'
  BY DEF QueueBehind, Nothing
<1>6. \A j \in Requests :
        awaits'[j] = IF j = k \/ (queued # Nothing /\ awaits[j] = queued.request)
                     THEN k ELSE awaits[j]
  OBVIOUS
<1>7. Asked'
  BY <1>3, <1>6, TicketFields DEF Asked, ReadsMoved
<1>8. NoOneStranded'
  BY <1>3, <1>6, StartReadStrandsNobody
<1>9. QED
  BY <1>3, <1>4, <1>5, <1>7, <1>8

LEMMA FireCoordinated ==
  ASSUME TypeOK, Coordinated, Fire
  PROVE  Coordinated'
<1> DEFINE k == queued.request
<1> USE DEF Coordinated, Fire
<1>1. boardRun = NoOne
  BY TicketFields DEF QueueBehind, OneLiveRead
<1>2. foreground = 0 /\ k \in Requests /\ queued.quiet \in BOOLEAN
  BY <1>1, IdleBadge, TicketFields DEF TypeOK
<1>3. StartRead(k, queued.quiet, boardSeq, clock, 0) /\ UNCHANGED generation
  BY <1>2
<1>4. awaits[k] # NoOne
  BY DEF QueueBehind
<1> HIDE DEF k
<1>5. Tickets' /\ OneLiveRead' /\ ReadsMoved(k)
  BY <1>2, <1>3, StartReadKeeps, TicketFields
<1>6. SpinnerIsReal'
  BY <1>2, <1>3, StartReadBadge, TicketFields
<1>7. QueueBehind'
  BY DEF QueueBehind, Nothing
<1>8. Asked'
  BY <1>4, <1>5 DEF Asked, ReadsMoved
<1>9. NoOneStranded'
  BY <1>2, <1>5, StartReadStrandsNobody DEF k
<1>10. QED
  BY <1>5, <1>6, <1>7, <1>8, <1>9

LEMMA AnswerCoordinated ==
  ASSUME TypeOK, Coordinated, NEW r \in Requests, Answer(r)
  PROVE  Coordinated'
<1> USE DEF Coordinated
<1>1. /\ reads[r].stage = "open" /\ reads' = [reads EXCEPT ![r].stage = "settled"]
      /\ foreground' = IF foreground = reads[r].id THEN 0 ELSE foreground
      /\ UNCHANGED <<boardSeq, boardRun, queued, awaits, clock, generation>>
  BY DEF Answer
<1>2. /\ reads'[r].stage = "settled"
      /\ \A s \in Requests : /\ reads'[s].id = reads[s].id
                             /\ reads'[s].generation = reads[s].generation
                             /\ reads'[s].started_at = reads[s].started_at
                             /\ s # r => reads'[s].stage = reads[s].stage
  BY <1>1 DEF TypeOK
<1>3. Tickets'
  BY <1>1, <1>2 DEF Tickets
<1>4. OneLiveRead'
  BY <1>1, <1>2, TicketFields DEF OneLiveRead, Live, Current
<1>5. SpinnerIsReal'
  BY <1>1, <1>2, TicketFields DEF SpinnerIsReal, Live, Current
<1>6. QueueBehind' /\ Asked'
  BY <1>1, <1>2, TicketFields DEF QueueBehind, Asked
<1>7. NoOneStranded'
  <2>1. PICK what \in Outcomes \ {"none"} : Tell(r, what)
    BY DEF Answer, Superseded, ReadFailed, Applied, ApplyFailed, Outcomes
  <2>2. \A k \in Requests : outcome'[k] = IF awaits[k] = r THEN what ELSE outcome[k]
    BY <2>1 DEF Tell
  <2>3. ASSUME NEW k \in Requests, awaits[k] # NoOne, outcome'[k] = "none"
        PROVE  awaits[k] # r /\ outcome[k] = "none" /\ awaits[k] \in Requests
    BY <2>1, <2>2, <2>3 DEF TypeOK
  <2>4. QED
    BY <1>1, <1>2, <2>3, TicketFields DEF NoOneStranded
<1>8. QED
  BY <1>3, <1>4, <1>5, <1>6, <1>7

LEMMA ClearCoordinated ==
  ASSUME TypeOK, Coordinated, NEW r \in Requests, Clear(r)
  PROVE  Coordinated'
<1> USE DEF Coordinated
<1>1. /\ reads[r].stage = "settled" /\ reads' = [reads EXCEPT ![r].stage = "cleared"]
      /\ boardRun' = IF boardRun = r THEN NoOne ELSE boardRun
      /\ UNCHANGED <<boardSeq, foreground, queued, awaits, outcome, clock, generation>>
  BY DEF Clear
<1>2. /\ reads'[r].stage = "cleared"
      /\ \A s \in Requests : /\ reads'[s].id = reads[s].id
                             /\ reads'[s].generation = reads[s].generation
                             /\ reads'[s].started_at = reads[s].started_at
                             /\ s # r => reads'[s].stage = reads[s].stage
  BY <1>1 DEF TypeOK
<1>3. Tickets'
  BY <1>1, <1>2 DEF Tickets
<1>4. OneLiveRead'
  BY <1>1, <1>2, TicketFields DEF OneLiveRead, Live, Current
<1>5. SpinnerIsReal'
  BY <1>1, <1>2, TicketFields DEF SpinnerIsReal, Live, Current
<1>6. QueueBehind' /\ Asked'
  BY <1>1, <1>2, TicketFields DEF QueueBehind, Asked
<1>7. NoOneStranded'
  <2>1. awaits \in [Requests -> Requests \cup {NoOne}]
    BY DEF TypeOK
  <2>2. QED
    BY <1>1, <1>2, <2>1, TicketFields DEF NoOneStranded
<1>8. QED
  BY <1>3, <1>4, <1>5, <1>6, <1>7

LEMMA DropCoordinated ==
  ASSUME TypeOK, Coordinated, DropInFlight
  PROVE  Coordinated'
<1> USE DEF Coordinated
<1>1. /\ generation' = generation + 1 /\ queued' = Nothing
      /\ outcome' = Cancelled /\ boardSeq' = SeqAbandoned /\ boardRun' = NoOne
      /\ foreground' = ForegroundAbandoned
      /\ UNCHANGED <<reads, awaits, clock>>
  BY DEF DropInFlight
<1>2. SeqAbandoned \in Nat /\ boardSeq <= SeqAbandoned /\ foreground' = 0
  BY <1>1, IdleBadge, TicketFields DEF SeqAbandoned, ForegroundAbandoned
<1>3. Tickets'
  BY <1>1, <1>2, ReadFields, TicketFields DEF Tickets
<1>4. \A r \in Requests : ~ Live(r)'
  BY <1>1, ReadFields, TicketFields DEF Live, Current, Tickets
<1>5. OneLiveRead' /\ SpinnerIsReal'
  BY <1>1, <1>2, <1>4 DEF OneLiveRead, SpinnerIsReal
<1>6. QueueBehind' /\ Asked'
  BY <1>1 DEF QueueBehind, Asked
<1>7. NoOneStranded'
  <2>1. \A k \in Requests :
          outcome'[k] = "none" => /\ outcome[k] = "none"
                                  /\ ~ (queued # Nothing /\ awaits[k] = queued.request)
    BY <1>1 DEF Cancelled
  <2>2. QED
    BY <1>1, <2>1 DEF NoOneStranded
<1>8. QED
  BY <1>3, <1>5, <1>6, <1>7

\* Polls, the record, the wire and the change of a health leave the coordinator of
\* the board as it is; the clock may move.
LEMMA BoardUntouched ==
  ASSUME TypeOK, Coordinated, clock' \in Nat, clock <= clock',
         UNCHANGED <<reads, boardSeq, boardRun, queued, foreground, awaits, outcome, generation>>
  PROVE  Coordinated'
<1> USE DEF Coordinated
<1>1. Tickets'
  BY ReadFields, TicketFields DEF Tickets
<1>2. OneLiveRead' /\ SpinnerIsReal' /\ QueueBehind' /\ Asked' /\ NoOneStranded'
  BY DEF OneLiveRead, SpinnerIsReal, Live, Current, QueueBehind, Asked, NoOneStranded
<1>3. QED
  BY <1>1, <1>2

LEMMA InitCoordinated == Init => Coordinated
  BY DEF Init, Coordinated, Tickets, OneLiveRead, QueueBehind, Asked, SpinnerIsReal,
         NoOneStranded, Live, Current, NoRead

LEMMA StepCoordinated == TypeOK /\ Coordinated /\ [Next]_vars => Coordinated'
<1> SUFFICES ASSUME TypeOK, Coordinated, [Next]_vars
    PROVE  Coordinated'
  OBVIOUS
<1>1. clock \in Nat /\ ClockNoted \in Nat /\ clock <= ClockNoted
  BY TicketFields DEF ClockNoted
<1>2. CASE Callers
  <2>1. ASSUME NEW k \in Requests, NEW quiet \in BOOLEAN, Refresh(k, quiet)
        PROVE  Coordinated'
    BY <1>1, <2>1, AskCoordinated DEF Refresh
  <2>2. ASSUME NEW c \in Cells, NEW k \in Requests,
               ConfirmLocalWrite(c, k) \/ ReconcileNewerState(c, k)
        PROVE  Coordinated'
    <3>1. CASE ConfirmLocalWrite(c, k)
      BY <1>1, <3>1, AskCoordinated DEF ConfirmLocalWrite
    <3>2. CASE ReconcileNewerState(c, k)
      <4>1. Ask(k, TRUE, clock) /\ UNCHANGED <<generation, outcome>>
        BY <3>2 DEF ReconcileNewerState
      <4>2. clock <= clock
        BY <1>1
      <4>3. QED
        BY <1>1, <4>1, <4>2, AskCoordinated
    <3>3. QED
      BY <2>2, <3>1, <3>2
  <2>3. ASSUME NEW p \in Polls, PollChanges(p) \/ ForcePoll(p)
        PROVE  Coordinated'
    BY <1>1, <2>3, BoardUntouched DEF PollChanges, ForcePoll, StartPoll, boardVars
  <2>4. ASSUME NEW k \in Requests, NEW quiet \in BOOLEAN, ForceRefresh(k, quiet)
        PROVE  Coordinated'
    BY <2>4, ForceCoordinated
  <2>5. QED
    BY <1>2, <2>1, <2>2, <2>3, <2>4 DEF Callers
<1>3. CASE Callbacks
  <2>1. ASSUME NEW p \in Polls, PollAnswer(p)
        PROVE  Coordinated'
    BY <1>1, <2>1, BoardUntouched DEF PollAnswer, boardVars
  <2>2. QED
    BY <1>3, <2>1, AnswerCoordinated, ClearCoordinated, FireCoordinated DEF Callbacks
<1>4. CASE World
  <2>1. CASE Invalidate \/ GoOffline \/ ComeBack
    BY <2>1, DropCoordinated DEF Invalidate, GoOffline, ComeBack
  <2>2. CASE \/ \E c \in Cells : Change(c)
             \/ \E w \in Wires : Arrive(w) \/ Lose(w)
             \/ \E o \in Others : OtherRead(o)
    BY <1>1, <2>2, BoardUntouched DEF Change, Arrive, Lose, OtherRead, boardVars
  <2>3. QED
    BY <1>4, <2>1, <2>2 DEF World
<1>5. CASE UNCHANGED vars
  BY <1>1, <1>5, BoardUntouched DEF vars, boardVars
<1>6. QED
  BY <1>2, <1>3, <1>4, <1>5 DEF Next

LEMMA Coordination == Spec => [](TypeOK /\ Coordinated)
  BY InitType, InitCoordinated, StepType, StepCoordinated, PTL DEF Spec

\* The coordinator always knows the one read that may still touch the page: no
\* abandoned, overtaken or late read can, and none is forgotten.
THEOREM OneLiveReadHolds == Spec => []OneLiveRead
<1>1. TypeOK /\ Coordinated => OneLiveRead
  BY DEF Coordinated
<1>2. QED
  BY <1>1, Coordination, PTL

\* The badge says "syncing" only for a read that is open and will count.
THEOREM SpinnerIsRealHolds == Spec => []SpinnerIsReal
<1>1. TypeOK /\ Coordinated => SpinnerIsReal
  BY DEF Coordinated
<1>2. QED
  BY <1>1, Coordination, PTL

\* Every caller without an answer waits for a read that is open or about to start,
\* through every queueing, handing on, abandoning and cancelling.
THEOREM NoOneStrandedHolds == Spec => []NoOneStranded
<1>1. TypeOK /\ Coordinated => NoOneStranded
  BY DEF Coordinated
<1>2. QED
  BY <1>1, Coordination, PTL

-----------------------------------------------------------------------------
(* Values.  Nothing the page or the wire carries is ahead of the record,   *)
(* and the answer of the live read, merged with what is held, is never     *)
(* behind what the board shows: that is what makes NeverBackwards          *)
(* inductive.  It needs every read to travel on a wire of its own.         *)

Bounded ==
  /\ \A c \in Cells : /\ shown[c] <= truth[c] /\ own[c] <= truth[c]
                      /\ holds[c].value <= truth[c] /\ holds[c].at <= clock
  /\ \A w \in Wires, c \in Cells : wires[w].data[c] <= truth[c]
  /\ \A k \in Requests, c \in Cells : floor[k][c] <= truth[c]

MergesForward == \A r \in Requests : Live(r) => \A c \in Cells : shown[c] <= Merge(r)[c]

\* A read that was started holds what every caller it answers may expect.
FloorsMet ==
  \A k \in Requests :
    /\ outcome[k] = "applied" => awaits[k] # NoOne /\ reads[awaits[k]].stage # "none"
    /\ awaits[k] # NoOne /\ reads[awaits[k]].stage # "none" =>
         \A c \in Cells : floor[k][c] <= wires[reads[awaits[k]].wire].data[c]

WiresGrow == \A w \in Wires, c \in Cells : wires[w].data[c] <= wires'[w].data[c]

LEMMA ValueFields ==
  ASSUME TypeOK
  PROVE  /\ \A c \in Cells : /\ truth[c] \in Nat /\ own[c] \in Nat /\ shown[c] \in Nat
                             /\ holds[c].value \in Nat /\ holds[c].at \in Nat
         /\ \A w \in Wires, c \in Cells : wires[w].data[c] \in Nat
         /\ \A k \in Requests, c \in Cells : floor[k][c] \in Nat
<1>1. PageType /\ RecordType /\ WireType /\ AskType
  BY TypeParts
<1>2. \A w \in Wires : wires[w].data \in [Cells -> Nat]
  BY <1>1 DEF WireType
<1>3. QED
  BY <1>1, <1>2 DEF PageType, RecordType, AskType

LEMMA SendValues ==
  ASSUME TypeOK, Bounded, NEW k \in Wires, Send(k)
  PROVE  /\ WiresGrow
         /\ \A w \in Wires, c \in Cells : wires'[w].data[c] <= truth[c]
         /\ ~ Shared => WireFor(k) = k /\ wires'[k].data = truth
<1>1. CASE WireFor(k) = k
  <2>1. wires' = [wires EXCEPT ![k] = [stage |-> "sent", data |-> truth]]
    BY <1>1 DEF Send
  <2>2. wires'[k].data = truth /\ \A w \in Wires \ {k} : wires'[w] = wires[w]
    BY <2>1 DEF TypeOK
  <2>3. QED
    BY <1>1, <2>2, ValueFields DEF WiresGrow, Bounded
<1>2. CASE WireFor(k) # k
  <2>1. Shared /\ UNCHANGED wires
    BY <1>2 DEF Send, WireFor, wireVars
  <2>2. QED
    BY <2>1, ValueFields DEF WiresGrow, Bounded
<1>3. QED
  BY <1>1, <1>2

LEMMA NoSend ==
  ASSUME TypeOK, Bounded, UNCHANGED wires
  PROVE  WiresGrow /\ \A w \in Wires, c \in Cells : wires'[w].data[c] <= truth[c]
  BY ValueFields DEF WiresGrow, Bounded

\* The live read of a step that leaves the page and the reads alone.
LEMMA MergesKept ==
  ASSUME TypeOK, TypeOK', MergesForward, WiresGrow, UNCHANGED <<shown, holds>>,
         \A r \in Requests : Live(r)' => /\ Live(r)
                                         /\ reads'[r].wire = reads[r].wire
                                         /\ reads'[r].started_at = reads[r].started_at
  PROVE  MergesForward'
<1> SUFFICES ASSUME NEW r \in Requests, Live(r)', NEW c \in Cells
    PROVE  shown'[c] <= Merge(r)'[c]
  BY DEF MergesForward
<1>1. /\ shown[c] <= Merge(r)[c] /\ reads[r].wire \in Wires
      /\ reads'[r].wire = reads[r].wire /\ reads'[r].started_at = reads[r].started_at
  BY ReadFields DEF MergesForward, Live
<1>2. wires[reads[r].wire].data[c] <= wires'[reads'[r].wire].data[c]
  BY <1>1 DEF WiresGrow
<1>3. wires'[reads'[r].wire].data[c] \in Nat
  BY <1>1, ValueFields DEF TypeOK, WireType
<1>4. QED
  BY <1>1, <1>2, <1>3, ValueFields DEF Merge

\* A read that starts after everything held was noted carries the record itself.
LEMMA StartReadMerges ==
  ASSUME TypeOK, Tickets, Bounded, ~ Shared, NEW k \in Requests, NEW quiet, NEW waiting,
         NEW seq \in Nat, NEW now \in Nat, boardSeq <= seq, clock <= now,
         UNCHANGED generation, StartRead(k, quiet, seq, now, waiting),
         \A c \in Cells : /\ shown'[c] \in Nat /\ shown'[c] <= truth[c]
                          /\ holds'[c].at \in Nat /\ holds'[c].at <= now
  PROVE  MergesForward'
<1>1. /\ reads'[k].started_at = now + 1 /\ reads'[k].wire = WireFor(k)
      /\ \A r \in Requests \ {k} : ~ Live(r)'
  BY StartReadLive
<1>2. WireFor(k) = k /\ wires'[k].data = truth
  BY SendValues DEF StartRead, Wires
<1>3. ASSUME NEW c \in Cells
      PROVE  shown'[c] <= Merge(k)'[c]
  <2>1. ~ (holds'[c].at > reads'[k].started_at)
    BY <1>1
  <2>2. Merge(k)'[c] = truth[c]
    BY <1>1, <1>2, <2>1 DEF Merge
  <2>3. QED
    BY <2>2
<1>4. QED
  BY <1>1, <1>3 DEF MergesForward

\* A read that starts answers whoever waits for it with the record as it stands.
LEMMA StartReadFloors ==
  ASSUME TypeOK, TypeOK', FloorsMet, WiresGrow, NEW k \in Requests, ReadsMoved(k),
         reads'[k].wire = k, wires'[k].data = truth, UNCHANGED outcome,
         \A j \in Requests : \/ awaits'[j] = k
                             \/ awaits'[j] = awaits[j] /\ floor'[j] = floor[j],
         \A j \in Requests, c \in Cells : floor'[j][c] <= truth[c]
  PROVE  FloorsMet'
<1> SUFFICES ASSUME NEW j \in Requests
    PROVE  /\ outcome'[j] = "applied" =>
                awaits'[j] # NoOne /\ reads'[awaits'[j]].stage # "none"
           /\ awaits'[j] # NoOne /\ reads'[awaits'[j]].stage # "none" =>
                \A c \in Cells : floor'[j][c] <= wires'[reads'[awaits'[j]].wire].data[c]
  BY DEF FloorsMet
<1>1. CASE awaits'[j] = k
  BY <1>1, TicketFields DEF ReadsMoved
<1>2. CASE awaits'[j] # k
  <2>1. awaits'[j] = awaits[j] /\ floor'[j] = floor[j]
    BY <1>2
  <2>2. awaits[j] # NoOne => awaits[j] \in Requests /\ reads'[awaits[j]] = reads[awaits[j]]
    BY <1>2, <2>1 DEF TypeOK, ReadsMoved
  <2>3. outcome'[j] = "applied" => awaits'[j] # NoOne /\ reads'[awaits'[j]].stage # "none"
    BY <2>1, <2>2 DEF FloorsMet
  <2>4. ASSUME awaits'[j] # NoOne, reads'[awaits'[j]].stage # "none", NEW c \in Cells
        PROVE  floor'[j][c] <= wires'[reads'[awaits'[j]].wire].data[c]
    <3> DEFINE w == reads[awaits[j]].wire
    <3>1. reads'[awaits'[j]].wire = w /\ w \in Wires /\ floor'[j] = floor[j]
      BY <2>1, <2>2, <2>4, ReadFields
    <3>2. floor[j][c] <= wires[w].data[c]
      BY <2>1, <2>2, <2>4 DEF FloorsMet
    <3>3. /\ wires[w].data[c] <= wires'[w].data[c]
          /\ wires[w].data[c] \in Nat /\ floor[j][c] \in Nat
      BY <3>1, ValueFields DEF WiresGrow
    <3>4. wires'[w].data[c] \in Nat
      BY <3>1 DEF TypeOK
    <3>5. QED
      BY <3>1, <3>2, <3>3, <3>4
  <2>5. QED
    BY <2>3, <2>4
<1>3. QED
  BY <1>1, <1>2

\* A step in which no read starts.
LEMMA FloorsKept ==
  ASSUME TypeOK, TypeOK', FloorsMet, WiresGrow,
         \A r \in Requests : /\ reads'[r].wire = reads[r].wire
                             /\ reads'[r].stage = "none" <=> reads[r].stage = "none",
         \A j \in Requests :
           \/ awaits'[j] = awaits[j] /\ floor'[j] = floor[j]
           \/ awaits'[j] \in Requests /\ reads[awaits'[j]].stage = "none",
         \A j \in Requests : outcome'[j] = "applied" =>
           awaits'[j] \in Requests /\ reads[awaits'[j]].stage # "none"
  PROVE  FloorsMet'
<1> SUFFICES ASSUME NEW j \in Requests, awaits'[j] # NoOne, reads'[awaits'[j]].stage # "none",
                    NEW c \in Cells
    PROVE  floor'[j][c] <= wires'[reads'[awaits'[j]].wire].data[c]
  BY TicketFields DEF FloorsMet
<1>1. awaits'[j] \in Requests
  BY DEF TypeOK
<1>2. awaits'[j] = awaits[j] /\ floor'[j] = floor[j]
  BY <1>1
<1> DEFINE w == reads[awaits[j]].wire
<1>3. reads'[awaits'[j]].wire = w /\ w \in Wires
  BY <1>1, <1>2, ReadFields
<1>4. floor[j][c] <= wires[w].data[c]
  BY <1>1, <1>2 DEF FloorsMet
<1>5. /\ wires[w].data[c] <= wires'[w].data[c]
      /\ wires[w].data[c] \in Nat /\ floor[j][c] \in Nat
  BY <1>3, ValueFields DEF WiresGrow
<1>6. wires'[w].data[c] \in Nat
  BY <1>3 DEF TypeOK
<1>7. QED
  BY <1>2, <1>3, <1>4, <1>5, <1>6

AppliedWereRead == \A j \in Requests : outcome[j] = "applied" =>
              awaits[j] \in Requests /\ reads[awaits[j]].stage # "none"

LEMMA AppliedAwaits ==
  ASSUME TypeOK, FloorsMet
  PROVE  AppliedWereRead
  BY DEF AppliedWereRead, FloorsMet, TypeOK

Valued == Bounded /\ MergesForward /\ FloorsMet

\* What a request does to the values, with the page moved in the same step or not.
LEMMA AskValued ==
  ASSUME TypeOK, TypeOK', Coordinated, Valued, ~ Shared,
         NEW k \in Requests, NEW quiet, NEW now \in Nat, clock <= now,
         UNCHANGED <<generation, outcome, truth>>, Ask(k, quiet, now),
         \A c \in Cells : /\ shown'[c] <= truth[c] /\ own'[c] <= truth[c]
                          /\ holds'[c].value <= truth[c] /\ holds'[c].at <= now
                          /\ \/ shown'[c] = shown[c] /\ holds'[c] = holds[c]
                             \/ holds'[c].value = shown'[c] /\ clock < holds'[c].at
  PROVE  Valued'
<1> USE DEF Coordinated, Valued
<1>1. /\ \A j \in Requests : floor'[j] = IF j = k THEN truth ELSE floor[j]
      /\ clock' \in Nat /\ now <= clock'
      /\ awaits[k] = NoOne
  BY DEF Ask, JoinQueued, StartNow, QueueUp, NoteAsk, StartRead, Unasked, TypeOK
<1>2. \A j \in Requests, c \in Cells : floor'[j][c] <= truth[c]
  BY <1>1, ValueFields DEF Bounded
<1>3. WiresGrow /\ \A w \in Wires, c \in Cells : wires'[w].data[c] <= truth[c]
  BY SendValues, NoSend DEF Ask, JoinQueued, StartNow, QueueUp, StartRead, wireVars, Wires
<1>4. Bounded'
  <2>1. \A c \in Cells : holds'[c].at \in Nat
    BY DEF TypeOK
  <2>2. \A c \in Cells : holds'[c].at <= clock'
    BY <1>1, <2>1
  <2>3. QED
    BY <1>2, <1>3, <2>2 DEF Bounded
<1>5. CASE StartNow(k, quiet, now)
  <2>1. /\ StartRead(k, quiet, boardSeq, now, foreground) /\ Send(k) /\ k \in Wires
        /\ \A j \in Requests : awaits'[j] = IF j = k THEN k ELSE awaits[j]
    BY <1>5 DEF StartNow, StartRead, NoteAsk, TypeOK, Wires
  <2>2. ReadsMoved(k) /\ reads'[k].wire = WireFor(k)
    BY <2>1, StartReadLive, TicketFields DEF ReadsMoved
  <2>3. WireFor(k) = k /\ wires'[k].data = truth
    BY <2>1, SendValues
  <2>4. FloorsMet'
    BY <1>1, <1>2, <1>3, <2>1, <2>2, <2>3, StartReadFloors
  <2>5. \A c \in Cells : shown'[c] \in Nat /\ holds'[c].at \in Nat
    BY DEF TypeOK
  <2>6. MergesForward'
    BY <2>1, <2>5, StartReadMerges, TicketFields
  <2>7. QED
    BY <1>4, <2>4, <2>6
<1>6. CASE JoinQueued(k, quiet, now) \/ QueueUp(k, quiet, now)
  <2>1. UNCHANGED <<reads, boardSeq, wires>>
    BY <1>6 DEF JoinQueued, QueueUp, wireVars
  <2>2. PICK e \in Requests : NoteAsk(k, e) /\ reads[e].stage = "none"
    BY <1>1, <1>6, TicketFields DEF JoinQueued, QueueUp, QueueBehind, Asked
  <2>3. \A j \in Requests : awaits'[j] = IF j = k THEN e ELSE awaits[j]
    BY <2>2 DEF NoteAsk, TypeOK
  <2>4. AppliedWereRead /\ outcome[k] # "applied"
    BY <1>1, AppliedAwaits, TicketFields DEF AppliedWereRead
  <2>5. \A j \in Requests : outcome'[j] = "applied" =>
          awaits'[j] \in Requests /\ reads[awaits'[j]].stage # "none"
    BY <2>3, <2>4 DEF AppliedWereRead
  <2>6. FloorsMet'
    BY <1>1, <1>3, <2>1, <2>2, <2>3, <2>5, FloorsKept
  <2>7. ASSUME NEW r \in Requests, Live(r)', NEW c \in Cells
        PROVE  shown'[c] <= Merge(r)'[c]
    <3>1. Live(r) /\ shown[c] <= Merge(r)[c] /\ reads[r].wire \in Wires
      BY <2>1, <2>7, ReadFields DEF Live, Current, MergesForward
    <3>2. CASE shown'[c] = shown[c] /\ holds'[c] = holds[c]
      BY <2>1, <3>1, <3>2 DEF Merge
    <3>3. CASE holds'[c].value = shown'[c] /\ clock < holds'[c].at
      <4>1. reads[r].started_at <= clock
        BY DEF Tickets
      <4>2. holds'[c].at > reads'[r].started_at
        BY <2>1, <3>3, <4>1, ReadFields, TicketFields DEF TypeOK
      <4>3. Merge(r)'[c] = shown'[c] /\ shown'[c] \in Nat
        BY <3>3, <4>2 DEF Merge, TypeOK
      <4>4. QED
        BY <4>3
    <3>4. QED
      BY <3>2, <3>3
  <2>8. QED
    BY <1>4, <2>6, <2>7 DEF MergesForward
<1>7. QED
  BY <1>5, <1>6 DEF Ask

LEMMA ForceValued ==
  ASSUME TypeOK, TypeOK', Coordinated, Valued, ~ Shared,
         NEW k \in Requests, NEW quiet \in BOOLEAN, ForceRefresh(k, quiet)
  PROVE  Valued'
<1> USE DEF Coordinated, Valued
<1>1. /\ StartRead(k, quiet, SeqAbandoned, clock, ForegroundAbandoned) /\ Send(k) /\ k \in Wires
      /\ UNCHANGED <<own, shown, holds, outcome, truth, generation>>
      /\ clock' = clock + 1
  BY DEF ForceRefresh, StartRead, pageVars, recordVars, Wires
<1>2. SeqAbandoned \in Nat /\ boardSeq <= SeqAbandoned /\ clock \in Nat /\ clock <= clock
  BY TicketFields DEF SeqAbandoned
<1>3. /\ WireFor(k) = k /\ wires'[k].data = truth /\ WiresGrow
      /\ \A w \in Wires, c \in Cells : wires'[w].data[c] <= truth[c]
  BY <1>1, SendValues
<1>4. ReadsMoved(k) /\ reads'[k].wire = k
  BY <1>1, <1>2, <1>3, StartReadLive DEF ReadsMoved
<1>5. /\ \A j \in Requests : awaits'[j] \in {k, awaits[j]}
      /\ \A j \in Requests : floor'[j] = IF j = k THEN truth ELSE floor[j]
      /\ \A j \in Requests : awaits'[j] = k \/ (awaits'[j] = awaits[j] /\ floor'[j] = floor[j])
  BY DEF ForceRefresh, TypeOK
<1>6. \A j \in Requests, c \in Cells : floor'[j][c] <= truth[c]
  BY <1>5, ValueFields DEF Bounded
<1>7. FloorsMet'
  BY <1>1, <1>3, <1>4, <1>5, <1>6, StartReadFloors
<1>8. \A c \in Cells : /\ shown'[c] \in Nat /\ shown'[c] <= truth[c]
                       /\ holds'[c].at \in Nat /\ holds'[c].at <= clock
  BY <1>1, ValueFields DEF Bounded
<1>9. MergesForward'
  BY <1>1, <1>2, <1>8, StartReadMerges
<1>10. Bounded'
  BY <1>1, <1>2, <1>3, <1>6, <1>8, ValueFields DEF Bounded
<1>11. QED
  BY <1>7, <1>9, <1>10

LEMMA FireValued ==
  ASSUME TypeOK, TypeOK', Coordinated, Valued, ~ Shared, Fire
  PROVE  Valued'
<1> DEFINE k == queued.request
<1> USE DEF Coordinated, Valued
<1>1. /\ StartRead(k, queued.quiet, boardSeq, clock, foreground) /\ Send(k)
      /\ k \in Requests /\ k \in Wires
      /\ UNCHANGED <<own, shown, holds, outcome, awaits, floor, truth, generation>>
      /\ clock' = clock + 1
  BY TicketFields DEF Fire, StartRead, pageVars, recordVars, Wires
<1> HIDE DEF k
<1>2. boardSeq \in Nat /\ boardSeq <= boardSeq /\ clock \in Nat /\ clock <= clock
  BY TicketFields
<1>3. /\ WireFor(k) = k /\ wires'[k].data = truth /\ WiresGrow
      /\ \A w \in Wires, c \in Cells : wires'[w].data[c] <= truth[c]
  BY <1>1, SendValues
<1>4. ReadsMoved(k) /\ reads'[k].wire = k
  BY <1>1, <1>2, <1>3, StartReadLive DEF ReadsMoved
<1>5. \A j \in Requests, c \in Cells : floor'[j][c] <= truth[c]
  BY <1>1 DEF Bounded
<1>6. FloorsMet'
  BY <1>1, <1>3, <1>4, <1>5, StartReadFloors
<1>7. \A c \in Cells : /\ shown'[c] \in Nat /\ shown'[c] <= truth[c]
                       /\ holds'[c].at \in Nat /\ holds'[c].at <= clock
  BY <1>1, ValueFields DEF Bounded
<1>8. MergesForward'
  BY <1>1, <1>2, <1>7, StartReadMerges
<1>9. Bounded'
  BY <1>1, <1>2, <1>3, <1>5, <1>7, ValueFields DEF Bounded
<1>10. QED
  BY <1>6, <1>8, <1>9

\* What an answer puts on the board is never behind what it shows nor ahead of the
\* record.
LEMMA AnswerForward ==
  ASSUME TypeOK, TypeOK', Coordinated, Valued, NEW r \in Requests, Answer(r)
  PROVE  \A c \in Cells : shown[c] <= shown'[c] /\ shown'[c] <= truth[c]
<1> SUFFICES ASSUME NEW c \in Cells
    PROVE  shown[c] <= shown'[c] /\ shown'[c] <= truth[c]
  OBVIOUS
<1>1. shown[c] <= shown[c] /\ shown[c] <= truth[c]
  BY ValueFields DEF Valued, Bounded
<1>2. CASE shown' = shown
  BY <1>1, <1>2
<1>3. CASE shown' # shown
  <2>1. Current(r) /\ shown' = Merge(r) /\ reads[r].stage = "open"
    BY <1>3 DEF Answer, Superseded, ReadFailed, Applied, ApplyFailed
  <2>2. shown[c] <= Merge(r)[c]
    BY <2>1 DEF Valued, MergesForward, Live
  <2>3. reads[r].wire \in Wires
    BY <2>1, ReadFields
  <2>4. Merge(r)[c] <= truth[c]
    BY <2>3 DEF Merge, Valued, Bounded
  <2>5. QED
    BY <2>1, <2>2, <2>4
<1>4. QED
  BY <1>2, <1>3

LEMMA AnswerValued ==
  ASSUME TypeOK, TypeOK', Coordinated, Valued, NEW r \in Requests, Answer(r)
  PROVE  Valued'
<1> USE DEF Coordinated, Valued
<1>1. /\ reads[r].stage = "open" /\ reads' = [reads EXCEPT ![r].stage = "settled"]
      /\ UNCHANGED <<own, boardSeq, awaits, floor, truth, wires, clock, generation>>
  BY DEF Answer, recordVars, wireVars
<1>2. /\ reads'[r].stage = "settled"
      /\ \A s \in Requests : /\ reads'[s].id = reads[s].id
                             /\ reads'[s].generation = reads[s].generation
                             /\ reads'[s].started_at = reads[s].started_at
                             /\ reads'[s].wire = reads[s].wire
                             /\ s # r => reads'[s].stage = reads[s].stage
  BY <1>1 DEF TypeOK
<1>3. WiresGrow /\ \A w \in Wires, c \in Cells : wires'[w].data[c] <= truth[c]
  BY <1>1, NoSend
<1>4. Bounded'
  <2>1. \A c \in Cells : shown'[c] <= truth[c]
    BY AnswerForward
  <2>2. \A c \in Cells : holds'[c] = holds[c] \/ holds'[c] = NoHold
    BY DEF Answer, Superseded, ReadFailed, Applied, ApplyFailed, Release
  <2>3. \A c \in Cells : holds'[c].value <= truth[c] /\ holds'[c].at <= clock
    BY <2>2, ValueFields, TicketFields DEF Bounded, NoHold
  <2>4. QED
    BY <1>1, <1>3, <2>1, <2>3 DEF Bounded
<1>5. MergesForward'
  <2>1. CASE Current(r)
    <3>1. \A s \in Requests : ~ Live(s)'
      BY <1>1, <1>2, <2>1 DEF Live, Current, Tickets
    <3>2. QED
      BY <3>1 DEF MergesForward
  <2>2. CASE ~ Current(r)
    <3>1. UNCHANGED <<shown, holds>>
      BY <2>2 DEF Answer, Superseded, ReadFailed, Applied, ApplyFailed
    <3>2. \A s \in Requests : Live(s)' => Live(s)
      BY <1>1, <1>2 DEF Live, Current
    <3>3. QED
      BY <1>2, <1>3, <3>1, <3>2, MergesKept
  <2>3. QED
    BY <2>1, <2>2
<1>6. FloorsMet'
  <2>1. PICK what \in Outcomes : Tell(r, what)
    BY DEF Answer, Superseded, ReadFailed, Applied, ApplyFailed, Outcomes
  <2>2. \A j \in Requests : outcome'[j] = IF awaits[j] = r THEN what ELSE outcome[j]
    BY <2>1 DEF Tell
  <2>3. \A j \in Requests : outcome'[j] = "applied" =>
          awaits'[j] \in Requests /\ reads[awaits'[j]].stage # "none"
    BY <1>1, <2>2, AppliedAwaits DEF AppliedWereRead
  <2>4. \A s \in Requests : reads'[s].stage = "none" <=> reads[s].stage = "none"
    BY <1>1, <1>2
  <2>5. QED
    BY <1>1, <1>2, <1>3, <2>3, <2>4, FloorsKept
<1>7. QED
  BY <1>4, <1>5, <1>6

\* A step in which no read starts or answers and the page shows what it showed.
LEMMA QuietValued ==
  ASSUME TypeOK, TypeOK', Valued, WiresGrow, clock <= clock',
         \A w \in Wires, c \in Cells : wires'[w].data[c] <= truth'[c],
         \A c \in Cells : truth[c] <= truth'[c] /\ own'[c] <= truth'[c],
         UNCHANGED <<shown, holds, awaits, floor>>,
         \A r \in Requests : /\ reads'[r].wire = reads[r].wire
                             /\ reads'[r].started_at = reads[r].started_at
                             /\ reads'[r].stage = "none" <=> reads[r].stage = "none"
                             /\ Live(r)' => Live(r),
         \A j \in Requests : outcome'[j] = "applied" => outcome[j] = "applied"
  PROVE  Valued'
<1> USE DEF Valued
<1>1. \A c \in Cells : truth'[c] \in Nat /\ clock' \in Nat
  BY DEF TypeOK
<1>2. Bounded'
  <2>1. \A c \in Cells : shown'[c] <= truth'[c] /\ holds'[c].value <= truth'[c]
    BY <1>1, ValueFields DEF Bounded
  <2>2. \A c \in Cells : holds'[c].at <= clock'
    BY <1>1, ValueFields, TicketFields DEF Bounded
  <2>3. \A k \in Requests, c \in Cells : floor'[k][c] <= truth'[c]
    BY <1>1, ValueFields DEF Bounded
  <2>4. QED
    BY <2>1, <2>2, <2>3 DEF Bounded
<1>3. MergesForward'
  BY MergesKept
<1>4. FloorsMet'
  BY AppliedAwaits, FloorsKept DEF AppliedWereRead
<1>5. QED
  BY <1>2, <1>3, <1>4

LEMMA StepValued ==
  ASSUME TypeOK, TypeOK', Coordinated, Valued, ~ Shared, [Next]_vars
  PROVE  Valued'
<1>1. /\ clock \in Nat /\ ClockNoted = clock + 1 /\ clock <= clock
      /\ \A c \in Cells : truth[c] <= truth[c] /\ own[c] <= truth[c]
  BY TicketFields, ValueFields DEF ClockNoted, Valued, Bounded
<1>2. ASSUME NEW k \in Requests, NEW quiet \in BOOLEAN, Refresh(k, quiet)
      PROVE  Valued'
  <2>1. /\ Ask(k, quiet, clock)
        /\ UNCHANGED <<own, shown, holds, outcome, truth, generation>>
    BY <1>2 DEF Refresh, pageVars, recordVars
  <2>2. \A c \in Cells : /\ shown'[c] <= truth[c] /\ own'[c] <= truth[c]
                         /\ holds'[c].value <= truth[c] /\ holds'[c].at <= clock
    BY <2>1 DEF Valued, Bounded
  <2>3. QED
    BY <1>1, <2>1, <2>2, AskValued
<1>3. ASSUME NEW c \in Cells, NEW k \in Requests, ConfirmLocalWrite(c, k)
      PROVE  Valued'
  <2> DEFINE now == clock + 1
  <2>1. now \in Nat /\ clock <= now
    BY <1>1
  <2>2. Ask(k, TRUE, now)
    BY <1>3 DEF ConfirmLocalWrite, ClockNoted
  <2>3. /\ shown' = [shown EXCEPT ![c] = own[c]]
        /\ holds' = [holds EXCEPT ![c] = [value |-> own[c], at |-> now]]
        /\ own' = [own EXCEPT ![c] = 0]
        /\ UNCHANGED <<outcome, truth, generation>>
    BY <1>3 DEF ConfirmLocalWrite, ClockNoted, recordVars
  <2>4. /\ shown'[c] = own[c] /\ own'[c] = 0
        /\ holds'[c].value = own[c] /\ holds'[c].at = now
        /\ \A d \in Cells \ {c} :
             shown'[d] = shown[d] /\ holds'[d] = holds[d] /\ own'[d] = own[d]
    BY <2>3 DEF TypeOK
  <2>5. \A d \in Cells :
          /\ shown'[d] <= truth[d] /\ own'[d] <= truth[d]
          /\ holds'[d].value <= truth[d] /\ holds'[d].at <= now
    BY <1>1, <2>4, ValueFields DEF Valued, Bounded
  <2>6. \A d \in Cells :
          \/ shown'[d] = shown[d] /\ holds'[d] = holds[d]
          \/ holds'[d].value = shown'[d] /\ clock < holds'[d].at
    BY <1>1, <2>4
  <2> HIDE DEF now
  <2>7. QED
    BY <2>1, <2>2, <2>3, <2>5, <2>6, AskValued
<1>4. ASSUME NEW c \in Cells, NEW k \in Requests, ReconcileNewerState(c, k)
      PROVE  Valued'
  <2>1. /\ Ask(k, TRUE, clock)
        /\ own' = [own EXCEPT ![c] = 0]
        /\ UNCHANGED <<shown, holds, outcome, truth, generation>>
    BY <1>4 DEF ReconcileNewerState, recordVars
  <2>2. \A d \in Cells : own'[d] <= truth[d]
    BY <1>1, <2>1, ValueFields DEF TypeOK
  <2>3. \A d \in Cells : /\ shown'[d] <= truth[d]
                         /\ holds'[d].value <= truth[d] /\ holds'[d].at <= clock
    BY <2>1 DEF Valued, Bounded
  <2>4. QED
    BY <1>1, <2>1, <2>2, <2>3, AskValued
<1>5. ASSUME NEW k \in Requests, NEW quiet \in BOOLEAN, ForceRefresh(k, quiet)
      PROVE  Valued'
  BY <1>5, ForceValued
<1>6. ASSUME NEW p \in Polls, PollChanges(p) \/ ForcePoll(p) \/ PollAnswer(p)
      PROVE  Valued'
  <2>1. UNCHANGED <<pageVars, boardVars, recordVars, wireVars, generation>> /\ clock <= clock'
    BY <1>1, <1>6 DEF PollChanges, ForcePoll, StartPoll, PollAnswer
  <2>2. \A r \in Requests : Live(r)' => Live(r)
    BY <2>1 DEF Live, Current, boardVars
  <2>3. WiresGrow /\ \A w \in Wires, c \in Cells : wires'[w].data[c] <= truth[c]
    BY <2>1, NoSend DEF Valued, wireVars
  <2>4. QED
    BY <1>1, <2>1, <2>2, <2>3, QuietValued DEF pageVars, boardVars, recordVars
<1>7. ASSUME NEW r \in Requests, Clear(r)
      PROVE  Valued'
  <2>1. /\ reads[r].stage = "settled" /\ reads' = [reads EXCEPT ![r].stage = "cleared"]
        /\ UNCHANGED <<pageVars, boardSeq, awaits, outcome, floor, recordVars, wireVars,
                       clock, generation>>
    BY <1>7 DEF Clear
  <2>2. \A s \in Requests : /\ reads'[s].id = reads[s].id
                            /\ reads'[s].generation = reads[s].generation
                            /\ reads'[s].started_at = reads[s].started_at
                            /\ reads'[s].wire = reads[s].wire
                            /\ reads'[s].stage = IF s = r THEN "cleared" ELSE reads[s].stage
    BY <2>1 DEF TypeOK
  <2>3. \A s \in Requests : /\ reads'[s].stage = "none" <=> reads[s].stage = "none"
                            /\ Live(s)' => Live(s)
    BY <2>1, <2>2 DEF Live, Current
  <2>4. WiresGrow /\ \A w \in Wires, c \in Cells : wires'[w].data[c] <= truth[c]
    BY <2>1, NoSend DEF Valued, wireVars
  <2>5. QED
    BY <1>1, <2>1, <2>2, <2>3, <2>4, QuietValued DEF pageVars, recordVars
<1>8. ASSUME DropInFlight
      PROVE  Valued'
  <2>1. UNCHANGED <<pageVars, reads, awaits, floor, recordVars, wireVars, clock>>
    BY <1>8 DEF DropInFlight
  <2>2. \A r \in Requests : ~ Live(r)'
    BY <1>8, <2>1, ReadFields, TicketFields DEF DropInFlight, Live, Current, Coordinated, Tickets
  <2>3. \A j \in Requests : outcome'[j] = "applied" => outcome[j] = "applied"
    BY <1>8 DEF DropInFlight, Cancelled
  <2>4. WiresGrow /\ \A w \in Wires, c \in Cells : wires'[w].data[c] <= truth[c]
    BY <2>1, NoSend DEF Valued, wireVars
  <2>5. QED
    BY <1>1, <2>1, <2>2, <2>3, <2>4, QuietValued DEF pageVars, recordVars
<1>9. ASSUME NEW c \in Cells, Change(c)
      PROVE  Valued'
  <2>1. /\ truth' = [truth EXCEPT ![c] = @ + 1]
        /\ own' = own \/ own' = [own EXCEPT ![c] = truth[c] + 1]
        /\ UNCHANGED <<shown, holds, boardVars, wires, clock, generation>>
    BY <1>9 DEF Change, wireVars
  <2>2. \A d \in Cells : truth[d] <= truth'[d] /\ own'[d] <= truth'[d]
    BY <1>1, <2>1, ValueFields DEF TypeOK
  <2>3. WiresGrow /\ \A w \in Wires, d \in Cells : wires'[w].data[d] <= truth'[d]
    <3>1. \A w \in Wires, d \in Cells : wires'[w].data[d] <= truth[d]
      BY <2>1, NoSend DEF Valued
    <3>2. \A w \in Wires, d \in Cells : wires'[w].data[d] \in Nat /\ truth'[d] \in Nat
      BY <2>1, ValueFields DEF TypeOK
    <3>3. QED
      BY <2>1, <2>2, <3>1, <3>2, NoSend, ValueFields DEF Valued
  <2>4. \A r \in Requests : Live(r)' => Live(r)
    BY <2>1 DEF Live, Current, boardVars
  <2>5. QED
    BY <1>1, <2>1, <2>2, <2>3, <2>4, QuietValued DEF boardVars
<1>10. ASSUME NEW w \in Wires, Arrive(w) \/ Lose(w)
       PROVE  Valued'
  <2>1. UNCHANGED <<pageVars, boardVars, recordVars, clock, generation>>
    BY <1>10 DEF Arrive, Lose
  <2>2. /\ \A v \in Wires \ {w} : wires'[v].data = wires[v].data
        /\ wires'[w].data = wires[w].data \/ wires'[w].data \in Snapshots(w)
    BY <1>10 DEF Arrive, Lose, TypeOK
  <2>3. WiresGrow /\ \A v \in Wires, c \in Cells : wires'[v].data[c] <= truth[c]
    BY <2>2, ValueFields DEF WiresGrow, Snapshots, Valued, Bounded
  <2>4. \A r \in Requests : Live(r)' => Live(r)
    BY <2>1 DEF Live, Current, boardVars
  <2>5. QED
    BY <1>1, <2>1, <2>3, <2>4, QuietValued DEF pageVars, boardVars, recordVars
<1>11. ASSUME UNCHANGED vars
       PROVE  Valued'
  <2>1. WiresGrow /\ \A w \in Wires, c \in Cells : wires'[w].data[c] <= truth[c]
    BY <1>11, NoSend DEF Valued, vars, wireVars
  <2>2. \A r \in Requests : Live(r)' => Live(r)
    BY <1>11 DEF Live, Current, boardVars, vars
  <2>3. QED
    BY <1>1, <1>11, <2>1, <2>2, QuietValued DEF pageVars, boardVars, recordVars, vars
<1>12. \A o \in Others : ~ OtherRead(o)
  BY DEF OtherRead
<1>13. CASE Callers
  BY <1>13, <1>2, <1>3, <1>4, <1>5, <1>6 DEF Callers
<1>14. CASE Callbacks
  BY <1>14, <1>6, <1>7, AnswerValued, FireValued DEF Callbacks
<1>15. CASE World
  BY <1>15, <1>8, <1>9, <1>10, <1>12 DEF World, Invalidate, GoOffline, ComeBack
<1>16. QED
  BY <1>11, <1>13, <1>14, <1>15 DEF Next

LEMMA InitValued == Init => Valued
  BY DEF Init, Valued, Bounded, MergesForward, FloorsMet, NoHold, NoRead, NoWire, Live

-----------------------------------------------------------------------------
(* The board implements BoardView.                                         *)

LEMMA InitView == Init => View!Init
  BY DEF Init, View!Init

LEMMA StepView ==
  ASSUME TypeOK, TypeOK', Coordinated, Valued, [Next]_vars
  PROVE  [View!Next]_(View!vars)
<1> USE DEF View!vars
<1>1. ASSUME UNCHANGED pageVars, UNCHANGED recordVars
      PROVE  UNCHANGED View!vars
  BY <1>1 DEF pageVars, recordVars
<1>2. ASSUME NEW c \in Cells, NEW k \in Requests, ConfirmLocalWrite(c, k)
      PROVE  View!Confirm(c)
  <2>1. /\ own[c] # 0 /\ shown[c] <= own[c]
        /\ shown' = [shown EXCEPT ![c] = own[c]] /\ own' = [own EXCEPT ![c] = 0]
        /\ UNCHANGED truth
    BY <1>2 DEF ConfirmLocalWrite, recordVars
  <2>2. (IF own[c] > shown[c] THEN own[c] ELSE shown[c]) = own[c]
    BY <2>1, ValueFields
  <2>3. QED
    BY <2>1, <2>2 DEF View!Confirm
<1>3. ASSUME NEW c \in Cells, NEW k \in Requests, ReconcileNewerState(c, k)
      PROVE  View!Withhold(c)
  BY <1>3 DEF ReconcileNewerState, recordVars, View!Withhold
<1>4. ASSUME NEW r \in Requests, Answer(r)
      PROVE  View!Refresh
  <2>1. View!Forward(shown, shown')
    BY <1>4, AnswerForward DEF View!Forward
  <2>2. shown' \in [Cells -> Nat] /\ UNCHANGED <<truth, own>>
    BY <1>4 DEF Answer, recordVars, TypeOK
  <2>3. QED
    BY <2>1, <2>2 DEF View!Refresh
<1>5. ASSUME NEW c \in Cells, Change(c)
      PROVE  View!Change(c)
  BY <1>5 DEF Change, View!Change
<1>6. CASE Callers
  <2>1. ASSUME NEW k \in Requests, NEW quiet \in BOOLEAN,
               Refresh(k, quiet) \/ ForceRefresh(k, quiet)
        PROVE  UNCHANGED View!vars
    BY <1>1, <2>1 DEF Refresh, ForceRefresh
  <2>2. ASSUME NEW p \in Polls, PollChanges(p) \/ ForcePoll(p)
        PROVE  UNCHANGED View!vars
    BY <1>1, <2>2 DEF PollChanges, ForcePoll, StartPoll
  <2>3. QED
    BY <1>2, <1>3, <1>6, <2>1, <2>2 DEF Callers, View!Next
<1>7. CASE Callbacks
  <2>1. ASSUME NEW r \in Requests, Clear(r)
        PROVE  UNCHANGED View!vars
    BY <1>1, <2>1 DEF Clear
  <2>2. ASSUME Fire
        PROVE  UNCHANGED View!vars
    BY <1>1, <2>2 DEF Fire
  <2>3. ASSUME NEW p \in Polls, PollAnswer(p)
        PROVE  UNCHANGED View!vars
    BY <1>1, <2>3 DEF PollAnswer
  <2>4. QED
    BY <1>4, <1>7, <2>1, <2>2, <2>3 DEF Callbacks, View!Next
<1>8. CASE World
  <2>1. ASSUME Invalidate \/ GoOffline \/ ComeBack
        PROVE  UNCHANGED View!vars
    BY <1>1, <2>1 DEF Invalidate, GoOffline, ComeBack, DropInFlight
  <2>2. ASSUME \/ \E w \in Wires : Arrive(w) \/ Lose(w)
               \/ \E o \in Others : OtherRead(o)
        PROVE  UNCHANGED View!vars
    BY <1>1, <2>2 DEF Arrive, Lose, OtherRead
  <2>3. QED
    BY <1>5, <1>8, <2>1, <2>2 DEF World, View!Next
<1>9. CASE UNCHANGED vars
  BY <1>1, <1>9 DEF vars
<1>10. QED
  BY <1>6, <1>7, <1>8, <1>9 DEF Next

\* No step of BoardView takes a cell back.
LEMMA ViewForward ==
  ASSUME TypeOK, TypeOK', [View!Next]_(View!vars), NEW c \in Cells
  PROVE  shown[c] <= shown'[c]
<1>1. shown[c] \in Nat /\ shown[c] <= shown[c]
  BY ValueFields
<1>2. CASE UNCHANGED View!vars
  BY <1>1, <1>2 DEF View!vars
<1>3. CASE View!Refresh
  BY <1>3 DEF View!Refresh, View!Forward
<1>4. ASSUME NEW d \in Cells, View!Change(d) \/ View!Withhold(d)
      PROVE  shown[c] <= shown'[c]
  BY <1>1, <1>4 DEF View!Change, View!Withhold
<1>5. ASSUME NEW d \in Cells, View!Confirm(d)
      PROVE  shown[c] <= shown'[c]
  <2>1. shown'[c] = IF c = d /\ own[d] > shown[d] THEN own[d] ELSE shown[c]
    BY <1>5 DEF View!Confirm, TypeOK
  <2>2. QED
    BY <1>1, <2>1, ValueFields
<1>6. QED
  BY <1>2, <1>3, <1>4, <1>5 DEF View!Next

LEMMA Valuation ==
  ASSUME ~ Shared
  PROVE  Spec => [](TypeOK /\ Coordinated /\ Valued)
<1>1. TypeOK /\ Coordinated /\ Valued /\ [Next]_vars => (TypeOK /\ Coordinated /\ Valued)'
  BY StepType, StepCoordinated, StepValued
<1>2. Init => TypeOK /\ Coordinated /\ Valued
  BY InitType, InitCoordinated, InitValued
<1>3. QED
  BY <1>1, <1>2, PTL DEF Spec

\* With a wire for every read, the coordinator implements BoardView: what it puts
\* on the board is in the record, its own changes show as soon as they are
\* confirmed, and no queue, hold, forced read or loss of the network takes a value
\* back.
THEOREM ImplementsBoardView ==
  ASSUME ~ Shared
  PROVE  Spec => ShowsBoardView
<1>1. TypeOK /\ Coordinated /\ Valued /\ (TypeOK /\ Coordinated /\ Valued)' /\ [Next]_vars
        => [View!Next]_(View!vars)
  BY StepView
<1>2. Init => View!Init
  BY InitView
<1>3. QED
  BY <1>1, <1>2, Valuation, PTL DEF Spec, ShowsBoardView, View!Spec

\* With a wire for every read, the board never shows an older value again.
THEOREM NeverBackwardsHolds ==
  ASSUME ~ Shared
  PROVE  Spec => NeverBackwards
<1>1. TypeOK /\ Coordinated /\ Valued /\ (TypeOK /\ Coordinated /\ Valued)' /\ [Next]_vars
        => [\A c \in Cells : shown[c] <= shown'[c]]_vars
  BY StepView, ViewForward
<1>2. QED
  BY <1>1, Valuation, PTL DEF Spec, NeverBackwards

\* With a wire for every read, a caller told "applied" sees everything the record
\* held when it asked, whether it started the read, joined the queue or was handed on.
THEOREM FreshAnswersHold ==
  ASSUME ~ Shared
  PROVE  Spec => []FreshAnswers
<1>1. TypeOK /\ Coordinated /\ Valued => FreshAnswers
  BY DEF Valued, FloorsMet, FreshAnswers
<1>2. QED
  BY <1>1, Valuation, PTL

-----------------------------------------------------------------------------
(* Overtaking.                                                             *)

\* A step that hands out no ticket overtakes nobody.
LEMMA SameTicket ==
  ASSUME TypeOK, UNCHANGED <<boardSeq, generation>>, NEW r \in Requests, Live(r),
         reads'[r].id = reads[r].id, reads'[r].generation = reads[r].generation
  PROVE  Current(r)'
  BY DEF Live, Current

LEMMA NobodyOvertaken ==
  ASSUME TypeOK, Coordinated, [Next]_vars, NEW r \in Requests, Live(r),
         reads'[r].stage = "open", ~ Current(r)', UNCHANGED generation
  PROVE  \E k \in Requests, quiet \in BOOLEAN : ForceRefresh(k, quiet)
<1> USE DEF Coordinated
<1>1. boardRun = r /\ boardRun # NoOne
  BY TicketFields DEF OneLiveRead
<1>2. ~ UNCHANGED <<boardSeq, reads>>
  BY SameTicket DEF Live
<1>3. ASSUME NEW k \in Requests, NEW quiet, NEW now, Ask(k, quiet, now)
      PROVE  FALSE
  BY <1>1, <1>2, <1>3 DEF Ask, JoinQueued, StartNow, QueueUp
<1>4. ~ Fire
  BY <1>1, TicketFields DEF Fire, QueueBehind, OneLiveRead
<1>5. ASSUME NEW s \in Requests, Answer(s) \/ Clear(s)
      PROVE  FALSE
  <2>1. reads'[r].id = reads[r].id /\ reads'[r].generation = reads[r].generation
    BY <1>5 DEF Answer, Clear, TypeOK
  <2>2. UNCHANGED boardSeq
    BY <1>5 DEF Answer, Clear
  <2>3. QED
    BY <2>1, <2>2, SameTicket
<1>6. ~ (\E p \in Polls : PollChanges(p) \/ ForcePoll(p) \/ PollAnswer(p))
  BY <1>2 DEF PollChanges, ForcePoll, StartPoll, PollAnswer, boardVars
<1>7. ~ World
  BY <1>2, TicketFields
     DEF World, Invalidate, GoOffline, ComeBack, DropInFlight, Change, Arrive, Lose, OtherRead,
         boardVars
<1>8. ~ UNCHANGED vars
  BY <1>2 DEF vars, boardVars
<1>9. ~ (\E k \in Requests, quiet \in BOOLEAN : Refresh(k, quiet))
  BY <1>3 DEF Refresh
<1>10. ~ (\E c \in Cells, k \in Requests : ConfirmLocalWrite(c, k) \/ ReconcileNewerState(c, k))
  BY <1>3 DEF ConfirmLocalWrite, ReconcileNewerState
<1>11. QED
  BY <1>4, <1>5, <1>6, <1>7, <1>8, <1>9, <1>10 DEF Next, Callers, Callbacks

\* A read is given up only by a forced read or an invalidation, never by a request
\* that slips in between the callbacks of a read that has just ended.
THEOREM NoOvertakingHolds == Spec => NoOvertaking
<1>1. TypeOK /\ Coordinated /\ [Next]_vars =>
        [\A r \in Requests : Live(r) /\ reads'[r].stage = "open" /\ ~ Current(r)' =>
           \/ generation' # generation
           \/ \E k \in Requests, quiet \in BOOLEAN : ForceRefresh(k, quiet)]_vars
  BY NobodyOvertaken
<1>2. QED
  BY <1>1, Coordination, PTL DEF Spec, NoOvertaking

-----------------------------------------------------------------------------
(* The change feed.                                                        *)

\* Only one poll can still move the cursor, and it was sent with the cursor that
\* stands.
FeedOrdered ==
  /\ \A p \in Polls : polls[p].id <= pollSeq /\ polls[p].generation <= generation
  /\ \A p, q \in Polls :
       polls[p].stage = "open" /\ polls[q].stage = "open" /\ polls[p].id = polls[q].id => p = q
  /\ \A p \in Polls : polls[p].stage = "open" /\ PollCurrent(p) =>
                        polls[p].cursor = cursor

LEMMA PollFields ==
  ASSUME TypeOK
  PROVE  /\ \A p \in Polls : /\ polls[p].stage \in {"none", "open", "settled"}
                             /\ polls[p].id \in Nat /\ polls[p].generation \in Nat
                             /\ polls[p].cursor \in Nat
         /\ pollSeq \in Nat /\ cursor \in Nat /\ generation \in Nat /\ events \in Nat
<1>1. FeedType /\ TicketType /\ RecordType
  BY TypeParts
<1>2. QED
  BY <1>1 DEF FeedType, TicketType, RecordType

LEMMA StartPollOrdered ==
  ASSUME TypeOK, FeedOrdered, NEW p \in Polls, NEW seq \in Nat, pollSeq <= seq,
         StartPoll(p, seq)
  PROVE  FeedOrdered'
<1> DEFINE t == [stage |-> "open", id |-> seq + 1, generation |-> generation, cursor |-> cursor]
<1>1. /\ polls' = [polls EXCEPT ![p] = t]
      /\ pollSeq' = seq + 1 /\ UNCHANGED <<cursor, generation>>
  BY DEF StartPoll
<1>2. polls'[p] = t /\ \A q \in Polls \ {p} : polls'[q] = polls[q]
  BY <1>1 DEF TypeOK
<1>3. /\ t.stage = "open" /\ t.id = seq + 1 /\ t.generation = generation /\ t.cursor = cursor
  OBVIOUS
<1> HIDE DEF t
<1>4. \A q \in Polls \ {p} : polls[q].id \in Nat /\ polls[q].id <= seq /\ polls[q].id # seq + 1
  BY PollFields DEF FeedOrdered
<1>5. \A q \in Polls : polls'[q].id <= pollSeq' /\ polls'[q].generation <= generation'
  BY <1>1, <1>2, <1>3, <1>4, PollFields DEF FeedOrdered
<1>6. ASSUME NEW q \in Polls, NEW o \in Polls, polls'[q].stage = "open",
             polls'[o].stage = "open", polls'[q].id = polls'[o].id
      PROVE  q = o
  <2>1. CASE q = p \/ o = p
    BY <1>2, <1>3, <1>4, <1>6, <2>1
  <2>2. CASE q # p /\ o # p
    BY <1>2, <1>6, <2>2 DEF FeedOrdered
  <2>3. QED
    BY <2>1, <2>2
<1>7. ASSUME NEW q \in Polls, PollCurrent(q)'
      PROVE  polls'[q].cursor = cursor'
  <2>1. q = p
    BY <1>1, <1>2, <1>4, <1>7 DEF PollCurrent
  <2>2. QED
    BY <1>1, <1>2, <1>3, <2>1
<1>8. QED
  BY <1>5, <1>6, <1>7 DEF FeedOrdered

\* The page a poll takes begins where the one before it ended.
LEMMA PollAnswerInOrder ==
  ASSUME TypeOK, FeedOrdered, NEW p \in Polls, PollAnswer(p)
  PROVE  /\ polls[p].stage = "open" /\ polls'[p].stage = "settled"
         /\ cursor' # cursor => /\ PollCurrent(p)
                                /\ polls[p].cursor = cursor /\ cursor < cursor'
<1>1. polls[p].stage = "open" /\ polls'[p].stage = "settled"
  BY DEF PollAnswer, TypeOK
<1>2. ASSUME cursor' # cursor
      PROVE  PollCurrent(p) /\ polls[p].cursor = cursor /\ cursor < cursor'
  <2>1. PollCurrent(p) /\ cursor' \in polls[p].cursor .. events
    BY <1>2 DEF PollAnswer
  <2>2. polls[p].cursor = cursor
    BY <1>1, <2>1 DEF FeedOrdered
  <2>3. QED
    BY <1>2, <2>1, <2>2, PollFields
<1>3. QED
  BY <1>1, <1>2

LEMMA PollAnswerOrdered ==
  ASSUME TypeOK, FeedOrdered, NEW p \in Polls, PollAnswer(p)
  PROVE  FeedOrdered'
<1>1. /\ polls' = [polls EXCEPT ![p].stage = "settled"]
      /\ UNCHANGED <<pollSeq, generation>>
  BY DEF PollAnswer
<1>2. \A q \in Polls : /\ polls'[q].id = polls[q].id /\ polls'[q].cursor = polls[q].cursor
                       /\ polls'[q].generation = polls[q].generation
                       /\ polls'[q].stage = IF q = p THEN "settled" ELSE polls[q].stage
  BY <1>1 DEF TypeOK
<1>3. ASSUME NEW q \in Polls, polls'[q].stage = "open", PollCurrent(q)'
      PROVE  polls'[q].cursor = cursor'
  <2>1. q # p /\ polls[q].stage = "open" /\ PollCurrent(q)
    BY <1>1, <1>2, <1>3 DEF PollCurrent
  <2>2. polls[q].cursor = cursor /\ ~ PollCurrent(p)
    BY <2>1 DEF FeedOrdered, PollCurrent, PollAnswer
  <2>3. cursor' = cursor
    BY <2>2, PollAnswerInOrder
  <2>4. QED
    BY <1>2, <2>2, <2>3
<1>4. QED
  BY <1>1, <1>2, <1>3 DEF FeedOrdered

LEMMA StepFeed ==
  ASSUME TypeOK, FeedOrdered, [Next]_vars
  PROVE  /\ FeedOrdered'
         /\ cursor' # cursor =>
              \E p \in Polls : /\ polls[p].stage = "open" /\ polls'[p].stage = "settled"
                               /\ polls[p].cursor = cursor /\ cursor < cursor'
<1>1. ASSUME NEW p \in Polls, PollChanges(p) \/ ForcePoll(p)
      PROVE  FeedOrdered' /\ UNCHANGED cursor
  <2>1. PICK seq \in Nat : pollSeq <= seq /\ StartPoll(p, seq)
    BY <1>1, PollFields DEF PollChanges, ForcePoll
  <2>2. QED
    BY <2>1, StartPollOrdered DEF StartPoll
<1>2. ASSUME NEW p \in Polls, PollAnswer(p)
      PROVE  /\ FeedOrdered'
             /\ cursor' # cursor =>
                  \E q \in Polls : /\ polls[q].stage = "open" /\ polls'[q].stage = "settled"
                                   /\ polls[q].cursor = cursor /\ cursor < cursor'
  BY <1>2, PollAnswerOrdered, PollAnswerInOrder
<1>3. ASSUME DropInFlight
      PROVE  FeedOrdered' /\ UNCHANGED cursor
  <2>1. /\ generation' = generation + 1 /\ UNCHANGED <<polls, cursor>>
        /\ pollSeq' \in {pollSeq, pollSeq + 1}
    BY <1>3 DEF DropInFlight
  <2>2. \A p \in Polls : ~ PollCurrent(p)'
    BY <2>1, PollFields DEF PollCurrent, FeedOrdered
  <2>3. QED
    BY <2>1, <2>2, PollFields DEF FeedOrdered
<1>4. ASSUME UNCHANGED <<pollSeq, polls, cursor, generation>>
      PROVE  FeedOrdered' /\ UNCHANGED cursor
  BY <1>4 DEF FeedOrdered, PollCurrent
<1>5. CASE Callers
  <2>1. ASSUME NEW k \in Requests, NEW quiet \in BOOLEAN,
               Refresh(k, quiet) \/ ForceRefresh(k, quiet)
        PROVE  FeedOrdered' /\ UNCHANGED cursor
    BY <1>4, <2>1 DEF Refresh, ForceRefresh, feedVars
  <2>2. ASSUME NEW c \in Cells, NEW k \in Requests,
               ConfirmLocalWrite(c, k) \/ ReconcileNewerState(c, k)
        PROVE  FeedOrdered' /\ UNCHANGED cursor
    BY <1>4, <2>2 DEF ConfirmLocalWrite, ReconcileNewerState, feedVars
  <2>3. QED
    BY <1>1, <1>5, <2>1, <2>2 DEF Callers
<1>6. CASE Callbacks
  <2>1. ASSUME Fire \/ \E r \in Requests : Answer(r) \/ Clear(r)
        PROVE  FeedOrdered' /\ UNCHANGED cursor
    BY <1>4, <2>1 DEF Fire, Answer, Clear, feedVars
  <2>2. QED
    BY <1>2, <1>6, <2>1 DEF Callbacks
<1>7. CASE World
  <2>1. ASSUME \/ \E c \in Cells : Change(c)
               \/ \E w \in Wires : Arrive(w) \/ Lose(w)
               \/ \E o \in Others : OtherRead(o)
        PROVE  FeedOrdered' /\ UNCHANGED cursor
    BY <1>4, <2>1 DEF Change, Arrive, Lose, OtherRead, feedVars
  <2>2. QED
    BY <1>3, <1>7, <2>1 DEF World, Invalidate, GoOffline, ComeBack
<1>8. CASE UNCHANGED vars
  BY <1>4, <1>8 DEF vars, feedVars
<1>9. QED
  BY <1>5, <1>6, <1>7, <1>8 DEF Next

\* The cursor walks the feed without a gap or a repeat: forced, abandoned and late
\* polls included, a page is taken only where the one before it ended.
THEOREM FeedInOrderHolds == Spec => FeedInOrder
<1>1. Init => FeedOrdered
  BY DEF Init, FeedOrdered, NoPoll, PollCurrent
<1>2. TypeOK /\ FeedOrdered /\ [Next]_vars => FeedOrdered'
  BY StepFeed
<1>3. TypeOK /\ FeedOrdered /\ [Next]_vars =>
        [cursor' # cursor =>
           \E p \in Polls : /\ polls[p].stage = "open" /\ polls'[p].stage = "settled"
                            /\ polls[p].cursor = cursor /\ cursor < cursor']_vars
  BY StepFeed
<1>4. QED
  BY <1>1, <1>2, <1>3, TypeCorrect, PTL DEF Spec, FeedInOrder

-----------------------------------------------------------------------------
(* Holds and the reads that end them.                                      *)

Troubled == boardHealth \in {"failed", "render_failed"}

\* A hold that the open read is too old to release has a follow-up coming; one
\* that it could have released was released when it was applied.
HoldsCovered ==
  \A c \in Cells :
    /\ holds[c].at <= clock
    /\ boardRun # NoOne /\ holds[c].at > reads[boardRun].started_at => queued # Nothing
    /\ boardRun # NoOne /\ reads[boardRun].stage = "settled" /\ holds[c].at # 0
         /\ holds[c].at <= reads[boardRun].started_at => Troubled

\* The board stops reading, if it does, with nothing held or in trouble.
HoldsServed ==
  \A c \in Cells : holds[c].at # 0 /\ holds'[c] = holds[c] /\ generation' = generation
                     /\ Reading /\ ~ Reading' => boardHealth' \in {"failed", "render_failed"}

LEMMA HoldFields ==
  ASSUME TypeOK
  PROVE  holds \in [Cells -> [value : Nat, at : Nat]] /\ \A c \in Cells : holds[c].at \in Nat
  BY TypeParts DEF PageType

\* A read that starts is younger than every hold.
LEMMA StartReadCovers ==
  ASSUME TypeOK, NEW k \in Requests, NEW quiet, NEW seq, NEW now \in Nat, NEW waiting,
         StartRead(k, quiet, seq, now, waiting), \A c \in Cells : holds'[c].at \in Nat /\ holds'[c].at <= now
  PROVE  HoldsCovered' /\ Reading'
<1>1. boardRun' = k /\ clock' = now + 1 /\ reads'[k].stage = "open" /\ reads'[k].started_at = now + 1
  BY DEF StartRead, TypeOK
<1>2. k # NoOne
  BY TicketFields
<1>3. QED
  BY <1>1, <1>2 DEF HoldsCovered, Reading

\* A caller is put behind the open read, or starts one; a hold that is noted in
\* the same turn is younger than the open read.
LEMMA AskCovers ==
  ASSUME TypeOK, Coordinated, HoldsCovered, NEW k \in Requests, NEW quiet \in BOOLEAN, NEW now \in Nat,
         clock <= now, Ask(k, quiet, now), boardHealth' = boardHealth,
         \A c \in Cells : holds'[c] = holds[c] \/ (holds'[c].at = now /\ clock < now)
  PROVE  HoldsCovered' /\ Reading'
<1> USE DEF Coordinated
<1>1. /\ \A c \in Cells : holds[c].at \in Nat /\ holds[c].at <= clock /\ holds'[c].at \in Nat /\ holds'[c].at <= now
      /\ clock \in Nat
  BY HoldFields, TicketFields DEF HoldsCovered
<1>2. CASE StartNow(k, quiet, now)
  BY <1>1, <1>2, StartReadCovers DEF StartNow
<1>3. CASE JoinQueued(k, quiet, now) \/ QueueUp(k, quiet, now)
  <2>1. /\ queued' # Nothing /\ boardRun' = boardRun /\ reads' = reads /\ clock' = now
    <3>1. CASE JoinQueued(k, quiet, now)
      BY <3>1 DEF JoinQueued
    <3>2. CASE QueueUp(k, quiet, now)
      BY <3>2, TicketFields DEF QueueUp, Nothing
    <3>3. QED
      BY <1>3, <3>1, <3>2
  <2>2. boardRun # NoOne => reads[boardRun].started_at \in Nat /\ reads[boardRun].started_at <= clock
    BY TicketFields, ReadFields DEF Tickets
  <2>3. ASSUME NEW c \in Cells, boardRun # NoOne, reads[boardRun].stage = "settled", holds'[c].at # 0,
               holds'[c].at <= reads[boardRun].started_at
        PROVE  Troubled'
    <3>1. holds'[c] = holds[c]
      BY <1>1, <2>2, <2>3
    <3>2. QED
      BY <2>3, <3>1 DEF HoldsCovered, Troubled
  <2>4. QED
    BY <1>1, <2>1, <2>3 DEF HoldsCovered, Reading
<1>4. QED
  BY <1>2, <1>3 DEF Ask

\* A step that starts no read and ends none.
LEMMA QuietCovers ==
  ASSUME TypeOK, HoldsCovered, UNCHANGED <<holds, boardRun, reads, queued, boardHealth>>,
         clock' \in Nat, clock <= clock'
  PROVE  HoldsCovered' /\ HoldsServed
<1>1. \A c \in Cells : holds[c].at \in Nat /\ holds[c].at <= clock /\ clock \in Nat
  BY HoldFields, TicketFields DEF HoldsCovered
<1>2. QED
  BY <1>1 DEF HoldsCovered, HoldsServed, Reading, Troubled

LEMMA AnswerCovers ==
  ASSUME TypeOK, Coordinated, HoldsCovered, NEW r \in Requests, Answer(r)
  PROVE  HoldsCovered' /\ HoldsServed
<1> USE DEF Coordinated
<1>1. /\ reads[r].stage = "open" /\ reads' = [reads EXCEPT ![r].stage = "settled"]
      /\ boardRun' = boardRun /\ queued' = queued /\ clock' = clock
  BY DEF Answer
<1>2. \A s \in Requests : reads'[s].started_at = reads[s].started_at /\ (s # r => reads'[s] = reads[s])
  BY <1>1 DEF TypeOK
<1>3. HoldsServed
  BY <1>1 DEF HoldsServed, Reading
<1>4. boardRun = r <=> Current(r)
  BY <1>1, TicketFields DEF OneLiveRead, Live
<1>5. \A c \in Cells : holds[c].at \in Nat /\ holds[c].at <= clock /\ clock \in Nat
  BY HoldFields, TicketFields DEF HoldsCovered
<1>6. reads[r].started_at \in Nat /\ boardRun \in Requests \cup {NoOne}
  BY ReadFields, TicketFields
<1>7. CASE boardRun = r
  <2>1. ReadFailed(r) \/ Applied(r) \/ ApplyFailed(r)
    BY <1>4, <1>7 DEF Answer, Superseded
  <2>2. CASE Applied(r)
    <3>1. \A c \in Cells : holds'[c] = IF holds[c].at <= reads[r].started_at THEN NoHold ELSE holds[c]
      BY <2>2 DEF Applied, Release
    <3>2. ASSUME NEW c \in Cells
          PROVE  /\ holds'[c].at <= clock
                 /\ holds'[c].at # 0 => holds[c].at > reads[r].started_at /\ holds'[c] = holds[c]
      BY <1>5, <1>6, <3>1 DEF NoHold
    <3>3. ASSUME NEW c \in Cells, holds'[c].at > reads[r].started_at
          PROVE  queued # Nothing
      <4>1. holds'[c].at # 0
        BY <1>6, <3>3
      <4>2. QED
        BY <1>7, <3>2, <4>1, TicketFields DEF HoldsCovered
    <3>4. ASSUME NEW c \in Cells, holds'[c].at # 0
          PROVE  ~ (holds'[c].at <= reads[r].started_at)
      BY <1>5, <1>6, <3>2, <3>4
    <3>5. HoldsCovered'
      BY <1>1, <1>2, <1>7, <3>2, <3>3, <3>4 DEF HoldsCovered
    <3>6. QED
      BY <1>3, <3>5
  <2>3. CASE ReadFailed(r) \/ ApplyFailed(r)
    <3>1. holds' = holds /\ Troubled'
      BY <2>3 DEF ReadFailed, ApplyFailed, Troubled
    <3>2. HoldsCovered'
      BY <1>1, <1>2, <1>7, <3>1 DEF HoldsCovered
    <3>3. QED
      BY <1>3, <3>2
  <2>4. QED
    BY <2>1, <2>2, <2>3
<1>8. CASE boardRun # r
  <2>1. holds' = holds /\ boardHealth' = boardHealth
    BY <1>4, <1>8 DEF Answer, Superseded, ReadFailed, Applied, ApplyFailed
  <2>2. boardRun # NoOne => reads'[boardRun] = reads[boardRun]
    BY <1>2, <1>6, <1>8
  <2>3. QED
    BY <1>1, <1>3, <2>1, <2>2 DEF HoldsCovered, Troubled
<1>9. QED
  BY <1>7, <1>8

LEMMA ClearCovers ==
  ASSUME TypeOK, Coordinated, HoldsCovered, NEW r \in Requests, Clear(r)
  PROVE  HoldsCovered' /\ HoldsServed
<1> USE DEF Coordinated
<1>1. /\ reads[r].stage = "settled" /\ reads' = [reads EXCEPT ![r].stage = "cleared"]
      /\ boardRun' = (IF boardRun = r THEN NoOne ELSE boardRun) /\ queued' = queued /\ clock' = clock
      /\ holds' = holds /\ boardHealth' = boardHealth
  BY DEF Clear, pageVars
<1>2. \A s \in Requests : s # r => reads'[s] = reads[s]
  BY <1>1 DEF TypeOK
<1>3. boardRun \in Requests \cup {NoOne} /\ NoOne \notin Requests
  BY TicketFields
<1>4. CASE boardRun = r
  <2>1. HoldsCovered'
    BY <1>1, <1>4 DEF HoldsCovered
  <2>2. ASSUME NEW c \in Cells, holds[c].at # 0, queued = Nothing
        PROVE  Troubled
    <3>1. ~ (holds[c].at > reads[r].started_at)
      BY <1>3, <1>4, <2>2 DEF HoldsCovered
    <3>2. holds[c].at <= reads[r].started_at
      BY <3>1, HoldFields, ReadFields
    <3>3. QED
      BY <1>1, <1>3, <1>4, <2>2, <3>2 DEF HoldsCovered
  <2>3. HoldsServed
    BY <1>1, <2>2 DEF HoldsServed, Reading, Troubled
  <2>4. QED
    BY <2>1, <2>3
<1>5. CASE boardRun # r
  <2>1. boardRun' = boardRun /\ (boardRun # NoOne => reads'[boardRun] = reads[boardRun])
    BY <1>1, <1>2, <1>3, <1>5
  <2>2. QED
    BY <1>1, <2>1 DEF HoldsCovered, HoldsServed, Reading, Troubled
<1>6. QED
  BY <1>4, <1>5

LEMMA StepCovers ==
  ASSUME TypeOK, Coordinated, HoldsCovered, [Next]_vars
  PROVE  HoldsCovered' /\ HoldsServed
<1>1. /\ \A c \in Cells : holds[c].at \in Nat /\ holds[c].at <= clock
      /\ clock \in Nat /\ ClockNoted \in Nat /\ clock < ClockNoted /\ clock <= clock /\ clock + 1 \in Nat
  BY HoldFields, TicketFields DEF HoldsCovered, ClockNoted
<1>2. Reading' => HoldsServed
  BY DEF HoldsServed
<1>3. CASE Callers
  <2>1. ASSUME NEW k \in Requests, NEW quiet \in BOOLEAN, Refresh(k, quiet)
        PROVE  HoldsCovered' /\ HoldsServed
    BY <1>1, <1>2, <2>1, AskCovers DEF Refresh, pageVars
  <2>2. ASSUME NEW c \in Cells, NEW k \in Requests, ConfirmLocalWrite(c, k)
        PROVE  HoldsCovered' /\ HoldsServed
    <3>1. \A d \in Cells : holds'[d] = holds[d] \/ (holds'[d].at = ClockNoted /\ clock < ClockNoted)
      BY <1>1, <2>2, HoldFields DEF ConfirmLocalWrite
    <3>2. Ask(k, TRUE, ClockNoted) /\ boardHealth' = boardHealth
      BY <2>2 DEF ConfirmLocalWrite
    <3>3. clock <= ClockNoted
      BY <1>1
    <3>4. HoldsCovered' /\ Reading'
      BY <1>1, <3>1, <3>2, <3>3, AskCovers
    <3>5. QED
      BY <1>2, <3>4
  <2>3. ASSUME NEW c \in Cells, NEW k \in Requests, ReconcileNewerState(c, k)
        PROVE  HoldsCovered' /\ HoldsServed
    BY <1>1, <1>2, <2>3, AskCovers DEF ReconcileNewerState
  <2>4. ASSUME NEW p \in Polls, PollChanges(p) \/ ForcePoll(p)
        PROVE  HoldsCovered' /\ HoldsServed
    <3>1. clock' = clock + 1 /\ UNCHANGED <<holds, boardRun, reads, queued, boardHealth>>
      BY <2>4 DEF PollChanges, ForcePoll, StartPoll, boardVars, pageVars
    <3>2. QED
      BY <1>1, <3>1, QuietCovers
  <2>5. ASSUME NEW k \in Requests, NEW quiet \in BOOLEAN, ForceRefresh(k, quiet)
        PROVE  HoldsCovered' /\ HoldsServed
    BY <1>1, <1>2, <2>5, StartReadCovers DEF ForceRefresh, pageVars
  <2>6. QED
    BY <1>3, <2>1, <2>2, <2>3, <2>4, <2>5 DEF Callers
<1>4. CASE Callbacks
  <2>1. CASE Fire
    <3>1. queued.request \in Requests
      BY <2>1, TicketFields DEF Fire
    <3>2. QED
      BY <1>1, <1>2, <2>1, <3>1, StartReadCovers DEF Fire, pageVars
  <2>2. ASSUME NEW p \in Polls, PollAnswer(p)
        PROVE  HoldsCovered' /\ HoldsServed
    BY <1>1, <2>2, QuietCovers DEF PollAnswer, boardVars, pageVars
  <2>3. QED
    BY <1>4, <2>1, <2>2, AnswerCovers, ClearCovers DEF Callbacks
<1>5. CASE World
  <2>1. CASE Invalidate \/ GoOffline \/ ComeBack
    <3>1. boardRun' = NoOne /\ holds' = holds /\ clock' = clock /\ generation' # generation
      BY <2>1, TicketFields DEF Invalidate, GoOffline, ComeBack, DropInFlight, pageVars
    <3>2. QED
      BY <1>1, <3>1 DEF HoldsCovered, HoldsServed
  <2>2. CASE \/ \E c \in Cells : Change(c)
             \/ \E w \in Wires : Arrive(w) \/ Lose(w)
             \/ \E o \in Others : OtherRead(o)
    BY <1>1, <2>2, QuietCovers DEF Change, Arrive, Lose, OtherRead, boardVars, pageVars
  <2>3. QED
    BY <1>5, <2>1, <2>2 DEF World
<1>6. CASE UNCHANGED vars
  BY <1>1, <1>6, QuietCovers DEF vars, boardVars, pageVars
<1>7. QED
  BY <1>3, <1>4, <1>5, <1>6 DEF Next

\* However reads are queued, joined, forced or fail, and on any wire: the board goes
\* idle only when the read that follows each confirmation has been applied, or it
\* says that it failed.
THEOREM HoldsAreReadHolds == Spec => HoldsAreRead
<1>1. ASSUME Init PROVE HoldsCovered
  <2>1. boardRun = NoOne /\ clock = 0 /\ \A c \in Cells : holds[c].at = 0
    BY <1>1 DEF Init, NoHold
  <2>2. \A c \in Cells : holds[c].at <= clock
    <3>1. 0 <= 0
      OBVIOUS
    <3>2. QED
      BY <2>1, <3>1, Zenon
  <2>3. QED
    BY <2>1, <2>2 DEF HoldsCovered
<1>2. TypeOK /\ Coordinated /\ HoldsCovered /\ [Next]_vars => HoldsCovered' /\ [HoldsServed]_vars
  BY StepCovers
<1>3. Spec => []HoldsCovered
  BY <1>1, <1>2, Coordination, PTL DEF Spec
<1>4. QED
  BY <1>2, <1>3, Coordination, PTL DEF Spec, HoldsAreRead, HoldsServed
================================================================================
