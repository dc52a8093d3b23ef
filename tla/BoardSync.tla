------------------------------- MODULE BoardSync -------------------------------
(***************************************************************************)
(* The board coordinator of js/board-sync.mjs, with the calls the Deal     *)
(* Room page (js/app.js) makes on it.                                      *)
(*                                                                         *)
(* Every call of refreshBoard is a request.  A request starts a read, or   *)
(* becomes the one queued follow-up, or waits on the follow-up another     *)
(* request queued; a read is named after the request that started it.  A   *)
(* confirmed write is painted and held, so that a read issued before the   *)
(* confirmation cannot put the older value back.  Going offline abandons   *)
(* whatever is in flight.                                                  *)
(*                                                                         *)
(* Values are the numbers of the changes that set them: truth[c] counts    *)
(* the changes of cell c in the record.  With Shared, a board read travels *)
(* the way js/live-client.js sends it: an identical read that is still in  *)
(* flight, of this page or of another reader on it, is joined.             *)
(***************************************************************************)
EXTENDS Naturals

CONSTANTS Cells,       \* cells of the board: one field of one deal
          Requests,    \* calls of refreshBoard
          Polls,       \* calls of pollChanges that start a read
          Others,      \* board reads of other components on the page
          Shared,      \* are identical reads in flight shared?
          MaxChanges,  \* bound on the changes in the record
          MaxGeneration, \* bound on the invalidations of what is in flight
          NoOne

Wires == Requests \cup Others

ASSUME BoardAssumption ==
  /\ Shared \in BOOLEAN
  /\ NoOne \notin Wires \cup Polls
  /\ MaxChanges \in Nat /\ MaxGeneration \in Nat

Healths == {"unread", "ok", "failed", "render_failed"}
Outcomes == {"none", "applied", "superseded", "read_failed", "apply_failed", "rehomed"}

VARIABLES
  truth, own, shown,   \* as in BoardView
  events,              \* how many changes the record's feed holds
  holds,               \* holds[c]: the held value of c, and the clock when it was noted
  clock, generation,
  boardSeq, boardRun,  \* the newest ticket id; the request whose read is open
  queued,              \* the queued follow-up: its request, and the run it is behind
  foreground,          \* the ticket id a person is waiting on, 0 for none
  reads,               \* reads[k]: the read request k started
  awaits, outcome,     \* what the caller of request k awaits, and what it was told
  floor,               \* floor[k]: the record as it stood when k was asked
  online, boardHealth, feedHealth,
  pollSeq, pollRun, polls, cursor,
  wires, flight        \* the wire of board reads, and the one that can be joined

pageVars == <<own, shown, holds>>
boardVars == <<boardSeq, boardRun, queued, foreground, reads, awaits, outcome, floor, boardHealth>>
feedVars == <<feedHealth, pollSeq, pollRun, polls, cursor>>
recordVars == <<truth, events>>
wireVars == <<wires, flight>>
vars == <<pageVars, boardVars, feedVars, recordVars, wireVars, clock, generation, online>>

NoHold == [value |-> 0, at |-> 0]
NoRead == [stage |-> "none", id |-> 0, generation |-> 0, started_at |-> 0, wire |-> NoOne]
NoPoll == [stage |-> "none", id |-> 0, generation |-> 0, cursor |-> 0]
NoWire == [stage |-> "none", data |-> [c \in Cells |-> 0]]
Nothing == [request |-> NoOne, behind |-> NoOne, quiet |-> TRUE]

TypeOK ==
  /\ truth \in [Cells -> Nat] /\ own \in [Cells -> Nat] /\ shown \in [Cells -> Nat]
  /\ events \in Nat
  /\ holds \in [Cells -> [value : Nat, at : Nat]]
  /\ clock \in Nat /\ generation \in Nat /\ boardSeq \in Nat /\ foreground \in Nat
  /\ boardRun \in Requests \cup {NoOne}
  /\ queued \in [request : Requests \cup {NoOne}, behind : Requests \cup {NoOne}, quiet : BOOLEAN]
  /\ queued # Nothing => queued.request \in Requests /\ queued.behind \in Requests
  /\ reads \in [Requests ->
       [stage : {"none", "open", "settled", "cleared"}, id : Nat, generation : Nat,
        started_at : Nat, wire : Wires \cup {NoOne}]]
  /\ \A r \in Requests : reads[r].stage # "none" => reads[r].wire \in Wires
  /\ awaits \in [Requests -> Requests \cup {NoOne}]
  /\ outcome \in [Requests -> Outcomes]
  /\ floor \in [Requests -> [Cells -> Nat]]
  /\ online \in BOOLEAN /\ boardHealth \in Healths
  /\ feedHealth \in Healths \ {"render_failed"}
  /\ pollSeq \in Nat /\ pollRun \in Polls \cup {NoOne} /\ cursor \in Nat
  /\ polls \in [Polls -> [stage : {"none", "open", "settled"}, id : Nat,
                          generation : Nat, cursor : Nat]]
  /\ wires \in [Wires -> [stage : {"none", "sent", "arrived", "lost"}, data : [Cells -> Nat]]]
  /\ flight \in Wires \cup {NoOne}

Init ==
  /\ truth = [c \in Cells |-> 0] /\ own = [c \in Cells |-> 0] /\ shown = [c \in Cells |-> 0]
  /\ events = 0
  /\ holds = [c \in Cells |-> NoHold]
  /\ clock = 0 /\ generation = 1 /\ boardSeq = 0 /\ foreground = 0
  /\ boardRun = NoOne /\ queued = Nothing
  /\ reads = [k \in Requests |-> NoRead]
  /\ awaits = [k \in Requests |-> NoOne]
  /\ outcome = [k \in Requests |-> "none"]
  /\ floor = [k \in Requests |-> truth]
  /\ online = TRUE /\ boardHealth = "unread" /\ feedHealth = "unread"
  /\ pollSeq = 0 /\ pollRun = NoOne /\ cursor = 0
  /\ polls = [p \in Polls |-> NoPoll]
  /\ wires = [w \in Wires |-> NoWire] /\ flight = NoOne

-----------------------------------------------------------------------------
(* Starting a read.                                                        *)

Answered(r) == wires[reads[r].wire].stage \in {"arrived", "lost"}

\* Promise callbacks that are due: they run before the next event or answer.
Settling ==
  \/ \E r \in Requests : reads[r].stage = "open" /\ Answered(r)
  \/ \E r \in Requests : reads[r].stage = "settled"
  \/ queued # Nothing /\ reads[queued.behind].stage = "cleared"

\* Mutant: only an invalidation makes a read stale, not a newer read.
CurrentMut(r) == reads[r].generation = generation

\* Only the newest read, issued in the present generation, may touch the page.
Current(r) == reads[r].generation = generation /\ reads[r].id = boardSeq

\* The wire a board read issued now would travel on (rpc of live-client.js).
WireFor(k) == IF Shared /\ flight # NoOne THEN flight ELSE k

\* An answer holds at least what the record held when its wire was sent.
Send(k) ==
  IF WireFor(k) = k
  THEN /\ wires' = [wires EXCEPT ![k] = [stage |-> "sent", data |-> truth]]
       /\ flight' = IF Shared THEN k ELSE flight
  ELSE UNCHANGED wireVars

\* startBoardRead, for request k; seq, now and waiting are boardSeq, clock and
\* foreground as the caller leaves them.
StartRead(k, quiet, seq, now, waiting) ==
  /\ boardSeq' = seq + 1
  /\ clock' = now + 1
  /\ reads' = [reads EXCEPT ![k] =
                 [stage |-> "open", id |-> seq + 1, generation |-> generation,
                  started_at |-> now + 1, wire |-> WireFor(k)]]
  /\ foreground' = IF quiet THEN waiting ELSE seq + 1
  /\ boardRun' = k
  /\ Send(k)

Unasked(k) == awaits[k] = NoOne

NoteAsk(k, e) ==
  /\ awaits' = [awaits EXCEPT ![k] = e]
  /\ floor' = [floor EXCEPT ![k] = truth]

\* Mutant: a request that finds a read open joins it.
JoinOpenRunMut(k, quiet, now) ==
  /\ queued = Nothing /\ boardRun # NoOne
  /\ NoteAsk(k, boardRun)
  /\ clock' = now
  /\ UNCHANGED <<boardSeq, boardRun, queued, foreground, reads, wireVars>>

\* A follow-up is queued already: every caller waits on that one.
JoinQueued(k, quiet, now) ==
  /\ queued # Nothing
  /\ NoteAsk(k, queued.request)
  /\ clock' = now
  /\ UNCHANGED <<boardSeq, boardRun, queued, foreground, reads, wireVars>>

StartNow(k, quiet, now) ==
  /\ queued = Nothing /\ boardRun = NoOne
  /\ NoteAsk(k, k)
  /\ StartRead(k, quiet, boardSeq, now, foreground)
  /\ UNCHANGED queued

QueueUp(k, quiet, now) ==
  /\ queued = Nothing /\ boardRun # NoOne
  /\ NoteAsk(k, k)
  /\ queued' = [request |-> k, behind |-> boardRun, quiet |-> quiet]
  /\ clock' = now
  /\ UNCHANGED <<boardSeq, boardRun, foreground, reads, wireVars>>

\* refreshBoard without force
Ask(k, quiet, now) ==
  /\ Unasked(k)
  /\ JoinQueued(k, quiet, now) \/ StartNow(k, quiet, now) \/ QueueUp(k, quiet, now)

Refresh(k, quiet) ==
  /\ Ask(k, quiet, clock)
  /\ UNCHANGED <<pageVars, outcome, boardHealth, feedVars, recordVars, generation, online>>

\* boardSeq and foreground once the open read, if any, is abandoned.
SeqAbandoned == IF boardRun = NoOne THEN boardSeq ELSE boardSeq + 1

ForegroundAbandoned == IF boardRun = NoOne THEN foreground ELSE 0

\* refreshBoard with force: the open read is abandoned, and whoever waits on the
\* queued follow-up is handed on to the read that replaces both.
ForceRefresh(k, quiet) ==
  /\ Unasked(k)
  /\ awaits' = [j \in Requests |->
                  IF j = k \/ (queued # Nothing /\ awaits[j] = queued.request)
                  THEN k ELSE awaits[j]]
  /\ floor' = [floor EXCEPT ![k] = truth]
  /\ queued' = Nothing
  /\ StartRead(k, quiet, SeqAbandoned, clock, ForegroundAbandoned)
  /\ UNCHANGED <<pageVars, outcome, boardHealth, feedVars, recordVars, generation, online>>

-----------------------------------------------------------------------------
(* A read answers.                                                         *)

Tell(r, what) ==
  outcome' = [k \in Requests |-> IF awaits[k] = r THEN what ELSE outcome[k]]

\* mergeBoardSnapshot: a value held since the read was issued stands.
Merge(r) ==
  [c \in Cells |-> IF holds[c].at > reads[r].started_at
                   THEN holds[c].value
                   ELSE wires[reads[r].wire].data[c]]

\* release of createHolds
Release(r) ==
  [c \in Cells |-> IF holds[c].at <= reads[r].started_at THEN NoHold ELSE holds[c]]

Superseded(r) ==
  /\ ~ Current(r)
  /\ Tell(r, "superseded")
  /\ UNCHANGED <<shown, holds, boardHealth>>

\* Mutant: the error itself is noted as the board's health.
ReadFailedMut(r) ==
  /\ Current(r) /\ wires[reads[r].wire].stage = "lost"
  /\ boardHealth' = wires[reads[r].wire].stage
  /\ Tell(r, "read_failed")
  /\ UNCHANGED <<shown, holds>>

ReadFailed(r) ==
  /\ Current(r) /\ wires[reads[r].wire].stage = "lost"
  /\ boardHealth' = "failed"
  /\ Tell(r, "read_failed")
  /\ UNCHANGED <<shown, holds>>

\* applyBoard throws; the page may have taken the rows before it threw.
ApplyFailed(r) ==
  /\ Current(r) /\ wires[reads[r].wire].stage = "arrived"
  /\ shown' \in {shown, Merge(r)}
  /\ boardHealth' = "render_failed"
  /\ Tell(r, "apply_failed")
  /\ UNCHANGED holds

Applied(r) ==
  /\ Current(r) /\ wires[reads[r].wire].stage = "arrived"
  /\ shown' = Merge(r)
  /\ holds' = Release(r)
  /\ boardHealth' = "ok"
  /\ Tell(r, "applied")

Answer(r) ==
  /\ reads[r].stage = "open" /\ Answered(r)
  /\ reads' = [reads EXCEPT ![r].stage = "settled"]
  /\ foreground' = IF foreground = reads[r].id THEN 0 ELSE foreground
  /\ Superseded(r) \/ ReadFailed(r) \/ Applied(r) \/ ApplyFailed(r)
  /\ UNCHANGED <<own, boardSeq, boardRun, queued, awaits, floor, feedVars, recordVars,
                 wireVars, clock, generation, online>>

\* Mutant: whichever run ends, the open one is forgotten.
ClearMut(r) ==
  /\ reads[r].stage = "settled"
  /\ reads' = [reads EXCEPT ![r].stage = "cleared"]
  /\ boardRun' = NoOne
  /\ UNCHANGED <<pageVars, boardSeq, queued, foreground, awaits, outcome, floor, boardHealth,
                 feedVars, recordVars, wireVars, clock, generation, online>>

\* The callback behind the answer: the run stops being the open one.
Clear(r) ==
  /\ reads[r].stage = "settled"
  /\ reads' = [reads EXCEPT ![r].stage = "cleared"]
  /\ boardRun' = IF boardRun = r THEN NoOne ELSE boardRun
  /\ UNCHANGED <<pageVars, boardSeq, queued, foreground, awaits, outcome, floor, boardHealth,
                 feedVars, recordVars, wireVars, clock, generation, online>>

\* The callback behind that: the queued follow-up starts.
Fire ==
  /\ queued # Nothing /\ reads[queued.behind].stage = "cleared"
  /\ queued' = Nothing
  /\ StartRead(queued.request, queued.quiet, boardSeq, clock, foreground)
  /\ UNCHANGED <<pageVars, awaits, outcome, floor, boardHealth, feedVars, recordVars,
                 generation, online>>

-----------------------------------------------------------------------------
(* A write of this page is confirmed (confirmLocalWrite of app.js).        *)

ClockNoted == clock + 1

\* The value is painted and held, and a read is asked for, in one turn.
ConfirmLocalWrite(c, k) ==
  /\ ~ Settling
  /\ own[c] # 0 /\ shown[c] <= own[c]
  /\ shown' = [shown EXCEPT ![c] = own[c]]
  /\ holds' = [holds EXCEPT ![c] = [value |-> own[c], at |-> ClockNoted]]
  /\ own' = [own EXCEPT ![c] = 0]
  /\ Ask(k, TRUE, ClockNoted)
  /\ UNCHANGED <<outcome, boardHealth, feedVars, recordVars, generation, online>>

\* The page has seen something newer than its own change: it only asks
\* (reconcileNewerState of app.js).
ReconcileNewerState(c, k) ==
  /\ ~ Settling
  /\ own[c] # 0 /\ own[c] < truth[c]
  /\ own' = [own EXCEPT ![c] = 0]
  /\ Ask(k, TRUE, clock)
  /\ UNCHANGED <<shown, holds, outcome, boardHealth, feedVars, recordVars, generation, online>>

-----------------------------------------------------------------------------
(* The network goes and comes back.                                        *)

\* Mutant: a cancelled follow-up answers nobody.
CancelledMut == outcome

\* cancelQueued: the callers of the queued follow-up are answered at once.
Cancelled ==
  [k \in Requests |-> IF queued # Nothing /\ awaits[k] = queued.request
                      THEN "rehomed" ELSE outcome[k]]

\* invalidate, and the part of setOnline that is the same.
DropInFlight ==
  /\ ~ Settling
  /\ generation < MaxGeneration
  /\ generation' = generation + 1
  /\ queued' = Nothing /\ outcome' = Cancelled
  /\ boardSeq' = SeqAbandoned /\ boardRun' = NoOne /\ foreground' = ForegroundAbandoned
  /\ pollSeq' = IF pollRun = NoOne THEN pollSeq ELSE pollSeq + 1
  /\ pollRun' = NoOne
  /\ UNCHANGED <<pageVars, reads, awaits, floor, polls, cursor, recordVars, wireVars, clock>>

Invalidate ==
  /\ DropInFlight
  /\ UNCHANGED <<online, boardHealth, feedHealth>>

GoOffline ==
  /\ online /\ online' = FALSE
  /\ boardHealth' = "failed" /\ feedHealth' = "failed"
  /\ DropInFlight

ComeBack ==
  /\ ~ online /\ online' = TRUE
  /\ DropInFlight
  /\ UNCHANGED <<boardHealth, feedHealth>>

-----------------------------------------------------------------------------
(* The change feed (pollChanges).                                          *)

StartPoll(p, seq) ==
  /\ polls[p].stage = "none"
  /\ pollSeq' = seq + 1 /\ clock' = clock + 1 /\ pollRun' = p
  /\ polls' = [polls EXCEPT ![p] = [stage |-> "open", id |-> seq + 1,
                                    generation |-> generation, cursor |-> cursor]]
  /\ UNCHANGED <<pageVars, boardVars, feedHealth, cursor, recordVars, wireVars,
                 generation, online>>

\* A poll while one is open is skipped, unless it is forced.
PollChanges(p) == pollRun = NoOne /\ StartPoll(p, pollSeq)

ForcePoll(p) == pollRun # NoOne /\ StartPoll(p, pollSeq + 1)

\* Mutant: the answer of an abandoned poll still moves the cursor.
PollCurrentMut(p) == polls[p].generation = generation

PollCurrent(p) == polls[p].generation = generation /\ polls[p].id = pollSeq

\* The page ends at event `last`.  The run is cleared in the same turn.
PollAnswer(p) ==
  /\ ~ Settling
  /\ polls[p].stage = "open"
  /\ polls' = [polls EXCEPT ![p].stage = "settled"]
  /\ pollRun' = IF pollRun = p THEN NoOne ELSE pollRun
  /\ \/ ~ PollCurrent(p) /\ UNCHANGED <<cursor, feedHealth>>
     \/ PollCurrent(p) /\ feedHealth' = "failed" /\ UNCHANGED cursor
     \/ /\ PollCurrent(p)
        /\ cursor' \in polls[p].cursor .. events
        /\ feedHealth' = "ok"
  /\ UNCHANGED <<pageVars, boardVars, pollSeq, recordVars, wireVars, clock, generation, online>>

-----------------------------------------------------------------------------
(* The record and the wire.                                                *)

\* A partner, or this page, changes cell c.
Change(c) ==
  /\ events < MaxChanges
  /\ truth' = [truth EXCEPT ![c] = @ + 1]
  /\ events' = events + 1
  /\ \/ UNCHANGED own
     \/ own[c] = 0 /\ own' = [own EXCEPT ![c] = truth[c] + 1]
  /\ UNCHANGED <<shown, holds, boardVars, feedVars, wireVars, clock, generation, online>>

Snapshots(w) ==
  {d \in [Cells -> 0..MaxChanges] : \A c \in Cells : wires[w].data[c] <= d[c] /\ d[c] <= truth[c]}

\* The board was read somewhere between the request and the answer.
Arrive(w) ==
  /\ ~ Settling
  /\ wires[w].stage = "sent"
  /\ \E d \in Snapshots(w) : wires' = [wires EXCEPT ![w] = [stage |-> "arrived", data |-> d]]
  /\ flight' = IF flight = w THEN NoOne ELSE flight
  /\ UNCHANGED <<pageVars, boardVars, feedVars, recordVars, clock, generation, online>>

\* An error, or the ten-second deadline of a read.
Lose(w) ==
  /\ ~ Settling
  /\ wires[w].stage = "sent"
  /\ wires' = [wires EXCEPT ![w].stage = "lost"]
  /\ flight' = IF flight = w THEN NoOne ELSE flight
  /\ UNCHANGED <<pageVars, boardVars, feedVars, recordVars, clock, generation, online>>

\* Another component of the page reads the same board.
OtherRead(o) ==
  /\ Shared /\ flight = NoOne
  /\ wires[o].stage = "none"
  /\ Send(o)
  /\ UNCHANGED <<pageVars, boardVars, feedVars, recordVars, clock, generation, online>>

-----------------------------------------------------------------------------
Callers ==
  \/ \E k \in Requests, quiet \in BOOLEAN : Refresh(k, quiet) \/ ForceRefresh(k, quiet)
  \/ \E c \in Cells, k \in Requests : ConfirmLocalWrite(c, k) \/ ReconcileNewerState(c, k)
  \/ \E p \in Polls : PollChanges(p) \/ ForcePoll(p)

Callbacks ==
  \/ \E r \in Requests : Answer(r) \/ Clear(r)
  \/ Fire
  \/ \E p \in Polls : PollAnswer(p)

World ==
  \/ Invalidate \/ GoOffline \/ ComeBack
  \/ \E c \in Cells : Change(c)
  \/ \E w \in Wires : Arrive(w) \/ Lose(w)
  \/ \E o \in Others : OtherRead(o)

Next == Callers \/ Callbacks \/ World

\* Promise callbacks run, and every request settles within its deadline.
Fairness ==
  /\ \A r \in Requests : WF_vars(Answer(r)) /\ WF_vars(Clear(r))
  /\ WF_vars(Fire)
  /\ \A w \in Wires : WF_vars(Arrive(w) \/ Lose(w))

Spec == Init /\ [][Next]_vars /\ Fairness

-----------------------------------------------------------------------------
(* Properties.                                                             *)

\* The board never goes back to an older value: not when a read that was open
\* before a write was confirmed answers after it, nor when reads overtake one
\* another or are abandoned.
NeverBackwards == [][\A c \in Cells : shown[c] <= shown'[c]]_vars

\* The board follows BoardView: it shows what the record holds, its own changes
\* as soon as they are confirmed, and never an older value again.
View == INSTANCE BoardView
ShowsBoardView == View!Spec

\* A caller told that its refresh was applied sees everything the record held
\* when it asked, however its request was queued, joined or handed on.
FreshAnswers ==
  \A k \in Requests : outcome[k] = "applied" =>
    \A c \in Cells : floor[k][c] <= wires[reads[awaits[k]].wire].data[c]

Live(r) == reads[r].stage = "open" /\ Current(r)

\* The coordinator knows the one read that may still touch the page: no other
\* open read can, and the run it tracks was not forgotten or overtaken.
OneLiveRead ==
  /\ \A r \in Requests : Live(r) => boardRun = r
  /\ boardRun # NoOne =>
       Current(boardRun) /\ reads[boardRun].stage \in {"open", "settled"}

\* A read in progress is only ever given up on purpose: by a forced read or an
\* invalidation, never by a request that slips in between two callbacks.
NoOvertaking ==
  [][\A r \in Requests : Live(r) /\ reads'[r].stage = "open" /\ ~ Current(r)' =>
       \/ generation' # generation
       \/ \E k \in Requests, quiet \in BOOLEAN : ForceRefresh(k, quiet)]_vars

\* A badge that says "syncing" waits for a read that is really open and whose
\* answer will count.
SpinnerIsReal ==
  foreground # 0 => \E r \in Requests : boardRun = r /\ Live(r) /\ reads[r].id = foreground

\* Nobody waits for nothing: a caller without an answer waits for a read that is
\* open, or for the queued follow-up of the run that is about to end.
NoOneStranded ==
  \A k \in Requests : awaits[k] # NoOne /\ outcome[k] = "none" =>
    \/ reads[awaits[k]].stage = "open"
    \/ /\ queued # Nothing /\ awaits[k] = queued.request
       /\ boardRun = queued.behind \/ reads[queued.behind].stage = "cleared"

\* Every caller of refreshBoard is answered.
CallersAnswered == \A k \in Requests : awaits[k] # NoOne ~> outcome[k] # "none"

Reading == boardRun # NoOne \/ queued # Nothing

\* A hold ends: a board that is reading does not go idle with the hold still in
\* place, unless what is in flight is dropped or the board reports a failure.
HoldsEnd ==
  \A c \in Cells, g \in 1..MaxGeneration :
    holds[c].at # 0 /\ generation = g /\ Reading
      ~> holds[c].at = 0 \/ generation # g \/ boardHealth \in {"failed", "render_failed"}

\* The board does not stop reading with a hold still in place: the read that was
\* sent after the confirmation has released it, or the board reports a failure, or
\* what was in flight was dropped.
HoldsAreRead ==
  [][\A c \in Cells : holds[c].at # 0 /\ holds'[c] = holds[c] /\ generation' = generation
                        /\ Reading /\ ~ Reading'
       => boardHealth' \in {"failed", "render_failed"}]_vars

\* The pages of the change feed join: a page is taken only where the one before
\* it ended, whichever polls were abandoned, so no event is skipped or repeated.
FeedInOrder ==
  [][cursor' # cursor =>
       \E p \in Polls : /\ polls[p].stage = "open" /\ polls'[p].stage = "settled"
                        /\ polls[p].cursor = cursor /\ cursor < cursor']_vars
================================================================================
