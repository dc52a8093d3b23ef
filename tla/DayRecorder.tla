------------------------------ MODULE DayRecorder ------------------------------
(***************************************************************************)
(* The recorder of voice notes and phone calls: tours/day-recorder.js over *)
(* the device's note store, tours/day-store.js.                            *)
(*                                                                         *)
(* A take is one call of start(): it claims the note's capture lock, puts  *)
(* the note, asks for the microphone and then saves the audio it has so    *)
(* far with every chunk, until the recorder stops.  The lock belongs to    *)
(* the tab and is gone when the tab is.  The pages recover what a lost tab *)
(* left behind: every note listed as "recording" is finished by whoever    *)
(* gets its lock.  What runs between two awaits is one step; a write of    *)
(* the store may fail, which also stands for a session that was revoked.   *)
(***************************************************************************)
EXTENDS Naturals, Sequences, FiniteSets

CONSTANTS Tabs,      \* tabs that have the page open
          Notes,     \* note ids randomUUID() can mint
          Sizes,     \* sizes of a chunk of audio
          MaxBytes,  \* maxBytes
          NoTab, NoNote

ASSUME RecorderAssumption ==
  /\ NoTab \notin Tabs
  /\ NoNote \notin Notes
  /\ Sizes \subseteq Nat \ {0}
  /\ MaxBytes \in Nat \ {0}

VARIABLES
  row,     \* row[n]: the stored note
  owner,   \* owner[n]: the tab that holds the capture lock of n
  take,    \* take[n]: the state of the start() that made n
  active,  \* active[t]: the note of the recorder's active take
  fix      \* fix[n]: what recover(), holding the lock of n, is about to do

recorder == <<row, owner, take, active, fix>>

\* "absent" where the store has no row; the last five are what the phone page
\* makes of a row.  "recovered" is the interrupted flag as recover() sets it.
Statuses == {"absent", "recording", "local", "empty", "failed",
             "pending", "queued", "expired", "held", "transferred"}
NoRow == [status |-> "absent", audio |-> 0, recovered |-> FALSE]

NoTake == [tab |-> NoTab, phase |-> "none", stopping |-> FALSE, error |-> FALSE,
           bytes |-> 0, saved |-> 0, queue |-> <<>>]

\* start() awaits the lock, the put, the microphone; the recorder runs, has
\* stopped with its last events to come, waits for the pending saves; a take
\* that came to nothing is discarded.  "lost" with its tab.
Starting == {"claiming", "putting", "asking"}
Capturing == {"recording", "ending", "draining"}
Phases == {"none", "discarding", "done", "lost"} \cup Starting \cup Capturing

InitRecorder ==
  /\ row = [n \in Notes |-> NoRow]
  /\ owner = [n \in Notes |-> NoTab]
  /\ take = [n \in Notes |-> NoTake]
  /\ active = [t \in Tabs |-> NoNote]
  /\ fix = [n \in Notes |-> "none"]

-----------------------------------------------------------------------------
(* start(), and everything that stops a take.                              *)

\* What is left of a take that is over: nothing looks at the rest again.
Spent(n, phase) == [NoTake EXCEPT !.phase = phase, !.bytes = take[n].bytes]

\* The page's recorder no longer has n as its active take.
Freed(n) == [t \in Tabs |-> IF active[t] = n THEN NoNote ELSE active[t]]

\* stopState(): once.  A running recorder is told to stop and stays active
\* until it has; a take whose recorder does not run is only let go of.
Stopped(s) == [s EXCEPT !.stopping = TRUE, !.phase = IF @ = "recording" THEN "ending" ELSE @]
FreedByStop(n) ==
  IF take[n].stopping \/ take[n].phase = "recording" THEN active ELSE Freed(n)

Start(t, n) ==
  /\ active[t] = NoNote /\ take[n] = NoTake /\ row[n] = NoRow
  /\ take' = [take EXCEPT ![n] = [NoTake EXCEPT !.tab = t, !.phase = "claiming"]]
  /\ active' = [active EXCEPT ![t] = n]
  /\ UNCHANGED <<row, owner, fix>>

\* Is the take that resumes after an await still the one the page wants?
Wanted(n) == active[take[n].tab] = n /\ ~take[n].stopping

Claimed(n) ==
  /\ take[n].phase = "claiming" /\ owner[n] = NoTab
  /\ take' = [take EXCEPT ![n] = IF Wanted(n) THEN [@ EXCEPT !.phase = "putting"] ELSE Spent(n, "done")]
  /\ owner' = [owner EXCEPT ![n] = IF Wanted(n) THEN take[n].tab ELSE NoTab]
  /\ UNCHANGED <<row, active, fix>>

Put(n) ==
  /\ take[n].phase = "putting"
  /\ row' = [row EXCEPT ![n] = [NoRow EXCEPT !.status = "recording"]]
  /\ take' = [take EXCEPT ![n].phase = "asking"]
  /\ UNCHANGED <<owner, active, fix>>

\* Mutant: consent starts the recorder without a second look at the take.
GrantedMut(n) ==
  /\ take[n].phase = "asking"
  /\ take' = [take EXCEPT ![n].phase = "recording"]
  /\ UNCHANGED <<row, owner, active, fix>>

\* The microphone is granted; the take may have been stopped meanwhile.
Granted(n) ==
  /\ take[n].phase = "asking"
  /\ take' = [take EXCEPT ![n].phase = IF Wanted(n) THEN "recording" ELSE "discarding"]
  /\ UNCHANGED <<row, owner, active, fix>>

\* The put fails, the microphone is denied or the recorder does not start.
StartFails(n) ==
  /\ take[n].phase \in {"putting", "asking"}
  /\ take' = [take EXCEPT ![n].phase = "discarding"]
  /\ active' = Freed(n)
  /\ UNCHANGED <<row, owner, fix>>

\* The note of a discarded take is marked empty, if there is one and the
\* store takes it; the lock is given back in either case.
Discard(n) ==
  /\ take[n].phase = "discarding"
  /\ \/ row[n].status # "absent" /\ row' = [row EXCEPT ![n].status = "empty"]
     \/ row' = row
  /\ take' = [take EXCEPT ![n] = Spent(n, "done")]
  /\ owner' = [owner EXCEPT ![n] = NoTab]
  /\ UNCHANGED <<active, fix>>

-----------------------------------------------------------------------------
(* The recorder runs.                                                      *)

\* Mutant: a chunk that exceeds the cap stops the take and is kept.
ChunkMut(n, z) ==
  /\ take[n].phase \in {"recording", "ending"}
  /\ LET sum == take[n].bytes + z
         kept == [take[n] EXCEPT !.bytes = sum, !.queue = Append(@, sum)]
     IN /\ take' = [take EXCEPT ![n] = IF sum >= MaxBytes THEN Stopped(kept) ELSE kept]
        /\ active' = IF sum >= MaxBytes THEN FreedByStop(n) ELSE active
  /\ UNCHANGED <<row, owner, fix>>

\* ondataavailable: a chunk that would exceed the cap is dropped and stops the
\* take; one that reaches it is kept and stops it too.  Every chunk that is
\* kept queues a save of all the audio so far.
Chunk(n, z) ==
  /\ take[n].phase \in {"recording", "ending"}
  /\ LET sum == take[n].bytes + z
         kept == IF sum > MaxBytes THEN take[n]
                 ELSE [take[n] EXCEPT !.bytes = sum, !.queue = Append(@, sum)]
     IN /\ take' = [take EXCEPT ![n] = IF sum >= MaxBytes THEN Stopped(kept) ELSE kept]
        /\ active' = IF sum >= MaxBytes THEN FreedByStop(n) ELSE active
  /\ UNCHANGED <<row, owner, fix>>

Save(n) ==
  /\ take[n].phase \in Capturing /\ take[n].queue # <<>>
  /\ row' = [row EXCEPT ![n].audio = Head(take[n].queue)]
  /\ take' = [take EXCEPT ![n].saved = Head(take[n].queue), ![n].queue = Tail(@)]
  /\ UNCHANGED <<owner, active, fix>>

SaveFails(n) ==
  /\ take[n].phase \in Capturing /\ take[n].queue # <<>>
  /\ take' = [take EXCEPT ![n] = Stopped([take[n] EXCEPT !.error = TRUE, !.queue = Tail(take[n].queue)])]
  /\ active' = FreedByStop(n)
  /\ UNCHANGED <<row, owner, fix>>

\* The stop button, the length limit, a hidden page or an error of the recorder.
Stop(t) ==
  /\ active[t] # NoNote /\ ~take[active[t]].stopping
  /\ take' = [take EXCEPT ![active[t]] = Stopped(@)]
  /\ active' = FreedByStop(active[t])
  /\ UNCHANGED <<row, owner, fix>>

\* invalidate(): the page turns to something else; a recorder that runs stops.
Invalidate(t) ==
  /\ active[t] # NoNote
  /\ take' = [take EXCEPT ![active[t]] = Stopped(@)]
  /\ active' = [active EXCEPT ![t] = NoNote]
  /\ UNCHANGED <<row, owner, fix>>

\* The device takes the microphone away: the phone was locked.
MicEnds(n) ==
  /\ take[n].phase = "recording"
  /\ take' = [take EXCEPT ![n].phase = "ending"]
  /\ UNCHANGED <<row, owner, active, fix>>

Ended(n) ==
  /\ take[n].phase = "ending"
  /\ take' = [take EXCEPT ![n].phase = "draining"]
  /\ UNCHANGED <<row, owner, active, fix>>

\* Mutant: what was saved before a save failed counts.
VerdictMut(s) == IF s.saved > 0 THEN "local" ELSE IF s.error THEN "failed" ELSE "empty"

Verdict(s) == IF s.error THEN "failed" ELSE IF s.saved > 0 /\ s.saved = s.bytes THEN "local" ELSE "empty"

\* Mutant: a store that refuses the final patch keeps the lock.
CloseMut(n) ==
  /\ take[n].phase = "draining" /\ take[n].queue = <<>>
  /\ \/ /\ row' = [row EXCEPT ![n].status = Verdict(take[n])]
        /\ owner' = [owner EXCEPT ![n] = NoTab]
     \/ UNCHANGED <<row, owner>>
  /\ take' = [take EXCEPT ![n] = Spent(n, "done")]
  /\ active' = Freed(n)
  /\ UNCHANGED fix

\* onstop, after the pending saves: the row gets its verdict, if the store
\* takes it; the take is over in either case.
Close(n) ==
  /\ take[n].phase = "draining" /\ take[n].queue = <<>>
  /\ \/ row' = [row EXCEPT ![n].status = Verdict(take[n])]
     \/ row' = row
  /\ take' = [take EXCEPT ![n] = Spent(n, "done")]
  /\ active' = Freed(n)
  /\ owner' = [owner EXCEPT ![n] = NoTab]
  /\ UNCHANGED fix

\* A tab is closed or reloaded: its takes are lost, its locks are free.
Reload(t) ==
  /\ take' = [n \in Notes |-> IF take[n].tab = t /\ take[n].phase \notin {"done", "lost"}
                              THEN Spent(n, "lost") ELSE take[n]]
  /\ owner' = [n \in Notes |-> IF owner[n] = t THEN NoTab ELSE owner[n]]
  /\ fix' = [n \in Notes |-> IF owner[n] = t THEN "none" ELSE fix[n]]
  /\ active' = [active EXCEPT ![t] = NoNote]
  /\ UNCHANGED row

-----------------------------------------------------------------------------
(* recover(): a note that is still "recording" and whose lock is free.     *)

\* Mutant: without the lock, which pages in other tabs do not see.
RecoverLockMut(t, n) ==
  /\ row[n].status = "recording" /\ active[t] # n /\ fix[n] = "none"
  /\ owner' = [owner EXCEPT ![n] = t]
  /\ fix' = [fix EXCEPT ![n] = IF row[n].audio > 0 THEN "local" ELSE "empty"]
  /\ UNCHANGED <<row, take, active>>

\* The row is read under the lock; where it has a verdict by now, although an
\* older list said "recording", the lock is given back and nothing happens.
\* (A row with a storage error has its verdict already.)
RecoverLock(t, n) ==
  /\ row[n].status = "recording" /\ active[t] # n /\ owner[n] = NoTab
  /\ owner' = [owner EXCEPT ![n] = t]
  /\ fix' = [fix EXCEPT ![n] = IF row[n].audio > 0 THEN "local" ELSE "empty"]
  /\ UNCHANGED <<row, take, active>>

Release(n) ==
  /\ fix' = [fix EXCEPT ![n] = "none"]
  /\ owner' = [owner EXCEPT ![n] = NoTab]

RecoverPatch(n) ==
  /\ fix[n] # "none"
  /\ row' = [row EXCEPT ![n].status = fix[n], ![n].recovered = TRUE]
  /\ Release(n)
  /\ UNCHANGED <<take, active>>

RecoverFails(n) ==
  /\ fix[n] # "none"
  /\ Release(n)
  /\ UNCHANGED <<row, take, active>>

Recorder(n) ==
  \/ Claimed(n) \/ Put(n) \/ Granted(n) \/ StartFails(n) \/ Discard(n)
  \/ \E z \in Sizes : Chunk(n, z)
  \/ Save(n) \/ SaveFails(n) \/ MicEnds(n) \/ Ended(n) \/ Close(n)

Recovery(n) ==
  \/ \E t \in Tabs : RecoverLock(t, n)
  \/ RecoverPatch(n) \/ RecoverFails(n)

DayNext ==
  \/ \E n \in Notes : Recorder(n) \/ Recovery(n)
  \/ \E t \in Tabs, n \in Notes : Start(t, n)
  \/ \E t \in Tabs : Stop(t) \/ Invalidate(t) \/ Reload(t)

DaySpec == InitRecorder /\ [][DayNext]_recorder

-----------------------------------------------------------------------------
(* Properties.                                                             *)

RecorderTypeOK ==
  /\ row \in [Notes -> [status : Statuses, audio : 0 .. MaxBytes, recovered : BOOLEAN]]
  /\ owner \in [Notes -> Tabs \cup {NoTab}]
  /\ take \in [Notes -> [tab : Tabs \cup {NoTab}, phase : Phases, stopping : BOOLEAN,
                         error : BOOLEAN, bytes : 0 .. MaxBytes, saved : 0 .. MaxBytes,
                         queue : Seq(1 .. MaxBytes)]]
  /\ active \in [Tabs -> Notes \cup {NoNote}]
  /\ fix \in [Notes -> {"none", "local", "empty"}]

\* A microphone that runs has a Finish button: the take is the active one of
\* its page and nobody has asked it to stop.
RunningIsActive ==
  \A n \in Notes : take[n].phase = "recording" => active[take[n].tab] = n /\ ~take[n].stopping

\* While a take records or writes, its tab holds the note's lock and the row
\* says so: no tab finishes a recording that goes on in another.
LiveUntouched ==
  \A n \in Notes : take[n].phase \in Capturing =>
    owner[n] = take[n].tab /\ fix[n] = "none" /\ row[n].status = "recording"

\* A finished note that is offered as saved holds every chunk the recorder
\* kept, unless it is marked as interrupted.
SavedMeansStored ==
  \A n \in Notes : take[n] # NoTake /\ row[n].status = "local" /\ ~row[n].recovered =>
    row[n].audio = take[n].bytes /\ row[n].audio > 0

\* Nothing stands between a note that was left behind and its recovery: a page has
\* its lock and finishes it, or the lock is free and no page takes it for its own.
AbandonedIsFree ==
  \A n \in Notes : row[n].status = "recording" /\ take[n].phase \in {"lost", "done"} =>
    \/ owner[n] # NoTab /\ fix[n] # "none"
    \/ owner[n] = NoTab /\ fix[n] = "none" /\ \A t \in Tabs : active[t] # n

\* A note that was left behind as "recording", by a lost tab or by a store
\* that refused its verdict, is finished by some page.
AbandonedIsSettled ==
  \A n \in Notes :
    row[n].status = "recording" /\ take[n].phase \in {"lost", "done"} ~> row[n].status # "recording"

\* A page lists the notes again and again, and neither reloads nor a failing
\* store come between the same two steps for ever.
Recovers ==
  \A n \in Notes : WF_recorder(\E t \in Tabs : RecoverLock(t, n)) /\ SF_recorder(RecoverPatch(n))
================================================================================
