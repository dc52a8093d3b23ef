--------------------------- MODULE DayRecorderProofs ---------------------------
(***************************************************************************)
(* Theorems about DayRecorder, for any tabs, notes, chunks and cap.        *)
(*                                                                         *)
(* Every action but Reload works on one note: it replaces the note's row,  *)
(* lock, take and recovery, and may free its tab.  Fits says which four of *)
(* these go together; LEMMA OneNote lifts it to the whole recorder.        *)
(***************************************************************************)
EXTENDS DayRecorder, SequenceTheorems, TLAPS

Rows == [status : Statuses, audio : 0 .. MaxBytes, recovered : BOOLEAN]
Takes == [tab : Tabs \cup {NoTab}, phase : Phases, stopping : BOOLEAN, error : BOOLEAN,
          bytes : 0 .. MaxBytes, saved : 0 .. MaxBytes, queue : Seq(1 .. MaxBytes)]

\* A take in one of these phases holds the lock of its note.
Locking == {"putting", "asking", "discarding"} \cup Capturing

\* The row, the lock, the take and the recovery of one note.
Fits(r, o, k, f) ==
  /\ r.status = "absent" => r.audio = 0
  /\ k.phase = "none" => k = NoTake /\ r.status # "recording"
  /\ k.phase \in Starting => k.bytes = 0 /\ k.saved = 0 /\ k.queue = <<>>
  /\ k.phase \in {"claiming"} \cup Locking => k.tab \in Tabs
  /\ k.phase \in {"claiming", "putting"} => r = NoRow
  /\ k.phase \in {"asking"} \cup Capturing => r.status = "recording" /\ r.audio = k.saved
  /\ k.phase = "discarding" => r.status \in {"absent", "recording"}
  /\ k.phase \in Locking => o = k.tab /\ f = "none"
  /\ f # "none" => r.status = "recording" /\ k.phase \in {"lost", "done"} /\ o # NoTab
  /\ o # NoTab => k.phase \in Locking \/ f # "none"
  /\ k.phase # "none" /\ r.status = "local" /\ ~r.recovered =>
       k.phase = "done" /\ r.audio = k.bytes /\ r.audio > 0

Visible(n) == take[n].phase = "recording" => active[take[n].tab] = n /\ ~take[n].stopping

RecInv ==
  /\ RecorderTypeOK
  /\ \A t \in Tabs : active[t] # NoNote => take[active[t]].phase # "none"
  /\ \A n \in Notes : Fits(row[n], owner[n], take[n], fix[n]) /\ Visible(n)

\* A row that is neither absent nor being recorded; a step that touches such a
\* row leaves its audio, or removes it.
Settled(n) == row[n].status \notin {"absent", "recording"}
RowsKeep == \A n \in Notes : Settled(n) => Settled(n)' /\ row'[n].audio = row[n].audio

-----------------------------------------------------------------------------

\* A step that is about one note, and what it may do to the active takes.
Changes(n, r, o, k, f) ==
  /\ row' = [row EXCEPT ![n] = r]
  /\ owner' = [owner EXCEPT ![n] = o]
  /\ take' = [take EXCEPT ![n] = k]
  /\ fix' = [fix EXCEPT ![n] = f]

Activates(n) ==
  /\ active' \in [Tabs -> Notes \cup {NoNote}]
  /\ \A t \in Tabs : active'[t] = active[t] \/ (active[t] \in {n, NoNote} /\ active'[t] \in {n, NoNote})

LEMMA OneNote ==
  ASSUME RecInv, NEW n \in Notes, NEW r \in Rows, NEW o \in Tabs \cup {NoTab}, NEW k \in Takes,
         NEW f \in {"none", "local", "empty"},
         Changes(n, r, o, k, f), Activates(n), Fits(r, o, k, f),
         k.phase = "recording" => active'[k.tab] = n /\ ~k.stopping,
         k.phase = "none" => take[n].phase = "none" /\ active' = active
  PROVE  RecInv'
PROOF
  <1>2. row \in [Notes -> Rows] /\ take \in [Notes -> Takes]
        /\ owner \in [Notes -> Tabs \cup {NoTab}] /\ fix \in [Notes -> {"none", "local", "empty"}]
        /\ active \in [Tabs -> Notes \cup {NoNote}]
    BY DEF RecInv, RecorderTypeOK, Rows, Takes
  <1>1. RecorderTypeOK'
    <2>1. row' \in [Notes -> Rows] /\ take' \in [Notes -> Takes]
          /\ owner' \in [Notes -> Tabs \cup {NoTab}] /\ fix' \in [Notes -> {"none", "local", "empty"}]
          /\ active' \in [Tabs -> Notes \cup {NoNote}]
      BY <1>2 DEF Changes, Activates
    <2> QED BY <2>1 DEF RecorderTypeOK, Rows, Takes
  <1>3. ASSUME NEW m \in Notes
        PROVE  (Fits(row[m], owner[m], take[m], fix[m]) /\ Visible(m))'
    <2>1. CASE m = n
      <3>1. row'[m] = r /\ owner'[m] = o /\ take'[m] = k /\ fix'[m] = f
        BY <1>2, <2>1 DEF Changes
      <3> QED BY <2>1, <3>1 DEF Visible
    <2>2. CASE m # n
      <3>1. row'[m] = row[m] /\ owner'[m] = owner[m] /\ take'[m] = take[m] /\ fix'[m] = fix[m]
        BY <1>2, <2>2 DEF Changes
      <3>2. Fits(row[m], owner[m], take[m], fix[m]) /\ Visible(m)
        BY DEF RecInv
      <3>3. take[m].phase = "recording" => take[m].tab \in Tabs
        BY <3>2 DEF Fits, Locking, Capturing
      <3>4. Visible(m)'
        BY <2>2, <3>1, <3>2, <3>3, RecorderAssumption DEF Visible, Activates
      <3> QED BY <3>1, <3>2, <3>4
    <2> QED BY <2>1, <2>2
  <1>4. ASSUME NEW t \in Tabs, active'[t] # NoNote
        PROVE  take'[active'[t]].phase # "none"
    <2>1. CASE active'[t] = n
      <3>1. take'[n] = k
        BY <1>2 DEF Changes
      <3>2. active' = active => take[n].phase # "none"
        BY <1>4, <2>1 DEF RecInv
      <3> QED BY <2>1, <3>1, <3>2
    <2>2. CASE active'[t] # n
      <3>1. active'[t] = active[t] /\ active'[t] \in Notes
        BY <1>2, <1>4, <2>2 DEF Activates
      <3>2. take'[active[t]] = take[active[t]]
        BY <1>2, <2>2, <3>1 DEF Changes
      <3> QED BY <1>4, <3>1, <3>2 DEF RecInv
    <2> QED BY <2>1, <2>2
  <1> QED BY <1>1, <1>3, <1>4 DEF RecInv

\* What is known of the note an action is about.
LEMMA NoteTyped ==
  ASSUME RecInv, NEW n \in Notes
  PROVE  /\ row[n] \in Rows /\ take[n] \in Takes /\ owner[n] \in Tabs \cup {NoTab}
         /\ fix[n] \in {"none", "local", "empty"} /\ active \in [Tabs -> Notes \cup {NoNote}]
         /\ Fits(row[n], owner[n], take[n], fix[n]) /\ Visible(n)
         /\ row = [row EXCEPT ![n] = row[n]] /\ take = [take EXCEPT ![n] = take[n]]
         /\ owner = [owner EXCEPT ![n] = owner[n]] /\ fix = [fix EXCEPT ![n] = fix[n]]
BY DEF RecInv, RecorderTypeOK, Rows, Takes

LEMMA FreedActive ==
  ASSUME RecInv, NEW n \in Notes, active' \in {active, Freed(n), FreedByStop(n)}
  PROVE  Activates(n)
BY DEF RecInv, RecorderTypeOK, Freed, FreedByStop, Activates

LEMMA NoTakeTyped == NoTake \in Takes /\ NoRow \in Rows
PROOF
  <1>1. 0 \in 0 .. MaxBytes
    BY RecorderAssumption
  <1>2. <<>> \in Seq(1 .. MaxBytes)
    OBVIOUS
  <1> QED BY <1>1, <1>2 DEF NoTake, Takes, NoRow, Rows, Phases, Statuses

LEMMA SpentTyped ==
  ASSUME NEW n \in Notes, take[n] \in Takes, NEW p \in Phases
  PROVE  /\ Spent(n, p) \in Takes /\ Spent(n, p).phase = p /\ Spent(n, p).bytes = take[n].bytes
BY NoTakeTyped DEF Spent, Takes, NoTake

LEMMA StoppedTyped ==
  ASSUME NEW k \in Takes
  PROVE  /\ Stopped(k) \in Takes /\ Stopped(k).stopping /\ Stopped(k).phase # "recording"
         /\ Stopped(k).phase = (IF k.phase = "recording" THEN "ending" ELSE k.phase)
         /\ Stopped(k).tab = k.tab /\ Stopped(k).bytes = k.bytes /\ Stopped(k).saved = k.saved
         /\ Stopped(k).queue = k.queue
BY DEF Stopped, Takes, Phases, Capturing

\* A take that is stopped fits what it fitted before.
LEMMA StoppedFits ==
  ASSUME NEW r, NEW o, NEW f, NEW k \in Takes, Fits(r, o, k, f), k.phase # "none"
  PROVE  Fits(r, o, Stopped(k), f)
PROOF
  <1> DEFINE s == Stopped(k)
  <1>1. /\ s.phase = (IF k.phase = "recording" THEN "ending" ELSE k.phase)
        /\ s.tab = k.tab /\ s.bytes = k.bytes /\ s.saved = k.saved /\ s.queue = k.queue
    BY StoppedTyped
  <1> HIDE DEF s
  <1> QED BY <1>1 DEF Fits, s, Starting, Capturing, Locking

LEMMA KeepsOne ==
  ASSUME RecInv, NEW n \in Notes, NEW r, row' = [row EXCEPT ![n] = r],
         r = row[n] \/ row[n].status \in {"absent", "recording"}
  PROVE  RowsKeep
BY DEF RecInv, RecorderTypeOK, RowsKeep, Settled

LEMMA KeepsAll ==
  ASSUME row' = row
  PROVE  RowsKeep
BY DEF RowsKeep, Settled

\* A step that changes the take of a note and leaves its row, lock and recovery.
LEMMA OneTake ==
  ASSUME RecInv, NEW n \in Notes, NEW k \in Takes, row' = row, owner' = owner, fix' = fix,
         take' = [take EXCEPT ![n] = k], Activates(n), Fits(row[n], owner[n], k, fix[n]),
         k.phase = "recording" => active'[k.tab] = n /\ ~k.stopping, k.phase # "none"
  PROVE  RecInv' /\ RowsKeep
PROOF
  <1>1. row[n] \in Rows /\ owner[n] \in Tabs \cup {NoTab} /\ fix[n] \in {"none", "local", "empty"}
    BY NoteTyped
  <1>2. Changes(n, row[n], owner[n], k, fix[n])
    BY NoteTyped DEF Changes
  <1>3. RecInv'
    BY <1>1, <1>2, OneNote
  <1> QED BY <1>3, KeepsAll

LEMMA InitRec == InitRecorder => RecInv
PROOF
  <1> SUFFICES ASSUME InitRecorder PROVE RecInv
    OBVIOUS
  <1>1. RecorderTypeOK
    BY NoTakeTyped DEF InitRecorder, RecorderTypeOK, Rows, Takes
  <1>2. ASSUME NEW n \in Notes
        PROVE  Fits(row[n], owner[n], take[n], fix[n]) /\ Visible(n)
    <2>1. row[n] = NoRow /\ owner[n] = NoTab /\ take[n] = NoTake /\ fix[n] = "none"
      BY DEF InitRecorder
    <2> QED
      BY <2>1 DEF Fits, Visible, NoTake, NoRow, Starting, Capturing, Locking
  <1>3. \A t \in Tabs : active[t] = NoNote
    BY DEF InitRecorder
  <1> QED BY <1>1, <1>2, <1>3 DEF RecInv

-----------------------------------------------------------------------------
(* A take starts.                                                          *)

LEMMA StartInv ==
  ASSUME RecInv, NEW t \in Tabs, NEW n \in Notes, Start(t, n)
  PROVE  RecInv' /\ RowsKeep
PROOF
  <1> DEFINE k == [NoTake EXCEPT !.tab = t, !.phase = "claiming"]
  <1>1. k \in Takes /\ k.tab = t /\ k.phase = "claiming" /\ k.bytes = 0 /\ k.saved = 0 /\ k.queue = <<>>
    BY NoTakeTyped DEF Takes, NoTake, Phases, Starting
  <1>2. row[n] = NoRow /\ row' = row /\ owner' = owner /\ fix' = fix
        /\ take' = [take EXCEPT ![n] = k] /\ active' = [active EXCEPT ![t] = n] /\ active[t] = NoNote
        /\ take[n] = NoTake
    BY DEF Start
  <1> HIDE DEF k
  <1>3. Fits(row[n], owner[n], k, fix[n])
    <2>1. Fits(row[n], owner[n], NoTake, fix[n])
      BY <1>2, NoteTyped
    <2> QED BY <1>1, <1>2, <2>1 DEF Fits, Starting, Capturing, Locking, NoTake, NoRow
  <1>4. Activates(n)
    BY <1>2, NoteTyped DEF Activates
  <1> QED BY <1>1, <1>2, <1>3, <1>4, OneTake

LEMMA ClaimedInv ==
  ASSUME RecInv, NEW n \in Notes, Claimed(n)
  PROVE  RecInv' /\ RowsKeep
PROOF
  <1>1. row' = row /\ active' = active /\ fix' = fix /\ take[n].phase = "claiming" /\ owner[n] = NoTab
    BY DEF Claimed
  <1>2. Fits(row[n], owner[n], take[n], fix[n]) /\ take[n] \in Takes /\ active \in [Tabs -> Notes \cup {NoNote}]
    BY NoteTyped
  <1>3. CASE Wanted(n)
    <2> DEFINE k == [take[n] EXCEPT !.phase = "putting"]
    <2>1. take' = [take EXCEPT ![n] = k] /\ owner' = [owner EXCEPT ![n] = take[n].tab]
      BY <1>3 DEF Claimed
    <2>2. k \in Takes /\ k.phase = "putting" /\ k.tab = take[n].tab /\ k.bytes = take[n].bytes
          /\ k.saved = take[n].saved /\ k.queue = take[n].queue
      BY <1>2 DEF Takes, Phases, Starting
    <2> HIDE DEF k
    <2>3. Fits(row[n], take[n].tab, k, fix[n]) /\ take[n].tab \in Tabs
      BY <1>1, <1>2, <2>2 DEF Fits, Starting, Capturing, Locking
    <2>4. Changes(n, row[n], take[n].tab, k, fix[n]) /\ Activates(n)
      BY <1>1, <2>1, NoteTyped, FreedActive DEF Changes
    <2>5. row[n] \in Rows /\ fix[n] \in {"none", "local", "empty"}
      BY NoteTyped
    <2>6. RecInv'
      BY <2>2, <2>3, <2>4, <2>5, OneNote
    <2> QED BY <1>1, <2>6, KeepsAll
  <1>4. CASE ~Wanted(n)
    <2> DEFINE k == Spent(n, "done")
    <2>1. take' = [take EXCEPT ![n] = k] /\ owner' = [owner EXCEPT ![n] = NoTab]
      BY <1>4 DEF Claimed
    <2>2. k \in Takes /\ k.phase = "done"
      BY <1>2, SpentTyped DEF Phases
    <2> HIDE DEF k
    <2>3. Fits(row[n], NoTab, k, fix[n])
      BY <1>1, <1>2, <2>2 DEF Fits, Starting, Capturing, Locking, NoRow
    <2>4. Changes(n, row[n], NoTab, k, fix[n]) /\ Activates(n)
      BY <1>1, <2>1, NoteTyped, FreedActive DEF Changes
    <2>5. row[n] \in Rows /\ fix[n] \in {"none", "local", "empty"}
      BY NoteTyped
    <2>6. RecInv'
      BY <2>2, <2>3, <2>4, <2>5, OneNote
    <2> QED BY <1>1, <2>6, KeepsAll
  <1> QED BY <1>3, <1>4

LEMMA PutInv ==
  ASSUME RecInv, NEW n \in Notes, Put(n)
  PROVE  RecInv' /\ RowsKeep
PROOF
  <1> DEFINE k == [take[n] EXCEPT !.phase = "asking"]
             r == [NoRow EXCEPT !.status = "recording"]
  <1>1. /\ take[n].phase = "putting" /\ row' = [row EXCEPT ![n] = r] /\ take' = [take EXCEPT ![n] = k]
        /\ owner' = owner /\ active' = active /\ fix' = fix
    BY DEF Put
  <1>2. Fits(row[n], owner[n], take[n], fix[n]) /\ take[n] \in Takes
    BY NoteTyped
  <1>3. k \in Takes /\ k.phase = "asking" /\ k.tab = take[n].tab /\ k.bytes = take[n].bytes
        /\ k.saved = take[n].saved /\ k.queue = take[n].queue
    BY <1>2 DEF Takes, Phases, Starting
  <1>4. r \in Rows /\ r.status = "recording" /\ r.audio = 0
    BY NoTakeTyped DEF NoRow, Rows, Statuses
  <1> HIDE DEF k, r
  <1>5. Fits(r, owner[n], k, fix[n]) /\ row[n].status = "absent"
    BY <1>1, <1>2, <1>3, <1>4 DEF Fits, Starting, Capturing, Locking, NoRow
  <1>6. Changes(n, r, owner[n], k, fix[n]) /\ Activates(n)
    BY <1>1, NoteTyped, FreedActive DEF Changes
  <1>7. RecInv'
    BY <1>3, <1>4, <1>5, <1>6, NoteTyped, OneNote
  <1> QED BY <1>1, <1>5, <1>7, KeepsOne

LEMMA GrantedInv ==
  ASSUME RecInv, NEW n \in Notes, Granted(n)
  PROVE  RecInv' /\ RowsKeep
PROOF
  <1> DEFINE p == IF Wanted(n) THEN "recording" ELSE "discarding"
             k == [take[n] EXCEPT !.phase = p]
  <1>1. /\ take[n].phase = "asking" /\ row' = row /\ take' = [take EXCEPT ![n] = k]
        /\ owner' = owner /\ active' = active /\ fix' = fix
    BY DEF Granted
  <1>2. Fits(row[n], owner[n], take[n], fix[n]) /\ take[n] \in Takes
    BY NoteTyped
  <1>3. k \in Takes /\ k.phase = p /\ k.tab = take[n].tab /\ k.bytes = take[n].bytes
        /\ k.saved = take[n].saved /\ k.queue = take[n].queue /\ k.stopping = take[n].stopping
    BY <1>2 DEF Takes, Phases, Capturing
  <1> HIDE DEF k
  <1>4. Fits(row[n], owner[n], k, fix[n])
    BY <1>1, <1>2, <1>3 DEF Fits, Starting, Capturing, Locking
  <1>5. k.phase = "recording" => active[k.tab] = n /\ ~k.stopping
    BY <1>3 DEF Wanted
  <1>6. Activates(n) /\ active' = active
    BY <1>1, FreedActive
  <1> QED BY <1>1, <1>3, <1>4, <1>5, <1>6, OneTake

LEMMA StartFailsInv ==
  ASSUME RecInv, NEW n \in Notes, StartFails(n)
  PROVE  RecInv' /\ RowsKeep
PROOF
  <1> DEFINE k == [take[n] EXCEPT !.phase = "discarding"]
  <1>1. /\ take[n].phase \in {"putting", "asking"} /\ row' = row /\ take' = [take EXCEPT ![n] = k]
        /\ owner' = owner /\ active' = Freed(n) /\ fix' = fix
    BY DEF StartFails
  <1>2. Fits(row[n], owner[n], take[n], fix[n]) /\ take[n] \in Takes
    BY NoteTyped
  <1>3. k \in Takes /\ k.phase = "discarding" /\ k.tab = take[n].tab
    BY <1>2 DEF Takes, Phases
  <1> HIDE DEF k
  <1>4. Fits(row[n], owner[n], k, fix[n])
    BY <1>1, <1>2, <1>3 DEF Fits, Starting, Capturing, Locking, NoRow
  <1>5. Activates(n)
    BY <1>1, FreedActive
  <1> QED BY <1>1, <1>3, <1>4, <1>5, OneTake

LEMMA DiscardInv ==
  ASSUME RecInv, NEW n \in Notes, Discard(n)
  PROVE  RecInv' /\ RowsKeep
PROOF
  <1> DEFINE k == Spent(n, "done")
             e == [row[n] EXCEPT !.status = "empty"]
  <1>1. Fits(row[n], owner[n], take[n], fix[n]) /\ take[n] \in Takes /\ row[n] \in Rows
        /\ row = [row EXCEPT ![n] = row[n]]
    BY NoteTyped
  <1>2. /\ take[n].phase = "discarding" /\ take' = [take EXCEPT ![n] = k]
        /\ owner' = [owner EXCEPT ![n] = NoTab] /\ active' = active /\ fix' = fix
    BY DEF Discard
  <1>3. PICK r \in {e, row[n]} : row' = [row EXCEPT ![n] = r]
    BY <1>1 DEF Discard
  <1>4. k \in Takes /\ k.phase = "done"
    BY <1>1, SpentTyped DEF Phases
  <1>5. e \in Rows /\ e.status = "empty"
    BY <1>1 DEF Rows, Statuses
  <1> HIDE DEF k, e
  <1>6. Fits(r, NoTab, k, fix[n]) /\ row[n].status \in {"absent", "recording"} /\ r \in Rows
    BY <1>1, <1>2, <1>3, <1>4, <1>5 DEF Fits, Starting, Capturing, Locking
  <1>7. Changes(n, r, NoTab, k, fix[n]) /\ Activates(n)
    BY <1>2, <1>3, NoteTyped, FreedActive DEF Changes
  <1>8. fix[n] \in {"none", "local", "empty"}
    BY NoteTyped
  <1>9. RecInv'
    BY <1>4, <1>6, <1>7, <1>8, OneNote
  <1> QED BY <1>3, <1>6, <1>9, KeepsOne

-----------------------------------------------------------------------------
(* The recorder runs.                                                      *)

LEMMA ChunkInv ==
  ASSUME RecInv, NEW n \in Notes, NEW z \in Sizes, Chunk(n, z)
  PROVE  RecInv' /\ RowsKeep
PROOF
  <1> DEFINE sum == take[n].bytes + z
             grown == [[take[n] EXCEPT !.bytes = sum] EXCEPT !.queue = Append(take[n].queue, sum)]
             kept == IF sum > MaxBytes THEN take[n] ELSE grown
             k == IF sum >= MaxBytes THEN Stopped(kept) ELSE kept
  <1>1. Fits(row[n], owner[n], take[n], fix[n]) /\ take[n] \in Takes /\ row[n] \in Rows
        /\ active \in [Tabs -> Notes \cup {NoNote}] /\ Visible(n)
    BY NoteTyped
  <1>2. /\ take[n].phase \in {"recording", "ending"} /\ take' = [take EXCEPT ![n] = k]
        /\ active' = (IF sum >= MaxBytes THEN FreedByStop(n) ELSE active)
        /\ row' = row /\ owner' = owner /\ fix' = fix
    BY <1>1 DEF Chunk, Takes
  <1>3. sum \in Nat /\ sum > 0
    BY <1>1, RecorderAssumption DEF Takes
  <1>4. sum <= MaxBytes => grown \in Takes /\ grown.phase = take[n].phase /\ grown.tab = take[n].tab
          /\ grown.saved = take[n].saved /\ grown.stopping = take[n].stopping
    <2> SUFFICES ASSUME sum <= MaxBytes
        PROVE grown \in Takes /\ grown.phase = take[n].phase /\ grown.tab = take[n].tab
              /\ grown.saved = take[n].saved /\ grown.stopping = take[n].stopping
      OBVIOUS
    <2>1. sum \in 0 .. MaxBytes /\ sum \in 1 .. MaxBytes
      BY <1>3, RecorderAssumption
    <2>2. Append(take[n].queue, sum) \in Seq(1 .. MaxBytes)
      BY <1>1, <2>1 DEF Takes
    <2> HIDE DEF sum
    <2> QED BY <1>1, <2>1, <2>2 DEF Takes
  <1>5. kept \in Takes /\ kept.phase = take[n].phase /\ kept.tab = take[n].tab
        /\ kept.saved = take[n].saved /\ kept.stopping = take[n].stopping
    BY <1>1, <1>3, <1>4, RecorderAssumption
  <1> HIDE DEF kept
  <1>6. /\ k \in Takes /\ k.phase \in {"recording", "ending"} /\ k.tab = take[n].tab /\ k.saved = take[n].saved
        /\ k.phase = "recording" => ~(sum >= MaxBytes) /\ take[n].phase = "recording" /\ ~k.stopping
    BY <1>1, <1>2, <1>5, StoppedTyped DEF Visible
  <1> HIDE DEF k, sum
  <1>7. Fits(row[n], owner[n], k, fix[n])
    BY <1>1, <1>2, <1>6 DEF Fits, Starting, Capturing, Locking
  <1>8. k.phase = "recording" => active'[k.tab] = n /\ ~k.stopping
    BY <1>1, <1>2, <1>6 DEF Visible
  <1>9. Activates(n)
    BY <1>2, FreedActive
  <1> QED BY <1>2, <1>6, <1>7, <1>8, <1>9, OneTake

LEMMA SaveInv ==
  ASSUME RecInv, NEW n \in Notes, Save(n)
  PROVE  RecInv' /\ RowsKeep /\ row'[n].audio > 0
         /\ \A m \in Notes : m # n => row'[m].audio = row[m].audio
PROOF
  <1> DEFINE h == Head(take[n].queue)
             k == [[take[n] EXCEPT !.saved = h] EXCEPT !.queue = Tail(take[n].queue)]
             r == [row[n] EXCEPT !.audio = h]
  <1>1. Fits(row[n], owner[n], take[n], fix[n]) /\ take[n] \in Takes /\ row[n] \in Rows /\ Visible(n)
        /\ row \in [Notes -> Rows] /\ take \in [Notes -> Takes]
    BY NoteTyped DEF RecInv, RecorderTypeOK, Rows, Takes
  <1>2. take[n].phase \in Capturing /\ take[n].queue # <<>> /\ take[n].queue \in Seq(1 .. MaxBytes)
    BY <1>1 DEF Save, Takes
  <1>3. h \in 1 .. MaxBytes /\ Tail(take[n].queue) \in Seq(1 .. MaxBytes)
    BY <1>2, HeadTailProperties
  <1>4. /\ row' = [row EXCEPT ![n] = r] /\ take' = [take EXCEPT ![n] = k]
        /\ owner' = owner /\ active' = active /\ fix' = fix
    BY <1>1 DEF Save, Takes, Rows
  <1>5. r \in Rows /\ r.status = row[n].status /\ r.recovered = row[n].recovered /\ r.audio = h
    <2> HIDE DEF h
    <2> QED BY <1>1, <1>3, RecorderAssumption DEF Rows
  <1>6. k \in Takes /\ k.phase = take[n].phase /\ k.tab = take[n].tab /\ k.saved = h
        /\ k.stopping = take[n].stopping
    <2>1. h \in 0 .. MaxBytes
      BY <1>3
    <2> HIDE DEF h
    <2> QED BY <1>1, <1>3, <2>1 DEF Takes
  <1> HIDE DEF k, r, h
  <1>7. Fits(r, owner[n], k, fix[n]) /\ row[n].status = "recording"
    BY <1>1, <1>2, <1>5, <1>6 DEF Fits, Starting, Capturing, Locking
  <1>8. Changes(n, r, owner[n], k, fix[n]) /\ Activates(n)
    BY <1>4, NoteTyped, FreedActive DEF Changes
  <1>9. k.phase = "recording" => active'[k.tab] = n /\ ~k.stopping
    BY <1>1, <1>4, <1>6 DEF Visible
  <1>10. k.phase # "none"
    BY <1>2, <1>6 DEF Capturing
  <1>15. owner[n] \in Tabs \cup {NoTab} /\ fix[n] \in {"none", "local", "empty"}
    BY NoteTyped
  <1>11. RecInv'
    BY <1>5, <1>6, <1>7, <1>8, <1>9, <1>10, <1>15, OneNote
  <1>12. RowsKeep
    BY <1>4, <1>7, KeepsOne
  <1>13. h > 0
    BY <1>3
  <1>14. row'[n] = r /\ \A m \in Notes : m # n => row'[m] = row[m]
    BY <1>1, <1>4
  <1> QED BY <1>5, <1>11, <1>12, <1>13, <1>14

LEMMA SaveFailsInv ==
  ASSUME RecInv, NEW n \in Notes, SaveFails(n)
  PROVE  RecInv' /\ RowsKeep
PROOF
  <1> DEFINE q == [[take[n] EXCEPT !.error = TRUE] EXCEPT !.queue = Tail(take[n].queue)]
             k == Stopped(q)
  <1>1. Fits(row[n], owner[n], take[n], fix[n]) /\ take[n] \in Takes /\ row[n] \in Rows
    BY NoteTyped
  <1>2. take[n].phase \in Capturing /\ take[n].queue # <<>> /\ take[n].queue \in Seq(1 .. MaxBytes)
    BY <1>1 DEF SaveFails, Takes
  <1>3. Tail(take[n].queue) \in Seq(1 .. MaxBytes)
    BY <1>2, HeadTailProperties
  <1>4. /\ take' = [take EXCEPT ![n] = k]
        /\ row' = row /\ owner' = owner /\ active' = FreedByStop(n) /\ fix' = fix
    BY <1>1 DEF SaveFails, Takes
  <1>5. q \in Takes /\ q.phase = take[n].phase /\ q.tab = take[n].tab /\ q.saved = take[n].saved
    BY <1>1, <1>3 DEF Takes
  <1> HIDE DEF q
  <1>6. Fits(row[n], owner[n], q, fix[n]) /\ q.phase # "none"
    BY <1>1, <1>2, <1>5 DEF Fits, Starting, Capturing, Locking
  <1>7. Fits(row[n], owner[n], k, fix[n]) /\ k \in Takes /\ k.phase \notin {"recording", "none"}
    BY <1>5, <1>6, StoppedFits, StoppedTyped
  <1> HIDE DEF k
  <1>8. Activates(n)
    BY <1>4, FreedActive
  <1> QED BY <1>4, <1>7, <1>8, OneTake

LEMMA StopInv ==
  ASSUME RecInv, NEW t \in Tabs, Stop(t) \/ Invalidate(t)
  PROVE  RecInv' /\ RowsKeep
PROOF
  <1> DEFINE n == active[t]
             k == Stopped(take[n])
  <1>1. n # NoNote /\ active \in [Tabs -> Notes \cup {NoNote}]
    BY DEF Stop, Invalidate, RecInv, RecorderTypeOK
  <1>2. n \in Notes
    BY <1>1
  <1>3. Fits(row[n], owner[n], take[n], fix[n]) /\ take[n] \in Takes /\ take[n].phase # "none"
    BY <1>1, <1>2, NoteTyped DEF RecInv
  <1>4. /\ take' = [take EXCEPT ![n] = k] /\ row' = row /\ owner' = owner /\ fix' = fix
        /\ active' = FreedByStop(n) \/ active' = [active EXCEPT ![t] = NoNote]
    BY DEF Stop, Invalidate
  <1>5. Activates(n)
    <2>1. CASE active' = FreedByStop(n)
      BY <1>2, <2>1, FreedActive
    <2>2. CASE active' = [active EXCEPT ![t] = NoNote]
      BY <1>1, <2>2 DEF Activates
    <2> QED BY <1>4, <2>1, <2>2
  <1>6. k \in Takes /\ k.phase \notin {"recording", "none"}
    BY <1>3, StoppedTyped
  <1>7. Fits(row[n], owner[n], k, fix[n])
    BY <1>3, StoppedFits
  <1> HIDE DEF k, n
  <1> QED BY <1>2, <1>4, <1>5, <1>6, <1>7, OneTake

LEMMA PhaseOnlyInv ==
  ASSUME RecInv, NEW n \in Notes, MicEnds(n) \/ Ended(n)
  PROVE  RecInv' /\ RowsKeep
PROOF
  <1>1. PICK p \in {"ending", "draining"} :
          /\ take' = [take EXCEPT ![n] = [take[n] EXCEPT !.phase = p]]
          /\ take[n].phase \in {"recording", "ending"}
          /\ row' = row /\ owner' = owner /\ active' = active /\ fix' = fix
    BY NoteTyped DEF MicEnds, Ended
  <1> DEFINE k == [take[n] EXCEPT !.phase = p]
  <1>2. Fits(row[n], owner[n], take[n], fix[n]) /\ take[n] \in Takes
    BY NoteTyped
  <1>3. k \in Takes /\ k.phase = p /\ k.tab = take[n].tab /\ k.saved = take[n].saved
    BY <1>2 DEF Takes, Phases, Capturing
  <1>4. take' = [take EXCEPT ![n] = k]
    BY <1>1
  <1> HIDE DEF k
  <1>5. Fits(row[n], owner[n], k, fix[n])
    BY <1>1, <1>2, <1>3 DEF Fits, Starting, Capturing, Locking
  <1>6. Activates(n)
    BY <1>1, FreedActive
  <1> QED BY <1>1, <1>3, <1>4, <1>5, <1>6, OneTake

\* The verdict says "local" only of a take whose last save holds all it kept.
LEMMA CloseInv ==
  ASSUME RecInv, NEW n \in Notes, Close(n)
  PROVE  RecInv' /\ RowsKeep
PROOF
  <1> DEFINE v == Verdict(take[n])
             e == [row[n] EXCEPT !.status = v]
             k == Spent(n, "done")
  <1>1. Fits(row[n], owner[n], take[n], fix[n]) /\ take[n] \in Takes /\ row[n] \in Rows
        /\ row = [row EXCEPT ![n] = row[n]] /\ fix[n] \in {"none", "local", "empty"}
    BY NoteTyped
  <1>2. /\ take[n].phase = "draining" /\ take' = [take EXCEPT ![n] = k]
        /\ owner' = [owner EXCEPT ![n] = NoTab] /\ active' = Freed(n) /\ fix' = fix
    BY DEF Close
  <1>3. PICK r \in {e, row[n]} : row' = [row EXCEPT ![n] = r]
    BY <1>1 DEF Close
  <1>4. k \in Takes /\ k.phase = "done" /\ k.bytes = take[n].bytes
    BY <1>1, SpentTyped DEF Phases
  <1>5. v \in {"failed", "local", "empty"} /\ (v = "local" => take[n].saved > 0 /\ take[n].saved = take[n].bytes)
    BY DEF Verdict
  <1>6. e \in Rows /\ e.status = v /\ e.audio = row[n].audio /\ e.recovered = row[n].recovered
    <2> HIDE DEF v
    <2> QED BY <1>1, <1>5 DEF Rows, Statuses
  <1> HIDE DEF k, e, v
  <1>7. Fits(r, NoTab, k, fix[n]) /\ row[n].status = "recording" /\ r \in Rows
    BY <1>1, <1>2, <1>3, <1>4, <1>5, <1>6 DEF Fits, Starting, Capturing, Locking
  <1>8. Changes(n, r, NoTab, k, fix[n]) /\ Activates(n)
    BY <1>1, <1>2, <1>3, FreedActive, NoteTyped DEF Changes
  <1>9. RecInv'
    BY <1>1, <1>4, <1>7, <1>8, OneNote
  <1> QED BY <1>3, <1>7, <1>9, KeepsOne

LEMMA ReloadInv ==
  ASSUME RecInv, NEW t \in Tabs, Reload(t)
  PROVE  RecInv' /\ RowsKeep
PROOF
  <1>1. /\ row \in [Notes -> Rows] /\ take \in [Notes -> Takes] /\ row' = row
        /\ owner \in [Notes -> Tabs \cup {NoTab}] /\ fix \in [Notes -> {"none", "local", "empty"}]
        /\ active \in [Tabs -> Notes \cup {NoNote}]
    BY DEF RecInv, RecorderTypeOK, Rows, Takes, Reload
  <1>2. ASSUME NEW n \in Notes
        PROVE  /\ take'[n] = (IF take[n].tab = t /\ take[n].phase \notin {"done", "lost"}
                               THEN Spent(n, "lost") ELSE take[n])
               /\ owner'[n] = (IF owner[n] = t THEN NoTab ELSE owner[n])
               /\ fix'[n] = (IF owner[n] = t THEN "none" ELSE fix[n])
    BY DEF Reload
  <1>3. active' = [active EXCEPT ![t] = NoNote]
    BY DEF Reload
  <1>4. ASSUME NEW n \in Notes
        PROVE  Spent(n, "lost") \in Takes /\ Spent(n, "lost").phase = "lost"
    BY <1>1, SpentTyped DEF Phases
  <1>5. RecorderTypeOK'
    <2>1. take' \in [Notes -> Takes]
      BY <1>1, <1>4 DEF Reload
    <2>2. owner' \in [Notes -> Tabs \cup {NoTab}] /\ fix' \in [Notes -> {"none", "local", "empty"}]
          /\ active' \in [Tabs -> Notes \cup {NoNote}]
      BY <1>1 DEF Reload
    <2> QED BY <1>1, <2>1, <2>2 DEF RecorderTypeOK, Rows, Takes
  <1>6. ASSUME NEW n \in Notes
        PROVE  (Fits(row[n], owner[n], take[n], fix[n]) /\ Visible(n))'
    <2>1. Fits(row[n], owner[n], take[n], fix[n]) /\ Visible(n)
      BY DEF RecInv
    <2>2. CASE take[n].tab = t /\ take[n].phase \notin {"done", "lost"}
      <3>1. take'[n].phase = "lost" /\ row'[n] = row[n]
        BY <1>1, <1>2, <1>4, <2>2
      <3>2. take[n].phase # "none"
        BY <2>1, <2>2, RecorderAssumption DEF Fits, NoTake
      <3> DEFINE k == take'[n]
                 f == fix'[n]
                 o == owner'[n]
      <3>3. o = NoTab /\ f = "none"
        BY <1>2, <2>1, <2>2 DEF Fits
      <3> HIDE DEF k, f, o
      <3>4. Fits(row[n], o, k, f)
        BY <2>1, <2>2, <3>1, <3>2, <3>3 DEF Fits, Starting, Capturing, Locking, k
      <3> QED BY <3>1, <3>4 DEF Visible, k, f, o
    <2>3. CASE ~(take[n].tab = t /\ take[n].phase \notin {"done", "lost"})
      <3>1. take'[n] = take[n] /\ row'[n] = row[n]
        BY <1>1, <1>2, <2>3
      <3>2. take[n].phase \in Locking => owner'[n] = take[n].tab /\ fix'[n] = "none" /\ take[n].tab # t
        BY <1>2, <2>1, <2>3 DEF Fits, Locking, Capturing
      <3>3. \/ owner'[n] = owner[n] /\ fix'[n] = fix[n]
            \/ owner'[n] = NoTab /\ fix'[n] = "none"
        BY <1>2
      <3> DEFINE f == fix'[n]
                 o == owner'[n]
      <3>4. Fits(row[n], o, take[n], f)
        <4>1. take[n].phase \in Locking => o = take[n].tab /\ f = "none"
          BY <3>2
        <4>2. \/ o = owner[n] /\ f = fix[n]
              \/ o = NoTab /\ f = "none"
          BY <3>3
        <4> HIDE DEF f, o
        <4> QED BY <2>1, <4>1, <4>2 DEF Fits
      <3>5. Visible(n)'
        <4>1. take[n].phase = "recording" => take[n].tab \in Tabs /\ take[n].tab # t
          BY <2>1, <2>3 DEF Fits, Locking, Capturing
        <4> QED BY <1>1, <1>3, <2>1, <3>1, <4>1 DEF Visible
      <3> QED BY <3>1, <3>4, <3>5
    <2> QED BY <2>2, <2>3
  <1>7. ASSUME NEW u \in Tabs, active'[u] # NoNote
        PROVE  take'[active'[u]].phase # "none"
    <2>1. active'[u] = active[u] /\ active[u] \in Notes
      BY <1>1, <1>3, <1>7
    <2>2. take[active[u]].phase # "none"
      BY <1>7, <2>1 DEF RecInv
    <2> QED BY <1>2, <1>4, <2>1, <2>2
  <1> QED BY <1>1, <1>5, <1>6, <1>7, KeepsAll DEF RecInv

-----------------------------------------------------------------------------
(* Recovery.                                                               *)

LEMMA RecoverLockInv ==
  ASSUME RecInv, NEW t \in Tabs, NEW n \in Notes, RecoverLock(t, n)
  PROVE  RecInv' /\ RowsKeep
PROOF
  <1> DEFINE f == IF row[n].audio > 0 THEN "local" ELSE "empty"
  <1>1. Fits(row[n], owner[n], take[n], fix[n]) /\ take[n] \in Takes /\ row[n] \in Rows /\ Visible(n)
    BY NoteTyped
  <1>2. /\ row[n].status = "recording" /\ owner[n] = NoTab /\ row' = row /\ take' = take /\ active' = active
        /\ owner' = [owner EXCEPT ![n] = t] /\ fix' = [fix EXCEPT ![n] = f]
    BY DEF RecoverLock
  <1>3. take[n].phase \in {"lost", "done"}
    BY <1>1, <1>2, RecorderAssumption DEF Takes, Phases, Fits, Starting, Capturing, Locking, NoRow
  <1>4. f \in {"local", "empty"} /\ t # NoTab
    BY RecorderAssumption
  <1> HIDE DEF f
  <1>5. Fits(row[n], t, take[n], f)
    BY <1>1, <1>2, <1>3, <1>4 DEF Fits, Starting, Capturing, Locking
  <1>6. Changes(n, row[n], t, take[n], f) /\ Activates(n)
    BY <1>2, NoteTyped, FreedActive DEF Changes
  <1>7. RecInv'
    BY <1>1, <1>3, <1>4, <1>5, <1>6, OneNote
  <1> QED BY <1>2, <1>7, KeepsAll

LEMMA RecoverEndsInv ==
  ASSUME RecInv, NEW n \in Notes, RecoverPatch(n) \/ RecoverFails(n)
  PROVE  RecInv' /\ RowsKeep
PROOF
  <1> DEFINE e == [row[n] EXCEPT !.status = fix[n], !.recovered = TRUE]
  <1>1. Fits(row[n], owner[n], take[n], fix[n]) /\ take[n] \in Takes /\ row[n] \in Rows
        /\ row = [row EXCEPT ![n] = row[n]] /\ fix[n] \in {"none", "local", "empty"} /\ row \in [Notes -> Rows]
    BY NoteTyped DEF RecInv, RecorderTypeOK, Rows
  <1>2. /\ fix[n] # "none" /\ take' = take /\ active' = active
        /\ owner' = [owner EXCEPT ![n] = NoTab] /\ fix' = [fix EXCEPT ![n] = "none"]
    BY DEF RecoverPatch, RecoverFails, Release
  <1>3. PICK r \in {e, row[n]} : row' = [row EXCEPT ![n] = r]
    <2>1. CASE RecoverPatch(n)
      BY <1>1, <2>1 DEF RecoverPatch, Rows
    <2>2. CASE RecoverFails(n)
      BY <1>1, <2>2 DEF RecoverFails
    <2> QED BY <2>1, <2>2
  <1>4. e \in Rows /\ e.status \in {"local", "empty"} /\ e.recovered
    BY <1>1, <1>2 DEF Rows, Statuses
  <1> HIDE DEF e
  <1>5. take[n].phase \in {"lost", "done"} /\ row[n].status = "recording" /\ r \in Rows
    BY <1>1, <1>2, <1>3, <1>4 DEF Fits
  <1>6. Fits(r, NoTab, take[n], "none")
    BY <1>1, <1>3, <1>4, <1>5 DEF Fits, Starting, Capturing, Locking
  <1>7. Changes(n, r, NoTab, take[n], "none") /\ Activates(n)
    BY <1>2, <1>3, NoteTyped, FreedActive DEF Changes
  <1>8. RecInv'
    BY <1>1, <1>5, <1>6, <1>7, OneNote
  <1> QED BY <1>3, <1>5, <1>8, KeepsOne

-----------------------------------------------------------------------------

\* What every step of the recorder keeps.
LEMMA RecorderInv ==
  ASSUME RecInv, NEW n \in Notes, Recorder(n) \/ Recovery(n)
  PROVE  RecInv' /\ RowsKeep
BY ClaimedInv, PutInv, GrantedInv, StartFailsInv, DiscardInv, ChunkInv, SaveInv, SaveFailsInv,
   PhaseOnlyInv, CloseInv, RecoverLockInv, RecoverEndsInv DEF Recorder, Recovery

\* No step of the recorder removes audio from a row.
LEMMA RecorderRemovesNothing ==
  ASSUME RecInv, NEW n \in Notes, row[n].audio > 0,
         \/ \E m \in Notes : Recorder(m) \/ Recovery(m)
         \/ \E t \in Tabs, m \in Notes : Start(t, m)
         \/ \E t \in Tabs : Stop(t) \/ Invalidate(t) \/ Reload(t)
  PROVE  row'[n].audio > 0
PROOF
  <1>1. row \in [Notes -> Rows]
    BY DEF RecInv, RecorderTypeOK, Rows
  <1>2. CASE row' = row
    BY <1>2
  <1>3. ASSUME NEW m \in Notes, Discard(m) \/ Close(m) \/ RecoverPatch(m)
        PROVE  row'[n].audio = row[n].audio
    BY <1>1, <1>3 DEF Discard, Close, RecoverPatch, Rows
  <1>4. ASSUME NEW m \in Notes, Put(m)
        PROVE  row'[n].audio > 0
    <2>1. row[m] = NoRow
      BY <1>4, NoteTyped DEF Put, Fits
    <2>2. m # n
      BY <2>1 DEF NoRow
    <2> QED BY <1>1, <1>4, <2>2 DEF Put
  <1>5. ASSUME NEW m \in Notes, Save(m)
        PROVE  row'[n].audio > 0
    BY <1>5, SaveInv
  <1>6. \/ row' = row
        \/ \E m \in Notes : Discard(m) \/ Close(m) \/ RecoverPatch(m) \/ Put(m) \/ Save(m)
    BY DEF Recorder, Recovery, Claimed, Granted, StartFails, Chunk, SaveFails, MicEnds, Ended,
           RecoverLock, RecoverFails, Start, Stop, Invalidate, Reload
  <1> QED BY <1>2, <1>3, <1>4, <1>5, <1>6

-----------------------------------------------------------------------------
(* What the recorder stores only grows: the saves of a take are queued one  *)
(* after the other, each of all the audio there was.                        *)

Rising(k) ==
  /\ k.saved <= k.bytes
  /\ \A i \in 1 .. Len(k.queue) : k.saved < k.queue[i] /\ k.queue[i] <= k.bytes
  /\ \A i, j \in 1 .. Len(k.queue) : i < j => k.queue[i] < k.queue[j]

SavesRise == \A n \in Notes : Rising(take[n])

LEMMA InitRising == InitRecorder => SavesRise
BY DEF InitRecorder, SavesRise, Rising, NoTake

\* A take that forgets its queue, or keeps what it has.
LEMMA RisingStays ==
  ASSUME NEW k, NEW s, Rising(k),
         \/ s.queue = <<>> /\ s.saved <= s.bytes
         \/ s.queue = k.queue /\ s.saved = k.saved /\ s.bytes = k.bytes
  PROVE  Rising(s)
BY DEF Rising

LEMMA RisingAppend ==
  ASSUME NEW k \in Takes, NEW s \in Takes, NEW sum \in Nat, Rising(k), sum > k.bytes,
         s.queue = Append(k.queue, sum), s.saved = k.saved, s.bytes = sum
  PROVE  Rising(s)
PROOF
  <1>1. k.queue \in Seq(1 .. MaxBytes) /\ k.bytes \in Nat /\ k.saved \in Nat /\ MaxBytes \in Nat
    BY RecorderAssumption DEF Takes
  <1>2. Len(s.queue) = Len(k.queue) + 1 /\ s.queue[Len(k.queue) + 1] = sum /\ Len(k.queue) \in Nat
        /\ \A i \in 1 .. Len(k.queue) : s.queue[i] = k.queue[i] /\ k.queue[i] \in Nat
    BY <1>1
  <1>3. \A i \in 1 .. Len(k.queue) : k.saved < k.queue[i] /\ k.queue[i] < sum
    BY <1>1, <1>2 DEF Rising
  <1>4. \A i \in 1 .. Len(s.queue) : i \in 1 .. Len(k.queue) \/ i = Len(k.queue) + 1
    BY <1>2
  <1>5. k.saved <= s.bytes /\ k.saved < sum
    BY <1>1 DEF Rising
  <1>6. \A i \in 1 .. Len(s.queue) : s.saved < s.queue[i] /\ s.queue[i] <= s.bytes
    BY <1>1, <1>2, <1>3, <1>4, <1>5
  <1>7. ASSUME NEW i \in 1 .. Len(s.queue), NEW j \in 1 .. Len(s.queue), i < j
        PROVE  s.queue[i] < s.queue[j]
    <2>1. i \in 1 .. Len(k.queue)
      BY <1>2, <1>7
    <2>2. CASE j = Len(k.queue) + 1
      BY <1>2, <1>3, <2>1, <2>2
    <2>3. CASE j \in 1 .. Len(k.queue)
      BY <1>2, <1>7, <2>1, <2>3 DEF Rising
    <2> QED BY <1>4, <2>2, <2>3
  <1> QED BY <1>5, <1>6, <1>7 DEF Rising

LEMMA RisingTail ==
  ASSUME NEW k \in Takes, NEW s \in Takes, Rising(k), k.queue # <<>>, s.queue = Tail(k.queue),
         s.saved \in {k.saved, Head(k.queue)}, s.bytes = k.bytes
  PROVE  Rising(s) /\ Head(k.queue) > k.saved
PROOF
  <1>1. k.queue \in Seq(1 .. MaxBytes) /\ k.saved \in Nat /\ Len(k.queue) \in Nat /\ Len(k.queue) > 0
    BY DEF Takes
  <1>2. Head(k.queue) = k.queue[1] /\ Len(s.queue) = Len(k.queue) - 1
        /\ \A i \in 1 .. Len(s.queue) : s.queue[i] = k.queue[i + 1] /\ i + 1 \in 1 .. Len(k.queue)
    BY <1>1
  <1>3. 1 \in 1 .. Len(k.queue) /\ k.queue[1] > k.saved
    BY <1>1 DEF Rising
  <1>4. \A i \in 1 .. Len(s.queue) : k.queue[1] < s.queue[i]
    BY <1>1, <1>2, <1>3 DEF Rising
  <1>5. \A i \in 1 .. Len(s.queue) : k.saved < s.queue[i] /\ s.queue[i] <= s.bytes
    BY <1>2 DEF Rising
  <1>6. \A i, j \in 1 .. Len(s.queue) : i < j => s.queue[i] < s.queue[j]
    BY <1>1, <1>2 DEF Rising
  <1>7. s.saved <= s.bytes
    BY <1>2, <1>3 DEF Rising
  <1> QED BY <1>2, <1>3, <1>4, <1>5, <1>6, <1>7 DEF Rising

LEMMA RisingOne ==
  ASSUME RecInv, SavesRise, NEW n \in Notes, NEW k, take' = [take EXCEPT ![n] = k], Rising(k)
  PROVE  SavesRise'
BY DEF RecInv, RecorderTypeOK, SavesRise

LEMMA SpentRises ==
  ASSUME RecInv, NEW n \in Notes, NEW p
  PROVE  Rising(Spent(n, p))
PROOF
  <1>1. take[n].bytes \in Nat
    BY NoteTyped, RecorderAssumption DEF Takes
  <1> QED BY <1>1 DEF Spent, NoTake, Rising

LEMMA StoppedRises ==
  ASSUME NEW k \in Takes, Rising(k)
  PROVE  Rising(Stopped(k))
BY StoppedTyped, RisingStays

\* A row that a step of the recorder touches is not settled, and loses nothing.
RowsGrow ==
  \/ row' = row
  \/ \E n \in Notes : ~Settled(n) /\ row' = [row EXCEPT ![n] = row'[n]] /\ row'[n].audio >= row[n].audio

LEMMA SaveRises ==
  ASSUME RecInv, SavesRise, NEW n \in Notes, Save(n) \/ SaveFails(n)
  PROVE  SavesRise' /\ RowsGrow
PROOF
  <1> DEFINE q == take[n].queue
             s == IF Save(n) THEN [[take[n] EXCEPT !.saved = Head(q)] EXCEPT !.queue = Tail(q)]
                  ELSE [[take[n] EXCEPT !.error = TRUE] EXCEPT !.queue = Tail(q)]
  <1>1. take[n] \in Takes /\ row[n] \in Rows /\ Fits(row[n], owner[n], take[n], fix[n]) /\ Rising(take[n])
        /\ row \in [Notes -> Rows]
    BY NoteTyped DEF SavesRise, RecInv, RecorderTypeOK, Rows
  <1>2. q # <<>> /\ q \in Seq(1 .. MaxBytes) /\ take[n].phase \in Capturing
    BY <1>1 DEF Save, SaveFails, Takes
  <1>3. Head(q) \in 1 .. MaxBytes /\ Tail(q) \in Seq(1 .. MaxBytes) /\ Head(q) \in 0 .. MaxBytes
    <2> HIDE DEF q, s
    <2>1. Head(q) \in 1 .. MaxBytes /\ Tail(q) \in Seq(1 .. MaxBytes)
      BY <1>2, HeadTailProperties
    <2> QED BY <2>1, RecorderAssumption
  <1>4. s \in Takes /\ s.queue = Tail(q) /\ s.saved \in {take[n].saved, Head(q)} /\ s.bytes = take[n].bytes
    BY <1>1, <1>3 DEF Takes
  <1>5. Rising(s) /\ Head(q) > take[n].saved
    BY <1>1, <1>2, <1>4, RisingTail
  <1>6. CASE Save(n)
    <2>1. take' = [take EXCEPT ![n] = s] /\ row' = [row EXCEPT ![n].audio = Head(q)]
      BY <1>1, <1>6 DEF Save, Takes
    <2>2. row[n].status = "recording" /\ row[n].audio = take[n].saved
      BY <1>1, <1>2 DEF Fits
    <2> HIDE DEF s, q
    <2>3. row'[n].audio = Head(q) /\ row' = [row EXCEPT ![n] = row'[n]]
      BY <1>1, <2>1 DEF Rows
    <2>4. row'[n].audio >= row[n].audio
      BY <1>1, <1>3, <1>5, <2>2, <2>3 DEF Rows
    <2> QED BY <1>5, <2>1, <2>2, <2>3, <2>4, RisingOne DEF RowsGrow, Settled
  <1>7. CASE SaveFails(n) /\ ~Save(n)
    <2>1. take' = [take EXCEPT ![n] = Stopped(s)] /\ row' = row
      BY <1>7 DEF SaveFails
    <2> HIDE DEF s, q
    <2> QED BY <1>4, <1>5, <2>1, StoppedRises, RisingOne DEF RowsGrow
  <1> QED BY <1>6, <1>7

LEMMA ChunkRises ==
  ASSUME RecInv, SavesRise, NEW n \in Notes, NEW z \in Sizes, Chunk(n, z)
  PROVE  SavesRise' /\ RowsGrow
PROOF
  <1> DEFINE sum == take[n].bytes + z
             grown == [[take[n] EXCEPT !.bytes = sum] EXCEPT !.queue = Append(take[n].queue, sum)]
             kept == IF sum > MaxBytes THEN take[n] ELSE grown
  <1>1. take[n] \in Takes /\ Rising(take[n]) /\ take[n].bytes \in Nat /\ sum \in Nat /\ sum > take[n].bytes
    BY NoteTyped, RecorderAssumption DEF Takes, SavesRise
  <1>2. take' = [take EXCEPT ![n] = IF sum >= MaxBytes THEN Stopped(kept) ELSE kept] /\ row' = row
    BY <1>1 DEF Chunk, Takes
  <1>3. sum <= MaxBytes => grown \in Takes /\ Rising(grown)
    <2> SUFFICES ASSUME sum <= MaxBytes PROVE grown \in Takes /\ Rising(grown)
      OBVIOUS
    <2>1. sum \in 0 .. MaxBytes /\ sum \in 1 .. MaxBytes
      BY <1>1, RecorderAssumption
    <2>2. Append(take[n].queue, sum) \in Seq(1 .. MaxBytes)
      BY <1>1, <2>1 DEF Takes
    <2> HIDE DEF sum
    <2>3. grown \in Takes /\ grown.queue = Append(take[n].queue, sum) /\ grown.saved = take[n].saved
          /\ grown.bytes = sum
      BY <1>1, <2>1, <2>2 DEF Takes
    <2> HIDE DEF grown
    <2> QED BY <1>1, <2>3, RisingAppend
  <1>4. kept \in Takes /\ Rising(kept)
    BY <1>1, <1>3, RecorderAssumption
  <1> HIDE DEF kept, sum
  <1>5. Rising(IF sum >= MaxBytes THEN Stopped(kept) ELSE kept)
    BY <1>4, StoppedRises
  <1> QED BY <1>2, <1>5, RisingOne DEF RowsGrow

\* The row gets a status and keeps its audio; the take is over or goes on.
LEMMA RestRises ==
  ASSUME RecInv, SavesRise, NEW n \in Notes,
         \/ Claimed(n) \/ Put(n) \/ Granted(n) \/ StartFails(n) \/ Discard(n) \/ MicEnds(n) \/ Ended(n)
         \/ Close(n) \/ Recovery(n)
  PROVE  SavesRise' /\ RowsGrow
PROOF
  <1>1. take[n] \in Takes /\ row[n] \in Rows /\ Fits(row[n], owner[n], take[n], fix[n]) /\ Rising(take[n])
        /\ take = [take EXCEPT ![n] = take[n]] /\ row = [row EXCEPT ![n] = row[n]] /\ row \in [Notes -> Rows]
    BY NoteTyped DEF SavesRise, RecInv, RecorderTypeOK, Rows
  <1>2. SavesRise'
    <2>1. ASSUME NEW p, take' = [take EXCEPT ![n] = [take[n] EXCEPT !.phase = p]] PROVE SavesRise'
      <3> DEFINE k == [take[n] EXCEPT !.phase = p]
      <3>1. k.queue = take[n].queue /\ k.saved = take[n].saved /\ k.bytes = take[n].bytes
        BY <1>1 DEF Takes
      <3> HIDE DEF k
      <3>2. Rising(k)
        BY <1>1, <3>1, RisingStays
      <3> QED BY <2>1, <3>2, RisingOne DEF k
    <2>2. ASSUME NEW p, take' = [take EXCEPT ![n] = Spent(n, p)] PROVE SavesRise'
      BY <2>2, SpentRises, RisingOne
    <2>3. ASSUME take' = take PROVE SavesRise'
      BY <1>1, <2>3, RisingOne
    <2>4. \/ take' = take
          \/ take' = [take EXCEPT ![n] = Spent(n, "done")]
          \/ \E p \in Phases : take' = [take EXCEPT ![n] = [take[n] EXCEPT !.phase = p]]
      BY <1>1 DEF Claimed, Put, Granted, StartFails, Discard, MicEnds, Ended, Close, Recovery, RecoverLock,
                  RecoverPatch, RecoverFails, Phases, Starting, Capturing
    <2> QED BY <2>1, <2>2, <2>3, <2>4
  <1>3. RowsGrow
    <2>1. CASE row' = row
      BY <2>1 DEF RowsGrow
    <2>2. ASSUME NEW s, NEW b, row' = [row EXCEPT ![n] = [row[n] EXCEPT !.status = s, !.recovered = b]], ~Settled(n)
          PROVE  RowsGrow
      <3>1. row'[n].audio = row[n].audio /\ row' = [row EXCEPT ![n] = row'[n]] /\ row[n].audio \in Nat
        BY <1>1, <2>2, RecorderAssumption DEF Rows
      <3>2. row'[n].audio >= row[n].audio
        BY <3>1
      <3>3. ~Settled(n) /\ row' = [row EXCEPT ![n] = row'[n]]
        BY <2>2, <3>1
      <3> QED BY <3>2, <3>3 DEF RowsGrow
    <2>3. CASE Put(n)
      <3>1. row[n] = NoRow /\ row'[n].audio = 0 /\ row' = [row EXCEPT ![n] = row'[n]]
        BY <1>1, <2>3 DEF Put, Fits, NoRow
      <3> QED BY <3>1 DEF RowsGrow, Settled, NoRow
    <2>4. CASE (Discard(n) \/ Close(n)) /\ row' # row
      <3>1. PICK s : row' = [row EXCEPT ![n].status = s]
        BY <2>4 DEF Discard, Close
      <3>2. row' = [row EXCEPT ![n] = [row[n] EXCEPT !.status = s, !.recovered = row[n].recovered]]
        BY <1>1, <3>1 DEF Rows
      <3>3. ~Settled(n)
        BY <1>1, <2>4 DEF Discard, Close, Fits, Settled, Capturing
      <3> QED BY <2>2, <3>2, <3>3
    <2>5. CASE RecoverPatch(n)
      <3>1. row' = [row EXCEPT ![n] = [row[n] EXCEPT !.status = fix[n], !.recovered = TRUE]] /\ ~Settled(n)
        BY <1>1, <2>5 DEF RecoverPatch, Fits, Settled
      <3> QED BY <2>2, <3>1
    <2>6. row' = row \/ Put(n) \/ Discard(n) \/ Close(n) \/ RecoverPatch(n)
      BY DEF Claimed, Granted, StartFails, MicEnds, Ended, Recovery, RecoverLock, RecoverFails
    <2> QED BY <2>1, <2>3, <2>4, <2>5, <2>6
  <1> QED BY <1>2, <1>3

\* What every step of every take, tab and recovery does to queues and rows.
LEMMA RecorderRises ==
  ASSUME RecInv, SavesRise,
         \/ \E n \in Notes : Recorder(n) \/ Recovery(n)
         \/ \E t \in Tabs, n \in Notes : Start(t, n)
         \/ \E t \in Tabs : Stop(t) \/ Invalidate(t) \/ Reload(t)
  PROVE  SavesRise' /\ RowsGrow
PROOF
  <1>1. ASSUME NEW n \in Notes, Recorder(n) \/ Recovery(n) PROVE SavesRise' /\ RowsGrow
    BY <1>1, SaveRises, ChunkRises, RestRises DEF Recorder
  <1>2. ASSUME NEW t \in Tabs, NEW n \in Notes, Start(t, n) PROVE SavesRise' /\ RowsGrow
    <2> DEFINE k == [NoTake EXCEPT !.tab = t, !.phase = "claiming"]
    <2>1. Rising(k)
      BY DEF NoTake, Rising
    <2>2. take' = [take EXCEPT ![n] = k] /\ row' = row
      BY <1>2 DEF Start
    <2> HIDE DEF k
    <2> QED BY <2>1, <2>2, RisingOne DEF RowsGrow
  <1>3. ASSUME NEW t \in Tabs, Stop(t) \/ Invalidate(t) PROVE SavesRise' /\ RowsGrow
    <2>1. active[t] \in Notes /\ take' = [take EXCEPT ![active[t]] = Stopped(take[active[t]])] /\ row' = row
      BY <1>3 DEF Stop, Invalidate, RecInv, RecorderTypeOK
    <2>2. Rising(Stopped(take[active[t]]))
      BY <2>1, NoteTyped, StoppedRises DEF SavesRise
    <2> QED BY <2>1, <2>2, RisingOne DEF RowsGrow
  <1>4. ASSUME NEW t \in Tabs, Reload(t) PROVE SavesRise' /\ RowsGrow
    <2>1. row' = row /\ \A n \in Notes : take'[n] \in {take[n], Spent(n, "lost")}
      BY <1>4 DEF Reload
    <2> QED BY <2>1, SpentRises DEF SavesRise, RowsGrow
  <1> QED BY <1>1, <1>2, <1>3, <1>4

-----------------------------------------------------------------------------
(* What a lost tab or a failed verdict leaves behind can be recovered.      *)

\* A take that a page may have as its active one: it has not been stopped, or
\* its recorder runs, or ran.
Going(k) == k.phase \in Capturing \/ (k.phase \in Starting /\ ~k.stopping)
Actives == \A t \in Tabs : active[t] # NoNote => take[active[t]].tab = t /\ Going(take[active[t]])

LEMMA ActiveTyped ==
  ASSUME RecInv
  PROVE  active \in [Tabs -> Notes \cup {NoNote}] /\ take \in [Notes -> Takes] /\ NoNote \notin Notes
BY RecorderAssumption DEF RecInv, RecorderTypeOK, Takes

\* A step that changes one take leaves it active only where it is still going.
LEMMA ActiveOne ==
  ASSUME RecInv, Actives, NEW n \in Notes, NEW k, take' = [take EXCEPT ![n] = k],
         \/ active' = Freed(n)
         \/ active' = active /\ k.tab = take[n].tab /\ (Going(take[n]) => Going(k))
  PROVE  Actives'
PROOF
  <1> SUFFICES ASSUME NEW t \in Tabs, active'[t] # NoNote
               PROVE  take'[active'[t]].tab = t /\ Going(take'[active'[t]])
    BY DEF Actives, Going
  <1>1. active'[t] = active[t] /\ active[t] \in Notes /\ (active' = Freed(n) => active[t] # n)
    BY ActiveTyped DEF Freed
  <1>2. take[active[t]].tab = t /\ Going(take[active[t]])
    BY <1>1, ActiveTyped DEF Actives
  <1>3. CASE active[t] = n
    BY <1>1, <1>2, <1>3, ActiveTyped
  <1>4. CASE active[t] # n
    BY <1>1, <1>2, <1>4, ActiveTyped
  <1> QED BY <1>3, <1>4

\* A take that is not going, or not wanted when it resumes, is nobody's active one.
LEMMA NobodysActive ==
  ASSUME RecInv, Actives, NEW n \in Notes,
         ~Going(take[n]) \/ (take[n].phase \in Starting /\ ~Wanted(n))
  PROVE  active = Freed(n)
PROOF
  <1>1. ASSUME NEW t \in Tabs, active[t] = n PROVE FALSE
    <2>1. take[n].tab = t /\ Going(take[n])
      BY <1>1, ActiveTyped DEF Actives
    <2> QED BY <1>1, <2>1 DEF Going, Wanted, Starting, Capturing
  <1> QED BY <1>1, ActiveTyped DEF Freed

LEMMA RecorderActives ==
  ASSUME RecInv, Actives, NEW n \in Notes, Recorder(n) \/ Recovery(n)
  PROVE  Actives'
PROOF
  <1>1. take[n] \in Takes /\ take = [take EXCEPT ![n] = take[n]]
    BY NoteTyped
  <1>2. CASE Recovery(n)
    BY <1>1, <1>2, ActiveOne DEF Recovery, RecoverLock, RecoverPatch, RecoverFails
  <1>3. CASE Claimed(n) \/ Granted(n)
    <2>1. active' = active /\ take[n].phase \in Starting
      BY <1>3 DEF Claimed, Granted, Starting
    <2>2. ASSUME Wanted(n), NEW p \in {"putting", "recording"},
                 take' = [take EXCEPT ![n] = [take[n] EXCEPT !.phase = p]]
          PROVE  Actives'
      <3> DEFINE k == [take[n] EXCEPT !.phase = p]
      <3>1. k.tab = take[n].tab /\ Going(k)
        BY <1>1, <2>2 DEF Wanted, Going, Takes, Starting, Capturing
      <3> HIDE DEF k
      <3> QED BY <2>1, <2>2, <3>1, ActiveOne DEF k
    <2>3. ASSUME ~Wanted(n), NEW k, take' = [take EXCEPT ![n] = k]
          PROVE  Actives'
      BY <2>1, <2>3, NobodysActive, ActiveOne
    <2>4. CASE Wanted(n)
      <3>1. \E p \in {"putting", "recording"} : take' = [take EXCEPT ![n] = [take[n] EXCEPT !.phase = p]]
        BY <1>3, <2>4 DEF Claimed, Granted
      <3> QED BY <2>2, <2>4, <3>1
    <2>5. CASE ~Wanted(n)
      <3>1. \E k : take' = [take EXCEPT ![n] = k]
        BY <1>3 DEF Claimed, Granted
      <3> QED BY <2>3, <2>5, <3>1
    <2> QED BY <2>4, <2>5
  <1>4. CASE Put(n) \/ MicEnds(n) \/ Ended(n) \/ Save(n)
    <2>1. PICK k : /\ take' = [take EXCEPT ![n] = k] /\ k.tab = take[n].tab /\ k.stopping = take[n].stopping
                   /\ \/ k.phase = take[n].phase
                      \/ k.phase \in Capturing
                      \/ k.phase = "asking" /\ take[n].phase = "putting"
      <3>1. CASE Put(n) \/ MicEnds(n) \/ Ended(n)
        BY <1>1, <3>1 DEF Put, MicEnds, Ended, Takes, Capturing
      <3>2. CASE Save(n)
        <4> DEFINE k == [[take[n] EXCEPT !.saved = Head(take[n].queue)] EXCEPT !.queue = Tail(take[n].queue)]
        <4>1. take' = [take EXCEPT ![n] = k]
          BY <1>1, <3>2 DEF Save, Takes
        <4>2. k.tab = take[n].tab /\ k.stopping = take[n].stopping /\ k.phase = take[n].phase
          BY <1>1 DEF Takes
        <4> HIDE DEF k
        <4> QED BY <4>1, <4>2
      <3> QED BY <1>4, <3>1, <3>2
    <2>2. active' = active
      BY <1>4 DEF Put, MicEnds, Ended, Save
    <2>3. Going(take[n]) => Going(k)
      BY <2>1 DEF Going, Starting, Capturing
    <2> QED BY <2>1, <2>2, <2>3, ActiveOne
  <1>5. CASE StartFails(n) \/ Close(n)
    BY <1>5, ActiveOne DEF StartFails, Close
  <1>6. CASE Discard(n)
    <2>1. ~Going(take[n]) /\ active' = active
      BY <1>6 DEF Discard, Going, Starting, Capturing
    <2> QED BY <1>6, <2>1, NobodysActive, ActiveOne DEF Discard
  <1>7. ASSUME NEW k \in Takes, k.tab = take[n].tab, k.phase = take[n].phase, take[n].phase \in Capturing,
               \/ take' = [take EXCEPT ![n] = k] /\ active' = active
               \/ take' = [take EXCEPT ![n] = Stopped(k)] /\ active' = FreedByStop(n)
        PROVE  Actives'
    <2>1. Stopped(k).tab = k.tab /\ Going(k) /\ Going(Stopped(k))
      BY <1>7, StoppedTyped DEF Going, Capturing
    <2> HIDE DEF Going
    <2>2. FreedByStop(n) \in {active, Freed(n)}
      BY DEF FreedByStop
    <2> QED BY <1>7, <2>1, <2>2, ActiveOne
  <1>8. ASSUME NEW z \in Sizes, Chunk(n, z)
        PROVE  Actives'
    <2> DEFINE sum == take[n].bytes + z
               kept == IF sum > MaxBytes THEN take[n]
                       ELSE [[take[n] EXCEPT !.bytes = sum] EXCEPT !.queue = Append(take[n].queue, sum)]
    <2>1. kept \in Takes /\ kept.tab = take[n].tab /\ kept.phase = take[n].phase
      <3>1. CASE sum > MaxBytes
        BY <1>1, <3>1
      <3>2. CASE ~(sum > MaxBytes)
        <4>1. sum \in 1 .. MaxBytes
          BY <1>1, <3>2, RecorderAssumption DEF Takes
        <4>2. Append(take[n].queue, sum) \in Seq(1 .. MaxBytes)
          BY <1>1, <4>1, AppendProperties DEF Takes
        <4>3. sum \in 0 .. MaxBytes
          BY <4>1
        <4> HIDE DEF sum
        <4> QED BY <1>1, <3>2, <4>2, <4>3 DEF Takes
      <3> QED BY <3>1, <3>2
    <2>2. /\ take[n].phase \in Capturing
          /\ take' = [take EXCEPT ![n] = IF sum >= MaxBytes THEN Stopped(kept) ELSE kept]
          /\ active' = IF sum >= MaxBytes THEN FreedByStop(n) ELSE active
      BY <1>1, <1>8 DEF Chunk, Capturing, Takes
    <2> HIDE DEF kept, sum
    <2> QED BY <1>7, <2>1, <2>2
  <1>9. CASE SaveFails(n)
    <2> DEFINE kept == [[take[n] EXCEPT !.error = TRUE] EXCEPT !.queue = Tail(take[n].queue)]
    <2>1. /\ take[n].phase \in Capturing /\ take[n].queue # <<>> /\ active' = FreedByStop(n)
          /\ take' = [take EXCEPT ![n] = Stopped(kept)] /\ take[n].queue \in Seq(1 .. MaxBytes)
      BY <1>1, <1>9 DEF SaveFails, Takes
    <2>2. Tail(take[n].queue) \in Seq(1 .. MaxBytes)
      BY <2>1, HeadTailProperties
    <2>3. kept \in Takes /\ kept.tab = take[n].tab /\ kept.phase = take[n].phase
      BY <1>1, <2>2 DEF Takes
    <2> HIDE DEF kept
    <2> QED BY <1>7, <2>1, <2>3
  <1> QED BY <1>2, <1>3, <1>4, <1>5, <1>6, <1>8, <1>9 DEF Recorder

\* A take that starts is the active one of its page, which had none; a page that
\* stops, turns away or reloads lets go of its own.
LEMMA TabActives ==
  ASSUME RecInv, Actives, NEW t \in Tabs,
         (\E n \in Notes : Start(t, n)) \/ Stop(t) \/ Invalidate(t) \/ Reload(t)
  PROVE  Actives'
PROOF
  <1>1. ASSUME NEW n \in Notes, Start(t, n) PROVE Actives'
    <2> DEFINE k == [NoTake EXCEPT !.tab = t, !.phase = "claiming"]
    <2>1. k.tab = t /\ Going(k)
      BY DEF NoTake, Going, Starting
    <2>2. /\ take' = [take EXCEPT ![n] = k] /\ active' = [active EXCEPT ![t] = n]
          /\ ~Going(take[n])
      BY <1>1 DEF Start, NoTake, Going, Starting, Capturing
    <2> HIDE DEF k, Going
    <2>3. \A u \in Tabs : active[u] # n
      BY <2>2, ActiveTyped DEF Actives
    <2>4. ASSUME NEW u \in Tabs, active'[u] # NoNote
          PROVE  take'[active'[u]].tab = u /\ Going(take'[active'[u]])
      <3>1. CASE u = t
        BY <2>1, <2>2, <3>1, ActiveTyped
      <3>2. CASE u # t
        <4>1. active'[u] = active[u] /\ active[u] \in Notes \ {n} /\ take'[active[u]] = take[active[u]]
          BY <2>2, <2>3, <2>4, <3>2, ActiveTyped
        <4>2. take[active[u]].tab = u /\ Going(take[active[u]])
          BY <4>1, ActiveTyped DEF Actives
        <4> QED BY <4>1, <4>2
      <3> QED BY <3>1, <3>2
    <2> QED BY <2>4 DEF Actives, Going
  <1>2. CASE Stop(t) \/ Invalidate(t)
    <2> DEFINE n == active[t]
    <2>1. n \in Notes /\ take' = [take EXCEPT ![n] = Stopped(take[n])] /\ take[n] \in Takes
      BY <1>2, ActiveTyped DEF Stop, Invalidate
    <2>2. take[n].tab = t /\ Going(take[n])
      BY <2>1, ActiveTyped DEF Actives
    <2>3. Stopped(take[n]).tab = take[n].tab /\ (take[n].phase \in Capturing => Going(Stopped(take[n])))
      BY <2>1, StoppedTyped DEF Going, Capturing
    <2>4. CASE Stop(t)
      <3>1. active' = FreedByStop(n) /\ ~take[n].stopping
        BY <2>4 DEF Stop
      <3>2. CASE take[n].phase = "recording"
        BY <2>1, <2>3, <3>1, <3>2, ActiveOne DEF FreedByStop, Capturing
      <3>3. CASE take[n].phase # "recording"
        BY <2>1, <3>1, <3>3, ActiveOne DEF FreedByStop
      <3> QED BY <3>2, <3>3
    <2>5. CASE Invalidate(t)
      <3>1. active' = [active EXCEPT ![t] = NoNote]
        BY <2>5 DEF Invalidate
      <3>2. \A u \in Tabs : active[u] = n => u = t
        BY <2>1, <2>2, ActiveTyped DEF Actives
      <3>3. active' = Freed(n)
        BY <3>1, <3>2, ActiveTyped DEF Freed
      <3> QED BY <2>1, <3>3, ActiveOne
    <2> QED BY <1>2, <2>4, <2>5
  <1>3. CASE Reload(t)
    <2>1. /\ active' = [active EXCEPT ![t] = NoNote]
          /\ \A n \in Notes : take[n].tab # t => take'[n] = take[n]
      BY <1>3 DEF Reload
    <2>2. ASSUME NEW u \in Tabs, active'[u] # NoNote
          PROVE  take'[active'[u]].tab = u /\ Going(take'[active'[u]])
      <3>1. u # t /\ active'[u] = active[u] /\ active[u] \in Notes
        BY <2>1, <2>2, ActiveTyped
      <3>2. take[active[u]].tab = u /\ Going(take[active[u]])
        BY <3>1, ActiveTyped DEF Actives
      <3> QED BY <2>1, <3>1, <3>2
    <2> QED BY <2>2 DEF Actives, Going
  <1> QED BY <1>1, <1>2, <1>3

\* What every step of every take, tab and recovery does to the active takes.
LEMMA StepActives ==
  ASSUME RecInv, Actives,
         \/ \E n \in Notes : Recorder(n) \/ Recovery(n)
         \/ \E t \in Tabs, n \in Notes : Start(t, n)
         \/ \E t \in Tabs : Stop(t) \/ Invalidate(t) \/ Reload(t)
  PROVE  Actives'
BY RecorderActives, TabActives

LEMMA InitActives == InitRecorder => Actives
BY DEF InitRecorder, Actives

LEMMA RecFree == RecInv /\ Actives => AbandonedIsFree
PROOF
  <1> SUFFICES ASSUME RecInv, Actives, NEW n \in Notes, take[n].phase \in {"lost", "done"}
               PROVE  \/ owner[n] # NoTab /\ fix[n] # "none"
                      \/ owner[n] = NoTab /\ fix[n] = "none" /\ \A t \in Tabs : active[t] # n
    BY DEF AbandonedIsFree
  <1>1. /\ take[n].phase \notin Locking
        /\ ~Going(take[n])
    BY DEF Locking, Going, Starting, Capturing
  <1>2. (owner[n] # NoTab) <=> (fix[n] # "none")
    BY <1>1, NoteTyped DEF Fits
  <1>3. \A t \in Tabs : active[t] # n
    BY <1>1, ActiveTyped DEF Actives
  <1> QED BY <1>2, <1>3

-----------------------------------------------------------------------------

LEMMA DayNextInv == RecInv /\ [DayNext]_recorder => RecInv'
PROOF
  <1> SUFFICES ASSUME RecInv, [DayNext]_recorder PROVE RecInv'
    OBVIOUS
  <1>1. CASE DayNext
    BY <1>1, RecorderInv, StartInv, StopInv, ReloadInv DEF DayNext
  <1>2. CASE UNCHANGED recorder
    BY <1>2 DEF recorder, RecInv, RecorderTypeOK, Visible
  <1> QED BY <1>1, <1>2

\* What holds at every step of any number of takes, tabs and recoveries: the
\* conjunction from which the promises of the recorder follow.
THEOREM DayInvariance == DaySpec => []RecInv
BY InitRec, DayNextInv, PTL DEF DaySpec

\* The state of the recorder keeps its type; no take ever holds more than the cap.
LEMMA RecType == RecInv => RecorderTypeOK
BY DEF RecInv

LEMMA RecRunning == RecInv => RunningIsActive
BY DEF RecInv, Visible, RunningIsActive

LEMMA RecLive == RecInv => LiveUntouched
BY DEF RecInv, Fits, Locking, LiveUntouched

LEMMA RecSaved == RecInv => SavedMeansStored
PROOF
  <1> SUFFICES ASSUME RecInv, NEW n \in Notes, take[n] # NoTake, row[n].status = "local", ~row[n].recovered
      PROVE row[n].audio = take[n].bytes /\ row[n].audio > 0
    BY DEF SavedMeansStored
  <1> QED BY NoteTyped DEF Fits

\* A recording that goes on in one tab is finished by no other: its tab holds
\* the lock of the note for as long as it captures or writes.
THEOREM DayLiveUntouched == DaySpec => []LiveUntouched
BY DayInvariance, RecLive, PTL

\* What is offered as saved, and not marked as interrupted, is all that the
\* recorder kept.
THEOREM DaySavedMeansStored == DaySpec => []SavedMeansStored
BY DayInvariance, RecSaved, PTL

\* A lock is never left behind: whatever stops a take, and whichever writes of its
\* row fail, a note that stays "recording" after it is free to be finished.
THEOREM DayAbandonedIsFree == DaySpec => []AbandonedIsFree
PROOF
  <1>1. RecInv /\ Actives /\ [DayNext]_recorder => Actives'
    <2>1. ASSUME RecInv, Actives, UNCHANGED recorder PROVE Actives'
      BY <2>1 DEF recorder, Actives, Going
    <2> QED BY <2>1, StepActives DEF DayNext
  <1> QED BY <1>1, InitActives, RecFree, DayInvariance, PTL DEF DaySpec

\* A save that comes late, a verdict or a recovery never stores less of a
\* recording than the device has: no step of the recorder shrinks a row.
THEOREM StoredAudioGrows == DaySpec => [][\A n \in Notes : row'[n].audio >= row[n].audio]_recorder
PROOF
  <1> DEFINE Grows == \A n \in Notes : row'[n].audio >= row[n].audio
  <1>1. RecInv /\ SavesRise /\ [DayNext]_recorder => SavesRise' /\ [Grows]_recorder
    <2> SUFFICES ASSUME RecInv, SavesRise, [DayNext]_recorder PROVE SavesRise' /\ [Grows]_recorder
      OBVIOUS
    <2>1. CASE DayNext
      <3>1. SavesRise' /\ RowsGrow
        BY <2>1, RecorderRises DEF DayNext
      <3>2. row \in [Notes -> Rows] /\ \A n \in Notes : row[n].audio \in Nat
        BY RecorderAssumption DEF RecInv, RecorderTypeOK, Rows
      <3>3. Grows
        BY <3>1, <3>2 DEF RowsGrow
      <3> QED BY <3>1, <3>3
    <2>2. CASE UNCHANGED recorder
      BY <2>2 DEF recorder, SavesRise
    <2> QED BY <2>1, <2>2
  <1>2. DaySpec => []SavesRise
    BY <1>1, InitRising, DayInvariance, PTL DEF DaySpec
  <1> QED BY <1>1, <1>2, DayInvariance, PTL DEF DaySpec
================================================================================
