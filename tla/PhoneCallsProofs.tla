---------------------------- MODULE PhoneCallsProofs ----------------------------
(***************************************************************************)
(* Theorems about PhoneCalls, for any tabs, notes and sizes.               *)
(*                                                                         *)
(* The transfers and status answers of all tabs write to rows that are     *)
(* settled (DayRecorderProofs), and the recorder leaves settled rows       *)
(* alone: so the audio a transfer has read stays what it is or is removed, *)
(* and what the service has, once it has something, is that audio.         *)
(***************************************************************************)
EXTENDS PhoneCalls, DayRecorderProofs

Jobs == [step : Steps, note : Notes \cup {NoNote}, expired : BOOLEAN, audio : 0 .. MaxBytes, answer : Answers]
Polls == [note : Notes \cup {NoNote}, answer : Answers]

\* Steps of a transfer that still carries the audio it has read.
Carrying == {"admit", "keep", "ask", "weigh", "put"}

Typed ==
  /\ session \in [Notes -> BOOLEAN] /\ srv \in [Notes -> Sessions]
  /\ job \in [Tabs -> Jobs] /\ poll \in [Tabs -> Polls]

\* The service's word that it needs no device is never taken back.
NoteInv(n) ==
  /\ session[n] \/ srv[n].bytes > 0 => Settled(n)
  /\ srv[n].transferred => srv[n].bytes > 0 /\ srv[n].state \in {"held", "processing"}
  /\ srv[n].bytes > 0 /\ row[n].audio > 0 => srv[n].bytes = row[n].audio
  /\ session[n] /\ row[n].audio = 0 => srv[n].transferred

\* The audio that was read for note n is that of its row, unless the service has
\* handed it on and it was removed.
Carried(n, audio) == row[n].audio = audio \/ (row[n].audio = 0 /\ srv[n].transferred)

JobFits(j) ==
  j.step # "idle" =>
    /\ j.note \in Notes /\ Settled(j.note)
    /\ j.answer.transferred => srv[j.note].transferred
    /\ j.step \in Carrying => j.audio > 0 /\ Carried(j.note, j.audio)

PollFits(q) ==
  q # NoPoll =>
    /\ q.note \in Notes /\ Settled(q.note)
    /\ q.answer.transferred => srv[q.note].transferred

CallInv ==
  /\ Typed
  /\ \A n \in Notes : NoteInv(n)
  /\ \A t \in Tabs : JobFits(job[t]) /\ PollFits(poll[t])

Inv == RecInv /\ CallInv

\* A step keeps settled rows settled, and leaves their audio or removes it with
\* the service's word.
RowsHold ==
  \A n \in Notes : Settled(n) =>
    Settled(n)' /\ (row'[n].audio = row[n].audio \/ (row'[n].audio = 0 /\ srv[n].transferred))

-----------------------------------------------------------------------------

LEMMA RowsTyped == RecInv => row \in [Notes -> Rows]
BY DEF RecInv, RecorderTypeOK, Rows

\* What a step leaves alone stays in order, where the rows hold and the service
\* takes nothing back.
SrvHolds == \A n \in Notes : srv[n].transferred => srv'[n].transferred

LEMMA NoteHolds ==
  ASSUME Inv, RecInv', RowsHold, NEW n \in Notes, srv'[n] = srv[n], session'[n] = session[n]
  PROVE  NoteInv(n)'
PROOF
  <1>1. NoteInv(n) /\ row[n] \in Rows
    BY RowsTyped DEF Inv, CallInv
  <1>2. Settled(n) => Settled(n)' /\ (row'[n].audio = row[n].audio \/ (row'[n].audio = 0 /\ srv[n].transferred))
    BY DEF RowsHold
  <1> QED BY <1>1, <1>2 DEF NoteInv

LEMMA JobHolds ==
  ASSUME Inv, RowsHold, SrvHolds, NEW t \in Tabs, job'[t] = job[t]
  PROVE  JobFits(job[t])'
PROOF
  <1>1. JobFits(job[t])
    BY DEF Inv, CallInv
  <1> QED BY <1>1 DEF JobFits, Carried, RowsHold, SrvHolds, Settled

LEMMA PollHolds ==
  ASSUME Inv, RowsHold, SrvHolds, NEW t \in Tabs, poll'[t] = poll[t]
  PROVE  PollFits(poll[t])'
PROOF
  <1>1. PollFits(poll[t])
    BY DEF Inv, CallInv
  <1> QED BY <1>1 DEF PollFits, RowsHold, SrvHolds, Settled

LEMMA CallsStand ==
  ASSUME Inv, RowsHold, UNCHANGED calls, RecInv'
  PROVE  Inv'
PROOF
  <1>1. Typed' /\ session' = session /\ srv' = srv /\ job' = job /\ poll' = poll /\ SrvHolds
    BY DEF Inv, CallInv, Typed, calls, SrvHolds
  <1> QED BY <1>1, NoteHolds, JobHolds, PollHolds DEF CallInv, Inv

LEMMA RecorderStands ==
  ASSUME RecInv, UNCHANGED recorder
  PROVE  RecInv' /\ RowsHold
BY DEF RecInv, RecorderTypeOK, Visible, recorder, RowsHold, Settled

\* A step of the transfer that a tab is busy with.
LEMMA JobStep ==
  ASSUME Inv, RecInv', RowsHold, NEW t \in Tabs, job' = [job EXCEPT ![t] = job'[t]], job'[t] \in Jobs,
         JobFits(job[t])', session' = session, srv' = srv, poll' = poll
  PROVE  Inv'
PROOF
  <1>1. Typed' /\ SrvHolds
    BY DEF Inv, CallInv, Typed, SrvHolds
  <1>2. \A u \in Tabs : JobFits(job[u])'
    <2> SUFFICES ASSUME NEW u \in Tabs PROVE JobFits(job[u])'
      OBVIOUS
    <2>1. CASE u = t
      BY <2>1
    <2>2. CASE u # t
      <3>1. job'[u] = job[u]
        BY <2>2 DEF Inv, CallInv, Typed
      <3> QED BY <1>1, <3>1, JobHolds
    <2> QED BY <2>1, <2>2
  <1> QED BY <1>1, <1>2, NoteHolds, PollHolds DEF CallInv, Inv

LEMMA RowsKeepHold == RowsKeep => RowsHold
BY DEF RowsKeep, RowsHold

\* A write of the page: a row that is settled gets another status, and keeps its
\* audio or loses it.
Writes(n) ==
  /\ UNCHANGED <<owner, take, active, fix>>
  /\ \/ row' = row
     \/ \E s \in {"failed", "pending", "queued", "expired", "held", "transferred"} :
          \/ row' = [row EXCEPT ![n].status = s]
          \/ row' = [row EXCEPT ![n].status = s, ![n].audio = 0]

LEMMA WritesInv ==
  ASSUME RecInv, NEW n \in Notes, Settled(n), Writes(n), row'[n].audio = row[n].audio \/ srv[n].transferred
  PROVE  RecInv' /\ RowsHold
PROOF
  <1>1. row \in [Notes -> Rows]
    BY RowsTyped
  <1>2. CASE row' = row
    <2>1. RecInv'
      BY <1>2 DEF Writes, RecInv, RecorderTypeOK, Visible
    <2> QED BY <1>2, <2>1 DEF RowsHold, Settled
  <1>3. ASSUME NEW s \in {"failed", "pending", "queued", "expired", "held", "transferred"},
               \/ row' = [row EXCEPT ![n].status = s]
               \/ row' = [row EXCEPT ![n].status = s, ![n].audio = 0]
        PROVE  RecInv' /\ RowsHold
    <2> DEFINE r == row'[n]
    <2>1. row' = [row EXCEPT ![n] = r] /\ r.status = s /\ r.audio \in {row[n].audio, 0} /\ r \in Rows
      BY <1>1, <1>3, RecorderAssumption DEF Rows, Statuses
    <2> HIDE DEF r
    <2>2. /\ Fits(row[n], owner[n], take[n], fix[n]) /\ Visible(n)
          /\ take[n] \in Takes /\ owner[n] \in Tabs \cup {NoTab} /\ fix[n] \in {"none", "local", "empty"}
      BY NoteTyped
    <2>3. Fits(r, owner[n], take[n], fix[n])
      BY <2>1, <2>2 DEF Fits, Settled, NoRow
    <2>4. Changes(n, r, owner[n], take[n], fix[n]) /\ Activates(n) /\ active' = active
      BY <2>1, NoteTyped, FreedActive DEF Changes, Writes
    <2>5. RecInv'
      BY <2>1, <2>2, <2>3, <2>4, OneNote DEF Visible
    <2>6. RowsHold
      BY <1>1, <2>1 DEF RowsHold, Settled
    <2> QED BY <2>5, <2>6
  <1> QED BY <1>2, <1>3 DEF Writes

\* applyStatus is such a write, and removes the audio only with the service's word.
LEMMA ApplyStatusWrites ==
  ASSUME NEW n \in Notes, NEW a \in Answers, ApplyStatus(n, a), UNCHANGED <<owner, take, active, fix>>, RecInv
  PROVE  Writes(n) /\ (~a.transferred => row'[n].audio = row[n].audio)
BY RowsTyped DEF ApplyStatus, Keep, Remove, Writes, Rows

LEMMA IdleTyped == Idle \in Jobs /\ NoPoll \in Polls /\ ~NoAnswer.transferred /\ NoSession \in Sessions
PROOF
  <1>1. 0 \in 0 .. MaxBytes
    BY RecorderAssumption
  <1> QED BY <1>1 DEF Idle, NoPoll, NoAnswer, NoSession, Jobs, Polls, Answers, States, Steps, Sessions

LEMMA InitInv == Init => Inv
PROOF
  <1> SUFFICES ASSUME Init PROVE Inv
    OBVIOUS
  <1>1. RecInv
    BY InitRec DEF Init
  <1>2. Typed
    BY IdleTyped DEF Init, Typed
  <1>3. ASSUME NEW n \in Notes PROVE NoteInv(n)
    BY DEF Init, NoteInv, NoSession
  <1>4. ASSUME NEW t \in Tabs PROVE JobFits(job[t]) /\ PollFits(poll[t])
    BY DEF Init, JobFits, PollFits, Idle
  <1> QED BY <1>1, <1>2, <1>3, <1>4 DEF Inv, CallInv

LEMMA AnswerTyped ==
  ASSUME Inv, NEW n \in Notes
  PROVE  Answer(n) \in Answers /\ Answer(n).transferred = srv[n].transferred
BY DEF Inv, CallInv, Typed, Sessions, Answer, Answers

\* The job of a tab, as an action finds it.
LEMMA JobTyped ==
  ASSUME Inv, NEW t \in Tabs
  PROVE  job[t] \in Jobs /\ JobFits(job[t]) /\ job \in [Tabs -> Jobs] /\ job[t].answer \in Answers
BY DEF Inv, CallInv, Typed, Jobs

-----------------------------------------------------------------------------
(* The clicks, and the steps that write no row.                            *)

LEMMA ImportInv ==
  ASSUME Inv, NEW t \in Tabs, NEW n \in Notes, Import(t, n)
  PROVE  Inv' /\ RowsHold
PROOF
  <1>1. PICK z \in Sizes : z <= MaxBytes /\ row' = [row EXCEPT ![n] = [NoRow EXCEPT !.status = "local", !.audio = z]]
    BY DEF Import
  <1> DEFINE r == [NoRow EXCEPT !.status = "local", !.audio = z]
  <1>2. z \in 1 .. MaxBytes
    BY <1>1, RecorderAssumption
  <1>3. r \in Rows /\ r.status = "local" /\ row' = [row EXCEPT ![n] = r]
    <2>1. NoRow \in Rows /\ z \in 0 .. MaxBytes /\ "local" \in Statuses
      BY <1>2, NoTakeTyped DEF Statuses
    <2>2. r \in Rows /\ r.status = "local"
      BY <2>1 DEF Rows
    <2>3. row' = [row EXCEPT ![n] = r]
      BY <1>1
    <2> HIDE DEF r
    <2> QED BY <2>2, <2>3
  <1>4. row[n] = NoRow /\ take[n] = NoTake /\ owner' = owner /\ take' = take /\ active' = active /\ fix' = fix
        /\ UNCHANGED calls
    BY DEF Import
  <1>5. RecInv /\ Fits(row[n], owner[n], take[n], fix[n]) /\ take[n] \in Takes
        /\ owner[n] \in Tabs \cup {NoTab} /\ fix[n] \in {"none", "local", "empty"} /\ row \in [Notes -> Rows]
    BY NoteTyped, RowsTyped DEF Inv
  <1> HIDE DEF r
  <1>6. Fits(r, owner[n], take[n], fix[n]) /\ take[n].phase = "none"
    BY <1>3, <1>4, <1>5 DEF Fits, NoTake, NoRow, Starting, Capturing, Locking
  <1>7. Changes(n, r, owner[n], take[n], fix[n]) /\ Activates(n)
    BY <1>3, <1>4, <1>5, NoteTyped, FreedActive DEF Changes
  <1>8. RecInv'
    BY <1>3, <1>4, <1>5, <1>6, <1>7, OneNote
  <1>9. RowsHold
    BY <1>3, <1>4, <1>5 DEF RowsHold, Settled, NoRow
  <1> QED BY <1>4, <1>8, <1>9, CallsStand

LEMMA ClickInv ==
  ASSUME Inv, NEW t \in Tabs, NEW n \in Notes, Transfer(t, n) \/ CheckStatus(t, n)
  PROVE  Inv' /\ RowsHold
PROOF
  <1>0. RecInv' /\ RowsHold
    BY RecorderStands DEF Inv, Transfer, CheckStatus
  <1>1. row[n] \in Rows /\ Fits(row[n], owner[n], take[n], fix[n]) /\ row' = row /\ NoteInv(n)
        /\ session' = session /\ srv' = srv /\ poll' = poll /\ job \in [Tabs -> Jobs]
    BY NoteTyped, JobTyped DEF Inv, Transfer, CheckStatus, recorder, CallInv
  <1> DEFINE j == job'[t]
  <1>2. CASE Transfer(t, n)
    <2> DEFINE step == IF session[n] THEN "ask" ELSE "admit"
               e == row[n].status = "expired"
    <2>1. row[n].audio > 0 /\ row[n].status # "recording" /\ job' = [job EXCEPT ![t] = j]
          /\ j = [Idle EXCEPT !.step = step, !.note = n, !.expired = e, !.audio = row[n].audio]
      BY <1>1, <1>2 DEF Transfer
    <2>2. j \in Jobs /\ j.note = n /\ j.audio = row[n].audio /\ j.answer = NoAnswer
      BY <1>1, <2>1, IdleTyped DEF Jobs, Rows, Steps, Idle
    <2>3. Settled(n)
      BY <1>1, <2>1 DEF Settled, Fits
    <2>4. JobFits(job[t])'
      BY <1>1, <2>1, <2>2, <2>3, IdleTyped DEF JobFits, Carried, Settled
    <2> QED BY <1>0, <1>1, <2>1, <2>2, <2>4, JobStep
  <1>3. CASE CheckStatus(t, n)
    <2>1. session[n] /\ job' = [job EXCEPT ![t] = j] /\ j = [Idle EXCEPT !.step = "confirm", !.note = n]
      BY <1>1, <1>3 DEF CheckStatus
    <2>2. j \in Jobs /\ j.note = n /\ j.step = "confirm" /\ j.answer = NoAnswer
      <3>1. [Idle EXCEPT !.step = "confirm", !.note = n] \in Jobs
        BY IdleTyped DEF Jobs, Steps
      <3>2. j = [Idle EXCEPT !.step = "confirm", !.note = n]
        BY <2>1
      <3> HIDE DEF j
      <3> QED BY <3>1, <3>2 DEF Idle
    <2>3. JobFits(job[t])'
      BY <1>1, <2>1, <2>2, IdleTyped DEF JobFits, Carried, Settled, Carrying, NoteInv
    <2> QED BY <1>0, <1>1, <2>1, <2>2, <2>3, JobStep
  <1> QED BY <1>2, <1>3

\* A job that is over.
LEMMA OverInv ==
  ASSUME Inv, NEW t \in Tabs, Over(t), RecInv', RowsHold, session' = session, srv' = srv, poll' = poll
  PROVE  Inv'
PROOF
  <1>1. job'[t] = Idle /\ job' = [job EXCEPT ![t] = job'[t]]
    BY JobTyped DEF Over
  <1>2. JobFits(job[t])'
    BY <1>1 DEF JobFits, Idle
  <1> QED BY <1>1, <1>2, IdleTyped, JobStep

\* A job that goes on with the same note, audio and answer, or forgets its answer.
LEMMA ToInv ==
  ASSUME Inv, NEW t \in Tabs, NEW step \in Steps, job[t].step # "idle",
         step \in Carrying => job[t].step \in Carrying,
         job' = [job EXCEPT ![t].step = step] \/ job' = [job EXCEPT ![t].step = step, ![t].answer = NoAnswer],
         RecInv', RowsHold, session' = session, srv' = srv, poll' = poll
  PROVE  Inv'
PROOF
  <1>1. job[t] \in Jobs /\ JobFits(job[t]) /\ job \in [Tabs -> Jobs]
    BY JobTyped
  <1>2. /\ job' = [job EXCEPT ![t] = job'[t]] /\ job'[t] \in Jobs /\ job'[t].step = step
        /\ job'[t].note = job[t].note /\ job'[t].audio = job[t].audio
        /\ job'[t].answer \in {job[t].answer, NoAnswer}
    BY <1>1, IdleTyped DEF Jobs, Idle
  <1>3. JobFits(job[t])'
    BY <1>1, <1>2, IdleTyped DEF JobFits, Carried, RowsHold, Settled
  <1> QED BY <1>2, <1>3, JobStep

LEMMA ForwardInv ==
  ASSUME Inv, NEW t \in Tabs, Ask(t) \/ Throws(t) \/ Caught(t)
  PROVE  Inv' /\ RowsHold
PROOF
  <1>0. RecInv' /\ RowsHold
    BY RecorderStands DEF Inv, Ask, Throws, Caught
  <1>1. row' = row /\ session' = session /\ srv' = srv /\ poll' = poll
    BY DEF Ask, Throws, Caught, recorder
  <1>2. job[t] \in Jobs /\ JobFits(job[t]) /\ job \in [Tabs -> Jobs]
    BY JobTyped
  <1> DEFINE j == job'[t]
  <1>3. CASE Ask(t)
    <2> DEFINE step == IF job[t].step = "ask" THEN "weigh" ELSE "apply"
               a == Answer(job[t].note)
    <2>1. job[t].step \in {"ask", "confirm"} /\ job' = [job EXCEPT ![t] = j]
          /\ j = [[job[t] EXCEPT !.step = step] EXCEPT !.answer = a]
      BY <1>2, <1>3 DEF Ask, Jobs
    <2>2. job[t].note \in Notes
      BY <1>2, <2>1 DEF JobFits
    <2>3. a \in Answers /\ a.transferred = srv[job[t].note].transferred
      BY <2>2, AnswerTyped
    <2> HIDE DEF a
    <2>4. j \in Jobs /\ j.note = job[t].note /\ j.audio = job[t].audio /\ j.answer = a /\ j.step = step
      BY <1>2, <2>1, <2>3 DEF Jobs, Steps
    <2>5. JobFits(job[t])'
      BY <1>1, <1>2, <2>1, <2>3, <2>4 DEF JobFits, Carried, Settled, Carrying
    <2> QED BY <1>0, <1>1, <2>1, <2>4, <2>5, JobStep
  <1>4. CASE Throws(t)
    <2>1. job[t].step # "idle" /\ job' = [job EXCEPT ![t] = j]
          /\ j = [Idle EXCEPT !.step = "caught", !.note = job[t].note]
      BY <1>2, <1>4 DEF Throws
    <2>2. j \in Jobs /\ j.note = job[t].note /\ j.step = "caught" /\ j.answer = NoAnswer
      BY <1>2, <2>1, IdleTyped DEF Jobs, Steps, Idle
    <2>3. JobFits(job[t])'
      BY <1>1, <1>2, <2>1, <2>2, IdleTyped DEF JobFits, Carried, Settled, Carrying
    <2> QED BY <1>0, <1>1, <2>1, <2>2, <2>3, JobStep
  <1>5. CASE Caught(t)
    <2>1. job[t].step = "caught" /\ (Over(t) \/ To(t, "fail"))
      BY <1>5 DEF Caught
    <2>2. CASE Over(t)
      BY <1>0, <1>1, <2>2, OverInv
    <2>3. CASE To(t, "fail")
      <3>1. job' = [job EXCEPT ![t].step = "fail"]
        BY <2>3 DEF To
      <3>2. "fail" \in Steps /\ "fail" \notin Carrying
        BY DEF Steps, Carrying
      <3> QED BY <1>0, <1>1, <2>1, <3>1, <3>2, ToInv
    <2> QED BY <2>1, <2>2, <2>3
  <1> QED BY <1>3, <1>4, <1>5

-----------------------------------------------------------------------------
(* What the service is asked to do.                                        *)

LEMMA AdmitInv ==
  ASSUME Inv, NEW t \in Tabs, Admit(t)
  PROVE  Inv' /\ RowsHold
PROOF
  <1> DEFINE n == job[t].note
             s == srv'[n]
  <1>0. RecInv' /\ RowsHold /\ row' = row
    BY RecorderStands DEF Inv, Admit, recorder
  <1>1. job[t] \in Jobs /\ JobFits(job[t]) /\ job \in [Tabs -> Jobs] /\ srv \in [Notes -> Sessions]
        /\ session' = session /\ poll' = poll /\ job[t].step = "admit"
    BY JobTyped DEF Inv, CallInv, Typed, Admit
  <1>2. n \in Notes
    BY <1>1 DEF JobFits
  <1>3. /\ s \in Sessions /\ s.bytes = srv[n].bytes /\ s.transferred = srv[n].transferred
        /\ s.state = (IF srv[n].state = "none" THEN "pending" ELSE srv[n].state)
        /\ srv' \in [Notes -> Sessions] /\ \A m \in Notes : m # n => srv'[m] = srv[m]
    BY <1>1, <1>2 DEF Admit, Sessions, States
  <1>4. /\ job' = [job EXCEPT ![t] = job'[t]] /\ job'[t] \in Jobs /\ job'[t].step = "keep"
        /\ job'[t].note = n /\ job'[t].audio = job[t].audio /\ job'[t].answer = job[t].answer
    BY <1>1 DEF Admit, To, Jobs, Steps
  <1>5. SrvHolds
    BY <1>3 DEF SrvHolds
  <1>6. ASSUME NEW m \in Notes PROVE NoteInv(m)'
    <2>1. CASE m = n
      <3>1. NoteInv(n)
        BY <1>2 DEF Inv, CallInv
      <3> QED BY <1>0, <1>1, <1>3, <2>1, <3>1 DEF NoteInv, Settled
    <2>2. CASE m # n
      BY <1>0, <1>1, <1>3, <2>2, NoteHolds
    <2> QED BY <2>1, <2>2
  <1>7. ASSUME NEW u \in Tabs PROVE JobFits(job[u])'
    <2>1. CASE u = t
      BY <1>0, <1>1, <1>3, <1>4, <1>5, <2>1 DEF JobFits, Carried, Settled, Carrying, SrvHolds
    <2>2. CASE u # t
      <3>1. job'[u] = job[u]
        BY <1>1, <1>4, <2>2
      <3> QED BY <1>0, <1>5, <3>1, JobHolds
    <2> QED BY <2>1, <2>2
  <1>8. Typed'
    BY <1>1, <1>3, <1>4 DEF Inv, CallInv, Typed
  <1> QED BY <1>0, <1>1, <1>5, <1>6, <1>7, <1>8, PollHolds DEF Inv, CallInv

LEMMA KeepSessionInv ==
  ASSUME Inv, NEW t \in Tabs, KeepSession(t)
  PROVE  Inv' /\ RowsHold
PROOF
  <1>0. RecInv' /\ RowsHold /\ row' = row
    BY RecorderStands DEF Inv, KeepSession, recorder
  <1>1. job[t] \in Jobs /\ JobFits(job[t]) /\ job \in [Tabs -> Jobs] /\ session \in [Notes -> BOOLEAN]
        /\ srv' = srv /\ poll' = poll /\ job[t].step = "keep" /\ session' = [session EXCEPT ![job[t].note] = TRUE]
    BY JobTyped DEF Inv, CallInv, Typed, KeepSession
  <1>2. job[t].note \in Notes /\ Settled(job[t].note)
    BY <1>1 DEF JobFits
  <1>3. /\ job' = [job EXCEPT ![t] = job'[t]] /\ job'[t] \in Jobs /\ job'[t].step = "put"
        /\ job'[t].note = job[t].note /\ job'[t].audio = job[t].audio /\ job'[t].answer = job[t].answer
    BY <1>1 DEF KeepSession, To, Jobs, Steps
  <1>4. SrvHolds
    BY <1>1 DEF SrvHolds
  <1>5. ASSUME NEW m \in Notes PROVE NoteInv(m)'
    <2>1. CASE m = job[t].note
      <3>1. NoteInv(m)
        BY DEF Inv, CallInv
      <3>2. row[m].audio = 0 => srv[m].transferred
        BY <1>1, <2>1 DEF JobFits, Carrying, Carried
      <3> QED BY <1>0, <1>1, <1>2, <2>1, <3>1, <3>2 DEF NoteInv, Settled
    <2>2. CASE m # job[t].note
      BY <1>0, <1>1, <2>2, NoteHolds
    <2> QED BY <2>1, <2>2
  <1>6. ASSUME NEW u \in Tabs PROVE JobFits(job[u])'
    <2>1. CASE u = t
      BY <1>0, <1>1, <1>3, <2>1 DEF JobFits, Carried, Settled, Carrying
    <2>2. CASE u # t
      <3>1. job'[u] = job[u]
        BY <1>1, <1>3, <2>2
      <3> QED BY <1>0, <1>4, <3>1, JobHolds
    <2> QED BY <2>1, <2>2
  <1>7. Typed'
    BY <1>1, <1>2, <1>3 DEF Inv, CallInv, Typed
  <1> QED BY <1>0, <1>1, <1>4, <1>5, <1>6, <1>7, PollHolds DEF Inv, CallInv

\* A step of one tab that may change what the service has.
LEMMA CallStep ==
  ASSUME Inv, RecInv', RowsHold, SrvHolds, Typed', NEW t \in Tabs,
         \A u \in Tabs \ {t} : job'[u] = job[u] /\ poll'[u] = poll[u],
         JobFits(job[t])', PollFits(poll[t])', \A n \in Notes : NoteInv(n)'
  PROVE  Inv'
PROOF
  <1>1. ASSUME NEW u \in Tabs PROVE JobFits(job[u])' /\ PollFits(poll[u])'
    <2>1. CASE u = t
      BY <2>1
    <2>2. CASE u # t
      BY <2>2, JobHolds, PollHolds
    <2> QED BY <2>1, <2>2
  <1> QED BY <1>1 DEF Inv, CallInv

LEMMA PutAudioInv ==
  ASSUME Inv, NEW t \in Tabs, PutAudio(t)
  PROVE  Inv' /\ RowsHold
PROOF
  <1> DEFINE n == job[t].note
  <1>0. RecInv' /\ RowsHold /\ row' = row
    BY RecorderStands DEF Inv, PutAudio, recorder
  <1>1. job[t] \in Jobs /\ JobFits(job[t]) /\ job \in [Tabs -> Jobs] /\ srv \in [Notes -> Sessions]
        /\ session' = session /\ poll' = poll /\ job[t].step = "put" /\ srv[n].state \in {"pending", "expired"}
    BY JobTyped DEF Inv, CallInv, Typed, PutAudio
  <1>2. n \in Notes /\ Settled(n) /\ job[t].audio > 0 /\ Carried(n, job[t].audio)
    BY <1>1 DEF JobFits, Carrying
  <1>3. PICK to \in {[state |-> "queued", bytes |-> job[t].audio, transferred |-> FALSE],
                      [state |-> "processing", bytes |-> job[t].audio, transferred |-> TRUE]} :
          /\ srv' = [srv EXCEPT ![n] = to]
          /\ job' = [job EXCEPT ![t].step = "placed", ![t].answer = [state |-> to.state, transferred |-> to.transferred]]
    BY DEF PutAudio
  <1>4. to \in Sessions /\ to.bytes = job[t].audio /\ (to.transferred => to.state = "processing")
    <2>1. job[t].audio \in 0 .. MaxBytes
      BY <1>1 DEF Jobs
    <2>2. CASE to = [state |-> "queued", bytes |-> job[t].audio, transferred |-> FALSE]
      BY <2>1, <2>2 DEF Sessions, States
    <2>3. CASE to = [state |-> "processing", bytes |-> job[t].audio, transferred |-> TRUE]
      BY <2>1, <2>3 DEF Sessions, States
    <2> QED BY <1>3, <2>2, <2>3
  <1>5. srv'[n] = to /\ srv' \in [Notes -> Sessions] /\ \A m \in Notes : m # n => srv'[m] = srv[m]
    BY <1>1, <1>2, <1>3, <1>4
  <1> DEFINE a == [state |-> to.state, transferred |-> to.transferred]
  <1>6. a \in Answers /\ a.transferred = to.transferred
    BY <1>4 DEF Answers, Sessions
  <1>7. /\ job' = [job EXCEPT ![t] = job'[t]] /\ job'[t] \in Jobs /\ job'[t].step = "placed"
        /\ job'[t].note = n /\ job'[t].answer = a
    <2> HIDE DEF a
    <2>1. job' = [job EXCEPT ![t].step = "placed", ![t].answer = a]
      BY <1>3 DEF a
    <2> QED BY <1>1, <1>6, <2>1 DEF Jobs, Steps
  <1> HIDE DEF a
  <1>8. ~srv[n].transferred /\ row[n].audio = job[t].audio
    BY <1>1, <1>2 DEF Inv, CallInv, NoteInv, Carried
  <1>9. SrvHolds
    BY <1>5, <1>8 DEF SrvHolds
  <1>10. ASSUME NEW m \in Notes PROVE NoteInv(m)'
    <2>1. CASE m = n
      BY <1>0, <1>1, <1>2, <1>4, <1>5, <1>8, <2>1 DEF NoteInv, Settled
    <2>2. CASE m # n
      BY <1>0, <1>1, <1>5, <2>2, NoteHolds
    <2> QED BY <2>1, <2>2
  <1>11. JobFits(job[t])'
    BY <1>0, <1>2, <1>5, <1>6, <1>7 DEF JobFits, Carried, Settled, Carrying
  <1>12. Typed'
    BY <1>1, <1>5, <1>7 DEF Inv, CallInv, Typed
  <1>13. \A u \in Tabs \ {t} : job'[u] = job[u] /\ poll'[u] = poll[u]
    BY <1>1, <1>7
  <1>14. PollFits(poll[t])'
    BY <1>0, <1>1, <1>9, PollHolds
  <1> QED BY <1>0, <1>9, <1>10, <1>11, <1>12, <1>13, <1>14, CallStep

LEMMA ServiceInv ==
  ASSUME Inv, NEW n \in Notes, Service(n)
  PROVE  Inv' /\ RowsHold
PROOF
  <1>0. RecInv' /\ RowsHold /\ row' = row
    BY RecorderStands DEF Inv, Service, recorder
  <1>1. srv \in [Notes -> Sessions] /\ session' = session /\ job' = job /\ poll' = poll /\ NoteInv(n)
    BY DEF Inv, CallInv, Typed, Service
  <1>2. /\ srv'[n] \in Sessions /\ srv' \in [Notes -> Sessions] /\ \A m \in Notes : m # n => srv'[m] = srv[m]
        /\ srv'[n].bytes \in {srv[n].bytes, 0}
    BY <1>1, RecorderAssumption DEF Service, Sessions, States
  <1>3. srv[n].transferred => srv'[n].transferred
    BY <1>1 DEF Service, NoteInv, Sessions
  <1>4. srv'[n].transferred => srv'[n].bytes > 0 /\ srv'[n].state \in {"held", "processing"}
    BY <1>1 DEF Service, NoteInv, Sessions
  <1>5. SrvHolds
    BY <1>2, <1>3 DEF SrvHolds
  <1>6. ASSUME NEW m \in Notes PROVE NoteInv(m)'
    <2>1. CASE m = n
      BY <1>0, <1>1, <1>2, <1>3, <1>4, <2>1 DEF NoteInv, Settled
    <2>2. CASE m # n
      BY <1>0, <1>1, <1>2, <2>2, NoteHolds
    <2> QED BY <2>1, <2>2
  <1>7. Typed'
    BY <1>1, <1>2 DEF Inv, CallInv, Typed
  <1> QED BY <1>0, <1>1, <1>5, <1>6, <1>7, JobHolds, PollHolds DEF Inv, CallInv

-----------------------------------------------------------------------------
(* The steps that write a row.                                             *)

\* Whoever has the service's word may remove the audio, nobody else.
Removes == \A n \in Notes : row[n].audio > 0 /\ row'[n].audio = 0 => srv[n].transferred

LEMMA WriteRemoves ==
  ASSUME Inv, NEW n \in Notes, Writes(n), row'[n].audio = row[n].audio \/ srv[n].transferred
  PROVE  Removes
PROOF
  <1>1. row \in [Notes -> Rows]
    BY RowsTyped DEF Inv
  <1>2. \A m \in Notes : m # n => row'[m] = row[m]
    BY <1>1 DEF Writes
  <1> QED BY <1>2 DEF Removes

\* What the service has said to a job, or to the timer, is applied.
LEMMA AnswerWrites ==
  ASSUME Inv, NEW n \in Notes, Settled(n), NEW a \in Answers, a.transferred => srv[n].transferred,
         ApplyStatus(n, a), UNCHANGED <<owner, take, active, fix>>
  PROVE  RecInv' /\ RowsHold /\ Removes
BY ApplyStatusWrites, WritesInv, WriteRemoves DEF Inv

LEMMA AppliesInv ==
  ASSUME Inv, NEW t \in Tabs, Weigh(t) \/ Placed(t) \/ Apply(t) \/ MarkFailed(t)
  PROVE  Inv' /\ RowsHold /\ Removes
PROOF
  <1> DEFINE n == job[t].note
             a == job[t].answer
  <1>1. job[t] \in Jobs /\ JobFits(job[t]) /\ a \in Answers
    BY JobTyped
  <1>2. job[t].step \in {"weigh", "placed", "apply", "fail"} /\ UNCHANGED <<owner, take, active, fix>>
        /\ session' = session /\ srv' = srv /\ poll' = poll
    BY DEF Weigh, Placed, Apply, MarkFailed
  <1>3. n \in Notes /\ Settled(n) /\ (a.transferred => srv[n].transferred)
    BY <1>1, <1>2 DEF JobFits
  <1>4. CASE ApplyStatus(n, a) /\ Over(t)
    <2>1. RecInv' /\ RowsHold /\ Removes
      BY <1>1, <1>2, <1>3, <1>4, AnswerWrites
    <2> QED BY <1>2, <1>4, <2>1, OverInv
  <1>5. CASE row' = row /\ (Over(t) \/ To(t, "confirm"))
    <2>1. RecInv' /\ RowsHold /\ Removes
      BY <1>2, <1>5, RecorderStands DEF recorder, Inv, Removes
    <2>2. CASE Over(t)
      BY <1>2, <2>1, <2>2, OverInv
    <2>3. CASE To(t, "confirm")
      <3>1. "confirm" \in Steps /\ "confirm" \notin Carrying /\ job[t].step # "idle"
        BY <1>2 DEF Steps, Carrying
      <3> QED BY <1>2, <2>1, <2>3, <3>1, ToInv DEF To
    <2> QED BY <1>5, <2>2, <2>3
  <1>6. CASE row' = row /\ job[t].step = "weigh" /\ job' = [job EXCEPT ![t].step = "put", ![t].answer = NoAnswer]
    <2>1. RecInv' /\ RowsHold /\ Removes
      BY <1>2, <1>6, RecorderStands DEF recorder, Inv, Removes
    <2>2. "put" \in Steps /\ "weigh" \in Carrying
      BY DEF Steps, Carrying
    <2> QED BY <1>2, <1>6, <2>1, <2>2, ToInv
  <1>7. CASE Keep(n, "failed") /\ Over(t)
    <2>1. Writes(n) /\ row'[n].audio = row[n].audio
      BY <1>2, <1>3, <1>7, RowsTyped DEF Keep, Writes, Inv, Rows
    <2>2. RecInv' /\ RowsHold /\ Removes
      BY <1>3, <2>1, WritesInv, WriteRemoves DEF Inv
    <2> QED BY <1>2, <1>7, <2>2, OverInv
  <1>8. \/ ApplyStatus(n, a) /\ Over(t)
        \/ row' = row /\ (Over(t) \/ To(t, "confirm"))
        \/ row' = row /\ job[t].step = "weigh" /\ job' = [job EXCEPT ![t].step = "put", ![t].answer = NoAnswer]
        \/ Keep(n, "failed") /\ Over(t)
    BY DEF Weigh, Placed, Apply, MarkFailed
  <1> HIDE DEF n, a
  <1> QED BY <1>4, <1>5, <1>6, <1>7, <1>8

LEMMA PollAskInv ==
  ASSUME Inv, NEW t \in Tabs, NEW n \in Notes, PollAsk(t, n)
  PROVE  Inv' /\ RowsHold
PROOF
  <1>0. RecInv' /\ RowsHold /\ row' = row
    BY RecorderStands DEF Inv, PollAsk, recorder
  <1> DEFINE a == Answer(n)
             q == [note |-> n, answer |-> a]
  <1>1. poll \in [Tabs -> Polls] /\ session' = session /\ srv' = srv /\ job' = job /\ session[n] /\ NoteInv(n)
        /\ poll' = [poll EXCEPT ![t] = q]
    BY DEF Inv, CallInv, Typed, PollAsk
  <1>2. a \in Answers /\ a.transferred = srv[n].transferred
    BY AnswerTyped
  <1> HIDE DEF a
  <1>3. q \in Polls /\ q.note = n /\ q.answer = a
    BY <1>2 DEF Polls
  <1> HIDE DEF q
  <1>4. poll'[t] = q /\ poll' \in [Tabs -> Polls] /\ \A u \in Tabs \ {t} : poll'[u] = poll[u]
    BY <1>1, <1>3
  <1>5. PollFits(poll[t])'
    BY <1>0, <1>1, <1>2, <1>3, <1>4 DEF PollFits, Settled, NoteInv
  <1>6. Typed' /\ SrvHolds
    BY <1>1, <1>4 DEF Inv, CallInv, Typed, SrvHolds
  <1>7. JobFits(job[t])' /\ \A m \in Notes : NoteInv(m)'
    BY <1>0, <1>1, <1>6, JobHolds, NoteHolds
  <1> QED BY <1>0, <1>1, <1>4, <1>5, <1>6, <1>7, CallStep

LEMMA PollApplyInv ==
  ASSUME Inv, NEW t \in Tabs, PollApply(t)
  PROVE  Inv' /\ RowsHold /\ Removes
PROOF
  <1> DEFINE n == poll[t].note
             a == poll[t].answer
  <1>1. poll \in [Tabs -> Polls] /\ PollFits(poll[t]) /\ poll[t] # NoPoll /\ poll[t] \in Polls
        /\ UNCHANGED <<owner, take, active, fix>> /\ session' = session /\ srv' = srv /\ job' = job
        /\ poll' = [poll EXCEPT ![t] = NoPoll] /\ (row' = row \/ ApplyStatus(n, a))
    BY DEF PollApply, Inv, CallInv, Typed
  <1>2. n \in Notes /\ Settled(n) /\ a \in Answers /\ (a.transferred => srv[n].transferred)
    BY <1>1 DEF PollFits, Polls
  <1>3. RecInv' /\ RowsHold /\ Removes
    <2>1. CASE row' = row
      BY <1>1, <2>1, RecorderStands DEF recorder, Inv, Removes
    <2>2. CASE ApplyStatus(n, a)
      BY <1>1, <1>2, <2>2, AnswerWrites
    <2> QED BY <1>1, <2>1, <2>2
  <1>4. poll'[t] = NoPoll /\ poll' \in [Tabs -> Polls] /\ \A u \in Tabs \ {t} : poll'[u] = poll[u]
    BY <1>1, IdleTyped
  <1>5. PollFits(poll[t])'
    BY <1>4 DEF PollFits
  <1>6. Typed' /\ SrvHolds
    BY <1>1, <1>4 DEF Inv, CallInv, Typed, SrvHolds
  <1>7. JobFits(job[t])' /\ \A m \in Notes : NoteInv(m)'
    BY <1>1, <1>3, <1>6, JobHolds, NoteHolds
  <1> QED BY <1>1, <1>3, <1>4, <1>5, <1>6, <1>7, CallStep

LEMMA ReloadPageInv ==
  ASSUME Inv, NEW t \in Tabs, ReloadPage(t)
  PROVE  Inv' /\ RowsHold
PROOF
  <1>1. RecInv' /\ RowsHold
    BY ReloadInv, RowsKeepHold DEF Inv, ReloadPage
  <1>2. session' = session /\ srv' = srv /\ job' = [job EXCEPT ![t] = Idle] /\ poll' = [poll EXCEPT ![t] = NoPoll]
        /\ job \in [Tabs -> Jobs] /\ poll \in [Tabs -> Polls]
    BY DEF ReloadPage, Over, Inv, CallInv, Typed
  <1>3. /\ job'[t] = Idle /\ poll'[t] = NoPoll /\ job' \in [Tabs -> Jobs] /\ poll' \in [Tabs -> Polls]
        /\ \A u \in Tabs \ {t} : job'[u] = job[u] /\ poll'[u] = poll[u]
    BY <1>2, IdleTyped
  <1>4. JobFits(job[t])' /\ PollFits(poll[t])'
    BY <1>3 DEF JobFits, PollFits, Idle
  <1>5. Typed' /\ SrvHolds
    BY <1>2, <1>3 DEF Inv, CallInv, Typed, SrvHolds
  <1>6. \A m \in Notes : NoteInv(m)'
    BY <1>1, <1>2, NoteHolds
  <1> QED BY <1>1, <1>3, <1>4, <1>5, <1>6, CallStep

-----------------------------------------------------------------------------

\* Steps of the recorder, to which page and service stand still.
LEMMA RecorderStep ==
  ASSUME Inv, UNCHANGED calls,
         \/ \E n \in Notes : Recorder(n) \/ Recovery(n)
         \/ \E t \in Tabs : Stop(t) \/ Invalidate(t)
         \/ \E t \in Tabs, n \in Notes : Start(t, n)
  PROVE  Inv' /\ Removes
PROOF
  <1>1. RecInv' /\ RowsKeep
    BY RecorderInv, StopInv, StartInv DEF Inv
  <1>2. row \in [Notes -> Rows] /\ \A n \in Notes : row[n].audio > 0 => row'[n].audio > 0
    BY RowsTyped, RecorderRemovesNothing DEF Inv
  <1>3. Removes
    BY <1>2 DEF Removes
  <1> QED BY <1>1, <1>3, RowsKeepHold, CallsStand

LEMMA NextInv == Inv /\ [Next]_vars => Inv' /\ Removes
PROOF
  <1> SUFFICES ASSUME Inv, [Next]_vars PROVE Inv' /\ Removes
    OBVIOUS
  <1>1. ASSUME NEW n \in Notes, (Recorder(n) \/ Recovery(n)) /\ UNCHANGED calls
        PROVE  Inv' /\ Removes
    BY <1>1, RecorderStep
  <1>2. ASSUME NEW t \in Tabs, (Stop(t) \/ Invalidate(t)) /\ UNCHANGED calls
        PROVE  Inv' /\ Removes
    BY <1>2, RecorderStep
  <1>3. ASSUME row' = row PROVE Removes
    BY <1>3 DEF Removes
  <1>4. ASSUME NEW t \in Tabs, Job(t)
        PROVE  Inv' /\ Removes
    <2>1. CASE Ask(t) \/ Throws(t) \/ Caught(t)
      BY <1>3, <2>1, ForwardInv DEF Ask, Throws, Caught, recorder
    <2>2. CASE Admit(t)
      BY <1>3, <2>2, AdmitInv DEF Admit, recorder
    <2>3. CASE KeepSession(t)
      BY <1>3, <2>3, KeepSessionInv DEF KeepSession, recorder
    <2>4. CASE PutAudio(t)
      BY <1>3, <2>4, PutAudioInv DEF PutAudio, recorder
    <2>5. CASE Weigh(t) \/ Placed(t) \/ Apply(t) \/ MarkFailed(t)
      BY <2>5, AppliesInv
    <2>6. CASE PollApply(t)
      BY <2>6, PollApplyInv
    <2> QED BY <1>4, <2>1, <2>2, <2>3, <2>4, <2>5, <2>6 DEF Job
  <1>5. ASSUME NEW t \in Tabs, ReloadPage(t)
        PROVE  Inv' /\ Removes
    BY <1>3, <1>5, ReloadPageInv DEF ReloadPage, Reload
  <1>6. ASSUME NEW n \in Notes, Service(n)
        PROVE  Inv' /\ Removes
    BY <1>3, <1>6, ServiceInv DEF Service, recorder
  <1>7. ASSUME NEW t \in Tabs, NEW n \in Notes, Record(t, n)
        PROVE  Inv' /\ Removes
    BY <1>7, RecorderStep DEF Record
  <1>8. ASSUME NEW t \in Tabs, NEW n \in Notes, Import(t, n)
        PROVE  Inv' /\ Removes
    <2>1. row \in [Notes -> Rows] /\ row[n].audio = 0 /\ \A m \in Notes : m # n => row'[m] = row[m]
      BY <1>8, RowsTyped DEF Inv, Import, NoRow
    <2>2. Removes
      BY <2>1 DEF Removes
    <2> QED BY <1>8, <2>2, ImportInv
  <1>9. ASSUME NEW t \in Tabs, NEW n \in Notes, Transfer(t, n) \/ CheckStatus(t, n)
        PROVE  Inv' /\ Removes
    BY <1>3, <1>9, ClickInv DEF Transfer, CheckStatus, recorder
  <1>10. ASSUME NEW t \in Tabs, NEW n \in Notes, PollAsk(t, n)
        PROVE  Inv' /\ Removes
    BY <1>3, <1>10, PollAskInv DEF PollAsk, recorder
  <1>11. CASE UNCHANGED vars
    <2>1. UNCHANGED recorder /\ UNCHANGED calls /\ row' = row
      BY <1>11 DEF vars, recorder, calls
    <2>2. RecInv' /\ RowsHold
      BY <2>1, RecorderStands DEF Inv
    <2> QED BY <1>3, <2>1, <2>2, CallsStand
  <1> QED
    BY <1>1, <1>2, <1>4, <1>5, <1>6, <1>7, <1>8, <1>9, <1>10, <1>11 DEF Next

\* The invariant of the recorder, the rows the page wrote and the sessions of the
\* service holds at every step, whatever tabs, answers and failures come together.
THEOREM Invariance == Spec => []Inv
PROOF
  <1>1. Inv /\ [Next]_vars => Inv'
    BY NextInv
  <1> QED BY InitInv, <1>1, PTL DEF Spec

-----------------------------------------------------------------------------

\* The page, its rows and the service keep their types; no row is larger than
\* the cap.
THEOREM TypeCorrect == Spec => []TypeOK
PROOF
  <1>1. Inv => TypeOK
    BY DEF Inv, CallInv, Typed, Jobs, Polls, RecInv, TypeOK
  <1> QED BY <1>1, Invariance, PTL

\* A microphone that runs can be stopped: its take is the active one of its page.
THEOREM MicrophoneHasAButton == Spec => []RunningIsActive
BY Invariance, RecRunning, PTL DEF Inv

\* With transfers and status answers of every tab about, a recording that goes
\* on is still touched by its own tab only.
THEOREM LiveRecordingIsSafe == Spec => []LiveUntouched
BY Invariance, RecLive, PTL DEF Inv

\* What is offered as saved, and not marked as interrupted, is all that the
\* recorder kept.
THEOREM SavedIsComplete == Spec => []SavedMeansStored
BY Invariance, RecSaved, PTL DEF Inv

\* However many tabs transfer a recording, the service has the device's audio.
THEOREM UploadsAreWhole == Spec => []UploadIsWhole
PROOF
  <1>1. Inv => UploadIsWhole
    BY DEF Inv, CallInv, NoteInv, UploadIsWhole
  <1> QED BY <1>1, Invariance, PTL

\* No step removes a recording of which the service does not have all.
THEOREM NothingIsLost == Spec => AudioKept
PROOF
  <1> DEFINE A == \A n \in Notes : row[n].audio > 0 /\ row'[n].audio = 0 =>
                    srv[n].transferred /\ srv[n].bytes = row[n].audio
  <1>1. Inv /\ [Next]_vars => [A]_vars
    BY NextInv DEF Removes, Inv, CallInv, NoteInv
  <1> QED BY <1>1, Invariance, PTL DEF Spec, AudioKept

\* A call that was admitted and has no audio on the device has been handed on,
\* although the status of a call is whatever the last answer made of it.
THEOREM GoneCallsAreHandedOn == Spec => []GoneIsHandedOn
PROOF
  <1>1. Inv => GoneIsHandedOn
    BY DEF Inv, CallInv, NoteInv, GoneIsHandedOn
  <1> QED BY <1>1, Invariance, PTL

-----------------------------------------------------------------------------
(* The page keeps the custody of AudioCustody.  A step of the recorder grows *)
(* a row or seals it; PutAudio uploads; the service hands on or forgets; a   *)
(* status answer releases the audio.  Everything else is a stutter.          *)

CustodyStep == [Custody!Next]_(Custody!vars)

SrvStands == \A n \in Notes : srv'[n].bytes = srv[n].bytes /\ srv'[n].transferred = srv[n].transferred

LEMMA CustodyStutters ==
  ASSUME SrvStands, row' = row
  PROVE  CustodyStep
BY DEF SrvStands, CustodyStep, Custody!vars

\* A row that is not settled gets more audio, or its verdict, or neither.
LEMMA RowGrowsCustody ==
  ASSUME row \in [Notes -> Rows], NEW n \in Notes, NEW r \in Rows, ~Settled(n), row' = [row EXCEPT ![n] = r],
         r.audio >= row[n].audio, srv' = srv
  PROVE  CustodyStep
PROOF
  <1>1. row'[n] = r /\ row[n].audio \in 0 .. MaxBytes /\ r.audio \in 0 .. MaxBytes /\ MaxBytes \in Nat
        /\ \A m \in Notes : m # n => row'[m] = row[m]
    BY RecorderAssumption DEF Rows
  <1> DEFINE device == [m \in Notes |-> row[m].audio]
             sealed == [m \in Notes |-> row[m].status \notin {"absent", "recording"}]
             s == r.status \notin {"absent", "recording"}
  <1>2. ~sealed[n]
    BY DEF Settled
  <1>3. device' = [device EXCEPT ![n] = r.audio]
    BY <1>1
  <1>4. sealed' = [sealed EXCEPT ![n] = s]
    <2>1. \A m \in Notes : sealed'[m] = IF m = n THEN s ELSE sealed[m]
      BY <1>1
    <2> QED BY <2>1
  <1>5. CASE r.audio > row[n].audio
    <2>1. r.audio \in (device[n] + 1) .. MaxBytes /\ s \in BOOLEAN
      BY <1>1, <1>5
    <2>2. Custody!Grow(n)
      BY <1>2, <1>3, <1>4, <2>1 DEF Custody!Grow
    <2> QED BY <2>2 DEF CustodyStep, Custody!Next
  <1>6. CASE r.audio = row[n].audio
    <2>1. device' = device
      BY <1>3, <1>6
    <2>2. CASE s
      <3>1. Custody!Seal(n)
        BY <1>2, <1>4, <2>1, <2>2 DEF Custody!Seal
      <3> QED BY <3>1 DEF CustodyStep, Custody!Next
    <2>3. CASE ~s
      <3>1. sealed' = sealed
        BY <1>2, <1>4, <2>3
      <3> QED BY <2>1, <3>1 DEF CustodyStep, Custody!vars
    <2> QED BY <2>2, <2>3
  <1> QED BY <1>1, <1>5, <1>6

\* A write of the page is a stutter, or releases the audio.
LEMMA WriteCustody ==
  ASSUME Inv, NEW n \in Notes, Settled(n), Writes(n), row'[n].audio = row[n].audio \/ srv[n].transferred, srv' = srv
  PROVE  CustodyStep
PROOF
  <1>1. row \in [Notes -> Rows] /\ NoteInv(n) /\ \A m \in Notes : m # n => row'[m] = row[m]
    BY RowsTyped DEF Inv, CallInv, Writes
  <1>2. Settled(n)' /\ (row'[n].audio = row[n].audio \/ (row'[n].audio = 0 /\ srv[n].transferred))
    BY WritesInv DEF Inv, RowsHold
  <1> DEFINE device == [m \in Notes |-> row[m].audio]
             sealed == [m \in Notes |-> row[m].status \notin {"absent", "recording"}]
  <1>3. sealed' = sealed
    <2>1. \A m \in Notes : sealed'[m] = sealed[m]
      BY <1>1, <1>2 DEF Settled
    <2> QED BY <2>1
  <1>4. CASE row'[n].audio = row[n].audio
    <2>1. device' = device
      BY <1>1, <1>4
    <2> QED BY <1>3, <2>1 DEF CustodyStep, Custody!vars
  <1>5. CASE row'[n].audio = 0 /\ srv[n].transferred /\ row[n].audio # 0
    <2>1. device' = [device EXCEPT ![n] = 0]
      BY <1>1, <1>5
    <2>2. row[n].audio > 0
      BY <1>1, <1>5, RecorderAssumption DEF Rows
    <2>3. srv[n].bytes = row[n].audio
      BY <1>1, <1>5, <2>2 DEF NoteInv
    <2>4. Custody!Release(n)
      BY <1>3, <1>5, <2>1, <2>3 DEF Custody!Release
    <2> QED BY <2>4 DEF CustodyStep, Custody!Next
  <1> QED BY <1>2, <1>4, <1>5

LEMMA AppliesCustody ==
  ASSUME Inv, NEW t \in Tabs, Weigh(t) \/ Placed(t) \/ Apply(t) \/ MarkFailed(t)
  PROVE  CustodyStep
PROOF
  <1> DEFINE n == job[t].note
             a == job[t].answer
  <1>1. job[t] \in Jobs /\ JobFits(job[t]) /\ a \in Answers
    BY JobTyped
  <1>2. job[t].step # "idle" /\ UNCHANGED <<owner, take, active, fix>> /\ srv' = srv
        /\ (row' = row \/ ApplyStatus(n, a) \/ Keep(n, "failed"))
    BY DEF Weigh, Placed, Apply, MarkFailed
  <1>3. n \in Notes /\ Settled(n) /\ (a.transferred => srv[n].transferred)
    BY <1>1, <1>2 DEF JobFits
  <1> HIDE DEF n, a
  <1>4. CASE ApplyStatus(n, a)
    BY <1>1, <1>2, <1>3, <1>4, ApplyStatusWrites, WriteCustody DEF Inv
  <1>5. CASE Keep(n, "failed")
    <2>1. Writes(n) /\ row'[n].audio = row[n].audio
      BY <1>2, <1>3, <1>5, RowsTyped DEF Keep, Writes, Inv, Rows
    <2> QED BY <1>2, <1>3, <2>1, WriteCustody
  <1> QED BY <1>2, <1>4, <1>5, CustodyStutters DEF SrvStands

LEMMA PollApplyCustody ==
  ASSUME Inv, NEW t \in Tabs, PollApply(t)
  PROVE  CustodyStep
PROOF
  <1> DEFINE n == poll[t].note
             a == poll[t].answer
  <1>1. PollFits(poll[t]) /\ poll[t] # NoPoll /\ poll[t] \in Polls /\ UNCHANGED <<owner, take, active, fix>>
        /\ srv' = srv /\ (row' = row \/ ApplyStatus(n, a))
    BY DEF PollApply, Inv, CallInv, Typed
  <1>2. n \in Notes /\ Settled(n) /\ a \in Answers /\ (a.transferred => srv[n].transferred)
    BY <1>1 DEF PollFits, Polls
  <1> HIDE DEF n, a
  <1>3. CASE ApplyStatus(n, a)
    BY <1>1, <1>2, <1>3, ApplyStatusWrites, WriteCustody DEF Inv
  <1> QED BY <1>1, <1>3, CustodyStutters DEF SrvStands

LEMMA PutAudioCustody ==
  ASSUME Inv, NEW t \in Tabs, NEW n \in Notes, job[t].note = n, PutAudio(t)
  PROVE  CustodyStep
PROOF
  <1> DEFINE service == [m \in Notes |-> srv[m].bytes]
             handed == [m \in Notes |-> srv[m].transferred]
  <1>1. JobFits(job[t]) /\ srv \in [Notes -> Sessions] /\ row' = row /\ job[t].step = "put"
        /\ srv[n].state \in {"pending", "expired"}
    BY JobTyped DEF Inv, CallInv, Typed, PutAudio, recorder
  <1>2. Settled(n) /\ job[t].audio > 0 /\ Carried(n, job[t].audio)
    BY <1>1 DEF JobFits, Carrying
  <1>3. ~srv[n].transferred /\ row[n].audio = job[t].audio
    BY <1>1, <1>2 DEF Inv, CallInv, NoteInv, Carried
  <1>4. \E to : srv' = [srv EXCEPT ![n] = to] /\ to.bytes = job[t].audio /\ to.transferred \in BOOLEAN
    <2> DEFINE queued == [state |-> "queued", bytes |-> job[t].audio, transferred |-> FALSE]
               processing == [state |-> "processing", bytes |-> job[t].audio, transferred |-> TRUE]
    <2>1. srv' = [srv EXCEPT ![n] = queued] \/ srv' = [srv EXCEPT ![n] = processing]
      BY DEF PutAudio
    <2>2. queued.bytes = job[t].audio /\ queued.transferred \in BOOLEAN
          /\ processing.bytes = job[t].audio /\ processing.transferred \in BOOLEAN
      OBVIOUS
    <2> HIDE DEF queued, processing
    <2> QED BY <2>1, <2>2
  <1>5. srv'[n].bytes = row[n].audio /\ srv'[n].transferred \in BOOLEAN /\ \A m \in Notes : m # n => srv'[m] = srv[m]
    BY <1>1, <1>2, <1>3, <1>4
  <1> DEFINE h == srv'[n].transferred
  <1>6. service' = [service EXCEPT ![n] = row[n].audio]
    BY <1>5
  <1>7. handed' = [handed EXCEPT ![n] = h]
    BY <1>5
  <1>8. Custody!Upload(n)
    <2>1. h \in BOOLEAN
      BY <1>5
    <2> QED BY <1>1, <1>2, <1>3, <1>6, <1>7, <2>1 DEF Custody!Upload, Settled
  <1> QED BY <1>8 DEF CustodyStep, Custody!Next

LEMMA ServiceCustody ==
  ASSUME Inv, NEW n \in Notes, Service(n)
  PROVE  CustodyStep
PROOF
  <1> DEFINE service == [m \in Notes |-> srv[m].bytes]
             handed == [m \in Notes |-> srv[m].transferred]
  <1>1. srv \in [Notes -> Sessions] /\ row' = row /\ NoteInv(n)
    BY DEF Inv, CallInv, Typed, Service, recorder
  <1>2. \A m \in Notes : m # n => srv'[m] = srv[m]
    BY <1>1 DEF Service
  <1>3. CASE srv[n].bytes > 0 /\ srv'[n].bytes = srv[n].bytes /\ srv'[n].transferred = TRUE
    <2>1. service' = service /\ handed' = [handed EXCEPT ![n] = TRUE]
      BY <1>2, <1>3
    <2>2. Custody!HandOn(n)
      BY <1>1, <1>3, <2>1 DEF Custody!HandOn
    <2> QED BY <2>2 DEF CustodyStep, Custody!Next
  <1>4. CASE srv'[n].bytes = srv[n].bytes /\ srv'[n].transferred = srv[n].transferred
    BY <1>1, <1>2, <1>4, CustodyStutters DEF SrvStands
  <1>5. CASE srv[n].state \in {"pending", "queued"} /\ srv'[n].bytes = 0 /\ srv'[n].transferred = srv[n].transferred
    <2>1. service' = [service EXCEPT ![n] = 0] /\ handed' = handed
      BY <1>2, <1>5
    <2>2. ~srv[n].transferred
      BY <1>1, <1>5 DEF NoteInv
    <2>3. Custody!Forget(n)
      BY <1>1, <2>1, <2>2 DEF Custody!Forget
    <2> QED BY <2>3 DEF CustodyStep, Custody!Next
  <1> QED BY <1>1, <1>3, <1>4, <1>5 DEF Service, Sessions

LEMMA RecorderCustody ==
  ASSUME Inv, Inv', SavesRise, UNCHANGED calls,
         \/ \E n \in Notes : Recorder(n) \/ Recovery(n)
         \/ \E t \in Tabs : Stop(t) \/ Invalidate(t)
         \/ \E t \in Tabs, n \in Notes : Start(t, n)
  PROVE  CustodyStep /\ SavesRise'
PROOF
  <1>1. SavesRise' /\ RowsGrow /\ srv' = srv
    BY RecorderRises DEF Inv, calls
  <1>2. row \in [Notes -> Rows] /\ row' \in [Notes -> Rows]
    BY DEF Inv, RecInv, RecorderTypeOK, Rows
  <1>3. ASSUME NEW n \in Notes, ~Settled(n), row' = [row EXCEPT ![n] = row'[n]], row'[n].audio >= row[n].audio
        PROVE  CustodyStep
    BY <1>1, <1>2, <1>3, RowGrowsCustody
  <1> QED BY <1>1, <1>3, CustodyStutters DEF RowsGrow, SrvStands

LEMMA ImportCustody ==
  ASSUME Inv, Inv', NEW t \in Tabs, NEW n \in Notes, Import(t, n)
  PROVE  CustodyStep
PROOF
  <1>1. row \in [Notes -> Rows] /\ row' \in [Notes -> Rows] /\ row[n] = NoRow /\ srv' = srv
    BY DEF Inv, RecInv, RecorderTypeOK, Rows, Import, calls
  <1>2. row' = [row EXCEPT ![n] = row'[n]] /\ row'[n].audio \in Nat
    BY <1>1, RecorderAssumption DEF Import, Rows
  <1>3. ~Settled(n) /\ row'[n].audio >= row[n].audio
    BY <1>1, <1>2 DEF Settled, NoRow
  <1> QED BY <1>1, <1>2, <1>3, RowGrowsCustody

LEMMA NextCustody == Inv /\ SavesRise /\ [Next]_vars /\ Inv' => CustodyStep /\ SavesRise'
PROOF
  <1> SUFFICES ASSUME Inv, Inv', SavesRise, [Next]_vars PROVE CustodyStep /\ SavesRise'
    OBVIOUS
  <1>1. ASSUME take' = take PROVE SavesRise'
    BY <1>1 DEF SavesRise
  <1>2. ASSUME UNCHANGED recorder, srv' = srv PROVE CustodyStep /\ SavesRise'
    BY <1>1, <1>2, CustodyStutters DEF recorder, SrvStands
  <1>3. ASSUME NEW n \in Notes, (Recorder(n) \/ Recovery(n)) /\ UNCHANGED calls
        PROVE  CustodyStep /\ SavesRise'
    BY <1>3, RecorderCustody
  <1>4. ASSUME NEW t \in Tabs, (Stop(t) \/ Invalidate(t)) /\ UNCHANGED calls
        PROVE  CustodyStep /\ SavesRise'
    BY <1>4, RecorderCustody
  <1>5. ASSUME NEW t \in Tabs, Job(t)
        PROVE  CustodyStep /\ SavesRise'
    <2>1. CASE KeepSession(t) \/ Ask(t) \/ Throws(t) \/ Caught(t)
      BY <1>2, <2>1 DEF KeepSession, Ask, Throws, Caught
    <2>2. CASE Admit(t)
      <3>1. srv \in [Notes -> Sessions] /\ row' = row /\ take' = take
        BY <2>2 DEF Inv, CallInv, Typed, Admit, recorder
      <3>2. SrvStands
        BY <2>2, <3>1 DEF Admit, SrvStands, Sessions
      <3> QED BY <1>1, <3>1, <3>2, CustodyStutters
    <2>3. CASE PutAudio(t)
      <3>1. take' = take /\ job[t].note \in Notes
        BY <2>3, JobTyped DEF PutAudio, recorder, JobFits
      <3> QED BY <1>1, <2>3, <3>1, PutAudioCustody
    <2>4. CASE Weigh(t) \/ Placed(t) \/ Apply(t) \/ MarkFailed(t)
      BY <1>1, <2>4, AppliesCustody DEF Weigh, Placed, Apply, MarkFailed
    <2>5. CASE PollApply(t)
      BY <1>1, <2>5, PollApplyCustody DEF PollApply
    <2> QED BY <1>5, <2>1, <2>2, <2>3, <2>4, <2>5 DEF Job
  <1>6. ASSUME NEW t \in Tabs, ReloadPage(t)
        PROVE  CustodyStep /\ SavesRise'
    <2>1. SavesRise' /\ row' = row /\ srv' = srv
      BY <1>6, RecorderRises DEF Inv, ReloadPage, Reload
    <2> QED BY <2>1, CustodyStutters DEF SrvStands
  <1>7. ASSUME NEW n \in Notes, Service(n)
        PROVE  CustodyStep /\ SavesRise'
    BY <1>1, <1>7, ServiceCustody DEF Service, recorder
  <1>8. ASSUME NEW t \in Tabs, NEW n \in Notes, Record(t, n)
        PROVE  CustodyStep /\ SavesRise'
    BY <1>8, RecorderCustody DEF Record
  <1>9. ASSUME NEW t \in Tabs, NEW n \in Notes, Import(t, n)
        PROVE  CustodyStep /\ SavesRise'
    BY <1>1, <1>9, ImportCustody DEF Import
  <1>10. ASSUME NEW t \in Tabs, NEW n \in Notes, Transfer(t, n) \/ CheckStatus(t, n) \/ PollAsk(t, n)
        PROVE  CustodyStep /\ SavesRise'
    BY <1>2, <1>10 DEF Transfer, CheckStatus, PollAsk
  <1>11. CASE UNCHANGED vars
    BY <1>2, <1>11 DEF vars, calls
  <1> QED
    BY <1>3, <1>4, <1>5, <1>6, <1>7, <1>8, <1>9, <1>10, <1>11 DEF Next

LEMMA InitCustody == Init => Custody!Init /\ SavesRise
PROOF
  <1> SUFFICES ASSUME Init PROVE Custody!Init
    BY InitRising DEF Init
  <1>1. \A n \in Notes : row[n] = NoRow /\ srv[n] = NoSession
    BY DEF Init, InitRecorder
  <1>2. \A n \in Notes : row[n].audio = 0 /\ ~(row[n].status \notin {"absent", "recording"})
    BY <1>1 DEF NoRow
  <1>3. \A n \in Notes : srv[n].bytes = 0 /\ srv[n].transferred = FALSE
    BY <1>1 DEF NoSession
  <1>4. [n \in Notes |-> row[n].status \notin {"absent", "recording"}] = [n \in Notes |-> FALSE]
    BY <1>2
  <1>5. [n \in Notes |-> srv[n].transferred] = [n \in Notes |-> FALSE]
    BY <1>3
  <1> QED BY <1>2, <1>3, <1>4, <1>5 DEF Custody!Init

\* The phone page, with all its tabs, locks, transfers and late answers, keeps
\* the promise of AudioCustody: what is sealed is not changed, the service is
\* only ever given all of it, and it leaves the device when it was handed on.
THEOREM ImplementsAudioCustody == Spec => KeepsCustody
PROOF
  <1>1. Spec => []SavesRise
    <2>1. Inv /\ Inv' /\ SavesRise /\ [Next]_vars => SavesRise'
      BY NextCustody
    <2> QED BY <2>1, InitCustody, Invariance, PTL DEF Spec
  <1>2. Inv /\ Inv' /\ SavesRise /\ [Next]_vars => [Custody!Next]_(Custody!vars)
    BY NextCustody DEF CustodyStep
  <1> QED BY <1>1, <1>2, InitCustody, Invariance, PTL DEF Spec, KeepsCustody, Custody!Spec

-----------------------------------------------------------------------------

LEMMA NextActives == Inv /\ Actives /\ [Next]_vars => Actives'
PROOF
  <1> SUFFICES ASSUME Inv, Actives, [Next]_vars PROVE Actives'
    OBVIOUS
  <1>1. RecInv
    BY DEF Inv
  <1>2. ASSUME take' = take, active' = active PROVE Actives'
    BY <1>2 DEF Actives, Going
  <1>3. CASE \/ \E n \in Notes : (Recorder(n) \/ Recovery(n)) /\ UNCHANGED calls
             \/ \E t \in Tabs : (Stop(t) \/ Invalidate(t)) /\ UNCHANGED calls
             \/ \E t \in Tabs : ReloadPage(t)
             \/ \E t \in Tabs, n \in Notes : Record(t, n)
    BY <1>1, <1>3, StepActives DEF ReloadPage, Record
  <1>4. ASSUME NEW t \in Tabs, Job(t)
        PROVE  take' = take /\ active' = active
    BY <1>4 DEF Job, Admit, KeepSession, Ask, Weigh, PutAudio, Placed, Apply, Throws, Caught, MarkFailed,
                PollApply, recorder
  <1>5. ASSUME NEW t \in Tabs, NEW n \in Notes,
               Service(n) \/ Import(t, n) \/ Transfer(t, n) \/ CheckStatus(t, n) \/ PollAsk(t, n)
        PROVE  take' = take /\ active' = active
    BY <1>5 DEF Service, Import, Transfer, CheckStatus, PollAsk, recorder
  <1>6. ASSUME NEW n \in Notes, Service(n)
        PROVE  take' = take /\ active' = active
    BY <1>6 DEF Service, recorder
  <1>7. CASE UNCHANGED vars
    BY <1>2, <1>7 DEF vars, recorder
  <1> QED BY <1>2, <1>3, <1>4, <1>5, <1>6, <1>7 DEF Next

\* On the phone page too, the lock of a note that was left behind is free, or held
\* by a page that finishes the note: AbandonedIsSettled waits for nothing but a page.
THEOREM AbandonedCanBeSettled == Spec => []AbandonedIsFree
PROOF
  <1>1. Inv => RecInv
    BY DEF Inv
  <1>2. Init => Actives
    BY InitActives DEF Init
  <1> QED BY <1>1, <1>2, NextActives, RecFree, Invariance, PTL DEF Spec
================================================================================
