------------------------------ MODULE PhoneCalls -------------------------------
(***************************************************************************)
(* The phone page, js/phone-calls.js: recordings are made by DayRecorder   *)
(* and transferred to the call service.  A transfer reads the row, admits  *)
(* a session, asks for its status if there was one before, puts the audio  *)
(* and applies what the service says; a timer asks for the status of calls *)
(* that are queued.  Rows are shared by the tabs, transfers and status     *)
(* answers are not, and an answer is applied whatever became of the row.   *)
(*                                                                         *)
(* The call service is external.  A recording has one session (it is       *)
(* admitted by its digest), which takes the audio while it waits for it,   *)
(* and hands it on; "transferred" is its word that it needs no device.     *)
(***************************************************************************)
EXTENDS DayRecorder

VARIABLES
  session, \* session[n]: does the row of n have a session_id?
  srv,     \* srv[n]: the service's session of n
  job,     \* job[t]: the click that run() of tab t is busy with
  poll     \* poll[t]: a status answer on its way to the timer's applyStatus

calls == <<session, srv, job, poll>>
vars == <<recorder, calls>>

NoSession == [state |-> "none", bytes |-> 0, transferred |-> FALSE]
States == {"none", "pending", "queued", "expired", "held", "processing"}
Sessions == [state : States, bytes : 0 .. MaxBytes, transferred : BOOLEAN]
Answers == [state : States, transferred : BOOLEAN]

\* The step a transfer awaits, the row as it was read at its start (status,
\* size of the audio, was there a session?) and the last answer.
NoAnswer == [state |-> "none", transferred |-> FALSE]
Idle == [step |-> "idle", note |-> NoNote, expired |-> FALSE, audio |-> 0, answer |-> NoAnswer]
NoPoll == [note |-> NoNote, answer |-> NoAnswer]

\* What the service says of a session.
Answer(n) == [state |-> srv[n].state, transferred |-> srv[n].transferred]

Steps == {"idle", "admit", "keep", "ask", "weigh", "put", "placed", "confirm", "apply", "caught", "fail"}

Init ==
  /\ InitRecorder
  /\ session = [n \in Notes |-> FALSE]
  /\ srv = [n \in Notes |-> NoSession]
  /\ job = [t \in Tabs |-> Idle]
  /\ poll = [t \in Tabs |-> NoPoll]

\* run(): one click at a time; a start that still waits for the lock, the
\* store or the microphone is one.
Busy(t) ==
  \/ job[t].step # "idle"
  \/ \E n \in Notes : take[n].tab = t /\ take[n].phase \in Starting

Record(t, n) == ~Busy(t) /\ Start(t, n) /\ UNCHANGED calls

\* A file of a size the service takes is saved as a recording that is complete.
Import(t, n) ==
  /\ ~Busy(t) /\ take[n] = NoTake /\ row[n] = NoRow
  /\ \E z \in Sizes : z <= MaxBytes /\ row' = [row EXCEPT ![n] = [NoRow EXCEPT !.status = "local", !.audio = z]]
  /\ UNCHANGED <<owner, take, active, fix, calls>>

-----------------------------------------------------------------------------
(* applyStatus()                                                           *)

Keep(n, status) == row' = [row EXCEPT ![n].status = status]
Remove(n, status) == row' = [row EXCEPT ![n].status = status, ![n].audio = 0]

\* Mutant: a call that is held for review is taken as transferred.
ApplyStatusMut(n, a) ==
  \/ a.state = "held" /\ Remove(n, "held")
  \/ a.state # "held" /\ a.transferred /\ Remove(n, "transferred")
  \/ a.state \in {"pending", "queued", "expired"} /\ ~a.transferred /\ Keep(n, a.state)
  \/ a.state \in {"none", "processing"} /\ ~a.transferred /\ row' = row

\* The audio leaves the device only with the service's word.
ApplyStatus(n, a) ==
  \/ a.state = "held" /\ IF a.transferred THEN Remove(n, "held") ELSE Keep(n, "held")
  \/ a.state # "held" /\ a.transferred /\ Remove(n, "transferred")
  \/ a.state \in {"pending", "queued", "expired"} /\ ~a.transferred /\ Keep(n, a.state)
  \/ a.state \in {"none", "processing"} /\ ~a.transferred /\ row' = row

-----------------------------------------------------------------------------
(* transfer()                                                              *)

To(t, step) == job' = [job EXCEPT ![t].step = step]
Over(t) == job' = [job EXCEPT ![t] = Idle]

\* Mutant: a recording can be transferred while it goes on.
TransferMut(t, n) ==
  /\ ~Busy(t) /\ row[n].audio > 0
  /\ job' = [job EXCEPT ![t] = [Idle EXCEPT !.step = IF session[n] THEN "ask" ELSE "admit",
               !.note = n, !.expired = row[n].status = "expired", !.audio = row[n].audio]]
  /\ UNCHANGED <<recorder, session, srv, poll>>

Transfer(t, n) ==
  /\ ~Busy(t) /\ row[n].audio > 0 /\ row[n].status # "recording"
  /\ job' = [job EXCEPT ![t] = [Idle EXCEPT !.step = IF session[n] THEN "ask" ELSE "admit",
               !.note = n, !.expired = row[n].status = "expired", !.audio = row[n].audio]]
  /\ UNCHANGED <<recorder, session, srv, poll>>

Admit(t) ==
  /\ job[t].step = "admit"
  /\ srv' = [srv EXCEPT ![job[t].note].state = IF @ = "none" THEN "pending" ELSE @]
  /\ To(t, "keep")
  /\ UNCHANGED <<recorder, session, poll>>

KeepSession(t) ==
  /\ job[t].step = "keep"
  /\ session' = [session EXCEPT ![job[t].note] = TRUE]
  /\ To(t, "put")
  /\ UNCHANGED <<recorder, srv, poll>>

\* The service answers as it is; the page reads the answer later.
Ask(t) ==
  /\ job[t].step \in {"ask", "confirm"}
  /\ job' = [job EXCEPT ![t].step = IF @ = "ask" THEN "weigh" ELSE "apply",
                        ![t].answer = Answer(job[t].note)]
  /\ UNCHANGED <<recorder, session, srv, poll>>

\* A session that has the audio, or whose expiry is news, is not put again.
Weigh(t) ==
  /\ job[t].step = "weigh"
  /\ LET a == job[t].answer
         known == \/ a.transferred \/ a.state \in {"queued", "held"}
                  \/ a.state = "expired" /\ ~job[t].expired
     IN \/ known /\ ApplyStatus(job[t].note, a) /\ Over(t)
        \/ ~known /\ row' = row /\ job' = [job EXCEPT ![t].step = "put", ![t].answer = NoAnswer]
  /\ UNCHANGED <<owner, take, active, fix, session, srv, poll>>

\* The service takes the audio of a session that waits for it, and may hand it
\* on at once.
PutAudio(t) ==
  /\ job[t].step = "put" /\ srv[job[t].note].state \in {"pending", "expired"}
  /\ \E to \in {[state |-> "queued", bytes |-> job[t].audio, transferred |-> FALSE],
                [state |-> "processing", bytes |-> job[t].audio, transferred |-> TRUE]} :
       /\ srv' = [srv EXCEPT ![job[t].note] = to]
       /\ job' = [job EXCEPT ![t].step = "placed", ![t].answer = [state |-> to.state, transferred |-> to.transferred]]
  /\ UNCHANGED <<recorder, session, poll>>

Placed(t) ==
  /\ job[t].step = "placed"
  /\ IF job[t].answer.state = "queued"
     THEN ApplyStatus(job[t].note, job[t].answer) /\ Over(t)
     ELSE row' = row /\ To(t, "confirm")
  /\ UNCHANGED <<owner, take, active, fix, session, srv, poll>>

Apply(t) ==
  /\ job[t].step = "apply"
  /\ ApplyStatus(job[t].note, job[t].answer) /\ Over(t)
  /\ UNCHANGED <<owner, take, active, fix, session, srv, poll>>

\* Anything throws: a refusal, no answer, an answer that cannot be verified or
\* that says the upload's state is unavailable, or the store.
Throws(t) ==
  /\ job[t].step \notin {"idle", "caught", "fail"}
  /\ job' = [job EXCEPT ![t] = [Idle EXCEPT !.step = "caught", !.note = job[t].note]]
  /\ UNCHANGED <<recorder, session, srv, poll>>

Caught(t) ==
  /\ job[t].step = "caught"
  /\ IF row[job[t].note].status # "queued" THEN To(t, "fail") ELSE Over(t)
  /\ UNCHANGED <<recorder, session, srv, poll>>

MarkFailed(t) ==
  /\ job[t].step = "fail"
  /\ row' = row \/ Keep(job[t].note, "failed")
  /\ Over(t)
  /\ UNCHANGED <<owner, take, active, fix, session, srv, poll>>

\* The "Check status" button of a call that is held.
CheckStatus(t, n) ==
  /\ ~Busy(t) /\ session[n] /\ row[n].status = "held"
  /\ job' = [job EXCEPT ![t] = [Idle EXCEPT !.step = "confirm", !.note = n]]
  /\ UNCHANGED <<recorder, session, srv, poll>>

\* The timer asks for one queued call after the other; a failure is passed over.
\* Only the page in view has a timer: one status answer at a time is the bound.
PollAsk(t, n) ==
  /\ \A u \in Tabs : poll[u] = NoPoll
  /\ session[n] /\ row[n].status = "queued"
  /\ poll' = [poll EXCEPT ![t] = [note |-> n, answer |-> Answer(n)]]
  /\ UNCHANGED <<recorder, session, srv, job>>

PollApply(t) ==
  /\ poll[t] # NoPoll
  /\ row' = row \/ ApplyStatus(poll[t].note, poll[t].answer)
  /\ poll' = [poll EXCEPT ![t] = NoPoll]
  /\ UNCHANGED <<owner, take, active, fix, session, srv, job>>

\* The service: it hands a queued or held recording on, holds it, or lets the
\* session expire, which forgets the audio.
Service(n) ==
  /\ \/ /\ srv[n].state \in {"queued", "held"} /\ srv[n].bytes > 0
        /\ \E state \in {"held", "processing"} :
             srv' = [srv EXCEPT ![n].state = state, ![n].transferred = TRUE]
     \/ /\ srv[n].state = "queued"
        /\ srv' = [srv EXCEPT ![n].state = "held"]
     \/ /\ srv[n].state \in {"pending", "queued"}
        /\ srv' = [srv EXCEPT ![n].state = "expired", ![n].bytes = 0]
  /\ UNCHANGED <<recorder, session, job, poll>>

ReloadPage(t) ==
  /\ Reload(t)
  /\ Over(t) /\ poll' = [poll EXCEPT ![t] = NoPoll]
  /\ UNCHANGED <<session, srv>>

Job(t) ==
  \/ Admit(t) \/ KeepSession(t) \/ Ask(t) \/ Weigh(t) \/ PutAudio(t) \/ Placed(t)
  \/ Apply(t) \/ Throws(t) \/ Caught(t) \/ MarkFailed(t) \/ PollApply(t)

Next ==
  \/ \E n \in Notes : (Recorder(n) \/ Recovery(n)) /\ UNCHANGED calls
  \/ \E t \in Tabs : (Stop(t) \/ Invalidate(t)) /\ UNCHANGED calls
  \/ \E t \in Tabs : Job(t) \/ ReloadPage(t)
  \/ \E n \in Notes : Service(n)
  \/ \E t \in Tabs, n \in Notes :
       Record(t, n) \/ Import(t, n) \/ Transfer(t, n) \/ CheckStatus(t, n) \/ PollAsk(t, n)

Spec == Init /\ [][Next]_vars /\ Recovers

-----------------------------------------------------------------------------
(* Properties.                                                             *)

TypeOK ==
  /\ RecorderTypeOK
  /\ session \in [Notes -> BOOLEAN]
  /\ srv \in [Notes -> Sessions]
  /\ job \in [Tabs -> [step : Steps, note : Notes \cup {NoNote}, expired : BOOLEAN,
                       audio : 0 .. MaxBytes, answer : Answers]]
  /\ poll \in [Tabs -> [note : Notes \cup {NoNote}, answer : Answers]]

\* A recording is removed from the device only when the service has all of it.
AudioKept ==
  [][\A n \in Notes : row[n].audio > 0 /\ row'[n].audio = 0 =>
       srv[n].transferred /\ srv[n].bytes = row[n].audio]_vars

\* What the service has of a recording is what the device has, however many
\* tabs transfer it: none carries a part of a recording that goes on.
UploadIsWhole ==
  \A n \in Notes : srv[n].bytes > 0 /\ row[n].audio > 0 => srv[n].bytes = row[n].audio

\* A call that was admitted and whose audio is gone has been handed on, whatever
\* an answer that came too late has made of its status.
GoneIsHandedOn ==
  \A n \in Notes : session[n] /\ row[n].audio = 0 => srv[n].transferred /\ srv[n].bytes > 0

\* The phone page keeps the custody that AudioCustody promises: a row is sealed
\* when it is stored and no longer "recording".
Custody == INSTANCE AudioCustody WITH
  Recordings <- Notes,
  device <- [n \in Notes |-> row[n].audio],
  sealed <- [n \in Notes |-> row[n].status \notin {"absent", "recording"}],
  service <- [n \in Notes |-> srv[n].bytes],
  handed <- [n \in Notes |-> srv[n].transferred]

\* The service is given whole recordings, and the device forgets none before.
KeepsCustody == Custody!Spec
================================================================================
