-------------------------- MODULE VisibilityPollProofs -------------------------
(***************************************************************************)
(* Theorems about VisibilityPoll, for any number of attempts.              *)
(*                                                                         *)
(* The operations are functions of the whole state of the page, so each    *)
(* has a lemma of its own: it keeps Sound, and leaves a page that may read *)
(* either reading or armed.  The actions only put them together.           *)
(***************************************************************************)
EXTENDS VisibilityPoll, TLAPS

States == [page : Pages, poller : Pollers, fence : Fences, seen : Seen]

\* Attempts count every read since the last input; a fence is closed only
\* while a read runs, and the timer is armed only while none does.
Sound(s) ==
  /\ s \in States
  /\ s.seen.reads <= s.poller.attempts
  /\ s.fence.reading => s.poller.running
  /\ s.poller.armed => ~s.poller.running

\* The page reads or will: where it is eligible, a timer is armed or a read runs.
Kept(s) == Periodic /\ Eligible(s) => s.poller.running \/ s.poller.armed

LEMMA BeginSound ==
  ASSUME NEW s, Sound(s), Eligible(s), NEW m \in BOOLEAN, NEW e \in BOOLEAN,
         ~s.poller.running
  PROVE  LET t == Begin(s, m, e)
         IN Sound(t) /\ t.page = s.page /\ (t.poller.running \/ t.poller.armed)
            /\ t.fence = s.fence
PROOF
  <1> DEFINE p == s.poller
             begun == [[[p EXCEPT !.armed = FALSE] EXCEPT !.attempts = @ + 1] EXCEPT !.running = TRUE]
             saw == [[s.seen EXCEPT !.cleared = FALSE] EXCEPT !.reads = @ + 1]
             waits == [p EXCEPT !.armed = TRUE]
  <1>1. s \in States /\ p \in Pollers /\ s.seen \in Seen /\ s.fence.reading = FALSE
        /\ p.attempts < MaxAttempts /\ s.seen.reads <= p.attempts
    BY DEF Sound, States, Fences, Eligible
  <1>2. /\ begun \in Pollers /\ begun.attempts = p.attempts + 1 /\ begun.running /\ ~begun.armed
        /\ saw \in Seen /\ saw.reads = s.seen.reads + 1
        /\ waits \in Pollers /\ waits.attempts = p.attempts /\ waits.armed /\ ~waits.running
    <2>1. p.attempts + 1 \in 0 .. MaxAttempts /\ p.attempts \in Nat /\ s.seen.reads + 1 \in Nat
      BY <1>1, PollAssumption DEF Pollers, Seen
    <2>2. begun \in Pollers /\ begun.attempts = p.attempts + 1 /\ begun.running /\ ~begun.armed
      BY <1>1, <2>1 DEF Pollers
    <2>3. saw \in Seen /\ saw.reads = s.seen.reads + 1
      BY <1>1, <2>1 DEF Seen
    <2>4. waits \in Pollers /\ waits.attempts = p.attempts /\ waits.armed /\ ~waits.running
      BY <1>1 DEF Pollers
    <2> QED BY <2>2, <2>3, <2>4
  <1>3. CASE m \/ p.due \/ (e /\ ~p.failing /\ p.attempts < Quick)
    <2> DEFINE t == [[s EXCEPT !.poller = begun] EXCEPT !.seen = saw]
    <2>1. Begin(s, m, e) = t
      BY <1>1, <1>3 DEF Begin, States, Pollers, Seen
    <2>2. t \in States /\ t.page = s.page /\ t.fence = s.fence /\ t.poller = begun /\ t.seen = saw
      <3> HIDE DEF begun, saw
      <3> QED BY <1>1, <1>2 DEF States
    <2> HIDE DEF t, begun, saw
    <2> QED BY <1>1, <1>2, <2>1, <2>2 DEF Sound, Pollers, Seen
  <1>4. CASE ~(m \/ p.due \/ (e /\ ~p.failing /\ p.attempts < Quick))
    <2> DEFINE t == [s EXCEPT !.poller = waits]
    <2>1. Begin(s, m, e) = t
      BY <1>1, <1>4 DEF Begin, Arm, States, Pollers
    <2>2. t \in States /\ t.page = s.page /\ t.fence = s.fence /\ t.poller = waits /\ t.seen = s.seen
      <3> HIDE DEF waits
      <3> QED BY <1>1, <1>2 DEF States
    <2> HIDE DEF t, waits
    <2> QED BY <1>1, <1>2, <2>1, <2>2 DEF Sound
  <1> QED BY <1>3, <1>4

LEMMA ResumeIdleSound ==
  ASSUME NEW s, Sound(s), ~s.poller.running
  PROVE  LET t == ResumeIdle(s)
         IN Sound(t) /\ t.page = s.page /\ (Eligible(s) => t.poller.running \/ t.poller.armed)
            /\ (~Eligible(s) => t = s)
            /\ t.fence.hidden = s.fence.hidden /\ t.fence.resumed = s.fence.resumed
PROOF
  <1> DEFINE c == [s EXCEPT !.seen.cleared = TRUE]
             a == Begin(c, FALSE, TRUE)
  <1>1. Sound(c) /\ c.page = s.page /\ c.poller = s.poller /\ c.fence = s.fence
    BY DEF Sound, States, Seen
  <1>2. CASE ~Eligible(s)
    BY <1>2 DEF ResumeIdle
  <1>3. CASE Eligible(s)
    <2>1. Eligible(c)
      BY <1>1, <1>3 DEF Eligible, Awake
    <2>2. Sound(a) /\ a.page = s.page /\ (a.poller.running \/ a.poller.armed) /\ a.fence = s.fence
      <3> HIDE DEF c
      <3> QED BY <1>1, <2>1, BeginSound
    <2>3. ResumeIdle(s) = [a EXCEPT !.fence.reading = a.poller.running]
      BY <1>3 DEF ResumeIdle
    <2> HIDE DEF a
    <2> QED
      BY <1>3, <2>2, <2>3, SMTT(30) DEF Sound, States, Fences, Pollers
  <1> QED BY <1>2, <1>3

LEMMA EndSound ==
  ASSUME NEW s, Sound(s), NEW ok \in BOOLEAN
  PROVE  LET t == End(s, ok)
         IN Sound(t) /\ t.page = s.page /\ Kept(t)
            /\ t.fence.hidden = s.fence.hidden /\ t.fence.resumed = s.fence.resumed
PROOF
  <1> DEFINE over == [s EXCEPT !.poller.running = FALSE, !.poller.failing = ~ok, !.poller.requested = FALSE,
                               !.poller.due = s.poller.requested /\ ok /\ s.poller.attempts < Quick]
             set == IF Periodic \/ s.poller.requested THEN Arm(over) ELSE over
             open == [set EXCEPT !.fence.reading = FALSE, !.fence.queued = FALSE]
  <1>0. s \in States /\ s.poller \in Pollers /\ s.fence \in Fences
    BY DEF Sound, States
  <1>1. /\ Sound(open) /\ ~open.poller.running /\ open.page = s.page
        /\ open.fence.hidden = s.fence.hidden /\ open.fence.resumed = s.fence.resumed
        /\ Kept(open)
    <2> DEFINE q == over.poller
    <2>1. /\ over \in States /\ over.page = s.page /\ over.fence = s.fence /\ over.seen = s.seen
          /\ ~q.running /\ q.attempts = s.poller.attempts
      BY <1>0 DEF States, Pollers
    <2> HIDE DEF over
    <2>2. /\ Arm(over) \in States /\ Arm(over).page = s.page /\ Arm(over).fence = s.fence
          /\ Arm(over).seen = s.seen /\ ~Arm(over).poller.running
          /\ Arm(over).poller.attempts = s.poller.attempts
          /\ Arm(over).poller.armed = Eligible(over)
      BY <2>1 DEF Arm, States, Pollers, Eligible, Awake, Pages
    <2>3. /\ set \in States /\ set.page = s.page /\ set.fence = s.fence /\ set.seen = s.seen
          /\ ~set.poller.running /\ set.poller.attempts = s.poller.attempts
          /\ (Periodic => set.poller.armed = Eligible(over))
      BY <2>1, <2>2
    <2> HIDE DEF set
    <2>4. /\ open \in States /\ open.page = s.page /\ open.poller = set.poller /\ open.seen = s.seen
          /\ open.fence.hidden = s.fence.hidden /\ open.fence.resumed = s.fence.resumed
          /\ ~open.fence.reading
      BY <1>0, <2>3 DEF States, Fences
    <2> HIDE DEF open
    <2>5. Sound(open)
      BY <2>3, <2>4 DEF Sound
    <2>6. Kept(open)
      BY <2>1, <2>3, <2>4 DEF Kept, Eligible, Awake
    <2> QED BY <2>3, <2>4, <2>5, <2>6
  <1>2. End(s, ok) = IF s.fence.reading /\ s.fence.queued /\ s.page.shown THEN ResumeIdle(open) ELSE open
    BY DEF End
  <1> HIDE DEF open
  <1>3. LET t == ResumeIdle(open)
        IN Sound(t) /\ t.page = s.page /\ Kept(t)
           /\ t.fence.hidden = s.fence.hidden /\ t.fence.resumed = s.fence.resumed
    <2> DEFINE t == ResumeIdle(open)
    <2>1. Sound(t) /\ t.page = open.page /\ (Eligible(open) => t.poller.running \/ t.poller.armed)
            /\ (~Eligible(open) => t = open)
            /\ t.fence.hidden = open.fence.hidden /\ t.fence.resumed = open.fence.resumed
      BY <1>1, ResumeIdleSound
    <2> HIDE DEF t
    <2>2. Kept(t)
      BY <1>1, <2>1 DEF Kept
    <2> QED BY <1>1, <2>1, <2>2 DEF t
  <1> QED BY <1>1, <1>2, <1>3

LEMMA EventSound ==
  ASSUME NEW s, Sound(s), NEW clears \in BOOLEAN
  PROVE  LET t == Event(s, clears)
         IN Sound(t) /\ t.page = s.page /\ (Eligible(s) => Kept(t)) /\ (~Eligible(s) => t = s)
            /\ t.fence.hidden = s.fence.hidden /\ t.fence.resumed = s.fence.resumed
PROOF
  <1> DEFINE told == [s EXCEPT !.seen.cleared = @ \/ clears]
             asked == [told EXCEPT !.poller.requested = TRUE]
  <1>1. Sound(told) /\ told.page = s.page /\ told.poller = s.poller /\ told.fence = s.fence
    BY DEF Sound, States, Seen
  <1>2. Sound(asked) /\ asked.page = s.page /\ asked.fence = s.fence
        /\ asked.poller.running = s.poller.running
    BY DEF Sound, States, Seen, Pollers
  <1>3. CASE ~Eligible(s)
    BY <1>3 DEF Event
  <1>4. CASE Eligible(s) /\ ~s.poller.running
    <2>1. Event(s, clears) = Begin(told, FALSE, TRUE)
      BY <1>4 DEF Event
    <2>2. Eligible(told) /\ ~told.poller.running
      BY <1>1, <1>4 DEF Eligible, Awake
    <2> DEFINE t == Begin(told, FALSE, TRUE)
    <2> HIDE DEF told
    <2>3. Sound(t) /\ t.page = told.page /\ (t.poller.running \/ t.poller.armed) /\ t.fence = told.fence
      BY <1>1, <2>2, BeginSound
    <2> HIDE DEF t
    <2>4. Kept(t)
      BY <2>3 DEF Kept
    <2> QED BY <1>1, <1>4, <2>1, <2>3, <2>4 DEF t
  <1>5. CASE Eligible(s) /\ s.poller.running /\ clears
    <2>1. Event(s, clears) = End(asked, TRUE)
      BY <1>5 DEF Event
    <2> HIDE DEF asked
    <2> DEFINE t == End(asked, TRUE)
    <2>2. Sound(t) /\ t.page = asked.page /\ Kept(t)
          /\ t.fence.hidden = asked.fence.hidden /\ t.fence.resumed = asked.fence.resumed
      BY <1>2, EndSound
    <2> HIDE DEF t
    <2> QED BY <1>2, <1>5, <2>1, <2>2 DEF t
  <1>6. CASE Eligible(s) /\ s.poller.running /\ ~clears
    <2>1. Event(s, clears) = asked
      BY <1>6 DEF Event
    <2> HIDE DEF asked
    <2> QED BY <1>2, <1>6, <2>1 DEF Kept
  <1> QED BY <1>3, <1>4, <1>5, <1>6

LEMMA ResumedSound ==
  ASSUME NEW s, Sound(s)
  PROVE  Sound(Resumed(s)) /\ Resumed(s).page = s.page /\ Kept(Resumed(s))
PROOF
  <1> DEFINE r == [s EXCEPT !.fence.hidden = FALSE, !.fence.resumed = TRUE]
  <1>1. /\ Sound(r) /\ r.page = s.page /\ r.poller = s.poller
        /\ r.fence.reading = s.fence.reading
    BY DEF Sound, States, Fences
  <1>2. Resumed(s) = Read(r)
    BY DEF Resumed
  <1> HIDE DEF r
  <1>3. CASE r.fence.reading
    <2> DEFINE q == [r EXCEPT !.fence.queued = TRUE]
    <2>1. Resumed(s) = q
      BY <1>2, <1>3 DEF Read
    <2>2. Sound(q) /\ q.page = r.page /\ q.poller = r.poller
      BY <1>1 DEF Sound, States, Fences
    <2>3. q.poller.running
      BY <1>1, <1>3, <2>2 DEF Sound
    <2> HIDE DEF q
    <2> QED BY <1>1, <2>1, <2>2, <2>3 DEF Kept
  <1>4. CASE ~r.fence.reading
    <2>1. Resumed(s) = Resume(r)
      BY <1>2, <1>4 DEF Read
    <2>2. CASE r.poller.running
      <3>1. Resume(r) = Event(r, TRUE)
        BY <2>2 DEF Resume
      <3>2. Sound(Resume(r)) /\ Resume(r).page = r.page
            /\ (Eligible(r) => Kept(Resume(r))) /\ (~Eligible(r) => Resume(r) = r)
        BY <1>1, <3>1, EventSound
      <3> QED BY <1>1, <2>1, <3>2 DEF Kept
    <2>3. CASE ~r.poller.running
      <3>1. Resume(r) = ResumeIdle(r)
        BY <2>3 DEF Resume
      <3> DEFINE t == ResumeIdle(r)
      <3>2. Sound(t) /\ t.page = r.page
            /\ (Eligible(r) => t.poller.running \/ t.poller.armed) /\ (~Eligible(r) => t = r)
        BY <1>1, <2>3, ResumeIdleSound
      <3> HIDE DEF t
      <3>3. Kept(t)
        BY <3>2 DEF Kept
      <3> QED BY <1>1, <2>1, <3>1, <3>2, <3>3 DEF t
    <2> QED BY <2>2, <2>3
  <1> QED BY <1>3, <1>4

-----------------------------------------------------------------------------
(* The inductive invariant, and the actions.                               *)

\* Somebody has come back and the browser still has to say so.
Announced(s) == s.page.events # {} /\ s.fence.hidden /\ ~s.fence.resumed

Good(s) ==
  /\ Sound(s)
  /\ ~s.page.frozen /\ ~Announced(s) => Kept(s)
  /\ ~s.page.shown \/ s.page.frozen =>
       s.fence.hidden /\ ~s.fence.resumed /\ s.page.events = {}

Inv == Good(Now(page))

LEMMA Becomes ==
  ASSUME NEW s, Become(s), Good(s)
  PROVE  Inv'
PROOF
  <1>1. s \in States
    BY DEF Good, Sound
  <1>2. s = [page |-> page', poller |-> poller', fence |-> fence', seen |-> seen']
    BY <1>1 DEF Become, States
  <1>3. Good([page |-> page', poller |-> poller', fence |-> fence', seen |-> seen'])
    BY <1>2
  <1> QED BY <1>3 DEF Inv, Now, Good, Sound, Kept, Announced, Eligible, Awake, States

\* An operation that leaves the page's flags and the fence's alone keeps Good.
LEMMA SameReturn ==
  ASSUME NEW s, NEW t, Good(s), Sound(t), t.page = s.page,
         t.fence.hidden = s.fence.hidden, t.fence.resumed = s.fence.resumed, Kept(s) => Kept(t)
  PROVE  Good(t)
BY DEF Good, Announced

LEMMA InitInv == Init => Inv
PROOF
  <1> SUFFICES ASSUME Init PROVE Inv
    OBVIOUS
  <1>1. 0 \in 0 .. MaxAttempts /\ 0 \in Nat
    BY PollAssumption
  <1>2. page \in Pages /\ poller \in Pollers /\ fence \in Fences /\ seen \in Seen
    BY <1>1, PollAssumption DEF Init, Pages, Pollers, Fences, Seen
  <1> DEFINE s == Now(page)
  <1>3. s \in States /\ s.page = page /\ s.poller = poller /\ s.fence = fence /\ s.seen = seen
    BY <1>2 DEF Now, States
  <1>4. /\ ~page.frozen /\ ~page.idle /\ (~page.shown => fence.hidden /\ ~fence.resumed)
        /\ page.events = {} /\ (Periodic /\ page.shown => poller.armed)
        /\ ~poller.running /\ ~fence.reading /\ seen.reads = 0 /\ poller.attempts = 0
    <2>1. PICK shown \in BOOLEAN :
            /\ page = [shown |-> shown, idle |-> FALSE, frozen |-> FALSE, events |-> {}]
            /\ poller = [attempts |-> 0, failing |-> FALSE, due |-> ~Periodic, armed |-> Periodic /\ shown,
                         running |-> FALSE, requested |-> FALSE]
            /\ fence = [hidden |-> ~shown, resumed |-> FALSE, reading |-> FALSE, queued |-> FALSE]
            /\ seen = [cleared |-> FALSE, reads |-> 0]
      BY DEF Init
    <2>2. page.shown = shown /\ ~page.frozen /\ ~page.idle /\ page.events = {}
      BY <2>1
    <2>3. poller.armed = (Periodic /\ shown) /\ ~poller.running /\ poller.attempts = 0
      BY <2>1
    <2>4. fence.hidden = ~shown /\ ~fence.resumed /\ ~fence.reading /\ seen.reads = 0
      BY <2>1
    <2> QED BY <2>2, <2>3, <2>4, Zenon
  <1> HIDE DEF s
  <1>5. Sound(s)
    BY <1>3, <1>4 DEF Sound
  <1>6. Kept(s)
    BY <1>3, <1>4 DEF Kept, Eligible, Awake
  <1>7. Good(s)
    BY <1>3, <1>4, <1>5, <1>6 DEF Good
  <1> QED BY <1>7 DEF Inv, s

LEMMA EventGood ==
  ASSUME NEW s, Good(s), NEW clears \in BOOLEAN
  PROVE  Good(Event(s, clears))
PROOF
  <1> DEFINE t == Event(s, clears)
  <1>1. Sound(t) /\ t.page = s.page /\ (Eligible(s) => Kept(t)) /\ (~Eligible(s) => t = s)
        /\ t.fence.hidden = s.fence.hidden /\ t.fence.resumed = s.fence.resumed
    BY EventSound DEF Good
  <1> HIDE DEF t
  <1>2. Good(t)
    BY <1>1 DEF Good, Announced
  <1> QED BY <1>2 DEF t

LEMMA NextInv == Inv /\ [Next]_vars => Inv'
PROOF
  <1> SUFFICES ASSUME Inv, [Next]_vars PROVE Inv'
    OBVIOUS
  <1> DEFINE s == Now(page)
  <1>0. /\ Good(s) /\ Sound(s)
        /\ s \in States /\ s.page = page /\ s.poller = poller /\ s.fence = fence /\ s.seen = seen
        /\ page \in Pages /\ poller \in Pollers /\ fence \in Fences /\ seen \in Seen
    BY DEF Inv, Good, Sound, Now, States
  <1>1. CASE Deadline
    <2> DEFINE t == [s EXCEPT !.poller = [poller EXCEPT !.due = TRUE]]
    <2>1. Become(t) /\ t \in States /\ t.poller.armed = poller.armed /\ t.poller.running = poller.running
          /\ t.poller.attempts = poller.attempts /\ t.page = page /\ t.fence = fence /\ t.seen = seen
      BY <1>0, <1>1 DEF Deadline, Become, States, Pollers
    <2> HIDE DEF t, s
    <2>2. Good(t)
      BY <1>0, <2>1 DEF Good, Sound, Kept, Announced, Eligible, Awake
    <2> QED BY <2>1, <2>2, Becomes
  <1>2. CASE GoIdle
    <2> DEFINE t == [s EXCEPT !.page = [page EXCEPT !.idle = TRUE]]
    <2>1. Become(t) /\ t \in States /\ t.poller = poller /\ t.fence = fence /\ t.seen = seen
          /\ t.page.shown = page.shown /\ t.page.frozen = page.frozen /\ t.page.events = page.events
          /\ t.page.idle
      BY <1>0, <1>2 DEF GoIdle, Become, States, Pages
    <2> HIDE DEF t, s
    <2>2. Good(t)
      BY <1>0, <2>1 DEF Good, Sound, Kept, Announced, Eligible, Awake
    <2> QED BY <2>1, <2>2, Becomes
  <1>3. CASE Timer
    <2> DEFINE u == [s EXCEPT !.poller.armed = FALSE]
               t == Begin(u, FALSE, FALSE)
    <2>1. u \in States /\ u.poller.attempts = poller.attempts /\ u.poller.running = poller.running
          /\ u.page = page /\ u.fence = fence /\ u.seen = seen /\ ~u.poller.armed
      BY <1>0 DEF States, Pollers
    <2>2. Sound(u) /\ ~u.poller.running
      BY <1>0, <1>3, <2>1 DEF Timer, Sound
    <2>3. ~page.frozen /\ Become(IF Eligible(u) THEN t ELSE u)
      BY <1>3 DEF Timer
    <2> HIDE DEF u
    <2>4. CASE Eligible(u)
      <3>1. Sound(t) /\ t.page = u.page /\ (t.poller.running \/ t.poller.armed) /\ t.fence = u.fence
        BY <2>2, <2>4, BeginSound
      <3> HIDE DEF t, s
      <3>2. Good(t)
        BY <1>0, <2>1, <2>3, <3>1 DEF Good, Kept
      <3> QED BY <2>3, <2>4, <3>2, Becomes
    <2>5. CASE ~Eligible(u)
      <3> HIDE DEF s
      <3>1. Good(u)
        BY <1>0, <2>1, <2>2, <2>5 DEF Good, Kept
      <3> QED BY <2>3, <2>5, <3>1, Becomes
    <2> QED BY <2>4, <2>5
  <1>4. CASE ReadEnds
    <2> PICK ok \in BOOLEAN : Become(End(s, ok))
      BY <1>4 DEF ReadEnds
    <2> DEFINE t == End(s, ok)
    <2> HIDE DEF s
    <2>1. Sound(t) /\ t.page = s.page /\ Kept(t)
          /\ t.fence.hidden = s.fence.hidden /\ t.fence.resumed = s.fence.resumed
      BY <1>0, EndSound
    <2>2. Become(t)
      OBVIOUS
    <2> HIDE DEF t
    <2>3. Good(t)
      BY <1>0, <2>1, SameReturn
    <2> QED BY <2>2, <2>3, Becomes
  <1>5. CASE Input
    <2> DEFINE d == [page EXCEPT !.idle = FALSE]
               u == [Now(d) EXCEPT !.seen.reads = 0]
               r == [u EXCEPT !.poller.attempts = 0, !.poller.failing = FALSE, !.poller.due = TRUE]
    <2>1. /\ u \in States /\ u.poller = poller /\ u.fence = fence /\ u.seen.reads = 0
          /\ u.page.shown = page.shown /\ u.page.frozen = page.frozen
          /\ u.page.events = page.events /\ ~u.page.idle
      BY <1>0 DEF Now, States, Pages, Seen
    <2>2. /\ r \in States /\ r.fence = fence /\ r.seen = u.seen /\ r.page = u.page
          /\ r.poller.attempts = 0 /\ r.poller.running = poller.running /\ r.poller.armed = poller.armed
      <3> HIDE DEF u
      <3>1. 0 \in 0 .. MaxAttempts
        BY PollAssumption
      <3> QED BY <1>0, <2>1, <3>1 DEF States, Pollers
    <2>3. Sound(u) /\ Sound(r)
      <3> HIDE DEF u, r, s
      <3> QED BY <1>0, <2>1, <2>2 DEF Sound, Pollers
    <2>4. ASSUME NEW clears \in BOOLEAN, page.shown, Become(Restart(u, clears))
          PROVE  Inv'
      <3> DEFINE t == Event(r, clears)
      <3>1. Restart(u, clears) = t
        BY DEF Restart
      <3>2. Eligible(r)
        <4> HIDE DEF u, r
        <4>1. 0 < MaxAttempts
          BY PollAssumption
        <4>2. r.page.shown /\ ~r.page.idle
          BY <2>1, <2>2, <2>4
        <4> QED BY <2>2, <4>1, <4>2 DEF Eligible, Awake
      <3> HIDE DEF r, u
      <3>3. Sound(t) /\ t.page = r.page /\ Kept(t)
            /\ t.fence.hidden = r.fence.hidden /\ t.fence.resumed = r.fence.resumed
        BY <2>3, <3>2, EventSound
      <3>4. Become(t)
        BY <2>4, <3>1
      <3> HIDE DEF t, s
      <3>5. Good(t)
        BY <1>0, <2>1, <2>2, <3>3 DEF Good
      <3> QED BY <3>4, <3>5, Becomes
    <2>5. ASSUME ~(page.shown /\ (page.idle \/ poller.attempts = MaxAttempts)), Become(u)
          PROVE  Inv'
      <3> HIDE DEF u, s
      <3>1. Good(u)
        BY <1>0, <2>1, <2>3, <2>5 DEF Good, Announced, Kept, Eligible, Awake
      <3> QED BY <2>5, <3>1, Becomes
    <2>6. \/ page.shown /\ \E clears \in BOOLEAN : Become(Restart(u, clears))
          \/ ~(page.shown /\ (page.idle \/ poller.attempts = MaxAttempts)) /\ Become(u)
      <3>1. \/ page.shown /\ page.idle /\ \E clears \in BOOLEAN : Become(Restart(u, clears))
            \/ page.shown /\ ~page.idle /\ poller.attempts = MaxAttempts /\ Become(Restart(u, FALSE))
            \/ ~(page.shown /\ (page.idle \/ poller.attempts = MaxAttempts)) /\ Become(u)
        BY <1>5 DEF Input
      <3> HIDE DEF u
      <3> QED BY <3>1
    <2> HIDE DEF u
    <2> QED BY <2>4, <2>5, <2>6
  <1>6. CASE Lifecycle \/ Poll
    <2>1. PICK clears \in BOOLEAN : Become(Event(s, clears))
      BY <1>6 DEF Lifecycle, Poll
    <2> DEFINE t == Event(s, clears)
    <2>2. Become(t)
      BY <2>1
    <2> HIDE DEF s
    <2>3. Good(t)
      BY <1>0, EventGood
    <2> HIDE DEF t
    <2> QED BY <2>2, <2>3, Becomes
  <1>7. CASE Refresh
    <2> DEFINE t == Begin(s, TRUE, FALSE)
    <2>1. Become(t) /\ Eligible(s) /\ ~s.poller.running
      BY <1>7 DEF Refresh, Now
    <2> HIDE DEF s
    <2>2. Sound(t) /\ t.page = s.page /\ (t.poller.running \/ t.poller.armed) /\ t.fence = s.fence
      BY <1>0, <2>1, BeginSound
    <2> HIDE DEF t
    <2>3. Good(t)
      BY <1>0, <2>2, SameReturn DEF Kept
    <2> QED BY <2>1, <2>3, Becomes
  <1>8. CASE Revalidate
    <2> DEFINE told == [s EXCEPT !.seen.cleared = TRUE]
               u == IF poller.running THEN End(told, TRUE) ELSE told
               t == Begin(u, TRUE, FALSE)
    <2>1. told \in States /\ told.page = page /\ told.poller = poller /\ told.fence = fence
          /\ told.seen.reads = seen.reads
      BY <1>0 DEF States, Seen
    <2>2. Good(told)
      <3> HIDE DEF told, s
      <3> QED BY <1>0, <2>1 DEF Good, Sound, Kept, Announced, Eligible, Awake
    <2>3. Become(IF Eligible(u) /\ ~u.poller.running THEN t ELSE u)
      BY <1>8 DEF Revalidate
    <2> HIDE DEF told
    <2>4. Good(u)
      <3>1. CASE poller.running
        <4> DEFINE v == End(told, TRUE)
        <4>1. Sound(v) /\ v.page = told.page /\ Kept(v)
              /\ v.fence.hidden = told.fence.hidden /\ v.fence.resumed = told.fence.resumed
          BY <2>2, EndSound DEF Good
        <4>2. u = v
          BY <3>1
        <4> HIDE DEF v, u
        <4> QED BY <2>2, <4>1, <4>2, SameReturn
      <3>2. CASE ~poller.running
        BY <2>2, <3>2
      <3> QED BY <3>1, <3>2
    <2> HIDE DEF u
    <2>5. CASE Eligible(u) /\ ~u.poller.running
      <3>1. Sound(t) /\ t.page = u.page /\ (t.poller.running \/ t.poller.armed) /\ t.fence = u.fence
        BY <2>4, <2>5, BeginSound DEF Good
      <3>2. Become(t)
        BY <2>3, <2>5
      <3> HIDE DEF t
      <3>3. Good(t)
        BY <2>4, <3>1, SameReturn DEF Kept
      <3> QED BY <3>2, <3>3, Becomes
    <2>6. CASE ~(Eligible(u) /\ ~u.poller.running)
      BY <2>3, <2>4, <2>6, Becomes
    <2> QED BY <2>5, <2>6
  <1>9. CASE Hide
    <2> DEFINE d == [page EXCEPT !.shown = FALSE]
               t == [Left(d) EXCEPT !.poller.armed = FALSE]
    <2>1. Become(t) /\ page.events = {}
      BY <1>9 DEF Hide
    <2>2. /\ t \in States /\ ~t.page.shown /\ t.page.events = page.events
          /\ t.fence.hidden /\ ~t.fence.resumed /\ t.fence.reading = fence.reading
          /\ ~t.poller.armed /\ t.poller.running = poller.running
          /\ t.poller.attempts = poller.attempts /\ t.seen = seen
      <3>1. /\ t.page = d /\ t.seen = seen /\ t.fence.hidden /\ ~t.fence.resumed
            /\ t.fence.reading = fence.reading
            /\ ~t.poller.armed /\ t.poller.running = poller.running /\ t.poller.attempts = poller.attempts
        BY <1>0 DEF Left, Now, States, Pollers, Fences
      <3>2. d \in Pages /\ ~d.shown /\ d.events = page.events
        BY <1>0 DEF Now, States, Pages
      <3>3. t \in States
        <4> HIDE DEF d
        <4> QED BY <1>0, <3>2 DEF Left, Now, States, Pollers, Fences
      <3> QED BY <3>1, <3>2, <3>3
    <2> HIDE DEF t, s
    <2>3. Good(t)
      BY <1>0, <2>1, <2>2 DEF Good, Sound, Kept, Eligible, Awake
    <2> QED BY <2>1, <2>3, Becomes
  <1>10. CASE Freeze
    <2> DEFINE d == [page EXCEPT !.frozen = TRUE]
               t == Left(d)
    <2>1. Become(t) /\ page.events = {}
      BY <1>10 DEF Freeze
    <2>2. /\ t \in States /\ t.page.frozen /\ t.page.events = page.events
          /\ t.fence.hidden /\ ~t.fence.resumed /\ t.fence.reading = fence.reading
          /\ t.poller = poller /\ t.seen = seen
      BY <1>0 DEF Left, Now, States, Pages, Fences
    <2> HIDE DEF t, s
    <2>3. Good(t)
      BY <1>0, <2>1, <2>2 DEF Good, Sound
    <2> QED BY <2>1, <2>3, Becomes
  <1>11. CASE Return
    <2> DEFINE e == (IF page.shown THEN {} ELSE {"visibilitychange"})
                    \cup (IF page.frozen THEN {"pageshow"} ELSE {})
               d == [page EXCEPT !.shown = TRUE, !.frozen = FALSE, !.events = e]
               t == [s EXCEPT !.page = d]
    <2>1. e \in SUBSET {"visibilitychange", "pageshow"} /\ e # {}
      BY <1>11 DEF Return
    <2>2. d \in Pages /\ d.shown /\ ~d.frozen /\ d.events = e
      <3> HIDE DEF e
      <3> QED BY <1>0, <2>1 DEF Pages
    <2>3. page' = d /\ UNCHANGED <<poller, fence, seen>>
      BY <1>11 DEF Return
    <2> HIDE DEF d, e
    <2>4. Become(t) /\ t \in States /\ t.page = d /\ t.poller = poller /\ t.fence = fence /\ t.seen = seen
      BY <1>0, <2>2, <2>3 DEF Become, States
    <2> HIDE DEF t, s
    <2>5. fence.hidden /\ ~fence.resumed
      BY <1>0, <1>11 DEF Good, Return
    <2>6. Good(t)
      BY <1>0, <2>1, <2>2, <2>4, <2>5 DEF Good, Sound, Announced
    <2> QED BY <2>4, <2>6, Becomes
  <1>12. CASE Visibility \/ Pageshow
    <2>1. PICK e \in {"visibilitychange", "pageshow"} :
            /\ e \in page.events
            /\ LET u == Now([page EXCEPT !.events = @ \ {e}])
               IN \/ Become(Resumed(u))
                  \/ ~(fence.hidden /\ ~fence.resumed) /\ Become(u)
      BY <1>12 DEF Visibility, Pageshow
    <2> DEFINE u == Now([page EXCEPT !.events = @ \ {e}])
    <2>2. /\ u \in States /\ u.poller = poller /\ u.fence = fence /\ u.seen = seen
          /\ u.page.shown = page.shown /\ u.page.idle = page.idle /\ u.page.frozen = page.frozen
      BY <1>0 DEF Now, States, Pages
    <2>3. Become(Resumed(u)) \/ (~(fence.hidden /\ ~fence.resumed) /\ Become(u))
      BY <2>1
    <2> HIDE DEF u, s
    <2>4. page.shown /\ ~page.frozen
      BY <1>0, <2>1 DEF Good
    <2>5. Sound(u)
      BY <1>0, <2>2 DEF Sound
    <2>6. CASE Become(Resumed(u))
      <3> DEFINE t == Resumed(u)
      <3>1. Sound(t) /\ t.page = u.page /\ Kept(t)
        BY <2>5, ResumedSound
      <3> HIDE DEF t
      <3>2. Good(t)
        BY <2>2, <2>4, <3>1 DEF Good
      <3> QED BY <2>6, <3>2, Becomes DEF t
    <2>7. CASE ~(fence.hidden /\ ~fence.resumed) /\ Become(u)
      <3>1. Good(u)
        BY <1>0, <2>2, <2>4, <2>5, <2>7 DEF Good, Announced, Kept, Eligible, Awake
      <3> QED BY <2>7, <3>1, Becomes
    <2> QED BY <2>3, <2>6, <2>7
  <1>13. CASE UNCHANGED vars
    <2>1. Become(s)
      BY <1>13 DEF Become, vars, Now
    <2> QED BY <1>0, <2>1, Becomes
  <1> QED
    BY <1>1, <1>2, <1>3, <1>4, <1>5, <1>6, <1>7, <1>8, <1>9, <1>10, <1>11, <1>12, <1>13 DEF Next

\* The variables of the poller, the fence and the document fit together after
\* every sequence of timers, returns, wake-ups, inputs and failures.
THEOREM Invariance == Spec => []Inv
BY InitInv, NextInv, PTL DEF Spec

-----------------------------------------------------------------------------

\* The state of the poller, the return fence and the page keep their types.
THEOREM TypeCorrect == Spec => []TypeOK
PROOF
  <1>1. Inv => TypeOK
    BY DEF Inv, Good, Sound, States, Now, TypeOK
  <1> QED BY <1>1, Invariance, PTL

\* Whatever the order of hiding, freezing, returning, failing and waking, a
\* page that may read is reading or has its timer armed.
THEOREM NextReadIsSet == Spec => []AwakeIsArmed
PROOF
  <1>1. Inv => AwakeIsArmed
    BY DEF Inv, Good, Kept, Announced, AwakeIsArmed, CanRead, Now
  <1> QED BY <1>1, Invariance, PTL

\* No combination of entry points begins more reads than the budget without
\* the person's input.
THEOREM BudgetKept == Spec => []WithinBudget
PROOF
  <1>1. Inv => WithinBudget
    <2> SUFFICES ASSUME Inv PROVE WithinBudget
      OBVIOUS
    <2>1. seen \in Seen /\ poller \in Pollers /\ seen.reads <= poller.attempts
      BY DEF Inv, Good, Sound, States, Now
    <2> QED BY <2>1, PollAssumption DEF Pollers, Seen, WithinBudget
  <1> QED BY <1>1, Invariance, PTL
================================================================================
