----------------------------- MODULE VisibilityPoll ----------------------------
(***************************************************************************)
(* Background reads of a page: js/visibility-poll.mjs with its presence    *)
(* and js/read-on-resume.mjs, mounted by js/auto-refresh.mjs for a page    *)
(* that clears its private view when somebody returns to it (onResume).    *)
(*                                                                         *)
(* A timer, returns to the page, "online" and "focus" events and the       *)
(* page's own calls share one counter of attempts and one deadline for the *)
(* next read.  An event that finds a read running clears the view, which   *)
(* gives that read up, and asks for another.  Only trusted input gives the *)
(* poller new attempts.                                                    *)
(*                                                                         *)
(* An event is one step with the microtasks it sets off; a read that was   *)
(* given up ends in them.  Delays are abstracted to whether the deadline   *)
(* has come.  The poller of a live call, which is kept alive while hidden, *)
(* is left out, and so is dispose().                                       *)
(***************************************************************************)
EXTENDS Naturals

CONSTANTS MaxAttempts,  \* MAX_POLL_ATTEMPTS
          Quick,        \* attempts after which events wait for the deadline, too
          Periodic      \* does the page read on a clock?

ASSUME PollAssumption ==
  /\ MaxAttempts \in Nat \ {0} /\ Quick \in Nat
  /\ Periodic \in BOOLEAN

VARIABLES
  page,     \* the document: is it shown, idle, frozen; events it has to deliver
  poller,   \* the variables of mountVisibilityPoll
  fence,    \* the variables of mountReadOnResume
  seen      \* history, see Seen

vars == <<page, poller, fence, seen>>

Pages == [shown : BOOLEAN, idle : BOOLEAN, frozen : BOOLEAN,
          events : SUBSET {"visibilitychange", "pageshow"}]
Pollers == [attempts : 0 .. MaxAttempts, failing : BOOLEAN, due : BOOLEAN,
            armed : BOOLEAN, running : BOOLEAN, requested : BOOLEAN]
Fences == [hidden : BOOLEAN, resumed : BOOLEAN, reading : BOOLEAN, queued : BOOLEAN]

\* Was the view cleared since a read last began?  How many reads began since the
\* last trusted input?
Seen == [cleared : BOOLEAN, reads : Nat]

TypeOK == page \in Pages /\ poller \in Pollers /\ fence \in Fences /\ seen \in Seen

\* What an operation reads and writes; the document may change in its step.
Now(d) == [page |-> d, poller |-> poller, fence |-> fence, seen |-> seen]
Become(s) == page' = s.page /\ poller' = s.poller /\ fence' = s.fence /\ seen' = s.seen

Awake(s) == s.page.shown /\ ~s.page.idle

Init ==
  \E shown \in BOOLEAN :
    /\ page = [shown |-> shown, idle |-> FALSE, frozen |-> FALSE, events |-> {}]
    /\ poller = [attempts |-> 0, failing |-> FALSE, due |-> ~Periodic, armed |-> Periodic /\ shown,
                 running |-> FALSE, requested |-> FALSE]
    /\ fence = [hidden |-> ~shown, resumed |-> FALSE, reading |-> FALSE, queued |-> FALSE]
    /\ seen = [cleared |-> FALSE, reads |-> 0]

-----------------------------------------------------------------------------
(* mountVisibilityPoll                                                     *)

\* Mutant: off by one.
EligibleMut(s) == Awake(s) /\ s.poller.attempts <= MaxAttempts

Eligible(s) == Awake(s) /\ s.poller.attempts < MaxAttempts

Arm(s) == [s EXCEPT !.poller.armed = Eligible(s)]

\* Mutant: a read that has to wait leaves the timer as it is.
BeginMut(s, manual, event) ==
  LET p == s.poller
  IN IF manual \/ p.due \/ (event /\ ~p.failing /\ p.attempts < Quick)
     THEN [s EXCEPT !.poller.armed = FALSE, !.poller.attempts = @ + 1, !.poller.running = TRUE,
                    !.seen.cleared = FALSE, !.seen.reads = @ + 1]
     ELSE s

\* run() of an eligible page where no read is running.
Begin(s, manual, event) ==
  LET p == s.poller
  IN IF manual \/ p.due \/ (event /\ ~p.failing /\ p.attempts < Quick)
     THEN [s EXCEPT !.poller.armed = FALSE, !.poller.attempts = @ + 1, !.poller.running = TRUE,
                    !.seen.cleared = FALSE, !.seen.reads = @ + 1]
     ELSE Arm(s)

\* The refresh of mountReadOnResume where no read is running: the view is
\* cleared, and the fence stays closed until the read has ended.
ResumeIdle(s) ==
  LET asked == Begin([s EXCEPT !.seen.cleared = TRUE], FALSE, TRUE)
  IN IF Eligible(s) THEN [asked EXCEPT !.fence.reading = asked.poller.running] ELSE s

\* Mutant: only a read that is due at once is armed.
EndMut(s, ok) ==
  LET over == [s EXCEPT !.poller.running = FALSE, !.poller.failing = ~ok, !.poller.requested = FALSE,
                        !.poller.due = s.poller.requested /\ ok /\ s.poller.attempts < Quick]
      set == IF over.poller.due THEN Arm(over) ELSE over
      open == [set EXCEPT !.fence.reading = FALSE, !.fence.queued = FALSE]
  IN IF s.fence.reading /\ s.fence.queued /\ s.page.shown THEN ResumeIdle(open) ELSE open

\* A read ends, with an answer or given up (ok), or with a failure.  One that
\* was requested meanwhile is due at once while all is well.  The fence opens,
\* and a return that was queued behind it is made up for.
End(s, ok) ==
  LET over == [s EXCEPT !.poller.running = FALSE, !.poller.failing = ~ok, !.poller.requested = FALSE,
                        !.poller.due = s.poller.requested /\ ok /\ s.poller.attempts < Quick]
      set == IF Periodic \/ s.poller.requested THEN Arm(over) ELSE over
      open == [set EXCEPT !.fence.reading = FALSE, !.fence.queued = FALSE]
  IN IF s.fence.reading /\ s.fence.queued /\ s.page.shown THEN ResumeIdle(open) ELSE open

\* run() by an event, with or without a hook that clears the view.
Event(s, clears) ==
  LET told == [s EXCEPT !.seen.cleared = @ \/ clears]
      asked == [told EXCEPT !.poller.requested = TRUE]
  IN IF ~Eligible(s) THEN s
     ELSE IF ~s.poller.running THEN Begin(told, FALSE, TRUE)
     ELSE IF clears THEN End(asked, TRUE) ELSE asked

\* Mutant: a return is taken for the person's input.
ResumeMut(s) ==
  LET fresh == [s EXCEPT !.poller.attempts = 0]
  IN IF s.poller.running THEN Event(fresh, TRUE) ELSE ResumeIdle(fresh)

\* A read the timer began is given up by the return; no fence waits for it.
Resume(s) == IF s.poller.running THEN Event(s, TRUE) ELSE ResumeIdle(s)

\* restartFromInput()
Restart(s, clears) ==
  Event([s EXCEPT !.poller.attempts = 0, !.poller.failing = FALSE, !.poller.due = TRUE], clears)

-----------------------------------------------------------------------------
(* What happens to a page.  A frozen one does nothing.                     *)

\* The deadline comes; half an hour passes without input.
Deadline == ~poller.due /\ poller' = [poller EXCEPT !.due = TRUE] /\ UNCHANGED <<page, fence, seen>>
GoIdle == ~page.idle /\ page' = [page EXCEPT !.idle = TRUE] /\ UNCHANGED <<poller, fence, seen>>

Timer ==
  /\ ~page.frozen /\ poller.armed /\ poller.due
  /\ LET s == [Now(page) EXCEPT !.poller.armed = FALSE]
     IN Become(IF Eligible(s) THEN Begin(s, FALSE, FALSE) ELSE s)

ReadEnds ==
  /\ ~page.frozen /\ poller.running
  /\ \E ok \in BOOLEAN : Become(End(Now(page), ok))

\* Trusted input: it wakes an idle page, and gives new attempts to one that has
\* used them up.  Only some pages clear their view when they wake.
Input ==
  /\ ~page.frozen
  /\ LET s == [Now([page EXCEPT !.idle = FALSE]) EXCEPT !.seen.reads = 0]
     IN \/ page.shown /\ page.idle /\ \E clears \in BOOLEAN : Become(Restart(s, clears))
        \/ page.shown /\ ~page.idle /\ poller.attempts = MaxAttempts /\ Become(Restart(s, FALSE))
        \/ ~(page.shown /\ (page.idle \/ poller.attempts = MaxAttempts)) /\ Become(s)

\* "online", "focus"; poll(), refresh() and revalidate() of the page.
Lifecycle == ~page.frozen /\ Become(Event(Now(page), TRUE))
Poll == ~page.frozen /\ Become(Event(Now(page), FALSE))
Refresh == ~page.frozen /\ Eligible(Now(page)) /\ ~poller.running /\ Become(Begin(Now(page), TRUE, FALSE))
Revalidate ==
  /\ ~page.frozen
  /\ LET told == [Now(page) EXCEPT !.seen.cleared = TRUE]
         s == IF poller.running THEN End(told, TRUE) ELSE told
     IN Become(IF Eligible(s) /\ ~s.poller.running THEN Begin(s, TRUE, FALSE) ELSE s)

\* The page is left: hidden, or put into the back-forward cache as well.
Left(d) == [Now(d) EXCEPT !.fence.hidden = TRUE, !.fence.resumed = FALSE]

Hide ==
  /\ ~page.frozen /\ page.shown /\ page.events = {}
  /\ Become([Left([page EXCEPT !.shown = FALSE]) EXCEPT !.poller.armed = FALSE])

Freeze == ~page.frozen /\ page.events = {} /\ Become(Left([page EXCEPT !.frozen = TRUE]))

\* Somebody comes back; the browser delivers one event or two, in any order.
Return ==
  /\ page.frozen \/ ~page.shown
  /\ page' = [page EXCEPT !.shown = TRUE, !.frozen = FALSE,
       !.events = (IF page.shown THEN {} ELSE {"visibilitychange"})
                  \cup (IF page.frozen THEN {"pageshow"} ELSE {})]
  /\ UNCHANGED <<poller, fence, seen>>

\* read() of mountReadOnResume
Read(s) == IF s.fence.reading THEN [s EXCEPT !.fence.queued = TRUE] ELSE Resume(s)

Resumed(s) == Read([s EXCEPT !.fence.hidden = FALSE, !.fence.resumed = TRUE])

Visibility ==
  /\ "visibilitychange" \in page.events
  /\ LET s == Now([page EXCEPT !.events = @ \ {"visibilitychange"}])
     IN Become(IF fence.hidden /\ ~fence.resumed THEN Resumed(s) ELSE s)

Pageshow ==
  /\ "pageshow" \in page.events
  /\ LET s == Now([page EXCEPT !.events = @ \ {"pageshow"}])
     IN Become(IF fence.resumed THEN s ELSE Resumed(s))

Next ==
  \/ Deadline \/ GoIdle \/ Timer \/ ReadEnds \/ Input \/ Lifecycle \/ Poll \/ Refresh \/ Revalidate
  \/ Hide \/ Freeze \/ Return \/ Visibility \/ Pageshow

\* Time passes, timers fire and events are delivered; a read has a deadline of
\* 30 seconds.
Fairness ==
  /\ WF_vars(Deadline) /\ WF_vars(Timer) /\ WF_vars(ReadEnds)
  /\ WF_vars(Visibility) /\ WF_vars(Pageshow)

Spec == Init /\ [][Next]_vars /\ Fairness

-----------------------------------------------------------------------------
(* Properties.                                                             *)

\* A page in view, with its events delivered and attempts left, is reading or
\* has its timer armed: no sequence of returns, idle spells, failures and
\* wake-ups leaves it in view without a next read.
CanRead == ~page.frozen /\ Eligible(Now(page))
AwakeIsArmed == Periodic /\ CanRead /\ page.events = {} => poller.running \/ poller.armed

\* However its entry points are combined, a page begins no more than
\* MAX_POLL_ATTEMPTS reads without the person's input.
WithinBudget == seen.reads <= MaxAttempts

\* A view that a return has cleared is read again while the page is in view.
ClearedIsRead == seen.cleared /\ CanRead ~> ~seen.cleared \/ ~CanRead
================================================================================
