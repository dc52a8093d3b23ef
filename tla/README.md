# A verification project for the Doctor CRE application

The repository is the browser side of a product for commercial real estate: a
Deal Room with a live board of deals, a command dock, call mode, tours, a
client portal, and the workers and scripts that serve and release it. The data
lives in a *record layer* behind one HTTP door, `/api/verb/<name>`, that is not
in the repository. What is hard about the browser side is that everything it
knows is late. Answers are lost, delayed, doubled and overtaken; two tabs share
one storage; a person acts again before the page knows what the last action
did. The source treats this with care: one idempotency key per operation, holds
over values that were just confirmed, tickets for reads, outcomes that are
"unknown" and are said to be. This project states what that care promises,
checks it with TLC on small instances, and proves most of it with TLAPS for
every size.

Contents: [the system](#1-the-system), [the plan](#2-the-plan),
[the modules](#3-the-modules), [the runs](#4-the-runs),
[the proofs](#5-the-proofs), [findings](#6-findings),
[what is not modelled](#7-what-is-not-modelled).

## 1. The system

Paths are below `src/`. "Modelled" names the module of this directory.

### Components that carry the core logic

**Command kernel** — `js/command-feedback.mjs`. *Modelled: CommandKernel.*
State: `commands`, one entry per operation (status, idempotency key, frozen
request, place in the dock). Operations: `beginCommand`, `settleCommand`,
`classifyCommandOutcome`, `feedbackStateFor`, `performCommand`, which races an
answer against 30 seconds. Called by nearly every write of the product; calls
the live client. Hard: the deadline ends the wait and not the write; a retry
may be turned away while its first copy commits; a person may click twice, or
change their mind while the outcome is unknown. Correct when an operation is
never open twice, never has two keys that could both still change the record,
and is reported as what happened to it.

**Board coordinator** — `js/board-sync.mjs`, driven by `js/app.js`. *Modelled:
BoardSync.* State: the open read and its ticket, one queued follow-up, the
callers that wait, the foreground ticket of the badge, holds over confirmed
values, a clock, a generation, the feed's cursor. Operations: `refreshBoard`
(queued, joined or forced), the callbacks of a read, `pollChanges`,
`noteLocalWrite`, `invalidate`, `setOnline`. Hard: requests land between the
promise callbacks of a read; abandoned reads answer late; a hold must outlast
every read sent before it and no read sent after. Correct when one read is live
at a time, every caller is answered by a read that was sent after it asked, and
the board never goes back.

**Live client** — `js/live-client.js`. *In part: BoardSync, CommandKernel,
AskOutbox, RetainedCommands.* State: a map of identical reads in flight, which later readers
join. It shares those, sends keyed and unkeyed writes, refuses writes while the
browser is offline and cuts reads off after ten seconds. The interaction
that matters is with the coordinator: a read that the coordinator starts may
join one that was sent earlier (finding 1).

**Cell writes** — `js/field-write-reconciliation.mjs`, with `sendCellWrite`,
`patchField`, `applyBoardSnapshot`, `pollOnce` and their neighbours in
`js/app.js`. *Modelled: CellWrite.* State: per cell, the open or unresolved
write and the base it was made on; `state.fieldBase`, the newest event known;
the row. Hard: the answer to a write, a board read sent before it and a feed
page of any age arrive in any order, and each moves the base or the row. Correct
when rows and bases only go forward and nobody is told that they crossed with
themselves.

**Ask outbox** — `src/ui/queued-asks.ts`, `src/ui/ask-composer.tsx`,
`submitDocRequest` of the live client. *Modelled: AskOutbox.* State: asks in
the device's storage, one record per request key, shared by tabs; per tab, a
composer, a busy drain with the keys it attempted and the retries it was asked
for, and the request on its way. Hard: two tabs send copies of one ask; storage
throws between deciding to send and sending; a tab is closed on the way; the
online event arrives while a drain is busy. Correct when nothing leaves the
device unrecorded, an acceptance is never taken back, a text is asked once and
a saved ask is sent.

**Retained commands** — `js/retained-commands.mjs`, behind every write that
belongs to a session. *Modelled: RetainedCommands.* State: per operation the
retained entry (request, status) and the session it is bound to. Operations:
`send`, and for email actions "Check outcome", which repeats a request. Hard: a
call looks at what is retained, awaits the session, and looks again, so that
calls overtake each other in between; the session may have moved; a retry that
is turned away says nothing of the attempt before it. Correct when an operation
has one open attempt, a request whose outcome is unknown keeps its key and its
session, and nobody is told something untrue about what was sent.

**Recordings: tour notes and phone calls** — `tours/day-recorder.js`,
`tours/day-store.js`, `js/phone-calls.js`. *Modelled: DayRecorder, PhoneCalls.*
State: the notes of a device with their audio, a capture lock per note, a take
per recording; for phone calls also the session at the call service, one click
that a tab is busy with, and status answers on their way. Hard: the page is
hidden or replaced while the microphone is asked for; a tab is lost between any
two awaits and another recovers its note; one of many queued saves fails; two
tabs transfer one recording, and answers of the service arrive late. Correct
when a running microphone has its button, a recording that goes on is left
alone, a note called saved holds all of it, and audio leaves the device only
when the service has it.

**Background reads** — `js/visibility-poll.mjs`, `js/read-on-resume.mjs`,
`js/auto-refresh.mjs`. *Modelled: VisibilityPoll.* State: attempts, a deadline,
a timer, the running read; the fence of a page that clears its private view
when somebody returns to it. Hard: a timer, lifecycle events, returns (one event
or two, in any order), idle spells and the page's own calls share one counter
and one timer that each of them may stop. Correct when a page in view always has
a next read, a cleared view is read again, and only a person's input gives the
page new attempts.

**Change feed, receipts, undo** — `js/change-receipts.mjs`. State: what was
seen, tombstones, receipts, an undo tracker with a retained request per event.
The order of pages is in BoardSync and the effect of pages on bases in
CellWrite. The rest is not modelled: the receipts are a bounded, sorted list for
display, and the undo tracker is the smaller sister of the command kernel, with
no deadline of its own.

**Private session boundary** — `js/private-session.js`, `js/progress-auth.js`.
State: the verified session and a generation. What it does to writes is in
RetainedCommands; what it does to reads ends in replacing the whole page, and is
not modelled.

**Deadlines and budgets** — `js/current-read.mjs`, `js/read-budget.mjs`,
`js/request-budget.mjs`. The deadlines are what BoardSync, AskOutbox and
VisibilityPoll assume of a read. The 600 requests of a tab are one counter.

**Drafts, home batches, tour list, call mode** — `js/local-drafts.mjs`,
`src/ui/home/batch.ts`, `src/ui/portal/tour-list-state.ts`, `js/call-mode.js`.
Text that one page stores and never sends; pure transition functions; pages
that write through the kernel. Not modelled.

### The rest

Pipeline board, work queue, search, progress, control room and
status pages are projections of fenced reads and send what they write through
the kernel. The workers route and set headers, per request. Build and
release scripts are sequential. `PROJECT.json` lists each with its reason.

### How they interact

```
 person ──► app.js ──claim──► command kernel ──request──► live client ──► record
              │  ▲                                           ▲   layer
    base, row │  │ rows, holds                               │ shared reads
              ▼  │                                           │
        cell writes ──confirm / ask for a read──► board coordinator
              ▲                                      │  feed cursor
              └──────── events (bases only) ◄────────┘
 person ──► ask composer ──► device storage ◄── other tabs      (ask outbox)
 person ──► email action, other writes ──scope──► retained commands ──► live client
 person ──► recorder ──► note store ◄── other tabs    note store ──► call service
 timer, events, input ──► background poller ──read──► page
```

A cell write asks the kernel to send; its answer paints the row and is *noted*
with the coordinator, which holds the value and queues a read; the read's answer
is merged under the holds; the feed moves bases and, when it has caught up, asks
for a read. `PROJECT.json` lists under `hazards` what can go wrong, at its line.

## 2. The plan

Most important first. Each component becomes a module whose parameters are
constants with named assumptions, one action per handler, invariants as
conjunctions of named parts, no RECURSIVE operator, so that it can be proved
about as well as checked.

| Step | Module | Models | Abstract specification | State |
|---|---|---|---|---|
| 1 | CommandKernel | one operation, one key | OneOutcome | checked, proved |
| 2 | BoardSync | reads, holds, the feed cursor | BoardView | checked, proved |
| 3 | AskOutbox | asks over one storage and many tabs | AskOnce | checked, proved |
| 4 | CellWrite | cell writes over 1 and 2 taken as their abstractions | BoardView | checked, proved |
| 5 | VisibilityPoll | one attempt counter, a deadline, returns | — | checked, proved |
| 6 | DayRecorder | takes, locks and recovery over one note store | — | checked, proved |
| 7 | PhoneCalls | 6 with transfers to the call service | AudioCustody | checked, proved |
| 8 | RetainedCommands | a claim behind an awaited session | OneOutcome | checked, proved |

Composition: CellWrite is the composition of 1 and 2 through their abstract
specifications, OneOutcome and BoardView. CommandKernel and BoardSync are each
shown to implement theirs, so CellWrite need not repeat them. PhoneCalls extends
DayRecorder: its steps are steps of the recorder or leave it alone but for the
rows. CommandKernel and RetainedCommands classify answers by the same code,
CommandOutcomes, and implement the same promise, OneOutcome.

What is left, and would come next: the undo tracker (OneOutcome per event), home
batches (a remainder that shrinks with each undo), and the session boundary
around reads.

## 3. The modules

| Module | Role |
|---|---|
| `OneOutcome` | abstract: a decision takes effect at most once and is reported as it ended |
| `CommandOutcomes` | the answers a write can have, and what is concluded from them |
| `CommandKernel`, `CommandKernelProofs` | the kernel over a lossy wire; its theorems |
| `RetainedCommands`, `RetainedCommandsMC`, `RetainedCommandsProofs` | writes behind an awaited session; symmetry for TLC; theorems |
| `BoardView` | abstract: a board shows values the record holds, its own at once, never an older one again |
| `BoardSync`, `BoardSyncMC`, `BoardSyncProofs` | the coordinator, over shared or unshared reads; symmetry and a constraint for TLC; theorems |
| `CellWrite`, `CellWriteProofs` | cell writes, bases and rows; theorems |
| `AskOnce` | abstract: what was written is asked once, kept before it leaves, and received for good |
| `AskOutbox`, `AskOutboxMC`, `AskOutboxProofs` | the outbox over several tabs; symmetry for TLC; theorems |
| `AudioCustody` | abstract: a recording grows until it is sealed, is uploaded whole, and leaves the device when it was handed on |
| `DayRecorder`, `DayRecorderProofs` | the recorder and the notes of a device; theorems |
| `PhoneCalls`, `PhoneCallsProofs` | the recorder with transfers; theorems |
| `VisibilityPoll`, `VisibilityPollProofs` | background reads; theorems |

Operators named `...Mut` before a definition are plausible slips in the code it
models. They are used by no specification: each takes the place of its
definition once, to see that a property notices.

### CommandKernel

| Variable | In the code |
|---|---|
| `commands`, `request` | the `commands` map; the frozen request of an entry |
| `dock` | the state `feedbackStateFor` gives the dock |
| `sends` | one call of `performCommand` that sends: where its request is, and whether its race is still open |
| `verdict` | the definite status `performCommand` returned for a key (history) |
| `memo`, `committed` | record layer: stored answers by key, writes it holds |

`StartFresh`, `Recheck`, `ClickInFlight` and `ClickBlocked` are the four ways
through `beginCommand`. `Hear`, `Deadline`, `Unheard` and `RefuseOffline` are
the ways the race ends, each through `Settle`: classify, settle the entry, show
it, report it, in one step, as no `await` divides them. `HearTooLate` is an
answer nobody waits for. `Run` (replay, commit, conflict, decline, fault),
`TurnAway` and `Lose` are the world.

The record layer is external. It is assumed, as the code assumes, that it stores
the answer of a key and replays it. Whether it also stores *refusals* is the
constant `StickyRefusals`. The kernel needs it: with FALSE, TLC finds a
delayed first copy that commits after the person was told "refused". A page is
modelled for one visit: `commands` lives in memory, and a reload forgets it.

### BoardSync

Each call of `refreshBoard` is a request `k`, and the read it starts is
`reads[k]`. `awaits[k]` is the request whose read the caller's promise follows,
`outcome[k]` what it was told, `floor[k]` the record when it asked (history). A
read goes from open to settled (`Answer`, its first callback) to cleared
(`Clear`, the `finally`), and a follow-up starts in `Fire`, a callback later.
Refreshes may come in each of those gaps. Nothing else may: promise callbacks
run before the next network answer, timer or event (`Settling`).
`Answer` has the paths of `startBoardRead`: superseded, failed, applied, and
applied with an error in drawing, after which the rows may or may not have been
taken. `Merge` is `mergeBoardSnapshot`, `Release` the release of holds,
`ConfirmLocalWrite` and `ReconcileNewerState` what app.js does when its own write
was confirmed or overtaken. `GoOffline` and `Invalidate` abandon what is in
flight. A value of a cell is the number of the change that set it.

`Shared` says whether a read travels as `live-client.js` sends it (joining an
identical one in flight) or alone; `Others` are the readers outside the
coordinator that it can join. Left out: counters, clock-time stamps, badge
wording, and the early return of an access refusal, which stops the page.

### CellWrite

Events of a cell are numbered in the record's order; a value is named by its
event; 0 is what the page's first board read showed. `base` is
`state.fieldBase`, `shown` the row, `writes` the write without a definite answer
(with the base it was made on, and the receipt the record keeps for its key).
`PerformFieldWrite`, `Lose`, `RetryCellWrite`, `ConfirmLocalWrite`,
`ReconcileNewerState`, `ShowConflict` and `ReportRefusal` are the person's write
and the ways its answer is reported; `Commit`, `Cross` and `Refuse` what the
record decides, once per key; `OtherWrite` every other session, other tabs, undo
and conflict resolution included. An edit that the page blocks changes nothing
and is no action.

The coordinator is one open read, the cells held against it, and one read
queued behind it, unshared on the wire: BoardSync shows that this is what the
coordinator amounts to, and what sharing does to it. `PollOnce` takes *any* set
of existing events, of any age: gaps, the history, repeated pages and delays are
all among them. It may or may not ask for a read, as the flag that decides
belongs to the feed. It is assumed that an accepted answer names its event.

### AskOutbox

`entry`, `body` and `draft` are the device's storage; `text`, `drain` and `leg`
belong to a tab's composer and outbox (`box`); `due` are pages that have an
online event to handle; `adrift` are requests that no page waits for; `committed`
is the record layer. One page task is one step with all of its storage accesses,
since no other tab writes between two statements of one callback. `Enqueue`,
`Retry`, `Reconnect` and `Open` all end in `Flush` or `Carry`, the drain taking
its next ask; `Settle` and `GiveUp` are an outcome and the ten-second cut-off
followed by the next ask. With `StorageFails` every write of storage may throw,
with what the code does then (an ask that could not be marked as sending is not
sent). A text
stands for one act of writing, so a person who types the same words again writes
another text. "garbled" stands for every answer that is neither a receipt nor a
decline that fits the request, errors included.

### RetainedCommands, CommandOutcomes

| Variable | In the code |
|---|---|
| `commands`, `bindings` | the map of retained entries; the session each request is bound to |
| `calls` | one call of `send`: its step, what it noted before awaiting the session, whose attempt it awaits, what it was told |
| `wire`, `memo` | the copy of a request that a call sent; the record layer's judgement of a key (external) |

`Observe` is `send` up to `await scope()`, for a request of its own (`Make`) or
a repeated one (`Repeat`, "Check outcome"). `ScopeFails`, `SessionMoved`,
`InFlight`, `Unresolved`, `Join` and `Claim` are the ways on from there, told
apart by `Prior`, the entry the code decides on: the one noted before for an
email action whose attempt was open, the one that stands now for all others.
`Hear`, `GiveUp`, `RefuseOffline` and `Cancel` end an attempt through `Settle`,
which tells everybody who awaits it. `Classify` in CommandOutcomes is
`classifyCommandOutcome`, which both modules use. A call makes at most one
request of its own, so calls also name keys and attempts.

### DayRecorder, PhoneCalls

| Variable | In the code |
|---|---|
| `row` | the stored note: status, bytes of audio, was it interrupted? |
| `owner` | the tab that holds the Web Lock of a note |
| `take` | the state object of one `start()`: which await it is in, bytes, bytes saved, queue of saves |
| `active` | `active` of a tab's recorder |
| `fix` | what `recover()`, holding the lock, is about to write |
| `session`, `srv` | the row's `session_id`; the service's session (external) |
| `job`, `poll` | the click `run()` is busy with; a status answer on its way |

A take goes through `Start`, `Claimed`, `Put`, `Granted` (or `StartFails` and
`Discard`), then `Chunk`, `Save` and `SaveFails`, and `Stop`, `MicEnds`, `Ended`
and `Close`. Each await is a step, and at each the code looks again whether the
take is still wanted. Every write of the store may fail. `Reload` loses a tab at
any moment; `RecoverLock`, `RecoverPatch` and `RecoverFails` are the recovery of
what it left. PhoneCalls adds `Import`, the awaits of `transfer` (`Admit`,
`KeepSession`, `Ask`, `Weigh`, `PutAudio`, `Placed`, `Apply`), its `catch`
(`Throws`, `Caught`, `MarkFailed`), the timer (`PollAsk`, `PollApply`) and the
service. `ApplyStatus` is `applyStatus`: it writes the row whatever became of it
while the answer was travelling. `CheckStatus`, the button, shares the last steps
of a transfer and its `catch`: in the model a check that throws may mark its row
failed, where the code only shows a notice (`phone-calls.js:240`), so the model
has these behaviours and more.

### VisibilityPoll

`page` is the document, `poller` the variables of `mountVisibilityPoll`, `fence`
those of `mountReadOnResume`, `seen` history. An event and the microtasks it
sets off are one step, written as functions of a state (`Begin`, `End`, `Event`,
`Restart`, `Resume`) that actions apply and that call one another as the code
does: a read that ends opens the fence, which may begin the next one. Delays are
abstracted to whether the deadline has come, which backoff only postpones.
Two details are left out. A page may decline an attempt (`shouldPoll`,
`visibility-poll.mjs:67`): it counts and ends at once, like a read that does.
And `Revalidate` ends the running read and begins the next in one step, where
`revalidate()` (line 90) waits for the promise of the read: what the end sets
off, and the return a fence has queued, may come before the new read or after.
TLC finds all properties of the run to hold with the other order too; the proofs
are of the order in the module.

## 4. The runs

| Run | Instance | Distinct states | Shows |
|---|---|---|---|
| `kernel` | 1 operation, 2 intents, 2 keys, 3 attempts | 187,753 | the kernel keeps OneOutcome; one open send; pending ends |
| `board_reads` | 1 cell, 3 refreshes, 2 polls, 2 changes, unshared | 611,590 up to symmetry | nobody overtaken, fresh answers; pages join without gaps or repeats; the board implements BoardView |
| `board_answers` | 1 cell, 2 refreshes, 1 other reader, 1 change, reads dropped once, shared | 176,216 | every caller is answered; holds end |
| `board_shared` | 2 refreshes, 1 other reader, 1 change, shared | violation | finding 1 |
| `asks_tabs` | 2 tabs, 2 keys, 1 text, storage may throw | 18,932 up to symmetry | an acceptance is true; nothing leaves unrecorded; a text is asked once; the outbox implements AskOnce |
| `asks_senders` | 1 tab, 2 asks, storage works | 51,532 | "sending" is real; queued asks are sent |
| `asks_reconnect` | 1 tab, 2 asks | violation | finding 2 |
| `cells` | 1 cell, 4 events | 57,393 | rows and bases forward, no conflict with oneself, newer changes shown; BoardView |
| `cells_screen` | 1 cell, 3 events | violation | finding 3 |
| `calls` | 2 tabs, 1 note, 2 bytes in chunks of 1 or 2 | 603,149 | microphones have a button, live recordings are left alone, saved is complete; a call whose audio is gone was handed on; the page implements AudioCustody; what a lost tab left is settled |
| `polls` | one page, the code's own 20 and 5 attempts | 121,793 | a page in view has its next read, keeps its budget, and reads again what it cleared |
| `commands` | 1 plain and 1 email operation, 3 calls, 2 sessions, 2 intents | 192,069 up to symmetry | one open attempt, checks send nothing, true reports, requests kept as made; OneOutcome |

Some invariants were model-checked in these instances while the modules were
written and are now proved and no property of a run, as other properties here
are the stronger ones: OneLiveKey, VerdictsTrue and DockOffersCheck of the
kernel, OneLiveRead, SpinnerIsReal, NoOneStranded and HoldsAreRead of the board,
AcceptedForGood, NeverUnasked and QueuedHasSender of the outbox, WithinBase,
SupersededIsNews and NewerStateIsRead of the cells, AbandonedIsFree of the
recorder, UploadIsWhole and AudioKept of the calls.

**Bounds, and why they are enough.** *Kernel*: three attempts let a first
copy linger while a second is turned away and a third decides; two keys let an
operation be decided twice. Operations meet only in the dock's order, which is
proved for any number of them. *Board*: three refreshes are an open read, its queued
follow-up, and one that comes between their callbacks. One cell is enough, as
the merge treats cells one by one; `MaxChanges` gives a change of one's own and
one by a partner; `MaxGeneration` bounds how often what is in flight is dropped,
by a loss or return of the network or by an invalidation (the generation starts
at 1; the page may ask for reads while it is offline, so one drop is followed by
new reads). Polls and refreshes meet only in the record, the network and the
generation, so that `board_reads` has behaviours with the one and behaviours
with the other (constraint `Apart` of BoardSyncMC): what is in flight is dropped
once under refreshes, and twice, a loss and the return, under polls. With refreshes,
one of the three refreshes, two changes and one drop is left out of every
behaviour; without that bound the run has 2,304,214 states and passes. *Asks*: nothing is
unbounded. `asks_tabs` has two tabs that show one text and a second key under which it might be asked again; a third tab
can do to two what one of them does to the other. `asks_senders` has two asks in
one tab, so that one is queued while the other is on its way; with two tabs and
one text it passes as well (69,820 states), and its two invariants are proved
for any number of tabs. *Cells*: four events are an own write, a foreign one
before it and one after, and one more; `MaxEvents` bounds the history and is the
only bound. Two cells meet only in a read they share (checked by hand for
two cells with two events: 677,381 states, no error; and proved for any number).
*Commands*: three calls are an attempt, a second one that lost its race with the
first, and a check; with two sessions a request can outlive the one it was made
in. One operation of each kind is enough, as operations share nothing but the
session. *Recordings*: one note and two tabs, of which one records and the other
recovers or transfers; notes meet only in what a tab is busy with (DayRecorder
was also checked with two notes). Two bytes in chunks of one or two reach
the size limit exactly, pass it, and leave a save behind. One status answer
travels at a time, `PollAsk` names the bound. *Polls*: nothing is bounded;
`seen.reads` is kept finite by the property it is for. The page that has no
clock (`Periodic = FALSE`) was checked by hand with 6 and 3 attempts, and both
are proved.

**Symmetry** is used only in runs without liveness properties. The refinements
checked under it have no fairness in the abstract specification.

**Deadlock** is not checked for CommandKernel, BoardSync and RetainedCommands:
their attempts, requests, polls, changes and calls are finite sets, and when
they are used up the instance stops. The other modules never stop, and deadlock
is checked.

**Fairness**, and why the code justifies it:
- `WF(Deadline(n))`: each attempt armed a browser timer of 30 s
  (`command-feedback.mjs:367-371`). Nothing is assumed of the answer.
- `WF(Answer)`, `WF(Clear)`, `WF(Fire)`: promise callbacks run. `WF(Arrive \/
  Lose)`: a read is answered or cut off by `readWithDeadline` after 10 s
  (`current-read.mjs:44-58`).
- `WF(Settle \/ GiveUp)` per box: both reads of `submitDocRequest` are cut off
  after 10 s. `WF(Reconnect)`: a page handles its events.
- CellWrite: `WF(ApplyBoardSnapshot \/ ReadFails)`, the same 10 s. No fairness for
  the network, the record or the person.
- `Recovers` of DayRecorder: the pages list the notes again and again
  (`WF(RecoverLock)`), and neither reloads nor a failing store come between the
  same two steps for ever (`SF(RecoverPatch)`).
- VisibilityPoll: time passes, timers fire, events are delivered, and a read has
  a deadline of 30 s (`WF(Deadline)`, `WF(Timer)`, `WF(ReadEnds)`,
  `WF(Visibility)`, `WF(Pageshow)`). Nothing is assumed of the person.
- RetainedCommands has safety properties only, and no fairness.

## 5. The proofs

All theorems are proved by TLAPS for any constants that satisfy the named
assumptions (disjoint dummies, Boolean flags, natural bounds). Every leaf is
checked; TLC evaluates the assumptions in the runs.

**CommandKernelProofs.** `TypeCorrect`, `PlacesDistinctHolds`,
`OneOpenSendHolds`, `OneLiveKeyHolds`, `DockOffersCheckHolds` and
`ConfirmedHasLanded` hold whatever the record layer makes of a refusal;
`VerdictsTrueHolds` and `ImplementsOneOutcome` need `StickyRefusals`, the
assumption that a key it has refused stays refused. VerdictsTrue is not
inductive: "refused" is true only because no copy of the key can still commit.
`IInv` says why. *FirstTryAlone*: while the first attempt of a key is awaited,
no other attempt carries that key, so a door that turned it away turned the
decision away. *DenialsHold*: a key that was denied cannot land any more,
because its refusal is stored or no copy of its request is left on the wire.
*Lasting* names the answers that the record layer stores under either
assumption, so that the rest of `IInv` needs none. *StoreFits* and *AnswersFit*
tie the store to `committed` and answers on their way back to the store;
*EntriesFit* and *KeysFit* tie entries to keys; OneOpenSend and OneLiveKey are
part of it, since each is needed for the other. The refinement maps minting to
Decide, a recheck to Check, settling to Confirm, Deny or LoseTrack, a commit to
Land, and all else to stuttering.

**BoardSyncProofs.** `TypeCorrect`, `OneLiveReadHolds`, `SpinnerIsRealHolds`,
`NoOneStrandedHolds`, `NoOvertakingHolds`, `FeedInOrderHolds` on any wire;
`FreshAnswersHold`, `NeverBackwardsHolds` and `ImplementsBoardView` for unshared
reads, which they need (finding 1). `HoldsAreReadHolds`, on any wire, is the
safety half of HoldsEnd: the board does not go idle with a value still held
unless it says that it failed, or what was in flight was dropped. Its invariant
*HoldsCovered* says that a hold which the open read is too old to release has a
follow-up queued, and that one it could release is gone once the read was
answered, or the board says that it failed. The control part of the invariant,
*Coordinated*, says that tickets are handed out in order and no two open reads
share one (*Tickets*), that a queued follow-up is behind the open read or one
that has just ended (*QueueBehind*), and that every read was asked for;
OneLiveRead, SpinnerIsReal and NoOneStranded are part of it. The value part,
*Valued*, says that no value on the page exceeds the record (*Bounded*), that
what a live read would be merged to is never older than the row
(*MergesForward*), and that a read holds at least the floor of every caller it
answers (*FloorsMet*). *FeedOrdered* says that only one poll can still move the
cursor, and that it was sent with the cursor that stands.

**AskOutboxProofs.** `TypeCorrect`, `SentIsStoredHolds`, `AcceptedIsTrueHolds`,
`AcceptedForGoodHolds`, `AskedOnceHolds`, `NeverUnaskedHolds` and
`ImplementsAskOnce`, whether or not storage throws; `SendingIsRealHolds` and
`QueuedHasSenderHolds` where it does not (with `StorageFails` TLC violates the
first). Every step that drives a drain ends in the same few operators, so lemmas
first bring each into one form ("flow"): which entries it changes, to what, and
which request it starts. `IInv` adds that a box that is not busy has nothing
under way (*Legs*), that storage knows every key that left or was attempted
(*Stored*), that an accepted entry, and a receipt on its way to a tab, is of a
committed key (*Told*), and that the stored draft is the text of no ask
(*Asked*). The composer's comparison of its text with the stored draft does the
rest. The refinement reads the stage of an ask from its entry and the record:
enqueuing is Writes, a queued ask that a drain takes Leaves, an outcome that
stores "accepted" Hears, the record's commit Take. A task of a page can do
several of these at once, to different asks; declines, lost or garbled receipts,
retries and closed tabs change no stage.

**CellWriteProofs.** `TypeCorrect`, `WithinBaseHolds`, `CrossedByAnotherHolds`,
`SupersededIsNewsHolds`, `NewerStateIsReadHolds`, `NeverBackHolds`,
`CellsImplementBoardView`. The fact everything rests on is in *WritesFit*: the
record takes a write only on its base, so its event is base + 1, and every
earlier event of the person's own is at most the base. A conflict can therefore
only name somebody else's event. *Ordered* is row ≤ base ≤ record, and
*Authored* that the person's own events are in the record; *ReadFits* says that
an open read holds at least what every row shows that is not held against it;
*ToldFits* says that a newer change is above the base of no later write, and on
its way to the row. The refinement maps a commit to Change, its answer to
Confirm or Withhold, and all reads to Refresh.

**RetainedCommandsProofs.** `TypeCorrect`, `ChecksSendNothingHolds`,
`OneOpenAttemptHolds`, `AnswersTrueHolds`, `KeptAsMadeHolds`,
`ImplementsOneOutcome`. `IInv` has two parts. *Retained* ties the entries to the
calls: an entry, retained or noted before the session was awaited, is of an
attempt that was made for its operation, in the session it is bound to
(*EntriesFit*, *NotesFit*); a copy carries a request that its maker was the
first to send (*SentFit*); whoever waits, waits for the open attempt that the
entry names (*WaitsFit*), and was told the outcome of one for its operation
(*ToldFit*). *Judged* ties them to the record: the first attempt of a key is the
only one while it is open (*FirstTries*), so a door that turned it away turned
the decision away; a key whose entry was dropped has been judged, or has no copy
left that could be (*Dropped*); and what callers were told fits (*ReportsFit*).
The refinement maps a claim to Decide or Check, settling to Confirm, Deny or
LoseTrack, the first acceptance to Land.

**DayRecorderProofs, PhoneCallsProofs.** `DayInvariance`, `DayLiveUntouched`,
`DaySavedMeansStored`, `StoredAudioGrows` and `DayAbandonedIsFree` for the
recorder alone; `TypeCorrect`, `MicrophoneHasAButton`, `LiveRecordingIsSafe`,
`SavedIsComplete`, `AbandonedCanBeSettled`, `UploadsAreWhole`, `NothingIsLost`,
`GoneCallsAreHandedOn` and `ImplementsAudioCustody` with transfers around it,
for any number of tabs and notes and any sizes. `RecInv` says of every note how
row, lock, take and recovery fit together (*Fits*): whoever records or writes a
note holds its lock, its row has what was saved last, and recovery is only ever
about a note whose take is over. A lock that is held is held by such a take or
by a recovery. *SavesRise* adds that the queued saves of a take are each of more
audio than the one before, and than what is stored, so that no save that comes
late shrinks a row; *Actives*, that the active take of a page is its own and has
not been let go of. Together they mean that nobody keeps an abandoned note:
AbandonedIsFree is what AbandonedIsSettled, a liveness property, needs of the
state. The second module reuses all of this by one fact: its steps are steps of
the recorder, or change settled rows only. `CallInv` adds that what a transfer
carries, and what the service has, is the size of a row that cannot grow any
more, and that an answer still on its way which says "transferred" is of a
session that was. The refinement maps a save and an import to Grow, the verdict
of a take and of a recovery to Seal, the upload to Upload, the service's own
steps to HandOn and Forget, an applied status that removes the audio to Release,
and all else to stuttering.

**VisibilityPollProofs.** `TypeCorrect`, `NextReadIsSet`, `BudgetKept`. The
invariant is a predicate of a state, `Good`, so that one lemma per function
(`Begin`, `End`, `Event`, ...) shows that it leads from good states to good
states, and an action is a function applied. It says that reads since the last
input are at most the attempts used, that a timer is armed only while no read
runs and a closed fence has one running, that a page that may read is reading,
armed or about to be told of its return, and that a page nobody looks at has its
fence ready for the next return.

**Only model-checked**: liveness (PendingEnds, CallersAnswered, HoldsEnd,
SavedAsksSend, NewerStateShown, AbandonedIsSettled, ClearedIsRead), which this
prover cannot do under fairness. What each of them needs of the states on its
way is proved: OneOpenSend (a pending entry has an open attempt), NoOneStranded,
HoldsAreRead, QueuedHasSender, NewerStateIsRead, AbandonedIsFree, AwakeIsArmed.

## 6. Findings

1. **A read that starts after a confirmation can hold what preceded it**
   (`board_shared`). The coordinator declines to join an open read after a write
   was confirmed, for the reason its comments give; the live client below it joins
   it anyway when another reader of the page, or a read abandoned by a loss of
   the network, has one in flight. The hold is released and the old value comes back
   until the next read.
2. **A reconnect while a drain is busy is not remembered** (`asks_reconnect`).
   `run` returns at once; an ask whose receipt was lost earlier in that drain
   is not retried, although the contract says a reconnect retries it.
3. **A base can be ahead of the screen** (`cells_screen`). The feed moves the base
   before a read moves the row. An edit in between is sent as if its author had
   seen the newer value, and replaces it without a conflict.

Also met, without a run:

- The comment at `app.js:1503-1507` describes two forced reads on reconnect,
  where the listener only calls `setOnline(true)`.
- A second click on a plain command, made while the first is open, whose session
  check outlasts the first's answer, sends a second request under a key of its
  own. A test is named "a second click during a send never issues another
  request" (`test/retained-commands.test.mjs:54`; `invariants.json:7` of the
  interface contract says the same). The entry noted before the await is kept for
  email actions only (`retained-commands.mjs:28`). Checking `ChecksSendNothing`
  for all operations shows it.
- For email actions the same await lets a check that was held up send a request
  again after another check has settled it, and read a 401 of that as a refusal.
  `AnswersTrue` names this exemption.
- A status that was asked for before a transfer ended is applied after it: the
  row of a transferred call reads "queued" again (`phone-calls.js:110-112`). Its
  audio is already gone, so nothing is lost but the word: `GoneIsHandedOn` is
  what stays true of it.
- Where the store refuses the verdict of a take that had failed, the note is
  recovered later and called local, marked as interrupted (`day-recorder.js:73`).

## 7. What is not modelled

- **Wording, layout, rendering**, validation of payloads: no property is about
  them. An error in drawing is modelled where it leaves state behind.
- **The record layer** beyond what the code relies on. Assumptions on it are
  named above; two hazards in `PROJECT.json` exist only if it breaks them.
- **Reloading a page** in CommandKernel, BoardSync, CellWrite, RetainedCommands
  and VisibilityPoll: their state is memory, and nothing survives to be wrong
  about. AskOutbox and DayRecorder, whose state survives, model closing and
  opening at any moment.
- **Change receipts and undo, the session boundary around reads, drafts, home
  batches, the tour list and call mode**: the reasons are in section 1. The rest
  of what `PROJECT.json` lists as not modelled are read-only projections,
  stateless workers and sequential scripts, which keep no state of their own that
  steps of two actors could disturb. They are most of the repository's lines.
- **The poller of a live call**, which runs while its page is hidden, and the
  disposal of a page's readers.
- **Clock times**: deadlines are steps that may come at any moment.
