------------------------------- MODULE CellWrite -------------------------------
(***************************************************************************)
(* Edits of board cells in the Deal Room: js/field-write-reconciliation.mjs *)
(* and the functions of js/app.js around it.  Three parties move a cell:   *)
(* the person, through one write at a time; everyone else, in the record;  *)
(* and the page's own reads, which arrive late and in any order with the   *)
(* answers to writes.                                                      *)
(*                                                                         *)
(* A cell has two things on the page that must not be confused: the value  *)
(* on its row, which board reads and confirmed writes set, and its base,   *)
(* the newest event known for it, which the change feed moves as well.  A  *)
(* write says which base it was made on and the record takes it only if    *)
(* that is still the newest event.                                         *)
(*                                                                         *)
(* The events of a cell are numbered in the record's own order, (recorded  *)
(* time, id); 0 is what the page's first board read showed.  A value is    *)
(* named by the event that set it.  The command kernel is taken as         *)
(* OneOutcome and the board coordinator as one open read with one queued   *)
(* behind it; CommandKernel and BoardSync are those two in full.           *)
(***************************************************************************)
EXTENDS Naturals

CONSTANTS Cells,      \* cells of the board: one field of one deal
          MaxEvents   \* bound on the events of one cell

ASSUME MaxEventsAssumption == MaxEvents \in Nat

VARIABLES
  newest,   \* newest[c]: the record's newest event of cell c
  mine,     \* mine[c]: the events of c that writes of this page committed
  writes,   \* writes[c]: the page's write that has no definite answer yet
  base,     \* base[c]: the newest event of c the page knows (state.fieldBase)
  shown,    \* shown[c]: the event whose value the row of c shows
  read,     \* the board read that is open: what the record held when it was sent
  held,     \* the cells confirmed since that read was sent
  wanted,   \* is another read queued behind it?
  failed,   \* does the badge say that the last read came to nothing?
  told      \* told[c]: the newer change of c the person was last told of

recordVars == <<newest, mine>>
readVars == <<read, held, wanted, failed>>
vars == <<recordVars, writes, base, shown, readVars, told>>

(***************************************************************************)
(* A write keeps the base it was made on.  `saw` is what the row showed    *)
(* when it was made, and `receipt` the answer the record keeps for its     *)
(* key; the page reads neither until an answer arrives.                    *)
(***************************************************************************)
NoReceipt == [kind |-> "none", event |-> 0]
NoWrite == [status |-> "none", base |-> 0, saw |-> 0, receipt |-> NoReceipt]
NoRead == [open |-> FALSE, floor |-> [c \in Cells |-> 0]]
Untold == [event |-> 0, over |-> 0]   \* their own event, and the newer one

Receipts == [kind : {"none", "ok", "conflict", "refused"}, event : Nat]
Writes == [status : {"none", "pending", "unknown"}, base : Nat, saw : Nat, receipt : Receipts]

TypeOK ==
  /\ newest \in [Cells -> Nat] /\ base \in [Cells -> Nat] /\ shown \in [Cells -> Nat]
  /\ mine \in [Cells -> SUBSET Nat]
  /\ writes \in [Cells -> Writes]
  /\ read \in [open : BOOLEAN, floor : [Cells -> Nat]]
  /\ held \in SUBSET Cells
  /\ wanted \in BOOLEAN /\ failed \in BOOLEAN
  /\ told \in [Cells -> [event : Nat, over : Nat]]

Init ==
  /\ newest = [c \in Cells |-> 0] /\ base = [c \in Cells |-> 0] /\ shown = [c \in Cells |-> 0]
  /\ mine = [c \in Cells |-> {}]
  /\ writes = [c \in Cells |-> NoWrite]
  /\ read = NoRead /\ held = {} /\ wanted = FALSE /\ failed = FALSE
  /\ told = [c \in Cells |-> Untold]

-----------------------------------------------------------------------------
(* The board's reads, as far as cells see them.                            *)

Ask == [open |-> TRUE, floor |-> newest]

\* Mutant: a request that finds a read open is dropped.
RequestRefreshMut(holds) ==
  /\ read' = IF read.open THEN read ELSE Ask
  /\ held' = IF read.open THEN holds ELSE {}
  /\ UNCHANGED wanted

\* requestRefresh, once the page holds `holds` against the open read: start a
\* read, or have one read follow the one that is open.
RequestRefresh(holds) ==
  /\ read' = IF read.open THEN read ELSE Ask
  /\ held' = IF read.open THEN holds ELSE {}
  /\ wanted' = read.open

\* The open read is over: the queued one starts.
NextRead ==
  /\ read' = IF wanted THEN Ask ELSE NoRead
  /\ held' = {}
  /\ wanted' = FALSE

\* Mutant: the newest observation wins, whatever it is an observation of.
NextCellBaseMut(current, candidate) == IF candidate = 0 THEN current ELSE candidate

\* Mutant: the result of the comparison is kept, not the newer of the two.
NextCellBaseCompareMut(current, candidate) == candidate - current

\* nextCellBase
NextCellBase(current, candidate) == IF candidate > current THEN candidate ELSE current

\* noteCellBase, for the newest event of every cell that `seen` tells of.
NoteBases(seen) == base' = [c \in Cells |-> NextCellBase(base[c], seen[c])]

\* Mutant: an answer sets every row, as if nothing had been confirmed meanwhile.
MergedMut(seen) == [c \in Cells |-> seen[c]]

\* mergeBoardSnapshot: a value confirmed since the read was sent stays.
Merged(seen) == [c \in Cells |-> IF c \in held THEN shown[c] ELSE seen[c]]

\* applyBoardSnapshot: an answer holds at least what the record held when the
\* read was sent.  Rows are replaced before they are drawn, and drawing may fail.
ApplyBoardSnapshot ==
  /\ read.open
  /\ \E seen \in [Cells -> 0..MaxEvents] :
       /\ \A c \in Cells : read.floor[c] <= seen[c] /\ seen[c] <= newest[c]
       /\ shown' = Merged(seen)
       /\ NoteBases(seen)
  /\ NextRead
  /\ failed' \in BOOLEAN
  /\ UNCHANGED <<recordVars, writes, told>>

ReadFails ==
  /\ read.open
  /\ NextRead
  /\ failed' = TRUE
  /\ UNCHANGED <<recordVars, writes, base, shown, told>>

\* The connection goes, or comes back: what is open or queued is abandoned.
Abandon ==
  /\ read' = NoRead /\ held' = {} /\ wanted' = FALSE /\ failed' = TRUE
  /\ UNCHANGED <<recordVars, writes, base, shown, told>>

\* The minute clock, or another part of the page, asks for a read.
Refresh ==
  /\ RequestRefresh(held)
  /\ UNCHANGED <<recordVars, writes, base, shown, failed, told>>

\* pollOnce: a page of the feed, of any age and with any gap, names events; no
\* value is taken from it.  A feed that has caught up asks for a read.
PollOnce ==
  /\ \E seen \in [Cells -> 0..MaxEvents] :
       /\ \A c \in Cells : seen[c] <= newest[c]
       /\ NoteBases(seen)
  /\ RequestRefresh(held) \/ UNCHANGED <<read, held, wanted>>
  /\ UNCHANGED <<recordVars, writes, shown, failed, told>>

-----------------------------------------------------------------------------
(* The record layer, from what the code says of it.                        *)

\* Another session changes the cell.
OtherWrite(c) ==
  /\ newest[c] < MaxEvents
  /\ newest' = [newest EXCEPT ![c] = @ + 1]
  /\ UNCHANGED <<mine, writes, base, shown, readVars, told>>

\* A request, or a late copy of it, reaches a record that has no answer for its key.
Undecided(c) == writes[c].status # "none" /\ writes[c].receipt = NoReceipt

Decide(c, kind, event) ==
  writes' = [writes EXCEPT ![c].receipt = [kind |-> kind, event |-> event]]

Commit(c) ==
  /\ Undecided(c)
  /\ writes[c].base = newest[c]
  /\ newest[c] < MaxEvents
  /\ newest' = [newest EXCEPT ![c] = @ + 1]
  /\ mine' = [mine EXCEPT ![c] = @ \cup {newest[c] + 1}]
  /\ Decide(c, "ok", newest[c] + 1)
  /\ UNCHANGED <<base, shown, readVars, told>>

\* "Two edits crossed": the cell has an event the write was not made on.
Cross(c) ==
  /\ Undecided(c)
  /\ writes[c].base # newest[c]
  /\ Decide(c, "conflict", newest[c])
  /\ UNCHANGED <<recordVars, base, shown, readVars, told>>

Refuse(c) ==
  /\ Undecided(c)
  /\ Decide(c, "refused", 0)
  /\ UNCHANGED <<recordVars, base, shown, readVars, told>>

-----------------------------------------------------------------------------
(* The page's writes.                                                      *)

\* performFieldWrite, for a cell with no write open: the request is built now,
\* on the base known now.
PerformFieldWrite(c) ==
  /\ writes[c].status = "none"
  /\ writes' = [writes EXCEPT ![c] =
       [status |-> "pending", base |-> base[c], saw |-> shown[c], receipt |-> NoReceipt]]
  /\ UNCHANGED <<recordVars, base, shown, readVars, told>>

\* Nothing definite came back: the write is kept, under its key.
Lose(c) ==
  /\ writes[c].status = "pending"
  /\ writes' = [writes EXCEPT ![c].status = "unknown"]
  /\ UNCHANGED <<recordVars, base, shown, readVars, told>>

\* Mutant: every attempt is a new operation, under a new key.
RetryCellWriteMut(c) ==
  /\ writes[c].status = "unknown"
  /\ writes' = [writes EXCEPT ![c] = [@ EXCEPT !.status = "pending", !.receipt = NoReceipt]]
  /\ UNCHANGED <<recordVars, base, shown, readVars, told>>

\* retryCellWrite: the same request, under the same key.
RetryCellWrite(c) ==
  /\ writes[c].status = "unknown"
  /\ writes' = [writes EXCEPT ![c].status = "pending"]
  /\ UNCHANGED <<recordVars, base, shown, readVars, told>>

\* The answer to the attempt that is out: what the record keeps for the key.
Answered(c, kind) == writes[c].status = "pending" /\ writes[c].receipt.kind = kind

Committed(c) == writes[c].receipt.event

\* settleFieldWrite, with a definite answer
Settle(c) == writes' = [writes EXCEPT ![c] = NoWrite]

TellOfNewer(c) == told' = [told EXCEPT ![c] = [event |-> Committed(c), over |-> base[c]]]

\* answerSupersededByFeed: the base moved, and not to this write's own event.
Superseded(c) == base[c] # Committed(c) /\ base[c] # writes[c].base

NoteAnswer(c) == base' = [base EXCEPT ![c] = NextCellBase(@, Committed(c))]

\* patchField and confirmLocalWrite: the value is painted and held, and a read
\* asked for.
ConfirmLocalWrite(c) ==
  /\ Answered(c, "ok") /\ ~ Superseded(c)
  /\ NoteAnswer(c)
  /\ shown' = [shown EXCEPT ![c] = Committed(c)]
  /\ RequestRefresh(held \cup {c})
  /\ Settle(c)
  /\ UNCHANGED <<recordVars, failed, told>>

\* reconcileNewerState: the value is withheld, and a read asked for.
ReconcileNewerState(c) ==
  /\ Answered(c, "ok") /\ Superseded(c)
  /\ RequestRefresh(held)
  /\ Settle(c) /\ TellOfNewer(c)
  /\ UNCHANGED <<recordVars, base, shown, failed>>

\* showConflict
ShowConflict(c) ==
  /\ Answered(c, "conflict")
  /\ Settle(c)
  /\ UNCHANGED <<recordVars, base, shown, readVars, told>>

ReportRefusal(c) ==
  /\ Answered(c, "refused")
  /\ Settle(c)
  /\ UNCHANGED <<recordVars, base, shown, readVars, told>>

-----------------------------------------------------------------------------
Page(c) ==
  \/ PerformFieldWrite(c) \/ Lose(c) \/ RetryCellWrite(c)
  \/ ConfirmLocalWrite(c) \/ ReconcileNewerState(c) \/ ShowConflict(c) \/ ReportRefusal(c)

Record(c) == OtherWrite(c) \/ Commit(c) \/ Cross(c) \/ Refuse(c)

Reads == ApplyBoardSnapshot \/ ReadFails \/ Abandon \/ Refresh \/ PollOnce

Next == Reads \/ \E c \in Cells : Page(c) \/ Record(c)

\* A read is answered or given up within its ten seconds (readWithDeadline).
Spec == Init /\ [][Next]_vars /\ WF_vars(ApplyBoardSnapshot \/ ReadFails)

-----------------------------------------------------------------------------
(* What must hold.                                                         *)

(***************************************************************************)
(* No row shows a value newer than its base: an edit of what is on screen  *)
(* is never sent on an older base than the event that put it there, which  *)
(* the record would answer with a conflict nobody caused.                  *)
(***************************************************************************)
WithinBase == \A c \in Cells : shown[c] <= base[c]

(***************************************************************************)
(* When the record says that two edits crossed, the other one is somebody  *)
(* else's and was made after the base of this one: lost answers, retries   *)
(* and late copies never manufacture a conflict between a person and       *)
(* themselves (field-write-reconciliation.mjs, sendCellWrite).             *)
(***************************************************************************)
CrossedByAnother ==
  \A c \in Cells : LET receipt == writes[c].receipt IN
    receipt.kind = "conflict" => receipt.event > writes[c].base /\ receipt.event \notin mine[c]

(***************************************************************************)
(* "The board has since seen a newer change to this cell" is only said of  *)
(* a change that is newer than the person's own, and somebody else's: the  *)
(* write's own event arriving on the feed first is recognised.             *)
(***************************************************************************)
SupersededIsNews ==
  \A c \in Cells : told[c] # Untold =>
    told[c].over > told[c].event /\ told[c].over \notin mine[c]

(***************************************************************************)
(* Once the person has been told that a newer change exists, it is on the  *)
(* row, or a read that must hold it is open or queued, or the badge says   *)
(* that the board could not be read (reconcileNewerState).                 *)
(***************************************************************************)
NewerStateIsRead ==
  \A c \in Cells : told[c] # Untold =>
    \/ shown[c] >= told[c].over
    \/ failed \/ wanted
    \/ read.open /\ c \notin held /\ read.floor[c] >= told[c].over

(***************************************************************************)
(* Neither the value on a row nor the base of its cell ever goes back to   *)
(* an earlier event, whatever order board answers, feed pages and answers  *)
(* to writes arrive in.                                                    *)
(***************************************************************************)
NeverBack ==
  [][\A c \in Cells : shown'[c] >= shown[c] /\ base'[c] >= base[c]]_vars

(***************************************************************************)
(* A newer change the person was told of reaches the row, unless the badge *)
(* says that reading failed.                                               *)
(***************************************************************************)
NewerStateShown ==
  \A c \in Cells, n \in 1..MaxEvents :
    told[c].over = n ~> (shown[c] >= n \/ failed)

(***************************************************************************)
(* The rows keep the promise of the board (BoardView): a change of this    *)
(* page whose answer is due is shown at once or withheld, and every other  *)
(* move is forward, to a value the record holds.                           *)
(***************************************************************************)
Due(c) == IF writes[c].receipt.kind = "ok" THEN Committed(c) ELSE 0

View == INSTANCE BoardView
  WITH truth <- newest, own <- [c \in Cells |-> Due(c)], shown <- shown

ImplementsBoardView == View!Spec

(***************************************************************************)
(* A committed write replaced the value its author was looking at: the     *)
(* base of a request "is a statement about what was on screen when the     *)
(* person acted" (field-write-reconciliation.mjs:29, app.js:267).          *)
(***************************************************************************)
ReplacesWhatWasOnScreen ==
  \A c \in Cells : writes[c].receipt.kind = "ok" => writes[c].saw = Committed(c) - 1
================================================================================
