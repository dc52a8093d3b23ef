---------------------------- MODULE CellWriteProofs ----------------------------
(***************************************************************************)
(* Every safety property of CellWrite, for any cells and any bound.        *)
(*                                                                         *)
(* The argument rests on one fact about a write: the record takes it only  *)
(* on its own base, so the event it commits is the next one after that     *)
(* base, and every earlier event of the same person is not after it.       *)
(***************************************************************************)
EXTENDS CellWrite, TLAPS

(* Rows are behind bases, bases are behind the record.                     *)
Ordered == \A c \in Cells : shown[c] <= base[c] /\ base[c] <= newest[c]

Authored == \A c \in Cells : \A e \in mine[c] : e > 0 /\ e <= newest[c]

(* A write, and the person's own events of its cell.                       *)
SettledFits(c) ==
  writes[c].status = "none" => writes[c] = NoWrite /\ \A e \in mine[c] : e <= base[c]

OpenFits(c) ==
  writes[c].status # "none" =>
    /\ writes[c].base <= base[c]
    /\ \A e \in mine[c] :
         e <= writes[c].base \/ (writes[c].receipt.kind = "ok" /\ e = Committed(c))

ReceiptFits(c) ==
  /\ writes[c].receipt.kind = "none" => writes[c].receipt = NoReceipt
  /\ writes[c].receipt.kind = "ok" => Committed(c) = writes[c].base + 1 /\ Committed(c) \in mine[c]
  /\ writes[c].receipt.kind = "conflict" =>
       /\ writes[c].receipt.event > writes[c].base /\ writes[c].receipt.event <= newest[c]
       /\ writes[c].receipt.event \notin mine[c]

WritesFit == \A c \in Cells : SettledFits(c) /\ OpenFits(c) /\ ReceiptFits(c)

(* An open read holds at least what the rows show, but for what is held.   *)
ReadFits ==
  /\ wanted => read.open
  /\ read.open => \A c \in Cells :
       read.floor[c] <= newest[c] /\ (c \notin held => shown[c] <= read.floor[c])

(* What the person was told of is newer than their own change, is no       *)
(* change of theirs, and is on its way to the row.                         *)
Coming(c) ==
  \/ shown[c] >= told[c].over
  \/ wanted
  \/ read.open /\ c \notin held /\ read.floor[c] >= told[c].over
  \/ ~ read.open /\ failed

ToldFits ==
  \A c \in Cells : told[c] # Untold =>
    /\ told[c].over > told[c].event /\ told[c].over \notin mine[c]
    /\ told[c].over <= base[c]
    /\ writes[c].status # "none" => told[c].over <= writes[c].base
    /\ Coming(c)

IInv == TypeOK /\ Ordered /\ Authored /\ WritesFit /\ ReadFits /\ ToldFits

-----------------------------------------------------------------------------
(* Type correctness.                                                       *)

LEMMA EmptyTypes == NoReceipt \in Receipts /\ NoWrite \in Writes
                    /\ NoRead \in [open : BOOLEAN, floor : [Cells -> Nat]]
BY DEF NoReceipt, Receipts, NoWrite, Writes, NoRead

LEMMA InitFits == Init => IInv
<1> SUFFICES ASSUME Init PROVE IInv
  OBVIOUS
<1>1. TypeOK
  BY EmptyTypes DEF Init, TypeOK, Untold
<1>2. Ordered /\ Authored
  BY DEF Init, Ordered, Authored
<1>3. WritesFit
  BY DEF Init, WritesFit, SettledFits, OpenFits, ReceiptFits, NoWrite, NoReceipt
<1>4. ReadFits /\ ToldFits
  BY DEF Init, ReadFits, ToldFits, NoRead
<1>5. QED
  BY <1>1, <1>2, <1>3, <1>4 DEF IInv

LEMMA ReadTypes ==
  ASSUME TypeOK, NEW holds \in SUBSET Cells, RequestRefresh(holds) \/ NextRead
  PROVE  /\ read' \in [open : BOOLEAN, floor : [Cells -> Nat]]
         /\ held' \in SUBSET Cells /\ wanted' \in BOOLEAN
<1>1. Ask \in [open : BOOLEAN, floor : [Cells -> Nat]]
  BY DEF Ask, TypeOK
<1>2. QED
  BY <1>1, EmptyTypes DEF TypeOK, RequestRefresh, NextRead

(* Bases that are noted are natural numbers, and only go forward.          *)
LEMMA BasesForward ==
  ASSUME TypeOK, NEW seen \in [Cells -> Nat], NoteBases(seen)
  PROVE  /\ base' \in [Cells -> Nat]
         /\ \A c \in Cells : base'[c] >= base[c] /\ base'[c] >= seen[c]
                             /\ base'[c] \in {base[c], seen[c]}
BY DEF TypeOK, NoteBases, NextCellBase

(* The ways a step edits one write.                                        *)
LEMMA WriteEdits ==
  ASSUME writes \in [Cells -> Writes], NEW c \in Cells
  PROVE  /\ \A status \in {"pending", "unknown"} :
              [writes EXCEPT ![c].status = status] \in [Cells -> Writes]
         /\ \A receipt \in Receipts :
              [writes EXCEPT ![c].receipt = receipt] \in [Cells -> Writes]
         /\ \A at, saw \in Nat :
              [writes EXCEPT ![c] = [status |-> "pending", base |-> at, saw |-> saw,
                                     receipt |-> NoReceipt]] \in [Cells -> Writes]
<1>1. \A status \in {"pending", "unknown"} : [writes[c] EXCEPT !.status = status] \in Writes
  BY DEF Writes
<1>2. \A receipt \in Receipts : [writes[c] EXCEPT !.receipt = receipt] \in Writes
  BY DEF Writes
<1>3. \A at, saw \in Nat :
        [status |-> "pending", base |-> at, saw |-> saw, receipt |-> NoReceipt] \in Writes
  BY EmptyTypes DEF Writes
<1>4. QED
  BY <1>1, <1>2, <1>3

LEMMA TypeStep == TypeOK /\ [Next]_vars => TypeOK'
<1> SUFFICES ASSUME TypeOK, [Next]_vars PROVE TypeOK'
  OBVIOUS
<1> USE DEF TypeOK
<1>1. CASE ApplyBoardSnapshot
  <2>1. PICK seen \in [Cells -> 0..MaxEvents] : shown' = Merged(seen) /\ NoteBases(seen)
    BY <1>1 DEF ApplyBoardSnapshot
  <2>2. seen \in [Cells -> Nat]
    OBVIOUS
  <2>3. base' \in [Cells -> Nat]
    BY <2>1, <2>2, BasesForward
  <2>4. shown' \in [Cells -> Nat]
    BY <2>1, <2>2 DEF Merged
  <2>5. QED
    BY <1>1, <2>3, <2>4, ReadTypes DEF ApplyBoardSnapshot, recordVars
<1>2. CASE PollOnce
  <2>1. PICK seen \in [Cells -> 0..MaxEvents] : NoteBases(seen)
    BY <1>2 DEF PollOnce
  <2>2. base' \in [Cells -> Nat]
    <3>1. seen \in [Cells -> Nat]
      OBVIOUS
    <3>2. QED
      BY <2>1, <3>1, BasesForward
  <2>3. QED
    BY <1>2, <2>2, ReadTypes DEF PollOnce, recordVars
<1>3. CASE ReadFails \/ Abandon \/ Refresh
  BY <1>3, ReadTypes, EmptyTypes DEF ReadFails, Abandon, Refresh, recordVars
<1>4. ASSUME NEW c \in Cells, Record(c) PROVE TypeOK'
  <2>1. newest[c] + 1 \in Nat
    OBVIOUS
  <2>2. \A kind \in {"ok", "conflict", "refused"}, event \in Nat :
          Decide(c, kind, event) => writes' \in [Cells -> Writes]
    <3> SUFFICES ASSUME NEW kind \in {"ok", "conflict", "refused"}, NEW event \in Nat,
                        Decide(c, kind, event)
                 PROVE  writes' \in [Cells -> Writes]
      OBVIOUS
    <3>1. [kind |-> kind, event |-> event] \in Receipts
      BY DEF Receipts
    <3>2. QED
      BY <3>1, WriteEdits DEF Decide
  <2>3. CASE OtherWrite(c)
    <3>1. newest' \in [Cells -> Nat]
      BY <2>1, <2>3 DEF OtherWrite
    <3>2. QED
      BY <2>3, <3>1 DEF OtherWrite, readVars
  <2>4. CASE Commit(c)
    <3>1. newest' \in [Cells -> Nat] /\ mine' \in [Cells -> SUBSET Nat]
      BY <2>1, <2>4 DEF Commit
    <3>2. writes' \in [Cells -> Writes]
      BY <2>1, <2>2, <2>4 DEF Commit
    <3>3. QED
      BY <2>4, <3>1, <3>2 DEF Commit, readVars
  <2>5. CASE Cross(c) \/ Refuse(c)
    <3>1. writes' \in [Cells -> Writes]
      BY <2>2, <2>5 DEF Cross, Refuse
    <3>2. QED
      BY <2>5, <3>1 DEF Cross, Refuse, readVars, recordVars
  <2>6. QED
    BY <1>4, <2>3, <2>4, <2>5 DEF Record
<1>5. ASSUME NEW c \in Cells, Page(c) PROVE TypeOK'
  <2>1. CASE PerformFieldWrite(c) \/ Lose(c) \/ RetryCellWrite(c)
    <3>1. writes' \in [Cells -> Writes]
      <4>1. CASE PerformFieldWrite(c)
        <5>1. base[c] \in Nat /\ shown[c] \in Nat
          OBVIOUS
        <5>2. QED
          BY <4>1, <5>1, WriteEdits DEF PerformFieldWrite
      <4>2. /\ [writes EXCEPT ![c].status = "unknown"] \in [Cells -> Writes]
            /\ [writes EXCEPT ![c].status = "pending"] \in [Cells -> Writes]
        BY WriteEdits
      <4>3. CASE Lose(c)
        BY <4>2, <4>3 DEF Lose
      <4>4. CASE RetryCellWrite(c)
        BY <4>2, <4>4 DEF RetryCellWrite
      <4>5. QED
        BY <2>1, <4>1, <4>3, <4>4
    <3>2. QED
      BY <2>1, <3>1 DEF PerformFieldWrite, Lose, RetryCellWrite, readVars, recordVars
  <2>2. Committed(c) \in Nat
    BY DEF Committed, Writes, Receipts
  <2>3. Settle(c) => writes' \in [Cells -> Writes]
    BY EmptyTypes DEF Settle
  <2>4. CASE ConfirmLocalWrite(c)
    <3>1. base' \in [Cells -> Nat] /\ shown' \in [Cells -> Nat]
      BY <2>4, <2>2 DEF ConfirmLocalWrite, NoteAnswer, NextCellBase
    <3>2. held \cup {c} \in SUBSET Cells
      OBVIOUS
    <3>3. QED
      BY <2>3, <2>4, <3>1, <3>2, ReadTypes DEF ConfirmLocalWrite, recordVars
  <2>5. CASE ReconcileNewerState(c)
    <3>1. told' \in [Cells -> [event : Nat, over : Nat]]
      BY <2>5, <2>2 DEF ReconcileNewerState, TellOfNewer
    <3>2. QED
      BY <2>3, <2>5, <3>1, ReadTypes DEF ReconcileNewerState, recordVars
  <2>6. CASE ShowConflict(c) \/ ReportRefusal(c)
    BY <2>3, <2>6 DEF ShowConflict, ReportRefusal, readVars, recordVars
  <2>7. QED
    BY <1>5, <2>1, <2>4, <2>5, <2>6 DEF Page
<1>6. CASE UNCHANGED vars
  BY <1>6 DEF vars, recordVars, readVars
<1>7. QED
  BY <1>1, <1>2, <1>3, <1>4, <1>5, <1>6 DEF Next, Reads

-----------------------------------------------------------------------------
(* Rows, bases and the record.                                             *)

(* The event a write committed is in the record, and is the newest of the  *)
(* person's own.                                                           *)
LEMMA CommittedIsMine ==
  ASSUME IInv, NEW c \in Cells, Answered(c, "ok")
  PROVE  /\ Committed(c) \in Nat /\ Committed(c) \in mine[c]
         /\ Committed(c) = writes[c].base + 1 /\ Committed(c) <= newest[c]
         /\ writes[c].base <= base[c]
         /\ \A e \in mine[c] : e <= Committed(c)
<1>1. writes[c] \in Writes /\ Committed(c) \in Nat /\ base[c] \in Nat /\ mine[c] \subseteq Nat
  BY DEF IInv, TypeOK, Writes, Receipts, Committed
<1>2. SettledFits(c) /\ OpenFits(c) /\ ReceiptFits(c)
  BY DEF IInv, WritesFit
<1>3. Committed(c) = writes[c].base + 1 /\ Committed(c) \in mine[c]
  BY <1>2 DEF Answered, ReceiptFits
<1>4. writes[c].base <= base[c] /\ \A e \in mine[c] : e <= writes[c].base \/ e = Committed(c)
  BY <1>2 DEF Answered, OpenFits
<1>5. Committed(c) <= newest[c]
  BY <1>3 DEF IInv, Authored
<1>6. writes[c].base \in Nat
  BY <1>1 DEF Writes
<1>7. QED
  BY <1>1, <1>3, <1>4, <1>5, <1>6

LEMMA OrderedStep == IInv /\ [Next]_vars => Ordered'
<1> SUFFICES ASSUME IInv, [Next]_vars, NEW x \in Cells
             PROVE  shown'[x] <= base'[x] /\ base'[x] <= newest'[x]
  BY DEF Ordered
<1>a. shown[x] <= base[x] /\ base[x] <= newest[x]
      /\ newest[x] \in Nat /\ base[x] \in Nat /\ shown[x] \in Nat
  BY DEF IInv, TypeOK, Ordered
<1>b. TypeOK
  BY DEF IInv
<1>1. CASE ApplyBoardSnapshot
  <2>1. PICK seen \in [Cells -> 0..MaxEvents] :
          seen[x] <= newest[x] /\ shown' = Merged(seen) /\ NoteBases(seen)
    BY <1>1 DEF ApplyBoardSnapshot
  <2>2. seen \in [Cells -> Nat]
    OBVIOUS
  <2>3. base'[x] \in Nat /\ base'[x] >= base[x] /\ base'[x] >= seen[x]
        /\ base'[x] \in {base[x], seen[x]}
    BY <1>b, <2>1, <2>2, BasesForward
  <2>4. shown'[x] \in {shown[x], seen[x]}
    BY <2>1 DEF Merged
  <2>5. newest'[x] = newest[x]
    BY <1>1 DEF ApplyBoardSnapshot, recordVars
  <2>6. QED
    BY <1>a, <2>1, <2>2, <2>3, <2>4, <2>5
<1>2. CASE PollOnce
  <2>1. PICK seen \in [Cells -> 0..MaxEvents] : seen[x] <= newest[x] /\ NoteBases(seen)
    BY <1>2 DEF PollOnce
  <2>2. seen \in [Cells -> Nat]
    OBVIOUS
  <2>3. base'[x] \in Nat /\ base'[x] >= base[x] /\ base'[x] \in {base[x], seen[x]}
    BY <1>b, <2>1, <2>2, BasesForward
  <2>4. newest'[x] = newest[x] /\ shown'[x] = shown[x]
    BY <1>2 DEF PollOnce, recordVars
  <2>5. QED
    BY <1>a, <2>1, <2>3, <2>4
<1>3. CASE ReadFails \/ Abandon \/ Refresh
  BY <1>3, <1>a DEF ReadFails, Abandon, Refresh, recordVars
<1>4. ASSUME NEW c \in Cells, Record(c)
      PROVE  shown'[x] <= base'[x] /\ base'[x] <= newest'[x]
  <2>1. shown' = shown /\ base' = base
    BY <1>4 DEF Record, OtherWrite, Commit, Cross, Refuse
  <2>2. newest'[x] = newest[x] \/ newest'[x] = newest[x] + 1
    BY <1>4, <1>b DEF Record, OtherWrite, Commit, Cross, Refuse, recordVars, TypeOK
  <2>3. QED
    BY <1>a, <2>1, <2>2
<1>5. ASSUME NEW c \in Cells, Page(c)
      PROVE  shown'[x] <= base'[x] /\ base'[x] <= newest'[x]
  <2>1. CASE ConfirmLocalWrite(c)
    <3>1. Committed(c) \in Nat /\ Committed(c) <= newest[c]
      BY <2>1, CommittedIsMine DEF ConfirmLocalWrite
    <3>2. newest' = newest
      BY <2>1 DEF ConfirmLocalWrite, recordVars
    <3>3. CASE x = c
      <4>1. shown'[x] = Committed(c) /\ base'[x] = NextCellBase(base[c], Committed(c))
        BY <1>b, <2>1, <3>3 DEF ConfirmLocalWrite, NoteAnswer, TypeOK
      <4>2. QED
        BY <1>a, <3>1, <3>2, <3>3, <4>1 DEF NextCellBase
    <3>4. CASE x # c
      BY <1>a, <1>b, <2>1, <3>2, <3>4 DEF ConfirmLocalWrite, NoteAnswer, TypeOK
    <3>5. QED
      BY <3>3, <3>4
  <2>2. CASE PerformFieldWrite(c) \/ Lose(c) \/ RetryCellWrite(c) \/ ReconcileNewerState(c)
               \/ ShowConflict(c) \/ ReportRefusal(c)
    BY <1>a, <2>2 DEF PerformFieldWrite, Lose, RetryCellWrite, ReconcileNewerState,
                      ShowConflict, ReportRefusal, recordVars
  <2>3. QED
    BY <1>5, <2>1, <2>2 DEF Page
<1>6. CASE UNCHANGED vars
  BY <1>6, <1>a DEF vars, recordVars
<1>7. QED
  BY <1>1, <1>2, <1>3, <1>4, <1>5, <1>6 DEF Next, Reads

(* Only a commit of this page adds an event to `mine`, and it is the one   *)
(* the record has just made.                                               *)
LEMMA MineGrows ==
  ASSUME IInv, [Next]_vars, NEW x \in Cells
  PROVE  /\ newest[x] <= newest'[x]
         /\ mine'[x] = mine[x] \/ (mine'[x] = mine[x] \cup {newest[x] + 1} /\ Commit(x))
<1>1. TypeOK
  BY DEF IInv
<1>2. CASE Reads
  BY <1>1, <1>2 DEF Reads, ApplyBoardSnapshot, ReadFails, Abandon, Refresh, PollOnce,
                    recordVars, TypeOK
<1>3. ASSUME NEW c \in Cells, Record(c)
      PROVE  /\ newest[x] <= newest'[x]
             /\ mine'[x] = mine[x] \/ (mine'[x] = mine[x] \cup {newest[x] + 1} /\ Commit(x))
  <2>1. CASE Commit(c)
    <3>1. CASE x = c
      BY <1>1, <2>1, <3>1 DEF Commit, TypeOK
    <3>2. CASE x # c
      BY <1>1, <2>1, <3>2 DEF Commit, TypeOK
    <3>3. QED
      BY <3>1, <3>2
  <2>2. CASE OtherWrite(c)
    BY <1>1, <2>2 DEF OtherWrite, TypeOK
  <2>3. CASE Cross(c) \/ Refuse(c)
    BY <1>1, <2>3 DEF Cross, Refuse, recordVars, TypeOK
  <2>4. QED
    BY <1>3, <2>1, <2>2, <2>3 DEF Record
<1>4. ASSUME NEW c \in Cells, Page(c)
      PROVE  newest[x] <= newest'[x] /\ mine'[x] = mine[x]
  BY <1>1, <1>4 DEF Page, PerformFieldWrite, Lose, RetryCellWrite, ConfirmLocalWrite,
       ReconcileNewerState, ShowConflict, ReportRefusal, recordVars, TypeOK
<1>5. CASE UNCHANGED vars
  BY <1>1, <1>5 DEF vars, recordVars, TypeOK
<1>6. QED
  BY <1>2, <1>3, <1>4, <1>5 DEF Next

LEMMA AuthoredStep == IInv /\ [Next]_vars => Authored'
<1> SUFFICES ASSUME IInv, [Next]_vars, NEW x \in Cells, NEW e \in mine'[x]
             PROVE  e > 0 /\ e <= newest'[x]
  BY DEF Authored
<1>1. newest[x] \in Nat /\ newest'[x] \in Nat
  BY TypeStep DEF IInv, TypeOK
<1>2. CASE e \in mine[x]
  <2>1. e \in Nat /\ e > 0 /\ e <= newest[x]
    BY <1>2 DEF IInv, TypeOK, Authored
  <2>2. QED
    BY <1>1, <2>1, MineGrows
<1>3. CASE e \notin mine[x]
  <2>1. e = newest[x] + 1 /\ Commit(x)
    BY <1>3, MineGrows
  <2>2. newest'[x] = newest[x] + 1
    BY <2>1 DEF Commit, IInv, TypeOK
  <2>3. QED
    BY <1>1, <2>1, <2>2
<1>4. QED
  BY <1>2, <1>3

(* Where a row or a base moves, it moves forward.                          *)
LEMMA ForwardStep ==
  ASSUME IInv, [Next]_vars, NEW x \in Cells
  PROVE  shown'[x] >= shown[x] /\ base'[x] >= base[x]
<1>a. shown[x] <= base[x] /\ newest[x] \in Nat /\ base[x] \in Nat /\ shown[x] \in Nat
  BY DEF IInv, TypeOK, Ordered
<1>b. TypeOK
  BY DEF IInv
<1>1. CASE ApplyBoardSnapshot
  <2>1. PICK seen \in [Cells -> 0..MaxEvents] :
          read.floor[x] <= seen[x] /\ shown' = Merged(seen) /\ NoteBases(seen)
    BY <1>1 DEF ApplyBoardSnapshot
  <2>2. seen \in [Cells -> Nat]
    OBVIOUS
  <2>3. base'[x] >= base[x]
    BY <1>b, <2>1, <2>2, BasesForward
  <2>4. shown'[x] = IF x \in held THEN shown[x] ELSE seen[x]
    BY <2>1 DEF Merged
  <2>5. x \notin held => shown[x] <= read.floor[x]
    BY <1>1 DEF ApplyBoardSnapshot, IInv, ReadFits
  <2>6. read.floor[x] \in Nat
    BY <1>b DEF TypeOK
  <2>7. shown'[x] >= shown[x]
    BY <1>a, <2>1, <2>2, <2>4, <2>5, <2>6
  <2>8. QED
    BY <2>3, <2>7
<1>2. CASE PollOnce
  <2>1. PICK seen \in [Cells -> 0..MaxEvents] : NoteBases(seen)
    BY <1>2 DEF PollOnce
  <2>2. seen \in [Cells -> Nat]
    OBVIOUS
  <2>3. base'[x] >= base[x]
    BY <1>b, <2>1, <2>2, BasesForward
  <2>4. QED
    BY <1>2, <1>a, <2>3 DEF PollOnce
<1>3. CASE ReadFails \/ Abandon \/ Refresh
  BY <1>3, <1>a DEF ReadFails, Abandon, Refresh
<1>4. ASSUME NEW c \in Cells, Record(c) PROVE shown'[x] >= shown[x] /\ base'[x] >= base[x]
  BY <1>4, <1>a DEF Record, OtherWrite, Commit, Cross, Refuse
<1>5. ASSUME NEW c \in Cells, Page(c) PROVE shown'[x] >= shown[x] /\ base'[x] >= base[x]
  <2>1. CASE ConfirmLocalWrite(c)
    <3>1. CASE x = c
      <4>1. /\ Committed(c) \in Nat /\ Committed(c) = writes[c].base + 1
            /\ writes[c].base <= base[c]
        BY <2>1, CommittedIsMine DEF ConfirmLocalWrite
      <4>2. base[c] = Committed(c) \/ base[c] = writes[c].base
        BY <2>1 DEF ConfirmLocalWrite, Superseded
      <4>3. shown'[x] = Committed(c) /\ base'[x] = NextCellBase(base[c], Committed(c))
        BY <1>b, <2>1, <3>1 DEF ConfirmLocalWrite, NoteAnswer, TypeOK
      <4>4. QED
        BY <1>a, <3>1, <4>1, <4>2, <4>3 DEF NextCellBase
    <3>2. CASE x # c
      BY <1>a, <1>b, <2>1, <3>2 DEF ConfirmLocalWrite, NoteAnswer, TypeOK
    <3>3. QED
      BY <3>1, <3>2
  <2>2. CASE PerformFieldWrite(c) \/ Lose(c) \/ RetryCellWrite(c) \/ ReconcileNewerState(c)
               \/ ShowConflict(c) \/ ReportRefusal(c)
    BY <1>a, <2>2 DEF PerformFieldWrite, Lose, RetryCellWrite, ReconcileNewerState,
                      ShowConflict, ReportRefusal
  <2>3. QED
    BY <1>5, <2>1, <2>2 DEF Page
<1>6. CASE UNCHANGED vars
  BY <1>6, <1>a DEF vars
<1>7. QED
  BY <1>1, <1>2, <1>3, <1>4, <1>5, <1>6 DEF Next, Reads

-----------------------------------------------------------------------------
(* Writes and the person's own events.                                     *)

WriteFits(c) == SettledFits(c) /\ OpenFits(c) /\ ReceiptFits(c)

(* The steps that touch the write of a cell.                               *)
Touch(x) ==
  \/ PerformFieldWrite(x) \/ Lose(x) \/ RetryCellWrite(x)
  \/ ConfirmLocalWrite(x) \/ ReconcileNewerState(x) \/ ShowConflict(x) \/ ReportRefusal(x)
  \/ Commit(x) \/ Cross(x) \/ Refuse(x)

LEMMA TouchOrKeep ==
  ASSUME TypeOK, [Next]_vars, NEW x \in Cells
  PROVE  Touch(x) \/ writes'[x] = writes[x]
<1>1. CASE Reads
  BY <1>1 DEF Reads, ApplyBoardSnapshot, ReadFails, Abandon, Refresh, PollOnce
<1>2. ASSUME NEW c \in Cells, Page(c) \/ Record(c), ~ Touch(x)
      PROVE  writes'[x] = writes[x]
  <2>1. CASE c = x
    BY <1>2, <2>1 DEF Touch, Page, Record, OtherWrite
  <2>2. CASE c # x
    BY <1>2, <2>2 DEF Page, Record, OtherWrite, Commit, Cross, Refuse, Decide, PerformFieldWrite,
         Lose, RetryCellWrite, ConfirmLocalWrite, ReconcileNewerState, ShowConflict,
         ReportRefusal, Settle, TypeOK
  <2>3. QED
    BY <2>1, <2>2
<1>3. CASE UNCHANGED vars
  BY <1>3 DEF vars
<1>4. QED
  BY <1>1, <1>2, <1>3 DEF Next

(* What every step leaves a write with, in numbers.                        *)
LEMMA Numbers ==
  ASSUME IInv, [Next]_vars, NEW x \in Cells
  PROVE  /\ newest[x] \in Nat /\ newest'[x] \in Nat /\ newest[x] <= newest'[x]
         /\ base[x] \in Nat /\ base'[x] \in Nat /\ base[x] <= base'[x]
         /\ mine[x] \subseteq Nat /\ writes[x] \in Writes /\ writes[x].base \in Nat
         /\ writes[x].receipt \in Receipts /\ Committed(x) \in Nat
         /\ WriteFits(x)
<1>1. TypeOK /\ TypeOK'
  BY TypeStep DEF IInv
<1>2. /\ newest[x] \in Nat /\ newest'[x] \in Nat /\ base[x] \in Nat /\ base'[x] \in Nat
      /\ mine[x] \subseteq Nat /\ writes[x] \in Writes
  BY <1>1 DEF TypeOK
<1>3. writes[x].base \in Nat /\ writes[x].receipt \in Receipts /\ Committed(x) \in Nat
  BY <1>2 DEF Writes, Receipts, Committed
<1>4. newest[x] <= newest'[x]
  BY MineGrows
<1>5. base[x] <= base'[x]
  BY <1>2, ForwardStep
<1>6. WriteFits(x)
  BY DEF IInv, WritesFit, WriteFits
<1>7. QED
  BY <1>2, <1>3, <1>4, <1>5, <1>6

LEMMA WriteKept ==
  ASSUME IInv, [Next]_vars, NEW x \in Cells, writes'[x] = writes[x]
  PROVE  WriteFits(x)'
<1>1. mine'[x] = mine[x]
  <2>1. SUFFICES ASSUME Commit(x) PROVE FALSE
    BY MineGrows
  <2>2. writes[x].receipt = NoReceipt
    BY <2>1 DEF Commit, Undecided
  <2>3. writes'[x].receipt = [kind |-> "ok", event |-> newest[x] + 1]
    BY <2>1 DEF Commit, Decide, IInv, TypeOK, Writes
  <2>4. QED
    BY <2>2, <2>3 DEF NoReceipt
<1>2. SettledFits(x)' /\ OpenFits(x)'
  BY <1>1, Numbers DEF WriteFits, SettledFits, OpenFits, Committed
<1>3. ReceiptFits(x)'
  BY <1>1, Numbers DEF WriteFits, ReceiptFits, Committed, Receipts
<1>4. QED
  BY <1>2, <1>3 DEF WriteFits

LEMMA WriteTouched ==
  ASSUME IInv, [Next]_vars, NEW x \in Cells, Touch(x)
  PROVE  WriteFits(x)'
<1>a. TypeOK
  BY DEF IInv
<1>b. \A e \in mine[x] : e \in Nat /\ e <= newest[x]
  BY DEF IInv, TypeOK, Authored
<1>1. CASE PerformFieldWrite(x)
  <2>1. writes'[x] = [status |-> "pending", base |-> base[x], saw |-> shown[x],
                      receipt |-> NoReceipt]
    BY <1>a, <1>1 DEF PerformFieldWrite, TypeOK
  <2>2. base' = base /\ mine' = mine
    BY <1>1 DEF PerformFieldWrite, recordVars
  <2>3. \A e \in mine[x] : e <= base[x]
    BY <1>1, Numbers DEF PerformFieldWrite, WriteFits, SettledFits
  <2>4. QED
    BY <2>1, <2>2, <2>3, Numbers DEF WriteFits, SettledFits, OpenFits, ReceiptFits, NoReceipt
<1>2. CASE Lose(x) \/ RetryCellWrite(x)
  <2>1. /\ writes[x].status # "none" /\ writes'[x].status # "none"
        /\ writes'[x].base = writes[x].base /\ writes'[x].receipt = writes[x].receipt
    BY <1>a, <1>2 DEF Lose, RetryCellWrite, TypeOK, Writes
  <2>2. base' = base /\ mine' = mine /\ newest' = newest
    BY <1>2 DEF Lose, RetryCellWrite, recordVars
  <2>3. OpenFits(x)'
    BY <2>1, <2>2, Numbers DEF WriteFits, OpenFits, Committed
  <2>4. ReceiptFits(x)'
    BY <2>1, <2>2, Numbers DEF WriteFits, ReceiptFits, Committed
  <2>5. QED
    BY <2>1, <2>3, <2>4 DEF WriteFits, SettledFits
<1>3. ASSUME Settle(x), mine' = mine, \A e \in mine[x] : e <= base'[x]
      PROVE  WriteFits(x)'
  <2>1. writes'[x] = NoWrite
    BY <1>a, <1>3 DEF Settle, TypeOK
  <2>2. QED
    BY <1>3, <2>1 DEF WriteFits, SettledFits, OpenFits, ReceiptFits, NoWrite, NoReceipt
<1>4. CASE ConfirmLocalWrite(x)
  <2>1. /\ Committed(x) \in Nat /\ \A e \in mine[x] : e <= Committed(x)
    BY <1>4, CommittedIsMine DEF ConfirmLocalWrite
  <2>2. base'[x] = NextCellBase(base[x], Committed(x))
    BY <1>a, <1>4 DEF ConfirmLocalWrite, NoteAnswer, TypeOK
  <2>3. base'[x] >= Committed(x)
    BY <2>1, <2>2, Numbers DEF NextCellBase
  <2>4. \A e \in mine[x] : e <= base'[x]
    BY <1>b, <2>1, <2>3, Numbers
  <2>5. QED
    BY <1>3, <1>4, <2>4 DEF ConfirmLocalWrite, recordVars
<1>5. CASE ReconcileNewerState(x)
  <2>1. /\ Committed(x) \in Nat /\ Committed(x) = writes[x].base + 1 /\ writes[x].base <= base[x]
        /\ \A e \in mine[x] : e <= Committed(x)
    BY <1>5, CommittedIsMine DEF ReconcileNewerState
  <2>2. base[x] >= Committed(x)
    BY <1>5, <2>1, Numbers DEF ReconcileNewerState, Superseded
  <2>3. base' = base /\ mine' = mine
    BY <1>5 DEF ReconcileNewerState, recordVars
  <2>4. \A e \in mine[x] : e <= base'[x]
    BY <1>b, <2>1, <2>2, <2>3, Numbers
  <2>5. QED
    BY <1>3, <1>5, <2>3, <2>4 DEF ReconcileNewerState
<1>6. CASE ShowConflict(x) \/ ReportRefusal(x)
  <2>1. base' = base /\ mine' = mine /\ Settle(x)
    BY <1>6 DEF ShowConflict, ReportRefusal, recordVars
  <2>2. writes[x].status # "none" /\ writes[x].receipt.kind # "ok"
    BY <1>6 DEF ShowConflict, ReportRefusal, Answered
  <2>3. writes[x].base <= base[x] /\ \A e \in mine[x] : e <= writes[x].base
    BY <2>2, Numbers DEF WriteFits, OpenFits
  <2>4. \A e \in mine[x] : e <= base'[x]
    BY <1>b, <2>1, <2>3, Numbers
  <2>5. QED
    BY <1>3, <2>1, <2>4
<1>7. ASSUME NEW kind \in {"ok", "conflict", "refused"}, NEW event \in Nat,
             Undecided(x), Decide(x, kind, event)
      PROVE  /\ writes'[x].status = writes[x].status /\ writes[x].status # "none"
             /\ writes'[x].base = writes[x].base
             /\ writes'[x].receipt = [kind |-> kind, event |-> event]
             /\ writes[x].base <= base[x] /\ \A e \in mine[x] : e <= writes[x].base
  <2>1. writes[x].status # "none" /\ writes[x].receipt.kind = "none"
    BY <1>7 DEF Undecided, NoReceipt
  <2>2. writes[x].base <= base[x] /\ \A e \in mine[x] : e <= writes[x].base
    BY <2>1, Numbers DEF WriteFits, OpenFits
  <2>3. /\ writes'[x].status = writes[x].status /\ writes'[x].base = writes[x].base
        /\ writes'[x].receipt = [kind |-> kind, event |-> event]
    BY <1>a, <1>7 DEF Decide, TypeOK, Writes
  <2>4. QED
    BY <2>1, <2>2, <2>3
<1>8. CASE Commit(x)
  <2>1. newest[x] + 1 \in Nat
    BY Numbers
  <2>2. /\ Undecided(x) /\ Decide(x, "ok", newest[x] + 1) /\ writes[x].base = newest[x]
        /\ base' = base /\ mine'[x] = mine[x] \cup {newest[x] + 1}
    BY <1>a, <1>8 DEF Commit, TypeOK
  <2>3. /\ writes'[x].status = writes[x].status /\ writes[x].status # "none"
        /\ writes'[x].base = writes[x].base
        /\ writes'[x].receipt = [kind |-> "ok", event |-> newest[x] + 1]
        /\ writes[x].base <= base[x] /\ \A e \in mine[x] : e <= writes[x].base
    BY <1>7, <2>1, <2>2
  <2>4. OpenFits(x)'
    BY <2>2, <2>3 DEF OpenFits, Committed
  <2>5. ReceiptFits(x)'
    BY <2>2, <2>3 DEF ReceiptFits, Committed
  <2>6. QED
    BY <2>3, <2>4, <2>5 DEF WriteFits, SettledFits
<1>9. CASE Cross(x)
  <2>1. /\ Undecided(x) /\ Decide(x, "conflict", newest[x]) /\ writes[x].base # newest[x]
        /\ base' = base /\ mine' = mine /\ newest' = newest
    BY <1>9 DEF Cross, recordVars
  <2>2. newest[x] \in Nat /\ base[x] <= newest[x]
    BY Numbers DEF IInv, Ordered
  <2>3. /\ writes'[x].status = writes[x].status /\ writes[x].status # "none"
        /\ writes'[x].base = writes[x].base
        /\ writes'[x].receipt = [kind |-> "conflict", event |-> newest[x]]
        /\ writes[x].base <= base[x] /\ \A e \in mine[x] : e <= writes[x].base
    BY <1>7, <2>1, <2>2
  <2>4. newest[x] > writes[x].base
    BY <2>1, <2>2, <2>3, Numbers
  <2>5. newest[x] \notin mine[x]
    BY <2>3, <2>4, Numbers
  <2>6. OpenFits(x)'
    BY <2>1, <2>3 DEF OpenFits
  <2>7. ReceiptFits(x)'
    BY <2>1, <2>2, <2>3, <2>4, <2>5 DEF ReceiptFits
  <2>8. QED
    BY <2>3, <2>6, <2>7 DEF WriteFits, SettledFits
<1>10. CASE Refuse(x)
  <2>1. Undecided(x) /\ Decide(x, "refused", 0) /\ base' = base /\ mine' = mine
    BY <1>10 DEF Refuse, recordVars
  <2>2. /\ writes'[x].status = writes[x].status /\ writes[x].status # "none"
        /\ writes'[x].base = writes[x].base
        /\ writes'[x].receipt = [kind |-> "refused", event |-> 0]
        /\ writes[x].base <= base[x] /\ \A e \in mine[x] : e <= writes[x].base
    BY <1>7, <2>1
  <2>3. QED
    BY <2>1, <2>2 DEF WriteFits, SettledFits, OpenFits, ReceiptFits
<1>11. QED
  BY <1>1, <1>2, <1>4, <1>5, <1>6, <1>8, <1>9, <1>10 DEF Touch

LEMMA WritesStep == IInv /\ [Next]_vars => WritesFit'
<1> SUFFICES ASSUME IInv, [Next]_vars, NEW x \in Cells PROVE WriteFits(x)'
  BY DEF WritesFit, WriteFits
<1>1. Touch(x) \/ writes'[x] = writes[x]
  BY TouchOrKeep DEF IInv
<1>2. QED
  BY <1>1, WriteKept, WriteTouched

-----------------------------------------------------------------------------
(* Reads.                                                                  *)

(* The four things a step can do with the board's reads.                   *)
Keeps == UNCHANGED <<read, held, wanted, failed, shown>> /\ newest' \in [Cells -> Nat]
Queues ==
  /\ \E S \in SUBSET Cells : RequestRefresh(held \cup S) /\ \A x \in Cells \ S : shown'[x] = shown[x]
  /\ newest' = newest
Ends == ApplyBoardSnapshot \/ ReadFails

LEMMA ReadMoves ==
  ASSUME IInv, [Next]_vars
  PROVE  Keeps \/ Queues \/ Ends \/ Abandon
<1>a. newest' \in [Cells -> Nat]
  BY TypeStep DEF IInv, TypeOK
<1>1. CASE ApplyBoardSnapshot \/ ReadFails
  BY <1>1 DEF Ends
<1>2. ASSUME RequestRefresh(held), UNCHANGED <<recordVars, shown>> PROVE Queues
  <2>1. RequestRefresh(held \cup {}) /\ \A x \in Cells \ {} : shown'[x] = shown[x]
    <3>1. held \cup {} = held
      OBVIOUS
    <3>2. QED
      BY <1>2, <3>1
  <2>2. newest' = newest
    BY <1>2 DEF recordVars
  <2>3. QED
    BY <2>1, <2>2 DEF Queues
<1>3. CASE Refresh
  BY <1>2, <1>3 DEF Refresh
<1>4. CASE PollOnce
  <2>1. CASE RequestRefresh(held)
    BY <1>2, <1>4, <2>1 DEF PollOnce
  <2>2. CASE UNCHANGED <<read, held, wanted>>
    BY <1>a, <1>4, <2>2 DEF PollOnce, Keeps
  <2>3. QED
    BY <1>4, <2>1, <2>2 DEF PollOnce
<1>5. ASSUME NEW c \in Cells, Record(c) PROVE Keeps
  BY <1>a, <1>5 DEF Record, OtherWrite, Commit, Cross, Refuse, Keeps, readVars
<1>6. ASSUME NEW c \in Cells, Page(c) PROVE Keeps \/ Queues
  <2>1. CASE ConfirmLocalWrite(c)
    <3>1. RequestRefresh(held \cup {c}) /\ newest' = newest
      BY <2>1 DEF ConfirmLocalWrite, recordVars
    <3>2. \A x \in Cells \ {c} : shown'[x] = shown[x]
      BY <2>1 DEF ConfirmLocalWrite, IInv, TypeOK
    <3>3. QED
      BY <3>1, <3>2 DEF Queues
  <2>2. CASE ReconcileNewerState(c)
    BY <1>2, <2>2 DEF ReconcileNewerState
  <2>3. CASE PerformFieldWrite(c) \/ Lose(c) \/ RetryCellWrite(c)
               \/ ShowConflict(c) \/ ReportRefusal(c)
    BY <1>a, <2>3 DEF PerformFieldWrite, Lose, RetryCellWrite, ShowConflict, ReportRefusal,
                      Keeps, readVars
  <2>4. QED
    BY <1>6, <2>1, <2>2, <2>3 DEF Page
<1>7. CASE UNCHANGED vars
  BY <1>a, <1>7 DEF vars, readVars, Keeps
<1>8. QED
  BY <1>1, <1>3, <1>4, <1>5, <1>6, <1>7 DEF Next, Reads

(* A read that is sent now holds what the rows show by the end of the step. *)
LEMMA AskFits ==
  ASSUME IInv, [Next]_vars, newest' = newest, read' = Ask, NEW x \in Cells
  PROVE  /\ read'.open /\ read'.floor[x] = newest[x]
         /\ read'.floor[x] <= newest'[x] /\ shown'[x] <= read'.floor[x]
<1>1. shown'[x] <= base'[x] /\ base'[x] <= newest'[x]
  BY OrderedStep DEF Ordered
<1>2. shown'[x] \in Nat /\ base'[x] \in Nat /\ newest[x] \in Nat
  BY TypeStep DEF IInv, TypeOK
<1>3. read'.open /\ read'.floor[x] = newest[x]
  BY DEF Ask
<1>4. QED
  BY <1>1, <1>2, <1>3

LEMMA ReadStep == IInv /\ [Next]_vars => ReadFits'
<1> SUFFICES ASSUME IInv, [Next]_vars PROVE ReadFits'
  OBVIOUS
<1> DEFINE Fits(x) == read.floor[x] <= newest[x] /\ (x \notin held => shown[x] <= read.floor[x])
<1>a. (wanted => read.open) /\ (read.open => \A x \in Cells : Fits(x))
  BY DEF IInv, ReadFits
<1>b. wanted \in BOOLEAN /\ read.open \in BOOLEAN
  BY DEF IInv, TypeOK
<1>1. CASE Keeps
  <2>1. \A x \in Cells : newest[x] <= newest'[x] /\ newest[x] \in Nat /\ newest'[x] \in Nat
                         /\ read.floor[x] \in Nat
    BY Numbers DEF IInv, TypeOK
  <2>2. QED
    BY <1>a, <1>1, <2>1 DEF Keeps, ReadFits
<1>2. CASE Queues
  <2>1. PICK S \in SUBSET Cells :
          RequestRefresh(held \cup S) /\ \A x \in Cells \ S : shown'[x] = shown[x]
    BY <1>2 DEF Queues
  <2>2. newest' = newest
    BY <1>2 DEF Queues
  <2>3. CASE read.open
    <3>1. read' = read /\ held' = held \cup S /\ wanted' = TRUE
      BY <1>b, <2>1, <2>3 DEF RequestRefresh
    <3>2. QED
      BY <1>a, <2>1, <2>2, <2>3, <3>1 DEF ReadFits
  <2>4. CASE ~ read.open
    <3>1. read' = Ask /\ wanted' = FALSE
      BY <1>b, <2>1, <2>4 DEF RequestRefresh
    <3>2. QED
      BY <2>2, <3>1, AskFits DEF ReadFits
  <2>5. QED
    BY <2>3, <2>4
<1>3. CASE Ends
  <2>1. CASE wanted
    <3>1. read' = Ask /\ wanted' = FALSE /\ newest' = newest
      BY <1>3, <2>1 DEF Ends, ApplyBoardSnapshot, ReadFails, NextRead, recordVars
    <3>2. QED
      BY <3>1, AskFits DEF ReadFits
  <2>2. CASE ~ wanted
    BY <1>3, <2>2 DEF Ends, ApplyBoardSnapshot, ReadFails, NextRead, NoRead, ReadFits
  <2>3. QED
    BY <2>1, <2>2
<1>4. CASE Abandon
  BY <1>4 DEF Abandon, NoRead, ReadFits
<1>5. QED
  BY <1>1, <1>2, <1>3, <1>4, ReadMoves

-----------------------------------------------------------------------------
(* What the person was told.                                               *)

(* A newer change that is on its way stays on its way until it is there.   *)
LEMMA ComingKept ==
  ASSUME IInv, [Next]_vars, NEW x \in Cells, told'[x] = told[x],
         told[x].over <= base[x], Coming(x)
  PROVE  Coming(x)'
<1>a. /\ told[x].over \in Nat /\ shown[x] \in Nat /\ shown'[x] \in Nat /\ newest[x] \in Nat
      /\ read.floor[x] \in Nat /\ wanted \in BOOLEAN /\ read.open \in BOOLEAN
  BY TypeStep DEF IInv, TypeOK
<1>b. told[x].over <= newest[x]
  BY <1>a, Numbers DEF IInv, Ordered
<1>1. CASE shown[x] >= told[x].over
  BY <1>a, <1>1, ForwardStep DEF Coming
<1>2. ASSUME newest' = newest, read' = Ask, held' = {} PROVE Coming(x)'
  BY <1>b, <1>2, AskFits DEF Coming
<1>3. CASE Keeps
  BY <1>3 DEF Keeps, Coming
<1>4. CASE Queues
  <2>1. PICK S \in SUBSET Cells : RequestRefresh(held \cup S)
    BY <1>4 DEF Queues
  <2>2. CASE read.open
    BY <2>1, <2>2 DEF RequestRefresh, Coming
  <2>3. CASE ~ read.open
    BY <1>2, <1>4, <2>1, <2>3 DEF RequestRefresh, Queues
  <2>4. QED
    BY <2>2, <2>3
<1>5. CASE ApplyBoardSnapshot /\ ~ (shown[x] >= told[x].over)
  <2>1. CASE wanted
    BY <1>2, <1>5, <2>1 DEF ApplyBoardSnapshot, NextRead, recordVars
  <2>2. CASE ~ wanted
    <3>1. read.open /\ x \notin held /\ read.floor[x] >= told[x].over
      BY <1>5, <2>2 DEF ApplyBoardSnapshot, Coming
    <3>2. PICK seen \in [Cells -> 0..MaxEvents] :
            read.floor[x] <= seen[x] /\ shown' = Merged(seen)
      BY <1>5 DEF ApplyBoardSnapshot
    <3>3. shown'[x] = seen[x] /\ seen[x] \in Nat
      BY <3>1, <3>2 DEF Merged
    <3>4. shown'[x] >= told'[x].over
      BY <1>a, <3>1, <3>2, <3>3
    <3>5. QED
      BY <3>4 DEF Coming
  <2>3. QED
    BY <2>1, <2>2
<1>6. CASE ReadFails
  <2>1. CASE wanted
    BY <1>2, <1>6, <2>1 DEF ReadFails, NextRead, recordVars
  <2>2. CASE ~ wanted
    BY <1>6, <2>2 DEF ReadFails, NextRead, NoRead, Coming
  <2>3. QED
    BY <2>1, <2>2
<1>7. CASE Abandon
  BY <1>7 DEF Abandon, NoRead, Coming
<1>8. QED
  BY <1>1, <1>3, <1>4, <1>5, <1>6, <1>7, ReadMoves DEF Ends

(* Only an answer that was superseded changes what a person was told.      *)
LEMMA TellOrKeep ==
  ASSUME TypeOK, [Next]_vars, NEW x \in Cells
  PROVE  ReconcileNewerState(x) \/ told'[x] = told[x]
<1>1. CASE Reads
  BY <1>1 DEF Reads, ApplyBoardSnapshot, ReadFails, Abandon, Refresh, PollOnce
<1>2. ASSUME NEW c \in Cells, Record(c) PROVE told'[x] = told[x]
  BY <1>2 DEF Record, OtherWrite, Commit, Cross, Refuse
<1>3. ASSUME NEW c \in Cells, Page(c)
      PROVE  ReconcileNewerState(x) \/ told'[x] = told[x]
  <2>1. CASE ReconcileNewerState(c)
    BY <2>1 DEF ReconcileNewerState, TellOfNewer, TypeOK
  <2>2. CASE ~ ReconcileNewerState(c)
    BY <1>3, <2>2 DEF Page, PerformFieldWrite, Lose, RetryCellWrite, ConfirmLocalWrite,
                      ShowConflict, ReportRefusal
  <2>3. QED
    BY <2>1, <2>2
<1>4. CASE UNCHANGED vars
  BY <1>4 DEF vars
<1>5. QED
  BY <1>1, <1>2, <1>3, <1>4 DEF Next

ToldFit(x) ==
  told[x] # Untold =>
    /\ told[x].over > told[x].event /\ told[x].over \notin mine[x]
    /\ told[x].over <= base[x]
    /\ writes[x].status # "none" => told[x].over <= writes[x].base
    /\ Coming(x)

(* A later write of the same cell was made on the newer change.            *)
LEMMA LaterBase ==
  ASSUME IInv, [Next]_vars, NEW x \in Cells, told[x].over <= base[x],
         writes[x].status # "none" => told[x].over <= writes[x].base,
         writes'[x].status # "none"
  PROVE  told[x].over <= writes'[x].base
<1>a. TypeOK
  BY DEF IInv
<1>1. CASE writes'[x] = writes[x]
  BY <1>1
<1>2. CASE PerformFieldWrite(x)
  BY <1>a, <1>2 DEF PerformFieldWrite, TypeOK
<1>3. CASE Lose(x) \/ RetryCellWrite(x)
  BY <1>a, <1>3 DEF Lose, RetryCellWrite, TypeOK, Writes
<1>4. CASE Commit(x) \/ Cross(x) \/ Refuse(x)
  <2>1. PICK kind, event : Decide(x, kind, event)
    BY <1>4 DEF Commit, Cross, Refuse
  <2>2. writes[x] \in Writes
    BY <1>a DEF TypeOK
  <2>3. writes'[x] = [writes[x] EXCEPT !.receipt = [kind |-> kind, event |-> event]]
    BY <1>a, <2>1 DEF Decide, TypeOK
  <2>4. writes'[x].base = writes[x].base /\ writes'[x].status = writes[x].status
    BY <2>2, <2>3 DEF Writes
  <2>5. QED
    BY <2>4
<1>5. ASSUME Settle(x) PROVE FALSE
  BY <1>a, <1>5 DEF Settle, NoWrite, TypeOK
<1>6. QED
  BY <1>1, <1>2, <1>3, <1>4, <1>5, <1>a, TouchOrKeep
     DEF Touch, ConfirmLocalWrite, ReconcileNewerState, ShowConflict, ReportRefusal

LEMMA ToldStep == IInv /\ [Next]_vars => ToldFits'
<1> SUFFICES ASSUME IInv, [Next]_vars, NEW x \in Cells PROVE ToldFit(x)'
  BY DEF ToldFits, ToldFit, Coming
<1>a. TypeOK /\ TypeOK'
  BY TypeStep DEF IInv
<1>b. told[x].over \in Nat /\ told[x].event \in Nat
  BY <1>a DEF TypeOK
<1>c. base[x] <= newest[x]
  BY DEF IInv, Ordered
<1>1. CASE told'[x] = told[x] /\ told[x] # Untold
  <2>1. ToldFit(x)
    BY DEF IInv, ToldFits, ToldFit, Coming
  <2>2. told[x].over \notin mine'[x]
    BY <1>1, <1>b, <1>c, <2>1, MineGrows, Numbers DEF ToldFit
  <2>3. told[x].over <= base'[x]
    BY <1>1, <1>b, <2>1, Numbers DEF ToldFit
  <2>4. writes'[x].status # "none" => told[x].over <= writes'[x].base
    BY <1>1, <2>1, LaterBase DEF ToldFit
  <2>5. Coming(x)'
    BY <1>1, <2>1, ComingKept DEF ToldFit
  <2>6. QED
    BY <1>1, <2>1, <2>2, <2>3, <2>4, <2>5 DEF ToldFit
<1>2. CASE ReconcileNewerState(x)
  <2>1. /\ Committed(x) = writes[x].base + 1 /\ writes[x].base <= base[x]
        /\ \A e \in mine[x] : e <= Committed(x)
    BY <1>2, CommittedIsMine DEF ReconcileNewerState
  <2>2. base[x] > Committed(x)
    BY <1>2, <2>1, Numbers DEF ReconcileNewerState, Superseded
  <2>3. base[x] \notin mine[x]
    BY <2>1, <2>2, Numbers
  <2>4. /\ told'[x] = [event |-> Committed(x), over |-> base[x]]
        /\ base' = base /\ mine' = mine /\ newest' = newest
        /\ writes'[x] = NoWrite /\ RequestRefresh(held)
    BY <1>2, <1>a DEF ReconcileNewerState, TellOfNewer, Settle, recordVars, TypeOK
  <2>5. Coming(x)'
    <3>1. CASE read.open
      BY <1>a, <2>4, <3>1 DEF RequestRefresh, Coming
    <3>2. CASE ~ read.open
      <4>1. read' = Ask /\ held' = {}
        BY <2>4, <3>2 DEF RequestRefresh
      <4>2. read'.open /\ read'.floor[x] = newest[x]
        BY <2>4, <4>1, AskFits
      <4>3. read'.floor[x] >= told'[x].over
        BY <1>c, <2>4, <4>2, Numbers
      <4>4. QED
        BY <4>1, <4>2, <4>3 DEF Coming
    <3>3. QED
      BY <3>1, <3>2
  <2>6. /\ told'[x].over > told'[x].event /\ told'[x].over \notin mine'[x]
        /\ told'[x].over <= base'[x] /\ writes'[x].status = "none"
    BY <2>2, <2>3, <2>4, Numbers DEF NoWrite
  <2>7. QED
    BY <2>5, <2>6 DEF ToldFit
<1>3. CASE told'[x] = told[x] /\ told[x] = Untold
  BY <1>3 DEF ToldFit, Untold
<1>4. QED
  BY <1>1, <1>2, <1>3, <1>a, TellOrKeep

-----------------------------------------------------------------------------
(* The theorems.                                                           *)

LEMMA InvStep == IInv /\ [Next]_vars => IInv'
BY TypeStep, OrderedStep, AuthoredStep, WritesStep, ReadStep, ToldStep DEF IInv

LEMMA Invariant == Spec => []IInv
BY InitFits, InvStep, PTL DEF Spec

(***************************************************************************)
(* Every variable keeps its type.                                          *)
(***************************************************************************)
THEOREM TypeCorrect == Spec => []TypeOK
<1>1. IInv => TypeOK
  BY DEF IInv
<1>2. QED
  BY <1>1, Invariant, PTL

(***************************************************************************)
(* No row shows a value newer than the base an edit of it is sent on.      *)
(***************************************************************************)
THEOREM WithinBaseHolds == Spec => []WithinBase
<1>1. IInv => WithinBase
  BY DEF IInv, Ordered, WithinBase
<1>2. QED
  BY <1>1, Invariant, PTL

(***************************************************************************)
(* Two edits cross only with somebody else's change, made after the base   *)
(* of the write: never with an earlier write of the same page.             *)
(***************************************************************************)
THEOREM CrossedByAnotherHolds == Spec => []CrossedByAnother
<1>1. IInv => CrossedByAnother
  BY DEF IInv, WritesFit, ReceiptFits, CrossedByAnother
<1>2. QED
  BY <1>1, Invariant, PTL

(***************************************************************************)
(* A person is told of a newer change only if there is one, and it is      *)
(* somebody else's.                                                        *)
(***************************************************************************)
THEOREM SupersededIsNewsHolds == Spec => []SupersededIsNews
<1>1. IInv => SupersededIsNews
  BY DEF IInv, ToldFits, SupersededIsNews
<1>2. QED
  BY <1>1, Invariant, PTL

(***************************************************************************)
(* A newer change the person was told of is on the row, or in a read that  *)
(* is open or queued, or the badge says that reading failed.               *)
(***************************************************************************)
THEOREM NewerStateIsReadHolds == Spec => []NewerStateIsRead
<1>1. IInv => NewerStateIsRead
  BY DEF IInv, ToldFits, Coming, NewerStateIsRead
<1>2. QED
  BY <1>1, Invariant, PTL

(***************************************************************************)
(* Rows and bases never go back to an earlier event.                       *)
(***************************************************************************)
THEOREM NeverBackHolds == Spec => NeverBack
<1>1. IInv /\ [Next]_vars =>
        [\A c \in Cells : shown'[c] >= shown[c] /\ base'[c] >= base[c]]_vars
  BY ForwardStep
<1>2. QED
  BY <1>1, Invariant, PTL DEF Spec, NeverBack

-----------------------------------------------------------------------------
(* The board's promise.                                                    *)

DueView == [c \in Cells |-> Due(c)]

\* A step about one cell changes what is due of that cell.
LEMMA DueEdited ==
  ASSUME TypeOK, NEW c \in Cells, \A x \in Cells \ {c} : writes'[x] = writes[x]
  PROVE  DueView' = [DueView EXCEPT ![c] = Due(c)']
BY DEF DueView, Due, Committed

LEMMA RecordMaps ==
  ASSUME IInv, [Next]_vars, NEW c \in Cells, Record(c)
  PROVE  View!Change(c) \/ UNCHANGED <<newest, DueView, shown>>
<1>a. TypeOK
  BY DEF IInv
<1>1. CASE OtherWrite(c)
  <2>1. DueView' = DueView
    BY <1>1 DEF OtherWrite, DueView, Due, Committed
  <2>2. QED
    BY <1>1, <2>1 DEF OtherWrite, View!Change, DueView
<1>2. CASE Commit(c)
  <2>1. writes'[c].receipt = [kind |-> "ok", event |-> newest[c] + 1]
    BY <1>a, <1>2 DEF Commit, Decide, TypeOK, Writes
  <2>2. Due(c)' = newest[c] + 1
    BY <2>1 DEF Due, Committed
  <2>3. \A x \in Cells \ {c} : writes'[x] = writes[x]
    BY <1>a, <1>2 DEF Commit, Decide, TypeOK
  <2>4. DueView' = [DueView EXCEPT ![c] = newest[c] + 1]
    BY <1>a, <2>2, <2>3, DueEdited
  <2>5. QED
    BY <1>2, <2>4 DEF Commit, View!Change, DueView
<1>3. CASE Cross(c) \/ Refuse(c)
  <2>1. /\ writes[c].receipt.kind = "none" /\ writes'[c].receipt.kind # "ok"
        /\ \A x \in Cells \ {c} : writes'[x] = writes[x]
    BY <1>a, <1>3 DEF Cross, Refuse, Undecided, NoReceipt, Decide, TypeOK, Writes
  <2>2. DueView' = DueView
    BY <2>1 DEF DueView, Due, Committed
  <2>3. QED
    BY <1>3, <2>2 DEF Cross, Refuse, recordVars
<1>4. QED
  BY <1>1, <1>2, <1>3 DEF Record

LEMMA PageMaps ==
  ASSUME IInv, [Next]_vars, NEW c \in Cells, Page(c)
  PROVE  View!Confirm(c) \/ View!Withhold(c) \/ UNCHANGED <<newest, DueView, shown>>
<1>a. TypeOK
  BY DEF IInv
<1>b. newest' = newest
  BY DEF Page, PerformFieldWrite, Lose, RetryCellWrite, ConfirmLocalWrite, ReconcileNewerState,
         ShowConflict, ReportRefusal, recordVars
<1>1. CASE PerformFieldWrite(c) \/ Lose(c) \/ RetryCellWrite(c)
  <2>1. \A x \in Cells \ {c} : writes'[x] = writes[x]
    BY <1>a, <1>1 DEF PerformFieldWrite, Lose, RetryCellWrite, TypeOK
  <2>2. Due(c)' = Due(c)
    <3>1. CASE PerformFieldWrite(c)
      <4>1. writes[c].receipt.kind = "none" /\ writes'[c].receipt.kind = "none"
        BY <1>a, <3>1 DEF PerformFieldWrite, IInv, WritesFit, SettledFits, NoWrite, NoReceipt, TypeOK
      <4>2. QED
        BY <4>1 DEF Due
    <3>2. CASE Lose(c) \/ RetryCellWrite(c)
      <4>1. writes'[c].receipt = writes[c].receipt
        BY <1>a, <3>2 DEF Lose, RetryCellWrite, TypeOK, Writes
      <4>2. QED
        BY <4>1 DEF Due, Committed
    <3>3. QED
      BY <1>1, <3>1, <3>2
  <2>3. DueView' = DueView
    BY <2>1, <2>2 DEF DueView, Due, Committed
  <2>4. QED
    BY <1>1, <1>b, <2>3 DEF PerformFieldWrite, Lose, RetryCellWrite
<1>2. ASSUME Settle(c) PROVE DueView' = [DueView EXCEPT ![c] = 0]
  <2>1. \A x \in Cells \ {c} : writes'[x] = writes[x]
    BY <1>a, <1>2 DEF Settle, TypeOK
  <2>2. Due(c)' = 0
    BY <1>a, <1>2 DEF Settle, TypeOK, Due, NoWrite, NoReceipt
  <2>3. QED
    BY <1>a, <2>1, <2>2, DueEdited
<1>3. ASSUME Answered(c, "ok")
      PROVE  /\ DueView[c] = Committed(c) /\ DueView[c] # 0
             /\ Committed(c) \in Nat /\ Committed(c) = writes[c].base + 1
             /\ writes[c].base <= base[c] /\ writes[c].base \in Nat
  BY <1>3, CommittedIsMine, Numbers DEF Answered, DueView, Due
<1>4. CASE ConfirmLocalWrite(c)
  <2>1. shown[c] <= base[c] /\ shown[c] \in Nat /\ base[c] \in Nat
    BY <1>a DEF IInv, Ordered, TypeOK
  <2>2. base[c] = Committed(c) \/ base[c] = writes[c].base
    BY <1>4 DEF ConfirmLocalWrite, Superseded
  <2>3. shown[c] <= Committed(c)
    BY <1>3, <1>4, <2>1, <2>2 DEF ConfirmLocalWrite
  <2>4. (IF DueView[c] > shown[c] THEN DueView[c] ELSE shown[c]) = Committed(c)
    BY <1>3, <1>4, <2>1, <2>3 DEF ConfirmLocalWrite
  <2>5. shown' = [shown EXCEPT ![c] = Committed(c)] /\ DueView' = [DueView EXCEPT ![c] = 0]
    BY <1>2, <1>4 DEF ConfirmLocalWrite
  <2>6. shown' = [shown EXCEPT ![c] = IF DueView[c] > shown[c] THEN DueView[c] ELSE shown[c]]
    BY <2>4, <2>5
  <2>7. QED
    BY <1>3, <1>4, <1>b, <2>5, <2>6 DEF ConfirmLocalWrite, View!Confirm, DueView
<1>5. CASE ReconcileNewerState(c)
  BY <1>2, <1>3, <1>5, <1>b DEF ReconcileNewerState, View!Withhold, DueView
<1>6. CASE ShowConflict(c) \/ ReportRefusal(c)
  <2>1. DueView' = [DueView EXCEPT ![c] = 0] /\ shown' = shown
    BY <1>2, <1>6 DEF ShowConflict, ReportRefusal
  <2>2. DueView[c] = 0
    BY <1>6 DEF ShowConflict, ReportRefusal, Answered, DueView, Due
  <2>3. DueView' = DueView
    BY <2>1, <2>2 DEF DueView
  <2>4. QED
    BY <1>b, <2>1, <2>3
<1>7. QED
  BY <1>1, <1>4, <1>5, <1>6 DEF Page

LEMMA ReadsMap ==
  ASSUME IInv, [Next]_vars, Reads
  PROVE  View!Refresh
<1>1. writes' = writes /\ newest' = newest
  BY DEF Reads, ApplyBoardSnapshot, ReadFails, Abandon, Refresh, PollOnce, recordVars
<1>2. DueView' = DueView
  BY <1>1 DEF DueView, Due, Committed
<1>3. shown' \in [Cells -> Nat]
  BY TypeStep DEF IInv, TypeOK
<1>4. \A x \in Cells : shown[x] <= shown'[x] /\ shown'[x] <= newest[x]
  <2>1. TAKE x \in Cells
  <2>2. shown'[x] <= base'[x] /\ base'[x] <= newest'[x]
    BY OrderedStep DEF Ordered
  <2>3. shown[x] \in Nat /\ shown'[x] \in Nat /\ base'[x] \in Nat /\ newest'[x] \in Nat
    BY TypeStep DEF IInv, TypeOK
  <2>4. QED
    BY <1>1, <2>2, <2>3, ForwardStep
<1>5. QED
  BY <1>1, <1>2, <1>3, <1>4 DEF View!Refresh, View!Forward, DueView

(***************************************************************************)
(* CellWrite keeps the promise BoardView makes: a commit is a change, an   *)
(* answer confirms or withholds it, and everything else only refreshes.    *)
(***************************************************************************)
THEOREM CellsImplementBoardView == Spec => ImplementsBoardView
<1>1. Init => View!Init
  BY DEF Init, View!Init, Due, NoWrite, NoReceipt
<1>2. IInv /\ [Next]_vars => [View!Next]_(View!vars)
  <2> SUFFICES ASSUME IInv, [Next]_vars
               PROVE  View!Next \/ UNCHANGED <<newest, DueView, shown>>
    BY DEF View!vars, DueView
  <2>1. CASE Reads
    BY <2>1, ReadsMap DEF View!Next
  <2>2. ASSUME NEW c \in Cells, Page(c) \/ Record(c)
        PROVE  View!Next \/ UNCHANGED <<newest, DueView, shown>>
    BY <2>2, RecordMaps, PageMaps DEF View!Next
  <2>3. CASE UNCHANGED vars
    <3>1. writes' = writes /\ newest' = newest /\ shown' = shown
      BY <2>3 DEF vars, recordVars
    <3>2. DueView' = DueView
      BY <3>1 DEF DueView, Due, Committed
    <3>3. QED
      BY <3>1, <3>2
  <2>4. QED
    BY <2>1, <2>2, <2>3 DEF Next
<1>3. QED
  BY <1>1, <1>2, Invariant, PTL DEF Spec, ImplementsBoardView, View!Spec
================================================================================
