------------------------------- MODULE BoardView -------------------------------
(***************************************************************************)
(* What js/board-sync.mjs promises about the values on the board, with no  *)
(* reads, tickets, holds or queues.  A cell's value is the number of the   *)
(* change that set it.  The board only ever shows values the record holds, *)
(* shows a change of its own as soon as it is confirmed, and never goes    *)
(* back to a value older than the one it shows.                            *)
(***************************************************************************)
EXTENDS Naturals

CONSTANT Cells

VARIABLES
  truth,   \* truth[c]: the newest change of cell c in the record
  own,     \* own[c]: a change of this page whose confirmation is due, or 0
  shown    \* shown[c]: the change whose value the board shows

vars == <<truth, own, shown>>

Init ==
  /\ truth = [c \in Cells |-> 0]
  /\ own = [c \in Cells |-> 0]
  /\ shown = [c \in Cells |-> 0]

Change(c) ==
  /\ truth' = [truth EXCEPT ![c] = @ + 1]
  /\ own' \in {own, [own EXCEPT ![c] = truth[c] + 1]}
  /\ UNCHANGED shown

\* A confirmed change is shown at once, unless the board is already past it.
Confirm(c) ==
  /\ own[c] # 0
  /\ own' = [own EXCEPT ![c] = 0]
  /\ shown' = [shown EXCEPT ![c] = IF own[c] > @ THEN own[c] ELSE @]
  /\ UNCHANGED truth

\* An answer may be withheld: the next refresh decides what the cell holds.
Withhold(c) ==
  /\ own[c] # 0
  /\ own' = [own EXCEPT ![c] = 0]
  /\ UNCHANGED <<truth, shown>>

Forward(old, new) == \A c \in Cells : old[c] <= new[c] /\ new[c] <= truth[c]

Refresh ==
  /\ shown' \in [Cells -> Nat]
  /\ Forward(shown, shown')
  /\ UNCHANGED <<truth, own>>

Next == (\E c \in Cells : Change(c) \/ Confirm(c) \/ Withhold(c)) \/ Refresh

Spec == Init /\ [][Next]_vars
================================================================================
