------------------------------ MODULE AskOutboxMC ------------------------------
(* AskOutbox on small instances.  Boxes, keys and texts are only compared for   *)
(* equality, so each set is a symmetry set.                                      *)
EXTENDS AskOutbox, TLC

Symmetry == Permutations(Boxes) \cup Permutations(Keys) \cup Permutations(Texts)
================================================================================
