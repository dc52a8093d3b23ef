-------------------------- MODULE RetainedCommandsMC --------------------------
(* RetainedCommands on small instances.  Calls, sessions and intents are only   *)
(* compared for equality, so each is a symmetry set.                            *)
EXTENDS RetainedCommands, TLC

Symmetry == Permutations(Calls) \cup Permutations(Sessions) \cup Permutations(Intents)
===============================================================================
