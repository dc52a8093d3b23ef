------------------------------ MODULE BoardSyncMC ------------------------------
(* BoardSync on small instances.  Requests are only compared for equality, so   *)
(* they are a symmetry set.                                                     *)
EXTENDS BoardSync, FiniteSets, TLC

Symmetry == Permutations(Requests)

Asked == {k \in Requests : awaits[k] # NoOne}
Drops == generation - 1

\* Reads and polls share the record, the network and the generation and nothing
\* else: the run has the one or the other.  Under polls what is in flight may be
\* dropped twice; under reads once, and not in a behaviour that has every
\* refresh and every change as well.
Apart ==
  \/ Asked = {}
  \/ /\ \A p \in Polls : polls[p] = NoPoll
     /\ Drops <= 1
     /\ Cardinality(Asked) + events + Drops <= Cardinality(Requests) + MaxChanges
================================================================================
