-------------------------- MODULE MCHarnessStore --------------------------
(* A small store for TLC: two texts of the roles file, and two harnesses under *)
(* one id, of which one is committed and the other also what an evolve ships.  *)
EXTENDS HarnessStore, TLC

MCIdOf == [h \in Harnesses |-> IF h \in {"l1", "l2"} THEN "legacy" ELSE "d"]
Symmetry == Permutations(Procs)
=============================================================================
