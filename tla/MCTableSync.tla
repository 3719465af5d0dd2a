---------------------------- MODULE MCTableSync ----------------------------
(***************************************************************************)
(* TableSync for TLC: which faults a run enables, and the symmetry of the  *)
(* keys, contents and workers that stand for nothing but themselves.       *)
(***************************************************************************)
EXTENDS TableSync, TLC

NoFaults == {}
SourceFaults == {"source"}
\* What a platform database that never fails leaves.
ProcessFaults == {"source", "cancel", "crash"}

Symmetry ==
  Permutations(Keys) \cup Permutations(Vals) \cup Permutations(Workers)
=============================================================================
