------------------------------ MODULE MCScheduler ------------------------------
(***************************************************************************)
(* Scheduler for TLC: which faults a run enables, and the symmetry of ids, *)
(* which stand for nothing but themselves.                                 *)
(***************************************************************************)
EXTENDS Scheduler, TLC

NoFaults == {}

Symmetry == Permutations(Sources) \cup Permutations(Tables)
            \cup Permutations(Clients)
=============================================================================
