------------------------------ MODULE MCFileStore ------------------------------
(***************************************************************************)
(* FileStore for TLC: the symmetry of file ids and requests, which stand   *)
(* for nothing but themselves.                                             *)
(***************************************************************************)
EXTENDS FileStore, TLC

Symmetry == Permutations(Files) \cup Permutations(Clients)
=============================================================================
