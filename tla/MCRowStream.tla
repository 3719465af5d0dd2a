------------------------------ MODULE MCRowStream ------------------------------
(* RowStream for TLC: see stream_contract.cfg for the values. *)
EXTENDS RowStream
=============================================================================
