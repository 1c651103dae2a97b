------------------------------ MODULE MCEntry ------------------------------
(***************************************************************************)
(* Entry on a small instance.                                              *)
(***************************************************************************)
EXTENDS Entry
=============================================================================
