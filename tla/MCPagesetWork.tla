---------------------------- MODULE MCPagesetWork ----------------------------
(***************************************************************************)
(* Small instances of PagesetWork for TLC.                                 *)
(***************************************************************************)
EXTENDS PagesetWork
=============================================================================
