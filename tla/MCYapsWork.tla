------------------------------ MODULE MCYapsWork ------------------------------
(***************************************************************************)
(* A small instance of YapsWork for TLC: two data queues compete for the   *)
(* chip's queue.                                                           *)
(***************************************************************************)
EXTENDS YapsWork

MCDataQs == <<"vo", "be">>
MCSupply == [c \in Chans |-> IF c \in Range(MCDataQs) THEN 1 ELSE 0]
=============================================================================
