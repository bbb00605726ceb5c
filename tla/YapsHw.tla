------------------------------- MODULE YapsHw -------------------------------
(****************************************************************************)
(* What both directions of the YAPS hardware layer (yaps-hw.c) share: the   *)
(* size of a transfer and the bounds of the models.  YapsRead is the way    *)
(* from the chip, YapsWrite the way to it; the latter's names begin with tx *)
(* where both have the same thing, so that one module can speak of both.    *)
(****************************************************************************)
EXTENDS Integers, Sequences, Functions

CONSTANTS
    Window,      \* YAPS_HW_WINDOW_SIZE_BYTES, in words
    MaxPkts,     \* bound on the packets sent in each direction
    MaxErrors    \* bound on failing transfers and allocations in each direction

ASSUME YapsHwAssumption ==
    Window \in Nat \ {0} /\ MaxPkts \in Nat /\ MaxErrors \in Nat

Min2(a, b) == IF a < b THEN a ELSE b
From(s, n) == SubSeq(s, n, Len(s))
=============================================================================
