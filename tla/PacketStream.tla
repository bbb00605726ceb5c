---------------------------- MODULE PacketStream ----------------------------
(****************************************************************************)
(* What one direction of the YAPS interface promises: packets arrive in the *)
(* order in which they were handed over, whole and once.  Some are lost     *)
(* only after a fault, until the stream has mended; where packets age, the  *)
(* oldest of those that wait may be given up, and where the sender cannot   *)
(* tell whether a transfer that failed has brought its packets, they come   *)
(* again.                                                                   *)
(****************************************************************************)
EXTENDS Naturals, Sequences

CONSTANTS
    Packets,    \* the packets
    Ages,       \* packets may expire while they wait
    Resends     \* packets may arrive without the sender knowing

VARIABLES
    waiting,    \* packets handed over that have not arrived
    arrived,    \* packets that have, in order
    broken      \* there was a fault and the stream has not mended

svars == <<waiting, arrived, broken>>

Init == waiting = <<>> /\ arrived = <<>> /\ broken = FALSE

Give(p) ==
    /\ waiting' = Append(waiting, p)
    /\ UNCHANGED <<arrived, broken>>

Arrive(n) ==
    /\ arrived' = arrived \o SubSeq(waiting, 1, n)
    /\ waiting' = SubSeq(waiting, n + 1, Len(waiting))
    /\ broken' \in {broken, FALSE}

Expire(n) ==
    /\ Ages
    /\ waiting' = SubSeq(waiting, n + 1, Len(waiting))
    /\ broken' \in {broken, FALSE}
    /\ UNCHANGED arrived

\* A fault, and the n packets behind the first k that are lost by it, if any;
\* or its end.
Lose(k, n) ==
    /\ broken \/ broken'
    /\ waiting' = SubSeq(waiting, 1, k) \o SubSeq(waiting, k + n + 1, Len(waiting))
    /\ broken' \in BOOLEAN
    /\ UNCHANGED arrived

\* A fault, and n packets that arrive by it but are still taken to wait.
ArriveUnseen(n) ==
    /\ Resends
    /\ arrived' = arrived \o SubSeq(waiting, 1, n)
    /\ broken' = TRUE
    /\ UNCHANGED waiting

Next ==
    \/ \E p \in Packets : Give(p)
    \/ \E n \in 1 .. Len(waiting) : Arrive(n) \/ Expire(n) \/ ArriveUnseen(n)
    \/ \E k \in 0 .. Len(waiting) : \E n \in 0 .. Len(waiting) - k : Lose(k, n)

Spec == Init /\ [][Next]_svars
=============================================================================
