------------------------------ MODULE YapsRead ------------------------------
(****************************************************************************)
(* How packets come from the chip over YAPS: morse_yaps_hw_read_pkts()      *)
(* (yaps-hw.c) and its caller morse_yaps_rx_handler() (yaps.c).             *)
(*                                                                          *)
(* The chip writes packets, each after its delimiter, into a stream of      *)
(* words.  The driver learns from the status registers how many words       *)
(* there are, reads at most a window of them, and splits them into packets. *)
(* A packet that runs off the end of the window is read to its end.  Which  *)
(* event makes the work read, and the interrupt, are in YapsWork.           *)
(****************************************************************************)
EXTENDS YapsHw, FiniteSets

CONSTANTS
    Lens,        \* lengths of packets from the chip, padding included, in words
    RxMax,       \* MAX_PKTS_PER_RX_TXN
    ChipPkts     \* packets the chip holds for the driver

ASSUME YapsReadAssumption ==
    /\ RxMax \in Nat \ {0} /\ ChipPkts \in Nat
    /\ Lens \subseteq Nat \ {0}

VARIABLES
    lens,     \* length of each packet sent by the chip
    stream,   \* words the chip holds: <<packet, 0>> is a delimiter
    pend,     \* MORSE_RX_PEND
    pc,       \* where the handler is
    bytes,    \* words to read in this pass
    again,    \* there were more than a window
    buf,      \* from_chip_buffer from read_ptr on
    slots,    \* from_chip_pkts: the words of each, <<>> for no skb
    num,      \* packets received in this pass
    ret,      \* result of read_pkts()
    got,      \* packets handed to morse_yaps_read_pkt()
    leaked,   \* packets overwritten in from_chip_pkts
    errors    \* failures so far

chip == <<lens, stream>>
parsed == <<buf, slots, num, leaked>>
vars == <<chip, pend, pc, bytes, again, parsed, ret, got, errors>>

Word == (1 .. MaxPkts) \X Nat
PacketsIn(s) == {w[1] : w \in Range(s)}
\* What the chip sends of a packet, and what the driver hands up of it.
Framed(p, len) == [k \in 1 .. len + 1 |-> <<p, k - 1>>]
Whole(p) == [k \in 1 .. lens[p] |-> <<p, k>>]

-----------------------------------------------------------------------------
Init ==
    /\ lens = <<>> /\ stream = <<>>
    /\ pend = FALSE /\ pc = "idle" /\ bytes = 0 /\ again = FALSE
    /\ buf = <<>> /\ slots = [i \in 1 .. RxMax |-> <<>>] /\ num = 0
    /\ ret = "ok" /\ got = <<>> /\ leaked = 0 /\ errors = 0

\* The chip sends a packet; its interrupt sets the event.
Send(len) ==
    /\ Len(lens) < MaxPkts
    /\ Cardinality(PacketsIn(stream)) < ChipPkts
    /\ lens' = Append(lens, len)
    /\ stream' = stream \o Framed(Len(lens'), len)
    /\ pend' = TRUE
    /\ UNCHANGED <<pc, bytes, again, parsed, ret, got, errors>>

-----------------------------------------------------------------------------
Fail(r) ==
    /\ errors < MaxErrors
    /\ errors' = errors + 1
    /\ ret' = r
    /\ buf' = <<>>
    /\ pc' = "end"

\* What is read of what the chip holds: a window at most.
BytesRemaining == Min2(Len(stream), Window)

\* The handler reads the status registers, and with them how much to read.
UpdateStatus ==
    /\ pc = "idle" /\ pend
    /\ pend' = FALSE
    /\ \/ /\ bytes' = BytesRemaining
          /\ again' = (Len(stream) > Window)
          /\ pc' = IF stream = <<>> THEN "end" ELSE "read"
          /\ UNCHANGED <<buf, ret, errors>>
       \/ Fail("eio") /\ UNCHANGED <<bytes, again>>
    /\ UNCHANGED <<chip, slots, num, leaked, got>>

\* One transfer for the window; the chip may have given up what a failing one
\* did not deliver.
ReadWindow ==
    /\ pc = "read"
    /\ \/ /\ buf' = SubSeq(stream, 1, bytes)
          /\ stream' = From(stream, bytes + 1)
          /\ pc' = "parse"
          /\ UNCHANGED <<ret, errors>>
       \/ /\ Fail("eio")
          /\ stream' \in {stream, From(stream, bytes + 1)}
    /\ UNCHANGED <<lens, pend, bytes, again, slots, num, leaked, got>>

\* A new skb is stored in the next slot, whatever is there.
Store(words) ==
    /\ slots' = [slots EXCEPT ![num + 1] = words]
    /\ leaked' = leaked + (IF slots[num + 1] # <<>> THEN 1 ELSE 0)

\* The loop that splits the window, one packet a step.  A word that is not a
\* delimiter fails its CRC.
MoreOne == num + 1 < RxMax /\ buf # <<>> /\ Head(buf)[2] = 0
More == num < RxMax /\ buf # <<>> /\ Head(buf)[2] = 0

Split ==
    /\ pc = "parse" /\ More
    /\ LET len == lens[Head(buf)[1]]
           here == Min2(len, Len(buf) - 1)
       IN  \/ /\ Store(SubSeq(buf, 2, here + 1))
              /\ IF here = len
                 THEN num' = num + 1 /\ buf' = From(buf, len + 2) /\ UNCHANGED pc
                 ELSE pc' = "overhang" /\ UNCHANGED <<num, buf>>
              /\ UNCHANGED <<ret, errors>>
           \/ Store(<<>>) /\ Fail("nomem") /\ UNCHANGED num
    /\ UNCHANGED <<chip, pend, bytes, again, got>>

ReadOverhangShort ==
    /\ pc = "overhang"
    /\ LET rest == lens[Head(buf)[1]] - Len(buf)
       IN  \/ /\ slots' = [slots EXCEPT ![num + 1] = @ \o SubSeq(stream, 1, rest)]
              /\ stream' = From(stream, rest + 1)
              /\ num' = num + 1 /\ buf' = <<>> /\ pc' = "parse"
              /\ UNCHANGED <<ret, errors>>
           \/ /\ Fail("eio")
              /\ stream' \in {stream, From(stream, rest + 1)}
              /\ UNCHANGED <<slots, num>>
    /\ UNCHANGED <<lens, pend, bytes, again, leaked, got>>

\* The rest of a packet that runs off the end of the window.
ReadOverhang ==
    /\ pc = "overhang"
    /\ LET rest == lens[Head(buf)[1]] - (Len(buf) - 1)
       IN  \/ /\ slots' = [slots EXCEPT ![num + 1] = @ \o SubSeq(stream, 1, rest)]
              /\ stream' = From(stream, rest + 1)
              /\ num' = num + 1 /\ buf' = <<>> /\ pc' = "parse"
              /\ UNCHANGED <<ret, errors>>
           \/ /\ Fail("eio")
              /\ stream' \in {stream, From(stream, rest + 1)}
              /\ UNCHANGED <<slots, num>>
    /\ UNCHANGED <<lens, pend, bytes, again, leaked, got>>

Splitted ==
    /\ pc = "parse" /\ ~More
    /\ ret' = IF again THEN "again" ELSE "ok"
    /\ buf' = <<>>
    /\ pc' = "end"
    /\ UNCHANGED <<chip, pend, bytes, again, slots, num, leaked, got, errors>>

EndNoEvent ==
    /\ pc = "end"
    /\ IF ret \in {"ok", "again"}
       THEN /\ got' = got \o SubSeq(slots, 1, num)
            /\ slots' = [i \in 1 .. RxMax |-> IF i <= num THEN <<>> ELSE slots[i]]
       ELSE UNCHANGED <<got, slots>>
    /\ pend' = (pend \/ ret = "nomem")
    /\ pc' = "idle" /\ ret' = "ok" /\ num' = 0 /\ bytes' = 0 /\ again' = FALSE
    /\ UNCHANGED <<chip, buf, leaked, errors>>

\* The rest of the handler: packets go up unless the read failed; the event is
\* set again when there is more, or was no memory.
End ==
    /\ pc = "end"
    /\ IF ret \in {"ok", "again"}
       THEN /\ got' = got \o SubSeq(slots, 1, num)
            /\ slots' = [i \in 1 .. RxMax |-> IF i <= num THEN <<>> ELSE slots[i]]
       ELSE UNCHANGED <<got, slots>>
    /\ pend' = (pend \/ ret \in {"again", "nomem"})
    /\ pc' = "idle" /\ ret' = "ok" /\ num' = 0 /\ bytes' = 0 /\ again' = FALSE
    /\ UNCHANGED <<chip, buf, leaked, errors>>

Next ==
    \/ \E len \in Lens : Send(len)
    \/ UpdateStatus \/ ReadWindow \/ Split \/ ReadOverhang \/ Splitted \/ End

Spec == Init /\ [][Next]_vars

Pass == UpdateStatus \/ ReadWindow \/ Split \/ ReadOverhang \/ Splitted \/ End
FairSpec == Spec /\ WF_vars(Pass)

-----------------------------------------------------------------------------
TypeOK ==
    /\ lens \in Seq(Lens) /\ Len(lens) <= MaxPkts
    /\ stream \in Seq(Word)
    /\ pend \in BOOLEAN /\ again \in BOOLEAN
    /\ pc \in {"idle", "read", "parse", "overhang", "end"}
    /\ bytes \in 0 .. Window
    /\ buf \in Seq(Word) /\ Len(buf) <= Window
    /\ slots \in [1 .. RxMax -> Seq(Word)]
    /\ num \in 0 .. RxMax
    /\ ret \in {"ok", "again", "nomem", "eio"}
    /\ got \in Seq(Seq(Word))
    /\ leaked \in Nat
    /\ errors \in 0 .. MaxErrors

\* Splitting the window and reading what runs over it never mixes packets up:
\* a packet that is handed up has exactly the words the chip sent of it.
NotGarbled == \A i \in DOMAIN got : got[i] # <<>> /\ got[i] = Whole(got[i][1][1])

\* The driver's place in the stream is inside a packet, after a fault.
Misaligned ==
    IF buf # <<>> THEN Head(buf)[2] # 0
    ELSE stream # <<>> /\ Head(stream)[2] # 0

\* The packets whose delimiter is in s.
Starts(s) == {w[1] : w \in {x \in Range(s) : x[2] = 0}}

\* A set of packets in the order they were sent in: the i-th has i that are not
\* later.
AtRank(S, i) == {p \in S : Cardinality({r \in S : r <= p}) = i}
Element(S) == CHOOSE p \in S : TRUE
InOrder(S) == [i \in 1 .. Cardinality(S) |-> Element(AtRank(S, i))]

\* The packets in the slots, and those handed up.
Received == [i \in 1 .. num |-> slots[i][1][1]]
HandedUp == [i \in DOMAIN got |-> got[i][1][1]]

\* The module implements PacketStream: all packets arrive, in order and once,
\* unless a transfer or an allocation failed and until the stream is aligned
\* again.
Chip2Host == INSTANCE PacketStream WITH
    Packets <- 1 .. MaxPkts, Ages <- FALSE, Resends <- FALSE,
    waiting <- Received \o InOrder(Starts(buf)) \o InOrder(Starts(stream)),
    arrived <- HandedUp,
    broken <- ret \in {"nomem", "eio"} \/ Misaligned

Implements == Chip2Host!Spec

\* No packet stays in the chip: the event is set again while there is more.
AllArrive ==
    \A p \in 1 .. MaxPkts :
        (p <= Len(lens)) ~> (errors > 0 \/ \E i \in DOMAIN got : got[i][1][1] = p)

\* "yaps packet leak": the slot a packet is received into holds no other.
NoPacketLeak == leaked = 0
=============================================================================
