------------------------- MODULE PagesetWork_proofs -------------------------
(****************************************************************************)
(* Theorems about PagesetWork, for every number of pages, limits of a pass, *)
(* inputs and faults.                                                       *)
(****************************************************************************)
EXTENDS PagesetWork, Integers, TLAPS

-----------------------------------------------------------------------------
(* Helpers.                                                                *)

LEMMA Min2Type ==
  ASSUME NEW a \in Nat, NEW b \in Nat
  PROVE  Min2(a, b) \in Nat /\ Min2(a, b) <= a /\ Min2(a, b) <= b
BY DEF Min2

\* What Refill makes of the counts, if the pages fit the fifos.
LEMMA RefillKeeps ==
  ASSUME reserved \in Nat, cached \in Nat, populated \in Nat, free \in Nat, lost \in Nat,
         PagesConserved, Refill
  PROVE  /\ reserved' \in Nat /\ cached' \in Nat /\ free' \in Nat
         /\ reserved' >= reserved /\ cached' >= cached
         /\ reserved' <= CmdRsvedPagesMax /\ cached' <= CachedPagesMax
         /\ lost' = lost
         /\ reserved' + cached' + free' = reserved + cached + free
<1> DEFINE r == Min2(free, CmdRsvedPagesMax - reserved)
           n == IF 2 * CachedPagesMax > r THEN Min2(free - r, 2 * CachedPagesMax - r) ELSE 0
           k == Min2(n, CachedPagesMax - cached)
<1> USE PagesetAssumption
<1>1. CmdRsvedPagesMax \in Nat /\ CachedPagesMax \in Nat /\ NumPages \in Nat
      /\ NumPages <= CmdRsvedPagesMax + CachedPagesMax
  OBVIOUS
<1>2. r \in Nat /\ r <= free /\ r <= CmdRsvedPagesMax - reserved
      /\ (r < free => reserved + r = CmdRsvedPagesMax)
  BY <1>1 DEF PagesConserved, Min2
<1>3. n \in Nat /\ n <= free - r
  <2> HIDE DEF r
  <2> QED  BY <1>1, <1>2 DEF Min2
<1>4. n <= CachedPagesMax - cached
  <2> HIDE DEF r, n
  <2>1. CASE r < free
    <3>1. reserved + r = CmdRsvedPagesMax  BY <1>2, <2>1
    <3>2. cached + (free - r) <= NumPages - CmdRsvedPagesMax
      BY <3>1, <1>1, <1>2 DEF PagesConserved
    <3> QED  BY <3>2, <1>1, <1>2, <1>3
  <2>2. CASE r = free
    BY <2>2, <1>1, <1>3 DEF PagesConserved
  <2> QED  BY <1>2, <2>1, <2>2
<1>5. k = n
  <2> HIDE DEF r, n
  <2> QED  BY <1>1, <1>3, <1>4 DEF Min2, PagesConserved
<1>6. /\ reserved' = reserved + r /\ cached' = cached + k
      /\ lost' = lost + (n - k) /\ free' = free - r - n
  BY DEF Refill
<1> HIDE DEF r, n, k
<1> QED  BY <1>1, <1>2, <1>3, <1>4, <1>5, <1>6

-----------------------------------------------------------------------------
(* Type correctness, with the places of the pages: what Refill leaves free  *)
(* is a number because no fifo holds more than it should.                   *)

Placed == TypeOK /\ PagesConserved

LEMMA InitPlaced == Init => Placed
<1> SUFFICES ASSUME Init PROVE TypeOK /\ PagesConserved  BY DEF Placed
<1> USE PagesetAssumption DEF Init
<1>1. PagesConserved  BY DEF PagesConserved
<1>2. /\ "cmd" \in Chans /\ "ret" \in Flags /\ "idle" \in Stages
      /\ "end" \in Stages \ {"write", "reading", "idle", "claim"}
  BY DEF Chans, Flags, Stages
<1>3. q \in [Chans -> Nat] /\ unsignalled \in [Chans -> Nat]  OBVIOUS
<1>4. NumPages \in Nat  OBVIOUS
<1>5. TypeOK  BY <1>2, <1>3, <1>4 DEF TypeOK
<1> QED  BY <1>1, <1>5

\* Steps that leave the pages to the chip alone.
LEMMA HandType ==
  ASSUME TypeOK, NEW c \in Chans, NEW here, NEW next \in Stages \ {"write", "reading", "idle", "claim"},
         Tx(c, here, next)
  PROVE  TypeOK'
<1>1. NumPagesFor(c) \in Nat
  BY PagesetAssumption DEF NumPagesFor, Min2, TypeOK
<1>2. CASE c \in flags /\ (c = "data" => Allowed)
  <2>1. PICK aged \in 0 .. q[c] :
           /\ sending' = Min2(NumPagesFor(c), q[c] - aged)
           /\ q' = [q EXCEPT ![c] = @ - aged - sending']
           /\ chan' = c /\ back' = next /\ pc' = "write"
    BY <1>2 DEF Tx, TypeOK
  <2>2. q[c] - aged \in Nat  BY DEF TypeOK
  <2>3. sending' \in Nat /\ sending' <= q[c] - aged
    BY <1>1, <2>1, <2>2, Min2Type
  <2>4. q[c] - aged - sending' \in Nat  BY <2>2, <2>3
  <2>5. q' \in [Chans -> Nat]  BY <2>1, <2>4 DEF TypeOK
  <2>6. flags' \in SUBSET Flags /\ pc' \in Stages /\ chan' \in Chans
        /\ back' \in Stages \ {"write", "reading", "idle", "claim"}
    BY <2>1 DEF TypeOK, Tx, Stages
  <2> QED  BY <2>3, <2>5, <2>6 DEF Tx, TypeOK, pages, chip, host, traffic, faults
<1>3. CASE ~(c \in flags /\ (c = "data" => Allowed))
  BY <1>3 DEF Tx, TypeOK, pages, chip, host, traffic, faults
<1> QED  BY <1>2, <1>3

LEMMA WorkerType ==
  ASSUME TypeOK, Start \/ Claim \/ TxEnd \/ Rx \/ BeaconWaitEnd \/ Rx2 \/ Pause \/ Resume \/ End
  PROVE  TypeOK'
<1> USE DEF TypeOK, senders, pages, chip, host, traffic, faults, signals, Stages
<1>1. CASE Start
  <2>1. pc' \in Stages /\ work' \in BOOLEAN  BY <1>1 DEF Start
  <2> QED  BY <1>1, <2>1 DEF Start
<1>2. CASE Claim  BY <1>2 DEF Claim
<1>3. CASE TxEnd
  <2>1. flags' \in SUBSET Flags  BY <1>3 DEF TxEnd, Chans, Flags
  <2> QED  BY <1>3, <2>1 DEF TxEnd, Chans
<1>4. CASE Rx  BY <1>4 DEF Rx
<1>5. CASE BeaconWaitEnd  BY <1>5 DEF BeaconWaitEnd
<1>6. CASE Rx2  BY <1>6 DEF Rx2
<1>7. CASE Pause
  <2>1. flags' \in SUBSET Flags /\ stopped' \in BOOLEAN  BY <1>7, Zenon DEF Pause
  <2>2. late' \in BOOLEAN  BY <1>7, Zenon DEF Pause
  <2> QED  BY <1>7, <2>1, <2>2 DEF Pause
<1>8. CASE Resume
  <2>1. "data" \in Flags  BY DEF Flags, Chans
  <2>2. flags' \in SUBSET Flags /\ stopped' \in BOOLEAN  BY <1>8, <2>1 DEF Resume
  <2>3. late' \in BOOLEAN  BY <1>8, Zenon DEF Resume
  <2> QED  BY <1>8, <2>2, <2>3 DEF Resume
<1>9. CASE End  BY <1>9 DEF End
<1> QED  BY <1>1, <1>2, <1>3, <1>4, <1>5, <1>6, <1>7, <1>8, <1>9

LEMMA ReadType == ASSUME TypeOK, Read PROVE TypeOK'
<1> USE DEF TypeOK, senders, pages, traffic, Stages
<1>1. ASSUME NEW failed \in BOOLEAN, Turn(failed)
      PROVE  /\ count' \in Nat /\ bcnPend' \in BOOLEAN /\ flags' \in SUBSET Flags
             /\ pc' \in Stages /\ back' \in Stages \ {"write", "reading", "idle", "claim"}
             /\ bus' \in {"free", "work", "irq"}
  BY <1>1 DEF Turn, Flags
<1>2. CASE ReadPage
  <2>1. Turn(FALSE)  BY <1>2 DEF ReadPage, ReadStep
  <2>2. rxq' \in Nat /\ toHost' \in Nat
    BY <1>2, PagesetAssumption, Min2Type DEF ReadPage
  <2> QED  BY <1>1, <1>2, <2>1, <2>2 DEF ReadPage, ReadStep
<1>3. CASE ReadEmpty
  <2>1. Turn(TRUE)  BY <1>3 DEF ReadEmpty, ReadStep
  <2> QED  BY <1>1, <1>3, <2>1 DEF ReadEmpty, ReadStep
<1>4. CASE ReadError
  <2>1. PICK failed \in BOOLEAN : ReadStep(failed) /\ toHost' \in {toHost, toHost - 1}
                                 /\ (toHost' = toHost \/ toHost > 0)
    BY <1>4 DEF ReadError
  <2>2. Turn(failed)  BY <2>1 DEF ReadStep
  <2>3. toHost' \in Nat /\ errors' \in Nat  BY <1>4, <2>1 DEF ReadError
  <2> QED  BY <1>1, <1>4, <2>1, <2>2, <2>3 DEF ReadError, ReadStep
<1> QED  BY <1>2, <1>3, <1>4 DEF Read

LEMMA OthersType ==
  ASSUME TypeOK, \/ Interrupt \/ Receive \/ ChipFill \/ ChipBeacon \/ BeaconTasklet \/ Traffic
                 \/ \E c \in Chans : Put(c) \/ Signal(c)
  PROVE  TypeOK'
<1> USE DEF TypeOK, senders, signals, worker, pages, chip, host, traffic, faults, Input
<1>1. CASE IrqRead  BY <1>1 DEF IrqRead, Flags, Chans
<1>2. CASE IrqClear  BY <1>2 DEF IrqClear
<1>3. CASE DispatchStart  BY <1>3 DEF DispatchStart
<1>4. CASE DispatchEnd
  <2>1. flags' \in SUBSET Flags  BY <1>4, Zenon DEF DispatchEnd, Flags
  <2> QED  BY <1>4, <2>1 DEF DispatchEnd
<1>5. CASE ChipFill  BY <1>5 DEF ChipFill
<1>6. CASE ChipBeacon  BY <1>6 DEF ChipBeacon
<1>7. CASE BeaconTasklet
  <2>1. q' \in [Chans -> Nat]
    <3>1. "bcn" \in Chans /\ q["bcn"] + 1 \in Nat  BY DEF Chans
    <3> QED  BY <1>7, <3>1 DEF BeaconTasklet
  <2>2. flags' \in SUBSET Flags  BY <1>7 DEF BeaconTasklet, Flags, Chans
  <2> QED  BY <1>7, <2>1, <2>2 DEF BeaconTasklet
<1>8. CASE Traffic
  <2>1. lastEv' \in {"pause", "resume"}  BY <1>8 DEF Traffic
  <2>2. flags' \in SUBSET Flags  BY <1>8, <2>1 DEF Traffic, Flags
  <2> QED  BY <1>8, <2>1, <2>2 DEF Traffic
<1>9. ASSUME NEW c \in Chans, Put(c) PROVE TypeOK'
  <2>1. q[c] + 1 \in Nat /\ unsignalled[c] + 1 \in Nat  OBVIOUS
  <2>2. q' \in [Chans -> Nat] /\ unsignalled' \in [Chans -> Nat]
    BY <1>9, <2>1 DEF Put
  <2> QED  BY <1>9, <2>2 DEF Put
<1>10. ASSUME NEW c \in Chans, Signal(c) PROVE TypeOK'
  <2>1. unsignalled[c] - 1 \in Nat  BY <1>10 DEF Signal
  <2>2. unsignalled' \in [Chans -> Nat]  BY <1>10, <2>1 DEF Signal
  <2>3. flags' \in SUBSET Flags /\ work' \in BOOLEAN  BY <1>10 DEF Signal, Flags
  <2> QED  BY <1>10, <2>2, <2>3 DEF Signal
<1> QED
  BY <1>1, <1>2, <1>3, <1>4, <1>5, <1>6, <1>7, <1>8, <1>9, <1>10 DEF Interrupt, Receive

\* A failing write, put or pop adds to the errors.
LEMMA FailedAdds ==
  ASSUME errors \in Nat, NEW n \in Nat, Failed(n)
  PROVE  errors' \in Nat /\ (errors' = errors + n \/ errors' = errors + n + 1)
BY DEF Failed

\* Steps that move a page.
LEMMA MoveType ==
  ASSUME Placed, FetchForCmd \/ WritePage \/ WriteOversize \/ WriteError \/ PutError
                 \/ PageReturn \/ ChipSend
  PROVE  Placed'
<1> USE DEF Placed
<1> DEFINE Numbers == /\ reserved' \in Nat /\ cached' \in Nat /\ populated' \in Nat
                      /\ free' \in Nat /\ lost' \in Nat /\ errors' \in Nat /\ oversize' \in Nat
                      /\ sending' \in Nat
           Rest == /\ UNCHANGED <<inputs, senders, work, bus, chan, back, bcnPend, count>>
                   /\ UNCHANGED <<toHost, seen, host, traffic, rxCleared>>
                   /\ flags' \in SUBSET Flags /\ pc' \in Stages
                   /\ irq' \in SUBSET {"rx", "ret", "bcn"}
<1>0. ASSUME Numbers, Rest PROVE TypeOK'
  BY <1>0 DEF TypeOK, senders, host, traffic
<1>1. ASSUME WriteStep PROVE Rest /\ sending' \in Nat /\ free' = free
  BY <1>1 DEF WriteStep, TypeOK, senders, signals, chip, host, traffic
<1>2. ASSUME TakePage
      PROVE  /\ reserved' \in Nat /\ cached' \in Nat
             /\ reserved' <= reserved /\ cached' <= cached
             /\ reserved' + cached' = reserved + cached - 1
  <2>1. CASE FromReserved  BY <1>2, <2>1 DEF TakePage, FromReserved, TypeOK
  <2>2. CASE ~FromReserved  BY <1>2, <2>2 DEF TakePage, TypeOK
  <2> QED  BY <2>1, <2>2
<1> HIDE DEF Rest
<1>3. CASE FetchForCmd
  <2>1. Refill  BY <1>3 DEF FetchForCmd
  <2>2. Numbers /\ PagesConserved'
    BY <1>3, <2>1, RefillKeeps DEF FetchForCmd, TypeOK, PagesConserved, faults, worker
  <2>3. Rest
    BY <1>3 DEF FetchForCmd, TypeOK, Rest, senders, signals, worker, chip, host, traffic
  <2> QED  BY <1>0, <2>2, <2>3
<1>B. /\ reserved \in Nat /\ cached \in Nat /\ populated \in Nat /\ free \in Nat /\ lost \in Nat
      /\ errors \in Nat /\ oversize \in Nat
      /\ CmdRsvedPagesMax \in Nat /\ CachedPagesMax \in Nat /\ NumPages \in Nat
      /\ reserved + cached + populated + free + lost = NumPages
      /\ reserved <= CmdRsvedPagesMax /\ cached <= CachedPagesMax
  BY PagesetAssumption DEF TypeOK, PagesConserved
<1>4. CASE WritePage
  <2>1. /\ WriteStep /\ TakePage /\ populated' = populated + 1 /\ lost' = lost
        /\ errors' \in Nat /\ oversize' = oversize
    BY <1>4, <1>B, FailedAdds DEF WritePage
  <2>2. Numbers  BY <1>1, <1>2, <1>B, <2>1
  <2>3. PagesConserved'
    <3> HIDE DEF Numbers
    <3> QED  BY <1>1, <1>2, <1>B, <2>1 DEF PagesConserved
  <2> QED  BY <1>0, <1>1, <2>1, <2>2, <2>3
<1>5. CASE WriteOversize
  <2>1. /\ WriteStep /\ TakePage /\ populated' = populated /\ lost' = lost + 1
        /\ errors' \in Nat /\ oversize' = oversize + 1
    BY <1>5, <1>B, FailedAdds DEF WriteOversize
  <2>2. Numbers  BY <1>1, <1>2, <1>B, <2>1
  <2>3. PagesConserved'
    <3> HIDE DEF Numbers
    <3> QED  BY <1>1, <1>2, <1>B, <2>1 DEF PagesConserved
  <2> QED  BY <1>0, <1>1, <2>1, <2>2, <2>3
<1>6. CASE WriteError
  <2>0. errors' \in Nat  BY <1>6, <1>B, FailedAdds DEF WriteError
  <2>1. Numbers /\ PagesConserved'
    BY <1>1, <1>6, <2>0 DEF WriteError, TypeOK, PagesConserved
  <2> QED  BY <1>0, <1>1, <1>6, <2>1 DEF WriteError
<1>7. CASE PutError
  <2>1. /\ WriteStep /\ TakePage /\ oversize' = oversize
        /\ errors' \in Nat
        /\ \/ populated' = populated + 1 /\ lost' = lost
           \/ populated' = populated /\ lost' = lost + 1
    BY <1>7, <1>B, FailedAdds DEF PutError
  <2>2. Numbers  BY <1>1, <1>2, <1>B, <2>1
  <2>3. PagesConserved'
    <3> HIDE DEF Numbers
    <3> QED  BY <1>1, <1>2, <1>B, <2>1 DEF PagesConserved
  <2> QED  BY <1>0, <1>1, <2>1, <2>2, <2>3
<1>8. CASE PageReturn
  <2>1. Rest /\ UNCHANGED <<sending, populated, oversize>>
    BY <1>8 DEF PageReturn, Rest, TypeOK, senders, chip, host, traffic, Stages
  <2>2. errors' \in Nat  BY <1>8 DEF PageReturn, TypeOK
  <2>3. CASE Refill
    <3>1. Numbers /\ PagesConserved'
      BY <2>1, <2>2, <2>3, RefillKeeps DEF TypeOK, PagesConserved
    <3> QED  BY <1>0, <2>1, <3>1
  <2>4. CASE UNCHANGED <<reserved, cached, free, lost>>
    <3>1. Numbers /\ PagesConserved'
      BY <2>1, <2>2, <2>4 DEF TypeOK, PagesConserved
    <3> QED  BY <1>0, <2>1, <3>1
  <2> QED  BY <1>8, <2>3, <2>4 DEF PageReturn
<1>9. CASE ChipSend
  <2>1. Numbers /\ PagesConserved'
    BY <1>9 DEF ChipSend, TypeOK, PagesConserved, worker, faults
  <2>2. Rest
    BY <1>9 DEF ChipSend, TypeOK, Rest, senders, signals, worker, host, traffic
  <2> QED  BY <1>0, <2>1, <2>2
<1> QED  BY <1>3, <1>4, <1>5, <1>6, <1>7, <1>8, <1>9

\* The steps that leave every page where it is.
Still ==
    \/ Handle \/ Read \/ Start \/ Claim \/ TxEnd \/ Rx \/ BeaconWaitEnd \/ Rx2
    \/ Pause \/ Resume \/ End
    \/ Interrupt \/ Receive \/ ChipFill \/ ChipBeacon \/ BeaconTasklet \/ Traffic
    \/ \E c \in Chans : Put(c) \/ Signal(c)

LEMMA StillPages == ASSUME Still PROVE UNCHANGED pages
<1> USE DEF pages
<1>1. CASE Handle  BY <1>1 DEF Handle, Tx
<1>2. CASE Read  BY <1>2 DEF Read, ReadPage, ReadEmpty, ReadError, ReadStep
<1>3. CASE Start \/ Claim \/ TxEnd \/ Rx \/ BeaconWaitEnd \/ Rx2 \/ Pause \/ Resume \/ End
  BY <1>3 DEF Start, Claim, TxEnd, Rx, BeaconWaitEnd, Rx2, Pause, Resume, End
<1>4. CASE Interrupt \/ Receive \/ ChipFill \/ ChipBeacon \/ BeaconTasklet \/ Traffic
  BY <1>4 DEF Interrupt, IrqRead, IrqClear, Receive, DispatchStart, DispatchEnd, ChipFill,
              ChipBeacon, BeaconTasklet, Traffic
<1>5. CASE \E c \in Chans : Put(c) \/ Signal(c)  BY <1>5 DEF Put, Signal
<1> QED  BY <1>1, <1>2, <1>3, <1>4, <1>5 DEF Still

LEMMA StillType == ASSUME TypeOK, Still PROVE TypeOK'
<1>1. CASE Handle
  <2>1. /\ "cmd" \in Chans /\ "bcn" \in Chans /\ "mgmt" \in Chans /\ "data" \in Chans
        /\ {"rx", "bcn2", "rx2", "pause", "end"}
             \subseteq Stages \ {"write", "reading", "idle", "claim"}
    BY DEF Chans, Stages
  <2> QED  BY <1>1, <2>1, HandType DEF Handle
<1> QED  BY <1>1, WorkerType, ReadType, OthersType DEF Still

LEMMA StepSplit ==
  ASSUME Next
  PROVE  \/ Still
         \/ FetchForCmd \/ WritePage \/ WriteOversize \/ WriteError \/ PutError
         \/ PageReturn \/ ChipSend
BY DEF Next, Pass, Write, Chip, Still

LEMMA StepPlaced == Placed /\ [Next]_vars => Placed'
<1> SUFFICES ASSUME Placed, [Next]_vars PROVE Placed'  OBVIOUS
<1>1. CASE Still
  <2>1. TypeOK'  BY <1>1, StillType DEF Placed
  <2>2. PagesConserved'  BY <1>1, StillPages DEF Placed, PagesConserved, pages
  <2> QED  BY <2>1, <2>2 DEF Placed
<1>2. CASE UNCHANGED vars
  BY <1>2 DEF vars, senders, signals, worker, pages, chip, host, traffic, faults, Placed,
              TypeOK, PagesConserved
<1> QED  BY <1>1, <1>2, StepSplit, MoveType

\* morse_pagesets_work(), its callers and the chip keep the types of the state.
THEOREM TypeCorrect == Spec => []TypeOK
<1>1. Spec => []Placed  BY InitPlaced, StepPlaced, PTL DEF Spec
<1>2. Placed => TypeOK  BY DEF Placed
<1> QED  BY <1>1, <1>2, PTL

\* A page to the chip is never in two places nor in none, however many pages,
\* bus errors and packets too large there are.
THEOREM Conserved == Spec => []PagesConserved
<1>1. Spec => []Placed  BY InitPlaced, StepPlaced, PTL DEF Spec
<1>2. Placed => PagesConserved  BY DEF Placed
<1> QED  BY <1>1, <1>2, PTL

-----------------------------------------------------------------------------
(* What the counting before the dequeue is worth: a page for every packet.  *)

\* The pages a queue may take one after the other.
Takeable == cached + CASE chan = "cmd" -> reserved
                       [] chan = "bcn" -> IF reserved > 1 THEN reserved - 1 ELSE 0
                       [] OTHER -> 0

LEMMA InitServed == Init => PageForEachPacket
BY DEF Init, PageForEachPacket

\* Only the dequeue brings the work to its local list.
LEMMA EnterWrite ==
  ASSUME TypeOK, Still, pc' = "write", ~Handle
  PROVE  pc = "write" /\ UNCHANGED <<chan, sending>>
<1>1. ~TxEnd  BY DEF TxEnd, TypeOK
<1>2. ~Read
  BY DEF Read, ReadPage, ReadEmpty, ReadError, ReadStep, Turn, TypeOK
<1>3. ~(Start \/ Claim \/ Rx \/ BeaconWaitEnd \/ Rx2 \/ Pause \/ Resume \/ End)
  BY DEF Start, Claim, Rx, BeaconWaitEnd, Rx2, Pause, Resume, End
<1>4. CASE Interrupt \/ Receive \/ ChipFill \/ ChipBeacon \/ BeaconTasklet \/ Traffic
  BY <1>4 DEF Interrupt, IrqRead, IrqClear, Receive, DispatchStart, DispatchEnd, ChipFill,
              ChipBeacon, BeaconTasklet, Traffic, worker
<1>5. CASE \E c \in Chans : Put(c) \/ Signal(c)  BY <1>5 DEF Put, Signal, worker
<1> QED  BY <1>1, <1>2, <1>3, <1>4, <1>5 DEF Still

LEMMA StepServed == Placed /\ PageForEachPacket /\ [Next]_vars => PageForEachPacket'
<1> SUFFICES ASSUME Placed, PageForEachPacket, [Next]_vars PROVE PageForEachPacket'
  OBVIOUS
<1> USE DEF Placed
<1>B. /\ reserved \in Nat /\ cached \in Nat /\ sending \in Nat /\ chan \in Chans
      /\ free \in Nat /\ populated \in Nat /\ lost \in Nat
      /\ reserved <= CmdRsvedPagesMax /\ CmdRsvedPagesMax \in {1, 2}
  BY PagesetAssumption DEF TypeOK, PagesConserved
<1>1. ASSUME NEW c \in Chans, NEW here, NEW next, next # "write", Tx(c, here, next)
      PROVE  PageForEachPacket'
  <2>1. CASE c \in flags /\ (c = "data" => Allowed)
    <3>1. PICK aged \in (IF c = "mgmt" THEN 0 .. q[c] ELSE {0}) :
             sending' = Min2(NumPagesFor(c), q[c] - aged)
      BY <1>1, <2>1 DEF Tx
    <3>2. chan' = c /\ UNCHANGED <<reserved, cached>>
      BY <1>1, <2>1 DEF Tx, pages
    <3>3. q[c] - aged \in Int  BY DEF TypeOK
    <3>4. sending' <= NumPagesFor(c)
      BY <1>B, <3>1, <3>3, PagesetAssumption DEF Min2, NumPagesFor
    <3>5. NumPagesFor(c) <= Takeable'
      BY <1>B, <3>2, PagesetAssumption DEF Min2, NumPagesFor, Takeable, Chans
    <3>6. sending' \in Int /\ NumPagesFor(c) \in Int /\ Takeable' \in Int
      BY <1>B, <3>1, <3>2, <3>3, PagesetAssumption DEF Min2, NumPagesFor, Takeable
    <3> QED  BY <3>4, <3>5, <3>6 DEF PageForEachPacket, Takeable
  <2>2. CASE ~(c \in flags /\ (c = "data" => Allowed))
    BY <1>1, <2>2 DEF Tx, PageForEachPacket
  <2> QED  BY <2>1, <2>2
<1>2. CASE Handle
  BY <1>1, <1>2 DEF Handle, Chans
<1>3. CASE Still /\ ~Handle
  <2>1. UNCHANGED <<reserved, cached>>  BY <1>3, StillPages DEF pages
  <2> QED  BY <1>3, <2>1, EnterWrite DEF PageForEachPacket
<1>4. CASE FetchForCmd
  <2>1. Refill /\ UNCHANGED <<pc, chan, sending>>  BY <1>4 DEF FetchForCmd, worker
  <2>2. reserved' \in Nat /\ cached' \in Nat /\ reserved' >= reserved /\ cached' >= cached
    BY <1>B, <2>1, RefillKeeps DEF TypeOK
  <2> QED  BY <1>B, <2>1, <2>2 DEF PageForEachPacket
<1>5. CASE WriteStep /\ TakePage
  <2>1. /\ pc = "write" /\ sending > 0 /\ sending' = sending - 1
        /\ UNCHANGED <<pc, chan>>
    BY <1>5 DEF WriteStep
  <2>2. sending <= Takeable  BY <2>1 DEF PageForEachPacket, Takeable
  <2>3. CASE FromReserved
    <3>1. reserved' = reserved - 1 /\ cached' = cached  BY <1>5, <2>3 DEF TakePage
    <3>2. Takeable' = Takeable - 1
      BY <1>B, <2>1, <2>3, <3>1 DEF Takeable, FromReserved
    <3>3. Takeable \in Int  BY <1>B DEF Takeable
    <3> QED  BY <1>B, <2>1, <2>2, <3>2, <3>3 DEF PageForEachPacket, Takeable
  <2>4. CASE ~FromReserved
    <3>1. reserved' = reserved /\ cached' = cached - 1  BY <1>5, <2>4 DEF TakePage
    <3>2. Takeable' = Takeable - 1  BY <1>B, <2>1, <3>1 DEF Takeable
    <3>3. Takeable \in Int  BY <1>B DEF Takeable
    <3> QED  BY <1>B, <2>1, <2>2, <3>2, <3>3 DEF PageForEachPacket, Takeable
  <2> QED  BY <2>3, <2>4
<1>6. CASE WriteError
  <2>1. sending' = sending - 1 /\ UNCHANGED <<pc, chan, reserved, cached>>
    BY <1>6 DEF WriteError, WriteStep
  <2>2. pc = "write" /\ sending <= Takeable
    BY <1>6 DEF WriteError, WriteStep, PageForEachPacket, Takeable
  <2>3. Takeable \in Int /\ Takeable' = Takeable  BY <1>B, <2>1 DEF Takeable
  <2> QED  BY <1>B, <2>1, <2>2, <2>3 DEF PageForEachPacket, Takeable
<1>7. CASE PageReturn
  BY <1>7 DEF PageReturn, PageForEachPacket
<1>8. CASE ChipSend
  BY <1>8 DEF ChipSend, worker, PageForEachPacket
<1>9. CASE UNCHANGED vars
  BY <1>9 DEF vars, worker, pages, PageForEachPacket
<1> QED
  BY <1>2, <1>3, <1>4, <1>5, <1>6, <1>7, <1>8, <1>9, StepSplit
  DEF WritePage, WriteOversize, PutError

\* morse_pageset_write() finds a page for every packet that
\* morse_pageset_tx() took from a queue, whatever the writes before it met.
THEOREM Served == Spec => []PageForEachPacket
<1>1. Init => Placed /\ PageForEachPacket  BY InitPlaced, InitServed
<1>2. (Placed /\ PageForEachPacket) /\ [Next]_vars => (Placed /\ PageForEachPacket)'
  BY StepPlaced, StepServed
<1> QED  BY <1>1, <1>2, PTL DEF Spec

-----------------------------------------------------------------------------
(* What becomes of pages and of the last page for commands.                *)

LEMMA StepLost == Placed /\ LostOnlyByFault /\ [Next]_vars => LostOnlyByFault'
<1> SUFFICES ASSUME Placed, LostOnlyByFault, [Next]_vars PROVE LostOnlyByFault'
  OBVIOUS
<1> USE DEF Placed, LostOnlyByFault
<1>B. lost \in Nat /\ oversize \in Nat /\ errors \in Nat  BY DEF TypeOK
<1>1. CASE Still
  <2>1. lost' = lost  BY <1>1, StillPages DEF pages
  <2>2. oversize' = oversize /\ (errors' = errors \/ errors' = errors + 1)
    <3>1. CASE Handle  BY <1>1, <3>1 DEF Handle, Tx, faults
    <3>2. CASE Read
      BY <3>2 DEF Read, ReadPage, ReadEmpty, ReadError, ReadStep
    <3>3. CASE Start \/ Claim \/ TxEnd \/ Rx \/ BeaconWaitEnd \/ Rx2 \/ Pause \/ Resume \/ End
      BY <3>3 DEF Start, Claim, TxEnd, Rx, BeaconWaitEnd, Rx2, Pause, Resume, End, faults
    <3>4. CASE Interrupt \/ Receive \/ ChipFill \/ ChipBeacon \/ BeaconTasklet \/ Traffic
      BY <3>4 DEF Interrupt, IrqRead, IrqClear, Receive, DispatchStart, DispatchEnd, ChipFill,
                  ChipBeacon, BeaconTasklet, Traffic, faults
    <3>5. CASE \E c \in Chans : Put(c) \/ Signal(c)  BY <3>5 DEF Put, Signal, faults
    <3> QED  BY <1>1, <3>1, <3>2, <3>3, <3>4, <3>5 DEF Still
  <2> QED  BY <1>B, <2>1, <2>2
<1>2. CASE FetchForCmd \/ PageReturn
  <2>1. Refill => lost' = lost  BY RefillKeeps DEF TypeOK
  <2>2. oversize' = oversize /\ (errors' = errors \/ errors' = errors + 1) /\ lost' = lost
    BY <1>2, <2>1 DEF FetchForCmd, PageReturn, faults
  <2> QED  BY <1>B, <2>2
<1>3. CASE WritePage \/ WriteOversize \/ WriteError \/ PutError \/ ChipSend
  <2>1. CASE WritePage  BY <1>B, <2>1, FailedAdds DEF WritePage
  <2>2. CASE WriteOversize  BY <1>B, <2>2, FailedAdds DEF WriteOversize
  <2>3. CASE WriteError  BY <1>B, <2>3, FailedAdds DEF WriteError
  <2>4. CASE PutError
    <3>1. CASE Failed(1) /\ lost' = lost
      BY <1>B, <2>4, <3>1, FailedAdds DEF PutError
    <3>2. CASE Failed(2) /\ lost' = lost + 1
      BY <1>B, <2>4, <3>2, FailedAdds DEF PutError
    <3> QED  BY <2>4, <3>1, <3>2 DEF PutError
  <2>5. CASE ChipSend  BY <1>B, <2>5 DEF ChipSend, faults
  <2> QED  BY <1>3, <2>1, <2>2, <2>3, <2>4, <2>5
<1>4. CASE UNCHANGED vars  BY <1>4 DEF vars, pages, faults
<1> QED  BY <1>1, <1>2, <1>3, <1>4, StepSplit

\* The driver loses no page to the chip unless the bus fails or a packet is
\* larger than its page.
THEOREM NotLost == Spec => []LostOnlyByFault
<1>1. Init => LostOnlyByFault  BY DEF Init, LostOnlyByFault
<1>2. Init => Placed /\ LostOnlyByFault  BY InitPlaced, <1>1
<1>3. (Placed /\ LostOnlyByFault) /\ [Next]_vars => (Placed /\ LostOnlyByFault)'
  BY StepPlaced, StepLost
<1> QED  BY <1>2, <1>3, PTL DEF Spec

\* No failing write, put or read of morse_pagesets_work() loses a page without
\* a fault that is accounted for.
THEOREM Kept == Spec => []PagesKept
<1>1. PagesConserved /\ LostOnlyByFault => PagesKept  BY DEF PagesKept
<1> QED  BY <1>1, Conserved, NotLost, PTL

\* morse_pageset_write() leaves the last reserved page to commands.
THEOREM CommandPageKept == Spec => LastReservedForCommand
<1> DEFINE Keeps == reserved' < reserved
                      => chan = "cmd" \/ (chan = "bcn" /\ reserved' >= 1)
<1>1. Placed /\ [Next]_vars => [Keeps]_vars
  <2> SUFFICES ASSUME Placed, [Next]_vars PROVE Keeps  OBVIOUS
  <2>B. reserved \in Nat  BY DEF Placed, TypeOK
  <2>1. CASE Still  BY <2>1, <2>B, StillPages DEF pages
  <2>2. CASE FetchForCmd \/ PageReturn
    <3>1. Refill => reserved' \in Nat /\ reserved' >= reserved
      BY RefillKeeps DEF Placed, TypeOK
    <3> QED  BY <2>2, <2>B, <3>1 DEF FetchForCmd, PageReturn
  <2>3. CASE WritePage \/ WriteOversize \/ PutError
    BY <2>3, <2>B DEF WritePage, WriteOversize, PutError, TakePage, FromReserved
  <2>4. CASE WriteError \/ ChipSend  BY <2>4, <2>B DEF WriteError, ChipSend
  <2>5. CASE UNCHANGED vars  BY <2>5, <2>B DEF vars, pages
  <2> QED  BY <2>1, <2>2, <2>3, <2>4, <2>5, StepSplit
<1>2. Spec => []Placed  BY InitPlaced, StepPlaced, PTL DEF Spec
<1> QED  BY <1>1, <1>2, PTL DEF Spec, LastReservedForCommand

-----------------------------------------------------------------------------
(* Lost wakeups.                                                           *)

\* Commands cannot have every page of the chip.
DataPages == NumPages > CmdRsvedPagesMax

\* Where the work goes on: after the local list, or after reading.
At == IF pc \in {"write", "reading"} THEN back ELSE pc

\* The stages from which the work comes to the handler of an event.
BeforeRet == {"claim", "bcn1", "rx", "bcnwait", "ret"}
BeforeCmd == BeforeRet \cup {"cmd"}
BeforeBcn == BeforeCmd \cup {"bcn2"}
BeforeMgmt == BeforeBcn \cup {"rx2", "mgmt"}
BeforePause == BeforeMgmt \cup {"pause"}
BeforeResume == BeforePause \cup {"resume"}
BeforeData == BeforeResume \cup {"data"}
Before(c) == CASE c = "cmd" -> BeforeCmd [] c = "bcn" -> BeforeBcn
               [] c = "mgmt" -> BeforeMgmt [] OTHER -> BeforeData

Lists ==
    /\ pc = "write" => <<chan, back>> \in
          {<<"bcn", "rx">>, <<"cmd", "bcn2">>, <<"bcn", "rx2">>, <<"mgmt", "pause">>,
           <<"data", "end">>}
    /\ pc = "reading" => back \in {"ret", "mgmt"}

\* The work has the bus on its pass, and the interrupt handler has set the
\* events of the status it read.
BusHeld ==
    /\ bus # "work" => pc \in {"idle", "claim", "bcnwait"}
    /\ bus = "irq" => seen \cap {"rx", "ret"} \subseteq flags
    /\ bus # "irq" => seen = {}

Place == Lists /\ BusHeld

\* An event that is set is going to be handled.
Events ==
    /\ "ret" \in flags => work \/ At \in BeforeRet
    /\ "pause" \in flags => work \/ At \in BeforePause
    /\ "resume" \in flags => work \/ At \in BeforeResume
    /\ "rx" \in flags => work \/ pc # "idle"

\* Steps that are not the work's own.
Elsewhere ==
    \/ Interrupt \/ Receive \/ Chip \/ BeaconTasklet \/ Traffic
    \/ \E c \in Chans : Put(c) \/ Signal(c)

LEMMA ElsewhereStep ==
  ASSUME Elsewhere
  PROVE  /\ UNCHANGED <<pc, chan, sending, back, count, reserved, cached, lost, stopped, late,
                        faults, rxCleared>>
         /\ flags \subseteq flags' /\ (work => work') /\ (flags' # flags => work')
         /\ At' = At
<1> SUFFICES /\ UNCHANGED <<pc, chan, sending, back, count, reserved, cached, lost, stopped, late,
                            faults, rxCleared>>
             /\ flags \subseteq flags' /\ (work => work') /\ (flags' # flags => work')
  BY DEF At
<1> USE DEF senders, signals, worker, pages, chip, host, traffic
<1>1. CASE Interrupt
  <2>1. CASE IrqRead
    <3> DEFINE new == irq \cap {"rx", "ret"}
    <3>1. flags' = flags \cup new /\ work' = (work \/ new # {})  BY <2>1 DEF IrqRead
    <3> HIDE DEF new
    <3>2. flags \subseteq flags' /\ (work => work') /\ (flags' # flags => work')  BY <3>1
    <3> QED  BY <2>1, <3>2 DEF IrqRead
  <2>2. CASE IrqClear  BY <2>2 DEF IrqClear
  <2> QED  BY <1>1, <2>1, <2>2 DEF Interrupt
<1>2. CASE Receive  BY <1>2 DEF Receive, DispatchStart, DispatchEnd
<1>3. CASE Chip  BY <1>3 DEF Chip, ChipFill, ChipSend, ChipBeacon
<1>4. CASE BeaconTasklet \/ Traffic  BY <1>4 DEF BeaconTasklet, Traffic
<1>5. CASE \E c \in Chans : Put(c) \/ Signal(c)
  BY <1>5 DEF Put, Signal
<1> QED  BY <1>1, <1>2, <1>3, <1>4, <1>5 DEF Elsewhere

\* The work's own steps, but for the writes of a local list.
Worker ==
    \/ Start \/ Claim \/ Handle \/ TxEnd \/ Rx \/ Read \/ BeaconWaitEnd \/ PageReturn
    \/ Rx2 \/ Pause \/ Resume \/ End

LEMMA Steps ==
  ASSUME [Next]_vars
  PROVE  Worker \/ Write \/ Elsewhere \/ UNCHANGED vars
BY DEF Next, Pass, Worker, Elsewhere

LEMMA WriteKeeps ==
  ASSUME Write
  PROVE  /\ UNCHANGED <<q, unsignalled, flags, work, bus, pc, chan, back, chip, toHost, seen,
                        traffic, rxCleared>>
         /\ pc = "write" /\ sending > 0 /\ At' = At
<1>1. /\ UNCHANGED <<q, unsignalled, flags, work, bus, pc, chan, back, chip, toHost, seen,
                     traffic, rxCleared>>
      /\ pc = "write" /\ sending > 0
  BY DEF Write, FetchForCmd, WritePage, WriteOversize, WriteError, PutError, WriteStep,
         senders, signals, worker, chip, traffic
<1> QED  BY <1>1 DEF At

LEMMA InitPlace == Init => Place /\ Events
BY DEF Init, Place, Lists, BusHeld, Events

\* One turn of the reading loop.
LEMMA TurnPlace ==
  ASSUME TypeOK, NEW failed, Turn(failed)
  PROVE  /\ \/ pc' = "reading" /\ back' = back /\ bus' = bus
            \/ pc' = back /\ back' = "end" /\ bus' = bus
            \/ pc' = "bcnwait" /\ back = "ret" /\ "rx" \in flags' /\ bus' = "free"
         /\ flags \subseteq flags' /\ flags' \subseteq flags \cup {"rx"}
         /\ ~failed => pc' = "reading" \/ "rx" \in flags'
BY DEF Turn

LEMMA ReadTurn ==
  ASSUME Read
  PROVE  /\ pc = "reading" /\ \E failed \in BOOLEAN : Turn(failed)
         /\ UNCHANGED <<q, unsignalled, work, chan, sending, pages, irq, seen, traffic, oversize,
                        rxCleared>>
BY DEF Read, ReadPage, ReadEmpty, ReadError, ReadStep, senders

LEMMA StepPlace ==
  TypeOK /\ Place /\ Events /\ [Next]_vars => Place' /\ Events'
<1> SUFFICES ASSUME TypeOK, Lists, BusHeld, Events, [Next]_vars
             PROVE  Lists' /\ BusHeld' /\ Events'
  BY DEF Place
<1>1. CASE Write
  <2>1. /\ UNCHANGED <<flags, work, bus, pc, chan, back, seen>> /\ At' = At
    BY <1>1, WriteKeeps
  <2> QED  BY <2>1 DEF Lists, BusHeld, Events
<1>2. CASE Elsewhere
  <2>1. /\ UNCHANGED <<pc, chan, back>> /\ At' = At
        /\ flags \subseteq flags' /\ (work => work') /\ (flags' # flags => work')
    BY <1>2, ElsewhereStep
  <2>2. Lists' /\ Events'  BY <2>1 DEF Lists, Events
  <2>3. BusHeld'
    <3>1. CASE IrqRead  BY <2>1, <3>1 DEF IrqRead, BusHeld
    <3>2. CASE IrqClear  BY <2>1, <3>2 DEF IrqClear, BusHeld
    <3>3. CASE ~Interrupt
      <4>1. UNCHANGED <<bus, seen>>
        <5>1. CASE Receive  BY <5>1 DEF Receive, DispatchStart, DispatchEnd, worker, chip
        <5>2. CASE Chip  BY <5>2 DEF Chip, ChipFill, ChipSend, ChipBeacon, worker
        <5>3. CASE BeaconTasklet \/ Traffic  BY <5>3 DEF BeaconTasklet, Traffic, worker, chip
        <5>4. CASE \E c \in Chans : Put(c) \/ Signal(c)  BY <5>4 DEF Put, Signal, worker, chip
        <5> QED  BY <1>2, <3>3, <5>1, <5>2, <5>3, <5>4 DEF Elsewhere
      <4> QED  BY <2>1, <4>1 DEF BusHeld
    <3> QED  BY <3>1, <3>2, <3>3 DEF Interrupt
  <2> QED  BY <2>2, <2>3
<1>3. CASE Worker
  <2> USE DEF chip, BeforeRet, BeforeCmd, BeforeBcn, BeforeMgmt, BeforePause, BeforeResume
  <2>1. CASE Start
    <3>1. /\ UNCHANGED <<flags, bus, chan, back, seen>> /\ pc = "idle"
          /\ pc' = IF flags = {} THEN "idle" ELSE "claim"
      BY <2>1 DEF Start
    <3> QED  BY <3>1 DEF Lists, BusHeld, Events, At
  <2>2. CASE Claim
    <3>1. /\ UNCHANGED <<flags, work, chan, back, seen>> /\ pc = "claim" /\ pc' = "bcn1"
          /\ bus = "free" /\ bus' = "work"
      BY <2>2 DEF Claim, signals
    <3> QED  BY <3>1 DEF Lists, BusHeld, Events, At
  <2>3. ASSUME NEW c \in Chans, NEW here \in Stages \ {"idle", "claim", "bcnwait", "write", "reading"},
               NEW next \in Stages \ {"idle", "claim", "bcnwait", "write", "reading"},
               Tx(c, here, next),
               <<c, next>> \in {<<"bcn", "rx">>, <<"cmd", "bcn2">>, <<"bcn", "rx2">>,
                                <<"mgmt", "pause">>, <<"data", "end">>},
               \A S \in {BeforeRet, BeforePause, BeforeResume} : here \in S => next \in S
        PROVE  Lists' /\ BusHeld' /\ Events'
    <3>1. /\ UNCHANGED <<work, bus, seen>> /\ flags' = flags \ {c} /\ pc = here /\ bus = "work"
          /\ (pc' = "write" /\ chan' = c /\ back' = next) \/ pc' = next
      BY <2>3 DEF Tx, BusHeld
    <3>2. At = here /\ At' = next  BY <2>3, <3>1 DEF At
    <3>3. Lists' /\ BusHeld'  BY <2>3, <3>1 DEF Lists, BusHeld
    <3>4. pc' # "idle"  BY <2>3, <3>1
    <3> HIDE DEF BeforeRet, BeforePause, BeforeResume
    <3>5. Events'  BY <2>3, <3>1, <3>2, <3>4 DEF Events
    <3> QED  BY <3>3, <3>5
  <2>4. CASE Handle
    <3>1. /\ "cmd" \in Chans /\ "bcn" \in Chans /\ "mgmt" \in Chans /\ "data" \in Chans
      BY DEF Chans
    <3>2. {"bcn1", "rx", "cmd", "bcn2", "rx2", "mgmt", "pause", "data", "end"}
            \subseteq Stages \ {"idle", "claim", "bcnwait", "write", "reading"}
      BY DEF Stages
    <3>3. CASE Tx("bcn", "bcn1", "rx")  BY <2>3, <3>1, <3>2, <3>3
    <3>4. CASE Tx("cmd", "cmd", "bcn2")  BY <2>3, <3>1, <3>2, <3>4
    <3>5. CASE Tx("bcn", "bcn2", "rx2")  BY <2>3, <3>1, <3>2, <3>5
    <3>6. CASE Tx("mgmt", "mgmt", "pause")  BY <2>3, <3>1, <3>2, <3>6
    <3>7. CASE Tx("data", "data", "end")  BY <2>3, <3>1, <3>2, <3>7
    <3> QED  BY <2>4, <3>3, <3>4, <3>5, <3>6, <3>7 DEF Handle
  <2>5. CASE TxEnd
    <3>1. /\ UNCHANGED <<work, bus, seen>> /\ pc = "write" /\ pc' = back
          /\ flags \subseteq flags' /\ flags' \subseteq flags \cup Chans
      BY <2>5 DEF TxEnd, TypeOK
    <3>2. pc' \notin {"write", "reading", "idle"}  BY <3>1 DEF TypeOK
    <3>3. At' = At  BY <3>1, <3>2 DEF At
    <3>4. \A e \in {"ret", "pause", "resume", "rx"} : e \in flags' => e \in flags
      BY <3>1 DEF Chans
    <3> QED  BY <3>1, <3>2, <3>3, <3>4 DEF Lists, BusHeld, Events
  <2>6. CASE Rx
    <3>1. /\ UNCHANGED <<work, bus, seen>> /\ pc = "rx" /\ flags' = flags \ {"rx"}
          /\ (pc' = "reading" /\ back' = "ret") \/ pc' = "ret"
      BY <2>6 DEF Rx
    <3> QED  BY <3>1 DEF Lists, BusHeld, Events, At
  <2>7. CASE Read
    <3>1. PICK failed : Turn(failed)  BY <2>7, ReadTurn
    <3>2. UNCHANGED <<work, seen>> /\ pc = "reading"  BY <2>7, ReadTurn
    <3>3. bus = "work" /\ back \in {"ret", "mgmt"}  BY <3>2 DEF BusHeld, Lists
    <3>4. CASE pc' = "reading" /\ back' = back /\ bus' = bus
      BY <3>1, <3>2, <3>3, <3>4, TurnPlace DEF Lists, BusHeld, Events, At
    <3>5. CASE pc' = back /\ back' = "end" /\ bus' = bus
      BY <3>1, <3>2, <3>3, <3>5, TurnPlace DEF Lists, BusHeld, Events, At
    <3>6. CASE pc' = "bcnwait" /\ back = "ret" /\ bus' = "free"
      BY <3>1, <3>2, <3>3, <3>6, TurnPlace DEF Lists, BusHeld, Events, At
    <3> QED  BY <3>1, <3>4, <3>5, <3>6, TurnPlace
  <2>8. CASE BeaconWaitEnd
    <3>1. /\ UNCHANGED <<flags, work, seen>> /\ pc = "bcnwait" /\ pc' = "ret" /\ bus = "free" /\ bus' = "work"
      BY <2>8 DEF BeaconWaitEnd, signals
    <3> QED  BY <3>1 DEF Lists, BusHeld, Events, At
  <2>9. CASE PageReturn
    <3>1. /\ UNCHANGED <<work, bus, seen>> /\ pc = "ret" /\ pc' = "cmd" /\ flags' = flags \ {"ret"}
      BY <2>9 DEF PageReturn
    <3> QED  BY <3>1 DEF Lists, BusHeld, Events, At
  <2>10. CASE Rx2
    <3>1. /\ UNCHANGED <<work, bus, seen>> /\ pc = "rx2" /\ flags' = flags \ {"rx"}
          /\ (pc' = "reading" /\ back' = "mgmt") \/ pc' = "mgmt"
      BY <2>10 DEF Rx2
    <3> QED  BY <3>1 DEF Lists, BusHeld, Events, At
  <2>11. CASE Pause
    <3>1. /\ UNCHANGED <<work, bus, seen>> /\ pc = "pause" /\ pc' = "resume"
          /\ flags' \subseteq flags \ {"pause"}
          /\ \A e \in {"rx", "ret"} : e \in flags => e \in flags'
      BY <2>11 DEF Pause
    <3> QED  BY <3>1 DEF Lists, BusHeld, Events, At
  <2>12. CASE Resume
    <3>1. /\ UNCHANGED <<work, bus, seen>> /\ pc = "resume" /\ pc' = "data"
          /\ flags' \subseteq (flags \ {"resume"}) \cup {"data"}
      BY <2>12 DEF Resume
    <3> QED  BY <3>1 DEF Lists, BusHeld, Events, At
  <2>13. CASE End
    <3>1. /\ UNCHANGED <<flags, seen>> /\ pc = "end" /\ pc' = "idle" /\ bus' = "free"
          /\ work' = (work \/ "rx" \in flags)
      BY <2>13 DEF End
    <3> QED  BY <3>1 DEF Lists, BusHeld, Events, At
  <2> QED
    BY <1>3, <2>1, <2>2, <2>4, <2>5, <2>6, <2>7, <2>8, <2>9, <2>10, <2>11, <2>12, <2>13
    DEF Worker
<1>4. CASE UNCHANGED vars
  BY <1>4 DEF vars, signals, worker, chip, Lists, BusHeld, Events, At
<1> QED  BY <1>1, <1>2, <1>3, <1>4, Steps

\* Faults are never forgotten.
LEMMA FaultsStay == TypeOK /\ [Next]_vars => (Faulty => Faulty')
<1> SUFFICES ASSUME TypeOK, [Next]_vars
             PROVE  errors' \in Nat /\ errors' >= errors /\ oversize' \in Nat /\ oversize' >= oversize
  BY DEF Faulty, TypeOK
<1>1. errors \in Nat /\ oversize \in Nat  BY DEF TypeOK
<1>2. CASE Elsewhere  BY <1>1, <1>2, ElsewhereStep DEF faults
<1>3. CASE Write
  <2>1. CASE FetchForCmd  BY <1>1, <2>1 DEF FetchForCmd, faults
  <2>2. CASE WritePage  BY <1>1, <2>2, FailedAdds DEF WritePage
  <2>3. CASE WriteOversize  BY <1>1, <2>3, FailedAdds DEF WriteOversize
  <2>4. CASE WriteError  BY <1>1, <2>4, FailedAdds DEF WriteError
  <2>5. CASE PutError  BY <1>1, <2>5, FailedAdds DEF PutError
  <2> QED  BY <1>3, <2>1, <2>2, <2>3, <2>4, <2>5 DEF Write
<1>4. CASE Worker
  <2>1. CASE Handle  BY <1>1, <2>1 DEF Handle, Tx, faults
  <2>2. CASE Read
    <3>1. oversize' = oversize  BY <2>2, ReadTurn
    <3>2. errors' = errors \/ errors' = errors + 1
      BY <2>2 DEF Read, ReadPage, ReadEmpty, ReadError
    <3> QED  BY <1>1, <3>1, <3>2
  <2>3. CASE PageReturn  BY <1>1, <2>3 DEF PageReturn
  <2>4. CASE ~(Handle \/ Read \/ PageReturn)
    BY <1>1, <1>4, <2>4
    DEF Worker, Start, Claim, TxEnd, Rx, BeaconWaitEnd, Rx2, Pause, Resume, End, faults
  <2> QED  BY <2>1, <2>2, <2>3, <2>4
<1>5. CASE UNCHANGED vars  BY <1>1, <1>5 DEF vars, faults
<1> QED  BY <1>2, <1>3, <1>4, <1>5, Steps

\* What the work's own steps leave alone.
LEMMA WorkerKeeps ==
  ASSUME Worker
  PROVE  /\ UNCHANGED <<irq, seen, populated, unsignalled, lastEv>>
         /\ ~Start => (work => work')
         /\ ~PageReturn => UNCHANGED <<reserved, cached, free, lost>>
                           /\ ("ret" \in flags => "ret" \in flags')
         /\ ~Rx /\ ~Rx2 => ("rx" \in flags => "rx" \in flags')
         /\ ~Read => UNCHANGED toHost
         /\ ~Rx2 => UNCHANGED rxCleared
<1> USE DEF senders, signals, pages, chip, traffic
<1>1. CASE Start \/ Claim  BY <1>1 DEF Start, Claim, Rx, Rx2, Read
<1>2. CASE Handle
  <2>1. ASSUME NEW c \in Chans, NEW here, NEW next, Tx(c, here, next)
        PROVE  /\ UNCHANGED <<irq, seen, toHost, pages, unsignalled, lastEv, work, rxCleared>>
               /\ flags \cap {"rx", "ret"} \subseteq flags'
    BY <2>1 DEF Tx, Chans
  <2>2. "cmd" \in Chans /\ "bcn" \in Chans /\ "mgmt" \in Chans /\ "data" \in Chans
    BY DEF Chans
  <2>3. /\ UNCHANGED <<irq, seen, toHost, pages, unsignalled, lastEv, work, rxCleared>>
        /\ flags \cap {"rx", "ret"} \subseteq flags'
    BY <1>2, <2>1, <2>2 DEF Handle
  <2> QED  BY <2>3
<1>3. CASE TxEnd  BY <1>3 DEF TxEnd
<1>4. CASE Rx \/ Rx2  BY <1>4 DEF Rx, Rx2
<1>5. CASE Read
  <2>1. flags \subseteq flags'  BY <1>5, ReadTurn DEF Turn
  <2> QED  BY <1>5, <2>1, ReadTurn
<1>6. CASE BeaconWaitEnd \/ PageReturn  BY <1>6 DEF BeaconWaitEnd, PageReturn
<1>7. CASE Pause
  <2>1. flags \cap {"rx", "ret"} \subseteq flags'  BY <1>7 DEF Pause
  <2> QED  BY <1>7, <2>1 DEF Pause
<1>8. CASE Resume
  <2>1. flags \cap {"rx", "ret"} \subseteq flags'  BY <1>8 DEF Resume
  <2> QED  BY <1>8, <2>1 DEF Resume
<1>9. CASE End  BY <1>9 DEF End
<1> QED  BY <1>1, <1>2, <1>3, <1>4, <1>5, <1>6, <1>7, <1>8, <1>9 DEF Worker

\* The interrupt handler and the chip lose no event: what IrqClear clears has
\* been served.
LEMMA IrqKept ==
  ASSUME BusHeld, Elsewhere, NEW e \in {"rx", "ret"}
  PROVE  e \in irq \/ e \in flags => e \in irq' \/ e \in flags'
<1>1. flags \subseteq flags'  BY ElsewhereStep
<1>2. CASE IrqClear  BY <1>1, <1>2 DEF IrqClear, BusHeld
<1>3. CASE ~IrqClear
  <2>1. irq \subseteq irq'
    <3>1. CASE IrqRead  BY <3>1 DEF IrqRead
    <3>2. CASE Receive  BY <3>2 DEF Receive, DispatchStart, DispatchEnd, chip
    <3>3. CASE Chip  BY <3>3 DEF Chip, ChipFill, ChipSend, ChipBeacon
    <3>4. CASE BeaconTasklet \/ Traffic  BY <3>4 DEF BeaconTasklet, Traffic, chip
    <3>5. CASE \E c \in Chans : Put(c) \/ Signal(c)  BY <3>5 DEF Put, Signal, chip
    <3> QED  BY <1>3, <3>1, <3>2, <3>3, <3>4, <3>5 DEF Elsewhere, Interrupt
  <2> QED  BY <1>1, <2>1
<1> QED  BY <1>2, <1>3

\* Refill leaves no page with the chip, so that it need not run again.
LEMMA RefillAll ==
  ASSUME TypeOK, PagesConserved, Refill
  PROVE  free' = 0
<1> DEFINE r == Min2(free, CmdRsvedPagesMax - reserved)
           n == IF 2 * CachedPagesMax > r THEN Min2(free - r, 2 * CachedPagesMax - r) ELSE 0
<1> USE PagesetAssumption
<1>1. /\ reserved \in Nat /\ cached \in Nat /\ populated \in Nat /\ free \in Nat /\ lost \in Nat
      /\ CmdRsvedPagesMax \in Nat /\ CachedPagesMax \in Nat /\ NumPages \in Nat
      /\ NumPages <= CmdRsvedPagesMax + CachedPagesMax
      /\ CmdRsvedPagesMax <= CachedPagesMax /\ CachedPagesMax > 0
  BY DEF TypeOK
<1>2. r \in Nat /\ r <= free /\ r <= CmdRsvedPagesMax
      /\ (r < free => reserved + r = CmdRsvedPagesMax)
  BY <1>1 DEF PagesConserved, Min2
<1>3. free' = free - r - n  BY DEF Refill
<1>4. n = free - r
  <2> HIDE DEF r
  <2>1. CASE r = free  BY <1>1, <1>2, <2>1 DEF Min2
  <2>2. CASE r < free
    <3>1. reserved + r = CmdRsvedPagesMax  BY <1>2, <2>2
    <3>2. free - r <= CachedPagesMax
      BY <1>1, <1>2, <3>1 DEF PagesConserved
    <3>3. 2 * CachedPagesMax - r >= CachedPagesMax /\ 2 * CachedPagesMax > r
      BY <1>1, <1>2
    <3> QED  BY <1>1, <1>2, <3>2, <3>3 DEF Min2
  <2> QED  BY <1>1, <1>2, <2>1, <2>2
<1> HIDE DEF r, n
<1> QED  BY <1>1, <1>2, <1>3, <1>4

-----------------------------------------------------------------------------
\* A page the chip is done with, or a page it filled, has an event.
FreeComing == free > 0 => Faulty \/ "ret" \in irq \/ "ret" \in flags
RxComing ==
    toHost > 0 => rxCleared \/ Faulty \/ "rx" \in irq \/ "rx" \in flags \/ pc = "reading"

LEMMA StepFree == Placed /\ Place /\ FreeComing /\ [Next]_vars => FreeComing'
<1> SUFFICES ASSUME TypeOK, PagesConserved, BusHeld, FreeComing, [Next]_vars, ~Faulty'
             PROVE  free' > 0 => "ret" \in irq' \/ "ret" \in flags'
  BY DEF FreeComing, Placed, Place
<1>1. ~Faulty  BY FaultsStay
<1>2. free \in Nat  BY DEF TypeOK
<1>3. CASE Elsewhere
  <2>1. CASE ChipSend  BY <2>1 DEF ChipSend
  <2>2. CASE ~ChipSend
    <3>1. free' = free
      <4>1. CASE Interrupt  BY <4>1 DEF Interrupt, IrqRead, IrqClear, pages
      <4>2. CASE Receive  BY <4>2 DEF Receive, DispatchStart, DispatchEnd, pages
      <4>3. CASE ChipFill \/ ChipBeacon  BY <4>3 DEF ChipFill, ChipBeacon, pages
      <4>4. CASE BeaconTasklet \/ Traffic  BY <4>4 DEF BeaconTasklet, Traffic, pages
      <4>5. CASE \E c \in Chans : Put(c) \/ Signal(c)  BY <4>5 DEF Put, Signal, pages
      <4> QED  BY <1>3, <2>2, <4>1, <4>2, <4>3, <4>4, <4>5 DEF Elsewhere, Chip
    <3> QED  BY <1>1, <1>3, <3>1, IrqKept DEF FreeComing
  <2> QED  BY <2>1, <2>2
<1>4. CASE Write
  <2>1. free' \in Nat /\ free' <= free
    <3>1. CASE FetchForCmd
      BY <3>1, <1>2, RefillKeeps DEF FetchForCmd, TypeOK
    <3>2. CASE ~FetchForCmd
      BY <1>2, <1>4, <3>2 DEF Write, WritePage, WriteOversize, WriteError, PutError, WriteStep
    <3> QED  BY <3>1, <3>2
  <2>2. UNCHANGED <<flags, irq>>  BY <1>4, WriteKeeps DEF chip
  <2> QED  BY <1>1, <1>2, <2>1, <2>2 DEF FreeComing
<1>5. CASE Worker
  <2>1. irq' = irq  BY <1>5, WorkerKeeps
  <2>2. CASE PageReturn
    <3>1. CASE "ret" \notin flags
      <4>1. free' = free  BY <2>2, <3>1 DEF PageReturn
      <4> QED  BY <1>1, <2>1, <3>1, <4>1 DEF FreeComing
    <3>2. CASE "ret" \in flags
      <4>1. Refill
        <5>1. ~(errors' = errors + 1)  BY <1>1 DEF Faulty, TypeOK
        <5> QED  BY <2>2, <3>2, <5>1 DEF PageReturn
      <4> QED  BY <4>1, RefillAll
    <3> QED  BY <3>1, <3>2
  <2>3. CASE ~PageReturn
    <3>1. free' = free /\ ("ret" \in flags => "ret" \in flags')
      BY <1>5, <2>3, WorkerKeeps
    <3> QED  BY <1>1, <2>1, <3>1 DEF FreeComing
  <2> QED  BY <2>2, <2>3
<1>6. CASE UNCHANGED vars
  BY <1>1, <1>6 DEF vars, signals, pages, chip, FreeComing
<1> QED  BY <1>3, <1>4, <1>5, <1>6, Steps

LEMMA StepRx == TypeOK /\ Place /\ RxComing /\ [Next]_vars => RxComing'
<1> SUFFICES ASSUME TypeOK, BusHeld, RxComing, [Next]_vars, ~Faulty', ~rxCleared', toHost' > 0
             PROVE  "rx" \in irq' \/ "rx" \in flags' \/ pc' = "reading"
  BY DEF RxComing, Place
<1>1. ~Faulty  BY FaultsStay
<1>2. toHost \in Nat  BY DEF TypeOK
<1>3. CASE Elsewhere
  <2>1. CASE ChipFill  BY <2>1 DEF ChipFill
  <2>2. CASE ~ChipFill
    <3>1. toHost' = toHost
      <4>1. CASE Interrupt  BY <4>1 DEF Interrupt, IrqRead, IrqClear
      <4>2. CASE Receive  BY <4>2 DEF Receive, DispatchStart, DispatchEnd, chip
      <4>3. CASE ChipSend \/ ChipBeacon  BY <4>3 DEF ChipSend, ChipBeacon
      <4>4. CASE BeaconTasklet \/ Traffic  BY <4>4 DEF BeaconTasklet, Traffic, chip
      <4>5. CASE \E c \in Chans : Put(c) \/ Signal(c)  BY <4>5 DEF Put, Signal, chip
      <4> QED  BY <1>3, <2>2, <4>1, <4>2, <4>3, <4>4, <4>5 DEF Elsewhere, Chip
    <3>2. pc' = pc /\ rxCleared' = rxCleared  BY <1>3, ElsewhereStep
    <3> QED  BY <1>1, <1>3, <3>1, <3>2, IrqKept DEF RxComing
  <2> QED  BY <2>1, <2>2
<1>4. CASE Write
  BY <1>1, <1>4, WriteKeeps DEF RxComing, chip
<1>5. CASE Worker
  <2>1. irq' = irq  BY <1>5, WorkerKeeps
  <2>2. CASE Read
    <3>1. CASE ReadPage
      <4>1. Turn(FALSE)  BY <3>1 DEF ReadPage, ReadStep
      <4> QED  BY <4>1, TurnPlace
    <3>2. CASE ReadEmpty  BY <3>2 DEF ReadEmpty
    <3>3. CASE ReadError  BY <3>3 DEF ReadError, Faulty, TypeOK
    <3> QED  BY <2>2, <3>1, <3>2, <3>3 DEF Read
  <2>3. CASE Rx
    <3>1. /\ UNCHANGED <<toHost, rxCleared>> /\ pc = "rx"
          /\ "rx" \in flags => pc' = "reading"
      BY <2>3 DEF Rx, chip
    <3> QED  BY <1>1, <2>1, <3>1 DEF RxComing
  <2>4. CASE Rx2
    <3>1. /\ toHost' = toHost /\ pc = "rx2"
          /\ rxCleared' = (rxCleared \/ ("rx" \in flags /\ ~bcnPend /\ toHost > 0))
          /\ "rx" \in flags /\ bcnPend => pc' = "reading"
      BY <2>4 DEF Rx2, chip
    <3> QED  BY <1>1, <2>1, <3>1 DEF RxComing
  <2>5. CASE ~Read /\ ~Rx /\ ~Rx2
    <3>1. UNCHANGED <<toHost, rxCleared>> /\ ("rx" \in flags => "rx" \in flags')
      BY <1>5, <2>5, WorkerKeeps
    <3>2. pc # "reading"
      BY <1>5, <2>5 DEF Worker, Start, Claim, Handle, Tx, TxEnd, BeaconWaitEnd, PageReturn,
                        Pause, Resume, End
    <3> QED  BY <1>1, <2>1, <3>1, <3>2 DEF RxComing
  <2> QED  BY <2>2, <2>3, <2>4, <2>5
<1>6. CASE UNCHANGED vars
  <2>1. UNCHANGED <<flags, irq, pc, toHost, rxCleared>>
    BY <1>6 DEF vars, signals, worker, chip
  <2> QED  BY <1>1, <2>1 DEF RxComing
<1> QED  BY <1>3, <1>4, <1>5, <1>6, Steps

-----------------------------------------------------------------------------
\* What the driver made of the chip's traffic control events: it follows the
\* last one, or is going to, or has logged that it was too slow.
Flow ==
    \/ late \/ {"pause", "resume"} \subseteq flags
    \/ /\ "pause" \in flags => lastEv = "pause"
       /\ "resume" \in flags => lastEv = "resume"
       /\ flags \cap {"pause", "resume"} = {} => stopped = (lastEv = "pause")

\* Data waits for the chip, and not for a wakeup.
Blocked(c) == c = "data" /\ (~Allowed \/ late)

\* The steps that leave the traffic control events alone.
LEMMA FlowStays ==
  ASSUME TypeOK, Lists, Worker \/ Elsewhere, ~Pause, ~Resume, ~Traffic
  PROVE  /\ UNCHANGED <<stopped, lastEv, late>>
         /\ \A e \in {"pause", "resume"} : e \in flags' <=> e \in flags
<1> USE DEF signals, chip, traffic
<1>1. CASE Start \/ Claim \/ BeaconWaitEnd \/ PageReturn \/ End
  BY <1>1 DEF Start, Claim, BeaconWaitEnd, PageReturn, End
<1>2. CASE Handle
  <2>1. ASSUME NEW c \in Chans, NEW here, NEW next, Tx(c, here, next)
        PROVE  /\ UNCHANGED <<stopped, lastEv, late>>
               /\ \A e \in {"pause", "resume"} : e \in flags' <=> e \in flags
    BY <2>1 DEF Tx, Chans
  <2>2. "cmd" \in Chans /\ "bcn" \in Chans /\ "mgmt" \in Chans /\ "data" \in Chans
    BY DEF Chans
  <2> QED  BY <1>2, <2>1, <2>2 DEF Handle
<1>3. CASE TxEnd  BY <1>3 DEF TxEnd, Lists
<1>4. CASE Rx \/ Rx2  BY <1>4 DEF Rx, Rx2
<1>5. CASE Read
  <2>1. UNCHANGED <<stopped, lastEv, late>>  BY <1>5, ReadTurn
  <2>2. flags' = flags \/ flags' = flags \cup {"rx"}  BY <1>5, ReadTurn DEF Turn
  <2> QED  BY <2>1, <2>2
<1>6. CASE Interrupt  BY <1>6 DEF Interrupt, IrqRead, IrqClear
<1>7. CASE Receive  BY <1>7 DEF Receive, DispatchStart, DispatchEnd
<1>8. CASE Chip  BY <1>8 DEF Chip, ChipFill, ChipSend, ChipBeacon
<1>9. CASE BeaconTasklet  BY <1>9 DEF BeaconTasklet
<1>10. CASE \E c \in Chans : Put(c) \/ Signal(c)
  BY <1>10 DEF Put, Signal, Chans
<1> QED
  BY <1>1, <1>2, <1>3, <1>4, <1>5, <1>6, <1>7, <1>8, <1>9, <1>10 DEF Worker, Elsewhere

\* A pause that is dropped with the resume behind it is logged.
LEMMA PauseStep ==
  ASSUME Pause
  PROVE  /\ lastEv' = lastEv /\ (late => late')
         /\ \/ {"pause", "resume"} \subseteq flags /\ late'
            \/ /\ "pause" \in flags /\ "resume" \notin flags
               /\ stopped' /\ flags' \cap {"pause", "resume"} = {}
            \/ "pause" \notin flags /\ flags' = flags /\ stopped' = stopped
BY DEF Pause

LEMMA ResumeStep ==
  ASSUME Resume
  PROVE  /\ lastEv' = lastEv /\ (late => late')
         /\ \/ {"pause", "resume"} \subseteq flags /\ late'
            \/ /\ "resume" \in flags /\ "pause" \notin flags
               /\ ~stopped' /\ flags' \cap {"pause", "resume"} = {} /\ "data" \in flags'
            \/ "resume" \notin flags /\ flags' = flags /\ stopped' = stopped
BY DEF Resume

LEMMA StepFlow == TypeOK /\ Lists /\ Flow /\ [Next]_vars => Flow'
<1> SUFFICES ASSUME TypeOK, Lists, Flow, [Next]_vars PROVE Flow'  OBVIOUS
<1>1. lastEv \in {"pause", "resume"} /\ stopped \in BOOLEAN  BY DEF TypeOK
<1>2. CASE (Worker \/ Elsewhere) /\ ~Pause /\ ~Resume /\ ~Traffic
  BY <1>2, FlowStays DEF Flow
<1>3. CASE Pause
  <2>1. CASE late \/ {"pause", "resume"} \subseteq flags  BY <1>3, <2>1, PauseStep DEF Flow
  <2>2. CASE ~(late \/ {"pause", "resume"} \subseteq flags)
    <3>1. lastEv = "pause" \/ "pause" \notin flags  BY <2>2 DEF Flow
    <3> QED  BY <1>1, <1>3, <2>2, <3>1, PauseStep DEF Flow
  <2> QED  BY <2>1, <2>2
<1>4. CASE Resume
  <2>1. CASE late \/ {"pause", "resume"} \subseteq flags  BY <1>4, <2>1, ResumeStep DEF Flow
  <2>2. CASE ~(late \/ {"pause", "resume"} \subseteq flags)
    <3>1. CASE "resume" \notin flags
      <4>1. UNCHANGED <<lastEv, flags, stopped>>  BY <1>4, <3>1, ResumeStep
      <4> QED  BY <2>2, <4>1 DEF Flow
    <3>2. CASE "resume" \in flags
      <4>1. lastEv' = "resume"  BY <1>4, <2>2, <3>2, ResumeStep DEF Flow
      <4>2. stopped' = FALSE /\ flags' \cap {"pause", "resume"} = {}
        BY <1>4, <2>2, <3>2 DEF Resume
      <4>3. stopped' = (lastEv' = "pause")  BY <4>1, <4>2
      <4> QED  BY <4>2, <4>3 DEF Flow
    <3> QED  BY <3>1, <3>2
  <2> QED  BY <2>1, <2>2
<1>5. CASE Traffic
  <2>1. /\ lastEv' = (IF lastEv = "resume" THEN "pause" ELSE "resume")
        /\ flags' = flags \cup {lastEv'} /\ late' = late
    BY <1>5 DEF Traffic
  <2> QED  BY <1>1, <2>1 DEF Flow
<1>6. CASE Write  BY <1>6, WriteKeeps DEF traffic, Flow
<1>7. CASE UNCHANGED vars  BY <1>7 DEF vars, traffic, signals, Flow
<1> QED  BY <1>2, <1>3, <1>4, <1>5, <1>6, <1>7, Steps

\* Data that is held back is held back until its queue is signalled again.
LEMMA BlockedStays ==
  ASSUME TypeOK, Lists, Worker \/ Elsewhere, ~Resume, NEW c, Blocked(c)
  PROVE  Blocked(c)'
<1>1. CASE ~Pause /\ ~Traffic  BY <1>1, FlowStays DEF Blocked, Allowed
<1>2. CASE Pause  BY <1>2, PauseStep DEF Blocked, Allowed
<1>3. CASE Traffic  BY <1>3 DEF Traffic, Blocked, Allowed
<1> QED  BY <1>1, <1>2, <1>3

-----------------------------------------------------------------------------
\* A packet that was signalled has its event set, or its queue is being sent
\* from; and the work is going to come to the handler, or pages are going to
\* return, or there is no page.
Left(c) == q[c] > 0 /\ unsignalled[c] = 0
RetComing == populated > 0 \/ "ret" \in irq \/ "ret" \in flags
Flagged(c) == c \in flags \/ (pc = "write" /\ chan = c) \/ Blocked(c)
Coming(c) ==
    \/ work \/ At \in Before(c) \/ RetComing \/ cached = 0
    \/ (pc = "write" /\ chan = c /\ sending > 0) \/ Blocked(c)
QueuesComing == \A c \in Chans : Left(c) => Faulty \/ (Flagged(c) /\ Coming(c))

\* Where every handler is still to come.
LEMMA AllBefore ==
  ASSUME NEW c \in Chans
  PROVE  /\ BeforeCmd \subseteq Before(c)
         /\ c # "cmd" => "bcn2" \in Before(c)
         /\ "idle" \notin Before(c) /\ "end" \notin Before(c) /\ "write" \notin Before(c)
BY DEF Chans, Before, BeforeRet, BeforeCmd, BeforeBcn, BeforeMgmt, BeforePause,
       BeforeResume, BeforeData

LEMMA ElsewhereQueues ==
  ASSUME TypeOK, Place, QueuesComing, Elsewhere, ~Faulty', NEW c \in Chans, Left(c)'
  PROVE  Flagged(c)' /\ Coming(c)'
<1> USE DEF senders, signals, worker, pages, chip
<1>1. /\ UNCHANGED <<pc, chan, sending, cached>>
      /\ flags \subseteq flags' /\ (work => work') /\ At' = At
  BY ElsewhereStep
<1>2. Blocked(c) => Blocked(c)'
  <2>1. ~Resume  BY <1>1 DEF Resume
  <2> QED  BY <2>1, BlockedStays DEF Place
<1>3. RetComing => RetComing'
  <2>1. CASE ChipSend  BY <2>1 DEF ChipSend, RetComing
  <2>2. CASE ~ChipSend
    <3>1. populated' = populated
      <4>1. CASE Interrupt  BY <4>1 DEF Interrupt, IrqRead, IrqClear
      <4>2. CASE Receive  BY <4>2 DEF Receive, DispatchStart, DispatchEnd
      <4>3. CASE ChipFill \/ ChipBeacon  BY <4>3 DEF ChipFill, ChipBeacon
      <4>4. CASE BeaconTasklet \/ Traffic  BY <4>4 DEF BeaconTasklet, Traffic
      <4>5. CASE \E d \in Chans : Put(d) \/ Signal(d)  BY <4>5 DEF Put, Signal
      <4> QED  BY <2>2, <4>1, <4>2, <4>3, <4>4, <4>5 DEF Elsewhere, Chip
    <3>2. "ret" \in irq \/ "ret" \in flags => "ret" \in irq' \/ "ret" \in flags'
      BY IrqKept DEF Place
    <3> QED  BY <3>1, <3>2 DEF RetComing
  <2> QED  BY <2>1, <2>2
<1>4. Flagged(c) /\ Coming(c) => Flagged(c)' /\ Coming(c)'
  <2>1. Flagged(c) => Flagged(c)'  BY <1>1, <1>2 DEF Flagged
  <2>2. Coming(c) => Coming(c)'  BY <1>1, <1>2, <1>3 DEF Coming, Before
  <2> QED  BY <2>1, <2>2
<1>5. ~Faulty  BY ElsewhereStep DEF Faulty, faults
<1>6. Left(c) => Flagged(c)' /\ Coming(c)'  BY <1>4, <1>5 DEF QueuesComing
<1>7. q \in [Chans -> Nat] /\ unsignalled \in [Chans -> Nat]  BY DEF TypeOK
<1>8. ASSUME NEW d \in Chans, Put(d)  PROVE Left(c)
  <2>1. /\ q' = [q EXCEPT ![d] = @ + 1]
        /\ unsignalled' = [unsignalled EXCEPT ![d] = @ + 1]
    BY <1>8 DEF Put
  <2> QED  BY <1>7, <2>1 DEF Left
<1>9. ASSUME NEW d \in Chans, Signal(d)  PROVE Left(c) \/ (Flagged(c)' /\ Coming(c)')
  <2>1. q' = q /\ unsignalled' = [unsignalled EXCEPT ![d] = @ - 1]  BY <1>9 DEF Signal
  <2>2. CASE d # c  BY <1>7, <2>1, <2>2 DEF Left
  <2>3. CASE d = c /\ (c # "data" \/ Allowed)
    <3>1. c \in flags' /\ work'  BY <1>9, <2>3 DEF Signal
    <3> QED  BY <3>1 DEF Flagged, Coming
  <2>4. CASE d = c /\ c = "data" /\ ~Allowed
    <3>1. Blocked(c)'  BY <1>2, <2>4 DEF Blocked
    <3> QED  BY <3>1 DEF Flagged, Coming
  <2> QED  BY <2>2, <2>3, <2>4
<1>10. CASE BeaconTasklet
  <2>1. /\ q' = [q EXCEPT !["bcn"] = @ + 1] /\ unsignalled' = unsignalled
        /\ "bcn" \in flags' /\ work'
    BY <1>10 DEF BeaconTasklet
  <2>2. CASE c = "bcn"  BY <2>1, <2>2 DEF Flagged, Coming
  <2>3. CASE c # "bcn"
    <3>1. Left(c)  BY <1>7, <2>1, <2>3 DEF Left
    <3> QED  BY <1>6, <3>1
  <2> QED  BY <2>2, <2>3
<1>11. CASE Interrupt \/ Receive \/ Chip \/ Traffic
  <2>1. UNCHANGED <<q, unsignalled>>
    <3>1. CASE Interrupt  BY <3>1 DEF Interrupt, IrqRead, IrqClear
    <3>2. CASE Receive  BY <3>2 DEF Receive, DispatchStart, DispatchEnd
    <3>3. CASE Chip  BY <3>3 DEF Chip, ChipFill, ChipSend, ChipBeacon
    <3>4. CASE Traffic  BY <3>4 DEF Traffic
    <3> QED  BY <1>11, <3>1, <3>2, <3>3, <3>4
  <2> QED  BY <1>6, <2>1 DEF Left
<1> QED  BY <1>6, <1>8, <1>9, <1>10, <1>11 DEF Elsewhere

LEMMA WriteQueues ==
  ASSUME TypeOK, Place, QueuesComing, Write, ~Faulty', NEW c \in Chans, Left(c)'
  PROVE  Flagged(c)' /\ Coming(c)'
<1>1. /\ UNCHANGED <<q, unsignalled, flags, work, pc, chan, irq>>
      /\ pc = "write" /\ sending > 0 /\ At' = At
  BY WriteKeeps DEF chip
<1>2. Blocked(c) <=> Blocked(c)'  BY <1>1, WriteKeeps DEF Blocked, Allowed, traffic
<1>3. ~Faulty  BY FaultsStay, Steps DEF Next, Pass
<1>4. Flagged(c) /\ Coming(c)  BY <1>1, <1>3 DEF QueuesComing, Left
<1>5. Flagged(c)'  BY <1>1, <1>2, <1>4 DEF Flagged
<1>6. CASE FetchForCmd
  <2>1. chan = "cmd" /\ sending' = sending  BY <1>6 DEF FetchForCmd, worker
  <2>2. At = "bcn2"  BY <1>1, <2>1 DEF Place, Lists, At
  <2>3. CASE c = "cmd"  BY <1>1, <1>5, <2>1, <2>3 DEF Coming
  <2>4. CASE c # "cmd"
    <3>1. "bcn2" \in Before(c)  BY <2>4, AllBefore
    <3> QED  BY <1>1, <1>5, <2>2, <3>1 DEF Coming, Before
  <2> QED  BY <2>3, <2>4
<1>7. CASE WritePage
  <2>1. populated' > 0  BY <1>7 DEF WritePage, TypeOK
  <2> QED  BY <1>5, <2>1 DEF Coming, RetComing
<1>8. ~WriteOversize /\ ~WriteError /\ ~PutError
  <2>1. errors \in Nat /\ oversize \in Nat /\ ~(errors' > 0) /\ ~(oversize' > 0)
    BY DEF Faulty, TypeOK
  <2>2. ~WriteOversize  BY <2>1 DEF WriteOversize
  <2>3. ~Failed(1) /\ ~Failed(2)  BY <2>1, FailedAdds
  <2> QED  BY <2>2, <2>3 DEF WriteError, PutError
<1> QED  BY <1>6, <1>7, <1>8 DEF Write

\* A step of the work that leaves the queues, the events of the packets and the
\* cached pages alone, and goes no further than the next handler.
LEMMA Onward ==
  ASSUME TypeOK, QueuesComing, ~Faulty, NEW c \in Chans, Left(c)',
         UNCHANGED <<q, unsignalled, cached, populated, irq>>,
         flags \cap (Chans \cup {"ret"}) \subseteq flags', work => work',
         pc # "write", At \in Before(c) => At' \in Before(c), Blocked(c) => Blocked(c)'
  PROVE  Flagged(c)' /\ Coming(c)'
<1>1. Flagged(c) /\ Coming(c)  BY DEF QueuesComing, Left
<1>2. c \in flags \/ Blocked(c)  BY <1>1 DEF Flagged
<1>3. Flagged(c)'  BY <1>2 DEF Flagged
<1>4. RetComing => RetComing'  BY DEF RetComing
<1>5. Coming(c)'  BY <1>1, <1>4 DEF Coming, Before
<1> QED  BY <1>3, <1>5

\* The handler of the event of a queue.
LEMMA TxQueues ==
  ASSUME TypeOK, Place, PagesConserved, QueuesComing, ~Faulty, NEW c \in Chans, Left(c)',
         NEW d \in Chans, NEW here \in Stages \ {"write", "reading"},
         NEW next \in Stages \ {"write", "reading"}, Tx(d, here, next),
         c # d => (here \in Before(c) => next \in Before(c)),
         Blocked(c) => Blocked(c)'
  PROVE  Flagged(c)' /\ Coming(c)'
<1> USE DEF pages, chip
<1>1. /\ UNCHANGED <<unsignalled, work, cached, reserved, populated, irq>>
      /\ flags' = flags \ {d} /\ pc = here
      /\ (pc' = "write" /\ back' = next) \/ pc' = next
  BY DEF Tx
<1>2. At = here /\ At' = next  BY <1>1 DEF At
<1>3. CASE d \in flags /\ (d = "data" => Allowed)
  <2>1. PICK aged \in (IF d = "mgmt" THEN 0 .. q[d] ELSE {0}) :
          /\ sending' = Min2(NumPagesFor(d), q[d] - aged)
          /\ q' = [q EXCEPT ![d] = @ - aged - sending']
          /\ chan' = d /\ pc' = "write"
    BY <1>3 DEF Tx
  <2>2. CASE c = d
    <3>1. Flagged(c)'  BY <2>1, <2>2 DEF Flagged
    <3>2. CASE sending' > 0  BY <2>1, <2>2, <3>1, <3>2 DEF Coming
    <3>3. CASE ~(sending' > 0)
      <4>1. q[d] \in Nat /\ aged \in 0 .. q[d]  BY <2>1 DEF TypeOK
      <4>2. q'[d] = q[d] - aged - sending'  BY <2>1 DEF TypeOK
      <4>3. /\ reserved \in Nat /\ cached \in Nat /\ TxTxn \in Nat \ {0}
            /\ CmdRsvedPagesMax \in {1, 2}
        BY PagesetAssumption DEF TypeOK
      <4>4. NumPagesFor(d) \in Nat /\ (NumPagesFor(d) = 0 => cached = 0)
        BY <4>3 DEF NumPagesFor, Min2
      <4>5. q'[d] > 0  BY <2>2 DEF Left
      <4>6. sending' = 0
        <5> HIDE DEF NumPagesFor
        <5> QED  BY <2>1, <3>3, <4>1, <4>4 DEF Min2
      <4>7. q[d] - aged > 0  BY <4>1, <4>2, <4>5, <4>6
      <4>8. NumPagesFor(d) = 0
        <5> HIDE DEF NumPagesFor
        <5> QED  BY <2>1, <4>1, <4>4, <4>6, <4>7 DEF Min2
      <4> QED  BY <1>1, <3>1, <4>4, <4>8 DEF Coming
    <3> QED  BY <3>2, <3>3
  <2>3. CASE c # d
    <3>1. Left(c)  BY <1>1, <2>1, <2>3 DEF Left, TypeOK
    <3>2. Flagged(c) /\ Coming(c)  BY <3>1 DEF QueuesComing
    <3>3. c \in flags \/ Blocked(c)  BY <1>1, <3>2 DEF Flagged
    <3>4. Flagged(c)'  BY <1>1, <2>3, <3>3 DEF Flagged
    <3>5. RetComing => RetComing'  BY <1>1 DEF RetComing, Chans
    <3>6. Coming(c)'  BY <1>1, <1>2, <2>3, <3>2, <3>5 DEF Coming, Before
    <3> QED  BY <3>4, <3>6
  <2> QED  BY <2>2, <2>3
<1>4. CASE ~(d \in flags /\ (d = "data" => Allowed))
  <2>1. UNCHANGED q /\ pc' = next  BY <1>4 DEF Tx
  <2>2. Left(c)  BY <1>1, <2>1 DEF Left
  <2>3. Flagged(c) /\ Coming(c)  BY <2>2 DEF QueuesComing
  <2>4. c \in flags \/ Blocked(c)  BY <1>1, <2>3 DEF Flagged
  <2>5. CASE Blocked(c)
    <3>1. Blocked(c)'  BY <2>5
    <3> QED  BY <3>1 DEF Flagged, Coming
  <2>6. CASE ~Blocked(c)
    <3>1. c # d  BY <1>4, <2>4, <2>6 DEF Blocked
    <3>2. Flagged(c)'  BY <1>1, <2>4, <2>6, <3>1 DEF Flagged
    <3>3. RetComing => RetComing'  BY <1>1 DEF RetComing, Chans
    <3>4. Coming(c)'  BY <1>1, <1>2, <2>3, <2>6, <3>1, <3>3 DEF Coming, Before
    <3> QED  BY <3>2, <3>4
  <2> QED  BY <2>5, <2>6
<1> QED  BY <1>3, <1>4

LEMMA WorkerQueues ==
  ASSUME TypeOK, Place, PagesConserved, QueuesComing, Worker, ~Faulty', NEW c \in Chans, Left(c)'
  PROVE  Flagged(c)' /\ Coming(c)'
<1> USE DEF senders, signals, pages, chip
<1>1. ~Faulty  BY FaultsStay, Steps DEF Worker, Next, Pass, Handle
<1>2. ~Resume => (Blocked(c) => Blocked(c)')  BY BlockedStays DEF Place
<1>3. {"claim", "bcn1", "rx", "bcnwait", "ret", "cmd"} \subseteq Before(c)
  BY AllBefore DEF BeforeCmd, BeforeRet
<1>4. CASE Start
  <2>1. /\ UNCHANGED <<q, unsignalled, flags, chan>> /\ pc = "idle"
        /\ pc' = IF flags = {} THEN "idle" ELSE "claim"
    BY <1>4 DEF Start
  <2>2. Flagged(c)  BY <1>1, <2>1 DEF QueuesComing, Left
  <2>3. c \in flags \/ Blocked(c)  BY <2>1, <2>2 DEF Flagged
  <2>4. ~Resume  BY <2>1 DEF Resume
  <2>5. CASE Blocked(c)
    <3>1. Blocked(c)'  BY <1>2, <2>4, <2>5
    <3> QED  BY <3>1 DEF Flagged, Coming
  <2>6. CASE ~Blocked(c)
    <3>1. c \in flags' /\ At' = "claim"  BY <2>1, <2>3, <2>6 DEF At
    <3> QED  BY <1>3, <3>1 DEF Flagged, Coming, Before
  <2> QED  BY <2>5, <2>6
<1>5. CASE Claim
  <2>1. /\ UNCHANGED <<q, unsignalled, cached, populated, irq, flags, work>>
        /\ pc = "claim" /\ At' = "bcn1"
    BY <1>5 DEF Claim, At
  <2>2. ~Resume  BY <2>1 DEF Resume
  <2> QED  BY <1>1, <1>2, <1>3, <2>1, <2>2, Onward DEF Before
<1>6. CASE Handle
  <2>1. /\ {"cmd", "bcn", "mgmt", "data"} \subseteq Chans
        /\ {"bcn1", "rx", "cmd", "bcn2", "rx2", "mgmt", "pause", "data", "end"}
             \subseteq Stages \ {"write", "reading"}
    BY DEF Chans, Stages
  <2> USE DEF Before, BeforeData, BeforeResume, BeforePause, BeforeMgmt, BeforeBcn, BeforeCmd,
              BeforeRet
  <2>2. CASE Tx("bcn", "bcn1", "rx")
    <3>1. ~Resume  BY <2>2 DEF Tx, Resume
    <3> QED  BY <1>1, <1>2, <1>3, <2>1, <2>2, <3>1, TxQueues
  <2>3. CASE Tx("cmd", "cmd", "bcn2")
    <3>1. ~Resume  BY <2>3 DEF Tx, Resume
    <3>2. c # "cmd" => "bcn2" \in Before(c)  BY AllBefore
    <3> QED  BY <1>1, <1>2, <2>1, <2>3, <3>1, <3>2, TxQueues
  <2>4. CASE Tx("bcn", "bcn2", "rx2")
    <3>1. ~Resume  BY <2>4 DEF Tx, Resume
    <3>2. c # "bcn" => ("bcn2" \in Before(c) => "rx2" \in Before(c))  BY DEF Chans
    <3> QED  BY <1>1, <1>2, <2>1, <2>4, <3>1, <3>2, TxQueues
  <2>5. CASE Tx("mgmt", "mgmt", "pause")
    <3>1. ~Resume  BY <2>5 DEF Tx, Resume
    <3>2. c # "mgmt" => ("mgmt" \in Before(c) => "pause" \in Before(c))  BY DEF Chans
    <3> QED  BY <1>1, <1>2, <2>1, <2>5, <3>1, <3>2, TxQueues
  <2>6. CASE Tx("data", "data", "end")
    <3>1. ~Resume  BY <2>6 DEF Tx, Resume
    <3>2. c # "data" => ("data" \in Before(c) => "end" \in Before(c))  BY DEF Chans
    <3> QED  BY <1>1, <1>2, <2>1, <2>6, <3>1, <3>2, TxQueues
  <2> QED  BY <1>6, <2>2, <2>3, <2>4, <2>5, <2>6 DEF Handle
<1>7. CASE TxEnd
  <2>1. /\ UNCHANGED <<q, unsignalled, cached, populated, irq, work>>
        /\ pc = "write" /\ sending = 0 /\ pc' = back
        /\ flags' = IF q[chan] > 0 /\ (chan = "data" => Allowed)
                    THEN flags \cup {chan} ELSE flags
    BY <1>7 DEF TxEnd
  <2>2. ~Resume  BY <2>1 DEF Resume
  <2>3. At' = At  BY <2>1 DEF At, TypeOK
  <2>4. Left(c) /\ Flagged(c) /\ Coming(c)  BY <1>1, <2>1 DEF QueuesComing, Left
  <2>5. CASE Blocked(c)
    <3>1. Blocked(c)'  BY <1>2, <2>2, <2>5
    <3> QED  BY <3>1 DEF Flagged, Coming
  <2>6. CASE ~Blocked(c)
    <3>1. c \in flags'
      <4>1. CASE chan = c  BY <2>1, <2>4, <2>6, <4>1 DEF Left, Blocked
      <4>2. CASE chan # c  BY <2>1, <2>4, <2>6, <4>2 DEF Flagged
      <4> QED  BY <4>1, <4>2
    <3>2. RetComing => RetComing'  BY <2>1 DEF RetComing
    <3>3. Coming(c)'  BY <2>1, <2>3, <2>4, <2>6, <3>2 DEF Coming, Before
    <3> QED  BY <3>1, <3>3 DEF Flagged
  <2> QED  BY <2>5, <2>6
<1>8. CASE Rx
  <2>1. /\ UNCHANGED <<q, unsignalled, cached, populated, irq, work>>
        /\ pc = "rx" /\ flags' = flags \ {"rx"} /\ At' = "ret"
    BY <1>8 DEF Rx, At
  <2>2. ~Resume  BY <2>1 DEF Resume
  <2>3. flags \cap (Chans \cup {"ret"}) \subseteq flags'  BY <2>1 DEF Chans
  <2> QED  BY <1>1, <1>2, <1>3, <2>1, <2>2, <2>3, Onward DEF Before
<1>9. CASE Read
  <2>1. /\ UNCHANGED <<q, unsignalled, cached, populated, irq, work>> /\ pc = "reading"
    BY <1>1, <1>9, ReadTurn, WorkerKeeps
  <2>2. ~Resume  BY <2>1 DEF Resume
  <2>3. PICK failed : Turn(failed)  BY <1>9, ReadTurn
  <2>4. back \in {"ret", "mgmt"} /\ At = back  BY <2>1 DEF Place, Lists, At
  <2>5. flags \subseteq flags' /\ (At' = At \/ At' = "bcnwait")
    BY <2>1, <2>3, <2>4, TurnPlace DEF At
  <2> QED  BY <1>1, <1>2, <1>3, <2>1, <2>2, <2>5, Onward DEF Before
<1>10. CASE BeaconWaitEnd
  <2>1. /\ UNCHANGED <<q, unsignalled, cached, populated, irq, flags, work>>
        /\ pc = "bcnwait" /\ At' = "ret"
    BY <1>10 DEF BeaconWaitEnd, At
  <2>2. ~Resume  BY <2>1 DEF Resume
  <2> QED  BY <1>1, <1>2, <1>3, <2>1, <2>2, Onward DEF Before
<1>11. CASE PageReturn
  <2>1. /\ UNCHANGED <<q, unsignalled, work>>
        /\ pc = "ret" /\ flags' = flags \ {"ret"} /\ At' = "cmd"
    BY <1>11 DEF PageReturn, At
  <2>2. Flagged(c)  BY <1>1, <2>1 DEF QueuesComing, Left
  <2>3. Blocked(c) => Blocked(c)'  BY <1>2, <2>1 DEF Resume
  <2>4. Flagged(c)'  BY <2>1, <2>2, <2>3 DEF Flagged, Chans
  <2>5. Coming(c)'  BY <1>3, <2>1 DEF Coming, Before
  <2> QED  BY <2>4, <2>5
<1>12. CASE Rx2
  <2>1. /\ UNCHANGED <<q, unsignalled, cached, populated, irq, work>>
        /\ pc = "rx2" /\ flags' = flags \ {"rx"} /\ At = "rx2" /\ At' = "mgmt"
    BY <1>12 DEF Rx2, At
  <2>2. ~Resume  BY <2>1 DEF Resume
  <2>3. flags \cap (Chans \cup {"ret"}) \subseteq flags'  BY <2>1 DEF Chans
  <2>4. "rx2" \in Before(c) => "mgmt" \in Before(c)
    BY DEF Before, Chans, BeforeData, BeforeResume, BeforePause, BeforeMgmt, BeforeBcn,
           BeforeCmd, BeforeRet
  <2> QED  BY <1>1, <1>2, <2>1, <2>2, <2>3, <2>4, Onward DEF Before
<1>13. CASE Pause
  <2>1. /\ UNCHANGED <<q, unsignalled, cached, populated, irq, work>>
        /\ pc = "pause" /\ At = "pause" /\ At' = "resume"
    BY <1>13 DEF Pause, At
  <2>2. ~Resume  BY <2>1 DEF Resume
  <2>3. flags \cap (Chans \cup {"ret"}) \subseteq flags'  BY <1>13 DEF Pause, Chans
  <2>4. "pause" \in Before(c) => "resume" \in Before(c)
    BY DEF Before, Chans, BeforeData, BeforeResume, BeforePause, BeforeMgmt, BeforeBcn,
           BeforeCmd, BeforeRet
  <2> QED  BY <1>1, <1>2, <2>1, <2>2, <2>3, <2>4, Onward DEF Before
<1>14. CASE Resume
  <2>1. /\ UNCHANGED <<q, unsignalled, cached, populated, irq, work>>
        /\ pc = "resume" /\ At = "resume" /\ At' = "data"
    BY <1>14 DEF Resume, At
  <2>2. flags \cap (Chans \cup {"ret"}) \subseteq flags'  BY <1>14 DEF Resume, Chans
  <2>3. "resume" \in Before(c) => "data" \in Before(c)
    BY DEF Before, Chans, BeforeData, BeforeResume, BeforePause, BeforeMgmt, BeforeBcn,
           BeforeCmd, BeforeRet
  <2>4. CASE Blocked(c) /\ ~Blocked(c)'
    <3>1. c = "data" /\ "resume" \in flags
      BY <1>14, <2>4, ResumeStep DEF Blocked, Allowed
    <3>2. c \in flags'  BY <1>14, <3>1 DEF Resume
    <3>3. "data" \in BeforeData  BY DEF BeforeData
    <3> QED  BY <2>1, <3>1, <3>2, <3>3 DEF Flagged, Coming, Before
  <2>5. CASE Blocked(c) => Blocked(c)'
    BY <1>1, <2>1, <2>2, <2>3, <2>5, Onward DEF Before
  <2> QED  BY <2>4, <2>5
<1>15. CASE End
  <2>1. /\ UNCHANGED <<q, unsignalled, cached, populated, irq, flags>> /\ (work => work')
        /\ pc = "end" /\ At = "end"
    BY <1>15 DEF End, At
  <2>2. ~Resume  BY <2>1 DEF Resume
  <2> QED  BY <1>1, <1>2, <2>1, <2>2, AllBefore, Onward
<1> QED
  BY <1>4, <1>5, <1>6, <1>7, <1>8, <1>9, <1>10, <1>11, <1>12, <1>13, <1>14, <1>15 DEF Worker

LEMMA StepQueues ==
  TypeOK /\ Place /\ PagesConserved /\ QueuesComing /\ [Next]_vars => QueuesComing'
<1> SUFFICES ASSUME TypeOK, Place, PagesConserved, QueuesComing, [Next]_vars, ~Faulty',
                    NEW c \in Chans, Left(c)'
             PROVE  Flagged(c)' /\ Coming(c)'
  BY DEF QueuesComing
<1>1. CASE Worker  BY <1>1, WorkerQueues
<1>2. CASE Write  BY <1>2, WriteQueues
<1>3. CASE Elsewhere  BY <1>3, ElsewhereQueues
<1>4. CASE UNCHANGED vars
  <2>1. Left(c) /\ ~Faulty  BY <1>4 DEF vars, senders, faults, Left, Faulty
  <2>2. Flagged(c) /\ Coming(c)  BY <2>1 DEF QueuesComing
  <2> QED
    BY <1>4, <2>2 DEF vars, signals, worker, pages, chip, traffic, Flagged, Coming, RetComing,
                      Blocked, Allowed, At, Before
<1> QED  BY <1>1, <1>2, <1>3, <1>4, Steps

-----------------------------------------------------------------------------
\* What is left when nothing is under way: the work rests with no event of its
\* own set, so that what waits was given up with its event or has no page.
WorkWaits == Placed /\ LostOnlyByFault /\ Place /\ Events /\ FreeComing /\ RxComing /\ Flow
             /\ QueuesComing

LEMMA InitWaits == Init => WorkWaits
<1> SUFFICES ASSUME Init PROVE WorkWaits  OBVIOUS
<1>1. Placed /\ Place /\ Events /\ LostOnlyByFault
  BY InitPlaced, InitPlace DEF Init, LostOnlyByFault
<1>2. FreeComing /\ RxComing  BY DEF Init, FreeComing, RxComing
<1>3. Flow  BY DEF Init, Flow
<1>4. QueuesComing  BY DEF Init, QueuesComing, Left
<1> QED  BY <1>1, <1>2, <1>3, <1>4 DEF WorkWaits

LEMMA StepWaits == WorkWaits /\ [Next]_vars => WorkWaits'
BY StepPlaced, StepLost, StepPlace, StepFree, StepRx, StepFlow, StepQueues
DEF WorkWaits, Placed, Place

LEMMA WaitsAtRest == DataPages /\ WorkWaits => NoLostWakeup
<1> SUFFICES ASSUME DataPages, WorkWaits, Quiet
             PROVE  /\ toHost = 0 \/ rxCleared \/ Faulty
                    /\ \A c \in Chans : q[c] > 0 => Faulty \/ (c = "data" /\ (stopped \/ late))
                    /\ free = 0 \/ Faulty
                    /\ stopped = (lastEv = "pause") \/ late
  BY DEF NoLostWakeup
<1> USE DEF WorkWaits, Placed
<1>1. ~work /\ pc = "idle" /\ irq = {} /\ populated = 0  BY DEF Quiet
<1>2. At = "idle" /\ "idle" \notin BeforeResume /\ "idle" \notin BeforePause
      /\ "idle" \notin BeforeRet
  BY <1>1 DEF At, BeforeResume, BeforePause, BeforeMgmt, BeforeBcn, BeforeCmd, BeforeRet
<1>3. flags \cap {"rx", "ret", "pause", "resume"} = {}  BY <1>1, <1>2 DEF Events
<1>4. toHost = 0 \/ rxCleared \/ Faulty  BY <1>1, <1>3 DEF RxComing, TypeOK
<1>5. free = 0 \/ Faulty  BY <1>1, <1>3 DEF FreeComing, TypeOK
<1>6. stopped = (lastEv = "pause") \/ late
  <2>1. CASE late  BY <2>1
  <2>2. CASE ~late
    <3>1. stopped = (lastEv = "pause")  BY <1>3, <2>2 DEF Flow
    <3> QED  BY <3>1
  <2> QED  BY <2>1, <2>2
<1>7. ASSUME NEW c \in Chans, q[c] > 0, ~Faulty
      PROVE  c = "data" /\ (stopped \/ late)
  <2>1. Left(c)  BY <1>7 DEF Quiet, Left
  <2>2. Coming(c)  BY <1>7, <2>1 DEF QueuesComing
  <2>3. cached > 0
    <3>1. lost = 0  BY <1>7 DEF LostOnlyByFault, Faulty, TypeOK
    <3>2. reserved + cached = NumPages
      BY <1>1, <1>5, <1>7, <3>1 DEF PagesConserved, TypeOK
    <3> QED  BY <3>2, PagesetAssumption DEF DataPages, PagesConserved, TypeOK
  <2>4. "idle" \notin Before(c)  BY AllBefore
  <2>5. Blocked(c)  BY <1>1, <1>2, <1>3, <2>2, <2>3, <2>4 DEF Coming, RetComing
  <2> QED  BY <1>3, <2>5 DEF Blocked, Allowed
<1> QED  BY <1>4, <1>5, <1>6, <1>7

\* Nothing that waits for morse_pagesets_work() is left behind at rest but
\* after a fault, or where the code gives up an event; if the chip has more
\* pages than are reserved for commands.
THEOREM WakeupKept == DataPages => (Spec => []NoLostWakeup)
<1> SUFFICES ASSUME DataPages PROVE Spec => []NoLostWakeup  OBVIOUS
<1>1. WorkWaits => NoLostWakeup  BY WaitsAtRest
<1> QED  BY <1>1, InitWaits, StepWaits, PTL DEF Spec

=============================================================================
