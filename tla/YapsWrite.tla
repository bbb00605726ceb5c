----------------------------- MODULE YapsWrite ------------------------------
(****************************************************************************)
(* How packets go to the chip over YAPS: morse_yaps_tx() (yaps.c) for one   *)
(* queue and morse_yaps_hw_write_pkts() (yaps-hw.c).                        *)
(*                                                                          *)
(* The driver reads from the status registers how many pages and places the *)
(* chip has, and from then on keeps its own account.  Packets that fit are  *)
(* put into a buffer and written a window at a time; the last one is marked *)
(* to interrupt the chip, which works through its queue then.  What did not *)
(* fit goes back to the head of the queue.                                  *)
(****************************************************************************)
EXTENDS YapsHw

CONSTANTS
    PageWords,   \* YAPS_PAGE_SIZE, in words
    PoolPages,   \* tc_*_pool_size of the queue's pool
    QSize,       \* tc_*_q_size
    TxMax,       \* MAX_PKTS_PER_TX_TXN
    PktLens,     \* lengths of packets to the chip, padding included, in words
    Ages         \* the queue is the one of management frames

\* No packet is larger than YAPS_MAX_PKT_SIZE_BYTES: it fits the window.
ASSUME YapsWriteAssumption ==
    /\ PageWords \in Nat \ {0}
    /\ PoolPages \in Nat \ {0} /\ QSize \in Nat \ {0} /\ TxMax \in Nat \ {0}
    /\ PktLens \subseteq Nat \ {0} /\ \A l \in PktLens : l + 1 <= Window
    /\ Ages \in BOOLEAN

VARIABLES
    txLens,    \* length of each packet sent
    queue,     \* mq->skbq
    hand,      \* skbq_to_send
    txPc,      \* where the call is
    pages,     \* tc_*_pool_num_pages as the driver has it
    places,    \* tc_*_q_size less tc_*_num_pkts, as the driver has it
    batch,     \* packets in to_chip_buffer
    load,      \* pages of the pool their words will take (history)
    marked,    \* delim_irq: the last of them interrupts the chip
    count,     \* num_pkts_sent
    txRet,     \* result of write_pkts()
    vacant,    \* pages of the pool that hold no words of a packet
    chipQ,     \* packets the chip has
    processed, \* how many of them have got their page of metadata
    ringing,   \* an interrupt has told it
    written,   \* packets of this call whose transfer succeeded
    arrived,   \* all packets the chip has got, in order
    txErrors   \* failures so far

account == <<pages, places>>
building == <<batch, load, marked>>
atChip == <<vacant, chipQ, processed, ringing>>
txChip == <<atChip, written, arrived>>
txVars == <<txLens, queue, hand, txPc, account, building, count, txRet, txChip, txErrors>>

\* Pages the words of a packet take.
Needs(p) == (txLens[p] + PageWords - 1) \div PageWords
\* morse_yaps_pages_required(): one more for metadata, and another as "phandle
\* page addresses get corrupted when the number of pages available is exactly
\* the same as the number required".
PagesRequiredExact(p) == Needs(p) + 1
PagesRequired(p) == Needs(p) + 2

\* The pages the chip counts as free.  Less than none are pages it lacks.
FreePages == vacant - processed

\* Words in the buffer.
Words(s) == FoldFunction(LAMBDA p, n : n + txLens[p] + 1, 0, s)

-----------------------------------------------------------------------------
TxInit ==
    /\ txLens = <<>> /\ queue = <<>> /\ hand = <<>>
    /\ txPc = "idle" /\ pages = 0 /\ places = 0
    /\ batch = <<>> /\ load = 0 /\ marked = FALSE /\ count = 0 /\ txRet = "ok"
    /\ vacant = PoolPages /\ chipQ = <<>> /\ processed = 0 /\ ringing = FALSE
    /\ written = 0 /\ arrived = <<>> /\ txErrors = 0

Put(len) ==
    /\ Len(txLens) < MaxPkts
    /\ txLens' = Append(txLens, len)
    /\ queue' = Append(queue, Len(txLens'))
    /\ UNCHANGED <<hand, txPc, account, building, count, txRet, txChip, txErrors>>

\* The call finds a packet in the queue, purges old management frames and
\* takes a burst of what is left, which may be nothing.
Dequeue(aged) ==
    /\ txPc = "idle" /\ queue # <<>>
    /\ aged \in 0 .. Len(queue) /\ (aged = 0 \/ Ages)
    /\ LET n == Min2(Len(queue) - aged, TxMax) IN
       /\ hand' = SubSeq(queue, aged + 1, aged + n)
       /\ queue' = From(queue, aged + n + 1)
    /\ txPc' = "status" /\ txRet' = "ok"
    /\ UNCHANGED <<txLens, account, building, count, txChip, txErrors>>

\* morse_yaps_hw_update_status() waits until the chip has no update under way.
\* Packets that were sent and not processed yet "will get metadata later, but
\* that is not reflected in the current metadata count": they are counted and,
\* against the comment, not considered.  When the read fails the call returns,
\* and leaks what it has dequeued.
TxUpdateStatus ==
    /\ txPc = "status"
    /\ \/ /\ pages' = (IF FreePages > 0 THEN FreePages ELSE 0)
          /\ places' = QSize - Len(chipQ)
          /\ txPc' = "check"
          /\ UNCHANGED <<hand, txRet, txErrors>>
       \/ /\ txErrors < MaxErrors
          /\ txErrors' = txErrors + 1
          /\ hand' = <<>> /\ txRet' = "eio" /\ txPc' = "idle"
          /\ UNCHANGED account
    /\ UNCHANGED <<txLens, queue, building, count, txChip>>

-----------------------------------------------------------------------------
\* morse_yaps_will_fit(): what fits is taken off the driver's account.
WillFit(p) == PagesRequired(p) <= pages /\ places # 0
Charge(p) ==
    IF WillFit(p)
    THEN pages' = pages - PagesRequired(p) /\ places' = places - 1
    ELSE UNCHANGED account

\* The first entry of the array is checked, also when nothing was dequeued and
\* it is what an earlier call left there: it may be charged to this account,
\* which is read again before it is used.
CheckFirst ==
    /\ txPc = "check"
    /\ IF hand = <<>>
       THEN txRet' \in {"ok", "again", "msgsize"} /\ UNCHANGED account
       ELSE txRet' = (IF WillFit(hand[1]) THEN "ok" ELSE "again") /\ Charge(hand[1])
    /\ count' = 0
    /\ txPc' = IF txRet' = "ok" /\ hand # <<>> THEN "fill" ELSE "exit"
    /\ UNCHANGED <<txLens, queue, hand, building, txChip, txErrors>>

\* The chip gets what is in the buffer.
Reach ==
    /\ vacant' = vacant - load
    /\ chipQ' = chipQ \o batch
    /\ arrived' = arrived \o batch
    /\ ringing' = (ringing \/ marked)
    /\ UNCHANGED processed

\* A transfer of the buffer, and one that fails: the chip has got it or not.
Transfer ==
    /\ Reach
    /\ written' = written + Len(batch)
FailedTransfer ==
    /\ txErrors < MaxErrors
    /\ txErrors' = txErrors + 1
    /\ txRet' = "eio"
    /\ Reach \/ UNCHANGED <<atChip, arrived>>
    /\ UNCHANGED written

\* Which packet the loop is at, and whether the buffer must be written first:
\* a packet is not split.
At == count + Len(batch) + 1
Overruns == Words(batch) + txLens[hand[At]] + 1 > Window

WriteWindow ==
    /\ txPc = "fill" /\ Overruns
    /\ \/ /\ Transfer
          /\ count' = count + Len(batch)
          /\ UNCHANGED <<txPc, txRet, txErrors>>
       \/ /\ FailedTransfer
          /\ txPc' = "exit"
          /\ UNCHANGED count
    /\ batch' = <<>> /\ load' = 0
    /\ UNCHANGED <<txLens, queue, hand, account, marked>>

FillUnmarked ==
    /\ txPc = "fill" /\ ~Overruns
    /\ batch' = Append(batch, hand[At]) /\ load' = load + Needs(hand[At])
    /\ IF At = Len(hand)
       THEN marked' = TRUE /\ txPc' = "exit" /\ UNCHANGED <<account, txRet>>
       ELSE /\ Charge(hand[At + 1])
            /\ UNCHANGED marked
            /\ IF WillFit(hand[At + 1]) THEN UNCHANGED <<txPc, txRet>>
               ELSE txPc' = "exit" /\ txRet' = "again"
    /\ UNCHANGED <<txLens, queue, hand, count, txChip, txErrors>>

\* The packet goes into the buffer; the next one is checked before, so that the
\* last one that fits can be marked.
Fill ==
    /\ txPc = "fill" /\ ~Overruns
    /\ batch' = Append(batch, hand[At]) /\ load' = load + Needs(hand[At])
    /\ IF At = Len(hand)
       THEN marked' = TRUE /\ txPc' = "exit" /\ UNCHANGED <<account, txRet>>
       ELSE /\ Charge(hand[At + 1])
            /\ IF WillFit(hand[At + 1])
               THEN UNCHANGED <<marked, txPc, txRet>>
               ELSE marked' = TRUE /\ txPc' = "exit" /\ txRet' = "again"
    /\ UNCHANGED <<txLens, queue, hand, count, txChip, txErrors>>

WriteRestUncounted ==
    /\ txPc = "exit"
    /\ txPc' = "done"
    /\ \/ /\ batch # <<>>
          /\ Transfer
          /\ txRet' = "ok"
          /\ UNCHANGED <<count, txErrors>>
       \/ /\ batch # <<>> /\ FailedTransfer
          /\ count' = count + Len(batch)
       \/ /\ batch = <<>>
          /\ UNCHANGED <<count, txRet, txChip, txErrors>>
    /\ UNCHANGED <<txLens, queue, hand, account, building>>

\* What is left in the buffer is written, and counted whether that works or
\* not; its result replaces the one of the last check.
WriteRest ==
    /\ txPc = "exit"
    /\ txPc' = "done"
    /\ count' = count + Len(batch)
    /\ \/ /\ batch # <<>>
          /\ Transfer
          /\ txRet' = "ok"
          /\ UNCHANGED txErrors
       \/ /\ batch # <<>> /\ FailedTransfer
       \/ /\ batch = <<>>
          /\ UNCHANGED <<txRet, txChip, txErrors>>
    /\ UNCHANGED <<txLens, queue, hand, account, building>>

\* Packets counted are complete; the others are put back.
Complete ==
    /\ txPc = "done"
    /\ queue' = From(hand, count + 1) \o queue
    /\ txPc' = "idle" /\ hand' = <<>> /\ count' = 0 /\ written' = 0
    /\ batch' = <<>> /\ load' = 0 /\ marked' = FALSE
    /\ UNCHANGED <<txLens, account, txRet, atChip, arrived, txErrors>>

-----------------------------------------------------------------------------
\* The chip, once told, works until its queue is empty.  A packet takes a page
\* of metadata when the chip comes to it, and waits while there is none.
ChipProcess ==
    /\ ringing /\ processed < Len(chipQ) /\ FreePages > 0
    /\ processed' = processed + 1
    /\ UNCHANGED <<txLens, queue, hand, txPc, account, building, count, txRet,
                   vacant, chipQ, ringing, written, arrived, txErrors>>

ChipTakes ==
    /\ ringing /\ processed > 0
    /\ vacant' = vacant + Needs(Head(chipQ))
    /\ chipQ' = Tail(chipQ)
    /\ processed' = processed - 1
    /\ ringing' = (chipQ' # <<>>)
    /\ UNCHANGED <<txLens, queue, hand, txPc, account, building, count, txRet,
                   written, arrived, txErrors>>

Call == TxUpdateStatus \/ CheckFirst \/ WriteWindow \/ Fill \/ WriteRest \/ Complete
Chip == ChipProcess \/ ChipTakes
TxNext ==
    \/ \E len \in PktLens : Put(len)
    \/ \E aged \in 0 .. MaxPkts : Dequeue(aged)
    \/ Call \/ Chip

TxSpec == TxInit /\ [][TxNext]_txVars
TxFairSpec == TxSpec /\ WF_txVars(Call) /\ WF_txVars(Chip) /\ WF_txVars(Dequeue(0))

-----------------------------------------------------------------------------
TxTypeOK ==
    /\ txLens \in Seq(PktLens) /\ Len(txLens) <= MaxPkts
    /\ queue \in Seq(DOMAIN txLens) /\ hand \in Seq(DOMAIN txLens)
    /\ Len(hand) <= TxMax
    /\ txPc \in {"idle", "status", "check", "fill", "exit", "done"}
    /\ pages \in 0 .. PoolPages /\ places \in 0 .. QSize
    /\ batch \in Seq(DOMAIN txLens) /\ load \in 0 .. PoolPages /\ marked \in BOOLEAN
    /\ count \in 0 .. Len(hand)
    /\ txRet \in {"ok", "again", "msgsize", "eio"}
    /\ vacant \in 0 .. PoolPages
    /\ chipQ \in Seq(DOMAIN txLens) /\ Len(chipQ) <= QSize
    /\ processed \in 0 .. Len(chipQ)
    /\ ringing \in BOOLEAN
    /\ written \in 0 .. Len(hand)
    /\ arrived \in Seq(DOMAIN txLens)
    /\ txErrors \in 0 .. MaxErrors

\* However old the status the driver read is, and whatever packets of the chip
\* it does not reflect yet: the words of packets never take up the pool, but
\* leave the chip a page of metadata to go on with and, as
\* morse_yaps_pages_required() asks, one more; and packets never exceed the
\* places of the chip's queue.
RoomKept == (chipQ # <<>> => vacant > 1) /\ Len(chipQ) <= QSize

\* "So if we don't consider them and push more packets, we will run out of
\* metadata buffers": a packet that has not been processed finds a page.
MetadataLeft == processed < Len(chipQ) => FreePages > 0

\* "Always set IRQ for the last packet so the chip doesn't miss it": a packet
\* that was queued gets to the chip and the chip works it off, though only the
\* last packet of a call is marked, windows are written one by one, and the
\* result of the last one hides that a packet did not fit.
PassedOn ==
    \A p \in 1 .. MaxPkts :
        (p \in Range(queue)) ~> (txErrors > 0 \/ p \notin Range(queue \o hand \o chipQ))

\* The module implements PacketStream: what goes back to the queue is what the
\* chip has not got, in its place; what counts as sent it has.  A transfer that
\* failed may lose what it counts as sent, or bring what is put back.
Host2Chip == INSTANCE PacketStream WITH
    Packets <- 1 .. MaxPkts, Resends <- TRUE,
    waiting <- From(hand, written + 1) \o queue,
    broken <- txRet = "eio"

TxImplements == Host2Chip!Spec
=============================================================================
