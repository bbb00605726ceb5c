----------------------------- MODULE PagesetWork -----------------------------
(***************************************************************************)
(* The chip interface work of the page-set interface (pageset.c, MM6108),  *)
(* the pages it moves, and what wakes it:                                  *)
(*                                                                         *)
(*   - senders put a packet into a queue and signal it    (Put, Signal)    *)
(*   - the work item morse_pagesets_work(), step by step  (Start ... End)  *)
(*   - the interrupt handler, which holds the bus between reading the      *)
(*     interrupt status and clearing it                (IrqRead, IrqClear) *)
(*   - the receive work, which asks for another read when it has emptied   *)
(*     the receive queue                   (DispatchStart, DispatchEnd)    *)
(*   - the beacon tasklet and the firmware's traffic control events        *)
(*     (BeaconTasklet, Traffic)                                            *)
(*   - the chip, which fills pages, sends them, and asks for beacons       *)
(*                                                                         *)
(* A page to the chip is in the reserved or the cached fifo, in the page   *)
(* set's hand, populated, in the chip's pager of free pages, or lost; the  *)
(* pages of each kind are counted.  The four data queues are one here.     *)
(***************************************************************************)
EXTENDS Naturals

CONSTANTS
    NumPages,         \* pages to the chip
    CmdRsvedPagesMax, \* CMD_RSVED_PAGES_MAX
    CachedPagesMax,   \* CACHED_PAGES_MAX
    TxTxn,            \* MAX_PAGES_PER_TX_TXN
    RxTxn,            \* MAX_PAGES_PER_RX_TXN
    NotifyInt,        \* PAGE_RETURN_NOTIFY_INT
    RxCap,            \* packets the receive queue takes
    MaxInputs,        \* bound on packets sent, pages filled, beacons asked for and
                      \* traffic control events, taken together
    MaxErrors,        \* bound on failing bus transfers
    MaxOversize       \* bound on packets that do not fit a page

Chans == {"cmd", "bcn", "mgmt", "data"}
Flags == Chans \cup {"rx", "ret", "pause", "resume"}
Stages == {"idle", "claim", "bcn1", "rx", "reading", "bcnwait", "ret", "cmd", "bcn2",
           "rx2", "mgmt", "pause", "resume", "data", "write", "end"}

ASSUME PagesetAssumption ==
    /\ CachedPagesMax \in Nat \ {0} /\ CmdRsvedPagesMax \in {1, 2}
    /\ CmdRsvedPagesMax <= CachedPagesMax   \* a BUILD_BUG_ON
    /\ NumPages \in 0 .. CmdRsvedPagesMax + CachedPagesMax
    /\ TxTxn \in Nat \ {0} /\ RxTxn \in Nat \ {0} /\ NotifyInt \in Nat \ {0}
    /\ RxCap \in Nat
    /\ MaxInputs \in Nat /\ MaxErrors \in Nat /\ MaxOversize \in Nat

VARIABLES
    inputs,      \* inputs so far
    q,           \* packets in each queue of the driver
    unsignalled, \* packets put and not signalled yet, per queue
    flags,       \* chip_if->event_flags
    work,        \* chip_if_work is queued
    bus,         \* who holds the bus
    pc,          \* where the work is
    chan,        \* the queue it is sending from
    sending,     \* packets in its local list
    back,        \* where the work goes on after the list, or after reading
    bcnPend,     \* is_beacon_pending
    count,       \* pages read in this pass
    reserved,    \* pages in the fifo of reserved pages
    cached,      \* pages in the fifo of cached pages
    populated,   \* pages the chip is to send
    free,        \* pages in the chip's pager of free pages
    lost,        \* pages nobody holds any more
    stopped,     \* MORSE_STATE_FLAG_DATA_TX_STOPPED
    toHost,      \* filled pages the chip holds for the driver
    irq,         \* the interrupt status
    seen,        \* the status the interrupt handler read
    rxq,         \* packets in the receive queue
    dispatch,    \* its dispatch_work is queued
    running,     \* its dispatch_work is running
    tasklet,     \* the beacon tasklet is scheduled
    lastEv,      \* the last traffic control event
    errors,      \* bus transfers that failed
    oversize,    \* packets that did not fit their page
    rxCleared,   \* a receive event was cleared and not handled
    late         \* "latency ... is too great" was logged

senders == <<q, unsignalled>>
signals == <<flags, work>>
worker == <<bus, pc, chan, sending, back, bcnPend, count>>
pages == <<reserved, cached, populated, free, lost>>
chip == <<toHost, irq, seen>>
host == <<rxq, dispatch, running, tasklet>>
traffic == <<stopped, lastEv, late>>
faults == <<errors, oversize>>
vars == <<inputs, senders, signals, worker, pages, chip, host, traffic, faults, rxCleared>>

Min2(a, b) == IF a < b THEN a ELSE b

\* morse_is_data_tx_allowed().
Allowed == ~stopped /\ "pause" \notin flags

\* Something comes from outside.
Input == inputs < MaxInputs /\ inputs' = inputs + 1

-----------------------------------------------------------------------------
\* The pages are in the chip's pager and an event to fetch them is preloaded.
Init ==
    /\ inputs = 0 /\ q = [c \in Chans |-> 0]
    /\ unsignalled = [c \in Chans |-> 0]
    /\ flags = {"ret"} /\ work = TRUE
    /\ bus = "free" /\ pc = "idle" /\ chan = "cmd" /\ sending = 0 /\ back = "end"
    /\ bcnPend = FALSE /\ count = 0
    /\ reserved = 0 /\ cached = 0 /\ populated = 0 /\ free = NumPages /\ lost = 0
    /\ stopped = FALSE /\ lastEv = "resume" /\ late = FALSE
    /\ toHost = 0 /\ irq = {} /\ seen = {}
    /\ rxq = 0 /\ dispatch = FALSE /\ running = FALSE /\ tasklet = FALSE
    /\ errors = 0 /\ oversize = 0 /\ rxCleared = FALSE

-----------------------------------------------------------------------------
\* morse_skbq_tx() of a command, which waits for the last one to end, a
\* management frame or data; it signals after the packet is in the queue.
Put(c) ==
    /\ Input
    /\ c # "bcn"
    /\ c = "cmd" => q[c] = 0 /\ unsignalled[c] = 0 /\ ~(pc = "write" /\ chan = "cmd")
    /\ q' = [q EXCEPT ![c] = @ + 1]
    /\ unsignalled' = [unsignalled EXCEPT ![c] = @ + 1]
    /\ UNCHANGED <<signals, worker, pages, chip, host, traffic, faults, rxCleared>>

Signal(c) ==
    /\ unsignalled[c] > 0
    /\ unsignalled' = [unsignalled EXCEPT ![c] = @ - 1]
    /\ IF c # "data" \/ Allowed
       THEN flags' = flags \cup {c} /\ work' = TRUE
       ELSE UNCHANGED signals
    /\ UNCHANGED <<inputs, q, worker, pages, chip, host, traffic, faults, rxCleared>>

\* The beacon tasklet puts and signals the beacon the interrupt asked for.
BeaconTasklet ==
    /\ tasklet
    /\ tasklet' = FALSE
    /\ q' = [q EXCEPT !["bcn"] = @ + 1]
    /\ flags' = flags \cup {"bcn"} /\ work' = TRUE
    /\ UNCHANGED <<inputs, unsignalled, worker, pages, chip, rxq, dispatch, running,
                   traffic, faults, rxCleared>>

\* A traffic control event of the firmware: a pause, then a resume, and so on.
Traffic ==
    /\ Input
    /\ lastEv' = IF lastEv = "resume" THEN "pause" ELSE "resume"
    /\ flags' = flags \cup {lastEv'} /\ work' = TRUE
    /\ UNCHANGED <<senders, worker, pages, chip, host, stopped, late, faults, rxCleared>>

-----------------------------------------------------------------------------
\* The work item starts: without an event it returns, else it claims the bus.
Start ==
    /\ work /\ pc = "idle"
    /\ work' = FALSE
    /\ pc' = IF flags = {} THEN "idle" ELSE "claim"
    /\ UNCHANGED <<inputs, senders, flags, bus, chan, sending, back, bcnPend, count, pages, chip,
                   host, traffic, faults, rxCleared>>

Claim ==
    /\ pc = "claim" /\ bus = "free"
    /\ bus' = "work" /\ pc' = "bcn1"
    /\ UNCHANGED <<inputs, senders, signals, chan, sending, back, bcnPend, count, pages, chip, host,
                   traffic, faults, rxCleared>>

\* morse_pageset_num_pages(): the pages the queue c may use.
NumPagesAll(c) ==
    CASE c = "cmd" -> Min2(1, reserved + cached)
      [] c = "bcn" -> Min2(TxTxn, cached + reserved)
      [] OTHER     -> Min2(TxTxn, cached)
NumPagesFor(c) ==
    CASE c = "cmd" -> Min2(1, reserved + cached)
      [] c = "bcn" -> Min2(TxTxn, cached + IF reserved > 1 THEN CmdRsvedPagesMax - 1 ELSE 0)
      [] OTHER     -> Min2(TxTxn, cached)

\* The handler of a queue's event and morse_pageset_tx() up to the dequeue: the
\* event is set again when packets remain.  Old management frames are purged
\* after the pages were counted.
Tx(c, here, next) ==
    /\ pc = here
    /\ flags' = flags \ {c}
    /\ IF c \in flags /\ (c = "data" => Allowed)
       THEN \E aged \in IF c = "mgmt" THEN 0 .. q[c] ELSE {0} :
            /\ sending' = Min2(NumPagesFor(c), q[c] - aged)
            /\ q' = [q EXCEPT ![c] = @ - aged - sending']
            /\ chan' = c /\ back' = next /\ pc' = "write"
       ELSE /\ pc' = next
            /\ UNCHANGED <<q, chan, sending, back>>
    /\ UNCHANGED <<inputs, unsignalled, work, bus, bcnPend, count, pages, chip, host,
                   traffic, faults, rxCleared>>

\* The chip's free pages go to the reserved fifo first and then to the cached
\* one; the loop ends when twice the size of that fifo was fetched, and a page
\* that does not fit it is gone.
RefillCachedOnly ==
    LET n == Min2(free, 2 * CachedPagesMax)
        toCached == Min2(n, CachedPagesMax - cached)
    IN  /\ reserved' = reserved
        /\ cached' = cached + toCached
        /\ lost' = lost + (n - toCached)
        /\ free' = free - n
Refill ==
    LET toReserved == Min2(free, CmdRsvedPagesMax - reserved)
        n == IF 2 * CachedPagesMax > toReserved
             THEN Min2(free - toReserved, 2 * CachedPagesMax - toReserved) ELSE 0
        toCached == Min2(n, CachedPagesMax - cached)
    IN  /\ reserved' = reserved + toReserved
        /\ cached' = cached + toCached
        /\ lost' = lost + (n - toCached)
        /\ free' = free - toReserved - n

\* morse_pageset_write() of one packet from the local list takes a page: the
\* handler of free pages runs again for a command without a reserved one.  There
\* is no action for a write that finds no page: see PageForEachPacket.
FetchForCmd ==
    /\ pc = "write" /\ sending > 0
    /\ chan = "cmd" /\ reserved = 0 /\ free > 0
    /\ Refill
    /\ UNCHANGED <<inputs, senders, signals, worker, populated, chip, host, traffic, faults, rxCleared>>

\* When the first page of that handler cannot be popped, the command is written
\* all the same, to a cached page.
Failed(n) ==
    LET pops == IF chan = "cmd" /\ reserved = 0 /\ free > 0 THEN n + 1 ELSE n
    IN  errors + pops <= MaxErrors /\ errors' = errors + pops

FromReserved ==
    \/ chan = "bcn" /\ reserved > 1
    \/ chan = "cmd" /\ reserved > 0
WriteStep ==
    /\ pc = "write" /\ sending > 0
    /\ sending' = sending - 1
    /\ UNCHANGED <<inputs, senders, signals, bus, pc, chan, back, bcnPend, count, free, chip, host,
                   traffic, rxCleared>>

TakePage ==
    IF FromReserved
    THEN reserved' = reserved - 1 /\ UNCHANGED cached
    ELSE cached > 0 /\ cached' = cached - 1 /\ UNCHANGED reserved

\* The page is filled and put into the pager of populated pages.
WritePage ==
    /\ WriteStep /\ TakePage /\ Failed(0)
    /\ populated' = populated + 1
    /\ UNCHANGED <<lost, oversize>>

\* A packet that does not fit is dropped after the page was taken.
WriteOversize ==
    /\ WriteStep /\ TakePage /\ Failed(0)
    /\ oversize < MaxOversize
    /\ oversize' = oversize + 1
    /\ lost' = lost + 1
    /\ UNCHANGED populated

\* Filling the page fails and it returns to its fifo.
WriteError ==
    /\ WriteStep
    /\ FromReserved \/ cached > 0
    /\ Failed(1)
    /\ UNCHANGED <<reserved, cached, populated, lost, oversize>>

\* Putting it fails; it is put again, marked for the chip to discard.  When
\* that fails as well nobody has the page.
PutError ==
    /\ WriteStep /\ TakePage
    /\ \/ /\ Failed(1)
          /\ populated' = populated + 1
          /\ UNCHANGED lost
       \/ /\ Failed(2)
          /\ lost' = lost + 1
          /\ UNCHANGED populated
    /\ UNCHANGED oversize

\* The end of the list: the queue's event is set again when packets remain.
TxEndForget ==
    /\ pc = "write" /\ sending = 0
    /\ pc' = back /\ back' = "end" /\ chan' = "cmd"
    /\ UNCHANGED <<inputs, senders, signals, bus, sending, bcnPend, count, pages, chip, host,
                   traffic, faults, rxCleared>>
TxEnd ==
    /\ pc = "write" /\ sending = 0
    /\ flags' = IF q[chan] > 0 /\ (chan = "data" => Allowed)
                THEN flags \cup {chan} ELSE flags
    /\ pc' = back /\ back' = "end" /\ chan' = "cmd"
    /\ UNCHANGED <<inputs, senders, work, bus, sending, bcnPend, count, pages, chip, host,
                   traffic, faults, rxCleared>>

-----------------------------------------------------------------------------
\* Receive first, up to a limit, watching for beacon requests.
Rx ==
    /\ pc = "rx"
    /\ flags' = flags \ {"rx"}
    /\ pc' = IF "rx" \in flags THEN "reading" ELSE "ret"
    /\ back' = IF "rx" \in flags THEN "ret" ELSE back
    /\ UNCHANGED <<inputs, senders, work, bus, chan, sending, bcnPend, count, pages, chip, host,
                   traffic, faults, rxCleared>>

\* The end of one turn of the loop of morse_pageset_rx_handler(): a beacon
\* request is looked for where the chip is notified of returned pages, but not
\* on the second read.  With a beacon pending the bus is given up for a while.
Turn(failed) ==
    LET beacon == /\ back = "ret"
                  /\ (count + 1) % NotifyInt = 0
                  /\ "bcn" \in irq
        more == count + 1 = RxTxn \/ beacon
        last == failed \/ more
    IN  /\ count' = IF last THEN 0 ELSE count + 1
        /\ bcnPend' = (bcnPend \/ beacon)
        /\ flags' = IF more THEN flags \cup {"rx"} ELSE flags
        /\ pc' = IF ~last THEN "reading" ELSE IF beacon THEN "bcnwait" ELSE back
        /\ back' = IF last THEN "end" ELSE back
        /\ bus' = IF beacon THEN "free" ELSE bus

\* morse_pageset_read(): a page goes to the receive queue, or is dropped when
\* that is full: the error is overwritten when the page is returned, and the
\* loop goes on.
ReadStep(failed) ==
    /\ pc = "reading"
    /\ Turn(failed)
    /\ UNCHANGED <<inputs, senders, work, chan, sending, pages, irq, seen, running,
                   tasklet, traffic, oversize, rxCleared>>

ReadPage ==
    /\ ReadStep(FALSE)
    /\ toHost > 0
    /\ toHost' = toHost - 1
    /\ rxq' = Min2(rxq + 1, RxCap)
    /\ dispatch' = TRUE
    /\ UNCHANGED errors

ReadEmpty ==
    /\ ReadStep(TRUE)
    /\ toHost = 0
    /\ UNCHANGED <<toHost, rxq, dispatch, errors>>

\* The page cannot be popped, which ends the loop; or its data cannot be read
\* and it is dropped, which does not.
ReadError ==
    /\ errors < MaxErrors
    /\ errors' = errors + 1
    /\ \/ ReadStep(TRUE) /\ UNCHANGED toHost
       \/ ReadStep(FALSE) /\ toHost > 0 /\ toHost' = toHost - 1
    /\ UNCHANGED <<rxq, dispatch>>

\* The wait for the beacon tasklet ends, at the latest when it times out.
BeaconWaitEnd ==
    /\ pc = "bcnwait" /\ bus = "free"
    /\ bus' = "work" /\ pc' = "ret"
    /\ UNCHANGED <<inputs, senders, signals, chan, sending, back, bcnPend, count, pages, chip, host,
                   traffic, faults, rxCleared>>

\* The chip returned pages.  When none can be popped the event is gone.
PageReturn ==
    /\ pc = "ret" /\ pc' = "cmd"
    /\ flags' = flags \ {"ret"}
    /\ \/ "ret" \notin flags /\ UNCHANGED <<reserved, cached, free, lost, errors>>
       \/ "ret" \in flags /\ Refill /\ UNCHANGED errors
       \/ /\ "ret" \in flags /\ errors < MaxErrors /\ errors' = errors + 1
          /\ UNCHANGED <<reserved, cached, free, lost>>
    /\ UNCHANGED <<inputs, senders, work, bus, chan, sending, back, bcnPend, count, populated, chip,
                   host, traffic, oversize, rxCleared>>

\* Receive again when a beacon had stopped it; otherwise the event is cleared
\* as well.
Rx2 ==
    /\ pc = "rx2"
    /\ flags' = flags \ {"rx"}
    /\ pc' = IF "rx" \in flags /\ bcnPend THEN "reading" ELSE "mgmt"
    /\ back' = IF "rx" \in flags /\ bcnPend THEN "mgmt" ELSE back
    /\ bcnPend' = FALSE
    /\ rxCleared' = (rxCleared \/ ("rx" \in flags /\ ~bcnPend /\ toHost > 0))
    /\ UNCHANGED <<inputs, senders, work, bus, chan, sending, count, pages, chip, host, traffic, faults>>

\* A pause with a resume behind it: both are dropped.
Pause ==
    /\ pc = "pause" /\ pc' = "resume"
    /\ IF "pause" \in flags
       THEN /\ flags' = flags \ {"pause", "resume"}
            /\ stopped' = (stopped \/ "resume" \notin flags)
       ELSE UNCHANGED <<flags, stopped>>
    /\ late' = (late \/ flags \cap {"pause", "resume"} = {"pause", "resume"})
    /\ UNCHANGED <<inputs, senders, work, bus, chan, sending, back, bcnPend, count, pages, chip, host,
                   lastEv, faults, rxCleared>>

\* morse_skbq_data_traffic_resume() kicks the transmission.
Resume ==
    /\ pc = "resume" /\ pc' = "data"
    /\ IF "resume" \in flags
       THEN flags' = (flags \ {"resume"}) \cup {"data"} /\ stopped' = FALSE
       ELSE UNCHANGED <<flags, stopped>>
    /\ late' = (late \/ flags \cap {"pause", "resume"} = {"pause", "resume"})
    /\ UNCHANGED <<inputs, senders, work, bus, chan, sending, back, bcnPend, count, pages, chip, host,
                   lastEv, faults, rxCleared>>

\* The bus is released and the work queued again for a receive event only.
EndAny ==
    /\ pc = "end" /\ pc' = "idle"
    /\ bus' = "free"
    /\ work' = (work \/ flags # {})
    /\ UNCHANGED <<inputs, senders, flags, chan, sending, back, bcnPend, count, pages, chip, host,
                   traffic, faults, rxCleared>>
End ==
    /\ pc = "end" /\ pc' = "idle"
    /\ bus' = "free"
    /\ work' = (work \/ "rx" \in flags)
    /\ UNCHANGED <<inputs, senders, flags, chan, sending, back, bcnPend, count, pages, chip, host,
                   traffic, faults, rxCleared>>
-----------------------------------------------------------------------------
\* morse_hw_irq_handle() reads the status and serves it, then clears what it
\* read; it holds the bus meanwhile, and the chip goes on.
IrqRead ==
    /\ bus = "free" /\ irq # {}
    /\ bus' = "irq" /\ seen' = irq
    /\ flags' = flags \cup (irq \cap {"rx", "ret"})
    /\ work' = (work \/ irq \cap {"rx", "ret"} # {})
    /\ tasklet' = (tasklet \/ "bcn" \in irq)
    /\ UNCHANGED <<inputs, senders, pc, chan, sending, back, bcnPend, count, pages, toHost, irq,
                   rxq, dispatch, running, traffic, faults, rxCleared>>

IrqClear ==
    /\ bus = "irq"
    /\ bus' = "free" /\ irq' = irq \ seen /\ seen' = {}
    /\ UNCHANGED <<inputs, senders, signals, pc, chan, sending, back, bcnPend, count, pages, toHost,
                   host, traffic, faults, rxCleared>>

\* morse_skbq_dispatch_work() empties the receive queue, then asks for another
\* read in case the queue was full.
DispatchStart ==
    /\ dispatch /\ ~running
    /\ dispatch' = FALSE /\ running' = TRUE
    /\ rxq' = 0
    /\ UNCHANGED <<inputs, senders, signals, worker, pages, chip, tasklet, traffic, faults, rxCleared>>

DispatchEnd ==
    /\ running
    /\ running' = FALSE
    /\ flags' = flags \cup {"rx"} /\ work' = TRUE
    /\ UNCHANGED <<inputs, senders, worker, pages, chip, rxq, dispatch, tasklet, traffic, faults,
                   rxCleared>>

\* The chip fills a page, has sent one, or asks for a beacon.
ChipFill ==
    /\ Input
    /\ toHost' = toHost + 1 /\ irq' = irq \cup {"rx"}
    /\ UNCHANGED <<senders, signals, worker, pages, seen, host, traffic, faults, rxCleared>>

ChipSend ==
    /\ populated > 0
    /\ populated' = populated - 1 /\ free' = free + 1
    /\ irq' = irq \cup {"ret"}
    /\ UNCHANGED <<inputs, senders, signals, worker, reserved, cached, lost, toHost, seen, host,
                   traffic, faults, rxCleared>>

ChipBeacon ==
    /\ Input
    /\ irq' = irq \cup {"bcn"}
    /\ UNCHANGED <<senders, signals, worker, pages, toHost, seen, host, traffic,
                   faults, rxCleared>>

-----------------------------------------------------------------------------
Handle ==
    \/ Tx("bcn", "bcn1", "rx")
    \/ Tx("cmd", "cmd", "bcn2")
    \/ Tx("bcn", "bcn2", "rx2")
    \/ Tx("mgmt", "mgmt", "pause")
    \/ Tx("data", "data", "end")
Write == FetchForCmd \/ WritePage \/ WriteOversize \/ WriteError \/ PutError
Read == ReadPage \/ ReadEmpty \/ ReadError
Pass ==
    \/ Start \/ Claim \/ Handle \/ Write \/ TxEnd
    \/ Rx \/ Read \/ BeaconWaitEnd \/ PageReturn \/ Rx2 \/ Pause \/ Resume \/ End
Interrupt == IrqRead \/ IrqClear
Receive == DispatchStart \/ DispatchEnd
Chip == ChipFill \/ ChipSend \/ ChipBeacon

Next ==
    \/ Pass \/ Interrupt \/ Receive \/ Chip
    \/ BeaconTasklet \/ Traffic
    \/ \E c \in Chans : Put(c) \/ Signal(c)

Spec == Init /\ [][Next]_vars

\* The work queues, the interrupt thread and the tasklet are scheduled and the
\* bus goes to whoever waits for it again and again; a sender goes on to signal
\* and the chip sends the pages it is given.
Fairness ==
    /\ SF_vars(Pass) /\ SF_vars(Interrupt)
    /\ WF_vars(Receive) /\ WF_vars(BeaconTasklet) /\ WF_vars(ChipSend)
    /\ WF_vars(\E c \in Chans : Signal(c))
FairSpec == Spec /\ Fairness

-----------------------------------------------------------------------------
\* Types of the state of morse_pagesets_work(): no count of pages or packets
\* goes below zero.
TypeOK ==
    /\ inputs \in Nat /\ q \in [Chans -> Nat]
    /\ unsignalled \in [Chans -> Nat]
    /\ flags \in SUBSET Flags /\ work \in BOOLEAN
    /\ bus \in {"free", "work", "irq"} /\ pc \in Stages /\ chan \in Chans
    /\ sending \in Nat /\ back \in Stages \ {"write", "reading", "idle", "claim"}
    /\ bcnPend \in BOOLEAN /\ count \in Nat
    /\ reserved \in Nat /\ cached \in Nat /\ populated \in Nat
    /\ free \in Nat /\ lost \in Nat
    /\ stopped \in BOOLEAN /\ lastEv \in {"pause", "resume"} /\ late \in BOOLEAN
    /\ toHost \in Nat
    /\ irq \in SUBSET {"rx", "ret", "bcn"} /\ seen \in SUBSET {"rx", "ret", "bcn"}
    /\ rxq \in Nat /\ dispatch \in BOOLEAN /\ running \in BOOLEAN /\ tasklet \in BOOLEAN
    /\ errors \in Nat /\ oversize \in Nat /\ rxCleared \in BOOLEAN

-----------------------------------------------------------------------------
\* Every page to the chip is in one place, and the fifos hold what they were
\* made for, whatever write or put of morse_pageset_write() fails.
PagesConserved ==
    /\ reserved + cached + populated + free + lost = NumPages
    /\ reserved <= CmdRsvedPagesMax /\ cached <= CachedPagesMax

\* A page is lost only with a packet that does not fit it, after it was taken,
\* or when the chip refuses it twice; never when pages return.
LostOnlyByFault == lost <= oversize + errors

\* Every page is in one place, the fifos hold no more than they can, and no
\* page is lost without a fault, whatever write, put or read fails.
PagesKept == PagesConserved /\ LostOnlyByFault

\* The pages morse_pageset_num_pages() counts before the dequeue are there when
\* morse_pageset_write() takes them, reserved or cached: no packet is dropped
\* for want of one.
PageForEachPacket ==
    pc = "write" /\ sending > 0 =>
        sending <= cached + CASE chan = "cmd" -> reserved
                              [] chan = "bcn" -> IF reserved > 1 THEN reserved - 1 ELSE 0
                              [] OTHER -> 0

\* "Always hold at least one reserved page for commands": beacons leave one,
\* management frames and data take none.
LastReservedForCommand ==
    [][reserved' < reserved => chan = "cmd" \/ (chan = "bcn" /\ reserved' >= 1)]_vars

\* Nothing is under way in the driver and the chip has nothing to send: what
\* happens next comes from outside.
Quiet ==
    /\ ~work /\ pc = "idle" /\ bus = "free" /\ irq = {}
    /\ ~dispatch /\ ~running /\ ~tasklet /\ populated = 0
    /\ \A c \in Chans : unsignalled[c] = 0

Faulty == errors > 0 \/ oversize > 0

\* Work is left behind at rest only after a fault, or where the code gives up an
\* event: received pages when the second receive handler's test cleared it,
\* data and the state of the traffic when a pause met a resume and the driver
\* logged that it was too slow.
NoLostWakeup ==
    Quiet =>
        /\ toHost = 0 \/ rxCleared \/ Faulty
        /\ \A c \in Chans : q[c] > 0 => Faulty \/ (c = "data" /\ (stopped \/ late))
        /\ free = 0 \/ Faulty
        /\ stopped = (lastEv = "pause") \/ late

\* The chip work, the interrupts and the receive work, which all wake the chip
\* work, do not keep each other busy: once nothing comes from outside they rest.
ComesToRest == <>[]Quiet
=============================================================================
