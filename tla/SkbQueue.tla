------------------------------ MODULE SkbQueue ------------------------------
(***************************************************************************)
(* One transmit queue of the driver (struct morse_skbq, skbq.c) with the   *)
(* actors that share it:                                                   *)
(*                                                                         *)
(*   - mac80211 and the driver hand packets in: put, stop mac80211 when    *)
(*     the queue got long, signal the work      (Tx, TxStop, TxSignal)     *)
(*   - the chip interface work moves them to the chip, in several lock     *)
(*     regions (TxStart, Write, TxComplete, ArmTimer), and decides whether *)
(*     it has to come back and whether mac80211 may go on                  *)
(*     (Count, CheckThreshold, Wake, TxEnd)                                *)
(*   - the network work processes the chip's reports  (TxStatus)           *)
(*   - the stale-status timer and its work            (TimerFire,          *)
(*     StaleWork)                                                          *)
(*   - a driver restart or teardown flushes the queue (Flush)              *)
(*                                                                         *)
(* A packet is the number of the transmit call that brought it; its header *)
(* carries pkt_id, that number modulo IdMod (2^32 in the code).  All       *)
(* packets have length one.  The pending list is a set: the code walks it  *)
(* only to find an identifier or an expired packet.                        *)
(***************************************************************************)
EXTENDS Naturals, Sequences, Functions

CONSTANTS
    MaxPkts,       \* bound on the transmit calls of a behaviour
    IdMod,         \* pkt_id is computed modulo this
    QueueLimit,    \* MORSE_SKBQ_SIZE, in packets
    MaxTxqLen,     \* the module parameter max_txq_len; 0 means "by space"
    StopSpace,     \* the 2 KiB below which queues stop when max_txq_len is 0
    WakeSpace,     \* the 5 KiB above which they wake when max_txq_len is 0
    Burst,         \* packets the chip interface takes in one pass
    ChipIf,        \* "pageset" (MM6108) or "yaps" (MM8108)
    Queue,         \* "data" or "mgmt"
    PsFilter,      \* "unsupported", "station" or "ap": the VIF of the packets
    NoReport,      \* packets sent with MORSE_TX_STATUS_FLAGS_NO_REPORT
    MaxFiltered,   \* bound on the PS_FILTERED reports of a behaviour
    MaxRestarts,   \* bound on the restarts of a behaviour
    Callers        \* transmit calls under way at the same time, at most

ASSUME SkbQueueAssumption ==
    /\ MaxPkts \in Nat /\ IdMod \in Nat \ {0}
    /\ QueueLimit \in Nat /\ MaxTxqLen \in Nat
    /\ StopSpace \in Nat /\ WakeSpace \in Nat
    /\ Burst \in Nat \ {0}
    /\ ChipIf \in {"pageset", "yaps"}
    /\ Queue \in {"data", "mgmt"}
    /\ PsFilter \in {"unsupported", "station", "ap"}
    /\ MaxFiltered \in Nat /\ MaxRestarts \in Nat /\ Callers \in Nat

Pkts == 0 .. (MaxPkts - 1)

VARIABLES
    born,          \* transmit calls so far (mq->pkt_seq before it wraps)
    skbq,          \* mq->skbq: packets waiting to be sent
    sending,       \* the work item's local list skbq_to_send
    sent,          \* the work item's local list skbq_sent
    pending,       \* mq->pending: packets sent, waiting for a status
    freed,         \* packets given back to the kernel
    leaked,        \* packets on no list any more and never freed
    putback,       \* (history) packets of skbq that came back from pending
    chip,          \* packets the chip holds and has not reported
    reports,       \* statuses on their way to the driver
    stale,         \* pending packets whose tx_status_expiry is past
    unarmed,       \* pending packets added since the timer was last armed
    timer,         \* stale_status.timer is armed
    stalework,     \* tx_stale_work is queued
    pc,            \* where the chip interface work is
    left,          \* the handler counted packets it leaves behind
    stopping,      \* calls past the queue's lock that will stop mac80211
    signalling,    \* calls past the queue's lock that will signal the work
    signalled,     \* MORSE_TX_DATA_PEND or MORSE_TX_MGMT_PEND
    stopped,       \* the mac80211 queues are stopped
    unresponsive,  \* MORSE_STATE_FLAG_CHIP_UNRESPONSIVE
    filtered,      \* PS_FILTERED reports so far
    restarts       \* restarts so far

calls == <<stopping, signalling>>
flow == <<calls, signalled, left, stopped>>
status == <<chip, reports, stale, unarmed, timer, stalework>>

vars == <<born, skbq, sending, sent, pending, freed, leaked, putback, status,
          pc, flow, unresponsive, filtered, restarts>>

\* "ok" stands for every status that ends the packet: sent, failed, an invalid
\* page, no duty cycle left.  "filtered" is PS_FILTERED.
ReportKind == {"ok", "filtered"}

-----------------------------------------------------------------------------
(* The queue operations.                                                   *)

Id(p) == p % IdMod

Space(q) == QueueLimit - Len(q)

\* __morse_skbq_put() refuses a packet.
Full(q) == Len(q) >= QueueLimit

OverThreshold(q) ==
    IF MaxTxqLen > 0 THEN Len(q) >= MaxTxqLen ELSE Len(q) + StopSpace >= QueueLimit

\* max_txq_len - 2 is unsigned: with 1 it wraps and every length is below it.
UnderThreshold(q) ==
    IF MaxTxqLen > 0
    THEN MaxTxqLen = 1 \/ Len(q) + 2 < MaxTxqLen
    ELSE Len(q) + WakeSpace <= QueueLimit

\* Where insert_pending_skb_to_skbq() puts a packet: behind the tail, or in
\* front of the first packet whose identifier is not smaller.  (InsertPosAtTail,
\* and the like below, is a faulty variant of what follows it.)
InsertPosAtTail(q, p) == Len(q) + 1
InsertPos(q, p) ==
    IF q = <<>> \/ Id(p) >= Id(q[Len(q)])
    THEN Len(q) + 1
    ELSE CHOOSE i \in 1 .. Len(q) :
            /\ Id(p) <= Id(q[i])
            /\ \A j \in 1 .. (i - 1) : Id(q[j]) < Id(p)

Prefix(q, n) == SubSeq(q, 1, n)
Rest(q, n) == SubSeq(q, n + 1, Len(q))

-----------------------------------------------------------------------------
Init ==
    /\ born = 0
    /\ skbq = <<>> /\ sending = <<>> /\ sent = {} /\ pending = {}
    /\ freed = {} /\ leaked = {} /\ putback = {}
    /\ chip = {} /\ reports = {} /\ stale = {} /\ unarmed = {}
    /\ timer = FALSE /\ stalework = FALSE /\ pc = "idle"
    /\ left = FALSE /\ stopping = 0 /\ signalling = 0 /\ signalled = FALSE
    /\ stopped = FALSE /\ unresponsive = FALSE
    /\ filtered = 0 /\ restarts = 0

\* morse_skbq_tx() under the lock: put the packet at the tail and give it the
\* next identifier even when the put failed; what the call does after the unlock
\* depends on the threshold it saw.  Nothing here asks whether mac80211 is
\* stopped or the chip unresponsive: morse_skbq_skb_tx() did, before the lock.
Tx ==
    /\ born < MaxPkts /\ stopping + signalling < Callers
    /\ born' = born + 1
    /\ \/ Full(skbq) /\ freed' = freed \cup {born} /\ UNCHANGED skbq
       \/ ~Full(skbq) /\ skbq' = Append(skbq, born) /\ UNCHANGED freed
    /\ IF Queue = "data" /\ OverThreshold(skbq')
       THEN stopping' = stopping + 1 /\ UNCHANGED signalling
       ELSE signalling' = signalling + 1 /\ UNCHANGED stopping
    /\ UNCHANGED <<sending, sent, pending, leaked, putback, status, pc, signalled,
                   left, stopped, unresponsive, filtered, restarts>>

\* morse_skbq_stop_tx_queues(), by a call that saw the queue over its threshold.
TxStopUnsignalled ==
    /\ stopping > 0
    /\ stopping' = stopping - 1
    /\ stopped' = TRUE
    /\ UNCHANGED <<born, skbq, sending, sent, pending, freed, leaked, putback,
                   status, pc, signalling, signalled, left, unresponsive, filtered,
                   restarts>>
TxStop ==
    /\ stopping > 0
    /\ stopping' = stopping - 1 /\ signalling' = signalling + 1
    /\ stopped' = TRUE
    /\ UNCHANGED <<born, skbq, sending, sent, pending, freed, leaked, putback,
                   status, pc, signalled, left, unresponsive, filtered, restarts>>

\* The end of morse_skbq_tx(): set the event of the queue and queue the work.
TxSignal ==
    /\ signalling > 0
    /\ signalling' = signalling - 1
    /\ signalled' = TRUE
    /\ UNCHANGED <<born, skbq, sending, sent, pending, freed, leaked, putback,
                   status, pc, stopping, left, stopped, unresponsive, filtered,
                   restarts>>

\* morse_skbq_data_traffic_resume() sets the event too.  (That data waits between
\* a pause and its resume is modelled with the chip work.)
Resume ==
    /\ pc = "idle" /\ Queue = "data" /\ ~unresponsive
    /\ signalled' = TRUE
    /\ UNCHANGED <<born, skbq, sending, sent, pending, freed, leaked, putback,
                   status, pc, calls, left, stopped, unresponsive, filtered,
                   restarts>>

\* The chip work takes the event and runs the first half of morse_pageset_tx() or
\* morse_yaps_tx(): purge the aged head of a management queue, then dequeue up to
\* a burst into the local list.  n = 0 is a pass that found no page, or an empty
\* queue.
TxStart(aged, n) ==
    /\ pc = "idle" /\ signalled /\ ~unresponsive
    /\ signalled' = FALSE
    /\ aged > 0 => Queue = "mgmt"
    /\ aged + n <= Len(skbq)
    /\ sending' = Prefix(Rest(skbq, aged), n)
    /\ skbq' = Rest(Rest(skbq, aged), n)
    /\ freed' = freed \cup Range(Prefix(skbq, aged))
    /\ putback' = putback \cap Range(skbq')
    /\ pc' = IF n = 0 THEN "count" ELSE "write"
    /\ UNCHANGED <<born, sent, pending, leaked, status, calls, left, stopped,
                   unresponsive, filtered, restarts>>

\* pageset.c: every packet is written on its own; those that fail are purged.
WritePagesetKeepsFailed(ok) ==
    /\ ChipIf = "pageset"
    /\ ok \subseteq Range(sending)
    /\ sent' = ok
    /\ UNCHANGED <<freed, skbq, leaked>>
WritePageset(ok) ==
    /\ ChipIf = "pageset"
    /\ ok \subseteq Range(sending)
    /\ sent' = ok
    /\ freed' = freed \cup (Range(sending) \ ok)
    /\ UNCHANGED <<skbq, leaked>>

\* yaps.c: the first n packets are sent; the rest go back to the head of the
\* queue in their order, as many of the last ones as fit, and what does not
\* fit is purged.
RequeueBehind(q, failed) == q \o failed
Requeue(q, failed) ==
    LET fit == IF Len(failed) <= Space(q) THEN Len(failed) ELSE Space(q)
    IN  Rest(failed, Len(failed) - fit) \o q

WriteYaps(n) ==
    LET failed == Rest(sending, n)
    IN  /\ ChipIf = "yaps"
        /\ n \in 0 .. Len(sending)
        /\ sent' = Range(Prefix(sending, n))
        /\ skbq' = Requeue(skbq, failed)
        /\ freed' = freed \cup (Range(failed) \ Range(skbq'))
        /\ UNCHANGED leaked

\* yaps.c: update_status() fails and morse_yaps_tx() returns, its local list
\* with it.
StatusFails ==
    /\ ChipIf = "yaps"
    /\ sent' = {}
    /\ leaked' = leaked \cup Range(sending)
    /\ UNCHANGED <<skbq, freed>>

Write ==
    /\ pc = "write"
    /\ \/ \E ok \in SUBSET Range(sending) : WritePageset(ok)
       \/ \E n \in 0 .. Len(sending) : WriteYaps(n)
       \/ StatusFails
    /\ sending' = <<>>
    /\ pc' = IF sent' = {} THEN "count" ELSE "complete"
    /\ UNCHANGED <<born, pending, putback, status, flow, unresponsive, filtered,
                   restarts>>

\* morse_skbq_tx_complete() under the lock: a packet that gets no report is
\* freed, the others move to the pending list.
TxComplete ==
    /\ pc = "complete"
    /\ LET await == sent \ NoReport IN
         /\ pending' = pending \cup await
         /\ chip' = chip \cup await
         /\ unarmed' = unarmed \cup await
         /\ pc' = IF await = {} THEN "count" ELSE "arm"
    /\ freed' = freed \cup (sent \cap NoReport)
    /\ sent' = {}
    /\ UNCHANGED <<born, skbq, sending, leaked, putback, reports, stale, timer,
                   stalework, flow, unresponsive, filtered, restarts>>

\* The rest of morse_skbq_tx_complete(), after the unlock, arms the timer.
ArmTimerNever ==
    /\ pc = "arm" /\ pc' = "count"
    /\ UNCHANGED <<born, skbq, sending, sent, pending, freed, leaked, putback,
                   status, flow, unresponsive, filtered, restarts>>
ArmTimer ==
    /\ pc = "arm" /\ pc' = "count"
    /\ timer' = TRUE
    /\ unarmed' = {}
    /\ UNCHANGED <<born, skbq, sending, sent, pending, freed, leaked, putback,
                   chip, reports, stale, stalework, flow, unresponsive, filtered,
                   restarts>>

\* The handler of the event counts what it leaves behind.
Count ==
    /\ pc = "count"
    /\ left' = (skbq # <<>>)
    /\ pc' = IF Queue = "data" THEN "threshold" ELSE "end"
    /\ UNCHANGED <<born, skbq, sending, sent, pending, freed, leaked, putback,
                   status, calls, signalled, stopped, unresponsive, filtered,
                   restarts>>

\* morse_skbq_may_wake_tx_queues(), with this queue the only one, looks at the
\* threshold under the lock and wakes mac80211 after the unlock.
CheckThreshold ==
    /\ pc = "threshold"
    /\ pc' = IF UnderThreshold(skbq) THEN "wake" ELSE "end"
    /\ UNCHANGED <<born, skbq, sending, sent, pending, freed, leaked, putback,
                   status, flow, unresponsive, filtered, restarts>>

Wake ==
    /\ pc = "wake" /\ pc' = "end"
    /\ stopped' = FALSE
    /\ UNCHANGED <<born, skbq, sending, sent, pending, freed, leaked, putback,
                   status, calls, signalled, left, unresponsive, filtered,
                   restarts>>

\* The chip work sets the event again when the handler left packets.
TxEndForgets ==
    /\ pc = "end" /\ pc' = "idle"
    /\ signalled' = left
    /\ left' = FALSE
    /\ UNCHANGED <<born, skbq, sending, sent, pending, freed, leaked, putback,
                   status, calls, stopped, unresponsive, filtered, restarts>>
TxEnd ==
    /\ pc = "end" /\ pc' = "idle"
    /\ signalled' = (signalled \/ left)
    /\ left' = FALSE
    /\ UNCHANGED <<born, skbq, sending, sent, pending, freed, leaked, putback,
                   status, calls, stopped, unresponsive, filtered, restarts>>

-----------------------------------------------------------------------------
\* The chip reports a packet it holds, or loses the report.
ChipReport(p, kind) ==
    /\ p \in chip
    /\ kind = "filtered" => Queue = "data" /\ filtered < MaxFiltered
    /\ filtered' = IF kind = "filtered" THEN filtered + 1 ELSE filtered
    /\ chip' = chip \ {p}
    /\ reports' = reports \cup {[pkt |-> p, kind |-> kind]}
    /\ UNCHANGED <<born, skbq, sending, sent, pending, freed, leaked, putback, stale,
                   unarmed, timer, stalework, pc, flow, unresponsive,
                   restarts>>

ReportLost(p) ==
    /\ p \in chip
    /\ chip' = chip \ {p}
    /\ UNCHANGED <<born, skbq, sending, sent, pending, freed, leaked, putback, reports,
                   stale, unarmed, timer, stalework, pc, flow, unresponsive,
                   filtered, restarts>>

\* The packets __skbq_get_pending_by_id() drops while it looks for id.
WalkDropsOlder(id) == {q \in pending : Id(q) < id}
WalkDrops(id) == {q \in pending \cap stale : Id(q) < id}

\* insert_pending_skb_to_skbq(): unlink from pending, put into the queue.  The
\* result of the put is ignored: a full queue leaks the packet.  No event is set:
\* the packet waits for whoever signals the work next.
Rebuffer(p) ==
    IF Full(skbq)
    THEN leaked' = leaked \cup {p} /\ UNCHANGED <<skbq, putback>>
    ELSE LET i == InsertPos(skbq, p) IN
         /\ skbq' = (Prefix(skbq, i - 1) \o <<p>>) \o Rest(skbq, i - 1)
         /\ putback' = putback \cup {p}
         /\ UNCHANGED leaked

\* morse_skbq_tx_status_process() for one status r.  p is the packet whose
\* header carries the reported identifier, dropped the expired older packets
\* the walk met on its way to it: all of them when there is no such packet.
StatusOf(r, p, dropped) ==
    /\ p \in pending /\ Id(p) = Id(r.pkt)
    /\ dropped \subseteq WalkDrops(Id(r.pkt))
    /\ pending' = pending \ ({p} \cup dropped)
    /\ stale' = stale \ ({p} \cup dropped)
    /\ unarmed' = unarmed \ ({p} \cup dropped)
    /\ IF r.kind = "filtered" /\ PsFilter = "station"
       THEN freed' = freed \cup dropped /\ Rebuffer(p)
       ELSE freed' = freed \cup dropped \cup {p} /\ UNCHANGED <<skbq, leaked, putback>>

StatusUnmatched(r) ==
    /\ \A p \in pending : Id(p) # Id(r.pkt)
    /\ pending' = pending \ WalkDrops(Id(r.pkt))
    /\ stale' = stale \ WalkDrops(Id(r.pkt))
    /\ unarmed' = unarmed \ WalkDrops(Id(r.pkt))
    /\ freed' = freed \cup WalkDrops(Id(r.pkt))
    /\ UNCHANGED <<skbq, leaked, putback>>

TxStatus(r) ==
    /\ r \in reports
    /\ reports' = reports \ {r}
    /\ \/ \E p \in pending :
            \E dropped \in SUBSET WalkDrops(Id(r.pkt)) : StatusOf(r, p, dropped)
       \/ StatusUnmatched(r)
    /\ UNCHANGED <<born, sending, sent, chip, timer, stalework, pc, flow,
                   unresponsive, filtered, restarts>>

-----------------------------------------------------------------------------
\* tx_status_lifetime_ms passes for some pending packets.
Expire(p) ==
    /\ p \in pending \ stale
    /\ stale' = stale \cup {p}
    /\ UNCHANGED <<born, skbq, sending, sent, pending, freed, leaked, putback, chip,
                   reports, unarmed, timer, stalework, pc, flow,
                   unresponsive, filtered, restarts>>

\* morse_stale_tx_status_timer(): the timer was armed a lifetime after the last
\* packet that it covers, so every one of them has expired.
TimerFire ==
    /\ timer
    /\ timer' = FALSE
    /\ stale' = stale \cup (pending \ unarmed)
    /\ stalework' = (stalework \/ pending # {})
    /\ UNCHANGED <<born, skbq, sending, sent, pending, freed, leaked, putback, chip,
                   reports, unarmed, pc, flow, unresponsive, filtered,
                   restarts>>

\* morse_pagesets_stale_tx_work() and morse_skbq_check_for_stale_tx(): drop the
\* expired packets.
StaleWorkRetries ==
    /\ stalework /\ stalework' = FALSE
    /\ \E s \in stale :
         /\ pending' = pending \ {s}
         /\ stale' = stale \ {s} /\ unarmed' = unarmed \ {s}
         /\ Rebuffer(s)
    /\ UNCHANGED <<born, sending, sent, freed, chip, reports, timer, pc, flow,
                   unresponsive, filtered, restarts>>
StaleWork ==
    /\ stalework /\ stalework' = FALSE
    /\ pending' = pending \ stale
    /\ freed' = freed \cup stale
    /\ stale' = {}
    /\ unarmed' = unarmed \ stale
    /\ UNCHANGED <<born, skbq, sending, sent, leaked, putback, chip, reports, timer,
                   pc, flow, unresponsive, filtered, restarts>>

-----------------------------------------------------------------------------
\* morse_mac_driver_restart(): nothing is sent until the chip is back.
RestartBegin ==
    /\ ~unresponsive /\ restarts < MaxRestarts
    /\ unresponsive' = TRUE
    /\ restarts' = restarts + 1
    /\ UNCHANGED <<born, skbq, sending, sent, pending, freed, leaked, putback, chip,
                   reports, stale, unarmed, timer, stalework, pc, flow,
                   filtered>>

\* morse_mac_restart(): both work items are cancelled, the events are cleared,
\* morse_skbq_tx_flush() frees both lists, the chip is reset, the queues are
\* woken.  The statuses on their way stay: dispatch_work is not cancelled.
Flush ==
    /\ unresponsive /\ pc = "idle"
    /\ freed' = freed \cup pending \cup Range(skbq)
    /\ pending' = {} /\ skbq' = <<>> /\ stale' = {} /\ unarmed' = {}
    /\ putback' = {} /\ stalework' = FALSE
    /\ chip' = {}
    /\ stopped' = FALSE /\ unresponsive' = FALSE /\ signalled' = FALSE
    /\ UNCHANGED <<born, sending, sent, leaked, reports, timer, pc, calls, left,
                   filtered, restarts>>

-----------------------------------------------------------------------------
Next ==
    \/ Tx \/ TxStop \/ TxSignal \/ Resume
    \/ \E aged \in 0 .. Len(skbq), n \in 0 .. Burst : TxStart(aged, n)
    \/ Write \/ TxComplete \/ ArmTimer
    \/ Count \/ CheckThreshold \/ Wake \/ TxEnd
    \/ \E p \in Pkts, kind \in ReportKind : ChipReport(p, kind)
    \/ \E p \in Pkts : ReportLost(p) \/ Expire(p)
    \/ \E r \in reports : TxStatus(r)
    \/ TimerFire \/ StaleWork
    \/ RestartBegin \/ Flush

Spec == Init /\ [][Next]_vars

\* The single-threaded work queues run what is queued, a transmit call ends and
\* the timer goes off.  A pass starts while the event is set: a call that sets it
\* queues the work; a handler that leaves packets sets it for the next work that
\* anything queues: the interrupt of the chip that returns pages or has room, or
\* the watchdog's command.  Of these passes infinitely many find room on the chip,
\* and infinitely many writes send something.  Nothing is assumed of the chip's
\* reports, of new calls or of Resume.
Fairness ==
    /\ SF_vars(\E aged \in 0 .. Len(skbq), n \in 1 .. Burst : TxStart(aged, n))
    /\ WF_vars(\E aged \in 0 .. Len(skbq) : TxStart(aged, 0))
    /\ WF_vars(Write) /\ SF_vars(Write /\ sent' # {})
    /\ WF_vars(TxComplete) /\ WF_vars(ArmTimer)
    /\ WF_vars(Count) /\ WF_vars(CheckThreshold) /\ WF_vars(Wake) /\ WF_vars(TxEnd)
    /\ WF_vars(TxStop) /\ WF_vars(TxSignal)
    /\ WF_vars(TimerFire) /\ WF_vars(StaleWork)
    /\ WF_vars(\E r \in reports : TxStatus(r))
    /\ WF_vars(Flush)

FairSpec == Spec /\ Fairness

-----------------------------------------------------------------------------
NoDup(q) == \A i, j \in 1 .. Len(q) : q[i] = q[j] => i = j

\* Types, the bound __morse_skbq_put() keeps on the size of the queue, and the
\* local lists of the chip work: empty where the code has returned or spliced
\* them, as the handler's count is of no use before and after it.
TypeOK ==
    /\ born \in 0 .. MaxPkts
    /\ skbq \in Seq(Pkts) /\ Len(skbq) <= QueueLimit
    /\ sending \in Seq(Pkts) /\ sent \subseteq Pkts
    /\ pc # "write" => sending = <<>>
    /\ pc # "complete" => sent = {}
    /\ putback \subseteq Pkts
    /\ pending \subseteq Pkts /\ freed \subseteq Pkts /\ leaked \subseteq Pkts
    /\ chip \subseteq Pkts /\ reports \subseteq [pkt : Pkts, kind : ReportKind]
    /\ stale \subseteq pending /\ unarmed \subseteq pending
    /\ timer \in BOOLEAN /\ stalework \in BOOLEAN
    /\ pc \in {"idle", "write", "complete", "arm", "count", "threshold", "wake", "end"}
    /\ left \in BOOLEAN /\ (pc \notin {"threshold", "wake", "end"} => ~left)
    /\ stopping \in Nat /\ signalling \in Nat /\ stopping + signalling <= Callers
    /\ signalled \in BOOLEAN /\ stopped \in BOOLEAN /\ unresponsive \in BOOLEAN
    /\ filtered \in 0 .. MaxFiltered /\ restarts \in 0 .. MaxRestarts

\* Every packet handed in is in exactly one place, once: waiting in skbq, on a
\* local list of the chip work, pending, freed or leaked.  So no packet is freed
\* twice or sent from two lists, whatever the chip work, the statuses, the
\* stale work and the flush do to each other between their lock regions.
Ownership ==
    /\ NoDup(skbq) /\ NoDup(sending)
    /\ Range(skbq) \cap (Range(sending) \cup sent \cup pending \cup freed \cup leaked) = {}
    /\ Range(sending) \cap (sent \cup pending \cup freed \cup leaked) = {}
    /\ sent \cap (pending \cup freed \cup leaked) = {}
    /\ pending \cap (freed \cup leaked) = {}
    /\ freed \cap leaked = {}
    /\ Range(skbq) \cup Range(sending) \cup sent \cup pending \cup freed \cup leaked
         = 0 .. (born - 1)

\* No packet falls off every list without being freed: not so, a packet put back
\* into a full queue does (skbq.c ignores the result of the put), and so does a
\* burst whose YAPS status cannot be read.
NoLeak == leaked = {}

\* The chip work is at rest and nobody is about to signal it.
Unsignalled == pc = "idle" /\ ~signalled /\ stopping = 0 /\ signalling = 0

\* When the chip work rests and nobody will signal it, only packets that came
\* back from the pending list wait: every packet handed in, requeued after a
\* failed write or left behind by a pass has an event set for it, in whatever
\* order the calls' puts and signals meet the pass's dequeue, count and event.
OnlyPutBackWait == Unsignalled => Range(skbq) \subseteq putback

\* The queue is in the order of the transmit calls, re-buffered packets
\* included: insert_pending_skb_to_skbq() puts a PS-filtered packet back "to
\* correct spot in skbq".
Ordered == \A i, j \in 1 .. Len(skbq) : i < j => skbq[i] < skbq[j]

\* What the driver still has to send is not held by the chip and has no status
\* on its way: a status can not hit the second transmission of a packet.
NotSentTwice ==
    \A p \in Range(skbq) \cup Range(sending) \cup sent :
       p \notin chip /\ \A r \in reports : r.pkt # p

\* A packet leaves the pending list because its own status came, because its
\* own lifetime passed or because of a flush: never because a later packet's
\* status overtook its own ("Returned TX statuses may appear out-of-order").  The
\* comment of __skbq_get_pending_by_id() says otherwise: see OlderDropped.
PendingKept ==
    [][\A p \in pending \ pending' :
          \/ p \in stale
          \/ unresponsive
          \/ \E r \in reports \ reports' : Id(r.pkt) = Id(p)]_vars

\* "This will also drop frames with older packet ids that are in the list": not
\* so, only those that have expired (the comment is older than the expiry).
OlderDropped ==
    [][\A r \in reports \ reports' : \A p \in pending' : Id(p) >= Id(r.pkt)]_vars

\* Every packet handed in is released in the end, reports lost or not: the
\* stale-status timer is armed for every packet that waits for a status.  The
\* exception is a packet that insert_pending_skb_to_skbq() put back while nobody
\* signals the work.
Released ==
    <>[](\A p \in 0 .. (born - 1) :
            p \in freed \cup leaked \/ (Unsignalled /\ p \in putback))

\* The mac80211 queues do not stay stopped, although the stop, the look at the
\* threshold and the wake are apart: a call that stops them signals the work
\* afterwards.  The exception, again, are packets put back that nobody signals:
\* behind the handler's count they can keep the queue over its threshold.
QueuesWake == stopped ~> (~stopped \/ (Unsignalled /\ putback # {}))
=============================================================================
