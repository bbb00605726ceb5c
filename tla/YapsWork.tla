------------------------------ MODULE YapsWork ------------------------------
(****************************************************************************)
(* The chip interface work of the YAPS interface (yaps.c, MM8108) and what  *)
(* wakes it:                                                                *)
(*                                                                          *)
(*   - senders put a packet into a queue and signal it    (Put, Signal)     *)
(*   - the work item morse_yaps_work(), step by step      (Start ... End)   *)
(*   - the interrupt handler, which needs the bus          (Irq)            *)
(*   - the receive work (net_wq), which also applies the firmware's traffic *)
(*     control events                                      (Dispatch...)    *)
(*   - the timer that retries when the chip's queue was full (TimerFire)    *)
(*                                                                          *)
(* Queues are counted: their order is the subject of SkbQueue.  Queue work  *)
(* is idempotent, so a work item is queued or it is not.                    *)
(* The queues of received data and of responses are one queue here.         *)
(****************************************************************************)
EXTENDS Naturals, Sequences, Functions

CONSTANTS
    DataQs,      \* the data queues, highest priority first
    Supply,      \* how many packets each queue is going to be given
    Burst,       \* MAX_PKTS_PER_TX_TXN
    RxBurst,     \* packets that fit the receive window
    ChipSize,    \* packets each queue of the chip holds
    MaxInputs,   \* bound on the messages of the firmware and failing bus
                 \* transfers together
    PromptFlow   \* a traffic event follows the last one only once it is applied

Others == {"cmd", "bcn", "mgmt"}
Chans == Others \cup Range(DataQs)
ChipQs == Others \cup {"tx"}
Flags == Others \cup {"rx", "data", "freed", "pause", "resume"}
\* Where the work is when it is not at one of the queues.
Stages == {"idle", "rx", "write", "pause", "resume", "full", "data", "dataend", "end"}

ASSUME YapsWorkAssumption ==
    /\ DataQs \in Seq(STRING) /\ DataQs # <<>>
    /\ \A i, j \in DOMAIN DataQs : DataQs[i] = DataQs[j] => i = j
    /\ Range(DataQs) \cap (Others \cup Stages) = {}
    /\ Supply \in [Chans -> Nat]
    /\ Burst \in Nat \ {0} /\ RxBurst \in Nat \ {0} /\ ChipSize \in Nat \ {0}
    /\ MaxInputs \in Nat /\ PromptFlow \in BOOLEAN

VARIABLES
    supply,     \* packets still to come, per queue
    q,          \* packets in each queue of the driver
    unsignalled,\* packets put and not signalled yet, per queue
    flags,      \* chip_if->event_flags
    work,       \* chip_if_work is queued
    pc,         \* where the work is; it holds the bus unless "idle"
    chan,       \* the queue it is sending from
    sending,    \* packets in its local list
    more,       \* the data handler counted packets that remain
    isFull,     \* chip_queue_full.is_full
    timer,      \* chip_queue_full.timer is armed
    past,       \* jiffies is not before retry_expiry
    stopped,    \* MORSE_STATE_FLAG_DATA_TX_STOPPED
    onChip,     \* packets in each queue of the chip
    irq,        \* interrupts the chip has raised
    toHost,     \* messages the chip holds for the driver
    rxq,        \* messages in the driver's receive queue
    dispatch,   \* the queue's dispatch_work is queued
    handling,   \* the dispatch work's local list
    running,    \* it is running
    msgs,       \* messages sent by the firmware
    lastEv,     \* the last traffic event among them
    errors      \* bus transfers that failed

senders == <<supply, q, unsignalled>>
worker == <<pc, chan, sending, more>>
full == <<isFull, timer, past>>
chip == <<onChip, irq, toHost, msgs, lastEv>>
host == <<rxq, dispatch, handling, running>>
vars == <<senders, flags, work, worker, full, stopped, chip, host, errors>>

Min2(a, b) == IF a < b THEN a ELSE b

ChipQ(c) == IF c \in Others THEN c ELSE "tx"
FlagOf(c) == IF c \in Others THEN c ELSE "data"

MoreInputs == msgs + errors < MaxInputs

\* morse_is_data_tx_allowed().
Allowed == ~stopped /\ "pause" \notin flags

-----------------------------------------------------------------------------
Init ==
    /\ supply = Supply /\ q = [c \in Chans |-> 0]
    /\ unsignalled = [c \in Chans |-> 0]
    /\ flags = {} /\ work = FALSE
    /\ pc = "idle" /\ chan = "cmd" /\ sending = 0 /\ more = FALSE
    /\ isFull = FALSE /\ timer = FALSE /\ past = TRUE
    /\ stopped = FALSE
    /\ onChip = [t \in ChipQs |-> 0] /\ irq = {} /\ toHost = <<>>
    /\ msgs = 0 /\ lastEv = "resume"
    /\ rxq = <<>> /\ dispatch = FALSE /\ handling = <<>> /\ running = FALSE
    /\ errors = 0

-----------------------------------------------------------------------------
\* morse_skbq_tx(): the packet is put under the queue's lock, and signalled
\* after it: a data packet only while data may be sent.
Put(c) ==
    /\ supply[c] > 0
    /\ supply' = [supply EXCEPT ![c] = @ - 1]
    /\ q' = [q EXCEPT ![c] = @ + 1]
    /\ unsignalled' = [unsignalled EXCEPT ![c] = @ + 1]
    /\ UNCHANGED <<flags, work, worker, full, stopped, chip, host, errors>>

Signal(c) ==
    /\ unsignalled[c] > 0
    /\ unsignalled' = [unsignalled EXCEPT ![c] = @ - 1]
    /\ IF c \in Others \/ Allowed
       THEN flags' = flags \cup {FlagOf(c)} /\ work' = TRUE
       ELSE UNCHANGED <<flags, work>>
    /\ UNCHANGED <<supply, q, worker, full, stopped, chip, host, errors>>

-----------------------------------------------------------------------------
\* The work item starts: without an event it returns.
Start ==
    /\ work /\ pc = "idle"
    /\ work' = FALSE
    /\ pc' = IF flags = {} THEN "idle" ELSE "rx"
    /\ UNCHANGED <<senders, flags, chan, sending, more, full, stopped, chip, host, errors>>

\* morse_yaps_rx_handler(): what fits the window is read and dispatched; the
\* event stays when there was more, or no memory, but not when the bus failed.
Rx ==
    /\ pc = "rx"
    /\ pc' = "cmd"
    /\ \/ /\ "rx" \notin flags
          /\ UNCHANGED <<flags, toHost, rxq, dispatch, errors>>
       \/ /\ "rx" \in flags
          /\ LET n == Min2(Len(toHost), RxBurst) IN
             /\ rxq' = rxq \o SubSeq(toHost, 1, n)
             /\ toHost' = SubSeq(toHost, n + 1, Len(toHost))
             /\ dispatch' = (dispatch \/ n > 0)
          /\ flags' = IF toHost' = <<>> THEN flags \ {"rx"} ELSE flags
          /\ UNCHANGED errors
       \/ /\ "rx" \in flags /\ MoreInputs
          /\ flags' \in {flags, flags \ {"rx"}}
          /\ errors' = errors + 1
          /\ UNCHANGED <<toHost, rxq, dispatch>>
    /\ UNCHANGED <<senders, work, chan, sending, more, full, stopped, onChip, irq,
                   msgs, lastEv, handling, running>>

After(c) == CASE c = "cmd" -> "bcn" [] c = "bcn" -> "mgmt" [] c = "mgmt" -> "pause"

\* The handlers of commands, beacons and management frames, up to the dequeue:
\* old management frames are purged first.
TxOther(c) ==
    /\ pc = c
    /\ flags' = flags \ {c}
    /\ IF c \in flags /\ q[c] > 0
       THEN \E aged \in IF c = "mgmt" THEN 0 .. q[c] ELSE {0} :
            /\ chan' = c
            /\ sending' = Min2(q[c] - aged, Burst)
            /\ q' = [q EXCEPT ![c] = @ - aged - sending']
            /\ pc' = "write"
       ELSE /\ pc' = After(c)
            /\ UNCHANGED <<chan, sending, q>>
    /\ UNCHANGED <<supply, unsignalled, work, more, full, stopped, chip, host, errors>>

\* What follows a send from the queue chan: its event is set again when packets
\* remain, or, for a data queue, the next one is tried unless the send failed.
NextDataQ(c) ==
    LET i == CHOOSE j \in DOMAIN DataQs : DataQs[j] = c
    IN  IF i < Len(DataQs) THEN DataQs[i + 1] ELSE "dataend"

Sent(failed) ==
    IF chan \in Others
    THEN /\ flags' = IF q'[chan] > 0 THEN flags \cup {chan} ELSE flags
         /\ pc' = After(chan)
         /\ UNCHANGED <<more, isFull>>
    ELSE /\ more' = (more \/ q'[chan] > 0)
         /\ isFull' = failed
         /\ pc' = IF failed THEN "dataend" ELSE NextDataQ(chan)
         /\ UNCHANGED flags

\* morse_yaps_tx() after the dequeue, with morse_yaps_hw_write_pkts(): what the
\* chip has room for is written and the rest goes back to the queue.  The send
\* fails when nothing fitted; when a part did, the -EAGAIN of the rest is
\* overwritten.
Write ==
    LET n == Min2(sending, ChipSize - onChip[ChipQ(chan)]) IN
    /\ pc = "write"
    /\ q' = [q EXCEPT ![chan] = @ + (sending - n)]
    /\ onChip' = [onChip EXCEPT ![ChipQ(chan)] = @ + n]
    /\ Sent(n = 0)
    /\ sending' = 0
    /\ UNCHANGED <<supply, unsignalled, work, chan, timer, past, stopped, irq, toHost,
                   msgs, lastEv, host, errors>>

\* update_status() fails and the local list is leaked, or the last transfer
\* fails and its packets count as sent.
WriteError ==
    /\ pc = "write" /\ MoreInputs
    /\ errors' = errors + 1
    /\ UNCHANGED q
    /\ Sent(TRUE)
    /\ sending' = 0
    /\ UNCHANGED <<supply, unsignalled, work, chan, timer, past, stopped, chip, host>>

-----------------------------------------------------------------------------
\* The pause event wins over a resume event that is there already.
PauseTakesBoth ==
    /\ pc = "pause"
    /\ pc' = "resume"
    /\ flags' = flags \ {"pause", "resume"}
    /\ stopped' = (stopped \/ "pause" \in flags)
    /\ UNCHANGED <<senders, work, chan, sending, more, full, chip, host, errors>>
Pause ==
    /\ pc = "pause"
    /\ pc' = "resume"
    /\ IF "pause" \in flags
       THEN flags' = flags \ {"pause", "resume"} /\ stopped' = TRUE
       ELSE UNCHANGED <<flags, stopped>>
    /\ UNCHANGED <<senders, work, chan, sending, more, full, chip, host, errors>>

\* morse_skbq_data_traffic_resume() kicks the transmission.
ResumeNoKick ==
    /\ pc = "resume"
    /\ pc' = "full"
    /\ flags' = flags \ {"resume"}
    /\ stopped' = (stopped /\ "resume" \notin flags)
    /\ UNCHANGED <<senders, work, chan, sending, more, full, chip, host, errors>>
Resume ==
    /\ pc = "resume"
    /\ pc' = "full"
    /\ IF "resume" \in flags
       THEN flags' = (flags \ {"resume"}) \cup {"data"} /\ stopped' = FALSE
       ELSE UNCHANGED <<flags, stopped>>
    /\ UNCHANGED <<senders, work, chan, sending, more, full, chip, host, errors>>

\* Data is left alone while the chip's queue is full and the retry time has not
\* come.
CheckFull ==
    /\ pc = "full"
    /\ flags' = flags \ {"freed"}
    /\ isFull' = (isFull /\ "freed" \notin flags)
    /\ pc' = IF isFull' /\ ~past THEN "end" ELSE "data"
    /\ UNCHANGED <<senders, work, chan, sending, more, timer, past, stopped, chip, host, errors>>

Data ==
    /\ pc = "data"
    /\ IF "data" \in flags
       THEN /\ flags' = flags \ {"data"}
            /\ more' = FALSE
            /\ pc' = Head(DataQs)
       ELSE /\ pc' = "end"
            /\ UNCHANGED <<flags, more>>
    /\ UNCHANGED <<senders, work, chan, sending, full, stopped, chip, host, errors>>

\* One turn of the loop of morse_yaps_tx_data_handler(), up to the dequeue.
TxData(c) ==
    /\ pc = c
    /\ IF Allowed /\ q[c] > 0
       THEN /\ chan' = c
            /\ sending' = Min2(q[c], Burst)
            /\ q' = [q EXCEPT ![c] = @ - sending']
            /\ pc' = "write"
            /\ UNCHANGED isFull
       ELSE /\ pc' = IF Allowed THEN NextDataQ(c) ELSE "dataend"
            /\ isFull' = (isFull /\ ~Allowed)
            /\ UNCHANGED <<chan, sending, q>>
    /\ UNCHANGED <<supply, unsignalled, flags, work, more, timer, past, stopped, chip, host, errors>>

\* The data event is set again when packets remain and may be sent, and the
\* retry timer is armed when the chip's queue is full.
DataEnd ==
    /\ pc = "dataend"
    /\ flags' = IF more /\ Allowed THEN flags \cup {"data"} ELSE flags
    /\ timer' = (timer \/ isFull)
    /\ past' = (past /\ ~isFull)
    /\ pc' = "end"
    /\ UNCHANGED <<senders, work, chan, sending, more, isFull, stopped, chip, host, errors>>

\* The bus is released, and the work queued again for every event but data on a
\* full queue.
Again == flags \ {"data"} # {} \/ (~isFull /\ flags # {})

End ==
    /\ pc = "end"
    /\ pc' = "idle"
    /\ work' = (work \/ Again)
    /\ UNCHANGED <<senders, flags, chan, sending, more, full, stopped, chip, host, errors>>

-----------------------------------------------------------------------------
\* jiffies reaches retry_expiry; the timer goes off then or later.
RetryTime ==
    /\ ~past
    /\ past' = TRUE
    /\ UNCHANGED <<senders, flags, work, worker, isFull, timer, stopped, chip, host, errors>>

TimerFire ==
    /\ timer /\ past
    /\ timer' = FALSE
    /\ work' = TRUE
    /\ UNCHANGED <<senders, flags, worker, isFull, past, stopped, chip, host, errors>>

\* yaps_irq_handler(), with the bus: no need for the timer when room came up.
IrqNoFreed ==
    /\ irq # {} /\ pc = "idle"
    /\ flags' = flags \cup (irq \ {"freed"})
    /\ timer' = (timer /\ "freed" \notin irq)
    /\ irq' = {}
    /\ work' = TRUE
    /\ UNCHANGED <<senders, worker, isFull, past, stopped, onChip, toHost, msgs, lastEv, host, errors>>
Irq ==
    /\ irq # {} /\ pc = "idle"
    /\ flags' = flags \cup irq
    /\ timer' = (timer /\ "freed" \notin irq)
    /\ irq' = {}
    /\ work' = TRUE
    /\ UNCHANGED <<senders, worker, isFull, past, stopped, onChip, toHost, msgs, lastEv, host, errors>>

\* The chip takes a packet out of one of its queues.  It may or may not tell.
ChipTake(t) ==
    /\ onChip[t] > 0
    /\ onChip' = [onChip EXCEPT ![t] = @ - 1]
    /\ irq' \in {irq, irq \cup {"freed"}}
    /\ UNCHANGED <<senders, flags, work, worker, full, stopped, toHost, msgs, lastEv, host, errors>>

\* The firmware sends a packet or a traffic control event.
ChipSend(m) ==
    /\ MoreInputs
    /\ m # "packet" =>
         /\ m # lastEv
         /\ PromptFlow => (stopped <=> lastEv = "pause") /\ flags \cap {"pause", "resume"} = {}
    /\ msgs' = msgs + 1
    /\ toHost' = Append(toHost, m)
    /\ irq' = irq \cup {"rx"}
    /\ lastEv' = IF m = "packet" THEN lastEv ELSE m
    /\ UNCHANGED <<senders, flags, work, worker, full, stopped, onChip, host, errors>>

\* morse_skbq_dispatch_work(): all that is in the queue is handled, a traffic
\* control event by setting its flag, and the receive event is set.
DispatchStart ==
    /\ dispatch /\ ~running
    /\ dispatch' = FALSE /\ running' = TRUE
    /\ handling' = rxq /\ rxq' = <<>>
    /\ UNCHANGED <<senders, flags, work, worker, full, stopped, chip, errors>>

DispatchPauses ==
    /\ running /\ handling # <<>>
    /\ handling' = Tail(handling)
    /\ flags' = flags \cup ({Head(handling)} \ {"packet"})
    /\ work' = (work \/ Head(handling) # "packet")
    /\ stopped' = (stopped \/ Head(handling) = "pause")
    /\ UNCHANGED <<senders, worker, full, chip, rxq, dispatch, running, errors>>
DispatchMsg ==
    /\ running /\ handling # <<>>
    /\ handling' = Tail(handling)
    /\ flags' = flags \cup ({Head(handling)} \ {"packet"})
    /\ work' = (work \/ Head(handling) # "packet")
    /\ UNCHANGED <<senders, worker, full, stopped, chip, rxq, dispatch, running, errors>>

DispatchEnd ==
    /\ running /\ handling = <<>>
    /\ running' = FALSE
    /\ flags' = flags \cup {"rx"} /\ work' = TRUE
    /\ UNCHANGED <<senders, worker, full, stopped, chip, rxq, dispatch, handling, errors>>

-----------------------------------------------------------------------------
WorkStep ==
    \/ Start \/ Rx \/ (\E c \in Others : TxOther(c)) \/ Write
    \/ Pause \/ Resume \/ CheckFull \/ Data
    \/ (\E c \in Range(DataQs) : TxData(c)) \/ DataEnd \/ End

DispatchStep == DispatchStart \/ DispatchMsg \/ DispatchEnd

Next ==
    \/ \E c \in Chans : Put(c) \/ Signal(c)
    \/ WorkStep \/ WriteError
    \/ RetryTime \/ TimerFire \/ Irq
    \/ \E t \in ChipQs : ChipTake(t)
    \/ \E m \in {"packet", "pause", "resume"} : ChipSend(m)
    \/ DispatchStep

Spec == Init /\ [][Next]_vars

\* The kernel runs a queued work item and its timers, a sender signals what it
\* put, and the chip goes on sending.  The interrupt waits for the bus, which
\* the work gives back on every pass.  Nothing makes a sender put a packet, the
\* firmware send a message or the bus fail.
FairSpec ==
    /\ Spec
    /\ WF_vars(WorkStep) /\ WF_vars(DispatchStep)
    /\ WF_vars(RetryTime) /\ WF_vars(TimerFire) /\ SF_vars(Irq)
    /\ \A c \in Chans : WF_vars(Signal(c))
    /\ \A t \in ChipQs : WF_vars(ChipTake(t))

-----------------------------------------------------------------------------
Msgs == {"packet", "pause", "resume"}

\* The values the state takes: the chip's queues never hold more than they can,
\* whatever the work writes.
TypeOK ==
    /\ supply \in [Chans -> Nat] /\ q \in [Chans -> Nat]
    /\ unsignalled \in [Chans -> Nat]
    /\ flags \subseteq Flags
    /\ work \in BOOLEAN /\ more \in BOOLEAN /\ isFull \in BOOLEAN
    /\ timer \in BOOLEAN /\ past \in BOOLEAN /\ stopped \in BOOLEAN
    /\ pc \in Stages \cup Chans
    /\ chan \in Chans /\ sending \in 0 .. Burst
    /\ onChip \in [ChipQs -> 0 .. ChipSize]
    /\ irq \subseteq {"rx", "freed"}
    /\ toHost \in Seq(Msgs) /\ rxq \in Seq(Msgs) /\ handling \in Seq(Msgs)
    /\ dispatch \in BOOLEAN /\ running \in BOOLEAN
    /\ msgs \in Nat /\ errors \in Nat
    /\ lastEv \in {"pause", "resume"}

\* Someone is going to send what is in queue c: the work is queued or under way
\* or, for data, the retry timer is armed or the traffic is paused.
Awake(c) ==
    \/ work \/ pc # "idle"
    \/ c \in Range(DataQs) /\ (stopped \/ (isFull /\ timer))

\* A packet that was put and signalled is never left in its queue with nobody to
\* send it, however the signals, the work, the timer and the interrupts fall:
\* the event flags and the two conditions that queue the work again (yaps.c,
\* end of morse_yaps_work()) lose none.  A failed bus transfer may leave one.
NoLostWakeup ==
    errors = 0 => \A c \in Chans : q[c] > 0 /\ unsignalled[c] = 0 => Awake(c)

\* Once data traffic is paused the chip gets no data packet before it is
\* resumed, although the pause comes from another work item while packets are
\* being sent: only the chip's own work may stop the traffic (skbq.h).
NoDataWhilePaused ==
    [][onChip'["tx"] > onChip["tx"] => ~stopped /\ ~stopped']_vars

\* Without bus errors every queue empties, save the data queues while the
\* firmware keeps data paused: the full chip queue, the retry timer and the
\* partly written bursts all end in another try.
Drained ==
    <>[](errors = 0 => \A c \in Chans : q[c] = 0 \/ (c \in Range(DataQs) /\ stopped))

\* Data traffic ends up in the state the last traffic event asked for: "the LMAC
\* will eventually send the TWT traffic event to unblock TX" (mac.c).
FlowFollows ==
    <>[](errors = 0 => (stopped <=> lastEv = "pause"))
=============================================================================
