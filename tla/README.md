# A TLA+ model of the Morse Micro Wi-Fi HaLow driver

The repository packages the Morse Micro sub-1 GHz Wi-Fi (802.11ah, "HaLow") stack
for Ubuntu: a Linux kernel driver (`src/driver/morse_driver-1.16.4`), a command line
tool, a vendored wpa_supplicant, firmware files and packaging.  Its own core logic is
the driver, and in the driver the part that moves packets and commands between
mac80211 and the chip: several contexts (senders, a bus work item, a network work
item, timers, an interrupt, a restart) share queues, flags and one pool of chip
memory, with locks that are taken and given back many times on the way of a packet.
That part is modelled here.  Paths below are relative to the driver's directory.

Contents: 1 the system, 2 plan, 3 modules and the code, 4 runs, bounds and fairness,
5 proofs, 6 what the models found, 7 what is left out.

## 1. The system

### Components

**Transmit queue** (`skbq.c`).  State: per queue a list `skbq` of packets to send, a
list `pending` of packets the chip has and has not reported, a byte count, a 32-bit
packet counter; for the driver a stale-status timer.  Operations: put, dequeue in
bursts, requeue at the head what could not be sent, purge the aged, complete (move to
`pending` or free), process a status report (free, or re-buffer a packet that power
save filtered), drop the expired, stop and wake the mac80211 queues, flush.  Hard: each
of these is one or two regions of the queue's spinlock, and they run in four contexts;
reports may be lost, be late or arrive in another order.  Correct when every packet has
exactly one owner and is released in the end, packets leave in order, a report never
hits a packet it is not about, and stopped queues wake.

**Commands** (`command.c`).  State: `cmd_wait` (one caller at a time), `cmd_lock`,
`cmd_comp` (a pointer to a completion on the caller's stack), the command queue, a
sequence number and a retry counter in `host_id`.  Operations: send and wait with a
timeout, retry, clean up; process an answer.  Hard: the answer races the timeout, a
retry races the answer to the original, the chip work purges what the answer is being
matched against.  Correct when a response buffer is written only while its caller
waits, with the answer to its command; a call that succeeds was answered; every call
returns.

**YAPS chip interface** (`yaps.c`, `yaps-hw.c`; MM8108).  State: event flags, the
"chip queue is full" record with its retry timer, the queues.  Operations: one work
item that receives, sends from each queue by priority, applies traffic pause and
resume, and decides whether to run again; the interrupt handler; the retry timer.
Hard: signals come while the work is half done, data must wait for room on a full
chip, writes may be partial.  Correct when no queued packet is left with nobody to send
it and a pause is obeyed.

**YAPS hardware layer** (`yaps-hw.c`, with its callers in `yaps.c`).  State: the status
registers as last read, which become the driver's own account of what the chip has room
for; a buffer each way; the packet arrays.  Packets are words in a stream, after a
delimiter.  Operations: read the status, read a window of the stream and split it into
packets, write packets a window at a time.  Hard: a packet may run off the window; a
transfer or an allocation fails half way; one packet of a call is marked to interrupt the
chip; the result of the last transfer replaces that of a packet that did not fit.  Correct
when each direction is a FIFO of whole packets.

**Page-set chip interface** (`pageset.c`; MM6108).  Same role over pages of chip
memory: a page is taken from a fifo of reserved or cached pages, filled, put into the
pager of populated pages, and comes back through the pager of free ones.  State: the two
fifos, event flags.  Hard: pages are counted before the dequeue and taken after it; a
transfer can fail after a page was taken; a beacon request interrupts the reading.
Correct when a page is in one place, a dequeued packet finds a page, one reserved page is
kept for commands, and no event is forgotten.

**Pagers** (`pager_if*.c`).  Hardware registers, or a ring buffer in shared memory,
that hand out and take back pages.  Correct when the ring is a FIFO.

**Restart and health check** (`mac.c`, `hw.c`, `command.c`).  State: `started`, bits of
`state_flags`, `user_coredump_comp`.  The restart stops the work items, flushes, makes
the coredump somebody asked for, reloads the firmware and has mac80211 start again; the
health check, the chip's own stop interrupt, debugfs and vendor commands ask for it.
Hard: they ask at any time, also while one runs, with and without `mors->lock`.  Correct
when a chip that hangs is recovered and each request is served by a restart of its own.

**Watchdog** (`watchdog.c`).  A timer with a count of consumers and a count of those who
have paused it, used by probe, restart, commands, traffic control and debugfs.  Correct
when it ticks for its consumers unless somebody has paused it.

**Power save** (`ps.c`).  A count of wakers; at zero, with nothing under way, the bus is
suspended and the wake pin lowered; an interrupt of the busy pin wakes it.  Hard: the
decision is made from flags and queues that change meanwhile, the interrupt takes no
lock, and the completion it uses is on the waker's stack.  Correct when calls are paired,
nobody uses a suspended bus, and the bus does get suspended.

**Hardware scan** (`hw_scan.c`).  A state, a completion, a timeout work.  Hard: the calls
of mac80211, the timeout, the done event of the chip (in the receive work, which also
delivers the answers commands wait for) and the restart all change the state.  Correct
when mac80211 hears once of the end of each scan and an event or timeout meets only its
own scan.

**TWT, RAW** (`twt.c`, `raw.c`).  Small state machines; each is
listed in `PROJECT.json` with its status.

**The rest**: bus drivers, firmware load, frame translation, element building, rate
control statistics, the vendored supplicant, packaging: transfers, conversions and
tables rather than protocols.

### How they interact

    mac80211 --Tx--> skbq --signal--> chip work (yaps / pageset) --bus--> chip
    callers --morse_cmd_tx--> cmd_q ----^             |   ^                 |
       ^                                              v   |                 |
       +--completion-- network work <--dispatch-- receive queue <--irq------+
                          |  statuses -> pending list of skbq
                          |  traffic events -> event flags of the chip work
    timers: command timeout, stale statuses, chip queue full
    watchdog --> health check --+
    stop interrupt, users ------+--> restart: cancels the chip work, flushes every
                                     queue, resets the chip, ends the scans
    every user of the chip --disable/enable--> power save --wake pin--> chip

Chip work and interrupt handler exclude each other by the bus claim.  Senders and
network work share with them only the queues' locks, `cmd_lock` and atomic bits.
`PROJECT.json` lists the hazards, each at the line where it bites.

## 2. Plan

Written so far, in this order: `SkbQueue` (what everything passes through), `Command`
with its abstract specification `CommandService`, `YapsWork`, `PagesetWork` (work item
and ownership of pages together, since what is lost depends on where the work is),
`Watchdog` and `Restart`, `HwScan`, `PowerSave`, `YapsRead` and `YapsWrite` with their
abstract specification `PacketStream`.

Each of them has its theorems (section 5): every safety property and every refinement that
a run checks is proved.

Next, in this order:

1. `PagerRing`: the software pager's ring, as an implementation of a FIFO.
2. A composition of `Restart` with `PagesetWork`: the dispatch work, which the restart
   does not cancel (`mac.c:6492`), and the event flags it sets while the chip is loaded.
3. `Twt` (its agreements and their work).
4. Pure algorithms (TIM, page slicing) against a reference definition.

## 3. Modules and the code

| Module | Code | What it is |
|---|---|---|
| `SkbQueue` | `skbq.c`; callers in `pageset.c`, `yaps.c`, `mac.c` | one transmit queue and the five contexts that share it |
| `Command` | `command.c:120-230, 600-700`, command queue of `skbq.c`, the chip work as seen from it | calls, chip work, answers |
| `CommandService` | | what `morse_cmd_tx()` promises; implemented by `Command` |
| `YapsWork` | `yaps.c`, `yaps-hw.c` (what a write leaves unsent) | the work item, step by step, and all that wakes it |
| `YapsHw` | | what the next two share: window, bounds, helpers |
| `YapsRead` | `yaps-hw.c:406-648`, receive handler of `yaps.c` | the stream from the chip, window by window |
| `YapsWrite` | `yaps-hw.c:222-381, 543-648`, `morse_yaps_tx()` of `yaps.c` | one queue's way into the chip; names shared with `YapsRead` begin with `tx` |
| `PacketStream` | | what either direction promises; implemented by `YapsRead` and by `YapsWrite` |
| `PagesetWork` | `pageset.c`, `beacon.c` (tasklet), interrupt handler of `hw.c` | the work item, its pages, and all that wakes it |
| `Watchdog` | `watchdog.c` | the watchdog's operations, composed by `Restart` |
| `Restart` | `mac.c:6457-6681, 2564-2613`, `hw.c:56-82`, coredump and standby of `command.c` | watchdog, health check, stop, restart, users |
| `HwScan` | `hw_scan.c:1090-1463`, the restart's end of scans | mac80211, timeout, done event, restart |
| `PowerSave` | `ps.c`, its callers in `mac.c`, `command.c`, `pageset.c`, `skbq.c` | wakers, sleep and wake-up against the chip's pins |
| `MC...` | | constants for TLC, one module for each of the above |
| `SkbQueue_proofs`, `Command_proofs`, `YapsWork_proofs`, `PagesetWork_proofs`, `HwScan_proofs`, `Restart_proofs`, `PowerSave_proofs` | | theorems about each |
| `YapsHw_proofs` | | theorems about `YapsRead` and `YapsWrite` |

`PROJECT.json` maps every definition to its lines.  An action is one region of a lock,
or one step between two points where another context can come in.  Definitions such
as `RequeueBehind` or `DispatchPauses` are faulty variants: each property of each
passing run is broken by one of them, put in the place of the definition it stands
above.

**SkbQueue.**  A packet is the number of its transmit call; its `pkt_id` is that
number modulo `IdMod`, as `mq->pkt_seq` wraps.  `skbq`, `sending` (`skbq_to_send`) and
`sent` (`skbq_sent`) are the code's lists; `pending` is a set, since the code only
searches it.  `freed` and `leaked` are history: a packet that is on no list and was
not freed is leaked.  A transmit call has three steps, since the code leaves the queue's
lock between them: `Tx` puts the packet and sees the threshold, `TxStop` stops mac80211,
`TxSignal` sets the event.  Several calls may be under way (`Callers`), and none of them asks
whether mac80211 is stopped.  A pass of the chip work begins only with the event set
(`TxStart`), goes on with `Write`, `TxComplete` and `ArmTimer`, counts what is left (`Count`),
looks at the wake threshold under the lock and wakes mac80211 after it (`CheckThreshold`,
`Wake`), and sets the event again if packets were counted (`TxEnd`).  Re-buffering sets no event
(`skbq.c:288-325`): `putback` (history) has the packets that wait because of it.  `Write` has a
branch for each interface: pages are written
one by one and failures purged, YAPS sends a prefix and requeues the rest.  `TxStatus`
is `morse_skbq_tx_status_process()` for one status, with the walk that drops expired
packets it meets; `Expire` lets `tx_status_lifetime_ms` pass.  `Flush` is what a
restart does to the queue.  Statuses already on their way survive a flush, as
`dispatch_work` is not cancelled.

**Command.**  Both queue counters (`qlen`) are variables of their own, beside the lists,
since `__skbq_cmd_finish()` chooses the counter to decrement without looking where the
packet is linked.  `RespStart` and `RespEnd` are separate so that the purge of the chip
work, which does not take `cmd_lock`, can fall between them.  `stripped` and `misread`
model `skb_pull()` on the pending packet, which an answer to another command has
already pulled.  `chipIf` is chosen in `Init`.

**YapsWork.**  `pc` walks through `morse_yaps_work()`; the bus is held while it is not
`"idle"`, and `Irq` needs it idle.  Queues are counted.  `Put` and `Signal` are apart
because `morse_skbq_tx()` sets the event after the queue's lock is given back.  A write
takes what the chip has room for; the rest returns to the queue.

**YapsRead.**  A word of the stream is the number of its packet and its place in it; place 0
is the delimiter, and any other word taken for one fails its CRC.  Words are not bytes:
padding is part of a length.  `buf` is `from_chip_buffer` from `read_ptr` on, `slots` the
skbs of `from_chip_pkts`, which is static, so that what is left in it is found by the next
call.  A transfer that fails either has moved the chip's place in the stream or has not.
Mapped to `PacketStream`, a packet waits in a slot, in the buffer or in the chip: those of
the slots come first, then the packets whose delimiter is in the buffer, then those whose
delimiter is in the chip, each in the order sent (`InOrder` of `Starts`).  A fault loses packets
from one place of that order, `Lose(k, n)`: the array has kept what was received before it.

**YapsWrite.**  `pages` and `places` are the driver's account.  Of the chip, `vacant` counts the
pages that hold no words of a packet, `chipQ` the packets it has, and `processed` how many of
them have got their page of metadata.  The status registers say `FreePages`, `vacant` less
`processed`: as the comment SW-7464 says (`yaps-hw.c:622-628`), packets that were sent and not
processed yet are not reflected in it, and the code does not consider them.  A transfer that
fails has brought its packets or has not.  `hand` is
`skbq_to_send`, `batch` what is in `to_chip_buffer` (and `load` the pages the chip will take for
it, so that no sum over a list is needed), `count` is `num_pkts_sent` and `written`
is what the chip has got of this call.  The chip looks at its queue when it is interrupted
(`ringing`) and then works until it is empty.  The check of `pkts[0]` when ageing has left
nothing to send has any result.

**PagesetWork.**  `pc` walks through `morse_pagesets_work()`; pages are counted by place
(`reserved`, `cached`, `populated`, `free`, and `lost` for those nobody holds), packets by
queue.  `Tx` is a handler up to the dequeue, `WritePage` and its failures take one packet
of the local list, `back` is where the work returns to.  `Turn` is one turn of the
receive loop, which gives up the bus when a beacon is wanted.  `IrqRead` and `IrqClear`
are apart, because the chip goes on between reading the status and clearing it; both need
the bus.  A command that finds no reserved page fetches free ones; when the first of these
cannot be popped it is written to a cached page all the same (`Failed`).  `rxCleared` and `late` are history: a receive event was cleared and not handled,
or the driver logged that it was too slow for a pause and a resume.

**Watchdog, Restart.**  Each operation of the watchdog holds its own lock and is one
operator; only the clean-up sets the consumers before it takes the lock (`watchdog.c:199`), and
is one operator too.  Whether a failed health check asks for a coredump, and whether standby
blocks commands, depends on settings the model leaves open: either may happen.  `lock` is `mors->lock` where it is held over several steps, by the health check
(which waits for answers) and by the restart; other actions ask for it to be free.  `chip`
is up, hung, or failed for good.  `lost` and `disturbed` are history: whose coredump request
another one undid, and that others than a restart that succeeds touched the watchdog.

**HwScan.**  The calls of mac80211 come one at a time (`op`), the timeout work beside them;
a command is sent and answered with the lock held.  `rx` is what the receive work has
before it, in the order of the chip, answers and done events together: that is what makes
a done event, which needs the lock, delay the answer the holder of the lock waits for.
Scans are numbered, though the chip's events carry no number, so that the properties can
say which scan an event or a timeout belongs to.

**PowerSave.**  `Routine` gives the calls of each user in order; `stage` is where a thread is
in a function of `ps.c`, with the lock.  `busyPin`, `wakePin` and `edge` are the pins and
the interrupt; `handler` is what the interrupt handler read from `ps.awake`, which may be
dead when it is used.  `dropped` counts the statuses still to come of packets the stale work
has given up: the code drops by age whatever the chip still holds, so that such a status finds
no packet; it counts as a fault.  A delayed evaluation that would only be delayed again is left
out, and whether the chip has slept while the bus was suspended is chosen when it is
woken, since nobody looks before.  The chip work is one step between its `disable` and
its `enable`: its own order is in `PagesetWork`.

## 4. Runs, bounds and fairness

| Run | Shows | Bounds |
|---|---|---|
| `SkbQueuePageset` | `Ownership`, `Ordered`, `NotSentTwice`, `OnlyPutBackWait`, `PendingKept`, `Released`, `QueuesWake` on a data queue, page-set | 3 packets, queue of 2, stopped when full and woken when empty, bursts of 2, 2 calls at a time, one filtered report, one restart |
| `SkbQueueYaps` | `Ordered` on a management queue, YAPS: requeue and ageing | 4 packets, queue of 3, 2 calls at a time, nothing re-buffered |
| `Command` | `Implements`, `CountsMatch`, `HeldPacketLives`, `CallsReturn` | 3 calls, 2 tries each, both interfaces |
| `YapsWork` | `NoLostWakeup`, `NoDataWhilePaused`, `Drained`, `FlowFollows` | two data queues that compete for room for 1, bursts of 2, 2 messages or bus errors |
| `PagesetWork` | `PagesKept`, `PageForEachPacket`, `NoLostWakeup`, `ComesToRest` | 3 pages, 2 of them reserved, receive queue of 1, 3 inputs, 2 failing transfers, one packet too large |
| `YapsRead` | `NotGarbled`, `Implements`, `AllArrive` | window of 6 words, packets of 1, 2 and 7 words, array of 3, 3 packets in the chip, 4 in all, 2 failures |
| `YapsWrite` | `RoomKept`, `PassedOn`, `TxImplements`, with ageing | window of 4 words, packets of 1 and 3, 7 pages of 2 words, 3 places, bursts of 3, 4 packets, 2 failures |
| `HwScan` | `AgreesAtRest`, `CompletedOnce`, `EventOfItsScan`, `TimeoutOfItsScan`, `ComesToRest` | 4 calls, 2 faults, one restart |
| `Restart` | `WatchdogTicks`, `DumpHasRestart`, `CompletionAlive`, `RequestPending`, `WaitsForReload`, `Recovers` | 2 callers, 2 events, 2 faults |
| `PowerSave` | `WakersPaired`, `UsedAwake`, `ComesToRest` | 2 inputs, 1 fault, dynamic power save on |
| `HwScanRestart` | `RestartGetsThrough`, which a comment of the code states and the code violates: section 6 | as `HwScan`, 1 call |
| `YapsMetadata` | `MetadataLeft`, likewise | as `YapsWrite`, no failure |

*Why the bounds are enough.*  The interesting cases need few packets: a queue that is
full while packets are out needs one more packet than the queue holds, and so does a packet
put back into a full queue; a packet put back in front of a later one needs two, a burst that
is partly sent needs two, an overtaken status needs two; two calls at a time put the stop
or signal of one between the dequeue and the count that see the packet of the other.  Three calls let a late answer to a call meet the next
two, long and short; two tries are `MM_MAX_COMMAND_RETRY`.  For `YapsWork`, one chip
slot makes every second packet wait, and one message of each kind covers each branch of
the receive and traffic handlers; two messages give a pause followed by a resume.  For
`PagesetWork`, three pages leave one cached beside two reserved, so that data, beacons
and commands compete for the last; three inputs are a pause, a resume and a packet
between them; two errors make both puts of a page fail.  `HwScan` needs a scheduled scan,
a scan that stops it, a cancel and a further scan: four calls.  `Restart`: one event or
fault during the restart that another one caused; two coredump callers overlap.
`YapsRead`: a packet of 7 words runs off a window of 6 wherever it begins, packets of 1 and 2
let one end exactly at its border, and four packets are more than a window, so that reading
goes on in the middle of the stream; two failures make one during the hunt for the
next delimiter.  `YapsWrite`: a long packet or two short ones fill a window, the chip runs out of pages with long
packets and out of places with short ones, and a fourth is put back.
`PowerSave`: a packet and a command, or a pause and a packet, in the middle of a decision.
`MaxPkts`, `MaxFiltered`, `MaxRestarts`, `NumCmds`, `MaxErrors`, `MaxInputs`,
`MaxOversize`, `MaxCalls`, `MaxFaults`, `MaxEvents` and `Lens` bound behaviours and not the code;
deadlock checking is off because behaviours then end.  Instead `ComesToRest` says where
they may end.

*Fairness.*  `SkbQueue`: calls end, work items and timers that are queued run (weak fairness;
each work queue is single-threaded).  A pass starts only while the event is set: a call that
sets it queues the work, and a pass that leaves packets sets it for the next work that anything
queues, which the chip's interrupt for returned pages or room does, or the watchdog's command.
Strong fairness of a `TxStart` that takes packets, and of a `Write` that sends some, says the
chip finds room again and again: without it no queue of any driver drains.  Nothing is
assumed of reports, of new calls or of `Resume`, so that a packet put back without an event
may wait for ever.  `Command`: the caller's
thread runs and its timeout passes; `Cleanup` gets strong fairness because it competes
for `cmd_lock` with answers.  Nothing is assumed of the firmware.  `YapsWork`: the work
items, timers and the chip's own progress; `Irq` is strongly fair because it waits for
the bus, which the work gives back on every pass.  `PagesetWork`: the same, with strong
fairness of the pass and of the interrupt handler, which both claim the bus, a mutex.  `HwScan`:
threads run and get `mors->lock`, which others take again and again (strong fairness: the
kernel's mutex serves its waiters in turn); waits run out; the chip takes commands and
ends a scan, though each answer and event may be lost.  `Restart`: the timer fires, works
run, the restart gets the mutex although the health check takes it again and again; the
work for an indicated stop is given no fairness, since recovery must not depend on an
interrupt of a chip that hangs.  `PowerSave`: threads, works and timers run and the chip
does what it is asked for, in the weakest sense: something is done as long as there is something
to do.  `YapsRead`: the work runs while its event is set.  `YapsWrite`: a
call that has begun goes on, the work calls again while something is queued (`YapsWork` shows
that it does), and an interrupted chip works.  No sender, call, message or error is forced.

*Conditions of the runs, and what happens outside them.*

- `Ordered` needs identifiers that do not wrap within a run, and for YAPS that no
  packet is re-buffered: a requeue at the head ignores identifiers, so a burst that comes
  back overtakes a packet that was put back meanwhile.
- `Released` and `QueuesWake` except packets put back while nobody signals the work: re-buffering
  sets no event and queues no work (`skbq.c:288-325`), so that such a packet waits for the next
  signal, and can keep the queue over its threshold meanwhile.  Without the exceptions both fail.
  `OnlyPutBackWait` says that no other packet waits so.
- `QueuesWake` fails with `max_txq_len` = 2: the wake threshold is
  `qlen < max_txq_len - 2`, which no queue meets.  (With 1 it wraps and always holds.)
- A packet whose status is lost stays pending until its own lifetime passes; a later
  status does not release it.
- `Command` is checked with `SlowSend = FALSE`: the command timeout does not pass
  while the chip work has that command in a local list.  Otherwise the clean-up unlinks
  the packet from the work's list, one counter goes wrong (`CountsMatch`) and a purged
  packet may be matched.  A send takes far less than the timeout, so this is a
  precondition, not a finding.
- `Drained` and `NoLostWakeup` of `YapsWork` are claimed without bus errors.  After one, a
  data queue can stall until the next signal (`yaps.c:393`).
- In the run `YapsWork` a traffic event comes only when the last one is applied (`PromptFlow`);
  section 6 says why.  `NoLostWakeup` and `NoDataWhilePaused` hold without that, as the theorems
  say, which are for every supply of packets, every burst and number of queues, and either
  `PromptFlow`.
- `PagesetWork`'s `NoLostWakeup` excepts three things the code gives up: a failed transfer or
  dropped packet, a receive event cleared by the second receive handler
  (`pageset.c:917`), and a pause that met a resume.
- `YapsRead`: `AllArrive` and, in `PacketStream`, each loss except failed transfers and
  allocations and the hunt for a delimiter after one.  `RxMax` is at least `ChipPkts`, as the
  comment on `MAX_PKTS_PER_RX_TXN` says (`yaps.c:32`); otherwise the rest of a window is lost
  with the array full.
- `YapsWrite`: `PassedOn` excepts failed transfers; `TxImplements` lets them lose what they count
  as sent and repeat what they put back.  `RoomKept` is what holds of the chip's pages although
  the account is too large: words leave a page to go on with.  No packet is too large for the window, and only the one work item uses the account.
- `HwScan`: `CompletedOnce` excepts lost or late messages, restarts, and a command that
  timed out behind a done event; `AgreesAtRest` a scan that began with `scan_done`
  complete; `ComesToRest` the deadlock of `HwScanRestart`.
- `Restart`: `Recovers` excepts states in which somebody has paused or stopped the watchdog,
  standby (the health check does not look), and an interface that is down.
- `PowerSave`: `ComesToRest` excepts a bus woken for a chip that was not busy any more
  (`ps.c:143`): nobody evaluates after it, so it stays on until the next user.

## 5. Proofs

TLC checks small instances; TLAPS proves the following for every value of the
constants that the modules' assumptions allow.

**`SkbQueue_proofs`**: `TypeCorrect`, `OwnershipCorrect`, `OrderCorrect`,
`RequeuedInOrder`, `SentOnce`, `PendingLeaves`, `WaitersSignalled`.
`Ownership` is inductive once `TypeOK` is there (that the local lists are empty outside
their stages is part of `TypeOK`); the work is in lemmas about the list operators: what
`Prefix`, `Rest`, `Requeue` and an insertion at `InsertPos` contain, and that they do not
repeat an element.  `Ordered` is inductive together with both: `Ownership` says that
every queued packet is older than the next transmit call, so that appending it keeps the
order, and that a re-buffered packet is not in the queue already.  The long lemma is
`InsertedSorted`: a packet inserted at `InsertPos` leaves a sorted queue sorted.  It
rests on `Id` being the identity on the packets, so `OrderCorrect` assumes `NoWrap`: no
more packets than identifiers, and the page-set interface, which never puts a packet it
dequeued back at the head.  `RequeuedInOrder` is the other half, on either interface and with
identifiers that wrap: under `NothingRebuffered` (a management queue, or no station with power
save filtering) the invariant is `InLine(sending, skbq)`, that the burst the work holds and the
queue are sorted and every packet of the burst is older than every one of the queue.  The
burst was cut off at the head (`SortedCut`), what is handed in meanwhile goes to the tail, and so
the end of the burst fits in front again (`SortedJoin`).  For a station's data queue with YAPS
both conditions fail and so does `Ordered` (section 4).  `SentOnce` needs the first half of `NoWrap` (`NoIdWrap`) and the
invariant `OneStatus`: a packet has one status on its way at most, none while the chip has
it, and in both cases it is pending, freed or leaked, and so, by `Ownership`, not in a list
that is still to be sent.  `PendingLeaves` is the action property `PendingKept`, action by
action.  `WaitersSignalled` is about the event.  Its invariant `Signals` says where the answer
for a packet lies that did not come back from pending: in an event that is set, a call that has
still to set it, a pass that has still to count it, or in `left`, which ends in the event.

**`Command_proofs`**: `TypeCorrect`; under `NoSlowSend` also `CountsCorrect` and `HeldLives`;
under `NoSlowSend` and `NoSeqWrap` `ImplementsService`.  The invariant is `OneCommand`: since
`cmd_wait` admits one caller, at most one packet is linked anywhere, and it is that of the
caller that waits.  So whichever counter `__skbq_cmd_finish()` takes down is the right one
(`CountsMatch`).  `MatchedPending` says the packet an answer is matched against stays pending,
and `FreedUnlinked` that what is linked was not freed: both give `HeldPacketLives`.  A send that
outlasts its timeout breaks `OneCommand` (section 4), which is why `TypeCorrect` alone does
without `NoSlowSend`.  The refinement maps a call's `result` and buffer; its invariant
`Answered` says a completed call has the answer to its own command.  `NoSeqWrap` (no more
calls than sequence numbers) is what makes an answer with the right `host_id` the answer to
this call: the code has 12 bits (`MORSE_CMD_HOST_ID_SEQ_MAX`), so an answer would have to be
late by some four thousand calls.

**`YapsWork_proofs`**: `TypeCorrect`, `PauseCorrect`, `WakeupKept`.  `TypeCorrect` includes that a
chip queue never holds more than it can.  `PauseCorrect` is the action property
`NoDataWhilePaused`; its invariant `Sending` says that between the test of
`morse_is_data_tx_allowed()` and the write, while the work has data in hand, `stopped`
stays false, because only the work item itself sets it.  `WakeupKept` rests on three
invariants: the work is queued for every event that is set, but a data event the retry timer
answers for (`Events`); a chip queue recorded as full has its timer, unless room has come up
(`Retried`); and what is left in a queue has its event set, or the work has still to come to
that queue (`WorkKept`).  For data the last is a matter of position: a queue behind the one in
turn is still to be visited, one before it has made `more` true.  That needs each data
queue once in the loop, an assumption on the constant `DataQs`.

**`PagesetWork_proofs`**: `TypeCorrect`, `Conserved`, `Served`, `NotLost` and, from it and
`Conserved`, `Kept`; `CommandPageKept`; `WakeupKept`.  `TypeOK` alone is not inductive, since `Refill` subtracts what the fifos
hold from what they can; it is together with `PagesConserved`.  The key lemma is
`RefillKeeps`: with no more pages than both fifos take, which the assumption on
`NumPages` says, a refill drops none, although its loop has another bound than its
fifo's size.  `Served` is inductive together with both: what is left of the local list
(`Takeable` counts the pages for it) is at most what `morse_pageset_num_pages()` counted,
every write takes one of each, and a refill in between only adds.
`CommandPageKept` is the action property behind the comment "Always hold at least one
reserved page for commands" (`pageset.c:273`).  `WakeupKept` has an invariant for each thing
that may be left behind: an event that is set has its handler still before it in the pass, or
another pass queued (`Events`, with `Before` for the order of the handlers); returned and
received pages have an event, in the chip or in the flags (`FreeComing`, `RxComing`); the
traffic state follows what the chip asked for last (`Flow`); a queue that holds something is
going to be visited, or waits for pages that are going to return (`QueuesComing`).  The last is
where pages matter: with none cached and none to return, all are reserved for
commands, so it assumes `DataPages`: more pages than are reserved.  That the reserved ones
fit the fifo of cached ones is the `BUILD_BUG_ON` of `pageset.c:151`.

**`HwScan_proofs`**: `TypeCorrect`, `EventMatches`, `AgreedAtRest`, `ToldOnce`, `TimeoutMatches`.  One
invariant for all.  `LockHeld` says which stages of which thread hold `mors->lock`; `Answers` that
one command is under way at most, and only while a thread holds it.  Hence `Matching`: done
events behind the positive answer to a start are those of the scan it starts, and while the
driver is at a scan every done event on its way is of it, which is `EventOfItsScan`.
`Timing` says the same of the timeout: it is that of the current scan, or the done event or the
restart waits for it (`cancel_delayed_work_sync`) and no scan starts meanwhile.  `Goes` gives each
scan that runs something that ends it, unless it began with `scan_done` complete (`DoneCount`),
and `Stages` the state for each stage of a call: both make `AgreesAtRest`.  `CleanRun` holds as
long as nothing was lost or late, starved or restarted: then `mac80211` waits for a scan as
long as the driver is at one, and its done event is still to come.

**`Restart_proofs`**: `TypeCorrect`, `Ticks`, `Alive`, `Pending`, `DumpMade`, `AfterReload`.
`WatchdogInv` is kept by each operation of the watchdog, whoever calls it; `Undisturbed`
adds where the restart has it paused while nobody else touched it, and both give `Ticks`.
`Alive` and `Pending` are inductive together (`Request`): the pointer is set and cleared
by the caller it belongs to, and `lost` collects those whose pointer or flag another one
took.  `AfterReload` follows from the part of `TypeOK` that says who holds `mors->lock`:
it is held from the completion to the end of the reload, and a caller needs it to return.

**`PowerSave_proofs`**: `TypeCorrect`, `Pairing`, `Awake`.  Neither property is inductive
alone: `Returned` needs a waker wherever a thread uses the chip, and that the count says
so (`WakersPaired`) needs that what a thread owes is never negative.  It is negative in one
place, before the first call of `psOff`; `Net` adds to the thread of mac80211 the call that
`configPs` stands for, and `NetBound` shows each thread's net at least 0, and 1 where it
uses the chip.  So `SomeWaker`: no user without a waker.  The other half is the lock: a
thread past the decision of `morse_ps_evaluate()` holds it, found no waker, and nobody
adds one without it; hence a suspension meets no user.  A finish makes it irrelevant, since
it comes from a user, with the bus awake, and nobody suspends it after (`~enable =>
~suspended`).

**`YapsHw_proofs`** has both directions of the YAPS hardware layer, with the same window and
bounds.  For `YapsRead` `TypeCorrect`, `Ungarbled` and `StreamInOrder`.  The invariant of the first two is
`Contiguous`: take the
words from the driver's place on, those in the buffer and then those in the chip; around
each of them stand the words of its packet, in order, and the packet's end is there.  It says
this place by place and so needs no induction over the stream: skipping words keeps it
(`SkipContiguous`), and appending a framed packet does.  It holds also after a fault, when the
place is inside a packet, which is why a delimiter found later starts a whole packet.
`Buffered` adds that the slot in use holds what the buffer has of its packet while the rest is
read.

`StreamInOrder` is the refinement of `PacketStream`.  Its invariant `InSequence` says that the packets of
buffer and stream rise, and that those received and those whose delimiter is in the
buffer are no more than the chip holds.  With `RoomInArray`, that the array has room for those
(`yaps.c:32`), the splitting therefore never stops at the full array with packets left in the
buffer.  Since packets rise, what waits is determined by the set of delimiters in each
place: `InOrder` lists a set of packets by rank, and lemmas say what it makes of a union of a lower
and an upper set, and of a stream cut in two.  Then each action is a stutter, a `Give`, an
`Arrive` or a `Lose`.

For `YapsWrite`: `RoomOnChip`, `WrittenInOrder`, `TxTypeCorrect` and `PoolConserved`.
`RoomLeft` follows the account through a call: what the driver has left, what is
in the buffer and what the words of the packet checked last take stay two pages below what
holds no words, whatever the chip uses for metadata: `PagesRequired` charges each packet two
pages beyond its words, and these are what `RoomKept` has left.  The chip only gives back.
`InHand` says what `skbq_to_send` consists of: what the chip has got, then the buffer, then the
rest.  So a transfer delivers the first of those that wait, and what is put back at the end is the
rest; after a failed transfer, the packets counted all the same are the first and are lost.

`TxTypeCorrect` bounds the account from above too, by what the chip has.  That takes the sum of the
pages of the packets in the chip, which a proof can not get from a recursive definition.  `Adds`
says instead that a function of running sums exists: it begins at the vacant pages, each packet of
the list adds its own, and it ends at the pool (`PoolWhole`).  Each change of a list takes the
function to a new one: a packet behind it (`AddsAppend`), a batch that goes from the buffer to
the chip (`AddsConcat`), a packet the chip is done with (`AddsTail`).  `PoolConserved` is that
invariant, about the chip.

The type invariants `TypeOK` and `TxTypeOK` are proved here, for every instance, and left out of
the runs; to have TLC check one too, name it in the module's configuration.

**Only model-checked**: liveness (`Released`, `QueuesWake`, `CallsReturn`, `Drained`,
`FlowFollows`, the three `ComesToRest`, `Recovers`, `AllArrive`, `PassedOn`), which rests on fairness and is beyond
what TLAPS proves.

## 6. What the models found

Two are runs that must end in a violation, with their details under "findings" of
`PROJECT.json`:

- `hw_scan.c:1326`: a restart that ends a scan waits, with `mors->lock`, for the timeout
  work that waits for `mors->lock`.
- `yaps-hw.c:630`: the comment before it says that packets sent and not yet processed have to be
  considered, or "we will run out of metadata buffers" (SW-7464).  The code adds up how many
  they are and only prints it; packets written after such a read leave the chip without a page
  for the ones before (`MetadataLeft`).

More, TLC finds with a changed configuration or another property of a module:

- `command.c:650`: an answer to the original command is dropped while the retry waits
  to be sent; the comment above it says the answer to either is accepted (property
  `AnswerAccepted` of `Command` in place of those of `Command.cfg`).
- `skbq.c:955-957`: the comment says the search for a pending packet "will also drop frames with
  older packet ids that are in the list".  The code drops only those that have expired
  (`skbq.c:970-985`), which is what `PendingKept` states and proves; what the comment says,
  `OlderDropped` of `SkbQueue`, TLC refutes.  The comment inside the loop, "Returned TX statuses may
  appear out-of-order during AMPDU", goes with what the code does.
- `skbq.c:300`: a packet to re-buffer is leaked when the queue has filled up meanwhile (`NoLeak`
  of `SkbQueue`, with `SkbQueuePageset.cfg`).
- `yaps.c:329`: a failing status read leaks the dequeued packets (`NoLeak` with
  `SkbQueueYaps.cfg`).
- `skbq.c:288`: a packet put back sets no event: with nothing else to send it waits, and mac80211
  may stay stopped (`Released` and `QueuesWake` without their exceptions).
- `yaps.c:566`: a pause and a resume that are both pending leave the traffic paused
  (`YapsWork.cfg` with `PromptFlow = FALSE`).
- `yaps.c:461`: packets received before a read fails stay in the array and are overwritten by
  the next read ("yaps packet leak", `yaps-hw.c:490`; invariant `NoPacketLeak` of `YapsRead`).
- `yaps.c:367`: a burst that goes back to the head of a station's data queue is put in front of
  a packet re-buffered meanwhile, which is older (`Ordered`, with `SkbQueueYaps.cfg` changed to
  `Queue = "data"`, `PsFilter = "station"`, `MaxFiltered = 1`).

Observations made on the way, kept as conditions of the runs, as notes to hazards, or
outside the properties:

- `yaps-hw.c:319`: when ageing empties the queue of management frames, the packet checked is one
  an earlier call sent and freed.  Its result is ignored and the account it may change is read
  again before use (`TxImplements`).
- `yaps-hw.c:373`: a failing last transfer counts its packets as sent; a packet that did not fit
  is hidden by a last transfer that works, so that the chip does not count as full.
- `yaps.h:118` says `-EAGAIN` when no packet is available; `read_pkts()` returns it when more
  than the window was waiting, and 0 when nothing was.
- `yaps-hw.c:477`: after a fault with more than a window waiting, the hunt for a delimiter drops
  a whole window for each word that is not one.
- `command.c:172`: an answer between the timeout and `cmd_lock` is copied to the caller
  although the call returns `-ETIMEDOUT`.
- `hw_scan.c:1264-1265`: the state is set before it is compared with `ABORTING`, so that no
  scan is ever reported to mac80211 as aborted by this path.
- `pageset.c:569, 584`: `-ENOMEM`, meant "to stop page pop operations", is overwritten by
  the result of returning the page; the loop goes on and drops what it reads.
- `mac.c:6794`: `morse_reg_notifier()` returns at once; what follows, and with it the
  reload after a start (`mac.c:6846`), never runs.
- `mac.c:2581`: a start by mac80211 after a restart that failed for good sets `started`
  although no chip answers.
- `command.c:1288`: a standby exit that gets no answer leaves the watchdog paused.
- `mac.c:3585`: `config_ps` is not sent again after a restart: the new firmware has its
  default power save until mac80211 changes its mind.

## 7. What is left out

Packet lengths but for YAPS's hardware layer (packets have length one, and a queue's 512 KiB
are counted in packets); delimiters whose 7-bit CRC matches by chance; `hw.c:299`, the clock
update, which nothing in the driver calls; logging, debug counters and formats; the bodies of the commands; start and finish of
the interfaces; what a restart cleans up in each interface; `enable_watchdog_reset`
(off by default), which removes the driver instead of giving up; the clock event and
the benchmark mode in the chip work; the several receive queues, which are one that
is never full in `YapsWork` and small in `PagesetWork`; the early return of both works while
the chip is marked unresponsive (`yaps.c:517`, `pageset.c:867`), since the restart that marks it
is in another module; a clean-up of the watchdog interrupted between its two halves; transfers
that bring a part of their packets; the four data queues of the
page-set interface, which are one; how the pagers implement their counts; the
end-of-service-period reports of an access point; the length of the power save delays
and boards without its GPIOs; fullmac paths.

Most of the repository's lines are the vendored wpa_supplicant, the bus drivers, the
frame translation and tables: they are conversions and transfers, or another project's
logic, and are not candidates for these models.  Components without a module are listed
in `PROJECT.json` with the reason; hazards without a property say where they are planned.
