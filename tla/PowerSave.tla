----------------------------- MODULE PowerSave -----------------------------
(*****************************************************************************)
(* The host side of power save (ps.c), with the GPIOs wired and enable_ps    *)
(* at its full mode: the count of wakers, the bus that is suspended when     *)
(* nobody needs the chip, the wake pin, and the busy pin with its interrupt. *)
(*                                                                           *)
(*   - a thread calls morse_ps_disable(), uses the chip, and calls           *)
(*     morse_ps_enable(): commands, config_ps, restart, unregister, and the  *)
(*     chip interface work (Routine gives the calls of each in order)        *)
(*   - the single thread of chip_wq runs, one at a time, the chip interface  *)
(*     work, async_wake_work, delayed_eval_work and the stale work           *)
(*   - senders, the interrupt of the busy pin, the interrupt of the bus and  *)
(*     the receive work run beside them                                      *)
(*   - the chip is external: it sleeps only with the wake pin low, and says  *)
(*     with its busy pin that it has something for the driver                *)
(*****************************************************************************)
EXTENDS Integers, Sequences

CONSTANTS
    Dynamic,     \* enable_dynamic_ps_offload
    MaxInputs,   \* bound on packets, commands, traffic events, changes of the
                 \* configuration, restarts and unregistering, taken together
    MaxFaults    \* bound on lost answers, and waits that end before the chip is up

ASSUME PowerSaveAssumption == Dynamic \in BOOLEAN /\ MaxInputs \in Nat /\ MaxFaults \in Nat

Threads == {"mac", "cmd", "worker"}

VARIABLES
    wakers, suspended, enable,  \* fields of mors->ps
    active,      \* jiffies is before bus_ps_timeout
    lock,        \* the holder of ps.lock
    awake,       \* ps.awake: a completion is registered
    completed,   \* it is complete
    routine,     \* what each thread runs
    line,        \* where it is in that
    stage,       \* where it is in a function of ps.c
    asyncWork, evalWork, chipWork,  \* works queued on chip_wq
    flags,       \* chip_if->event_flags
    command,     \* the command
    queued,      \* data packets in the driver's queue
    unsignalled, \* of them, those whose sender has not set the event flag yet
    pending,     \* packets that wait for their status
    dropped,     \* reports still to come of packets that wait no more
    stopped,     \* MORSE_STATE_FLAG_DATA_TX_STOPPED
    received,    \* what the receive work has to process
    asks,        \* the receive work is about to ask for an evaluation
    configPs,    \* mors->config_ps
    wakePin, busyPin,
    edge,        \* the interrupt of the busy pin is raised
    handler,     \* what its handler found in ps.awake
    busIrq,      \* the chip's interrupt on the bus is raised
    up,          \* the chip is awake
    sent,        \* packets at the chip
    toHost,      \* what the chip has for the driver
    needless,    \* the bus was woken for a chip that was not busy any more
    inputs, faults

ps == <<wakers, suspended, enable, active, lock, awake, completed, needless>>
threads == <<routine, line, stage>>
works == <<asyncWork, evalWork, chipWork>>
data == <<flags, command, queued, unsignalled, pending, dropped, stopped, received, asks>>
pins == <<wakePin, busyPin, edge, handler, busIrq>>
chip == <<up, sent, toHost>>
bounds == <<inputs, faults>>
vars == <<ps, threads, works, data, configPs, pins, chip, bounds>>

Input == inputs < MaxInputs /\ inputs' = inputs + 1 /\ UNCHANGED faults
Fault == faults < MaxFaults /\ faults' = faults + 1 /\ UNCHANGED inputs

Least(m, n) == IF m < n THEN m ELSE n

Nothing == [statuses |-> 0, answer |-> FALSE, traffic |-> "none"]

-----------------------------------------------------------------------------
\* The calls of each routine.
RoutineLeak ==
    [idle       |-> <<"none">>,
     command    |-> <<"disable", "command">>,
     psOn       |-> <<"disable", "command", "enable", "enable">>,
     psOff      |-> <<"disable", "disable", "command", "enable">>,
     restart    |-> <<"disable", "reload", "enable">>,
     unregister |-> <<"disable", "finish", "detach">>,
     chipIf     |-> <<"disable", "service", "enable">>,
     async      |-> <<"wakeup">>,
     evaluate   |-> <<"evaluate">>]
Routine ==
    [idle       |-> <<"none">>,
     command    |-> <<"disable", "command", "enable">>,
     psOn       |-> <<"disable", "command", "enable", "enable">>,
     psOff      |-> <<"disable", "disable", "command", "enable">>,
     restart    |-> <<"disable", "reload", "enable">>,
     unregister |-> <<"disable", "finish", "detach">>,
     chipIf     |-> <<"disable", "service", "enable">>,
     async      |-> <<"wakeup">>,
     evaluate   |-> <<"evaluate">>]

Call(t) == Routine[routine[t]][line[t]]
AtCall(t, c) == Call(t) = c /\ stage[t] = "call"

\* The call of a thread is done.
Return(t) ==
    /\ stage' = [stage EXCEPT ![t] = "call"]
    /\ IF line[t] = Len(Routine[routine[t]])
       THEN routine' = [routine EXCEPT ![t] = "idle"] /\ line' = [line EXCEPT ![t] = 1]
       ELSE line' = [line EXCEPT ![t] = @ + 1] /\ UNCHANGED routine

Begin(t, r) ==
    /\ routine[t] = "idle"
    /\ routine' = [routine EXCEPT ![t] = r] /\ UNCHANGED <<line, stage>>

\* A command holds cmd_wait from before it disables power save until it has
\* enabled it: a thread waits for the command of another.
CommandLines == [command |-> 1 .. 3, psOn |-> 1 .. 3, psOff |-> 2 .. 4]
OfCommand(t) == routine[t] \in DOMAIN CommandLines /\ line[t] \in CommandLines[routine[t]]
CmdWait(t) ==
    OfCommand(t) /\ Call(t) = "disable" =>
        \A u \in Threads : OfCommand(u) => Call(u) = "disable" /\ stage[u] = "call"

\* morse_is_data_tx_allowed(), skbq_get_tx_buffered_count() > 0.
Allowed == ~stopped /\ "pause" \notin flags
Buffered == command # "none" \/ pending > 0 \/ (queued > 0 /\ Allowed)

\* Power save is on, the bus was used until just now, and is to be evaluated.
Init ==
    /\ configPs = TRUE /\ wakers = 0 /\ suspended = FALSE /\ enable = TRUE
    /\ active = FALSE
    /\ lock = "none" /\ awake = FALSE /\ completed = FALSE
    /\ routine = [t \in Threads |-> "idle"] /\ line = [t \in Threads |-> 1]
    /\ stage = [t \in Threads |-> "call"]
    /\ asyncWork = FALSE /\ evalWork = TRUE /\ chipWork = FALSE
    /\ flags = {} /\ command = "none" /\ queued = 0 /\ unsignalled = 0
    /\ pending = 0 /\ dropped = 0 /\ stopped = FALSE /\ received = Nothing /\ asks = FALSE
    /\ wakePin = TRUE /\ busyPin = FALSE /\ edge = FALSE /\ handler = "idle" /\ busIrq = FALSE
    /\ up = TRUE /\ sent = 0 /\ toHost = Nothing
    /\ needless = FALSE /\ inputs = 0 /\ faults = 0

-----------------------------------------------------------------------------
\* The functions of ps.c.  They return at once when power save is finished.
Finished(t) ==
    /\ stage[t] = "call" /\ Call(t) \in {"disable", "enable", "evaluate"} /\ ~enable
    /\ CmdWait(t)
    /\ Return(t)
    /\ UNCHANGED <<ps, works, data, configPs, pins, chip, bounds>>

\* morse_ps_evaluate() up to its decision: what has changed by the time it acts
\* is the business of whoever changed it.
Active == Dynamic /\ Allowed /\ active
NeedsWakeEvents(n) == flags \ {"pause"} # {} \/ Buffered
NeedsWake(n) == n > 0 \/ flags \ {"pause"} # {} \/ Buffered
EvaluateTo(t, n) ==
    LET later == ~NeedsWake(n) /\ Active
    IN  /\ lock' = t
        /\ stage' = [stage EXCEPT ![t] = IF NeedsWake(n) \/ later THEN "wake" ELSE "pin"]
        /\ evalWork' = (evalWork \/ later)
        /\ needless' = FALSE

\* morse_ps_disable(), morse_ps_enable(), morse_ps_evaluate_work() and
\* morse_ps_async_wake_work().
Disable(t) ==
    /\ AtCall(t, "disable") /\ enable /\ lock = "none" /\ CmdWait(t)
    /\ wakers' = wakers + 1 /\ EvaluateTo(t, wakers + 1)
    /\ UNCHANGED <<suspended, enable, active, awake, completed, routine, line, asyncWork,
                   chipWork, data, configPs, pins, chip, bounds>>
Enable(t) ==
    /\ AtCall(t, "enable") /\ enable /\ lock = "none"
    /\ IF wakers > 0
       THEN wakers' = wakers - 1 /\ EvaluateTo(t, wakers - 1) /\ UNCHANGED <<routine, line>>
       ELSE Return(t) /\ UNCHANGED <<wakers, lock, evalWork, needless>>
    /\ UNCHANGED <<suspended, enable, active, awake, completed, asyncWork,
                   chipWork, data, configPs, pins, chip, bounds>>
Evaluate(t) ==
    /\ AtCall(t, "evaluate") /\ enable /\ lock = "none"
    /\ EvaluateTo(t, wakers)
    /\ UNCHANGED <<wakers, suspended, enable, active, awake, completed, routine, line,
                   asyncWork, chipWork, data, configPs, pins, chip, bounds>>
Wakeup(t) ==
    /\ AtCall(t, "wakeup") /\ lock = "none"
    /\ lock' = t /\ stage' = [stage EXCEPT ![t] = "wake"]
    /\ UNCHANGED <<wakers, suspended, enable, active, awake, completed, needless, routine, line,
                   works, data, configPs, pins, chip, bounds>>

\* The chip is busy: evaluate later.
Pin(t) ==
    /\ stage[t] = "pin"
    /\ IF busyPin THEN lock' = "none" /\ evalWork' = TRUE /\ Return(t)
       ELSE stage' = [stage EXCEPT ![t] = "sleep"] /\ UNCHANGED <<routine, line, lock, evalWork>>
    /\ UNCHANGED <<wakers, suspended, enable, active, awake, completed, needless, asyncWork, chipWork,
                   data, configPs, pins, chip, bounds>>

\* morse_ps_sleep().
Sleep(t) ==
    /\ stage[t] = "sleep"
    /\ suspended' = (suspended \/ enable) /\ wakePin' = (wakePin /\ (suspended \/ ~enable))
    /\ lock' = "none" /\ Return(t)
    /\ UNCHANGED <<wakers, enable, active, awake, completed, needless, works, data, configPs,
                   busyPin, edge, handler, busIrq, chip, bounds>>

\* morse_ps_wakeup(): the completion is registered, the pin raised, and the
\* chip waited for unless it is busy already.  Nobody looks at the chip while
\* the bus is suspended: whether it has slept is chosen here.
Wake(t) ==
    /\ stage[t] = "wake"
    /\ IF enable /\ suspended
       THEN /\ awake' = TRUE /\ completed' = FALSE /\ wakePin' = TRUE
            /\ stage' = [stage EXCEPT ![t] = "wait"] /\ UNCHANGED <<routine, line, lock>>
            /\ needless' = (Call(t) = "wakeup" /\ ~busyPin)
            /\ up' \in {up, busyPin}
       ELSE lock' = "none" /\ Return(t) /\ UNCHANGED <<awake, completed, needless, wakePin, up>>
    /\ UNCHANGED <<wakers, suspended, enable, active, works, data, configPs,
                   busyPin, edge, handler, busIrq, sent, toHost, bounds>>

\* The wait ends, at the latest when the time the chip needs is over.  A
\* handler that has read the pointer keeps it.
Woken(t) ==
    /\ stage[t] = "wait"
    /\ IF up \/ busyPin \/ completed THEN UNCHANGED bounds ELSE Fault
    /\ awake' = FALSE /\ suspended' = FALSE /\ lock' = "none" /\ Return(t)
    /\ handler' = IF handler = "live" THEN "dead" ELSE handler
    /\ UNCHANGED <<wakers, enable, active, completed, needless, works, data, configPs,
                   wakePin, busyPin, edge, busIrq, chip>>

\* morse_ps_irq_handle(): it reads the pointer, then completes or queues.  What
\* it does to a completion that is gone it may do to the next one in its place.
IrqRead ==
    /\ edge /\ handler = "idle" /\ ~AtCall("mac", "detach")
    /\ edge' = FALSE /\ handler' = IF awake THEN "live" ELSE "null"
    /\ UNCHANGED <<ps, threads, works, data, configPs, wakePin, busyPin, busIrq, chip, bounds>>
IrqActForget ==
    /\ handler # "idle"
    /\ handler' = "idle"
    /\ UNCHANGED asyncWork
    /\ CASE handler = "live" -> completed' = TRUE
         [] handler = "dead" -> completed' \in {completed, completed \/ awake}
         [] OTHER -> UNCHANGED completed
    /\ UNCHANGED <<wakers, suspended, enable, active, lock, awake, needless, threads, evalWork, chipWork,
                   data, configPs, wakePin, busyPin, edge, busIrq, chip, bounds>>
IrqAct ==
    /\ handler # "idle"
    /\ handler' = "idle"
    /\ asyncWork' = (asyncWork \/ handler = "null")
    /\ CASE handler = "live" -> completed' = TRUE
         [] handler = "dead" -> completed' \in {completed, completed \/ awake}
         [] OTHER -> UNCHANGED completed
    /\ UNCHANGED <<wakers, suspended, enable, active, lock, awake, needless, threads, evalWork, chipWork,
                   data, configPs, wakePin, busyPin, edge, busIrq, chip, bounds>>

-----------------------------------------------------------------------------
\* The thread of chip_wq takes a work.
StartAsync ==
    /\ asyncWork /\ routine["worker"] = "idle"
    /\ asyncWork' = FALSE
    /\ IF busyPin THEN Begin("worker", "async") ELSE UNCHANGED threads
    /\ UNCHANGED <<ps, evalWork, chipWork, data, configPs, pins, chip, bounds>>
\* A delayed evaluation that would only be delayed again is left out.
StartEvaluate ==
    /\ evalWork /\ Begin("worker", "evaluate")
    /\ NeedsWake(wakers) \/ ~(busyPin \/ Active)
    /\ evalWork' = FALSE
    /\ UNCHANGED <<ps, asyncWork, chipWork, data, configPs, pins, chip, bounds>>
StartChipIf ==
    /\ chipWork /\ routine["worker"] = "idle"
    /\ chipWork' = FALSE
    /\ IF flags # {} THEN Begin("worker", "chipIf") ELSE UNCHANGED threads
    /\ UNCHANGED <<ps, asyncWork, evalWork, data, configPs, pins, chip, bounds>>

\* The chip interface work, as far as power save goes: the events are taken,
\* what the chip has is read, commands and data are sent, and the activity is
\* noted (morse_ps_bus_activity()).  Transfers to a chip that sleeps fail.
Service ==
    LET kicked  == flags \cap {"pause", "resume"} = {"resume"}
        halted  == flags \cap {"pause", "resume"} = {"pause"}
        sending == up /\ ("data" \in flags \/ kicked) /\ ~stopped'
    IN  /\ AtCall("worker", "service") /\ lock = "none"
        /\ flags' = {} /\ stopped' = ((stopped \/ halted) /\ ~kicked)
        /\ command' = IF "cmd" \in flags /\ command = "queued"
                      THEN IF up THEN "sent" ELSE "lost" ELSE command
        /\ IF up /\ "rx" \in flags
           THEN /\ received' = [statuses |-> received.statuses + toHost.statuses,
                                answer |-> received.answer \/ toHost.answer,
                                traffic |-> IF toHost.traffic = "none" THEN received.traffic
                                            ELSE toHost.traffic]
                /\ toHost' = Nothing
           ELSE UNCHANGED <<received, toHost>>
        /\ queued' = IF "data" \in flags \/ kicked THEN IF stopped' THEN queued ELSE 0 ELSE queued
        /\ sent' = IF sending THEN sent + queued ELSE sent
        /\ pending' = IF sending THEN pending + queued ELSE pending
        /\ active' = (active \/ (Dynamic /\ flags \cap {"data", "rx"} # {}))
        /\ Return("worker")
    /\ UNCHANGED <<wakers, suspended, enable, lock, awake, completed, needless, works,
                   unsignalled, dropped, asks, configPs, pins, up, bounds>>

\* morse_pagesets_stale_tx_work() drops what has waited too long for its status,
\* whatever the chip still has: a report that comes later finds no packet.  A
\* report that late is a fault of the chip.
StaleWork ==
    /\ routine["worker"] = "idle" /\ pending > 0
    /\ pending' = 0 /\ dropped' = sent + toHost.statuses + received.statuses
    /\ asks' = TRUE
    /\ IF dropped' > dropped THEN Fault ELSE UNCHANGED bounds
    /\ UNCHANGED <<ps, threads, works, flags, command, queued, unsignalled, stopped, received,
                   configPs, pins, chip>>

\* Time passes.
ActivityEnds ==
    /\ active /\ active' = FALSE
    /\ UNCHANGED <<wakers, suspended, enable, lock, awake, completed, needless, threads, works, data,
                   configPs, pins, chip, bounds>>

-----------------------------------------------------------------------------
\* A packet is put into the queue, then its event set, if data may be sent.
Put ==
    /\ Input
    /\ queued' = queued + 1 /\ unsignalled' = unsignalled + 1
    /\ UNCHANGED <<ps, threads, works, flags, command, pending, dropped, stopped,
                   received, asks, configPs, pins, chip>>
Signal ==
    /\ unsignalled > 0
    /\ unsignalled' = unsignalled - 1
    /\ IF Allowed THEN flags' = flags \cup {"data"} /\ chipWork' = TRUE
       ELSE UNCHANGED <<flags, chipWork>>
    /\ UNCHANGED <<ps, threads, asyncWork, evalWork, command, queued, pending,
                   dropped, stopped, received, asks, configPs, pins, chip, bounds>>

\* Somebody sends a command; mac80211 changes power save (morse_mac_config_ps());
\* the restart begins; the driver is unregistered.
BeginCommand ==
    /\ Input /\ Begin("cmd", "command") /\ routine["mac"] # "unregister"
    /\ UNCHANGED <<ps, works, data, configPs, pins, chip>>
ConfigPs ==
    /\ Input /\ configPs' = ~configPs
    /\ Begin("mac", IF configPs THEN "psOff" ELSE "psOn")
    /\ UNCHANGED <<ps, works, data, pins, chip>>
BeginRestart ==
    /\ Input /\ Begin("mac", "restart")
    /\ UNCHANGED <<ps, works, data, configPs, pins, chip>>
Unregister ==
    /\ Input /\ Begin("mac", "unregister") /\ routine["cmd"] = "idle"
    /\ UNCHANGED <<ps, works, data, configPs, pins, chip>>

\* morse_cmd_tx().
CommandSend(t) ==
    /\ AtCall(t, "command")
    /\ command' = "queued" /\ flags' = flags \cup {"cmd"} /\ chipWork' = TRUE
    /\ stage' = [stage EXCEPT ![t] = "answer"]
    /\ UNCHANGED <<ps, routine, line, asyncWork, evalWork, queued, unsignalled, pending, dropped,
                   stopped, received, asks, configPs, pins, chip, bounds>>
CommandEnd(t) ==
    /\ stage[t] = "answer" /\ command \in {"answered", "lost"}
    /\ command' = "none" /\ Return(t)
    /\ UNCHANGED <<ps, works, flags, queued, unsignalled, pending, dropped,
                   stopped, received, asks, configPs, pins, chip, bounds>>

\* morse_mac_restart(), with the chip work cancelled: what was under way is
\* flushed and the chip is loaded again.
Reload ==
    /\ AtCall("mac", "reload") /\ routine["worker"] # "chipIf"
    /\ chipWork' = FALSE /\ flags' = {} /\ queued' = 0 /\ stopped' = FALSE
    /\ pending' = 0 /\ dropped' = received.statuses
    /\ command' = IF command = "none" THEN "none" ELSE "lost"
    /\ busyPin' = FALSE /\ busIrq' = FALSE /\ up' = TRUE /\ sent' = 0 /\ toHost' = Nothing
    /\ Return("mac")
    /\ UNCHANGED <<ps, asyncWork, evalWork, unsignalled, received, asks, configPs, wakePin, edge,
                   handler, bounds>>

\* morse_ps_finish(): without the lock; the works and the handler are waited for.
Finish ==
    /\ AtCall("mac", "finish")
    /\ enable' = FALSE /\ stage' = [stage EXCEPT !["mac"] = "cancel"]
    /\ UNCHANGED <<wakers, suspended, active, lock, awake, completed, needless, routine, line, works, data,
                   configPs, pins, chip, bounds>>
FinishCancel ==
    /\ stage["mac"] = "cancel"
    /\ handler = "idle" /\ routine["worker"] \notin {"async", "evaluate"}
    /\ asyncWork' = FALSE /\ evalWork' = FALSE
    /\ Return("mac")
    /\ UNCHANGED <<ps, chipWork, data, configPs, pins, chip, bounds>>

-----------------------------------------------------------------------------
\* The interrupt of the bus, and the receive work.  When the last packet is
\* reported it asks for an evaluation, without the lock.
BusIrq ==
    /\ busIrq /\ ~suspended /\ ~AtCall("mac", "reload")
    /\ busIrq' = FALSE /\ flags' = flags \cup {"rx"} /\ chipWork' = TRUE
    /\ UNCHANGED <<ps, threads, asyncWork, evalWork, command, queued, unsignalled, pending, dropped,
                   stopped, received, asks, configPs, wakePin, busyPin, edge, handler, chip, bounds>>
ReceiveWork ==
    /\ received # Nothing
    /\ received' = Nothing
    /\ LET late == Least(dropped, received.statuses)
       IN  /\ dropped' = dropped - late
           /\ pending' = pending - Least(pending, received.statuses - late)
    /\ asks' = (asks \/ received.statuses > 0)
    /\ command' = IF received.answer /\ command = "sent" THEN "answered" ELSE command
    /\ IF received.traffic = "none" THEN UNCHANGED <<flags, chipWork>>
       ELSE flags' = flags \cup {received.traffic} /\ chipWork' = TRUE
    /\ UNCHANGED <<ps, threads, asyncWork, evalWork, queued, unsignalled, stopped, configPs, pins, chip,
                   bounds>>
AskEvaluate ==
    /\ asks /\ asks' = FALSE
    /\ evalWork' = (evalWork \/ (enable /\ ~suspended /\ ~Buffered))
    /\ UNCHANGED <<ps, threads, asyncWork, chipWork, flags, command, queued, unsignalled, pending,
                   dropped, stopped, received, configPs, pins, chip, bounds>>

-----------------------------------------------------------------------------
\* The chip has something for the driver: it is awake, asserts its busy pin, an
\* edge unless it was asserted, and raises its interrupt.
Offer(what) ==
    /\ toHost' = what /\ up' = TRUE /\ busyPin' = TRUE
    /\ edge' = (edge \/ ~busyPin) /\ busIrq' = TRUE
    /\ UNCHANGED <<ps, threads, works, data, configPs, wakePin, handler>>
ChipReports ==
    /\ sent > 0 /\ sent' = 0
    /\ Offer([toHost EXCEPT !.statuses = @ + sent]) /\ UNCHANGED bounds
ChipAnswers ==
    /\ command = "sent" /\ ~toHost.answer /\ ~received.answer
    /\ Offer([toHost EXCEPT !.answer = TRUE]) /\ UNCHANGED <<sent, bounds>>
ChipTraffic ==
    /\ Input /\ toHost.traffic = "none"
    /\ Offer([toHost EXCEPT !.traffic = IF stopped THEN "resume" ELSE "pause"])
    /\ UNCHANGED sent
ChipLoses ==
    /\ Fault
    /\ \/ /\ sent > 0 /\ sent' = 0 /\ UNCHANGED command
          /\ dropped' = Least(dropped, toHost.statuses + received.statuses)
       \/ /\ command = "sent" /\ ~toHost.answer /\ ~received.answer
          /\ command' = "lost" /\ UNCHANGED <<sent, dropped>>
    /\ UNCHANGED <<ps, threads, works, flags, queued, unsignalled, pending, stopped, received, asks,
                   configPs, pins, up, toHost>>

\* It is not busy any more, and wakes when the pin is raised, which it may say
\* with an edge of its busy pin.
ChipIdle ==
    /\ busyPin /\ toHost = Nothing /\ busyPin' = FALSE
    /\ UNCHANGED <<ps, threads, works, data, configPs, wakePin, edge, handler, busIrq, chip, bounds>>
ChipWakes ==
    /\ wakePin /\ ~up /\ up' = TRUE /\ edge' \in {edge, TRUE}
    /\ UNCHANGED <<ps, threads, works, data, configPs, wakePin, busyPin, handler, busIrq, sent, toHost,
                   bounds>>

-----------------------------------------------------------------------------
PsCall(t) == Disable(t) \/ Enable(t) \/ Evaluate(t) \/ Wakeup(t) \/ Finished(t)
PsStep(t) == Pin(t) \/ Sleep(t) \/ Wake(t) \/ Woken(t)
Cmd(t) == CommandSend(t) \/ CommandEnd(t)
Mac == Reload \/ Finish \/ FinishCancel
Thread(t) == PsCall(t) \/ PsStep(t) \/ Cmd(t) \/ (t = "mac" /\ Mac) \/ (t = "worker" /\ Service)
Inputs == Put \/ BeginCommand \/ ConfigPs \/ BeginRestart \/ Unregister \/ ChipTraffic
Irq == IrqRead \/ IrqAct
Receive == ReceiveWork \/ AskEvaluate
Chip == ChipReports \/ ChipAnswers \/ ChipIdle \/ ChipWakes

Next ==
    \/ \E t \in Threads : Thread(t)
    \/ StartAsync \/ StartEvaluate \/ StartChipIf \/ StaleWork
    \/ Inputs \/ Signal \/ Irq \/ BusIrq \/ Receive \/ ActivityEnds
    \/ Chip \/ ChipLoses

Spec == Init /\ [][Next]_vars

\* Threads and works run, time passes, and the chip does what it is asked for: as
\* long as there is something to do, something is done.  What is to do is finite
\* between two inputs, so that no order between these steps is assumed.
Fairness ==
    WF_vars(\/ \E t \in Threads : Thread(t)
            \/ StartAsync \/ StartEvaluate \/ StartChipIf \/ StaleWork
            \/ Signal \/ Irq \/ BusIrq \/ Receive \/ ActivityEnds \/ Chip)
FairSpec == Spec /\ Fairness

-----------------------------------------------------------------------------
\* Owed: the calls of morse_ps_enable() a thread has yet to pair, before each of
\* its calls; configPs stands for the one that is paired by the next change of it.
Owed ==
    [idle       |-> <<0>>,
     command    |-> <<0, 1, 1>>,
     psOn       |-> <<1, 2, 2, 1>>,
     psOff      |-> <<-1, 0, 1, 1>>,
     restart    |-> <<0, 1, 1>>,
     unregister |-> <<0, 1, 1>>,
     chipIf     |-> <<0, 1, 1>>,
     async      |-> <<0>>,
     evaluate   |-> <<0>>]
InPs == {"pin", "sleep", "wake", "wait"}
Owes(t) ==
    Owed[routine[t]][line[t]]
      + IF stage[t] \notin InPs THEN 0
        ELSE IF Call(t) = "disable" THEN 1 ELSE IF Call(t) = "enable" THEN -1 ELSE 0

\* Types; a thread holds the lock where it is in a function of ps.c.
TypeOK ==
    /\ wakers \in Nat /\ suspended \in BOOLEAN /\ enable \in BOOLEAN
    /\ active \in BOOLEAN
    /\ lock \in Threads \cup {"none"} /\ awake \in BOOLEAN /\ completed \in BOOLEAN /\ needless \in BOOLEAN
    /\ routine \in [Threads -> DOMAIN Routine]
    /\ \A t \in Threads : line[t] \in DOMAIN Routine[routine[t]]
    /\ stage \in [Threads -> {"call", "answer", "cancel"} \cup InPs]
    /\ \A t \in Threads : lock = t <=> stage[t] \in InPs
    /\ asyncWork \in BOOLEAN /\ evalWork \in BOOLEAN /\ chipWork \in BOOLEAN
    /\ flags \subseteq {"rx", "cmd", "data", "pause", "resume"}
    /\ command \in {"none", "queued", "sent", "answered", "lost"}
    /\ queued \in Nat /\ unsignalled \in Nat /\ pending \in Nat /\ dropped \in Nat
    /\ stopped \in BOOLEAN /\ asks \in BOOLEAN /\ configPs \in BOOLEAN
    /\ wakePin \in BOOLEAN /\ busyPin \in BOOLEAN /\ edge \in BOOLEAN
    /\ handler \in {"idle", "null", "live", "dead"} /\ busIrq \in BOOLEAN
    /\ up \in BOOLEAN /\ sent \in Nat /\ inputs \in Nat /\ faults \in Nat

\* ps.h:28: calls of morse_ps_disable() and morse_ps_enable() are paired: the
\* count is what the threads owe, whoever interleaves, and nobody releases what
\* another holds.
WakersPaired ==
    enable => wakers = Owes("mac") + Owes("cmd") + Owes("worker") + (IF configPs THEN 0 ELSE 1)

\* Who uses the chip: with a command on its way, in the chip interface work,
\* while it reloads the chip, and after power save was finished.
Uses(t) == Call(t) \in {"command", "service", "reload", "finish", "detach"}

\* Nobody suspends the bus under a user, although the decision to sleep is
\* taken from state others change meanwhile.
UsedAwake == \A t \in Threads : Uses(t) => ~suspended

\* Once nothing more comes in, the bus is suspended while power save is on,
\* whatever kept it awake.  A chip that stays busy is heard, although its
\* interrupt races the evaluation that suspends the bus, or finds the completion
\* of a wake-up that is over.  The exception is the work that looks at the busy
\* pin before it has the lock: it may wake a chip that is done, and nobody
\* evaluates after it (ps.c:143).
ComesToRest ==
    <>[](enable => IF busyPin THEN ~suspended ELSE configPs => suspended \/ needless)
=============================================================================
