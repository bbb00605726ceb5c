------------------------------ MODULE Restart ------------------------------
(****************************************************************************)
(* How the driver notices a chip that does not work, and starts it again:   *)
(* the watchdog and the health check (mac.c), the stop the chip indicates   *)
(* (hw.c), the restart of the driver with its coredump (mac.c, command.c),  *)
(* and the commands, events and callbacks that pause the watchdog or touch  *)
(* the flags in between.  Works wait for mors->lock, which the health check *)
(* and the restart hold over several steps.                                 *)
(****************************************************************************)
EXTENDS Watchdog

CONSTANTS
    Callers,    \* threads that ask for a coredump
    MaxEvents,  \* bound on what users, mac80211 and the traffic control ask
    MaxFaults   \* bound on hangs of the chip, lost answers, failed restarts
                \* and coredumps that take too long

ASSUME RestartAssumption == MaxEvents \in Nat /\ MaxFaults \in Nat

NoCaller == "none"
ASSUME CallersAssumption == NoCaller \notin Callers

VARIABLES
    lock,       \* the holder of mors->lock over several steps
    started,    \* mors->started
    up,         \* mac80211 has started the driver
    reconfig,   \* the work of ieee80211_restart_hw() is pending
    unresponsive, dump, blocked,  \* bits of mors->state_flags
    queued,     \* the works that are pending
    rpc,        \* where the restart is
    spc,        \* where the work for an indicated stop is
    recent,     \* an indicated stop was handled within hw_reload_after_stop
    chip,       \* the chip
    resetRequired,  \* mors->reset_required
    twt,        \* the chip has paused the traffic
    cpc,        \* where a caller of morse_cmd_coredump() is
    comp,       \* mors->user_coredump_comp, as the caller it belongs to
    answered,   \* the callers whose completion is complete
    lost,       \* the callers whose request another one, or a start, has undone
    disturbed,  \* others than a restart that succeeds have touched the watchdog
    events, faults

flags == <<unresponsive, dump, blocked>>
coredump == <<cpc, comp, answered, lost>>
threads == <<lock, queued, rpc, spc, recent>>
device == <<chip, resetRequired, twt>>
mac80211 == <<started, up, reconfig>>
bounds == <<events, faults>>
watching == <<watchdog, disturbed>>
vars == <<watching, flags, coredump, threads, device, mac80211, bounds>>

Works == {"restart", "health", "stop"}

Init ==
    /\ WatchdogInit
    /\ lock = "none" /\ started = TRUE /\ up = TRUE /\ reconfig = FALSE
    /\ unresponsive = FALSE /\ dump = FALSE /\ blocked = FALSE
    /\ queued = {} /\ rpc = "idle" /\ spc = "idle" /\ recent = FALSE
    /\ chip = "up" /\ resetRequired = FALSE /\ twt = FALSE /\ disturbed = FALSE
    /\ cpc = [c \in Callers |-> "idle"] /\ comp = NoCaller /\ answered = {} /\ lost = {}
    /\ events = 0 /\ faults = 0

Event == events < MaxEvents /\ events' = events + 1 /\ UNCHANGED faults
Fault == faults < MaxFaults /\ faults' = faults + 1 /\ UNCHANGED events
Unlocked == lock = "none"

\* The chip answers a command that the driver lets through.
Answers == chip = "up" /\ ~unresponsive /\ ~blocked

Waiting == {c \in Callers : cpc[c] = "wait" /\ c \notin answered}

-----------------------------------------------------------------------------
\* The timer fires: morse_watchdog_fire(), morse_mac_ping_health_check().
Fire ==
    /\ ticking /\ paused = 0
    /\ queued' = queued \cup {"health"}
    /\ UNCHANGED <<watching, flags, coredump, lock, rpc, spc, recent, device, mac80211, bounds>>

\* morse_health_check_work(), with the command it repeats as one exchange.  A
\* failure asks for a coredump unless enable_coredump, which a user may change
\* at any time, is off; so does the work for an indicated stop.
HealthSkip ==
    /\ "health" \in queued /\ Unlocked /\ (~started \/ blocked)
    /\ queued' = queued \ {"health"}
    /\ UNCHANGED <<watching, flags, coredump, lock, rpc, spc, recent, device, mac80211, bounds>>
HealthStart ==
    /\ "health" \in queued /\ Unlocked /\ started /\ ~blocked
    /\ queued' = queued \ {"health"} /\ lock' = "health"
    /\ UNCHANGED <<watching, flags, coredump, rpc, spc, recent, device, mac80211, bounds>>
HealthOkClears ==
    /\ lock = "health" /\ Answers
    /\ lock' = "none" /\ dump' = FALSE
    /\ UNCHANGED <<watching, unresponsive, blocked, coredump, queued, rpc, spc, recent,
                   device, mac80211, bounds>>
HealthOk ==
    /\ lock = "health" /\ Answers
    /\ lock' = "none"
    /\ UNCHANGED <<watching, flags, coredump, queued, rpc, spc, recent, device, mac80211, bounds>>
HealthFailOnce ==
    /\ lock = "health"
    /\ IF Answers THEN Fault ELSE UNCHANGED bounds
    /\ lock' = "none" /\ (dump' = TRUE \/ dump' = dump) /\ unresponsive' = TRUE
    /\ queued' = IF unresponsive THEN queued ELSE queued \cup {"restart"}
    /\ UNCHANGED <<watching, blocked, coredump, rpc, spc, recent, device, mac80211>>
HealthFail ==
    /\ lock = "health"
    /\ IF Answers THEN Fault ELSE UNCHANGED bounds
    /\ lock' = "none" /\ (dump' = TRUE \/ dump' = dump) /\ unresponsive' = TRUE
    /\ queued' = queued \cup {"restart"}
    /\ UNCHANGED <<watching, blocked, coredump, rpc, spc, recent, device, mac80211>>

\* The chip hangs, and may still raise the interrupt that says so.
ChipHangs ==
    /\ chip = "up" /\ Fault
    /\ chip' = "hung" /\ queued' \in {queued, queued \cup {"stop"}}
    /\ UNCHANGED <<watching, flags, coredump, lock, rpc, spc, recent, resetRequired, twt, mac80211>>

\* morse_hw_stop_work() looks at started and at the time before it has the
\* lock, and schedules the restart after it has released it.
StopCheck ==
    /\ "stop" \in queued /\ spc = "idle"
    /\ queued' = queued \ {"stop"}
    /\ spc' = IF started /\ ~recent THEN "flag" ELSE "idle"
    /\ UNCHANGED <<watching, flags, coredump, lock, rpc, recent, device, mac80211, bounds>>
StopFlags ==
    /\ spc = "flag" /\ Unlocked
    /\ (dump' = TRUE \/ dump' = dump) /\ unresponsive' = TRUE /\ recent' = TRUE
    /\ spc' = "schedule"
    /\ UNCHANGED <<watching, blocked, coredump, lock, queued, rpc, device, mac80211, bounds>>
StopScheduleIfStarted ==
    /\ spc = "schedule"
    /\ queued' = (IF started THEN queued \cup {"restart"} ELSE queued) /\ spc' = "idle"
    /\ UNCHANGED <<watching, flags, coredump, lock, rpc, recent, device, mac80211, bounds>>
StopSchedule ==
    /\ spc = "schedule"
    /\ queued' = queued \cup {"restart"} /\ spc' = "idle"
    /\ UNCHANGED <<watching, flags, coredump, lock, rpc, recent, device, mac80211, bounds>>
RecentEnds ==
    /\ recent /\ recent' = FALSE
    /\ UNCHANGED <<watching, flags, coredump, lock, queued, rpc, spc, device, mac80211, bounds>>

-----------------------------------------------------------------------------
\* morse_mac_restart_work(): it may be queued again from here on.
RestartEnter ==
    /\ "restart" \in queued /\ rpc = "idle"
    /\ queued' = queued \ {"restart"} /\ rpc' = "enter"
    /\ UNCHANGED <<watching, flags, coredump, lock, spc, recent, device, mac80211, bounds>>
RestartBegin ==
    /\ rpc = "enter" /\ Unlocked
    /\ lock' = "restart" /\ rpc' = "dump" /\ started' = FALSE /\ WatchdogPause
    /\ UNCHANGED <<disturbed, flags, coredump, queued, spc, recent, device, up, reconfig, bounds>>

\* The coredump somebody asked for, and the answer to a user.
RestartDump ==
    /\ rpc = "dump"
    /\ rpc' = "reload" /\ dump' = FALSE
    /\ IF dump /\ comp # NoCaller
         THEN answered' = answered \cup {comp} /\ lost' = lost \ {comp}
         ELSE UNCHANGED <<answered, lost>>
    /\ UNCHANGED <<watching, unresponsive, blocked, cpc, comp, lock, queued, spc,
                   recent, device, mac80211, bounds>>

\* The firmware is loaded and runs: nothing of the old one is left, but the
\* watchdog stays paused for whom the old one had paused it.
RestartOk ==
    /\ rpc = "reload"
    /\ rpc' = "idle" /\ lock' = "none"
    /\ chip' = "up" /\ twt' = FALSE /\ unresponsive' = FALSE /\ reconfig' = TRUE /\ WatchdogResume
    /\ UNCHANGED <<disturbed, dump, blocked, coredump, queued, spc, recent, resetRequired,
                   started, up, bounds>>

\* The chip is not there, or does not load.  The watchdog is cleaned up, and
\* stays paused.
RestartFail ==
    /\ rpc = "reload" /\ Fault
    /\ rpc' = "idle" /\ lock' = "none"
    /\ chip' = "failed" /\ twt' = FALSE /\ resetRequired' = TRUE /\ started' = FALSE /\ WatchdogCleanup
    /\ disturbed' = TRUE
    /\ UNCHANGED <<flags, coredump, queued, spc, recent, up, reconfig>>

-----------------------------------------------------------------------------
\* morse_mac_ops_start() clears every flag.  Nothing asks for a reload after
\* the start: the regulatory notifier returns at once (mac.c:6794).
OpsStart ==
    /\ Unlocked
    /\ unresponsive' = FALSE /\ dump' = FALSE /\ blocked' = FALSE /\ started' = TRUE
    /\ lost' = lost \cup Waiting
    /\ UNCHANGED <<watching, cpc, comp, answered, lock, queued, rpc, spc, recent, device>>

\* The work of ieee80211_restart_hw(), and a user who takes the interface up
\* and down (morse_mac_ops_stop()).
Reconfig == reconfig /\ up /\ reconfig' = FALSE /\ OpsStart /\ UNCHANGED <<up, bounds>>
NoReconfig ==
    /\ reconfig /\ ~up /\ reconfig' = FALSE
    /\ UNCHANGED <<watching, flags, coredump, threads, device, started, up, bounds>>
Up == ~up /\ Event /\ up' = TRUE /\ OpsStart /\ UNCHANGED reconfig
Down ==
    /\ up /\ Unlocked /\ Event
    /\ up' = FALSE /\ started' = FALSE
    /\ UNCHANGED <<watching, flags, coredump, threads, device, reconfig>>

-----------------------------------------------------------------------------
\* morse_cmd_coredump(), a vendor command: it schedules the restart and waits
\* with the lock released; there is one pointer for all callers.
Clobbered(c) == (Waiting \ {c}) \cap {comp}
CoredumpBegin(c) ==
    /\ cpc[c] = "idle" /\ Unlocked /\ Event
    /\ cpc' = [cpc EXCEPT ![c] = "wait"] /\ comp' = c /\ dump' = TRUE
    /\ queued' = queued \cup {"restart"}
    /\ lost' = lost \cup Clobbered(c)
    /\ UNCHANGED <<watching, answered, unresponsive, blocked, lock, rpc, spc, recent,
                   device, mac80211>>
CoredumpTimeout(c) ==
    /\ c \in Waiting
    /\ IF "restart" \in queued \/ rpc # "idle" THEN Fault ELSE UNCHANGED bounds
    /\ cpc' = [cpc EXCEPT ![c] = "late"] /\ lost' = lost \ {c}
    /\ UNCHANGED <<watching, flags, comp, answered, threads, device, mac80211>>
CoredumpEndUnlocked(c) ==
    /\ cpc[c] = "late" \/ (cpc[c] = "wait" /\ c \in answered)
    /\ cpc' = [cpc EXCEPT ![c] = "idle"] /\ comp' = NoCaller
    /\ lost' = (lost \ {c}) \cup Clobbered(c) /\ answered' = answered \ {c}
    /\ UNCHANGED <<watching, flags, threads, device, mac80211, bounds>>
CoredumpEndKeepsPointer(c) ==
    /\ cpc[c] = "late" \/ (cpc[c] = "wait" /\ c \in answered)
    /\ Unlocked
    /\ cpc' = [cpc EXCEPT ![c] = "idle"]
    /\ comp' = IF cpc[c] = "late" THEN comp ELSE NoCaller
    /\ lost' = (lost \ {c}) \cup Clobbered(c) /\ answered' = answered \ {c}
    /\ UNCHANGED <<watching, flags, threads, device, mac80211, bounds>>
CoredumpEnd(c) ==
    /\ cpc[c] = "late" \/ (cpc[c] = "wait" /\ c \in answered)
    /\ Unlocked
    /\ cpc' = [cpc EXCEPT ![c] = "idle"] /\ comp' = NoCaller
    /\ lost' = (lost \ {c}) \cup Clobbered(c) /\ answered' = answered \ {c}
    /\ UNCHANGED <<watching, flags, threads, device, mac80211, bounds>>

\* morse_debug_driver_restart_write() and morse_debug_watchdog_write().
DebugRestart ==
    /\ Event /\ queued' = queued \cup {"restart"}
    /\ UNCHANGED <<watching, flags, coredump, lock, rpc, spc, recent, device, mac80211>>
DebugWatchdog ==
    /\ Event /\ (WatchdogStart \/ WatchdogStop \/ WatchdogCleanup) /\ disturbed' = TRUE
    /\ UNCHANGED <<flags, coredump, threads, device, mac80211>>

\* Commands of users that pause the watchdog, with the lock held: hibernation,
\* long sleep (as often as it is asked for) and standby, which blocks commands
\* if the chip can scan by itself.
Command ==
    /\ Unlocked /\ Event /\ disturbed' = TRUE
    /\ UNCHANGED <<dump, coredump, threads, resetRequired, twt, mac80211>>
Hibernate ==
    /\ Command /\ Answers
    /\ chip' = "hung" /\ unresponsive' = TRUE /\ WatchdogPause
    /\ UNCHANGED blocked
LongSleep ==
    /\ Command /\ Answers /\ (WatchdogPause \/ WatchdogResume)
    /\ UNCHANGED <<chip, unresponsive, blocked>>
StandbyEnter ==
    /\ Command /\ Answers
    /\ (blocked' = TRUE \/ blocked' = blocked) /\ WatchdogPause
    /\ UNCHANGED <<chip, unresponsive>>

\* The exit unblocks commands before it sends its own, which may get no answer.
StandbyExit ==
    /\ Command
    /\ blocked' = FALSE
    /\ IF chip = "up" /\ ~unresponsive THEN WatchdogResume ELSE UNCHANGED watchdog
    /\ UNCHANGED <<chip, unresponsive>>

\* morse_mac_traffic_control(): the chip pauses and resumes the traffic.
Traffic ==
    /\ chip = "up" /\ Event
    /\ disturbed' = TRUE
    /\ twt' = ~twt /\ (IF twt THEN WatchdogResume ELSE WatchdogPause)
    /\ UNCHANGED <<flags, coredump, threads, chip, resetRequired, mac80211>>

-----------------------------------------------------------------------------
Health == HealthSkip \/ HealthStart \/ HealthOk \/ HealthFail
Stop == StopCheck \/ StopFlags \/ StopSchedule
RestartWork == RestartEnter \/ RestartBegin \/ RestartDump \/ RestartOk \/ RestartFail
User ==
    \/ Up \/ Down \/ DebugRestart \/ DebugWatchdog
    \/ Hibernate \/ LongSleep \/ StandbyEnter \/ StandbyExit \/ Traffic
Coredump(c) == CoredumpBegin(c) \/ CoredumpTimeout(c) \/ CoredumpEnd(c)

Next ==
    \/ Fire \/ Health \/ ChipHangs \/ Stop \/ RecentEnds \/ RestartWork
    \/ Reconfig \/ NoReconfig \/ User
    \/ \E c \in Callers : Coredump(c)

Spec == Init /\ [][Next]_vars

\* The timer fires, works run, and mac80211 starts the driver again.  The
\* restart gets the mutex, which serves its waiters in turn, although the health
\* check takes it again and again.  Nothing is asked of the work for an
\* indicated stop: recovery does not depend on it.
Fairness ==
    /\ WF_vars(Fire) /\ WF_vars(Health) /\ SF_vars(RestartWork) /\ WF_vars(Reconfig)
FairSpec == Spec /\ Fairness

-----------------------------------------------------------------------------
\* Types of the state of the recovery; a holder of the lock is where it holds it.
TypeOK ==
    /\ WatchdogTypeOK
    /\ lock \in {"none", "health", "restart"}
    /\ lock = "restart" <=> rpc \in {"dump", "reload"}
    /\ started \in BOOLEAN /\ up \in BOOLEAN /\ reconfig \in BOOLEAN
    /\ unresponsive \in BOOLEAN /\ dump \in BOOLEAN /\ blocked \in BOOLEAN
    /\ queued \subseteq Works /\ rpc \in {"idle", "enter", "dump", "reload"}
    /\ spc \in {"idle", "flag", "schedule"}
    /\ recent \in BOOLEAN /\ chip \in {"up", "hung", "failed"}
    /\ resetRequired \in BOOLEAN /\ twt \in BOOLEAN /\ disturbed \in BOOLEAN
    /\ cpc \in [Callers -> {"idle", "wait", "late"}] /\ comp \in Callers \cup {NoCaller}
    /\ answered \subseteq Callers /\ lost \subseteq Callers
    /\ events \in Nat /\ faults \in Nat

\* The watchdog ticks for its consumers unless it is paused, whatever order its
\* users, the restart and the events come in; the one exception is a stop with
\* consumers left (watchdog.c:109).  It never ticks paused or for nobody, and
\* one that nobody else has touched is off only while a restart runs.
WatchdogTicks ==
    /\ disturbed \/ rpc \in {"dump", "reload"} \/ ticking
    /\ consumers > 0 /\ paused = 0 => ticking \/ halted
    /\ ticking => consumers > 0 /\ paused = 0

\* A coredump that was asked for has a restart on its way that makes it: no
\* later restart makes it of a chip that works.
DumpHasRestart ==
    dump => "restart" \in queued \/ rpc \in {"enter", "dump"} \/ spc = "schedule"

\* The pointer to a completion on the stack of a caller is gone before the
\* caller is, also when callers overlap or time out.
CompletionAlive == comp # NoCaller => cpc[comp] # "idle"

\* A caller waits in vain only if another one overwrote or cleared its pointer,
\* or a start of the driver cleared the flag.
RequestPending ==
    \A c \in Waiting \ lost :
        comp = c /\ dump /\ ("restart" \in queued \/ rpc \in {"enter", "dump"})

\* command.c:265: a caller that succeeds has waited for the chip to be reloaded.
WaitsForReload ==
    [][\A c \in Callers : (cpc[c] = "wait" /\ cpc'[c] = "idle") => rpc # "reload"]_vars

\* The watchdog is off, or the health check does not look.
Unwatched == (disturbed /\ rpc = "idle" /\ ~ticking) \/ blocked \/ ~up
Working == chip = "up" /\ ~unresponsive

\* A chip that hangs, with or without an interrupt, and a flag that refuses all
\* traffic, are dealt with while the watchdog watches: the chip works again, or
\* the driver has given up.
Recovers == (~Working) ~> Working \/ chip = "failed" \/ Unwatched

=============================================================================
