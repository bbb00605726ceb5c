------------------------------- MODULE HwScan -------------------------------
(*****************************************************************************)
(* Hardware and scheduled scans (hw_scan.c): the calls of mac80211, which    *)
(* come one at a time, the timeout work, the done event of the chip in the   *)
(* receive work, and the restart.  They share mors->lock, the state of the   *)
(* scan and the completion scan_done.                                        *)
(*                                                                           *)
(* A command is sent and answered with the lock held.  The receive work      *)
(* handles responses and events in the order of the chip, and the handler of *)
(* the done event takes the lock, so a response behind the event waits for   *)
(* the sender of the command, which waits for the response.                  *)
(*****************************************************************************)
EXTENDS Naturals, Sequences

CONSTANTS
    MaxCalls,    \* bound on calls of mac80211
    MaxFaults,   \* bound on lost commands, responses and events, on refusals
                 \* by the chip and on answers that come too late
    MaxRestarts  \* bound on restarts

ASSUME HwScanAssumption ==
    MaxCalls \in Nat /\ MaxFaults \in Nat /\ MaxRestarts \in Nat

Threads == {"op", "timer"}

VARIABLES
    state,     \* hw_scan.state: IDLE, RUNNING, ABORTING, SCHED or SCHED_STOPPING
    done,      \* the count of hw_scan.scan_done
    armed,     \* the scan hw_scan.timeout is pending for, or 0
    fired,     \* the scan the timeout work was queued for
    lock,      \* the holder of mors->lock
    pc,        \* where the call of mac80211 and the timeout work are
    forScan,   \* morse_hw_stop_sched_scan() was called by morse_ops_hw_scan()
    restart,   \* where the restart is
    restarts,  \* restarts so far
    started,   \* mors->started
    cmd,       \* the command on its way to the chip
    reply,     \* the answer to the command, once it was received
    rx,        \* what the receive work has before it
    rxSync,    \* the receive work waits for the timeout work to end
    chipScan,  \* the number of the scan the chip is at
    scans,     \* scans started
    calls,     \* calls of mac80211 so far
    scanReq,   \* mac80211 waits for a scan to complete
    schedReq,  \* mac80211 has a scheduled scan
    faults,    \* faults so far
    starved,   \* a command timed out behind a done event that waits for the lock
    stale,     \* a scan began with scan_done complete
    spurious,  \* mac80211 was told of the end of a scan it did not wait for
    mixedUp    \* the done event of one scan ended another one

driver == <<state, done, armed, fired>>
threads == <<pc, forScan>>
restarting == <<restart, restarts, started>>
command == <<cmd, reply>>
receive == <<rx, rxSync>>
mac80211 == <<scans, calls, scanReq, schedReq>>
ghosts == <<starved, stale, spurious, mixedUp>>
vars == <<driver, lock, threads, restarting, command, receive, chipScan, mac80211, faults, ghosts>>

Init ==
    /\ state = "IDLE" /\ done = 0 /\ armed = 0 /\ fired = 0
    /\ lock = "none" /\ pc = [t \in Threads |-> "idle"] /\ forScan = FALSE
    /\ restart = "idle" /\ restarts = 0 /\ started = TRUE
    /\ cmd = "none" /\ reply = "none" /\ rx = <<>> /\ rxSync = FALSE /\ chipScan = 0
    /\ scans = 0 /\ calls = 0 /\ scanReq = FALSE /\ schedReq = FALSE
    /\ faults = 0 /\ starved = FALSE /\ stale = FALSE /\ spurious = FALSE
    /\ mixedUp = FALSE

Done(n) == [what |-> "done", scan |-> n]
Answer(a) == [what |-> a, scan |-> 0]
IsDone(m) == m.what = "done"
Without(s, i) == SubSeq(s, 1, i - 1) \o SubSeq(s, i + 1, Len(s))

Fault == faults < MaxFaults /\ faults' = faults + 1

Goto(t, label) == pc' = [pc EXCEPT ![t] = label]
At(t, label) == pc[t] = label
Locked(t, label) == At(t, label) /\ lock = "none"

\* ieee80211_scan_completed().
ScanCompleted ==
    /\ scanReq' = FALSE
    /\ spurious' = (spurious \/ ~scanReq)

\* morse_cmd_tx() sends a command; the answer, or the lack of one, ends it.
Send(c) == cmd' = c /\ reply' = "none"
NoCommand == cmd' = "none" /\ reply' = "none"

-----------------------------------------------------------------------------
\* mac80211 calls when nothing contradicts it on its side.
Call(label) ==
    /\ At("op", "idle") /\ Goto("op", label)
    /\ calls < MaxCalls /\ calls' = calls + 1
    /\ UNCHANGED <<driver, lock, forScan, restarting, command, receive, chipScan, scans, schedReq,
                   faults, ghosts>>
CallScan == ~scanReq /\ scanReq' = TRUE /\ Call("scan")
CallCancel == scanReq /\ UNCHANGED scanReq /\ Call("sync")
CallSchedStart == ~schedReq /\ UNCHANGED scanReq /\ Call("sched")
CallSchedStop == schedReq /\ UNCHANGED scanReq /\ Call("stop")

\* morse_ops_hw_scan(): a scheduled scan is stopped first, with the lock released.
ScanRefused ==
    /\ Locked("op", "scan")
    /\ ~started \/ state \in {"RUNNING", "ABORTING", "SCHED_STOPPING"}
    /\ Goto("op", "idle") /\ scanReq' = FALSE
    /\ UNCHANGED <<driver, lock, forScan, restarting, command, receive, chipScan, scans, calls,
                   schedReq, faults, ghosts>>
ScanAfterSched ==
    /\ Locked("op", "scan") /\ started /\ state = "SCHED"
    /\ Goto("op", "stop") /\ forScan' = TRUE
    /\ UNCHANGED <<driver, lock, restarting, command, receive, chipScan, mac80211, faults, ghosts>>

\* It starts the scan, and looks at neither the state nor the completion when
\* it comes back from stopping the scheduled one.  Without memory for the
\* parameters it ends as when the chip refuses the command.
ScanStart ==
    /\ \/ Locked("op", "scan") /\ started /\ state = "IDLE" /\ done' = 0 /\ stale' = stale
       \/ Locked("op", "rescan") /\ done' = done /\ stale' = (stale \/ done > 0)
    /\ state' = "RUNNING" /\ lock' = "op"
    /\ Send("START") /\ scans' = scans + 1
    /\ Goto("op", "start")
    /\ UNCHANGED <<armed, fired, forScan, restarting, receive, chipScan, calls, scanReq, schedReq, faults,
                   starved, spurious, mixedUp>>
ScanStartedLocked ==
    /\ At("op", "start") /\ reply # "none"
    /\ IF reply = "ok" THEN armed' = scans /\ UNCHANGED <<state, scanReq>>
       ELSE state' = "IDLE" /\ scanReq' = FALSE /\ UNCHANGED armed
    /\ lock' = IF reply = "ok" THEN "none" ELSE lock
    /\ NoCommand /\ Goto("op", "idle")
    /\ UNCHANGED <<done, fired, forScan, restarting, receive, chipScan, scans, calls, schedReq, faults,
                   ghosts>>
ScanStarted ==
    /\ At("op", "start") /\ reply # "none"
    /\ IF reply = "ok" THEN armed' = scans /\ UNCHANGED <<state, scanReq>>
       ELSE state' = "IDLE" /\ scanReq' = FALSE /\ UNCHANGED armed
    /\ lock' = "none" /\ NoCommand /\ Goto("op", "idle")
    /\ UNCHANGED <<done, fired, forScan, restarting, receive, chipScan, scans, calls, schedReq, faults,
                   ghosts>>

-----------------------------------------------------------------------------
\* The timeout of a scan, too early or with nothing left to wait for.
Coming == chipScan # 0 \/ \E i \in DOMAIN rx : IsDone(rx[i])
TimerFires ==
    /\ armed # 0 /\ At("timer", "idle")
    /\ IF Coming THEN Fault ELSE UNCHANGED faults
    /\ armed' = 0 /\ fired' = armed /\ Goto("timer", "cancel")
    /\ UNCHANGED <<state, done, lock, forScan, restarting, command, receive, chipScan, mac80211,
                   ghosts>>

\* morse_ops_cancel_hw_scan() waits for the timeout work.
CancelSync ==
    /\ At("op", "sync") /\ At("timer", "idle")
    /\ armed' = 0 /\ Goto("op", "cancel")
    /\ UNCHANGED <<state, done, fired, lock, forScan, restarting, command, receive, chipScan, mac80211,
                   faults, ghosts>>

\* cancel_hw_scan(), by mac80211 or the timeout work.
CancelStop(t) ==
    /\ Locked(t, "cancel")
    /\ IF state = "RUNNING"
       THEN state' = "ABORTING" /\ lock' = t /\ Send("STOP") /\ Goto(t, "stopping")
       ELSE Goto(t, "idle") /\ UNCHANGED <<state, lock, command>>
    /\ UNCHANGED <<done, armed, fired, forScan, restarting, receive, chipScan, mac80211, faults, ghosts>>
CancelStoppedGiveUp(t) ==
    /\ At(t, "stopping") /\ reply # "none"
    /\ lock' = "none" /\ NoCommand
    /\ Goto(t, "giveUp")
    /\ UNCHANGED <<driver, forScan, restarting, receive, chipScan, mac80211, faults, ghosts>>
CancelStopped(t) ==
    /\ At(t, "stopping") /\ reply # "none"
    /\ lock' = "none" /\ NoCommand
    /\ Goto(t, IF reply = "ok" /\ started THEN "wait" ELSE "giveUp")
    /\ UNCHANGED <<driver, forScan, restarting, receive, chipScan, mac80211, faults, ghosts>>

\* The waits for scan_done, of cancel_hw_scan() and morse_hw_stop_sched_scan().
WaitDone(t, here, next) ==
    /\ At(t, here) /\ done > 0
    /\ done' = done - 1 /\ Goto(t, next)
    /\ UNCHANGED <<state, armed, fired, lock, forScan, restarting, command, receive, chipScan, mac80211,
                   faults, ghosts>>
WaitTimeout(t, here, next) ==
    /\ At(t, here) /\ done = 0
    /\ IF Coming /\ ~rxSync THEN Fault ELSE UNCHANGED faults
    /\ Goto(t, next)
    /\ UNCHANGED <<driver, lock, forScan, restarting, command, receive, chipScan, mac80211, ghosts>>
CancelGiveUpSilent(t) ==
    /\ Locked(t, "giveUp")
    /\ state' = "IDLE" /\ Goto(t, "idle")
    /\ UNCHANGED <<done, armed, fired, lock, forScan, restarting, command, receive, chipScan, mac80211,
                   faults, ghosts>>
CancelGiveUp(t) ==
    /\ Locked(t, "giveUp")
    /\ ScanCompleted /\ state' = "IDLE" /\ Goto(t, "idle")
    /\ UNCHANGED <<done, armed, fired, lock, forScan, restarting, command, receive, chipScan, scans, calls,
                   schedReq, faults, starved, stale, mixedUp>>

-----------------------------------------------------------------------------
\* morse_ops_sched_scan_start().
SchedRefused ==
    /\ Locked("op", "sched")
    /\ ~started \/ state # "IDLE"
    /\ Goto("op", "idle")
    /\ UNCHANGED <<driver, lock, forScan, restarting, command, receive, chipScan, mac80211, faults,
                   ghosts>>
SchedStart ==
    /\ Locked("op", "sched") /\ started /\ state = "IDLE"
    /\ state' = "SCHED" /\ done' = 0 /\ lock' = "op"
    /\ Send("SCHED_START") /\ scans' = scans + 1
    /\ Goto("op", "schedStart")
    /\ UNCHANGED <<armed, fired, forScan, restarting, receive, chipScan, calls, scanReq, schedReq, faults,
                   ghosts>>
SchedStarted ==
    /\ At("op", "schedStart") /\ reply # "none"
    /\ IF reply = "ok" THEN schedReq' = TRUE /\ UNCHANGED state
       ELSE state' = "IDLE" /\ UNCHANGED schedReq
    /\ lock' = "none" /\ NoCommand /\ Goto("op", "idle")
    /\ UNCHANGED <<done, armed, fired, forScan, restarting, receive, chipScan, scans, calls, scanReq,
                   faults, ghosts>>

\* morse_hw_stop_sched_scan(), of which mac80211 hears unless it asked for it.
StopReturn ==
    /\ Goto("op", IF forScan THEN "rescan" ELSE "idle") /\ forScan' = FALSE
    /\ schedReq' = (schedReq /\ forScan)
SchedStop ==
    /\ Locked("op", "stop")
    /\ IF state = "SCHED"
       THEN /\ state' = "SCHED_STOPPING" /\ lock' = "op" /\ Send("SCHED_STOP")
            /\ Goto("op", "schedStopping") /\ UNCHANGED <<forScan, schedReq>>
       ELSE StopReturn /\ UNCHANGED <<state, lock, command>>
    /\ UNCHANGED <<done, armed, fired, restarting, receive, chipScan, scans, calls, scanReq, faults,
                   ghosts>>
SchedStopped ==
    /\ At("op", "schedStopping") /\ reply # "none"
    /\ lock' = "none" /\ NoCommand
    /\ Goto("op", IF reply = "ok" /\ started THEN "schedWait" ELSE "schedGiveUp")
    /\ UNCHANGED <<driver, forScan, restarting, receive, chipScan, mac80211, faults, ghosts>>
SchedGiveUp ==
    /\ Locked("op", "schedGiveUp")
    /\ state' = "IDLE" /\ Goto("op", "tell")
    /\ UNCHANGED <<done, armed, fired, lock, forScan, restarting, command, receive, chipScan, mac80211,
                   faults, ghosts>>
SchedTell ==
    /\ At("op", "tell") /\ (forScan => lock = "none")
    /\ Goto("op", IF forScan THEN "rescan" ELSE "idle")
    /\ forScan' = FALSE /\ schedReq' = FALSE
    /\ UNCHANGED <<driver, lock, restarting, command, receive, chipScan, scans, calls, scanReq,
                   faults, ghosts>>

-----------------------------------------------------------------------------
\* The receive work delivers an answer, or the done event of a scan, for which
\* it needs the lock.
ReceiveAny ==
    /\ ~rxSync
    /\ \E i \in DOMAIN rx :
          /\ ~IsDone(rx[i])
          /\ reply' = rx[i].what /\ rx' = Without(rx, i)
    /\ UNCHANGED <<driver, lock, threads, restarting, cmd, rxSync, chipScan, mac80211, faults, ghosts>>
Receive ==
    /\ rx # <<>> /\ ~rxSync /\ ~IsDone(Head(rx))
    /\ reply' = Head(rx).what /\ rx' = Tail(rx)
    /\ UNCHANGED <<driver, lock, threads, restarting, cmd, rxSync, chipScan, mac80211, faults, ghosts>>

\* morse_hw_scan_done_event(): the state is set before it is compared, so no
\* scan is reported as aborted.
DoneEvent ==
    /\ rx # <<>> /\ ~rxSync /\ IsDone(Head(rx)) /\ lock = "none"
    /\ rx' = Tail(rx) /\ rxSync' = TRUE
    /\ state' = "IDLE" /\ done' = done + 1
    /\ IF state \in {"RUNNING", "ABORTING"} THEN ScanCompleted ELSE UNCHANGED <<scanReq, spurious>>
    /\ schedReq' = (schedReq /\ state # "SCHED")
    /\ mixedUp' = (mixedUp \/ (state # "IDLE" /\ Head(rx).scan # scans))
    /\ UNCHANGED <<armed, fired, lock, threads, restarting, command, chipScan, scans, calls, faults,
                   starved, stale>>
DoneSyncForget ==
    /\ rxSync /\ rxSync' = FALSE
    /\ UNCHANGED <<driver, lock, threads, restarting, command, rx, chipScan, mac80211, faults, ghosts>>
DoneSync ==
    /\ rxSync /\ At("timer", "idle")
    /\ rxSync' = FALSE /\ armed' = 0
    /\ UNCHANGED <<state, done, fired, lock, threads, restarting, command, rx, chipScan, mac80211, faults,
                   ghosts>>

\* The wait for a response runs out: the command or the response was lost, the
\* chip is too slow, or the response is behind a done event that waits for the
\* lock, or for the timeout work that waits for the response.  A response that
\* is too late is dropped.
Blocked == rx # <<>> /\ (rxSync \/ IsDone(Head(rx)))
CommandTimeout ==
    /\ lock \in Threads /\ reply = "none"
    /\ IF Blocked THEN starved' = TRUE /\ UNCHANGED faults
       ELSE /\ IF (cmd = "none" /\ rx = <<>>) \/ restart = "failed" THEN UNCHANGED faults ELSE Fault
            /\ UNCHANGED starved
    /\ reply' = "error" /\ cmd' = "none"
    /\ \/ \E i \in DOMAIN rx : ~IsDone(rx[i]) /\ rx' = Without(rx, i)
       \/ (\A i \in DOMAIN rx : IsDone(rx[i])) /\ UNCHANGED rx
    /\ UNCHANGED <<driver, lock, threads, restarting, rxSync, chipScan, mac80211, stale, spurious,
                   mixedUp>>

-----------------------------------------------------------------------------
\* The restart: with the lock held it ends the scans, waits for the timeout
\* work, and reloads the chip; mac80211 then starts the driver again.
RestartLock ==
    /\ restart = "idle" /\ restarts < MaxRestarts /\ lock = "none"
    /\ lock' = "restart" /\ restart' = "locked" /\ restarts' = restarts + 1
    /\ started' = FALSE
    /\ UNCHANGED <<driver, threads, command, receive, chipScan, mac80211, faults, ghosts>>

\* morse_hw_sched_scan_finish() and morse_hw_scan_finish().
RestartFinishScans ==
    /\ restart = "locked"
    /\ \/ /\ state = "IDLE" /\ restart' = "reload"
          /\ UNCHANGED <<state, done, scanReq, schedReq, spurious>>
       \/ /\ state = "SCHED" /\ restart' = "reload"
          /\ state' = "IDLE" /\ done' = done + 1 /\ schedReq' = FALSE
          /\ UNCHANGED <<scanReq, spurious>>
       \/ /\ state \in {"RUNNING", "ABORTING", "SCHED_STOPPING"} /\ restart' = "sync"
          /\ ScanCompleted
          /\ state' = "IDLE" /\ done' = done + 1
          /\ UNCHANGED schedReq
    /\ UNCHANGED <<armed, fired, lock, threads, restarts, started, command, receive, chipScan, scans, calls,
                   faults, starved, stale, mixedUp>>
RestartSync ==
    /\ restart = "sync" /\ At("timer", "idle")
    /\ restart' = "reload" /\ armed' = 0
    /\ UNCHANGED <<state, done, fired, lock, threads, restarts, started, command, receive, chipScan, mac80211,
                   faults, ghosts>>
RestartReload ==
    /\ restart = "reload"
    /\ restart' = "up" /\ lock' = "none" /\ chipScan' = 0
    /\ UNCHANGED <<driver, threads, restarts, started, command, receive, mac80211, faults, ghosts>>

\* The chip is not there, or does not load: the scheduled scan is finished, and
\* the driver stays stopped.
RestartFail ==
    /\ restart \in {"locked", "reload"} /\ Fault
    /\ restart' = "failed" /\ lock' = "none" /\ chipScan' = 0
    /\ IF state = "SCHED" THEN state' = "IDLE" /\ done' = done + 1 /\ schedReq' = FALSE
       ELSE UNCHANGED <<state, done, schedReq>>
    /\ UNCHANGED <<armed, fired, threads, restarts, started, command, receive, scans, calls, scanReq,
                   ghosts>>

\* morse_mac_ops_start(), called by ieee80211_restart_hw()'s work.
OpsStart ==
    /\ restart = "up" /\ At("op", "idle") /\ lock = "none"
    /\ restart' = "idle" /\ started' = TRUE
    /\ UNCHANGED <<driver, lock, threads, restarts, command, receive, chipScan, mac80211, faults,
                   ghosts>>

-----------------------------------------------------------------------------
\* The chip takes a command.  It is at one scan at a time, and it ends a scan
\* with a done event; anything may be lost.
Start(c) == c \in {"START", "SCHED_START"}
ChipTakes ==
    /\ cmd # "none" /\ restart # "failed"
    /\ cmd' = "none"
    /\ chipScan' = IF Start(cmd) /\ chipScan = 0 THEN scans ELSE chipScan
    /\ rx' = Append(rx, Answer(IF Start(cmd) /\ chipScan # 0 THEN "error" ELSE "ok"))
    /\ UNCHANGED <<driver, lock, threads, restarting, reply, rxSync, mac80211, faults, ghosts>>
ChipRefuses ==
    /\ cmd # "none" /\ restart # "failed" /\ Fault
    /\ cmd' = "none" /\ rx' = Append(rx, Answer("error"))
    /\ UNCHANGED <<driver, lock, threads, restarting, reply, rxSync, chipScan, mac80211, ghosts>>
ChipLoses ==
    /\ cmd # "none" /\ restart # "failed" /\ Fault
    /\ cmd' = "none"
    /\ chipScan' \in {chipScan, IF Start(cmd) /\ chipScan = 0 THEN scans ELSE chipScan}
    /\ UNCHANGED <<driver, lock, threads, restarting, reply, receive, mac80211, ghosts>>
ChipDone ==
    /\ chipScan # 0 /\ restart \in {"idle", "up"}
    /\ chipScan' = 0
    /\ \/ rx' = Append(rx, Done(chipScan)) /\ UNCHANGED faults
       \/ Fault /\ UNCHANGED rx
    /\ UNCHANGED <<driver, lock, threads, restarting, command, rxSync, mac80211, ghosts>>

-----------------------------------------------------------------------------
Calls == CallScan \/ CallCancel \/ CallSchedStart \/ CallSchedStop
Cancel(t) ==
    \/ CancelStop(t) \/ CancelStopped(t)
    \/ WaitDone(t, "wait", "idle") \/ WaitTimeout(t, "wait", "giveUp") \/ CancelGiveUp(t)
Op ==
    \/ ScanRefused \/ ScanAfterSched \/ ScanStart \/ ScanStarted
    \/ CancelSync \/ Cancel("op")
    \/ SchedRefused \/ SchedStart \/ SchedStarted
    \/ SchedStop \/ SchedStopped \/ SchedGiveUp \/ SchedTell
    \/ WaitDone("op", "schedWait", "tell") \/ WaitTimeout("op", "schedWait", "schedGiveUp")
Timer == TimerFires \/ Cancel("timer")
ReceiveWork == Receive \/ DoneEvent \/ DoneSync
Restarting == RestartFinishScans \/ RestartSync \/ RestartReload \/ RestartFail
Chip == ChipTakes \/ ChipRefuses \/ ChipLoses \/ ChipDone

Next ==
    \/ Calls \/ Op \/ Timer \/ CommandTimeout \/ ReceiveWork
    \/ RestartLock \/ Restarting \/ OpsStart \/ Chip

Spec == Init /\ [][Next]_vars

\* Threads run and get the lock, which others take again and again; waits run
\* out; the chip takes the commands it is given and ends a scan.  mac80211 calls
\* nothing it need not, but starts the driver after a restart.
Fairness ==
    /\ SF_vars(Op) /\ SF_vars(Timer) /\ WF_vars(CommandTimeout) /\ SF_vars(ReceiveWork)
    /\ WF_vars(Restarting) /\ SF_vars(OpsStart) /\ WF_vars(ChipTakes)
    /\ WF_vars(ChipDone)
FairSpec == Spec /\ Fairness

-----------------------------------------------------------------------------
\* Types of the state of hw_scan.c, of the calls that share mors->lock, and of
\* the messages between the driver and the chip.
Commands == {"START", "STOP", "SCHED_START", "SCHED_STOP"}
Messages == [what : {"done", "ok", "error"}, scan : Nat]
OpStages == {"idle", "scan", "start", "rescan", "sync", "cancel", "stopping", "wait", "giveUp",
             "sched", "schedStart", "stop", "schedStopping", "schedWait", "schedGiveUp", "tell"}
TimerStages == {"idle", "cancel", "stopping", "wait", "giveUp"}
TypeOK ==
    /\ state \in {"IDLE", "RUNNING", "ABORTING", "SCHED", "SCHED_STOPPING"}
    /\ done \in Nat /\ armed \in Nat /\ fired \in Nat
    /\ lock \in {"none", "restart"} \cup Threads
    /\ pc \in [Threads -> OpStages] /\ pc["timer"] \in TimerStages /\ forScan \in BOOLEAN
    /\ restart \in {"idle", "locked", "sync", "reload", "up", "failed"}
    /\ restarts \in Nat /\ started \in BOOLEAN
    /\ cmd \in Commands \cup {"none"} /\ reply \in {"none", "ok", "error"}
    /\ rx \in Seq(Messages) /\ rxSync \in BOOLEAN /\ chipScan \in Nat
    /\ scans \in Nat /\ calls \in Nat /\ scanReq \in BOOLEAN /\ schedReq \in BOOLEAN
    /\ faults \in Nat /\ starved \in BOOLEAN /\ stale \in BOOLEAN
    /\ spurious \in BOOLEAN /\ mixedUp \in BOOLEAN

\* The restart waits, with the lock, for a timeout work that waits for the lock.
Deadlocked == restart = "sync" /\ pc["timer"] \in {"cancel", "giveUp"}

\* Nothing is under way but a scheduled scan.
Quiet ==
    /\ \A t \in Threads : At(t, "idle")
    /\ restart \in {"idle", "failed"} /\ lock = "none"
    /\ rx = <<>> /\ ~rxSync /\ armed = 0 /\ (chipScan = 0 \/ state = "SCHED")

\* When nothing is under way mac80211 and the driver agree: no scan is waited
\* for, and the scheduled scan is the one the driver knows of, whatever event or
\* command was lost, but for a scan that began with scan_done complete.
AgreesAtRest ==
    Quiet => /\ stale \/ (~scanReq /\ state \in {"IDLE", "SCHED"})
             /\ schedReq <=> state = "SCHED"

\* mac80211 is told once of the end of a scan, unless something was lost or
\* late, the chip restarted, or a command starved behind the done event: then
\* both the handler of the event and the caller of cancel_hw_scan() tell it.
CompletedOnce == spurious => faults > 0 \/ restarts > 0 \/ starved

\* The done event of a scan never ends another one, although it carries no
\* number: the answer to the command that starts a scan comes after it.
EventOfItsScan == ~mixedUp

\* The timeout of a scan never aborts a later one, although the done event
\* releases the lock before it calls the timeout.
TimeoutOfItsScan ==
    [][(state' = "ABORTING" /\ lock' = "timer") => fired = scans \/ lock = "timer"]_vars

\* Calls, works and events end once nothing comes from outside, but for one
\* deadlock: a restart that finishes a scan whose timeout work waits for it.
ComesToRest == <>[](Quiet \/ Deadlocked)

-----------------------------------------------------------------------------
\* mac.c:6440-6442: the restart stops a scan before ieee80211_restart_hw(); it
\* gets there.
RestartGetsThrough == ~Deadlocked
=============================================================================
