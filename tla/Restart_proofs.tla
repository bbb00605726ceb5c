--------------------------- MODULE Restart_proofs ---------------------------
(***************************************************************************)
(* Theorems about Restart, for every set of callers and every number of    *)
(* events and faults.                                                      *)
(***************************************************************************)
EXTENDS Restart, Integers, TLAPS

-----------------------------------------------------------------------------
(* The watchdog.                                                           *)

\* What every operation of the watchdog keeps.
WatchdogInv ==
    /\ WatchdogTypeOK
    /\ consumers > 0 /\ paused = 0 => ticking \/ halted
    /\ ticking => consumers > 0 /\ paused = 0
    /\ paused > 0 => consumers > 0

\* How an operation leaves the watchdog: with the timer off, or on.
LEMMA LeftOff ==
  ASSUME consumers' \in Nat, paused' \in Nat, halted' \in BOOLEAN, ticking' = FALSE,
         consumers' = 0 \/ paused' # 0 \/ halted' = TRUE, paused' > 0 => consumers' > 0
  PROVE  WatchdogInv'
<1>1. WatchdogTypeOK'  BY DEF WatchdogTypeOK
<1>2. (consumers > 0 /\ paused = 0 => ticking \/ halted)'  OBVIOUS
<1>3. (ticking => consumers > 0 /\ paused = 0)'  OBVIOUS
<1> QED  BY <1>1, <1>2, <1>3, Zenon DEF WatchdogInv
LEMMA LeftOn ==
  ASSUME consumers' \in Nat, consumers' > 0, paused' = 0, halted' \in BOOLEAN, ticking' = TRUE
  PROVE  WatchdogInv'
BY DEF WatchdogInv, WatchdogTypeOK

LEMMA StartKeeps == ASSUME WatchdogInv, WatchdogStart PROVE WatchdogInv'
<1>1. consumers \in Nat /\ paused \in Nat  BY DEF WatchdogInv, WatchdogTypeOK
<1>2. consumers' = consumers + 1 /\ paused' = paused  BY DEF WatchdogStart
<1>3. consumers' \in Nat /\ consumers' > 0 /\ paused' \in Nat  BY <1>1, <1>2
<1>4. CASE paused = 0
  <2>1. ticking' = TRUE /\ halted' = FALSE  BY <1>4 DEF WatchdogStart
  <2>2. paused' = 0  BY <1>2, <1>4
  <2> QED  BY <1>3, <2>1, <2>2 DEF WatchdogInv, WatchdogTypeOK
<1>5. CASE paused # 0
  <2>1. ticking' = ticking /\ halted' = halted  BY <1>5 DEF WatchdogStart
  <2>2. ticking = FALSE /\ halted \in BOOLEAN  BY <1>5 DEF WatchdogInv, WatchdogTypeOK
  <2>3. ticking' = FALSE /\ halted' \in BOOLEAN  BY <2>1, <2>2
  <2>4. paused' # 0  BY <1>2, <1>5
  <2> QED  BY <1>3, <2>3, <2>4 DEF WatchdogInv, WatchdogTypeOK
<1> QED  BY <1>4, <1>5

LEMMA UnchangedKeeps == ASSUME WatchdogInv, UNCHANGED watchdog PROVE WatchdogInv'
<1>1. consumers' = consumers /\ paused' = paused /\ ticking' = ticking /\ halted' = halted
  BY DEF watchdog
<1> QED  BY <1>1 DEF WatchdogInv, WatchdogTypeOK

LEMMA StopKeeps == ASSUME WatchdogInv, WatchdogStop PROVE WatchdogInv'
<1>1. CASE consumers > 0 /\ ticking
  <2>1. consumers \in Nat /\ paused = 0  BY <1>1 DEF WatchdogInv, WatchdogTypeOK
  <2>2. consumers' = consumers - 1 /\ paused' = paused /\ halted' = (consumers > 1)
    BY <1>1 DEF WatchdogStop
  <2>3. ticking' = FALSE  BY <1>1 DEF WatchdogStop
  <2>4. consumers' \in Nat /\ paused' = 0  BY <2>1, <2>2, <1>1
  <2>5. halted' \in BOOLEAN  BY <2>2
  <2>6. consumers' = 0 \/ paused' # 0 \/ halted' = TRUE
    <3>1. CASE consumers > 1  BY <2>2, <3>1
    <3>2. CASE ~(consumers > 1)  BY <2>1, <2>2, <1>1, <3>2
    <3> QED  BY <3>1, <3>2
  <2>7. paused' \in Nat /\ (paused' > 0 => consumers' > 0)  BY <2>4
  <2> QED  BY <2>3, <2>4, <2>5, <2>6, <2>7, LeftOff, Zenon
<1>2. CASE ~(consumers > 0 /\ ticking)
  BY <1>2, UnchangedKeeps DEF WatchdogStop
<1> QED  BY <1>1, <1>2

LEMMA PauseKeeps == ASSUME WatchdogInv, WatchdogPause PROVE WatchdogInv'
<1>1. CASE consumers > 0
  <2>1. consumers \in Nat /\ paused \in Nat /\ halted \in BOOLEAN  BY DEF WatchdogInv, WatchdogTypeOK
  <2>2. consumers' = consumers /\ paused' = paused + 1  BY <1>1 DEF WatchdogPause
  <2>3. ticking' = FALSE /\ halted' = halted  BY <1>1 DEF WatchdogPause
  <2>4. consumers' \in Nat /\ consumers' > 0 /\ paused' \in Nat /\ paused' # 0  BY <2>1, <2>2, <1>1
  <2>5. halted' \in BOOLEAN  BY <2>1, <2>3
  <2> QED  BY <2>3, <2>4, <2>5 DEF WatchdogInv, WatchdogTypeOK
<1>2. CASE ~(consumers > 0)  BY <1>2, UnchangedKeeps DEF WatchdogPause
<1> QED  BY <1>1, <1>2

LEMMA ResumeKeeps == ASSUME WatchdogInv, WatchdogResume PROVE WatchdogInv'
<1>1. CASE consumers > 0 /\ paused > 0
  <2>1. consumers \in Nat /\ paused \in Nat  BY DEF WatchdogInv, WatchdogTypeOK
  <2>2. consumers' = consumers /\ paused' = paused - 1  BY <1>1 DEF WatchdogResume
  <2>3. consumers' \in Nat /\ consumers' > 0 /\ paused' \in Nat  BY <2>1, <2>2, <1>1
  <2>4. CASE paused = 1
    <3>1. ticking' = TRUE /\ halted' = FALSE  BY <1>1, <2>4 DEF WatchdogResume
    <3>2. paused' = 0  BY <2>2, <2>4
    <3> QED  BY <2>3, <3>1, <3>2 DEF WatchdogInv, WatchdogTypeOK
  <2>5. CASE paused # 1
    <3>1. ticking' = ticking /\ halted' = halted  BY <1>1, <2>5 DEF WatchdogResume
    <3>2. ticking = FALSE /\ halted \in BOOLEAN  BY <1>1 DEF WatchdogInv, WatchdogTypeOK
    <3>3. ticking' = FALSE /\ halted' \in BOOLEAN  BY <3>1, <3>2
    <3>4. paused' # 0  BY <2>1, <2>2, <2>5
    <3> QED  BY <2>3, <3>3, <3>4 DEF WatchdogInv, WatchdogTypeOK
  <2> QED  BY <2>4, <2>5
<1>2. CASE ~(consumers > 0 /\ paused > 0)  BY <1>2, UnchangedKeeps DEF WatchdogResume
<1> QED  BY <1>1, <1>2

LEMMA CleanupKeeps == ASSUME WatchdogInv, WatchdogCleanup PROVE WatchdogInv'
<1>1. CASE consumers > 0 /\ ticking
  <2>1. consumers' = 0 /\ paused' = paused  BY <1>1 DEF WatchdogCleanup
  <2>2. ticking' = FALSE /\ halted' = halted  BY <1>1 DEF WatchdogCleanup
  <2>3. paused = 0 /\ halted \in BOOLEAN  BY <1>1 DEF WatchdogInv, WatchdogTypeOK
  <2>4. halted' \in BOOLEAN  BY <2>2, <2>3
  <2>5. ticking' = FALSE /\ consumers' = 0 /\ paused' = 0  BY <2>1, <2>2, <2>3
  <2> QED  BY <2>4, <2>5, LeftOff
<1>2. CASE consumers > 0 /\ ~ticking
  <2>1. consumers' = 1 /\ paused' = paused  BY <1>2 DEF WatchdogCleanup
  <2>2. ticking' = FALSE /\ halted' = halted  BY <1>2 DEF WatchdogCleanup
  <2>3. paused \in Nat /\ halted \in BOOLEAN  BY DEF WatchdogInv, WatchdogTypeOK
  <2>4. paused = 0 => halted = TRUE  BY <1>2, <2>3 DEF WatchdogInv
  <2>5. halted' \in BOOLEAN /\ paused' \in Nat  BY <2>1, <2>2, <2>3
  <2>6. ticking' = FALSE  BY <2>2
  <2>7. consumers' \in Nat /\ (paused' > 0 => consumers' > 0)  BY <2>1
  <2>8. paused' # 0 \/ halted' = TRUE  BY <2>1, <2>2, <2>4
  <2> QED  BY <2>5, <2>6, <2>7, <2>8, LeftOff, Zenon
<1>3. CASE ~(consumers > 0)  BY <1>3, UnchangedKeeps DEF WatchdogCleanup
<1> QED  BY <1>1, <1>2, <1>3

\* Every step is an operation of the watchdog or leaves it alone.
LEMMA WatchdogStep ==
  ASSUME WatchdogInv, [Next]_vars
  PROVE  WatchdogInv'
<1> USE DEF watching
<1>1. CASE Fire \/ Health \/ ChipHangs \/ Stop \/ RecentEnds
  BY <1>1, UnchangedKeeps DEF Fire, Health, HealthSkip, HealthStart, HealthOk, HealthFail, ChipHangs,
     Stop, StopCheck, StopFlags, StopSchedule, RecentEnds
<1>2. CASE RestartWork
  BY <1>2, UnchangedKeeps, PauseKeeps, ResumeKeeps, CleanupKeeps
  DEF RestartWork, RestartEnter, RestartBegin, RestartDump, RestartOk, RestartFail
<1>3. CASE Reconfig \/ NoReconfig
  BY <1>3, UnchangedKeeps DEF Reconfig, OpsStart, NoReconfig
<1>4. CASE User
  BY <1>4, UnchangedKeeps, StartKeeps, StopKeeps, PauseKeeps, ResumeKeeps, CleanupKeeps
  DEF User, Up, Down, OpsStart, DebugRestart, DebugWatchdog,
     Hibernate, LongSleep, StandbyEnter, StandbyExit, Traffic
<1>5. CASE \E c \in Callers : Coredump(c)
  BY <1>5, UnchangedKeeps DEF Coredump, CoredumpBegin, CoredumpTimeout, CoredumpEnd
<1>6. CASE UNCHANGED vars  BY <1>6, UnchangedKeeps DEF vars
<1> QED  BY <1>1, <1>2, <1>3, <1>4, <1>5, <1>6 DEF Next

-----------------------------------------------------------------------------
(* Type correctness.                                                       *)

\* The state beside the watchdog.
MacBits == started \in BOOLEAN /\ up \in BOOLEAN /\ reconfig \in BOOLEAN
Flags == unresponsive \in BOOLEAN /\ dump \in BOOLEAN /\ blocked \in BOOLEAN
Marks ==
    /\ recent \in BOOLEAN /\ resetRequired \in BOOLEAN /\ twt \in BOOLEAN /\ disturbed \in BOOLEAN
Places ==
    /\ lock \in {"none", "health", "restart"}
    /\ lock = "restart" <=> rpc \in {"dump", "reload"}
    /\ queued \subseteq Works /\ rpc \in {"idle", "enter", "dump", "reload"}
    /\ spc \in {"idle", "flag", "schedule"}
    /\ chip \in {"up", "hung", "failed"}
Requests ==
    /\ cpc \in [Callers -> {"idle", "wait", "late"}] /\ comp \in Callers \cup {NoCaller}
    /\ answered \subseteq Callers /\ lost \subseteq Callers
Bounds == events \in Nat /\ faults \in Nat

LEMMA MacBitsStep == ASSUME MacBits, [Next]_vars PROVE MacBits'
<1> USE DEF MacBits, mac80211
<1>1. CASE Fire \/ Health \/ ChipHangs \/ Stop \/ RecentEnds
  BY <1>1 DEF Fire, Health, HealthSkip, HealthStart, HealthOk, HealthFail, ChipHangs,
     Stop, StopCheck, StopFlags, StopSchedule, RecentEnds
<1>2. CASE RestartWork
  BY <1>2 DEF RestartWork, RestartEnter, RestartBegin, RestartDump, RestartOk, RestartFail
<1>3. CASE Reconfig \/ NoReconfig
  BY <1>3 DEF Reconfig, OpsStart, NoReconfig
<1>4. CASE User
  BY <1>4 DEF User, Up, Down, OpsStart, DebugRestart, DebugWatchdog, Command,
     Hibernate, LongSleep, StandbyEnter, StandbyExit, Traffic
<1>5. CASE \E c \in Callers : Coredump(c)
  BY <1>5 DEF Coredump, CoredumpBegin, CoredumpTimeout, CoredumpEnd
<1>6. CASE UNCHANGED vars  BY <1>6 DEF vars
<1> QED  BY <1>1, <1>2, <1>3, <1>4, <1>5, <1>6 DEF Next

LEMMA FlagsStep == ASSUME Flags, [Next]_vars PROVE Flags'
<1> USE DEF Flags, flags
<1>1. CASE Fire \/ Health \/ ChipHangs \/ Stop \/ RecentEnds
  BY <1>1 DEF Fire, Health, HealthSkip, HealthStart, HealthOk, HealthFail, ChipHangs,
     Stop, StopCheck, StopFlags, StopSchedule, RecentEnds
<1>2. CASE RestartWork
  BY <1>2 DEF RestartWork, RestartEnter, RestartBegin, RestartDump, RestartOk, RestartFail
<1>3. CASE Reconfig \/ NoReconfig
  BY <1>3 DEF Reconfig, OpsStart, NoReconfig
<1>4. CASE User
  BY <1>4 DEF User, Up, Down, OpsStart, DebugRestart, DebugWatchdog, Command,
     Hibernate, LongSleep, StandbyEnter, StandbyExit, Traffic
<1>5. CASE \E c \in Callers : Coredump(c)
  BY <1>5 DEF Coredump, CoredumpBegin, CoredumpTimeout, CoredumpEnd
<1>6. CASE UNCHANGED vars  BY <1>6 DEF vars
<1> QED  BY <1>1, <1>2, <1>3, <1>4, <1>5, <1>6 DEF Next

LEMMA MarksStep == ASSUME Marks, [Next]_vars PROVE Marks'
<1> USE DEF Marks, device, threads, watching
<1>1. CASE Fire \/ Health \/ ChipHangs \/ Stop \/ RecentEnds
  BY <1>1 DEF Fire, Health, HealthSkip, HealthStart, HealthOk, HealthFail, ChipHangs,
     Stop, StopCheck, StopFlags, StopSchedule, RecentEnds
<1>2. CASE RestartWork
  BY <1>2 DEF RestartWork, RestartEnter, RestartBegin, RestartDump, RestartOk, RestartFail
<1>3. CASE Reconfig \/ NoReconfig
  BY <1>3 DEF Reconfig, OpsStart, NoReconfig
<1>4. CASE User
  BY <1>4 DEF User, Up, Down, OpsStart, DebugRestart, DebugWatchdog, Command,
     Hibernate, LongSleep, StandbyEnter, StandbyExit, Traffic
<1>5. CASE \E c \in Callers : Coredump(c)
  BY <1>5 DEF Coredump, CoredumpBegin, CoredumpTimeout, CoredumpEnd
<1>6. CASE UNCHANGED vars  BY <1>6 DEF vars
<1> QED  BY <1>1, <1>2, <1>3, <1>4, <1>5, <1>6 DEF Next

LEMMA PlacesStep == ASSUME Places, [Next]_vars PROVE Places'
<1> USE DEF Places, device, threads, Works, Unlocked
<1>1. CASE Fire \/ Health \/ ChipHangs \/ Stop \/ RecentEnds
  BY <1>1 DEF Fire, Health, HealthSkip, HealthStart, HealthOk, HealthFail, ChipHangs,
     Stop, StopCheck, StopFlags, StopSchedule, RecentEnds
<1>2. CASE RestartWork
  BY <1>2 DEF RestartWork, RestartEnter, RestartBegin, RestartDump, RestartOk, RestartFail
<1>3. CASE Reconfig \/ NoReconfig
  BY <1>3 DEF Reconfig, OpsStart, NoReconfig
<1>4. CASE User
  BY <1>4 DEF User, Up, Down, OpsStart, DebugRestart, DebugWatchdog, Command,
     Hibernate, LongSleep, StandbyEnter, StandbyExit, Traffic
<1>5. CASE \E c \in Callers : Coredump(c)
  BY <1>5 DEF Coredump, CoredumpBegin, CoredumpTimeout, CoredumpEnd
<1>6. CASE UNCHANGED vars  BY <1>6 DEF vars
<1> QED  BY <1>1, <1>2, <1>3, <1>4, <1>5, <1>6 DEF Next

LEMMA RequestsStep == ASSUME Requests, [Next]_vars PROVE Requests'
<1> USE DEF Requests, coredump
<1>1. CASE Fire \/ Health \/ ChipHangs \/ Stop \/ RecentEnds
  BY <1>1 DEF Fire, Health, HealthSkip, HealthStart, HealthOk, HealthFail, ChipHangs,
     Stop, StopCheck, StopFlags, StopSchedule, RecentEnds
<1>2. CASE RestartWork
  BY <1>2 DEF RestartWork, RestartEnter, RestartBegin, RestartDump, RestartOk, RestartFail
<1>3. CASE Reconfig \/ NoReconfig
  BY <1>3 DEF Reconfig, OpsStart, NoReconfig, Waiting
<1>4. CASE User
  BY <1>4 DEF User, Up, Down, OpsStart, DebugRestart, DebugWatchdog, Command,
     Hibernate, LongSleep, StandbyEnter, StandbyExit, Traffic, Waiting
<1>5. CASE \E c \in Callers : Coredump(c)
  BY <1>5 DEF Coredump, CoredumpBegin, CoredumpTimeout, CoredumpEnd, Clobbered, Waiting
<1>6. CASE UNCHANGED vars  BY <1>6 DEF vars
<1> QED  BY <1>1, <1>2, <1>3, <1>4, <1>5, <1>6 DEF Next

LEMMA TypeParts == TypeOK <=> WatchdogTypeOK /\ MacBits /\ Flags /\ Marks /\ Places /\ Requests /\ Bounds
BY Zenon DEF TypeOK, MacBits, Flags, Marks, Places, Requests, Bounds

LEMMA BoundsStep == ASSUME Bounds, [Next]_vars PROVE Bounds'
<1> USE DEF Bounds, bounds, Event, Fault
<1>1. CASE Fire \/ Health \/ ChipHangs \/ Stop \/ RecentEnds
  BY <1>1 DEF Fire, Health, HealthSkip, HealthStart, HealthOk, HealthFail, ChipHangs,
     Stop, StopCheck, StopFlags, StopSchedule, RecentEnds
<1>2. CASE RestartWork
  BY <1>2 DEF RestartWork, RestartEnter, RestartBegin, RestartDump, RestartOk, RestartFail
<1>3. CASE Reconfig \/ NoReconfig
  BY <1>3 DEF Reconfig, NoReconfig
<1>4. CASE User
  BY <1>4 DEF User, Up, Down, DebugRestart, DebugWatchdog, Command,
     Hibernate, LongSleep, StandbyEnter, StandbyExit, Traffic
<1>5. CASE \E c \in Callers : Coredump(c)
  BY <1>5 DEF Coredump, CoredumpBegin, CoredumpTimeout, CoredumpEnd
<1>6. CASE UNCHANGED vars  BY <1>6 DEF vars
<1> QED  BY <1>1, <1>2, <1>3, <1>4, <1>5, <1>6 DEF Next

\* The watchdog that is paused never ticks: with the types, what the theorems
\* about the rest build on.
Typed == TypeOK /\ WatchdogInv

LEMMA InitTyped == Init => Typed
<1> SUFFICES ASSUME Init PROVE Typed  OBVIOUS
<1>1. WatchdogInv
  <2>1. ticking = TRUE /\ consumers = 1 /\ paused = 0 /\ halted = FALSE  BY DEF Init, WatchdogInit
  <2>2. WatchdogTypeOK  BY <2>1 DEF WatchdogTypeOK
  <2>3. ticking /\ consumers > 0 /\ paused = 0 /\ ~(paused > 0)  BY <2>1
  <2> QED  BY <2>2, <2>3, Zenon DEF WatchdogInv
<1>2. MacBits  BY DEF Init, MacBits
<1>3. Flags  BY DEF Init, Flags
<1>4. Marks  BY DEF Init, Marks
<1>5. Places  BY DEF Init, Places
<1>6. Requests  BY DEF Init, Requests
<1>7. Bounds  BY DEF Init, Bounds
<1> QED  BY <1>1, <1>2, <1>3, <1>4, <1>5, <1>6, <1>7, TypeParts DEF Typed, WatchdogInv

LEMMA StepTyped == Typed /\ [Next]_vars => Typed'
<1> SUFFICES ASSUME Typed, [Next]_vars PROVE Typed'  OBVIOUS
<1>1. WatchdogInv'  BY WatchdogStep DEF Typed
<1>2. MacBits /\ Flags /\ Marks /\ Places /\ Requests /\ Bounds  BY TypeParts DEF Typed
<1>3. MacBits' /\ Flags' /\ Marks' /\ Places' /\ Requests' /\ Bounds'
  BY <1>2, MacBitsStep, FlagsStep, MarksStep, PlacesStep, RequestsStep, BoundsStep
<1>4. TypeOK'
  BY <1>1, <1>3, Zenon DEF WatchdogInv, TypeOK, MacBits, Flags, Marks, Places, Requests, Bounds
<1> QED  BY <1>1, <1>4 DEF Typed

\* The state of the recovery has its types, and the restart holds the lock
\* from the end of the chip's use to the reload (mac.c:6604-6648).
THEOREM TypeCorrect == Spec => []TypeOK
<1>1. Typed => TypeOK  BY DEF Typed
<1> QED  BY <1>1, InitTyped, StepTyped, PTL DEF Spec

-----------------------------------------------------------------------------
(* The watchdog ticks.                                                     *)

\* A watchdog only restarts have touched is paused by the one that runs.
Undisturbed ==
    ~disturbed => /\ consumers = 1 /\ halted = FALSE
                  /\ rpc \in {"dump", "reload"} => paused = 1
                  /\ rpc \in {"idle", "enter"} => paused = 0

LEMMA UndisturbedStep ==
  ASSUME Typed, Undisturbed, [Next]_vars
  PROVE  Undisturbed'
<1>1. CASE UNCHANGED <<watching, rpc>>
  BY <1>1 DEF watching, watchdog, Undisturbed
<1>2. ASSUME RestartBegin PROVE Undisturbed'
  <2>1. rpc = "enter" /\ rpc' = "dump" /\ disturbed' = disturbed /\ WatchdogPause
    BY <1>2 DEF RestartBegin
  <2>2. CASE ~disturbed
    <3>1. consumers = 1 /\ halted = FALSE /\ paused = 0  BY <2>1, <2>2 DEF Undisturbed
    <3>2. consumers' = 1 /\ halted' = FALSE /\ paused' = 1  BY <2>1, <3>1 DEF WatchdogPause
    <3> QED  BY <2>1, <3>2 DEF Undisturbed
  <2>3. CASE disturbed  BY <2>1, <2>3 DEF Undisturbed
  <2> QED  BY <2>2, <2>3
<1>3. ASSUME RestartOk PROVE Undisturbed'
  <2>1. rpc = "reload" /\ rpc' = "idle" /\ disturbed' = disturbed /\ WatchdogResume
    BY <1>3 DEF RestartOk
  <2>2. CASE ~disturbed
    <3>1. consumers = 1 /\ halted = FALSE /\ paused = 1  BY <2>1, <2>2 DEF Undisturbed
    <3>2. consumers' = 1 /\ halted' = FALSE /\ paused' = 0  BY <2>1, <3>1 DEF WatchdogResume
    <3> QED  BY <2>1, <3>2 DEF Undisturbed
  <2>3. CASE disturbed  BY <2>1, <2>3 DEF Undisturbed
  <2> QED  BY <2>2, <2>3
<1>4. CASE RestartEnter
  BY <1>4 DEF RestartEnter, watching, watchdog, Undisturbed
<1>5. CASE RestartDump
  BY <1>5 DEF RestartDump, watching, watchdog, Undisturbed
<1>6. CASE disturbed' = TRUE  BY <1>6 DEF Undisturbed
<1>7. CASE Fire \/ Health \/ ChipHangs \/ Stop \/ RecentEnds
  BY <1>7, <1>1 DEF Fire, Health, HealthSkip, HealthStart, HealthOk, HealthFail, ChipHangs,
     Stop, StopCheck, StopFlags, StopSchedule, RecentEnds
<1>8. CASE RestartWork
  BY <1>8, <1>2, <1>3, <1>4, <1>5, <1>6 DEF RestartWork, RestartFail
<1>9. CASE Reconfig \/ NoReconfig
  BY <1>9, <1>1 DEF Reconfig, OpsStart, NoReconfig, threads
<1>10. CASE User
  <2>1. CASE Up \/ Down \/ DebugRestart
    BY <2>1, <1>1 DEF Up, Down, OpsStart, DebugRestart, threads
  <2>2. CASE DebugWatchdog \/ Hibernate \/ LongSleep \/ StandbyEnter \/ StandbyExit \/ Traffic
    BY <2>2, <1>6 DEF DebugWatchdog, Command, Hibernate, LongSleep, StandbyEnter, StandbyExit, Traffic
  <2> QED  BY <1>10, <2>1, <2>2 DEF User
<1>11. CASE \E c \in Callers : Coredump(c)
  BY <1>11, <1>1 DEF Coredump, CoredumpBegin, CoredumpTimeout, CoredumpEnd, threads
<1>12. CASE UNCHANGED vars  BY <1>12, <1>1 DEF vars, threads
<1> QED  BY <1>7, <1>8, <1>9, <1>10, <1>11, <1>12 DEF Next

\* The watchdog ticks whenever it should (watchdog.c), and restarts give back
\* the pause they take.
THEOREM Ticks == Spec => []WatchdogTicks
<1> DEFINE IInv == Typed /\ Undisturbed
<1>1. Init => IInv
  <2>1. Init => Undisturbed  BY DEF Init, WatchdogInit, Undisturbed
  <2> QED  BY <2>1, InitTyped
<1>2. IInv /\ [Next]_vars => IInv'  BY StepTyped, UndisturbedStep
<1>3. IInv => WatchdogTicks
  <2> SUFFICES ASSUME IInv PROVE WatchdogTicks  OBVIOUS
  <2>1. /\ consumers > 0 /\ paused = 0 => ticking \/ halted
        /\ ticking => consumers > 0 /\ paused = 0
    BY DEF Typed, WatchdogInv
  <2>2. disturbed \/ rpc \in {"dump", "reload"} \/ ticking
    <3>1. SUFFICES ASSUME ~disturbed, rpc \notin {"dump", "reload"} PROVE ticking  OBVIOUS
    <3>2. rpc \in {"idle", "enter"}  BY <3>1 DEF Typed, TypeOK
    <3>3. consumers = 1 /\ halted = FALSE /\ paused = 0  BY <3>1, <3>2 DEF Undisturbed
    <3> QED  BY <2>1, <3>3
  <2> QED  BY <2>1, <2>2, Zenon DEF WatchdogTicks
<1> QED  BY <1>1, <1>2, <1>3, PTL DEF Spec

-----------------------------------------------------------------------------
(* Coredumps.                                                              *)

\* A restart that has not made the coredump yet, and what the callers rely on.
OnItsWay == "restart" \in queued \/ rpc \in {"enter", "dump"}
Request == CompletionAlive /\ RequestPending

\* Steps that neither touch the callers nor take back what was asked for.
LEMMA SameRequests ==
  ASSUME Request, UNCHANGED coredump, dump => dump', OnItsWay => OnItsWay'
  PROVE  Request'
<1>1. CompletionAlive'  BY DEF Request, CompletionAlive, coredump
<1>2. RequestPending'
  <2>1. Waiting' = Waiting /\ lost' = lost /\ comp' = comp  BY DEF Waiting, coredump
  <2> QED  BY <2>1 DEF Request, RequestPending, OnItsWay
<1> QED  BY <1>1, <1>2 DEF Request

\* A start of the driver: what it clears is lost.
LEMMA StartRequests == ASSUME Request, OpsStart PROVE Request'
<1>1. cpc' = cpc /\ comp' = comp /\ answered' = answered /\ lost' = lost \cup Waiting
  BY DEF OpsStart
<1>2. Waiting' \ lost' = {}  BY <1>1 DEF Waiting
<1>3. RequestPending'  BY <1>2 DEF RequestPending
<1>4. CompletionAlive'  BY <1>1 DEF Request, CompletionAlive
<1> QED  BY <1>3, <1>4 DEF Request

LEMMA DumpRequests == ASSUME Typed, Request, RestartDump PROVE Request'
<1>1. cpc' = cpc /\ comp' = comp  BY DEF RestartDump
<1>2. CompletionAlive'  BY <1>1 DEF Request, CompletionAlive
<1>3. ASSUME NEW c \in (Waiting \ lost)' PROVE FALSE
  <2>1. c \in Callers /\ cpc[c] = "wait" /\ c \notin answered' /\ c \notin lost'
    BY <1>1, <1>3 DEF Waiting
  <2>2. CASE dump /\ comp # NoCaller
    <3>1. answered' = answered \cup {comp} /\ lost' = lost \ {comp}  BY <2>2 DEF RestartDump
    <3>2. c # comp /\ c \in Waiting \ lost  BY <2>1, <3>1 DEF Waiting
    <3> QED  BY <3>2 DEF Request, RequestPending
  <2>3. CASE ~(dump /\ comp # NoCaller)
    <3>1. answered' = answered /\ lost' = lost  BY <2>3 DEF RestartDump
    <3>2. c \in Waiting \ lost  BY <2>1, <3>1 DEF Waiting
    <3>3. comp = c /\ dump  BY <3>2 DEF Request, RequestPending
    <3> QED  BY <2>1, <2>3, <3>3, CallersAssumption
  <2> QED  BY <2>2, <2>3
<1>4. RequestPending'  BY <1>3 DEF RequestPending
<1> QED  BY <1>2, <1>4 DEF Request

LEMMA BeginRequests ==
  ASSUME Typed, Request, NEW c \in Callers, CoredumpBegin(c)
  PROVE  Request'
<1>1. /\ cpc[c] = "idle" /\ cpc' = [cpc EXCEPT ![c] = "wait"] /\ comp' = c
      /\ queued' = queued \cup {"restart"}
      /\ answered' = answered /\ lost' = lost \cup Clobbered(c)
  BY DEF CoredumpBegin
<1>2. dump' = TRUE  BY DEF CoredumpBegin
<1>3. cpc \in [Callers -> {"idle", "wait", "late"}]  BY DEF Typed, TypeOK
<1>4. CompletionAlive'  BY <1>1, <1>3 DEF CompletionAlive
<1>5. ASSUME NEW d \in (Waiting \ lost)' PROVE d = c
  <2>1. SUFFICES ASSUME d # c PROVE FALSE  OBVIOUS
  <2>2. d \in Waiting \ lost /\ d \notin Clobbered(c)  BY <1>1, <1>3, <1>5, <2>1 DEF Waiting
  <2>3. comp = d  BY <2>2 DEF Request, RequestPending
  <2> QED  BY <2>1, <2>2, <2>3 DEF Clobbered
<1>6. RequestPending'  BY <1>1, <1>2, <1>5 DEF RequestPending
<1> QED  BY <1>4, <1>6 DEF Request

LEMMA TimeoutRequests ==
  ASSUME Typed, Request, NEW c \in Callers, CoredumpTimeout(c)
  PROVE  Request'
<1>1. /\ cpc' = [cpc EXCEPT ![c] = "late"] /\ lost' = lost \ {c}
      /\ comp' = comp /\ answered' = answered /\ queued' = queued /\ rpc' = rpc
  BY DEF CoredumpTimeout, threads
<1>2. dump' = dump  BY DEF CoredumpTimeout, flags
<1>3. cpc \in [Callers -> {"idle", "wait", "late"}] /\ comp \in Callers \cup {NoCaller}
  BY DEF Typed, TypeOK
<1>4. CompletionAlive'  BY <1>1, <1>3 DEF Request, CompletionAlive
<1>5. ASSUME NEW d \in (Waiting \ lost)' PROVE d \in Waiting \ lost
  BY <1>1, <1>3, <1>5 DEF Waiting
<1>6. RequestPending'
  <2>1. \A d \in (Waiting \ lost)' : comp = d /\ dump /\ OnItsWay
    BY <1>5 DEF Request, RequestPending, OnItsWay
  <2>2. OnItsWay' <=> OnItsWay  BY <1>1 DEF OnItsWay
  <2> QED  BY <1>1, <1>2, <2>1, <2>2 DEF RequestPending, OnItsWay
<1> QED  BY <1>4, <1>6 DEF Request

LEMMA EndRequests ==
  ASSUME Typed, Request, NEW c \in Callers, CoredumpEnd(c)
  PROVE  Request'
<1>1. /\ cpc' = [cpc EXCEPT ![c] = "idle"] /\ comp' = NoCaller
      /\ lost' = (lost \ {c}) \cup Clobbered(c) /\ answered' = answered \ {c}
  BY DEF CoredumpEnd
<1>2. cpc \in [Callers -> {"idle", "wait", "late"}]  BY DEF Typed, TypeOK
<1>3. CompletionAlive'  BY <1>1 DEF CompletionAlive
<1>4. ASSUME NEW d \in (Waiting \ lost)' PROVE FALSE
  <2>1. d # c  BY <1>1, <1>2, <1>4 DEF Waiting
  <2>2. d \in Waiting \ lost /\ d \notin Clobbered(c)  BY <1>1, <1>2, <1>4, <2>1 DEF Waiting
  <2>3. comp = d  BY <2>2 DEF Request, RequestPending
  <2> QED  BY <2>1, <2>2, <2>3 DEF Clobbered
<1>5. RequestPending'  BY <1>4 DEF RequestPending
<1> QED  BY <1>3, <1>5 DEF Request

LEMMA RequestStep == ASSUME Typed, Request, [Next]_vars PROVE Request'
<1> USE DEF OnItsWay
<1>1. CASE Fire \/ Health \/ ChipHangs
  BY <1>1, SameRequests DEF Fire, Health, HealthSkip, HealthStart, HealthOk, HealthFail, ChipHangs, flags
<1>2. CASE Stop \/ RecentEnds
  BY <1>2, SameRequests DEF Stop, StopCheck, StopFlags, StopSchedule, RecentEnds, flags
<1>3. CASE RestartEnter \/ RestartBegin
  BY <1>3, SameRequests DEF RestartEnter, RestartBegin, flags
<1>4. CASE RestartDump  BY <1>4, DumpRequests
<1>5. CASE RestartOk \/ RestartFail
  BY <1>5, SameRequests DEF RestartOk, RestartFail, flags
<1>6. CASE Reconfig \/ Up  BY <1>6, StartRequests DEF Reconfig, Up
<1>7. CASE NoReconfig \/ Down
  BY <1>7, SameRequests DEF NoReconfig, Down, flags, threads
<1>8. CASE DebugRestart \/ DebugWatchdog \/ Hibernate \/ LongSleep \/ StandbyEnter \/ StandbyExit \/ Traffic
  BY <1>8, SameRequests DEF DebugRestart, DebugWatchdog, Command, Hibernate, LongSleep, StandbyEnter,
     StandbyExit, Traffic, flags, threads
<1>9. CASE \E c \in Callers : Coredump(c)
  BY <1>9, BeginRequests, TimeoutRequests, EndRequests DEF Coredump
<1>10. CASE UNCHANGED vars  BY <1>10, SameRequests DEF vars, flags, threads
<1> QED  BY <1>1, <1>2, <1>3, <1>4, <1>5, <1>6, <1>7, <1>8, <1>9, <1>10 DEF Next, RestartWork, User

LEMMA InitRequest == Init => Request
BY DEF Init, Request, CompletionAlive, RequestPending, Waiting

\* The completion a restart completes is on the stack of a caller that is still
\* there (command.c:270-298).
THEOREM Alive == Spec => []CompletionAlive
<1>1. Init => Typed /\ Request  BY InitTyped, InitRequest
<1>2. Typed /\ Request /\ [Next]_vars => Typed' /\ Request'  BY StepTyped, RequestStep
<1>3. Request => CompletionAlive  BY DEF Request
<1> QED  BY <1>1, <1>2, <1>3, PTL DEF Spec

\* A caller of morse_cmd_coredump() waits in vain only when another caller or a
\* start of the driver undid its request.
THEOREM Pending == Spec => []RequestPending
<1>1. Init => Typed /\ Request  BY InitTyped, InitRequest
<1>2. Typed /\ Request /\ [Next]_vars => Typed' /\ Request'  BY StepTyped, RequestStep
<1>3. Request => RequestPending  BY DEF Request
<1> QED  BY <1>1, <1>2, <1>3, PTL DEF Spec

LEMMA DumpStep == ASSUME Typed, DumpHasRestart, [Next]_vars PROVE DumpHasRestart'
<1> USE DEF DumpHasRestart, flags, threads
<1>1. CASE Fire \/ Health \/ ChipHangs
  BY <1>1 DEF Fire, Health, HealthSkip, HealthStart, HealthOk, HealthFail, ChipHangs
<1>2. CASE Stop \/ RecentEnds
  BY <1>2 DEF Stop, StopCheck, StopFlags, StopSchedule, RecentEnds
<1>3. CASE RestartEnter \/ RestartBegin \/ RestartDump
  BY <1>3 DEF RestartEnter, RestartBegin, RestartDump
<1>4. CASE RestartOk \/ RestartFail
  BY <1>4 DEF RestartOk, RestartFail
<1>5. CASE Reconfig \/ NoReconfig
  BY <1>5 DEF Reconfig, OpsStart, NoReconfig
<1>6. CASE User
  BY <1>6 DEF User, Up, Down, OpsStart, DebugRestart, DebugWatchdog, Command, Hibernate,
     LongSleep, StandbyEnter, StandbyExit, Traffic
<1>7. CASE \E c \in Callers : Coredump(c)
  BY <1>7 DEF Coredump, CoredumpBegin, CoredumpTimeout, CoredumpEnd
<1>8. CASE UNCHANGED vars  BY <1>8 DEF vars
<1> QED  BY <1>1, <1>2, <1>3, <1>4, <1>5, <1>6, <1>7, <1>8 DEF Next, RestartWork

\* A coredump that was asked for is made by a restart on its way (mac.c:6499).
THEOREM DumpMade == Spec => []DumpHasRestart
<1>1. Init => DumpHasRestart  BY DEF Init, DumpHasRestart
<1> QED  BY <1>1, InitTyped, StepTyped, DumpStep, PTL DEF Spec

\* command.c:265: a successful caller of morse_cmd_coredump() returns after the
\* reload, which holds the lock the caller takes again.
THEOREM AfterReload == Spec => WaitsForReload
<1>1. Typed /\ [Next]_vars => (\A c \in Callers : (cpc[c] = "wait" /\ cpc'[c] = "idle") => rpc # "reload")
  <2> SUFFICES ASSUME Typed, [Next]_vars, NEW c \in Callers, cpc[c] = "wait", cpc'[c] = "idle"
               PROVE  rpc # "reload"
    OBVIOUS
  <2>1. cpc \in [Callers -> {"idle", "wait", "late"}] /\ Places  BY TypeParts DEF Typed, Requests
  <2>2. cpc' # cpc  OBVIOUS
  <2>3. \E d \in Callers : Coredump(d)
    <3>1. CASE Fire \/ Health \/ ChipHangs \/ Stop \/ RecentEnds
      BY <2>2, <3>1 DEF Fire, Health, HealthSkip, HealthStart, HealthOk, HealthFail, ChipHangs,
         Stop, StopCheck, StopFlags, StopSchedule, RecentEnds, coredump
    <3>2. CASE RestartWork
      BY <2>2, <3>2 DEF RestartWork, RestartEnter, RestartBegin, RestartDump, RestartOk, RestartFail, coredump
    <3>3. CASE Reconfig \/ NoReconfig
      BY <2>2, <3>3 DEF Reconfig, OpsStart, NoReconfig, coredump
    <3>4. CASE User
      BY <2>2, <3>4 DEF User, Up, Down, OpsStart, DebugRestart, DebugWatchdog, Command,
         Hibernate, LongSleep, StandbyEnter, StandbyExit, Traffic, coredump
    <3>5. CASE UNCHANGED vars  BY <2>2, <3>5 DEF vars, coredump
    <3> QED  BY <3>1, <3>2, <3>3, <3>4, <3>5 DEF Next
  <2>4. PICK d \in Callers : Coredump(d)  BY <2>3
  <2>5. CoredumpEnd(d)
    BY <2>1, <2>4 DEF Coredump, CoredumpBegin, CoredumpTimeout
  <2> QED  BY <2>1, <2>5 DEF CoredumpEnd, Unlocked, Places
<1> QED  BY <1>1, InitTyped, StepTyped, PTL DEF Spec, WaitsForReload
=============================================================================
