------------------------------ MODULE Watchdog ------------------------------
(*****************************************************************************)
(* The watchdog (watchdog.c): a timer that runs for its consumers unless     *)
(* somebody has paused it.  Every operation but the clean-up holds           *)
(* watchdog.lock, so each is one step here; the clean-up sets the consumers  *)
(* before it takes that lock (watchdog.c:199), and is taken as one step too: *)
(* what a user who writes "disable" to the debug file meets between its two  *)
(* halves is left out.  All are composed into the steps of their callers.    *)
(* A refresh only restarts the period and changes nothing of this.           *)
(*****************************************************************************)
EXTENDS Naturals

VARIABLES
    ticking,    \* hrtimer_active(&watchdog.timer)
    consumers,  \* watchdog.consumers
    paused,     \* watchdog.paused
    halted      \* the timer was stopped with consumers left

watchdog == <<ticking, consumers, paused, halted>>

\* morse_watchdog_init(), then morse_watchdog_start() of the probe.
WatchdogInit == ticking = TRUE /\ consumers = 1 /\ paused = 0 /\ halted = FALSE

WatchdogStart ==
    /\ consumers' = consumers + 1 /\ UNCHANGED paused
    /\ IF paused = 0 THEN ticking' = TRUE /\ halted' = FALSE ELSE UNCHANGED <<ticking, halted>>

\* A timer that does not run loses no consumer; one that runs is cancelled
\* also when consumers are left.
WatchdogStop ==
    IF consumers > 0 /\ ticking
      THEN /\ consumers' = consumers - 1 /\ ticking' = FALSE /\ halted' = (consumers > 1)
           /\ UNCHANGED paused
      ELSE UNCHANGED watchdog

WatchdogPause ==
    IF consumers > 0
      THEN paused' = paused + 1 /\ ticking' = FALSE /\ UNCHANGED <<consumers, halted>>
      ELSE UNCHANGED watchdog

\* The last of those who paused it starts the timer.
WatchdogResumeAny ==
    IF consumers > 0 /\ paused > 0
      THEN /\ paused' = paused - 1 /\ UNCHANGED consumers
           /\ ticking' = TRUE /\ halted' = FALSE
      ELSE UNCHANGED watchdog
WatchdogResume ==
    IF consumers > 0 /\ paused > 0
      THEN /\ paused' = paused - 1 /\ UNCHANGED consumers
           /\ IF paused = 1 THEN ticking' = TRUE /\ halted' = FALSE
              ELSE UNCHANGED <<ticking, halted>>
      ELSE UNCHANGED watchdog

\* Every consumer but one is forgotten, and that one stopped, if the timer runs.
WatchdogCleanup ==
    IF consumers > 0
      THEN /\ consumers' = IF ticking THEN 0 ELSE 1
           /\ ticking' = FALSE /\ UNCHANGED <<paused, halted>>
      ELSE UNCHANGED watchdog

WatchdogTypeOK ==
    /\ ticking \in BOOLEAN /\ consumers \in Nat /\ paused \in Nat /\ halted \in BOOLEAN
=============================================================================
