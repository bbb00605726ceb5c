---------------------------- MODULE HwScan_proofs ----------------------------
(***************************************************************************)
(* Theorems about HwScan, for every number of calls, faults and restarts.  *)
(***************************************************************************)
EXTENDS HwScan, SequenceTheorems, TLAPS

-----------------------------------------------------------------------------
(* What the receive work has before it.                                    *)

Dones(r, n) == \A i \in 1 .. Len(r) : IsDone(r[i]) => r[i].scan = n
NoAnswer(r) == \A i \in 1 .. Len(r) : IsDone(r[i])
OneAnswer(r) == \A i, j \in 1 .. Len(r) : ~IsDone(r[i]) /\ ~IsDone(r[j]) => i = j
HasDone(r) == \E i \in 1 .. Len(r) : IsDone(r[i])
Has(r, a) == \E i \in 1 .. Len(r) : r[i].what = a

\* The done events behind a positive answer are those of scan n.
OkBefore(r, n) ==
    \A i, j \in 1 .. Len(r) : r[i].what = "ok" /\ i < j /\ IsDone(r[j]) => r[j].scan = n

LEMMA EmptyList ==
  /\ <<>> \in Seq(Messages) /\ NoAnswer(<<>>) /\ OneAnswer(<<>>)
  /\ \A n : Dones(<<>>, n) /\ OkBefore(<<>>, n)
  /\ \A a : ~Has(<<>>, a)
<1>1. <<>> \in Seq(Messages) /\ Len(<<>>) = 0  BY EmptySeq
<1>2. 1 .. Len(<<>>) = {}  BY <1>1
<1> QED  BY <1>1, <1>2 DEF NoAnswer, OneAnswer, Dones, OkBefore, Has

\* The chip adds a message.
LEMMA Added ==
  ASSUME NEW r \in Seq(Messages), NEW m \in Messages
  PROVE  LET s == Append(r, m)
         IN  /\ s \in Seq(Messages)
             /\ \A n : Dones(r, n) /\ (IsDone(m) => m.scan = n) => Dones(s, n)
             /\ NoAnswer(r) /\ IsDone(m) => NoAnswer(s)
             /\ OneAnswer(r) /\ (NoAnswer(r) \/ IsDone(m)) => OneAnswer(s)
             /\ \A n : OkBefore(r, n) /\ (IsDone(m) => m.scan = n) => OkBefore(s, n)
             /\ HasDone(r) \/ IsDone(m) => HasDone(s)
             /\ \A a : Has(s, a) <=> Has(r, a) \/ m.what = a
<1> DEFINE s == Append(r, m)
<1>1. /\ s \in Seq(Messages) /\ Len(s) = Len(r) + 1 /\ Len(r) \in Nat
      /\ s[Len(r) + 1] = m /\ \A i \in 1 .. Len(r) : s[i] = r[i]
  BY AppendProperties, LenProperties
<1>2. \A i \in 1 .. Len(s) : (i \in 1 .. Len(r) /\ s[i] = r[i]) \/ (i = Len(r) + 1 /\ s[i] = m)
  BY <1>1
<1>3. \A i \in 1 .. Len(r) : i \in 1 .. Len(s) /\ i # Len(r) + 1  BY <1>1
<1>4. Len(r) + 1 \in 1 .. Len(s)  BY <1>1
<1>5. \A n : Dones(r, n) /\ (IsDone(m) => m.scan = n) => Dones(s, n)
  BY <1>2 DEF Dones
<1>6. NoAnswer(r) /\ IsDone(m) => NoAnswer(s)  BY <1>2 DEF NoAnswer
<1>7. OneAnswer(r) /\ (NoAnswer(r) \/ IsDone(m)) => OneAnswer(s)
  BY <1>2 DEF OneAnswer, NoAnswer
<1>8. \A n : OkBefore(r, n) /\ (IsDone(m) => m.scan = n) => OkBefore(s, n)
  <2> SUFFICES ASSUME NEW n, OkBefore(r, n), IsDone(m) => m.scan = n,
                      NEW i \in 1 .. Len(s), NEW j \in 1 .. Len(s),
                      s[i].what = "ok", i < j, IsDone(s[j])
               PROVE  s[j].scan = n
    BY DEF OkBefore
  <2>1. CASE j \in 1 .. Len(r) /\ s[j] = r[j]
    <3>1. i \in 1 .. Len(r) /\ s[i] = r[i]  BY <1>1, <2>1
    <3> QED  BY <2>1, <3>1 DEF OkBefore
  <2>2. CASE s[j] = m  BY <2>2
  <2> QED  BY <1>2, <2>1, <2>2
<1>9. HasDone(r) \/ IsDone(m) => HasDone(s)  BY <1>1, <1>3, <1>4 DEF HasDone
<1>10. \A a : Has(s, a) <=> Has(r, a) \/ m.what = a
  BY <1>1, <1>2, <1>3, <1>4 DEF Has
<1> QED  BY <1>1, <1>5, <1>6, <1>7, <1>8, <1>9, <1>10

\* The receive work takes the first message.
LEMMA Taken ==
  ASSUME NEW r \in Seq(Messages), r # <<>>
  PROVE  LET s == Tail(r)
             m == Head(r)
         IN  /\ s \in Seq(Messages) /\ m \in Messages
             /\ \A n : Dones(r, n) => Dones(s, n) /\ (IsDone(m) => m.scan = n)
             /\ NoAnswer(r) => NoAnswer(s) /\ IsDone(m)
             /\ OneAnswer(r) => OneAnswer(s) /\ (~IsDone(m) => NoAnswer(s))
             /\ \A n : OkBefore(r, n) => OkBefore(s, n) /\ (m.what = "ok" => Dones(s, n))
             /\ HasDone(r) /\ ~IsDone(m) => HasDone(s)
             /\ \A a : Has(r, a) <=> Has(s, a) \/ m.what = a
<1> DEFINE s == Tail(r)
           m == Head(r)
<1>1. /\ s \in Seq(Messages) /\ m \in Messages
      /\ Len(r) \in Nat \ {0} /\ Len(s) = Len(r) - 1 /\ m = r[1]
      /\ \A i \in 1 .. Len(s) : s[i] = r[i + 1]
  BY HeadTailProperties, LenProperties, EmptySeq, ElementOfSeq
<1>2. \A i \in 1 .. Len(s) : i + 1 \in 1 .. Len(r) /\ s[i] = r[i + 1] /\ i + 1 # 1 /\ 1 < i + 1
  BY <1>1
<1>3. 1 \in 1 .. Len(r)  BY <1>1
<1>4. \A i \in 1 .. Len(r) : i = 1 \/ (\E j \in 1 .. Len(s) : i = j + 1 /\ s[j] = r[i])
  <2> TAKE i \in 1 .. Len(r)
  <2>1. CASE i # 1
    <3>1. i - 1 \in 1 .. Len(s) /\ i = (i - 1) + 1  BY <1>1, <2>1
    <3> QED  BY <1>1, <3>1
  <2> QED  BY <2>1
<1>5. \A n : Dones(r, n) => Dones(s, n) /\ (IsDone(m) => m.scan = n)
  BY <1>1, <1>2, <1>3 DEF Dones
<1>6. NoAnswer(r) => NoAnswer(s) /\ IsDone(m)  BY <1>1, <1>2, <1>3 DEF NoAnswer
<1>7. OneAnswer(r) => OneAnswer(s) /\ (~IsDone(m) => NoAnswer(s))
  <2> SUFFICES ASSUME OneAnswer(r) PROVE OneAnswer(s) /\ (~IsDone(m) => NoAnswer(s))
    OBVIOUS
  <2>1. OneAnswer(s)
    <3> SUFFICES ASSUME NEW i \in 1 .. Len(s), NEW j \in 1 .. Len(s),
                        ~IsDone(s[i]), ~IsDone(s[j])
                 PROVE  i = j
      BY DEF OneAnswer
    <3>1. i + 1 = j + 1  BY <1>2 DEF OneAnswer
    <3> QED  BY <3>1
  <2>2. ~IsDone(m) => NoAnswer(s)
    BY <1>1, <1>2, <1>3 DEF OneAnswer, NoAnswer
  <2> QED  BY <2>1, <2>2
<1>8. \A n : OkBefore(r, n) => OkBefore(s, n) /\ (m.what = "ok" => Dones(s, n))
  <2> SUFFICES ASSUME NEW n, OkBefore(r, n)
               PROVE  OkBefore(s, n) /\ (m.what = "ok" => Dones(s, n))
    OBVIOUS
  <2>1. OkBefore(s, n)
    <3> SUFFICES ASSUME NEW i \in 1 .. Len(s), NEW j \in 1 .. Len(s),
                        s[i].what = "ok", i < j, IsDone(s[j])
                 PROVE  s[j].scan = n
      BY DEF OkBefore
    <3>1. i + 1 < j + 1  OBVIOUS
    <3> QED  BY <1>2, <3>1 DEF OkBefore
  <2>2. m.what = "ok" => Dones(s, n)  BY <1>1, <1>2, <1>3 DEF OkBefore, Dones
  <2> QED  BY <2>1, <2>2
<1>9. HasDone(r) /\ ~IsDone(m) => HasDone(s)  BY <1>1, <1>4 DEF HasDone
<1>10. \A a : Has(r, a) <=> Has(s, a) \/ m.what = a
  BY <1>1, <1>2, <1>3, <1>4, ZenonT(60) DEF Has
<1> QED  BY <1>1, <1>5, <1>6, <1>7, <1>8, <1>9, <1>10

\* An answer that comes too late is dropped.
LEMMA Dropped ==
  ASSUME NEW r \in Seq(Messages), NEW k \in 1 .. Len(r), ~IsDone(r[k])
  PROVE  LET s == Without(r, k)
         IN  /\ s \in Seq(Messages)
             /\ \A n : Dones(r, n) => Dones(s, n)
             /\ OneAnswer(r) => OneAnswer(s) /\ NoAnswer(s)
             /\ HasDone(r) => HasDone(s)
<1> DEFINE s == Without(r, k)
           a == SubSeq(r, 1, k - 1)
           b == SubSeq(r, k + 1, Len(r))
<1>0. Len(r) \in Nat /\ \A i \in 1 .. Len(r) : r[i] \in Messages
  BY LenProperties, ElementOfSeq
<1>1. /\ a \in Seq(Messages) /\ Len(a) = k - 1
      /\ \A i \in 1 .. k - 1 : a[i] = r[i]
  <2>1. 1 \in Int /\ k - 1 \in Int /\ \A i \in 1 .. (k - 1) : r[i] \in Messages
    BY <1>0
  <2>2. /\ a \in Seq(Messages) /\ Len(a) = (IF 1 <= k - 1 THEN (k - 1) - 1 + 1 ELSE 0)
        /\ \A i \in 1 .. (k - 1) - 1 + 1 : a[i] = r[1 + i - 1]
    BY ONLY <2>1, SubSeqProperties
  <2> QED  BY <1>0, <2>2
<1>2. /\ b \in Seq(Messages) /\ Len(b) = Len(r) - k
      /\ \A i \in 1 .. Len(r) - k : b[i] = r[k + i]
  <2>1. k + 1 \in Int /\ Len(r) \in Int /\ \A i \in (k + 1) .. Len(r) : r[i] \in Messages
    BY <1>0
  <2>2. /\ b \in Seq(Messages) /\ Len(b) = (IF k + 1 <= Len(r) THEN Len(r) - (k + 1) + 1 ELSE 0)
        /\ \A i \in 1 .. Len(r) - (k + 1) + 1 : b[i] = r[(k + 1) + i - 1]
    BY ONLY <2>1, SubSeqProperties
  <2> QED  BY <1>0, <2>2
<1>3. /\ a \o b \in Seq(Messages) /\ Len(a \o b) = Len(a) + Len(b)
      /\ \A i \in 1 .. Len(a) + Len(b) :
            (a \o b)[i] = IF i <= Len(a) THEN a[i] ELSE b[i - Len(a)]
  BY ONLY <1>1, <1>2, ConcatProperties
<1>4. s = a \o b  BY DEF Without
<1> HIDE DEF a, b
<1>5. s \in Seq(Messages) /\ Len(s) = Len(r) - 1  BY <1>0, <1>1, <1>2, <1>3, <1>4
<1>6. \A i \in 1 .. Len(s) : i < k => i \in 1 .. Len(r) /\ s[i] = r[i]
  BY <1>0, <1>1, <1>2, <1>3, <1>4, <1>5
<1>7. \A i \in 1 .. Len(s) : ~(i < k) => i + 1 \in 1 .. Len(r) /\ s[i] = r[i + 1]
  <2> SUFFICES ASSUME NEW i \in 1 .. Len(s), ~(i < k)
               PROVE  i + 1 \in 1 .. Len(r) /\ s[i] = r[i + 1]
    OBVIOUS
  <2>1. i + 1 \in 1 .. Len(r)  BY <1>0, <1>5
  <2>2. s[i] = b[i - (k - 1)]  BY <1>0, <1>1, <1>2, <1>3, <1>4, <1>5
  <2>3. b[i - (k - 1)] = r[k + (i - (k - 1))]  BY <1>0, <1>2, <1>5
  <2>4. k + (i - (k - 1)) = i + 1  BY <1>0
  <2> QED  BY <2>1, <2>2, <2>3, <2>4
<1> HIDE DEF s
<1>8. \A i \in 1 .. Len(s) : \E j \in 1 .. Len(r) : j # k /\ s[i] = r[j]
  <2> TAKE i \in 1 .. Len(s)
  <2>1. CASE i < k  BY <1>0, <1>6, <2>1
  <2>2. CASE ~(i < k)
    <3>1. i + 1 # k  BY <1>0, <1>5, <2>2
    <3> QED  BY <1>7, <2>2, <3>1
  <2> QED  BY <2>1, <2>2
<1>9. \A n : Dones(r, n) => Dones(s, n)  BY <1>8 DEF Dones
<1>10. OneAnswer(r) => OneAnswer(s) /\ NoAnswer(s)
  <2>1. OneAnswer(r) => NoAnswer(s)  BY <1>8 DEF OneAnswer, NoAnswer
  <2> QED  BY <2>1 DEF OneAnswer, NoAnswer
<1>11. HasDone(r) => HasDone(s)
  <2> SUFFICES ASSUME NEW j \in 1 .. Len(r), IsDone(r[j]) PROVE HasDone(s)
    BY DEF HasDone
  <2>1. j # k  OBVIOUS
  <2>2. CASE j < k
    <3>1. j \in 1 .. Len(s)  BY <1>0, <1>5, <2>2
    <3> QED  BY <1>6, <2>2, <3>1 DEF HasDone
  <2>3. CASE ~(j < k)
    <3>1. j - 1 \in 1 .. Len(s) /\ ~(j - 1 < k) /\ (j - 1) + 1 = j  BY <1>0, <1>5, <2>1, <2>3
    <3>2. s[j - 1] = r[j]  BY <1>7, <3>1
    <3> QED  BY <3>1, <3>2 DEF HasDone
  <2> QED  BY <2>2, <2>3
<1> QED  BY <1>5, <1>9, <1>10, <1>11 DEF s

-----------------------------------------------------------------------------
(* The steps, and the types of the state.                                  *)

CancelOf(t) ==
    \/ CancelStop(t) \/ CancelStopped(t)
    \/ WaitDone(t, "wait", "idle") \/ WaitTimeout(t, "wait", "giveUp") \/ CancelGiveUp(t)

LEMMA Steps ==
  ASSUME [Next]_vars
  PROVE  \/ Calls \/ (ScanRefused \/ ScanAfterSched \/ CancelSync) \/ ScanStart \/ ScanStarted
         \/ (SchedRefused \/ SchedStart \/ SchedStarted) \/ SchedStop
         \/ (SchedStopped \/ SchedGiveUp \/ SchedTell)
         \/ WaitDone("op", "schedWait", "tell") \/ WaitTimeout("op", "schedWait", "schedGiveUp")
         \/ (\E t \in Threads : CancelOf(t)) \/ TimerFires \/ CommandTimeout
         \/ Receive \/ DoneEvent \/ DoneSync \/ (RestartLock \/ OpsStart)
         \/ RestartFinishScans \/ (RestartSync \/ RestartReload) \/ RestartFail
         \/ (ChipTakes \/ ChipRefuses \/ ChipLoses) \/ ChipDone \/ UNCHANGED vars
BY DEF Next, Op, Timer, Cancel, CancelOf, Threads, ReceiveWork, Restarting, Chip

\* The parts of TypeOK.
Values ==
    /\ state \in {"IDLE", "RUNNING", "ABORTING", "SCHED", "SCHED_STOPPING"}
    /\ done \in Nat /\ armed \in Nat /\ fired \in Nat
    /\ lock \in {"none", "restart", "op", "timer"}
    /\ restart \in {"idle", "locked", "sync", "reload", "up", "failed"} /\ restarts \in Nat
    /\ cmd \in Commands \cup {"none"} /\ reply \in {"none", "ok", "error"}
    /\ chipScan \in Nat /\ scans \in Nat /\ calls \in Nat /\ faults \in Nat
Truths ==
    /\ forScan \in BOOLEAN /\ started \in BOOLEAN /\ rxSync \in BOOLEAN
    /\ scanReq \in BOOLEAN /\ schedReq \in BOOLEAN
    /\ starved \in BOOLEAN /\ stale \in BOOLEAN /\ spurious \in BOOLEAN /\ mixedUp \in BOOLEAN
Places == pc \in [Threads -> OpStages] /\ pc["timer"] \in TimerStages
Listed == rx \in Seq(Messages)

LEMMA TypeParts == TypeOK <=> Values /\ Truths /\ Places /\ Listed
BY DEF TypeOK, Values, Truths, Places, Listed, Threads

LEMMA InitType == Init => TypeOK
<1> SUFFICES ASSUME Init PROVE Values /\ Truths /\ Places /\ Listed  BY TypeParts
<1>1. Values  BY DEF Init, Values
<1>2. Truths  BY DEF Init, Truths
<1>3. Places  BY DEF Init, Places, Threads, OpStages, TimerStages
<1>4. Listed  BY EmptyList DEF Init, Listed
<1> QED  BY <1>1, <1>2, <1>3, <1>4

LEMMA StepValues == Values /\ Listed /\ [Next]_vars => Values'
<1> SUFFICES ASSUME Values, Listed, [Next]_vars PROVE Values'  OBVIOUS
<1> USE DEF Values, driver, threads, restarting, command, receive, mac80211, ghosts, Commands,
            Threads, ScanCompleted, Send, NoCommand, Fault
<1>1. CASE Calls  BY <1>1 DEF Calls, CallScan, CallCancel, CallSchedStart, CallSchedStop, Call
<1>2. CASE ScanRefused \/ ScanAfterSched \/ CancelSync
  BY <1>2 DEF ScanRefused, ScanAfterSched, CancelSync
<1>3. CASE ScanStart  BY <1>3 DEF ScanStart
<1>4. CASE ScanStarted  BY <1>4 DEF ScanStarted
<1>5. CASE SchedRefused \/ SchedStart \/ SchedStarted
  BY <1>5 DEF SchedRefused, SchedStart, SchedStarted
<1>6. CASE SchedStop  BY <1>6 DEF SchedStop, StopReturn
<1>7. CASE SchedStopped \/ SchedGiveUp \/ SchedTell
  BY <1>7 DEF SchedStopped, SchedGiveUp, SchedTell
<1>8. CASE WaitDone("op", "schedWait", "tell")  BY <1>8 DEF WaitDone
<1>9. CASE WaitTimeout("op", "schedWait", "schedGiveUp")  BY <1>9 DEF WaitTimeout
<1>10. ASSUME NEW t \in Threads, CancelOf(t) PROVE Values'
  <2>1. CASE CancelStop(t)  BY <2>1 DEF CancelStop
  <2>2. CASE CancelStopped(t)  BY <2>2 DEF CancelStopped
  <2>3. CASE WaitDone(t, "wait", "idle")  BY <2>3 DEF WaitDone
  <2>4. CASE WaitTimeout(t, "wait", "giveUp")  BY <2>4 DEF WaitTimeout
  <2>5. CASE CancelGiveUp(t)  BY <2>5 DEF CancelGiveUp
  <2> QED  BY <1>10, <2>1, <2>2, <2>3, <2>4, <2>5 DEF CancelOf
<1>11. CASE TimerFires  BY <1>11 DEF TimerFires
<1>12. CASE CommandTimeout  BY <1>12 DEF CommandTimeout
<1>13. CASE Receive
  <2>1. Head(rx) \in Messages  BY <1>13, Taken DEF Receive, Listed
  <2>2. reply' \in {"ok", "error"}  BY <1>13, <2>1 DEF Receive, Messages, IsDone
  <2> QED  BY <1>13, <2>2 DEF Receive
<1>14. CASE DoneEvent  BY <1>14 DEF DoneEvent
<1>15. CASE DoneSync  BY <1>15 DEF DoneSync
<1>16. CASE RestartLock \/ OpsStart  BY <1>16 DEF RestartLock, OpsStart
<1>17. CASE RestartFinishScans  BY <1>17 DEF RestartFinishScans
<1>18. CASE RestartSync \/ RestartReload  BY <1>18 DEF RestartSync, RestartReload
<1>19. CASE RestartFail  BY <1>19 DEF RestartFail
<1>20. CASE ChipTakes \/ ChipRefuses \/ ChipLoses
  <2>1. CASE ChipTakes  BY <2>1 DEF ChipTakes
  <2>2. CASE ChipRefuses  BY <2>2 DEF ChipRefuses
  <2>3. CASE ChipLoses  BY <2>3 DEF ChipLoses
  <2> QED  BY <1>20, <2>1, <2>2, <2>3
<1>21. CASE ChipDone  BY <1>21 DEF ChipDone
<1>22. CASE UNCHANGED vars  BY <1>22 DEF vars
<1> QED
  BY <1>1, <1>2, <1>3, <1>4, <1>5, <1>6, <1>7, <1>8, <1>9, <1>10, <1>11, <1>12, <1>13, <1>14,
     <1>15, <1>16, <1>17, <1>18, <1>19, <1>20, <1>21, <1>22, Steps

LEMMA StepTruths == Truths /\ [Next]_vars => Truths'
<1> SUFFICES ASSUME Truths, [Next]_vars PROVE Truths'  OBVIOUS
<1> USE DEF Truths, driver, threads, restarting, command, receive, mac80211, ghosts,
            ScanCompleted
<1>1. CASE Calls  BY <1>1, ZenonT(60) DEF Calls, CallScan, CallCancel, CallSchedStart, CallSchedStop, Call
<1>2. CASE ScanRefused \/ ScanAfterSched \/ CancelSync
  BY <1>2, ZenonT(60) DEF ScanRefused, ScanAfterSched, CancelSync
<1>3. CASE ScanStart  BY <1>3 DEF ScanStart
<1>4. CASE ScanStarted  BY <1>4 DEF ScanStarted
<1>5. CASE SchedRefused \/ SchedStart \/ SchedStarted
  BY <1>5, ZenonT(60) DEF SchedRefused, SchedStart, SchedStarted
<1>6. CASE SchedStop  BY <1>6 DEF SchedStop, StopReturn
<1>7. CASE SchedStopped \/ SchedGiveUp \/ SchedTell
  BY <1>7, ZenonT(60) DEF SchedStopped, SchedGiveUp, SchedTell
<1>8. CASE WaitDone("op", "schedWait", "tell")  BY <1>8 DEF WaitDone
<1>9. CASE WaitTimeout("op", "schedWait", "schedGiveUp")  BY <1>9 DEF WaitTimeout
<1>10. ASSUME NEW t \in Threads, CancelOf(t) PROVE Truths'
  <2>1. CASE CancelStop(t)  BY <2>1 DEF CancelStop
  <2>2. CASE CancelStopped(t)  BY <2>2 DEF CancelStopped
  <2>3. CASE WaitDone(t, "wait", "idle")  BY <2>3 DEF WaitDone
  <2>4. CASE WaitTimeout(t, "wait", "giveUp")  BY <2>4 DEF WaitTimeout
  <2>5. CASE CancelGiveUp(t)  BY <2>5 DEF CancelGiveUp
  <2> QED  BY <1>10, <2>1, <2>2, <2>3, <2>4, <2>5 DEF CancelOf
<1>11. CASE TimerFires  BY <1>11 DEF TimerFires
<1>12. CASE CommandTimeout  BY <1>12 DEF CommandTimeout
<1>13. CASE Receive  BY <1>13 DEF Receive
<1>14. CASE DoneEvent  BY <1>14 DEF DoneEvent
<1>15. CASE DoneSync  BY <1>15 DEF DoneSync
<1>16. CASE RestartLock \/ OpsStart  BY <1>16, ZenonT(60) DEF RestartLock, OpsStart
<1>17. CASE RestartFinishScans  BY <1>17, ZenonT(60) DEF RestartFinishScans
<1>18. CASE RestartSync \/ RestartReload  BY <1>18 DEF RestartSync, RestartReload
<1>19. CASE RestartFail  BY <1>19 DEF RestartFail
<1>20. CASE ChipTakes \/ ChipRefuses \/ ChipLoses
  BY <1>20 DEF ChipTakes, ChipRefuses, ChipLoses
<1>21. CASE ChipDone  BY <1>21 DEF ChipDone
<1>22. CASE UNCHANGED vars  BY <1>22 DEF vars
<1> QED
  BY <1>1, <1>2, <1>3, <1>4, <1>5, <1>6, <1>7, <1>8, <1>9, <1>10, <1>11, <1>12, <1>13, <1>14,
     <1>15, <1>16, <1>17, <1>18, <1>19, <1>20, <1>21, <1>22, Steps

LEMMA StepPlaces == Places /\ [Next]_vars => Places'
<1> SUFFICES ASSUME Places, [Next]_vars PROVE Places'  OBVIOUS
<1> USE DEF Places, threads, Threads, OpStages, TimerStages, Goto, At, Locked
<1>1. CASE Calls  BY <1>1 DEF Calls, CallScan, CallCancel, CallSchedStart, CallSchedStop, Call
<1>2. CASE ScanRefused \/ ScanAfterSched \/ CancelSync
  BY <1>2 DEF ScanRefused, ScanAfterSched, CancelSync
<1>3. CASE ScanStart  BY <1>3 DEF ScanStart
<1>4. CASE ScanStarted  BY <1>4 DEF ScanStarted
<1>5. CASE SchedRefused \/ SchedStart \/ SchedStarted
  BY <1>5 DEF SchedRefused, SchedStart, SchedStarted
<1>6. CASE SchedStop  BY <1>6 DEF SchedStop, StopReturn
<1>7. CASE SchedStopped \/ SchedGiveUp \/ SchedTell
  BY <1>7 DEF SchedStopped, SchedGiveUp, SchedTell
<1>8. CASE WaitDone("op", "schedWait", "tell")  BY <1>8 DEF WaitDone
<1>9. CASE WaitTimeout("op", "schedWait", "schedGiveUp")  BY <1>9 DEF WaitTimeout
<1>10. ASSUME NEW t \in Threads, CancelOf(t) PROVE Places'
  <2>1. CASE CancelStop(t)  BY <2>1 DEF CancelStop
  <2>2. CASE CancelStopped(t)  BY <2>2 DEF CancelStopped
  <2>3. CASE WaitDone(t, "wait", "idle")  BY <2>3 DEF WaitDone
  <2>4. CASE WaitTimeout(t, "wait", "giveUp")  BY <2>4 DEF WaitTimeout
  <2>5. CASE CancelGiveUp(t)  BY <2>5 DEF CancelGiveUp
  <2> QED  BY <1>10, <2>1, <2>2, <2>3, <2>4, <2>5 DEF CancelOf
<1>11. CASE TimerFires  BY <1>11 DEF TimerFires
<1>12. CASE CommandTimeout  BY <1>12 DEF CommandTimeout
<1>13. CASE Receive  BY <1>13 DEF Receive
<1>14. CASE DoneEvent  BY <1>14 DEF DoneEvent
<1>15. CASE DoneSync  BY <1>15 DEF DoneSync
<1>16. CASE RestartLock \/ OpsStart  BY <1>16 DEF RestartLock, OpsStart
<1>17. CASE RestartFinishScans  BY <1>17 DEF RestartFinishScans
<1>18. CASE RestartSync \/ RestartReload  BY <1>18 DEF RestartSync, RestartReload
<1>19. CASE RestartFail  BY <1>19 DEF RestartFail
<1>20. CASE ChipTakes \/ ChipRefuses \/ ChipLoses
  BY <1>20 DEF ChipTakes, ChipRefuses, ChipLoses
<1>21. CASE ChipDone  BY <1>21 DEF ChipDone
<1>22. CASE UNCHANGED vars  BY <1>22 DEF vars
<1> QED
  BY <1>1, <1>2, <1>3, <1>4, <1>5, <1>6, <1>7, <1>8, <1>9, <1>10, <1>11, <1>12, <1>13, <1>14,
     <1>15, <1>16, <1>17, <1>18, <1>19, <1>20, <1>21, <1>22, Steps

\* A command that runs out drops its answer.
LEMMA TimeoutRx ==
  ASSUME Listed, CommandTimeout
  PROVE  /\ Listed'
         /\ OneAnswer(rx) => OneAnswer(rx') /\ NoAnswer(rx')
         /\ \A n : Dones(rx, n) => Dones(rx', n)
         /\ HasDone(rx) => HasDone(rx')
<1>1. DOMAIN rx = 1 .. Len(rx)  BY LenProperties DEF Listed
<1>2. CASE \E i \in DOMAIN rx : ~IsDone(rx[i]) /\ rx' = Without(rx, i)
  <2>1. PICK k \in 1 .. Len(rx) : ~IsDone(rx[k]) /\ rx' = Without(rx, k)  BY <1>1, <1>2
  <2> QED  BY <2>1, Dropped DEF Listed
<1>3. CASE (\A i \in DOMAIN rx : IsDone(rx[i])) /\ rx' = rx
  BY <1>1, <1>3 DEF Listed, NoAnswer
<1> QED  BY <1>2, <1>3 DEF CommandTimeout

LEMMA MessageType ==
  /\ \A a \in {"ok", "error"} :
        Answer(a) \in Messages /\ ~IsDone(Answer(a)) /\ Answer(a).what = a
  /\ \A n \in Nat : Done(n) \in Messages /\ IsDone(Done(n)) /\ Done(n).scan = n
BY DEF Answer, Done, Messages, IsDone

LEMMA StepListed == Values /\ Listed /\ [Next]_vars => Listed'
<1> SUFFICES ASSUME Values, Listed, [Next]_vars PROVE Listed'  OBVIOUS
<1> USE DEF Listed, receive
<1>1. CASE Calls  BY <1>1 DEF Calls, CallScan, CallCancel, CallSchedStart, CallSchedStop, Call
<1>2. CASE ScanRefused \/ ScanAfterSched \/ CancelSync
  BY <1>2 DEF ScanRefused, ScanAfterSched, CancelSync
<1>3. CASE ScanStart  BY <1>3 DEF ScanStart
<1>4. CASE ScanStarted  BY <1>4 DEF ScanStarted
<1>5. CASE SchedRefused \/ SchedStart \/ SchedStarted
  BY <1>5 DEF SchedRefused, SchedStart, SchedStarted
<1>6. CASE SchedStop  BY <1>6 DEF SchedStop, StopReturn
<1>7. CASE SchedStopped \/ SchedGiveUp \/ SchedTell
  BY <1>7 DEF SchedStopped, SchedGiveUp, SchedTell
<1>8. CASE WaitDone("op", "schedWait", "tell")  BY <1>8 DEF WaitDone
<1>9. CASE WaitTimeout("op", "schedWait", "schedGiveUp")  BY <1>9 DEF WaitTimeout
<1>10. ASSUME NEW t \in Threads, CancelOf(t) PROVE Listed'
  <2>1. CASE CancelStop(t)  BY <2>1 DEF CancelStop
  <2>2. CASE CancelStopped(t)  BY <2>2 DEF CancelStopped
  <2>3. CASE WaitDone(t, "wait", "idle")  BY <2>3 DEF WaitDone
  <2>4. CASE WaitTimeout(t, "wait", "giveUp")  BY <2>4 DEF WaitTimeout
  <2>5. CASE CancelGiveUp(t)  BY <2>5 DEF CancelGiveUp
  <2> QED  BY <1>10, <2>1, <2>2, <2>3, <2>4, <2>5 DEF CancelOf
<1>11. CASE TimerFires  BY <1>11 DEF TimerFires
<1>12. CASE CommandTimeout  BY <1>12, TimeoutRx DEF CommandTimeout
<1>13. CASE Receive  BY <1>13, Taken DEF Receive
<1>14. CASE DoneEvent  BY <1>14, Taken DEF DoneEvent
<1>15. CASE DoneSync  BY <1>15 DEF DoneSync
<1>16. CASE RestartLock \/ OpsStart  BY <1>16 DEF RestartLock, OpsStart
<1>17. CASE RestartFinishScans  BY <1>17 DEF RestartFinishScans
<1>18. CASE RestartSync \/ RestartReload  BY <1>18 DEF RestartSync, RestartReload
<1>19. CASE RestartFail  BY <1>19 DEF RestartFail
<1>20. CASE ChipTakes \/ ChipRefuses \/ ChipLoses
  BY <1>20, Added, MessageType DEF ChipTakes, ChipRefuses, ChipLoses
<1>21. CASE ChipDone  BY <1>21, Added, MessageType DEF ChipDone, Values
<1>22. CASE UNCHANGED vars  BY <1>22 DEF vars
<1> QED
  BY <1>1, <1>2, <1>3, <1>4, <1>5, <1>6, <1>7, <1>8, <1>9, <1>10, <1>11, <1>12, <1>13, <1>14,
     <1>15, <1>16, <1>17, <1>18, <1>19, <1>20, <1>21, <1>22, Steps

LEMMA StepType == TypeOK /\ [Next]_vars => TypeOK'
BY TypeParts, StepValues, StepTruths, StepPlaces, StepListed, PTL

\* hw_scan.c and its callers keep the types of the state.
THEOREM TypeCorrect == Spec => []TypeOK
BY InitType, StepType, PTL DEF Spec

-----------------------------------------------------------------------------
(* Who holds mors->lock, and the one command there is.                     *)

\* A thread has the lock while it waits for the answer to its command.
Starting == pc["op"] \in {"start", "schedStart"}
Sending == {"start", "schedStart", "schedStopping", "stopping"}
Stopping == {"schedStopping", "schedWait", "schedGiveUp", "tell"}
LockHeld ==
    /\ lock = "op" <=> pc["op"] \in Sending
    /\ lock = "timer" <=> pc["timer"] \in Sending
    /\ lock = "restart" <=> restart \in {"locked", "sync", "reload"}
    /\ restart = "idle" => started
    /\ restart # "idle" => restarts > 0
    /\ forScan => pc["op"] \in Stopping \cup {"stop"}

LEMMA InitLock == Init => LockHeld
BY DEF Init, LockHeld, Threads, Sending

LEMMA StepLock == Values /\ Places /\ LockHeld /\ [Next]_vars => LockHeld'
<1> SUFFICES ASSUME Values, Places, LockHeld, [Next]_vars PROVE LockHeld'  OBVIOUS
<1> USE DEF Values, Places, LockHeld, threads, restarting, Threads, OpStages, TimerStages,
            Sending, Stopping, Goto, At, Locked
<1>1. CASE Calls  BY <1>1 DEF Calls, CallScan, CallCancel, CallSchedStart, CallSchedStop, Call
<1>2. CASE ScanRefused \/ ScanAfterSched \/ CancelSync
  BY <1>2 DEF ScanRefused, ScanAfterSched, CancelSync
<1>3. CASE ScanStart  BY <1>3 DEF ScanStart
<1>4. CASE ScanStarted  BY <1>4 DEF ScanStarted
<1>5. CASE SchedRefused \/ SchedStart \/ SchedStarted
  BY <1>5 DEF SchedRefused, SchedStart, SchedStarted
<1>6. CASE SchedStop  BY <1>6 DEF SchedStop, StopReturn
<1>7. CASE SchedStopped \/ SchedGiveUp \/ SchedTell
  BY <1>7 DEF SchedStopped, SchedGiveUp, SchedTell
<1>8. CASE WaitDone("op", "schedWait", "tell")  BY <1>8 DEF WaitDone
<1>9. CASE WaitTimeout("op", "schedWait", "schedGiveUp")  BY <1>9 DEF WaitTimeout
<1>10. ASSUME NEW t \in Threads, CancelOf(t) PROVE LockHeld'
  <2>1. CASE CancelStop(t)  BY <2>1 DEF CancelStop
  <2>2. CASE CancelStopped(t)  BY <2>2 DEF CancelStopped
  <2>3. CASE WaitDone(t, "wait", "idle")  BY <2>3 DEF WaitDone
  <2>4. CASE WaitTimeout(t, "wait", "giveUp")  BY <2>4 DEF WaitTimeout
  <2>5. CASE CancelGiveUp(t)  BY <2>5 DEF CancelGiveUp
  <2> QED  BY <1>10, <2>1, <2>2, <2>3, <2>4, <2>5 DEF CancelOf
<1>11. CASE TimerFires  BY <1>11 DEF TimerFires
<1>12. CASE CommandTimeout  BY <1>12 DEF CommandTimeout
<1>13. CASE Receive  BY <1>13 DEF Receive
<1>14. CASE DoneEvent  BY <1>14 DEF DoneEvent
<1>15. CASE DoneSync  BY <1>15 DEF DoneSync
<1>16. CASE RestartLock \/ OpsStart  BY <1>16 DEF RestartLock, OpsStart
<1>17. CASE RestartFinishScans  BY <1>17 DEF RestartFinishScans
<1>18. CASE RestartSync \/ RestartReload  BY <1>18 DEF RestartSync, RestartReload
<1>19. CASE RestartFail  BY <1>19 DEF RestartFail
<1>20. CASE ChipTakes \/ ChipRefuses \/ ChipLoses
  BY <1>20 DEF ChipTakes, ChipRefuses, ChipLoses
<1>21. CASE ChipDone  BY <1>21 DEF ChipDone
<1>22. CASE UNCHANGED vars  BY <1>22 DEF vars
<1> QED
  BY <1>1, <1>2, <1>3, <1>4, <1>5, <1>6, <1>7, <1>8, <1>9, <1>10, <1>11, <1>12, <1>13, <1>14,
     <1>15, <1>16, <1>17, <1>18, <1>19, <1>20, <1>21, <1>22, Steps

Answers ==
    /\ lock \notin Threads => cmd = "none" /\ reply = "none" /\ NoAnswer(rx)
    /\ cmd # "none" => reply = "none" /\ NoAnswer(rx) /\ (Start(cmd) <=> Starting)
    /\ reply # "none" => NoAnswer(rx)
    /\ OneAnswer(rx)

LEMMA InitAnswers == Init => Answers
BY EmptyList DEF Init, Answers

LEMMA StepAnswers == Values /\ Places /\ Listed /\ LockHeld /\ Answers /\ [Next]_vars => Answers'
<1> SUFFICES ASSUME Values, Places, Listed, LockHeld, Answers, [Next]_vars PROVE Answers'  OBVIOUS
<1> USE DEF Values, Places, Listed, LockHeld, Answers, command, receive, threads, restarting,
            Threads, OpStages, TimerStages, Sending, Starting, Start, Goto, At, Locked, Send,
            NoCommand
<1>1. CASE Calls  BY <1>1 DEF Calls, CallScan, CallCancel, CallSchedStart, CallSchedStop, Call
<1>2. CASE ScanRefused \/ ScanAfterSched \/ CancelSync
  BY <1>2 DEF ScanRefused, ScanAfterSched, CancelSync
<1>3. CASE ScanStart  BY <1>3 DEF ScanStart
<1>4. CASE ScanStarted  BY <1>4 DEF ScanStarted
<1>5. CASE SchedRefused \/ SchedStart \/ SchedStarted
  BY <1>5 DEF SchedRefused, SchedStart, SchedStarted
<1>6. CASE SchedStop  BY <1>6 DEF SchedStop, StopReturn
<1>7. CASE SchedStopped \/ SchedGiveUp \/ SchedTell
  BY <1>7 DEF SchedStopped, SchedGiveUp, SchedTell
<1>8. CASE WaitDone("op", "schedWait", "tell")  BY <1>8 DEF WaitDone
<1>9. CASE WaitTimeout("op", "schedWait", "schedGiveUp")  BY <1>9 DEF WaitTimeout
<1>10. ASSUME NEW t \in Threads, CancelOf(t) PROVE Answers'
  <2>1. CASE CancelStop(t)  BY <2>1 DEF CancelStop
  <2>2. CASE CancelStopped(t)  BY <2>2 DEF CancelStopped
  <2>3. CASE WaitDone(t, "wait", "idle")  BY <2>3 DEF WaitDone
  <2>4. CASE WaitTimeout(t, "wait", "giveUp")  BY <2>4 DEF WaitTimeout
  <2>5. CASE CancelGiveUp(t)  BY <2>5 DEF CancelGiveUp
  <2> QED  BY <1>10, <2>1, <2>2, <2>3, <2>4, <2>5 DEF CancelOf
<1>11. CASE TimerFires  BY <1>11 DEF TimerFires
<1>12. CASE CommandTimeout  BY <1>12, TimeoutRx DEF CommandTimeout
<1>13. CASE Receive  BY <1>13, Taken DEF Receive
<1>14. CASE DoneEvent  BY <1>14, Taken DEF DoneEvent
<1>15. CASE DoneSync  BY <1>15 DEF DoneSync
<1>16. CASE RestartLock \/ OpsStart  BY <1>16 DEF RestartLock, OpsStart
<1>17. CASE RestartFinishScans  BY <1>17 DEF RestartFinishScans
<1>18. CASE RestartSync \/ RestartReload  BY <1>18 DEF RestartSync, RestartReload
<1>19. CASE RestartFail  BY <1>19 DEF RestartFail
<1>20. CASE ChipTakes \/ ChipRefuses \/ ChipLoses
  BY <1>20, Added, MessageType, ZenonT(60) DEF ChipTakes, ChipRefuses, ChipLoses
<1>21. CASE ChipDone
  <2>1. rx' = rx \/ rx' = Append(rx, Done(chipScan))  BY <1>21 DEF ChipDone
  <2>2. Done(chipScan) \in Messages /\ IsDone(Done(chipScan))  BY MessageType
  <2>3. OneAnswer(rx') /\ (NoAnswer(rx) => NoAnswer(rx'))  BY <2>1, <2>2, Added, ZenonT(60)
  <2> QED  BY <1>21, <2>3 DEF ChipDone
<1>22. CASE UNCHANGED vars  BY <1>22 DEF vars
<1> QED
  BY <1>1, <1>2, <1>3, <1>4, <1>5, <1>6, <1>7, <1>8, <1>9, <1>10, <1>11, <1>12, <1>13, <1>14,
     <1>15, <1>16, <1>17, <1>18, <1>19, <1>20, <1>21, <1>22, Steps

-----------------------------------------------------------------------------
(* What the state says of the threads, and scan_done of the state.         *)

Cancelling == {"stopping", "wait", "giveUp"}
Stages ==
    /\ Starting => scans > 0
    /\ pc["op"] = "start" => state = "RUNNING"
    /\ pc["op"] = "schedStart" => state = "SCHED" /\ ~schedReq
    /\ pc["op"] = "sched" => ~schedReq
    /\ pc["op"] = "stop" => state \in {"SCHED", "IDLE"}
    /\ pc["op"] = "schedStopping" => state = "SCHED_STOPPING"
    /\ pc["op"] \in {"schedWait", "schedGiveUp"} => state \in {"SCHED_STOPPING", "IDLE"}
    /\ pc["op"] \in {"tell", "rescan"} => state = "IDLE"
    /\ pc["op"] \in {"cancel"} \cup Cancelling => armed = 0 /\ pc["timer"] = "idle"
    /\ pc["op"] \in {"wait", "giveUp"} => state \in {"ABORTING", "IDLE"}
    /\ pc["op"] = "stopping" \/ pc["timer"] = "stopping" => state = "ABORTING"
    /\ pc["op"] \notin Stopping \cup {"schedStart"} => (schedReq <=> state = "SCHED")
    /\ state = "SCHED_STOPPING" => pc["op"] \in Stopping

\* A scan that began with scan_done reset has it reset until it ends.
DoneCount ==
    /\ state \in {"SCHED", "SCHED_STOPPING"} => done = 0
    /\ state \in {"RUNNING", "ABORTING"} => done = 0 \/ stale

\* The timeout is that of the scan the driver is at, or the done event or the
\* restart is waiting for it to end, and no scan starts meanwhile.
Timing ==
    /\ pc["timer"] # "idle" => armed = 0
    /\ armed # 0 => (state = "RUNNING" /\ armed = scans /\ ~Starting) \/ rxSync \/ restart = "sync"
    /\ pc["timer"] = "cancel" =>
         (state = "RUNNING" /\ fired = scans /\ ~Starting) \/ rxSync \/ restart = "sync"
    /\ pc["timer"] \in Cancelling => state = "ABORTING" \/ rxSync \/ restart = "sync"
    /\ rxSync => (state = "IDLE" \/ Starting) /\ reply # "ok"
    /\ restart = "sync" => state = "IDLE"

LEMMA InitStages == Init => Stages /\ DoneCount /\ Timing
BY DEF Init, Stages, DoneCount, Timing, Threads, Starting, Stopping, Cancelling

LEMMA StepStages ==
  Values /\ Places /\ LockHeld /\ Stages /\ DoneCount /\ Timing /\ [Next]_vars => Stages'
<1> SUFFICES ASSUME Values, Places, LockHeld, Stages, DoneCount, Timing, [Next]_vars
             PROVE  Stages'
  OBVIOUS
<1> USE DEF Stages, DoneCount, Timing, Values, Places, LockHeld, driver, threads, restarting,
            mac80211, ghosts, Threads, OpStages, TimerStages, Sending, Starting, Stopping,
            Cancelling, Goto, At, Locked, ScanCompleted
<1>1. CASE Calls  BY <1>1 DEF Calls, CallScan, CallCancel, CallSchedStart, CallSchedStop, Call
<1>2. CASE ScanRefused \/ ScanAfterSched \/ CancelSync
  BY <1>2 DEF ScanRefused, ScanAfterSched, CancelSync
<1>3. CASE ScanStart  BY <1>3 DEF ScanStart
<1>4. CASE ScanStarted  BY <1>4 DEF ScanStarted
<1>5. CASE SchedRefused \/ SchedStart \/ SchedStarted
  BY <1>5 DEF SchedRefused, SchedStart, SchedStarted
<1>6. CASE SchedStop  BY <1>6, ZenonT(60) DEF SchedStop, StopReturn
<1>7. CASE SchedStopped \/ SchedGiveUp \/ SchedTell
  BY <1>7 DEF SchedStopped, SchedGiveUp, SchedTell
<1>8. CASE WaitDone("op", "schedWait", "tell")  BY <1>8 DEF WaitDone
<1>9. CASE WaitTimeout("op", "schedWait", "schedGiveUp")  BY <1>9 DEF WaitTimeout
<1>10. ASSUME NEW t \in Threads, CancelOf(t) PROVE Stages'
  <2>1. CASE CancelStop(t)  BY <2>1 DEF CancelStop
  <2>2. CASE CancelStopped(t)  BY <2>2 DEF CancelStopped
  <2>3. CASE WaitDone(t, "wait", "idle")  BY <2>3 DEF WaitDone
  <2>4. CASE WaitTimeout(t, "wait", "giveUp")  BY <2>4 DEF WaitTimeout
  <2>5. CASE CancelGiveUp(t)  BY <2>5 DEF CancelGiveUp
  <2> QED  BY <1>10, <2>1, <2>2, <2>3, <2>4, <2>5 DEF CancelOf
<1>11. CASE TimerFires  BY <1>11 DEF TimerFires
<1>12. CASE CommandTimeout  BY <1>12 DEF CommandTimeout
<1>13. CASE Receive  BY <1>13 DEF Receive
<1>14. CASE DoneEvent  BY <1>14 DEF DoneEvent
<1>15. CASE DoneSync  BY <1>15 DEF DoneSync
<1>16. CASE RestartLock \/ OpsStart  BY <1>16 DEF RestartLock, OpsStart
<1>17. CASE RestartFinishScans  BY <1>17 DEF RestartFinishScans
<1>18. CASE RestartSync \/ RestartReload  BY <1>18 DEF RestartSync, RestartReload
<1>19. CASE RestartFail  BY <1>19 DEF RestartFail
<1>20. CASE ChipTakes \/ ChipRefuses \/ ChipLoses
  BY <1>20 DEF ChipTakes, ChipRefuses, ChipLoses
<1>21. CASE ChipDone  BY <1>21 DEF ChipDone
<1>22. CASE UNCHANGED vars  BY <1>22 DEF vars
<1> QED
  BY <1>1, <1>2, <1>3, <1>4, <1>5, <1>6, <1>7, <1>8, <1>9, <1>10, <1>11, <1>12, <1>13, <1>14,
     <1>15, <1>16, <1>17, <1>18, <1>19, <1>20, <1>21, <1>22, Steps

LEMMA StepCount == Values /\ Places /\ LockHeld /\ Stages /\ DoneCount /\ [Next]_vars => DoneCount'
<1> SUFFICES ASSUME Values, Places, LockHeld, Stages, DoneCount, [Next]_vars
             PROVE  DoneCount'
  OBVIOUS
<1> USE DEF Stages, DoneCount, Values, Places, LockHeld, driver, threads, restarting,
            mac80211, ghosts, Threads, OpStages, TimerStages, Sending, Starting, Stopping,
            Cancelling, Goto, At, Locked, ScanCompleted
<1>1. CASE Calls  BY <1>1 DEF Calls, CallScan, CallCancel, CallSchedStart, CallSchedStop, Call
<1>2. CASE ScanRefused \/ ScanAfterSched \/ CancelSync
  BY <1>2 DEF ScanRefused, ScanAfterSched, CancelSync
<1>3. CASE ScanStart
  <2>1. CASE done' = 0  BY <1>3, <2>1 DEF ScanStart
  <2>2. CASE done' = done /\ stale' = (stale \/ done > 0)
    <3>1. done = 0 \/ done > 0  OBVIOUS
    <3>2. done > 0 => stale'  BY <2>2, Zenon
    <3>3. state' = "RUNNING"  BY <1>3 DEF ScanStart
    <3> QED  BY <2>2, <3>1, <3>2, <3>3
  <2> QED  BY <1>3, <2>1, <2>2 DEF ScanStart
<1>4. CASE ScanStarted  BY <1>4 DEF ScanStarted
<1>5. CASE SchedRefused \/ SchedStart \/ SchedStarted
  BY <1>5 DEF SchedRefused, SchedStart, SchedStarted
<1>6. CASE SchedStop  BY <1>6 DEF SchedStop, StopReturn
<1>7. CASE SchedStopped \/ SchedGiveUp \/ SchedTell
  BY <1>7 DEF SchedStopped, SchedGiveUp, SchedTell
<1>8. CASE WaitDone("op", "schedWait", "tell")  BY <1>8 DEF WaitDone
<1>9. CASE WaitTimeout("op", "schedWait", "schedGiveUp")  BY <1>9 DEF WaitTimeout
<1>10. ASSUME NEW t \in Threads, CancelOf(t) PROVE DoneCount'
  <2>1. CASE CancelStop(t)  BY <2>1 DEF CancelStop
  <2>2. CASE CancelStopped(t)  BY <2>2 DEF CancelStopped
  <2>3. CASE WaitDone(t, "wait", "idle")  BY <2>3 DEF WaitDone
  <2>4. CASE WaitTimeout(t, "wait", "giveUp")  BY <2>4 DEF WaitTimeout
  <2>5. CASE CancelGiveUp(t)  BY <2>5 DEF CancelGiveUp
  <2> QED  BY <1>10, <2>1, <2>2, <2>3, <2>4, <2>5 DEF CancelOf
<1>11. CASE TimerFires  BY <1>11 DEF TimerFires
<1>12. CASE CommandTimeout  BY <1>12 DEF CommandTimeout
<1>13. CASE Receive  BY <1>13 DEF Receive
<1>14. CASE DoneEvent  BY <1>14 DEF DoneEvent
<1>15. CASE DoneSync  BY <1>15 DEF DoneSync
<1>16. CASE RestartLock \/ OpsStart  BY <1>16 DEF RestartLock, OpsStart
<1>17. CASE RestartFinishScans  BY <1>17 DEF RestartFinishScans
<1>18. CASE RestartSync \/ RestartReload  BY <1>18 DEF RestartSync, RestartReload
<1>19. CASE RestartFail  BY <1>19 DEF RestartFail
<1>20. CASE ChipTakes \/ ChipRefuses \/ ChipLoses
  BY <1>20 DEF ChipTakes, ChipRefuses, ChipLoses
<1>21. CASE ChipDone  BY <1>21 DEF ChipDone
<1>22. CASE UNCHANGED vars  BY <1>22 DEF vars
<1> QED
  BY <1>1, <1>2, <1>3, <1>4, <1>5, <1>6, <1>7, <1>8, <1>9, <1>10, <1>11, <1>12, <1>13, <1>14,
     <1>15, <1>16, <1>17, <1>18, <1>19, <1>20, <1>21, <1>22, Steps

LEMMA StepTiming ==
  Values /\ Places /\ LockHeld /\ Answers /\ Stages /\ Timing /\ [Next]_vars => Timing'
<1> SUFFICES ASSUME Values, Places, LockHeld, Answers, Stages, Timing, [Next]_vars
             PROVE  Timing'
  OBVIOUS
<1> USE DEF Stages, Answers, Timing, receive, command, Send, NoCommand, Values, Places,
            LockHeld, driver, threads, restarting, mac80211, ghosts, Threads, OpStages,
            TimerStages, Sending, Starting, Stopping, Cancelling, Goto, At, Locked,
            ScanCompleted
<1>1. CASE Calls  BY <1>1 DEF Calls, CallScan, CallCancel, CallSchedStart, CallSchedStop, Call
<1>2. CASE ScanRefused \/ ScanAfterSched \/ CancelSync
  BY <1>2 DEF ScanRefused, ScanAfterSched, CancelSync
<1>3. CASE ScanStart  BY <1>3 DEF ScanStart
<1>4. CASE ScanStarted  BY <1>4 DEF ScanStarted
<1>5. CASE SchedRefused \/ SchedStart \/ SchedStarted
  BY <1>5 DEF SchedRefused, SchedStart, SchedStarted
<1>6. CASE SchedStop  BY <1>6 DEF SchedStop, StopReturn
<1>7. CASE SchedStopped \/ SchedGiveUp \/ SchedTell
  BY <1>7 DEF SchedStopped, SchedGiveUp, SchedTell
<1>8. CASE WaitDone("op", "schedWait", "tell")  BY <1>8 DEF WaitDone
<1>9. CASE WaitTimeout("op", "schedWait", "schedGiveUp")  BY <1>9 DEF WaitTimeout
<1>10. ASSUME NEW t \in Threads, CancelOf(t) PROVE Timing'
  <2>1. CASE CancelStop(t)  BY <2>1 DEF CancelStop
  <2>2. CASE CancelStopped(t)  BY <2>2 DEF CancelStopped
  <2>3. CASE WaitDone(t, "wait", "idle")  BY <2>3 DEF WaitDone
  <2>4. CASE WaitTimeout(t, "wait", "giveUp")  BY <2>4 DEF WaitTimeout
  <2>5. CASE CancelGiveUp(t)  BY <2>5 DEF CancelGiveUp
  <2> QED  BY <1>10, <2>1, <2>2, <2>3, <2>4, <2>5 DEF CancelOf
<1>11. CASE TimerFires  BY <1>11 DEF TimerFires
<1>12. CASE CommandTimeout  BY <1>12 DEF CommandTimeout
<1>13. CASE Receive  BY <1>13 DEF Receive
<1>14. CASE DoneEvent  BY <1>14, Taken DEF DoneEvent, Listed
<1>15. CASE DoneSync  BY <1>15 DEF DoneSync
<1>16. CASE RestartLock \/ OpsStart  BY <1>16 DEF RestartLock, OpsStart
<1>17. CASE RestartFinishScans  BY <1>17 DEF RestartFinishScans
<1>18. CASE RestartSync \/ RestartReload  BY <1>18 DEF RestartSync, RestartReload
<1>19. CASE RestartFail  BY <1>19 DEF RestartFail
<1>20. CASE ChipTakes \/ ChipRefuses \/ ChipLoses
  BY <1>20 DEF ChipTakes, ChipRefuses, ChipLoses
<1>21. CASE ChipDone  BY <1>21 DEF ChipDone
<1>22. CASE UNCHANGED vars  BY <1>22 DEF vars
<1> QED
  BY <1>1, <1>2, <1>3, <1>4, <1>5, <1>6, <1>7, <1>8, <1>9, <1>10, <1>11, <1>12, <1>13, <1>14,
     <1>15, <1>16, <1>17, <1>18, <1>19, <1>20, <1>21, <1>22, Steps

-----------------------------------------------------------------------------
(* What ends a scan, and what mac80211 waits for.                          *)

Goes ==
    /\ state = "RUNNING" /\ ~Starting => armed # 0 \/ pc["timer"] = "cancel" \/ pc["op"] = "cancel"
    /\ state = "ABORTING" => stale \/ pc["op"] \in Cancelling \/ pc["timer"] \in Cancelling
    /\ scanReq => pc["op"] \in {"scan", "rescan"} \/ forScan \/ state \in {"RUNNING", "ABORTING"}

LEMMA InitGoes == Init => Goes
BY DEF Init, Goes

LEMMA StepGoes ==
  Values /\ Truths /\ Places /\ LockHeld /\ Stages /\ DoneCount /\ Timing /\ Goes
  /\ [Next]_vars => Goes'
<1> SUFFICES ASSUME Values, Truths, Places, LockHeld, Stages, DoneCount, Timing, Goes,
                    [Next]_vars
             PROVE  Goes'
  OBVIOUS
<1> USE DEF Stages, Timing, Goes, Values, Places, LockHeld, driver, threads, restarting,
            mac80211, ghosts, Threads, OpStages, TimerStages, Sending, Starting, Stopping,
            Cancelling, Goto, At, Locked, ScanCompleted
<1>1. CASE Calls  BY <1>1 DEF Calls, CallScan, CallCancel, CallSchedStart, CallSchedStop, Call
<1>2. CASE ScanRefused \/ ScanAfterSched \/ CancelSync
  BY <1>2 DEF ScanRefused, ScanAfterSched, CancelSync
<1>3. CASE ScanStart  BY <1>3 DEF ScanStart
<1>4. CASE ScanStarted  BY <1>4 DEF ScanStarted
<1>5. CASE SchedRefused \/ SchedStart \/ SchedStarted
  BY <1>5 DEF SchedRefused, SchedStart, SchedStarted
<1>6. CASE SchedStop  BY <1>6 DEF SchedStop, StopReturn
<1>7. CASE SchedStopped \/ SchedGiveUp \/ SchedTell
  BY <1>7 DEF SchedStopped, SchedGiveUp, SchedTell
<1>8. CASE WaitDone("op", "schedWait", "tell")  BY <1>8 DEF WaitDone, DoneCount
<1>9. CASE WaitTimeout("op", "schedWait", "schedGiveUp")  BY <1>9 DEF WaitTimeout
<1>10. ASSUME NEW t \in Threads, CancelOf(t) PROVE Goes'
  <2>1. CASE CancelStop(t)  BY <2>1 DEF CancelStop
  <2>2. CASE CancelStopped(t)  BY <2>2 DEF CancelStopped
  <2>3. CASE WaitDone(t, "wait", "idle")  BY <2>3 DEF WaitDone, DoneCount
  <2>4. CASE WaitTimeout(t, "wait", "giveUp")  BY <2>4 DEF WaitTimeout
  <2>5. CASE CancelGiveUp(t)  BY <2>5 DEF CancelGiveUp
  <2> QED  BY <1>10, <2>1, <2>2, <2>3, <2>4, <2>5 DEF CancelOf
<1>11. CASE TimerFires  BY <1>11 DEF TimerFires
<1>12. CASE CommandTimeout  BY <1>12 DEF CommandTimeout
<1>13. CASE Receive  BY <1>13 DEF Receive
<1>14. CASE DoneEvent  BY <1>14 DEF DoneEvent
<1>15. CASE DoneSync  BY <1>15 DEF DoneSync
<1>16. CASE RestartLock \/ OpsStart  BY <1>16 DEF RestartLock, OpsStart
<1>17. CASE RestartFinishScans  BY <1>17 DEF RestartFinishScans
<1>18. CASE RestartSync \/ RestartReload  BY <1>18 DEF RestartSync, RestartReload
<1>19. CASE RestartFail  BY <1>19 DEF RestartFail
<1>20. CASE ChipTakes \/ ChipRefuses \/ ChipLoses
  BY <1>20 DEF ChipTakes, ChipRefuses, ChipLoses
<1>21. CASE ChipDone  BY <1>21 DEF ChipDone
<1>22. CASE UNCHANGED vars  BY <1>22 DEF vars
<1> QED
  BY <1>1, <1>2, <1>3, <1>4, <1>5, <1>6, <1>7, <1>8, <1>9, <1>10, <1>11, <1>12, <1>13, <1>14,
     <1>15, <1>16, <1>17, <1>18, <1>19, <1>20, <1>21, <1>22, Steps

-----------------------------------------------------------------------------
(* The done event of a scan.                                               *)

\* Done events that are on their way are of the scan the driver is at: the chip
\* answers the command that starts it after those of the scans before.
Fresh == chipScan \in {0, scans} /\ Dones(rx, scans)
Matching ==
    /\ ~mixedUp
    /\ state # "IDLE" /\ ~Starting => Fresh
    /\ Starting /\ reply = "ok" => Fresh
    /\ Starting /\ Has(rx, "ok") => chipScan \in {0, scans}
    /\ Starting => OkBefore(rx, scans)

LEMMA InitMatching == Init => Matching
BY DEF Init, Matching, Starting, Threads

LEMMA NoneBefore ==
  ASSUME NEW r
  PROVE  /\ NoAnswer(r) => ~Has(r, "ok") /\ ~Has(r, "error")
         /\ ~Has(r, "ok") => \A n : OkBefore(r, n)
BY DEF NoAnswer, Has, OkBefore, IsDone

LEMMA StepMatching ==
  Values /\ Places /\ Listed /\ LockHeld /\ Answers /\ Stages /\ Matching /\ [Next]_vars => Matching'
<1> SUFFICES ASSUME Values, Places, Listed, LockHeld, Answers, Stages, Matching, [Next]_vars
             PROVE  Matching'
  OBVIOUS
<1> USE DEF Listed, Answers, Matching, Fresh, receive, command, Send, NoCommand, Values,
            Places, LockHeld, driver, threads, restarting, mac80211, ghosts, Threads,
            OpStages, TimerStages, Sending, Starting, Stopping, Cancelling, Goto, At, Locked,
            ScanCompleted
<1>1. CASE Calls  BY <1>1 DEF Calls, CallScan, CallCancel, CallSchedStart, CallSchedStop, Call
<1>2. CASE ScanRefused \/ ScanAfterSched \/ CancelSync
  BY <1>2 DEF ScanRefused, ScanAfterSched, CancelSync
<1>3. CASE ScanStart  BY <1>3, NoneBefore DEF ScanStart
<1>4. CASE ScanStarted  BY <1>4 DEF ScanStarted
<1>5. CASE SchedRefused \/ SchedStart \/ SchedStarted
  BY <1>5, NoneBefore DEF SchedRefused, SchedStart, SchedStarted
<1>6. CASE SchedStop  BY <1>6 DEF SchedStop, StopReturn
<1>7. CASE SchedStopped \/ SchedGiveUp \/ SchedTell
  BY <1>7 DEF SchedStopped, SchedGiveUp, SchedTell
<1>8. CASE WaitDone("op", "schedWait", "tell")  BY <1>8 DEF WaitDone
<1>9. CASE WaitTimeout("op", "schedWait", "schedGiveUp")  BY <1>9 DEF WaitTimeout
<1>10. ASSUME NEW t \in Threads, CancelOf(t) PROVE Matching'
  <2>1. CASE CancelStop(t)  BY <2>1 DEF CancelStop
  <2>2. CASE CancelStopped(t)  BY <2>2 DEF CancelStopped
  <2>3. CASE WaitDone(t, "wait", "idle")  BY <2>3 DEF WaitDone
  <2>4. CASE WaitTimeout(t, "wait", "giveUp")  BY <2>4 DEF WaitTimeout
  <2>5. CASE CancelGiveUp(t)  BY <2>5 DEF CancelGiveUp
  <2> QED  BY <1>10, <2>1, <2>2, <2>3, <2>4, <2>5 DEF CancelOf
<1>11. CASE TimerFires  BY <1>11 DEF TimerFires
<1>12. CASE CommandTimeout  BY <1>12, TimeoutRx, NoneBefore DEF CommandTimeout
<1>13. CASE Receive  BY <1>13, Taken DEF Receive
<1>14. CASE DoneEvent  BY <1>14, Taken DEF DoneEvent
<1>15. CASE DoneSync  BY <1>15 DEF DoneSync
<1>16. CASE RestartLock \/ OpsStart  BY <1>16 DEF RestartLock, OpsStart
<1>17. CASE RestartFinishScans  BY <1>17 DEF RestartFinishScans
<1>18. CASE RestartSync \/ RestartReload  BY <1>18 DEF RestartSync, RestartReload
<1>19. CASE RestartFail  BY <1>19 DEF RestartFail
<1>20. CASE ChipTakes \/ ChipRefuses \/ ChipLoses
  <2>1. NoAnswer(rx) /\ reply = "none" /\ (Start(cmd) <=> Starting) /\ ~Has(rx, "ok")
    BY <1>20, NoneBefore DEF ChipTakes, ChipRefuses, ChipLoses
  <2>2. \A a \in {"ok", "error"} : Answer(a) \in Messages /\ ~IsDone(Answer(a)) /\ Answer(a).what = a
    BY MessageType
  <2>3. ASSUME NEW a \in {"ok", "error"}, rx' = Append(rx, Answer(a))
        PROVE  /\ \A n : Dones(rx, n) => Dones(rx', n)
               /\ \A n : OkBefore(rx', n)
               /\ Has(rx', "ok") => a = "ok"
    BY <2>1, <2>2, <2>3, Added, NoneBefore
  <2>4. CASE ChipTakes
    <3> DEFINE a == IF Start(cmd) /\ chipScan # 0 THEN "error" ELSE "ok"
    <3>1. a \in {"ok", "error"} /\ rx' = Append(rx, Answer(a))  BY <2>4 DEF ChipTakes
    <3>2. a = "ok" /\ Starting => chipScan' = scans  BY <2>1, <2>4 DEF ChipTakes
    <3>3. ~Starting => chipScan' = chipScan  BY <2>1, <2>4 DEF ChipTakes
    <3>4. UNCHANGED <<state, pc, reply, scans, mixedUp>>  BY <2>4 DEF ChipTakes
    <3> HIDE DEF a
    <3> QED  BY <2>1, <2>3, <3>1, <3>2, <3>3, <3>4
  <2>5. CASE ChipRefuses
    <3>1. rx' = Append(rx, Answer("error")) /\ UNCHANGED <<state, pc, reply, scans, mixedUp, chipScan>>
      BY <2>5 DEF ChipRefuses
    <3> QED  BY <2>1, <2>3, <3>1
  <2>6. CASE ChipLoses
    <3>1. UNCHANGED <<rx, state, pc, reply, scans, mixedUp>>  BY <2>6 DEF ChipLoses
    <3>2. ~Starting => chipScan' = chipScan  BY <2>1, <2>6 DEF ChipLoses
    <3> QED  BY <2>1, <3>1, <3>2
  <2> QED  BY <1>20, <2>4, <2>5, <2>6
<1>21. CASE ChipDone
  <2>1. Done(chipScan) \in Messages /\ IsDone(Done(chipScan)) /\ Done(chipScan).scan = chipScan
        /\ Done(chipScan).what # "ok"
    BY MessageType DEF IsDone
  <2>2. ASSUME rx' = Append(rx, Done(chipScan))
        PROVE  /\ chipScan = scans /\ Dones(rx, scans) => Dones(rx', scans)
               /\ chipScan = scans /\ OkBefore(rx, scans) => OkBefore(rx', scans)
               /\ Has(rx', "ok") <=> Has(rx, "ok")
               /\ ~Has(rx', "ok") => OkBefore(rx', scans)
    BY <2>1, <2>2, Added, NoneBefore
  <2>3. /\ UNCHANGED <<state, pc, reply, scans, mixedUp>> /\ chipScan # 0 /\ chipScan' = 0
        /\ rx' = rx \/ rx' = Append(rx, Done(chipScan))
    BY <1>21 DEF ChipDone
  <2> QED  BY <2>2, <2>3
<1>22. CASE UNCHANGED vars  BY <1>22 DEF vars
<1> QED
  BY <1>1, <1>2, <1>3, <1>4, <1>5, <1>6, <1>7, <1>8, <1>9, <1>10, <1>11, <1>12, <1>13, <1>14,
     <1>15, <1>16, <1>17, <1>18, <1>19, <1>20, <1>21, <1>22, Steps

-----------------------------------------------------------------------------
(* One end of each scan, while nothing is lost.                            *)

Clean == faults = 0 /\ restarts = 0 /\ ~starved
Comes == chipScan # 0 \/ HasDone(rx)

\* Without faults a scan ends with its done event, for which cancel_hw_scan()
\* waits; the timeout comes only after the event.
OnceEach ==
    /\ ~spurious
    /\ state \in {"RUNNING", "ABORTING"} => scanReq
    /\ pc["op"] \in {"scan", "rescan"} \/ forScan => scanReq /\ state \notin {"RUNNING", "ABORTING"}
    /\ pc["timer"] \in {"idle", "cancel"} /\ pc["op"] # "giveUp"
    /\ pc["timer"] = "cancel" => rxSync
    /\ state \in {"RUNNING", "ABORTING"} /\ ~Starting => Comes
    /\ Starting /\ (reply = "ok" \/ Has(rx, "ok")) => Comes
    /\ lock \in Threads /\ reply = "none" => cmd # "none" \/ ~NoAnswer(rx)
    /\ pc["op"] = "stopping" => reply # "error" /\ ~Has(rx, "error")
    /\ pc["op"] = "wait" => state = "ABORTING" \/ done > 0
CleanRun == Clean => OnceEach

LEMMA InitClean == Init => CleanRun
BY EmptyList DEF Init, CleanRun, OnceEach, Starting, Threads

LEMMA ComingIs ==
  ASSUME Listed
  PROVE  /\ Coming <=> Comes
         /\ rx = <<>> => NoAnswer(rx)
<1>1. DOMAIN rx = 1 .. Len(rx)  BY LenProperties DEF Listed
<1> QED  BY <1>1, EmptyList DEF Coming, Comes, HasDone

LEMMA CleanBefore == Values /\ [Next]_vars /\ Clean' => Clean
<1> SUFFICES ASSUME Values, [Next]_vars
             PROVE  /\ faults' \in Nat /\ faults' >= faults
                    /\ restarts' \in Nat /\ restarts' >= restarts
                    /\ starved => starved'
  BY DEF Clean, Values
<1> USE DEF Values, restarting, ghosts, Fault, Call
<1>1. CASE Calls  BY <1>1 DEF Calls, CallScan, CallCancel, CallSchedStart, CallSchedStop, Call
<1>2. CASE ScanRefused \/ ScanAfterSched \/ CancelSync
  BY <1>2 DEF ScanRefused, ScanAfterSched, CancelSync
<1>3. CASE ScanStart  BY <1>3 DEF ScanStart
<1>4. CASE ScanStarted  BY <1>4 DEF ScanStarted
<1>5. CASE SchedRefused \/ SchedStart \/ SchedStarted
  BY <1>5 DEF SchedRefused, SchedStart, SchedStarted
<1>6. CASE SchedStop  BY <1>6 DEF SchedStop, StopReturn
<1>7. CASE SchedStopped \/ SchedGiveUp \/ SchedTell
  BY <1>7 DEF SchedStopped, SchedGiveUp, SchedTell
<1>8. CASE WaitDone("op", "schedWait", "tell")  BY <1>8 DEF WaitDone
<1>9. CASE WaitTimeout("op", "schedWait", "schedGiveUp")  BY <1>9 DEF WaitTimeout
<1>10. ASSUME NEW t \in Threads, CancelOf(t) 
      PROVE  /\ faults' \in Nat /\ faults' >= faults
             /\ restarts' \in Nat /\ restarts' >= restarts
             /\ starved => starved'
  <2>1. CASE CancelStop(t)  BY <2>1 DEF CancelStop
  <2>2. CASE CancelStopped(t)  BY <2>2 DEF CancelStopped
  <2>3. CASE WaitDone(t, "wait", "idle")  BY <2>3 DEF WaitDone
  <2>4. CASE WaitTimeout(t, "wait", "giveUp")  BY <2>4 DEF WaitTimeout
  <2>5. CASE CancelGiveUp(t)  BY <2>5 DEF CancelGiveUp
  <2> QED  BY <1>10, <2>1, <2>2, <2>3, <2>4, <2>5 DEF CancelOf
<1>11. CASE TimerFires  BY <1>11 DEF TimerFires
<1>12. CASE CommandTimeout  BY <1>12 DEF CommandTimeout
<1>13. CASE Receive  BY <1>13 DEF Receive
<1>14. CASE DoneEvent  BY <1>14 DEF DoneEvent
<1>15. CASE DoneSync  BY <1>15 DEF DoneSync
<1>16. CASE RestartLock \/ OpsStart  BY <1>16 DEF RestartLock, OpsStart
<1>17. CASE RestartFinishScans  BY <1>17 DEF RestartFinishScans
<1>18. CASE RestartSync \/ RestartReload  BY <1>18 DEF RestartSync, RestartReload
<1>19. CASE RestartFail  BY <1>19 DEF RestartFail
<1>20. CASE ChipTakes \/ ChipRefuses \/ ChipLoses
  BY <1>20 DEF ChipTakes, ChipRefuses, ChipLoses
<1>21. CASE ChipDone  BY <1>21 DEF ChipDone
<1>22. CASE UNCHANGED vars  BY <1>22 DEF vars
<1> QED
  BY <1>1, <1>2, <1>3, <1>4, <1>5, <1>6, <1>7, <1>8, <1>9, <1>10, <1>11, <1>12, <1>13, <1>14,
     <1>15, <1>16, <1>17, <1>18, <1>19, <1>20, <1>21, <1>22, Steps
LEMMA StepClean ==
  Values /\ Places /\ Listed /\ LockHeld /\ Answers /\ Stages /\ DoneCount /\ Timing
  /\ Matching /\ CleanRun /\ [Next]_vars => CleanRun'
<1> SUFFICES ASSUME Values, Places, Listed, LockHeld, Answers, Stages, DoneCount, Timing,
                    Matching, CleanRun, [Next]_vars,
                    Clean, Clean', OnceEach
             PROVE  OnceEach'
  BY CleanBefore DEF CleanRun
<1> USE DEF OnceEach, Comes, Listed, Answers, Timing, receive, command, Send, NoCommand,
            Fault, Clean, Values, Places, LockHeld, driver, threads, restarting, mac80211,
            ghosts, Threads, OpStages, TimerStages, Sending, Starting, Stopping, Cancelling,
            Goto, At, Locked, ScanCompleted
<1>1. CASE Calls  BY <1>1 DEF Calls, CallScan, CallCancel, CallSchedStart, CallSchedStop, Call
<1>2. CASE ScanRefused \/ ScanAfterSched \/ CancelSync
  BY <1>2 DEF ScanRefused, ScanAfterSched, CancelSync
<1>3. CASE ScanStart  BY <1>3, NoneBefore DEF ScanStart
<1>4. CASE ScanStarted  BY <1>4 DEF ScanStarted
<1>5. CASE SchedRefused \/ SchedStart \/ SchedStarted
  BY <1>5, NoneBefore DEF SchedRefused, SchedStart, SchedStarted
<1>6. CASE SchedStop  BY <1>6 DEF SchedStop, StopReturn
<1>7. CASE SchedStopped \/ SchedGiveUp \/ SchedTell
  BY <1>7 DEF SchedStopped, SchedGiveUp, SchedTell
<1>8. CASE WaitDone("op", "schedWait", "tell")  BY <1>8 DEF WaitDone
<1>9. CASE WaitTimeout("op", "schedWait", "schedGiveUp")  BY <1>9 DEF WaitTimeout
<1>10. ASSUME NEW t \in Threads, CancelOf(t)PROVE OnceEach'
  <2>1. CASE CancelStop(t)
    <3>1. CASE state = "RUNNING"
      <4>1. ~rxSync  BY <2>1, <3>1 DEF CancelStop
      <4>2. t = "op"  BY <2>1, <4>1 DEF CancelStop
      <4>3. NoAnswer(rx) => ~Has(rx, "error") /\ ~Has(rx, "ok")  BY NoneBefore
      <4> QED  BY <2>1, <3>1, <4>2, <4>3 DEF CancelStop
    <3>2. CASE state # "RUNNING"  BY <2>1, <3>2 DEF CancelStop
    <3> QED  BY <3>1, <3>2
  <2>2. CASE CancelStopped(t)
    <3>1. t = "op" /\ reply = "ok" /\ started /\ state = "ABORTING"
      BY <2>2 DEF CancelStopped, Stages
    <3> QED  BY <2>2, <3>1 DEF CancelStopped, Stages
  <2>3. CASE WaitDone(t, "wait", "idle")  BY <2>3 DEF WaitDone
  <2>4. CASE WaitTimeout(t, "wait", "giveUp")
    <3>1. t = "op" /\ state = "ABORTING" /\ ~rxSync /\ ~Starting  BY <2>4 DEF WaitTimeout
    <3>2. Coming  BY <3>1, ComingIs
    <3>3. faults' = faults + 1  BY <2>4, <3>1, <3>2 DEF WaitTimeout
    <3> QED  BY <3>3
  <2>5. CASE CancelGiveUp(t)  BY <2>5 DEF CancelGiveUp
  <2> QED  BY <1>10, <2>1, <2>2, <2>3, <2>4, <2>5 DEF CancelOf
<1>11. CASE TimerFires
  <2>1. ~Coming /\ armed # 0
    <3>1. faults' # faults + 1  OBVIOUS
    <3> QED  BY <1>11, <3>1 DEF TimerFires
  <2>2. ~Comes  BY <2>1, ComingIs
  <2>3. rxSync  BY <2>1, <2>2
  <2>4. /\ UNCHANGED <<state, spurious, scanReq, rxSync, forScan, cmd, reply, rx, lock, chipScan, done>>
        /\ pc' = [pc EXCEPT !["timer"] = "cancel"]
    BY <1>11 DEF TimerFires
  <2> QED  BY <2>3, <2>4
<1>12. CASE CommandTimeout
  <2>1. ~(cmd = "none" /\ rx = <<>>)  BY <1>12, ComingIs DEF CommandTimeout
  <2>2. restart # "failed"  OBVIOUS
  <2>3. starved' \/ faults' = faults + 1  BY <1>12, <2>1, <2>2 DEF CommandTimeout
  <2> QED  BY <2>3
<1>13. CASE Receive
  <2>1. /\ ~NoAnswer(rx) /\ NoAnswer(rx') /\ reply' \in {"ok", "error"}
        /\ Has(rx, reply') /\ ~Has(rx', "ok") /\ ~Has(rx', "error")
        /\ HasDone(rx) => HasDone(rx')
    <3>1. Head(rx) \in Messages /\ ~IsDone(Head(rx)) /\ rx # <<>> /\ rx' = Tail(rx)
          /\ reply' = Head(rx).what
      BY <1>13, Taken DEF Receive
    <3>2. reply' \in {"ok", "error"}  BY <3>1 DEF Messages, IsDone
    <3>3. ~NoAnswer(rx) /\ NoAnswer(rx') /\ Has(rx, reply') /\ (HasDone(rx) => HasDone(rx'))
      BY <3>1, Taken
    <3> QED  BY <3>2, <3>3, NoneBefore
  <2>2. UNCHANGED <<state, spurious, scanReq, rxSync, forScan, cmd, lock, chipScan, done, pc>>
    BY <1>13 DEF Receive
  <2> QED  BY <2>1, <2>2
<1>14. CASE DoneEvent
  <2>1. \A a : Has(rx', a) => Has(rx, a)  BY <1>14, Taken DEF DoneEvent
  <2>2. /\ lock = "none" /\ state' = "IDLE" /\ done' = done + 1 /\ rxSync'
        /\ UNCHANGED <<lock, pc, forScan, cmd, reply>>
        /\ state \notin {"RUNNING", "ABORTING"} => UNCHANGED <<scanReq, spurious>>
        /\ state \in {"RUNNING", "ABORTING"} => spurious' = (spurious \/ ~scanReq)
    BY <1>14 DEF DoneEvent
  <2>3. ~Starting  BY <2>2
  <2>4. ~spurious'  BY <2>2, <2>3
  <2>5. (pc["op"] \in {"scan", "rescan"} \/ forScan) => scanReq'  BY <2>2
  <2> QED  BY <2>1, <2>2, <2>3, <2>4, <2>5
<1>15. CASE DoneSync  BY <1>15 DEF DoneSync
<1>16. CASE RestartLock \/ OpsStart  BY <1>16 DEF RestartLock, OpsStart
<1>17. CASE RestartFinishScans  BY <1>17 DEF RestartFinishScans
<1>18. CASE RestartSync \/ RestartReload  BY <1>18 DEF RestartSync, RestartReload
<1>19. CASE RestartFail  BY <1>19 DEF RestartFail
<1>20. CASE ChipTakes \/ ChipRefuses \/ ChipLoses
  <2>1. ~ChipRefuses /\ ~ChipLoses  BY DEF ChipRefuses, ChipLoses
  <2>2. /\ NoAnswer(rx) /\ reply = "none" /\ (Start(cmd) <=> Starting) /\ cmd # "none"
    BY <1>20, <2>1 DEF ChipTakes
  <2> DEFINE a == IF Start(cmd) /\ chipScan # 0 THEN "error" ELSE "ok"
  <2>3. a \in {"ok", "error"} /\ rx' = Append(rx, Answer(a))  BY <1>20, <2>1 DEF ChipTakes
  <2>4. ~Starting => a = "ok"  BY <2>2
  <2>5. Starting => chipScan' # 0  BY <1>20, <2>1, <2>2 DEF ChipTakes, Stages
  <2>6. ~Starting => chipScan' = chipScan  BY <1>20, <2>1, <2>2 DEF ChipTakes
  <2>7. UNCHANGED <<state, spurious, scanReq, rxSync, forScan, reply, lock, done, pc>>
    BY <1>20, <2>1 DEF ChipTakes
  <2> HIDE DEF a
  <2>8. Answer(a) \in Messages /\ ~IsDone(Answer(a)) /\ Answer(a).what = a  BY <2>3, MessageType
  <2>9. /\ HasDone(rx) => HasDone(rx')
        /\ \A b : Has(rx', b) <=> Has(rx, b) \/ a = b
    BY <2>3, <2>8, Added
  <2>10. ~Has(rx, "error")  BY <2>2, NoneBefore
  <2>11. ~NoAnswer(rx')  BY <2>3, <2>9, NoneBefore
  <2> QED  BY <2>2, <2>4, <2>5, <2>6, <2>7, <2>9, <2>10, <2>11
<1>21. CASE ChipDone
  <2>1. rx' = Append(rx, Done(chipScan))
    <3>1. faults' # faults + 1  OBVIOUS
    <3> QED  BY <1>21, <3>1 DEF ChipDone
  <2>2. Done(chipScan) \in Messages /\ IsDone(Done(chipScan)) /\ Done(chipScan).what = "done"
    BY MessageType DEF IsDone
  <2>3. /\ HasDone(rx')
        /\ \A a : Has(rx', a) <=> Has(rx, a) \/ a = "done"
    BY <2>1, <2>2, Added
  <2>4. ~NoAnswer(rx) => ~NoAnswer(rx')
    <3>1. Listed'  BY <2>1, <2>2, Added
    <3>2. ~NoAnswer(rx) => Has(rx, "ok") \/ Has(rx, "error")
      <4> SUFFICES ASSUME NEW i \in 1 .. Len(rx), ~IsDone(rx[i])
                   PROVE  Has(rx, "ok") \/ Has(rx, "error")
        BY DEF NoAnswer
      <4>1. rx[i] \in Messages  BY ElementOfSeq
      <4>2. rx[i].what = "ok" \/ rx[i].what = "error"  BY <4>1 DEF Messages, IsDone
      <4> QED  BY <4>2 DEF Has
    <3> QED  BY <2>3, <3>2, NoneBefore
  <2>5. UNCHANGED <<state, spurious, scanReq, rxSync, forScan, cmd, reply, lock, done, pc>>
    BY <1>21 DEF ChipDone
  <2> QED  BY <2>3, <2>4, <2>5
<1>22. CASE UNCHANGED vars  BY <1>22 DEF vars
<1> QED
  BY <1>1, <1>2, <1>3, <1>4, <1>5, <1>6, <1>7, <1>8, <1>9, <1>10, <1>11, <1>12, <1>13, <1>14,
     <1>15, <1>16, <1>17, <1>18, <1>19, <1>20, <1>21, <1>22, Steps

-----------------------------------------------------------------------------
(* The inductive invariant, and what follows from it.                      *)

IInv ==
    /\ TypeOK /\ LockHeld /\ Answers /\ Stages /\ DoneCount /\ Timing /\ Goes
    /\ Matching /\ CleanRun

LEMMA InitIInv == Init => IInv
BY InitType, InitLock, InitAnswers, InitStages, InitGoes, InitMatching, InitClean DEF IInv

LEMMA StepIInv == IInv /\ [Next]_vars => IInv'
<1> SUFFICES ASSUME IInv, [Next]_vars PROVE IInv'  OBVIOUS
<1>1. /\ Values /\ Truths /\ Places /\ Listed /\ LockHeld /\ Answers /\ Stages /\ DoneCount
      /\ Timing /\ Goes /\ Matching /\ CleanRun
  BY TypeParts DEF IInv
<1>2. TypeOK'  BY StepType DEF IInv
<1>3. LockHeld' /\ Answers' /\ Stages'  BY <1>1, StepLock, StepAnswers, StepStages
<1>4. DoneCount' /\ Timing' /\ Goes'  BY <1>1, StepCount, StepTiming, StepGoes
<1>5. Matching' /\ CleanRun'  BY <1>1, StepMatching, StepClean
<1> QED  BY <1>2, <1>3, <1>4, <1>5 DEF IInv

\* The done event of a scan never ends another one, although it carries no
\* number: hw_scan.c holds the lock from the command to its answer.
THEOREM EventMatches == Spec => []EventOfItsScan
<1>1. IInv => EventOfItsScan  BY DEF IInv, Matching, EventOfItsScan
<1> QED  BY <1>1, InitIInv, StepIInv, PTL DEF Spec

\* When nothing is under way mac80211 and the driver agree on the scans there
\* are, whatever was lost, but for a scan that began with scan_done complete.
THEOREM AgreedAtRest == Spec => []AgreesAtRest
<1>1. IInv => AgreesAtRest
  <2> SUFFICES ASSUME IInv, Quiet
               PROVE  /\ stale \/ (~scanReq /\ state \in {"IDLE", "SCHED"})
                      /\ schedReq <=> state = "SCHED"
    BY DEF AgreesAtRest
  <2>1. pc["op"] = "idle" /\ pc["timer"] = "idle" /\ armed = 0
    BY DEF Quiet, Threads, At
  <2>2. /\ state \in {"IDLE", "RUNNING", "ABORTING", "SCHED", "SCHED_STOPPING"}
        /\ Stages /\ Goes /\ LockHeld
    BY DEF IInv, TypeOK
  <2>3. ~forScan /\ ~Starting /\ state # "SCHED_STOPPING" /\ state # "RUNNING"
    BY <2>1, <2>2 DEF LockHeld, Stages, Goes, Starting, Stopping
  <2>4. state = "ABORTING" => stale  BY <2>1, <2>2 DEF Goes, Cancelling
  <2>5. scanReq => state = "ABORTING"  BY <2>1, <2>2, <2>3 DEF Goes
  <2>6. schedReq <=> state = "SCHED"  BY <2>1, <2>2 DEF Stages, Stopping
  <2> QED  BY <2>2, <2>3, <2>4, <2>5, <2>6
<1> QED  BY <1>1, InitIInv, StepIInv, PTL DEF Spec

\* mac80211 is told once of the end of a scan, unless something was lost or
\* late, the chip restarted, or a command starved behind the done event.
THEOREM ToldOnce == Spec => []CompletedOnce
<1>1. IInv => CompletedOnce
  BY DEF IInv, TypeOK, CleanRun, Clean, OnceEach, CompletedOnce
<1> QED  BY <1>1, InitIInv, StepIInv, PTL DEF Spec

\* The timeout work of a scan never aborts a later one: cancel_hw_scan() finds
\* its own scan running, or none.
THEOREM TimeoutMatches == Spec => TimeoutOfItsScan
<1> DEFINE Own == (state' = "ABORTING" /\ lock' = "timer") => fired = scans \/ lock = "timer"
<1>1. IInv /\ [Next]_vars => [Own]_vars
  <2> SUFFICES ASSUME IInv, [Next]_vars, state' = "ABORTING", lock' = "timer", lock # "timer",
                      ~(UNCHANGED vars)
               PROVE  fired = scans
    OBVIOUS
  <2>1. /\ Values /\ Places /\ LockHeld /\ Stages /\ Timing  BY TypeParts DEF IInv
  <2>2. CancelStop("timer")
    <3> USE DEF Values, Places, driver, threads, restarting, Threads, Goto, At, Locked
    <3>1. CASE Calls  BY <3>1 DEF Calls, CallScan, CallCancel, CallSchedStart, CallSchedStop, Call
    <3>2. CASE ScanRefused \/ ScanAfterSched \/ CancelSync
      BY <3>2 DEF ScanRefused, ScanAfterSched, CancelSync
    <3>3. CASE ScanStart  BY <3>3 DEF ScanStart
    <3>4. CASE ScanStarted  BY <3>4 DEF ScanStarted
    <3>5. CASE SchedRefused \/ SchedStart \/ SchedStarted
      BY <3>5 DEF SchedRefused, SchedStart, SchedStarted
    <3>6. CASE SchedStop  BY <3>6 DEF SchedStop, StopReturn
    <3>7. CASE SchedStopped \/ SchedGiveUp \/ SchedTell
      BY <3>7 DEF SchedStopped, SchedGiveUp, SchedTell
    <3>8. CASE WaitDone("op", "schedWait", "tell")  BY <3>8 DEF WaitDone
    <3>9. CASE WaitTimeout("op", "schedWait", "schedGiveUp")  BY <3>9 DEF WaitTimeout
    <3>10. ASSUME NEW t \in Threads, CancelOf(t), ~CancelStop("timer") PROVE FALSE
      <4>1. CASE CancelStop(t)  BY <3>10, <4>1 DEF CancelStop
      <4>2. CASE CancelStopped(t)  BY <4>2 DEF CancelStopped
      <4>3. CASE WaitDone(t, "wait", "idle")  BY <4>3 DEF WaitDone
      <4>4. CASE WaitTimeout(t, "wait", "giveUp")  BY <4>4 DEF WaitTimeout
      <4>5. CASE CancelGiveUp(t)  BY <4>5 DEF CancelGiveUp
      <4> QED  BY <3>10, <4>1, <4>2, <4>3, <4>4, <4>5 DEF CancelOf
    <3>11. CASE TimerFires  BY <3>11 DEF TimerFires
    <3>12. CASE CommandTimeout  BY <3>12 DEF CommandTimeout
    <3>13. CASE Receive  BY <3>13 DEF Receive
    <3>14. CASE DoneEvent  BY <3>14 DEF DoneEvent
    <3>15. CASE DoneSync  BY <3>15 DEF DoneSync
    <3>16. CASE RestartLock \/ OpsStart  BY <3>16 DEF RestartLock, OpsStart
    <3>17. CASE RestartFinishScans  BY <3>17 DEF RestartFinishScans
    <3>18. CASE RestartSync \/ RestartReload  BY <3>18 DEF RestartSync, RestartReload
    <3>19. CASE RestartFail  BY <3>19 DEF RestartFail
    <3>20. CASE ChipTakes \/ ChipRefuses \/ ChipLoses
      BY <3>20 DEF ChipTakes, ChipRefuses, ChipLoses
    <3>21. CASE ChipDone  BY <3>21 DEF ChipDone
    <3>22. CASE UNCHANGED vars  BY <3>22 DEF vars
    <3> QED
      BY <3>1, <3>2, <3>3, <3>4, <3>5, <3>6, <3>7, <3>8, <3>9, <3>10, <3>11, <3>12, <3>13, <3>14,
         <3>15, <3>16, <3>17, <3>18, <3>19, <3>20, <3>21, <3>22, Steps
  <2>3. pc["timer"] = "cancel" /\ lock = "none" /\ state = "RUNNING"
    BY <2>2 DEF CancelStop, Locked, At
  <2>4. ~Starting /\ restart # "sync"  BY <2>1, <2>3 DEF LockHeld, Starting, Sending
  <2> QED  BY <2>1, <2>3, <2>4 DEF Timing
<1>2. Spec => []IInv  BY InitIInv, StepIInv, PTL DEF Spec
<1> QED  BY <1>1, <1>2, PTL DEF Spec, TimeoutOfItsScan

=============================================================================
