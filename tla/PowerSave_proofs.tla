-------------------------- MODULE PowerSave_proofs --------------------------
(***************************************************************************)
(* Theorems about PowerSave, for every number of inputs and faults, with   *)
(* the dynamic power save on or off: the types, that the calls are paired, *)
(* and that nobody suspends the bus under a user.                          *)
(*                                                                         *)
(* IInv says what each thread owes (Net), and that a thread which is past  *)
(* the decision to sleep found no waker.  The lock keeps it so: a call     *)
(* that adds a waker needs it.  Every action is then a call that ends      *)
(* (Returned), a step within one (Moved), one that gets the lock           *)
(* (Entered), a routine that begins (Begun), or leaves all that alone.     *)
(***************************************************************************)
EXTENDS PowerSave, TLAPS

-----------------------------------------------------------------------------
(* The routines: what each call does to what a thread owes.                 *)

\* What a call adds to the wakers once it is over.
Delta(c) == IF c = "disable" THEN 1 ELSE IF c = "enable" THEN -1 ELSE 0
UserCalls == {"command", "service", "reload", "finish", "detach"}
PsCalls == {"disable", "enable", "evaluate", "wakeup"}

LEMMA Names ==
  DOMAIN Routine = {"idle", "command", "psOn", "psOff", "restart", "unregister", "chipIf",
                    "async", "evaluate"}
BY DEF Routine

LEMMA CallsOfIdle ==
  /\ Len(Routine["idle"]) = 1 /\ DOMAIN Routine["idle"] = 1 .. 1
  /\ Routine["idle"][1] = "none" /\ Owed["idle"][1] = 0
<1>1. Routine["idle"] = <<"none">>  BY DEF Routine
<1>2. Owed["idle"] = <<0>>  BY DEF Owed
<1> QED  BY <1>1, <1>2

LEMMA CallsOfCommand ==
  /\ Len(Routine["command"]) = 3 /\ DOMAIN Routine["command"] = 1 .. 3
  /\ Routine["command"][1] = "disable" /\ Owed["command"][1] = 0
  /\ Routine["command"][2] = "command" /\ Owed["command"][2] = 1
  /\ Routine["command"][3] = "enable" /\ Owed["command"][3] = 1
<1>1. Routine["command"] = <<"disable", "command", "enable">>  BY DEF Routine
<1>2. Owed["command"] = <<0, 1, 1>>  BY DEF Owed
<1> QED  BY <1>1, <1>2

LEMMA CallsOfPsOn ==
  /\ Len(Routine["psOn"]) = 4 /\ DOMAIN Routine["psOn"] = 1 .. 4
  /\ Routine["psOn"][1] = "disable" /\ Owed["psOn"][1] = 1
  /\ Routine["psOn"][2] = "command" /\ Owed["psOn"][2] = 2
  /\ Routine["psOn"][3] = "enable" /\ Owed["psOn"][3] = 2
  /\ Routine["psOn"][4] = "enable" /\ Owed["psOn"][4] = 1
<1>1. Routine["psOn"] = <<"disable", "command", "enable", "enable">>  BY DEF Routine
<1>2. Owed["psOn"] = <<1, 2, 2, 1>>  BY DEF Owed
<1> QED  BY <1>1, <1>2

LEMMA CallsOfPsOff ==
  /\ Len(Routine["psOff"]) = 4 /\ DOMAIN Routine["psOff"] = 1 .. 4
  /\ Routine["psOff"][1] = "disable" /\ Owed["psOff"][1] = -1
  /\ Routine["psOff"][2] = "disable" /\ Owed["psOff"][2] = 0
  /\ Routine["psOff"][3] = "command" /\ Owed["psOff"][3] = 1
  /\ Routine["psOff"][4] = "enable" /\ Owed["psOff"][4] = 1
<1>1. Routine["psOff"] = <<"disable", "disable", "command", "enable">>  BY DEF Routine
<1>2. Owed["psOff"] = <<-1, 0, 1, 1>>  BY DEF Owed
<1> QED  BY <1>1, <1>2

LEMMA CallsOfRestart ==
  /\ Len(Routine["restart"]) = 3 /\ DOMAIN Routine["restart"] = 1 .. 3
  /\ Routine["restart"][1] = "disable" /\ Owed["restart"][1] = 0
  /\ Routine["restart"][2] = "reload" /\ Owed["restart"][2] = 1
  /\ Routine["restart"][3] = "enable" /\ Owed["restart"][3] = 1
<1>1. Routine["restart"] = <<"disable", "reload", "enable">>  BY DEF Routine
<1>2. Owed["restart"] = <<0, 1, 1>>  BY DEF Owed
<1> QED  BY <1>1, <1>2

LEMMA CallsOfUnregister ==
  /\ Len(Routine["unregister"]) = 3 /\ DOMAIN Routine["unregister"] = 1 .. 3
  /\ Routine["unregister"][1] = "disable" /\ Owed["unregister"][1] = 0
  /\ Routine["unregister"][2] = "finish" /\ Owed["unregister"][2] = 1
  /\ Routine["unregister"][3] = "detach" /\ Owed["unregister"][3] = 1
<1>1. Routine["unregister"] = <<"disable", "finish", "detach">>  BY DEF Routine
<1>2. Owed["unregister"] = <<0, 1, 1>>  BY DEF Owed
<1> QED  BY <1>1, <1>2

LEMMA CallsOfChipIf ==
  /\ Len(Routine["chipIf"]) = 3 /\ DOMAIN Routine["chipIf"] = 1 .. 3
  /\ Routine["chipIf"][1] = "disable" /\ Owed["chipIf"][1] = 0
  /\ Routine["chipIf"][2] = "service" /\ Owed["chipIf"][2] = 1
  /\ Routine["chipIf"][3] = "enable" /\ Owed["chipIf"][3] = 1
<1>1. Routine["chipIf"] = <<"disable", "service", "enable">>  BY DEF Routine
<1>2. Owed["chipIf"] = <<0, 1, 1>>  BY DEF Owed
<1> QED  BY <1>1, <1>2

LEMMA CallsOfAsync ==
  /\ Len(Routine["async"]) = 1 /\ DOMAIN Routine["async"] = 1 .. 1
  /\ Routine["async"][1] = "wakeup" /\ Owed["async"][1] = 0
<1>1. Routine["async"] = <<"wakeup">>  BY DEF Routine
<1>2. Owed["async"] = <<0>>  BY DEF Owed
<1> QED  BY <1>1, <1>2

LEMMA CallsOfEvaluate ==
  /\ Len(Routine["evaluate"]) = 1 /\ DOMAIN Routine["evaluate"] = 1 .. 1
  /\ Routine["evaluate"][1] = "evaluate" /\ Owed["evaluate"][1] = 0
<1>1. Routine["evaluate"] = <<"evaluate">>  BY DEF Routine
<1>2. Owed["evaluate"] = <<0>>  BY DEF Owed
<1> QED  BY <1>1, <1>2

\* The call after one: what is owed there, and whether it uses the chip.
LEMMA NextLine ==
  ASSUME NEW r \in DOMAIN Routine, NEW l \in DOMAIN Routine[r], NEW q, NEW k,
         q = (IF l = Len(Routine[r]) THEN "idle" ELSE r),
         k = (IF l = Len(Routine[r]) THEN 1 ELSE l + 1)
  PROVE  /\ q \in DOMAIN Routine /\ k \in DOMAIN Routine[q] /\ q \in {r, "idle"} /\ k \in Nat
         /\ Routine[r][l] # "detach" => Owed[q][k] = Owed[r][l] + Delta(Routine[r][l])
         /\ Routine[q][k] \in UserCalls => Routine[r][l] \in {"disable", "finish"}
<1> USE Names
<1>1. CASE r = "idle"  BY <1>1, CallsOfIdle DEF Delta, UserCalls
<1>2. CASE r = "command"  BY <1>2, CallsOfCommand, CallsOfIdle DEF Delta, UserCalls
<1>3. CASE r = "psOn"  BY <1>3, CallsOfPsOn, CallsOfIdle DEF Delta, UserCalls
<1>4. CASE r = "psOff"  BY <1>4, CallsOfPsOff, CallsOfIdle DEF Delta, UserCalls
<1>5. CASE r = "restart"  BY <1>5, CallsOfRestart, CallsOfIdle DEF Delta, UserCalls
<1>6. CASE r = "unregister"  BY <1>6, CallsOfUnregister, CallsOfIdle DEF Delta, UserCalls
<1>7. CASE r = "chipIf"  BY <1>7, CallsOfChipIf, CallsOfIdle DEF Delta, UserCalls
<1>8. CASE r = "async"  BY <1>8, CallsOfAsync, CallsOfIdle DEF Delta, UserCalls
<1>9. CASE r = "evaluate"  BY <1>9, CallsOfEvaluate, CallsOfIdle DEF Delta, UserCalls
<1> QED  BY <1>1, <1>2, <1>3, <1>4, <1>5, <1>6, <1>7, <1>8, <1>9

\* What is owed before a call.
LEMMA OwedBefore ==
  ASSUME NEW r \in DOMAIN Routine, NEW l \in DOMAIN Routine[r]
  PROVE  /\ Owed[r][l] \in Int /\ l \in Nat
         /\ Owed[r][l] >= 0 \/ (r = "psOff" /\ Owed[r][l] = -1 /\ Routine[r][l] = "disable")
         /\ Routine[r][l] \in UserCalls \cup {"enable"} => Owed[r][l] >= 1
<1>1. CASE r = "idle"  BY <1>1, CallsOfIdle DEF UserCalls
<1>2. CASE r = "command"  BY <1>2, CallsOfCommand DEF UserCalls
<1>3. CASE r = "psOn"  BY <1>3, CallsOfPsOn DEF UserCalls
<1>4. CASE r = "psOff"  BY <1>4, CallsOfPsOff DEF UserCalls
<1>5. CASE r = "restart"  BY <1>5, CallsOfRestart DEF UserCalls
<1>6. CASE r = "unregister"  BY <1>6, CallsOfUnregister DEF UserCalls
<1>7. CASE r = "chipIf"  BY <1>7, CallsOfChipIf DEF UserCalls
<1>8. CASE r = "async"  BY <1>8, CallsOfAsync DEF UserCalls
<1>9. CASE r = "evaluate"  BY <1>9, CallsOfEvaluate DEF UserCalls
<1> QED  BY <1>1, <1>2, <1>3, <1>4, <1>5, <1>6, <1>7, <1>8, <1>9, Names

\* Where a routine starts.
LEMMA FirstLine ==
  ASSUME NEW r \in DOMAIN Routine
  PROVE  /\ 1 \in DOMAIN Routine[r] /\ Routine[r][1] \notin UserCalls
         /\ Owed[r][1] = IF r = "psOn" THEN 1 ELSE IF r = "psOff" THEN -1 ELSE 0
<1>1. CASE r = "idle"  BY <1>1, CallsOfIdle DEF UserCalls
<1>2. CASE r = "command"  BY <1>2, CallsOfCommand DEF UserCalls
<1>3. CASE r = "psOn"  BY <1>3, CallsOfPsOn DEF UserCalls
<1>4. CASE r = "psOff"  BY <1>4, CallsOfPsOff DEF UserCalls
<1>5. CASE r = "restart"  BY <1>5, CallsOfRestart DEF UserCalls
<1>6. CASE r = "unregister"  BY <1>6, CallsOfUnregister DEF UserCalls
<1>7. CASE r = "chipIf"  BY <1>7, CallsOfChipIf DEF UserCalls
<1>8. CASE r = "async"  BY <1>8, CallsOfAsync DEF UserCalls
<1>9. CASE r = "evaluate"  BY <1>9, CallsOfEvaluate DEF UserCalls
<1> QED  BY <1>1, <1>2, <1>3, <1>4, <1>5, <1>6, <1>7, <1>8, <1>9, Names

-----------------------------------------------------------------------------
(* The state power save and its users share, apart from the rest, which many *)
(* steps change alone.                                                      *)

core == <<wakers, suspended, enable, lock, routine, line, stage, configPs>>

CoreType ==
    /\ wakers \in Nat /\ suspended \in BOOLEAN /\ enable \in BOOLEAN /\ configPs \in BOOLEAN
    /\ lock \in Threads \cup {"none"}
    /\ routine \in [Threads -> DOMAIN Routine] /\ line \in [Threads -> Nat]
    /\ \A t \in Threads : line[t] \in DOMAIN Routine[routine[t]]
    /\ stage \in [Threads -> {"call", "answer", "cancel"} \cup InPs]

\* Who holds the lock, in which calls, and that a decision to sleep was made
\* with no waker left.
Held == \A t \in Threads : lock = t <=> stage[t] \in InPs
Staged(t) ==
    /\ stage[t] \in InPs => Call(t) \in PsCalls
    /\ stage[t] = "answer" => Call(t) = "command"
    /\ stage[t] = "cancel" => Call(t) = "finish"
    /\ stage[t] \in {"pin", "sleep"} => wakers = 0
\* Only config_ps leaves a call unpaired, and configPs says which.
Assigned(t) ==
    routine[t] \in {"psOn", "psOff"} => t = "mac" /\ configPs = (routine[t] = "psOn")

Core == CoreType /\ Held /\ \A t \in Threads : Staged(t) /\ Assigned(t)

Config == IF configPs THEN 0 ELSE 1
Paired == WakersPaired /\ UsedAwake /\ (~enable => ~suspended)

LEMMA OwesType ==
  ASSUME CoreType, NEW t \in Threads
  PROVE  Owes(t) \in Int /\ Config \in {0, 1}
<1>1. Owed[routine[t]][line[t]] \in Int  BY OwedBefore DEF CoreType
<1> QED  BY <1>1 DEF Owes, Config

\* What a thread owes, together with configPs for the one that changes it, is
\* not less than nothing, and at least one where it uses the chip or is about
\* to enable power save.
Net(t) == Owes(t) + IF t = "mac" THEN Config ELSE 0
LEMMA NetBound ==
  ASSUME Core, NEW t \in Threads
  PROVE  /\ Net(t) \in Int /\ Net(t) >= 0
         /\ Uses(t) \/ (Call(t) = "enable" /\ stage[t] \notin InPs) => Net(t) >= 1
         /\ Call(t) = "disable" /\ stage[t] \in InPs => Net(t) >= 1
<1> DEFINE o == Owed[routine[t]][line[t]]
<1>1. /\ o \in Int
      /\ o >= 0 \/ (routine[t] = "psOff" /\ o = -1 /\ Call(t) = "disable")
      /\ Call(t) \in UserCalls \cup {"enable"} => o >= 1
  BY OwedBefore DEF Core, CoreType, Call
<1>2. /\ Owes(t) \in Int /\ Config \in {0, 1}
  BY OwesType DEF Core
<1>3. Owes(t) = o + IF stage[t] \notin InPs THEN 0
                    ELSE IF Call(t) = "disable" THEN 1 ELSE IF Call(t) = "enable" THEN -1 ELSE 0
  BY DEF Owes
<1>4. routine[t] = "psOff" => t = "mac" /\ Config = 1
  BY DEF Core, Assigned, Config
<1>5. Uses(t) => Call(t) \in UserCalls  BY DEF Uses, UserCalls
<1> HIDE DEF o
<1>6. CASE routine[t] = "psOff"
  <2>1. Net(t) = Owes(t) + 1  BY <1>4, <1>6 DEF Net
  <2> QED  BY <1>1, <1>2, <1>3, <1>5, <2>1 DEF UserCalls
<1>7. CASE routine[t] # "psOff"
  <2>1. o >= 0  BY <1>1, <1>7
  <2>2. Net(t) \in Int /\ Net(t) >= Owes(t)  BY <1>2 DEF Net
  <2> QED  BY <1>1, <1>2, <1>3, <1>5, <2>1, <2>2 DEF UserCalls
<1> QED  BY <1>6, <1>7

Total == Net("mac") + Net("cmd") + Net("worker")
LEMMA TotalOwed == ASSUME CoreType PROVE WakersPaired <=> (enable => wakers = Total)
<1>1. Owes("mac") \in Int /\ Owes("cmd") \in Int /\ Owes("worker") \in Int /\ Config \in {0, 1}
  BY OwesType DEF Threads
<1> QED  BY <1>1 DEF WakersPaired, Total, Net, Config

\* With power save on, somebody who owes a call is a waker.
LEMMA SomeWaker ==
  ASSUME Core, WakersPaired, enable, NEW t \in Threads, Net(t) >= 1
  PROVE  wakers >= 1
<1>1. \A u \in Threads : Net(u) \in Int /\ Net(u) >= 0  BY NetBound
<1>2. wakers = Total  BY TotalOwed DEF Core
<1> QED  BY <1>1, <1>2 DEF Total, Threads

-----------------------------------------------------------------------------
(* The kinds of steps of a thread.                                          *)

Kept(t) ==
    \A u \in Threads \ {t} : routine'[u] = routine[u] /\ line'[u] = line[u] /\ stage'[u] = stage[u]

LEMMA OthersKept ==
  ASSUME NEW t \in Threads, Kept(t)
  PROVE  \A u \in Threads \ {t} : Call(u)' = Call(u) /\ Owes(u)' = Owes(u) /\ (Uses(u)' <=> Uses(u))
BY DEF Kept, Call, Owes, Uses

LEMMA KeepsPaired ==
  ASSUME CoreType, CoreType', WakersPaired, NEW t \in Threads, Kept(t), enable' => enable,
         t # "mac" => configPs' = configPs, Net(t)' - Net(t) = wakers' - wakers
  PROVE  WakersPaired'
<1>1. \A u \in Threads \ {t} : Net(u)' = Net(u)
  BY OthersKept DEF Net, Config
<1>2. \A u \in Threads : Net(u) \in Int /\ Net(u)' \in Int
  <2>1. \A u \in Threads : Owes(u) \in Int /\ Config \in {0, 1}  BY OwesType
  <2>2. \A u \in Threads : Owed[routine'[u]][line'[u]] \in Int  BY OwedBefore DEF CoreType
  <2>3. \A u \in Threads : Owes(u)' \in Int /\ Config' \in {0, 1}  BY <2>2 DEF Owes, Config
  <2> QED  BY <2>1, <2>3 DEF Net
<1>3. Total' - Total = Net(t)' - Net(t)
  BY <1>1, <1>2 DEF Total, Threads
<1>4. Total \in Int /\ Total' \in Int  BY <1>2 DEF Total, Threads
<1>5. enable => wakers = Total  BY TotalOwed
<1>6. WakersPaired' <=> (enable' => wakers' = Total')
  <2>1. Owes("mac")' \in Int /\ Owes("cmd")' \in Int /\ Owes("worker")' \in Int
    BY OwedBefore DEF CoreType, Owes, Threads
  <2> QED  BY <2>1 DEF WakersPaired, Total, Net, Config
<1>7. wakers \in Int /\ wakers' \in Int  BY DEF CoreType
<1> QED  BY <1>3, <1>4, <1>5, <1>6, <1>7

\* A call ends: the next one uses the chip only if power save was disabled
\* before it, and then the bus is not suspended.
LEMMA Returned ==
  ASSUME Core, Paired, NEW t \in Threads, Return(t), Call(t) # "detach",
         UNCHANGED <<wakers, enable, configPs>>, suspended' \in BOOLEAN,
         lock' = IF stage[t] \in InPs THEN "none" ELSE lock,
         ~enable \/ stage[t] \in InPs \/ Call(t) \notin {"disable", "enable"},
         suspended' => suspended \/ (enable /\ wakers = 0),
         Call(t) = "disable" => ~suspended'
  PROVE  Core' /\ Paired'
<1> DEFINE r == routine[t]
           l == line[t]
           q == IF l = Len(Routine[r]) THEN "idle" ELSE r
           k == IF l = Len(Routine[r]) THEN 1 ELSE l + 1
<1>1. /\ routine \in [Threads -> DOMAIN Routine] /\ line \in [Threads -> Nat]
      /\ stage \in [Threads -> {"call", "answer", "cancel"} \cup InPs]
      /\ r \in DOMAIN Routine /\ l \in DOMAIN Routine[r]
  BY DEF Core, CoreType
<1>2. /\ routine' = [routine EXCEPT ![t] = q] /\ line' = [line EXCEPT ![t] = k]
      /\ stage' = [stage EXCEPT ![t] = "call"]
  <2>1. routine = [routine EXCEPT ![t] = routine[t]]  BY <1>1
  <2> QED  BY <1>1, <2>1 DEF Return
<1>3. /\ q \in DOMAIN Routine /\ k \in DOMAIN Routine[q] /\ q \in {r, "idle"} /\ k \in Nat
      /\ Owed[q][k] = Owed[r][l] + Delta(Call(t))
      /\ Routine[q][k] \in UserCalls => Call(t) \in {"disable", "finish"}
  BY <1>1, NextLine DEF Call
<1> HIDE DEF q, k
<1>4. routine'[t] = q /\ line'[t] = k /\ stage'[t] = "call" /\ Kept(t)
  BY <1>1, <1>2 DEF Kept
<1>5. CoreType'
  <2>1. routine' \in [Threads -> DOMAIN Routine] /\ line' \in [Threads -> Nat]
    BY <1>1, <1>2, <1>3
  <2>2. stage' \in [Threads -> {"call", "answer", "cancel"} \cup InPs]  BY <1>1, <1>2
  <2>3. \A u \in Threads : line'[u] \in DOMAIN Routine[routine'[u]]
    BY <1>3, <1>4 DEF Kept, Core, CoreType
  <2>4. /\ wakers' \in Nat /\ suspended' \in BOOLEAN /\ enable' \in BOOLEAN /\ configPs' \in BOOLEAN
        /\ lock' \in Threads \cup {"none"}
    BY DEF Core, CoreType
  <2> QED  BY <2>1, <2>2, <2>3, <2>4 DEF CoreType
<1>6. Held'
  <2>1. \A u \in Threads \ {t} : stage'[u] = stage[u]  BY <1>4 DEF Kept
  <2>2. "call" \notin InPs /\ "none" \notin Threads  BY DEF InPs, Threads
  <2> QED  BY <1>4, <2>1, <2>2 DEF Core, Held
<1>7. \A u \in Threads : Staged(u)' /\ Assigned(u)'
  <2>1. TAKE u \in Threads
  <2>2. CASE u = t
    <3>1. Staged(t)'  BY <1>4 DEF Staged, InPs
    <3>2. Assigned(t)'  BY <1>3, <1>4 DEF Core, Assigned
    <3> QED  BY <2>2, <3>1, <3>2
  <2>3. CASE u # t
    <3>1. Call(u)' = Call(u) /\ routine'[u] = routine[u] /\ stage'[u] = stage[u]
      BY <2>3, <1>4, OthersKept DEF Kept
    <3> QED  BY <3>1 DEF Core, Staged, Assigned
  <2> QED  BY <2>2, <2>3
<1>8. WakersPaired'
  <2>1. CASE ~enable  BY <2>1 DEF WakersPaired
  <2>2. CASE enable
    <3>1. Owes(t)' = Owed[q][k]
      <4>1. Owed[q][k] \in Int  BY <1>3, OwedBefore
      <4>2. Owes(t)' = Owed[q][k] + 0  BY <1>4 DEF Owes, InPs
      <4> QED  BY <4>1, <4>2
    <3>2. Owes(t) = Owed[r][l] + Delta(Call(t))
      <4>1. Owed[r][l] \in Int  BY <1>1, OwedBefore
      <4>2. stage[t] \notin InPs => Delta(Call(t)) = 0  BY <2>2 DEF Delta
      <4>3. Owes(t) = Owed[r][l] + IF stage[t] \notin InPs THEN 0 ELSE Delta(Call(t))
        BY DEF Owes, Delta
      <4> QED  BY <4>1, <4>2, <4>3
    <3>3. Net(t)' - Net(t) = wakers' - wakers
      <4>1. Net(t) \in Int /\ Net(t)' = Net(t)
        BY <1>3, <3>1, <3>2, NetBound DEF Net, Config
      <4> QED  BY <4>1, <1>5 DEF CoreType
    <3> QED  BY <1>4, <1>5, <3>3, KeepsPaired DEF Core, Paired
  <2> QED  BY <2>1, <2>2
<1>9. UsedAwake'
  <2> SUFFICES ASSUME NEW u \in Threads, Uses(u)', suspended' PROVE FALSE
    BY DEF UsedAwake
  <2>1. Uses(u)
    <3>1. CASE u # t  BY <3>1, <1>4, OthersKept
    <3>2. CASE u = t
      <4>1. Call(t)' = Routine[q][k]  BY <1>4 DEF Call
      <4>2. Call(t) \in {"disable", "finish"}  BY <1>3, <3>2, <4>1 DEF Uses, UserCalls
      <4> QED  BY <3>2, <4>2 DEF Uses
    <3> QED  BY <3>1, <3>2
  <2>2. ~suspended  BY <2>1 DEF Paired, UsedAwake
  <2>3. enable /\ wakers = 0  BY <2>2
  <2>4. wakers >= 1  BY <2>1, <2>3, NetBound, SomeWaker DEF Paired
  <2> QED  BY <2>3, <2>4
<1>10. (~enable => ~suspended)'  BY DEF Paired
<1> QED  BY <1>5, <1>6, <1>7, <1>8, <1>9, <1>10 DEF Core, Paired

\* A step within a call: what is owed and who uses the chip stay as they are.
LEMMA Moved ==
  ASSUME Core, Paired, NEW t \in Threads, NEW s \in {"call", "answer", "cancel"} \cup InPs,
         stage' = [stage EXCEPT ![t] = s], s \in InPs <=> stage[t] \in InPs,
         UNCHANGED <<wakers, suspended, lock, routine, line, configPs>>,
         enable' \in BOOLEAN, enable' => enable, enable' = enable \/ ~suspended,
         s = "answer" => Call(t) = "command", s = "cancel" => Call(t) = "finish",
         s \in {"pin", "sleep"} => wakers = 0
  PROVE  Core' /\ Paired'
<1>1. stage \in [Threads -> {"call", "answer", "cancel"} \cup InPs]  BY DEF Core, CoreType
<1>2. stage'[t] = s /\ Kept(t)  BY <1>1 DEF Kept
<1>3. \A u \in Threads : Call(u)' = Call(u) /\ (Uses(u)' <=> Uses(u))
  BY DEF Call, Uses
<1>4. CoreType'  BY <1>1 DEF Core, CoreType
<1>5. Held'  BY <1>2 DEF Core, Held, Kept
<1>6. \A u \in Threads : Staged(u)' /\ Assigned(u)'
  <2>1. TAKE u \in Threads
  <2>2. Assigned(u)'  BY DEF Core, Assigned
  <2>3. CASE u = t
    BY <2>2, <2>3, <1>2, <1>3 DEF Core, Staged
  <2>4. CASE u # t
    BY <2>2, <2>4, <1>2, <1>3 DEF Core, Staged, Kept
  <2> QED  BY <2>3, <2>4
<1>7. WakersPaired'
  <2>1. \A u \in Threads : Owes(u)' = Owes(u)  BY <1>2, <1>3 DEF Owes, Kept
  <2> QED  BY <2>1 DEF Paired, WakersPaired, Threads
<1>8. UsedAwake'  BY <1>3 DEF Paired, UsedAwake
<1>9. (~enable => ~suspended)'  BY DEF Paired, Core, CoreType
<1> QED  BY <1>4, <1>5, <1>6, <1>7, <1>8, <1>9 DEF Core, Paired

\* A thread gets the lock for a call: what it owes is counted at once, and
\* nobody else is about to sleep.
LEMMA Entered ==
  ASSUME Core, Paired, NEW t \in Threads, NEW s \in {"wake", "pin"},
         stage[t] = "call", Call(t) \in PsCalls, lock = "none", lock' = t,
         stage' = [stage EXCEPT ![t] = s], UNCHANGED <<suspended, enable, routine, line, configPs>>,
         wakers' \in Nat, wakers' = wakers + Delta(Call(t)), s = "pin" => wakers' = 0
  PROVE  Core' /\ Paired'
<1>1. stage \in [Threads -> {"call", "answer", "cancel"} \cup InPs]  BY DEF Core, CoreType
<1>2. stage'[t] = s /\ Kept(t)  BY <1>1 DEF Kept
<1>3. \A u \in Threads : Call(u)' = Call(u) /\ (Uses(u)' <=> Uses(u))
  BY DEF Call, Uses
<1>4. "none" \notin Threads /\ s \in InPs  BY DEF Threads, InPs
<1>5. \A u \in Threads : stage[u] \notin InPs  BY <1>4 DEF Core, Held
<1>6. CoreType'
  <2>1. stage' \in [Threads -> {"call", "answer", "cancel"} \cup InPs]  BY <1>1, <1>4
  <2> QED  BY <2>1 DEF Core, CoreType
<1>7. Held'  BY <1>2, <1>4, <1>5 DEF Held, Kept
<1>8. \A u \in Threads : Staged(u)' /\ Assigned(u)'
  <2>1. TAKE u \in Threads
  <2>2. Assigned(u)'  BY DEF Core, Assigned
  <2>3. CASE u = t
    BY <2>2, <2>3, <1>2, <1>3 DEF Staged
  <2>4. CASE u # t
    <3>1. stage'[u] = stage[u] /\ stage[u] \notin InPs  BY <2>4, <1>2, <1>5 DEF Kept
    <3> QED  BY <2>2, <3>1, <1>3 DEF Core, Staged, InPs
  <2> QED  BY <2>3, <2>4
<1>9. WakersPaired'
  <2>1. Owed[routine[t]][line[t]] \in Int  BY OwedBefore DEF Core, CoreType
  <2>2. Owes(t) = Owed[routine[t]][line[t]]  BY <1>5, <2>1 DEF Owes
  <2>3. Owes(t)' = Owed[routine[t]][line[t]] + Delta(Call(t))
    BY <1>2, <1>3, <1>4 DEF Owes, Delta
  <2>4. Delta(Call(t)) \in Int /\ wakers \in Int  BY DEF Delta, Core, CoreType
  <2>5. Net(t)' - Net(t) = wakers' - wakers
    <3>1. Config' = Config /\ Config \in {0, 1}  BY DEF Config
    <3> QED  BY <2>1, <2>2, <2>3, <2>4, <3>1 DEF Net
  <2> QED  BY <1>2, <1>6, <2>5, KeepsPaired DEF Core, Paired
<1>10. UsedAwake' /\ (~enable => ~suspended)'  BY <1>3 DEF Paired, UsedAwake
<1> QED  BY <1>6, <1>7, <1>8, <1>9, <1>10 DEF Core, Paired

\* A routine begins, which may change configPs.
LEMMA Begun ==
  ASSUME Core, Paired, NEW t \in Threads, NEW r \in DOMAIN Routine \ {"idle"}, Begin(t, r),
         UNCHANGED <<wakers, suspended, enable, lock>>,
         configPs' = IF r = "psOn" THEN TRUE ELSE IF r = "psOff" THEN FALSE ELSE configPs,
         r \in {"psOn", "psOff"} => t = "mac" /\ configPs' # configPs
  PROVE  Core' /\ Paired'
<1>1. /\ routine \in [Threads -> DOMAIN Routine] /\ configPs \in BOOLEAN
      /\ line[t] \in DOMAIN Routine[routine[t]]
  BY DEF Core, CoreType
<1>2. routine[t] = "idle" /\ line[t] = 1 /\ Call(t) = "none" /\ Owed["idle"][1] = 0
  BY <1>1, CallsOfIdle DEF Begin, Call
<1>3. stage[t] \in {"call"}
  BY <1>2 DEF Core, CoreType, Staged, PsCalls, InPs
<1>4. routine' = [routine EXCEPT ![t] = r] /\ line' = line /\ stage' = stage  BY DEF Begin
<1>5. routine'[t] = r /\ Kept(t)  BY <1>1, <1>4 DEF Kept
<1>6. /\ 1 \in DOMAIN Routine[r] /\ Routine[r][1] \notin UserCalls
      /\ Owed[r][1] = IF r = "psOn" THEN 1 ELSE IF r = "psOff" THEN -1 ELSE 0
  BY FirstLine
<1>7. CoreType'
  <2>1. routine' \in [Threads -> DOMAIN Routine]  BY <1>1, <1>4
  <2>2. \A u \in Threads : line'[u] \in DOMAIN Routine[routine'[u]]
    BY <1>2, <1>4, <1>5, <1>6 DEF Kept, Core, CoreType
  <2> QED  BY <1>1, <1>4, <2>1, <2>2 DEF Core, CoreType
<1>8. Held'  BY <1>4 DEF Core, Held
<1>9. \A u \in Threads : Staged(u)' /\ Assigned(u)'
  <2>1. TAKE u \in Threads
  <2>2. CASE u = t
    <3>1. Assigned(t)'  BY <1>5 DEF Assigned
    <3>2. Staged(t)'  BY <1>3, <1>4 DEF Staged, InPs
    <3> QED  BY <2>2, <3>1, <3>2
  <2>3. CASE u # t
    <3>1. Staged(u)'
      BY <2>3, <1>4, <1>5, OthersKept DEF Core, Staged
    <3>2. Assigned(u)'
      BY <2>3, <1>5 DEF Core, Assigned, Kept
    <3> QED  BY <3>1, <3>2
  <2> QED  BY <2>2, <2>3
<1>10. WakersPaired'
  <2>1. Owes(t) = 0  BY <1>2, <1>3 DEF Owes, InPs
  <2>2. Owes(t)' = Owed[r][1]  BY <1>2, <1>3, <1>4, <1>5, <1>6 DEF Owes, InPs
  <2>3. wakers' - wakers = 0  BY DEF Core, CoreType
  <2>4. Net(t)' - Net(t) = 0
    <3>1. CASE r \in {"psOn", "psOff"}
      <4>1. Net(t) = Config /\ Net(t)' = Owed[r][1] + Config'
        <5>0. t = "mac"  BY <3>1
        <5>1. Owed[r][1] \in Int  BY <1>6
        <5>2. Net(t) = 0 + Config  BY <2>1, <5>0 DEF Net
        <5>3. Net(t)' = Owed[r][1] + Config'  BY <2>2, <5>0 DEF Net
        <5>4. Config \in {0, 1}  BY DEF Config
        <5> QED  BY <5>1, <5>2, <5>3, <5>4
      <4>2. CASE r = "psOn"
        <5>1. configPs' = TRUE /\ configPs = FALSE  BY <1>1, <4>2
        <5> QED  BY <1>6, <4>1, <4>2, <5>1 DEF Config
      <4>3. CASE r = "psOff"
        <5>1. configPs' = FALSE /\ configPs = TRUE  BY <1>1, <4>3
        <5> QED  BY <1>6, <4>1, <4>3, <5>1 DEF Config
      <4> QED  BY <3>1, <4>2, <4>3
    <3>2. CASE r \notin {"psOn", "psOff"}
      BY <1>1, <1>6, <2>1, <2>2, <3>2 DEF Net, Config
    <3> QED  BY <3>1, <3>2
  <2>5. t # "mac" => configPs' = configPs  OBVIOUS
  <2> QED  BY <1>5, <1>7, <2>3, <2>4, <2>5, KeepsPaired DEF Core, Paired
<1>11. UsedAwake'
  <2>1. \A u \in Threads : Uses(u)' => Uses(u)
    <3>1. ~Uses(t)'  BY <1>2, <1>4, <1>5, <1>6 DEF Uses, Call, UserCalls
    <3> QED  BY <3>1, <1>5, OthersKept
  <2> QED  BY <2>1 DEF Paired, UsedAwake
<1>12. (~enable => ~suspended)'  BY DEF Paired
<1> QED  BY <1>7, <1>8, <1>9, <1>10, <1>11, <1>12 DEF Core, Paired

LEMMA Unmoved == ASSUME Core, Paired, UNCHANGED core PROVE Core' /\ Paired'
<1>1. /\ wakers' = wakers /\ suspended' = suspended /\ enable' = enable /\ lock' = lock
      /\ routine' = routine /\ line' = line /\ stage' = stage /\ configPs' = configPs
  BY DEF core
<1>2. \A t \in Threads : Call(t)' = Call(t) /\ Owes(t)' = Owes(t) /\ (Uses(t)' <=> Uses(t))
  BY <1>1 DEF Call, Owes, Uses
<1>3. Core'  BY <1>1, <1>2 DEF Core, CoreType, Held, Staged, Assigned
<1>4. WakersPaired'  BY <1>1, <1>2 DEF Paired, WakersPaired, Threads
<1>5. UsedAwake' /\ (~enable => ~suspended)'  BY <1>1, <1>2 DEF Paired, UsedAwake
<1> QED  BY <1>3, <1>4, <1>5 DEF Paired

-----------------------------------------------------------------------------
(* Every action is one of those steps.                                      *)

LEMMA PsCallSteps ==
  ASSUME Core, Paired, NEW t \in Threads, PsCall(t)
  PROVE  Core' /\ Paired'
<1>1. CASE Finished(t)
  <2>1. /\ Return(t) /\ ~enable /\ stage[t] = "call" /\ Call(t) # "detach"
        /\ UNCHANGED <<wakers, suspended, enable, lock, configPs>>
    BY <1>1 DEF Finished, ps
  <2>2. stage[t] \notin InPs /\ suspended \in BOOLEAN /\ ~suspended
    BY <2>1 DEF InPs, Paired, Core, CoreType
  <2> QED  BY <2>1, <2>2, Returned
<1>2. CASE Disable(t)
  <2>1. /\ wakers' = wakers + 1 /\ wakers \in Nat /\ EvaluateTo(t, wakers + 1)
        /\ stage[t] = "call" /\ Call(t) = "disable" /\ lock = "none"
        /\ UNCHANGED <<suspended, enable, routine, line, configPs>>
    BY <1>2 DEF Disable, AtCall, Core, CoreType
  <2>2. NeedsWake(wakers + 1)  BY <2>1 DEF NeedsWake
  <2>3. lock' = t /\ stage' = [stage EXCEPT ![t] = "wake"]
    BY <2>1, <2>2 DEF EvaluateTo
  <2>4. Call(t) \in PsCalls /\ Delta(Call(t)) = 1 /\ wakers' \in Nat
    BY <2>1 DEF PsCalls, Delta
  <2> QED  BY <2>1, <2>3, <2>4, Entered
<1>3. CASE Enable(t)
  <2>1. /\ stage[t] = "call" /\ Call(t) = "enable" /\ lock = "none" /\ enable /\ wakers \in Nat
        /\ UNCHANGED <<suspended, enable, configPs>>
    BY <1>3 DEF Enable, AtCall, Core, CoreType
  <2>2. wakers >= 1
    <3>1. Net(t) >= 1  BY <2>1, NetBound DEF InPs
    <3> QED  BY <2>1, <3>1, SomeWaker DEF Paired
  <2>3. wakers' = wakers - 1 /\ EvaluateTo(t, wakers - 1) /\ UNCHANGED <<routine, line>>
    BY <1>3, <2>1, <2>2 DEF Enable
  <2>4. PICK s \in {"wake", "pin"} :
          lock' = t /\ stage' = [stage EXCEPT ![t] = s] /\ (s = "pin" => ~NeedsWake(wakers - 1))
    BY <2>3 DEF EvaluateTo
  <2>5. s = "pin" => wakers' = 0
    BY <2>1, <2>2, <2>3, <2>4 DEF NeedsWake
  <2>6. Call(t) \in PsCalls /\ Delta(Call(t)) = -1 /\ wakers' \in Nat
    BY <2>1, <2>2, <2>3 DEF PsCalls, Delta
  <2>7. wakers' = wakers + Delta(Call(t))  BY <2>1, <2>3, <2>6
  <2> QED  BY <2>1, <2>3, <2>4, <2>5, <2>6, <2>7, Entered
<1>4. CASE Evaluate(t)
  <2>1. /\ stage[t] = "call" /\ Call(t) = "evaluate" /\ lock = "none" /\ wakers \in Nat
        /\ EvaluateTo(t, wakers)
        /\ UNCHANGED <<wakers, suspended, enable, routine, line, configPs>>
    BY <1>4 DEF Evaluate, AtCall, Core, CoreType
  <2>2. PICK s \in {"wake", "pin"} :
          lock' = t /\ stage' = [stage EXCEPT ![t] = s] /\ (s = "pin" => ~NeedsWake(wakers))
    BY <2>1 DEF EvaluateTo
  <2>3. s = "pin" => wakers' = 0
    BY <2>1, <2>2 DEF NeedsWake
  <2>4. Call(t) \in PsCalls /\ Delta(Call(t)) = 0 /\ wakers' = wakers + 0
    BY <2>1 DEF PsCalls, Delta
  <2> QED  BY <2>1, <2>2, <2>3, <2>4, Entered
<1>5. CASE Wakeup(t)
  <2>1. /\ stage[t] = "call" /\ Call(t) = "wakeup" /\ lock = "none" /\ wakers \in Nat
        /\ lock' = t /\ stage' = [stage EXCEPT ![t] = "wake"]
        /\ UNCHANGED <<wakers, suspended, enable, routine, line, configPs>>
    BY <1>5 DEF Wakeup, AtCall, Core, CoreType
  <2>2. Call(t) \in PsCalls /\ Delta(Call(t)) = 0 /\ wakers' = wakers + 0
    BY <2>1 DEF PsCalls, Delta
  <2> QED  BY <2>1, <2>2, Entered
<1> QED  BY <1>1, <1>2, <1>3, <1>4, <1>5 DEF PsCall

\* A thread about to sleep has not come from morse_ps_disable().
LEMMA SleeperNotDisabling ==
  ASSUME Core, Paired, NEW t \in Threads, stage[t] \in {"pin", "sleep"}
  PROVE  wakers = 0 /\ (Call(t) = "disable" => ~enable /\ ~suspended)
<1>1. wakers = 0  BY DEF Core, Staged
<1>2. Call(t) = "disable" /\ enable => wakers >= 1
  BY NetBound, SomeWaker DEF Paired, InPs
<1> QED  BY <1>1, <1>2 DEF Paired

LEMMA PsSteps ==
  ASSUME Core, Paired, NEW t \in Threads, PsStep(t)
  PROVE  Core' /\ Paired'
<1>1. stage[t] \in InPs
  BY DEF PsStep, Pin, Sleep, Wake, Woken, InPs
<1>2. Call(t) # "detach" /\ suspended \in BOOLEAN /\ enable \in BOOLEAN
  BY <1>1 DEF Core, CoreType, Staged, PsCalls
<1>3. CASE Pin(t)
  <2>1. stage[t] = "pin" /\ UNCHANGED <<wakers, suspended, enable, configPs>>
    BY <1>3 DEF Pin
  <2>2. wakers = 0 /\ (Call(t) = "disable" => ~suspended)
    BY <2>1, SleeperNotDisabling
  <2>3. CASE busyPin
    <3>1. lock' = "none" /\ Return(t)  BY <1>3, <2>3 DEF Pin
    <3> QED  BY <1>1, <1>2, <2>1, <2>2, <3>1, Returned
  <2>4. CASE ~busyPin
    <3>1. stage' = [stage EXCEPT ![t] = "sleep"] /\ UNCHANGED <<routine, line, lock>>
      BY <1>3, <2>4 DEF Pin
    <3>2. "sleep" \in InPs  BY DEF InPs
    <3> QED  BY <1>1, <1>2, <2>1, <2>2, <3>1, <3>2, Moved
  <2> QED  BY <2>3, <2>4
<1>4. CASE Sleep(t)
  <2>1. /\ stage[t] = "sleep" /\ suspended' = (suspended \/ enable) /\ lock' = "none" /\ Return(t)
        /\ UNCHANGED <<wakers, enable, configPs>>
    BY <1>4 DEF Sleep
  <2>2. wakers = 0 /\ (Call(t) = "disable" => ~enable /\ ~suspended)
    BY <2>1, SleeperNotDisabling
  <2>3. suspended' \in BOOLEAN /\ (Call(t) = "disable" => ~suspended')
    BY <1>2, <2>1, <2>2
  <2> QED  BY <1>1, <1>2, <2>1, <2>2, <2>3, Returned
<1>5. CASE Wake(t)
  <2>1. stage[t] = "wake" /\ UNCHANGED <<wakers, suspended, enable, configPs>>
    BY <1>5 DEF Wake
  <2>2. CASE enable /\ suspended
    <3>1. stage' = [stage EXCEPT ![t] = "wait"] /\ UNCHANGED <<routine, line, lock>>
      BY <1>5, <2>2 DEF Wake
    <3>2. "wait" \in InPs  BY DEF InPs
    <3> QED  BY <1>1, <1>2, <2>1, <3>1, <3>2, Moved
  <2>3. CASE ~(enable /\ suspended)
    <3>1. lock' = "none" /\ Return(t)  BY <1>5, <2>3 DEF Wake
    <3>2. ~suspended  BY <2>3 DEF Paired
    <3> QED  BY <1>1, <1>2, <2>1, <3>1, <3>2, Returned
  <2> QED  BY <2>2, <2>3
<1>6. CASE Woken(t)
  <2>1. /\ suspended' = FALSE /\ lock' = "none" /\ Return(t)
        /\ UNCHANGED <<wakers, enable, configPs>>
    BY <1>6 DEF Woken
  <2> QED  BY <1>1, <1>2, <2>1, Returned
<1> QED  BY <1>3, <1>4, <1>5, <1>6 DEF PsStep

\* The calls between morse_ps_disable() and morse_ps_enable().
LEMMA UserSteps ==
  ASSUME Core, Paired, NEW t \in Threads,
         Cmd(t) \/ (t = "mac" /\ Mac) \/ (t = "worker" /\ Service)
  PROVE  Core' /\ Paired'
<1>1. suspended \in BOOLEAN /\ enable \in BOOLEAN
      /\ "call" \notin InPs /\ "answer" \notin InPs /\ "cancel" \notin InPs
  BY DEF Core, CoreType, InPs
<1>2. CASE CommandSend(t)
  <2>1. /\ stage[t] = "call" /\ Call(t) = "command" /\ stage' = [stage EXCEPT ![t] = "answer"]
        /\ UNCHANGED <<wakers, suspended, enable, lock, routine, line, configPs>>
    BY <1>2 DEF CommandSend, AtCall, ps
  <2> QED  BY <1>1, <2>1, Moved
<1>3. CASE CommandEnd(t)
  <2>1. /\ stage[t] = "answer" /\ Return(t)
        /\ UNCHANGED <<wakers, suspended, enable, lock, configPs>>
    BY <1>3 DEF CommandEnd, ps
  <2>2. Call(t) = "command"  BY <2>1 DEF Core, Staged
  <2> QED  BY <1>1, <2>1, <2>2, Returned
<1>4. CASE t = "mac" /\ Reload
  <2>1. /\ stage[t] = "call" /\ Call(t) = "reload" /\ Return(t)
        /\ UNCHANGED <<wakers, suspended, enable, lock, configPs>>
    BY <1>4 DEF Reload, AtCall, ps
  <2> QED  BY <1>1, <2>1, Returned
<1>5. CASE t = "mac" /\ Finish
  <2>1. /\ stage[t] = "call" /\ Call(t) = "finish" /\ stage' = [stage EXCEPT ![t] = "cancel"]
        /\ enable' = FALSE /\ UNCHANGED <<wakers, suspended, lock, routine, line, configPs>>
    BY <1>5 DEF Finish, AtCall
  <2>2. ~suspended  BY <2>1 DEF Paired, UsedAwake, Uses
  <2> QED  BY <1>1, <2>1, <2>2, Moved
<1>6. CASE t = "mac" /\ FinishCancel
  <2>1. /\ stage[t] = "cancel" /\ Return(t)
        /\ UNCHANGED <<wakers, suspended, enable, lock, configPs>>
    BY <1>6 DEF FinishCancel, ps
  <2>2. Call(t) = "finish"  BY <2>1 DEF Core, Staged
  <2> QED  BY <1>1, <2>1, <2>2, Returned
<1>7. CASE t = "worker" /\ Service
  <2>1. /\ stage[t] = "call" /\ Call(t) = "service" /\ Return(t)
        /\ UNCHANGED <<wakers, suspended, enable, lock, configPs>>
    BY <1>7 DEF Service, AtCall
  <2> QED  BY <1>1, <2>1, Returned
<1> QED  BY <1>2, <1>3, <1>4, <1>5, <1>6, <1>7 DEF Cmd, Mac

LEMMA Begins ==
  ASSUME Core, Paired,
         StartAsync \/ StartEvaluate \/ StartChipIf \/ BeginCommand \/ ConfigPs \/ BeginRestart
           \/ Unregister
  PROVE  Core' /\ Paired'
<1> USE Names DEF Threads
<1>1. CASE StartAsync
  <2>1. UNCHANGED <<wakers, suspended, enable, lock, configPs>>  BY <1>1 DEF StartAsync, ps
  <2>2. CASE busyPin
    <3>1. Begin("worker", "async")  BY <1>1, <2>2 DEF StartAsync
    <3> QED  BY <2>1, <3>1, Begun
  <2>3. CASE ~busyPin
    <3>1. UNCHANGED core  BY <1>1, <2>1, <2>3 DEF StartAsync, threads, core
    <3> QED  BY <3>1, Unmoved
  <2> QED  BY <2>2, <2>3
<1>2. CASE StartEvaluate
  <2>1. Begin("worker", "evaluate") /\ UNCHANGED <<wakers, suspended, enable, lock, configPs>>
    BY <1>2 DEF StartEvaluate, ps
  <2> QED  BY <2>1, Begun
<1>3. CASE StartChipIf
  <2>1. UNCHANGED <<wakers, suspended, enable, lock, configPs>>  BY <1>3 DEF StartChipIf, ps
  <2>2. CASE flags # {}
    <3>1. Begin("worker", "chipIf")  BY <1>3, <2>2 DEF StartChipIf
    <3> QED  BY <2>1, <3>1, Begun
  <2>3. CASE flags = {}
    <3>1. UNCHANGED core  BY <1>3, <2>1, <2>3 DEF StartChipIf, threads, core
    <3> QED  BY <3>1, Unmoved
  <2> QED  BY <2>2, <2>3
<1>4. CASE BeginCommand
  <2>1. Begin("cmd", "command") /\ UNCHANGED <<wakers, suspended, enable, lock, configPs>>
    BY <1>4 DEF BeginCommand, ps
  <2> QED  BY <2>1, Begun
<1>5. CASE ConfigPs
  <2>1. /\ configPs \in BOOLEAN /\ configPs' = ~configPs
        /\ Begin("mac", IF configPs THEN "psOff" ELSE "psOn")
        /\ UNCHANGED <<wakers, suspended, enable, lock>>
    BY <1>5 DEF ConfigPs, ps, Core, CoreType
  <2>2. CASE configPs
    <3>1. Begin("mac", "psOff") /\ configPs' = FALSE  BY <2>1, <2>2
    <3> QED  BY <2>1, <2>2, <3>1, Begun
  <2>3. CASE ~configPs
    <3>1. Begin("mac", "psOn") /\ configPs' = TRUE  BY <2>1, <2>3
    <3> QED  BY <2>1, <2>3, <3>1, Begun
  <2> QED  BY <2>2, <2>3
<1>6. CASE BeginRestart
  <2>1. Begin("mac", "restart") /\ UNCHANGED <<wakers, suspended, enable, lock, configPs>>
    BY <1>6 DEF BeginRestart, ps
  <2> QED  BY <2>1, Begun
<1>7. CASE Unregister
  <2>1. Begin("mac", "unregister") /\ UNCHANGED <<wakers, suspended, enable, lock, configPs>>
    BY <1>7 DEF Unregister, ps
  <2> QED  BY <2>1, Begun
<1> QED  BY <1>1, <1>2, <1>3, <1>4, <1>5, <1>6, <1>7

\* The steps that leave power save and the threads alone.
Aside ==
    \/ StaleWork \/ Put \/ Signal \/ Irq \/ BusIrq \/ Receive \/ ActivityEnds
    \/ Chip \/ ChipTraffic \/ ChipLoses

LEMMA AsideSteps == ASSUME Aside PROVE UNCHANGED core
<1> USE DEF core, ps, threads
<1>1. CASE StaleWork  BY <1>1 DEF StaleWork
<1>2. CASE Put  BY <1>2 DEF Put
<1>3. CASE Signal  BY <1>3 DEF Signal
<1>4. CASE Irq  BY <1>4 DEF Irq, IrqRead, IrqAct
<1>5. CASE BusIrq  BY <1>5 DEF BusIrq
<1>6. CASE Receive  BY <1>6 DEF Receive, ReceiveWork, AskEvaluate
<1>7. CASE ActivityEnds  BY <1>7 DEF ActivityEnds
<1>8. CASE Chip  BY <1>8 DEF Chip, ChipReports, ChipAnswers, ChipIdle, ChipWakes, Offer
<1>9. CASE ChipTraffic  BY <1>9 DEF ChipTraffic, Offer
<1>10. CASE ChipLoses  BY <1>10 DEF ChipLoses
<1> QED  BY <1>1, <1>2, <1>3, <1>4, <1>5, <1>6, <1>7, <1>8, <1>9, <1>10 DEF Aside

LEMMA CoreStep == ASSUME Core, Paired, [Next]_vars PROVE Core' /\ Paired'
<1>1. CASE \E t \in Threads : Thread(t)
  <2>1. PICK t \in Threads : Thread(t)  BY <1>1
  <2> QED  BY <2>1, PsCallSteps, PsSteps, UserSteps DEF Thread
<1>2. CASE StartAsync \/ StartEvaluate \/ StartChipIf \/ BeginCommand \/ ConfigPs \/ BeginRestart
             \/ Unregister
  BY <1>2, Begins
<1>3. CASE Aside
  BY <1>3, AsideSteps, Unmoved
<1>4. CASE UNCHANGED vars
  <2>1. UNCHANGED core  BY <1>4 DEF vars, core, ps, threads
  <2> QED  BY <2>1, Unmoved
<1> QED  BY <1>1, <1>2, <1>3, <1>4 DEF Next, Inputs, Aside

LEMMA CoreInit == Init => Core /\ Paired
<1> SUFFICES ASSUME Init PROVE Core /\ Paired  OBVIOUS
<1>1. /\ wakers = 0 /\ suspended = FALSE /\ enable = TRUE /\ configPs = TRUE /\ lock = "none"
      /\ routine = [t \in Threads |-> "idle"] /\ line = [t \in Threads |-> 1]
      /\ stage = [t \in Threads |-> "call"]
  BY DEF Init
<1>2. \A t \in Threads : Call(t) = "none" /\ Owed[routine[t]][line[t]] = 0 /\ stage[t] = "call"
  BY <1>1, CallsOfIdle DEF Call
<1>3. CoreType
  <2>1. routine \in [Threads -> DOMAIN Routine] /\ line \in [Threads -> Nat]
    BY <1>1, Names
  <2>2. \A t \in Threads : line[t] \in DOMAIN Routine[routine[t]]
    BY <1>1, CallsOfIdle
  <2> QED  BY <1>1, <2>1, <2>2 DEF CoreType
<1>4. Held  BY <1>1 DEF Held, InPs, Threads
<1>5. \A t \in Threads : Staged(t) /\ Assigned(t)
  BY <1>1, <1>2 DEF Staged, Assigned, InPs
<1>6. \A t \in Threads : Owes(t) = 0  BY <1>2 DEF Owes, InPs
<1>7. WakersPaired  BY <1>1, <1>6 DEF WakersPaired, Threads
<1>8. UsedAwake /\ (~enable => ~suspended)  BY <1>1 DEF UsedAwake
<1> QED  BY <1>3, <1>4, <1>5, <1>7, <1>8 DEF Core, Paired

-----------------------------------------------------------------------------
(* The rest of the types.  What the chip has for the driver, and what the   *)
(* receive work has to process, are messages.                               *)

Message == [statuses : Nat, answer : BOOLEAN, traffic : {"none", "pause", "resume"}]
Flags == {"rx", "cmd", "data", "pause", "resume"}

PsType ==
    /\ active \in BOOLEAN /\ awake \in BOOLEAN /\ completed \in BOOLEAN /\ needless \in BOOLEAN
    /\ asyncWork \in BOOLEAN /\ evalWork \in BOOLEAN /\ chipWork \in BOOLEAN
PinType ==
    /\ wakePin \in BOOLEAN /\ busyPin \in BOOLEAN /\ edge \in BOOLEAN
    /\ handler \in {"idle", "null", "live", "dead"} /\ busIrq \in BOOLEAN
    /\ up \in BOOLEAN /\ inputs \in Nat /\ faults \in Nat
DataType ==
    /\ flags \subseteq Flags
    /\ command \in {"none", "queued", "sent", "answered", "lost"}
    /\ queued \in Nat /\ unsignalled \in Nat /\ pending \in Nat /\ sent \in Nat /\ dropped \in Nat
    /\ stopped \in BOOLEAN /\ asks \in BOOLEAN
    /\ received \in Message /\ toHost \in Message
Rest == PsType /\ PinType /\ DataType

LEMMA NothingIsMessage == Nothing \in Message
BY DEF Nothing, Message

\* What ps.c does.
LEMMA PsRest ==
  ASSUME Core, Rest, NEW t \in Threads, PsCall(t) \/ PsStep(t)
  PROVE  Rest'
<1> USE DEF Rest, ps, works, data, pins, chip, bounds
<1>1. suspended \in BOOLEAN /\ enable \in BOOLEAN  BY DEF Core, CoreType
<1>2. CASE Finished(t)  BY <1>2 DEF Finished, PsType, PinType, DataType
<1>3. CASE Disable(t)
  <2>1. PsType'  BY <1>3 DEF Disable, EvaluateTo, PsType
  <2>2. PinType'  BY <1>3 DEF Disable, EvaluateTo, PinType
  <2>3. DataType'  BY <1>3 DEF Disable, EvaluateTo, DataType
  <2> QED  BY <2>1, <2>2, <2>3
<1>4. CASE Enable(t)
  <2>1. PsType'  BY <1>4 DEF Enable, EvaluateTo, PsType
  <2>2. PinType'  BY <1>4 DEF Enable, EvaluateTo, PinType
  <2>3. DataType'  BY <1>4 DEF Enable, EvaluateTo, DataType
  <2> QED  BY <2>1, <2>2, <2>3
<1>5. CASE Evaluate(t)
  <2>1. PsType'  BY <1>5 DEF Evaluate, EvaluateTo, PsType
  <2>2. PinType'  BY <1>5 DEF Evaluate, EvaluateTo, PinType
  <2>3. DataType'  BY <1>5 DEF Evaluate, EvaluateTo, DataType
  <2> QED  BY <2>1, <2>2, <2>3
<1>6. CASE Wakeup(t)
  BY <1>6 DEF Wakeup, PsType, PinType, DataType
<1>7. CASE Pin(t)
  <2>1. PsType'  BY <1>7 DEF Pin, PsType
  <2>2. PinType'  BY <1>7 DEF Pin, PinType
  <2>3. DataType'  BY <1>7 DEF Pin, DataType
  <2> QED  BY <2>1, <2>2, <2>3
<1>8. CASE Sleep(t)
  BY <1>1, <1>8 DEF Sleep, PsType, PinType, DataType
<1>9. CASE Wake(t)
  <2>1. PsType'  BY <1>1, <1>9 DEF Wake, PsType
  <2>2. PinType'  BY <1>1, <1>9 DEF Wake, PinType
  <2>3. DataType'  BY <1>1, <1>9 DEF Wake, DataType
  <2> QED  BY <2>1, <2>2, <2>3
<1>10. CASE Woken(t)
  <2>1. PsType'  BY <1>10 DEF Woken, Fault, PsType
  <2>2. PinType'  BY <1>10 DEF Woken, Fault, PinType
  <2>3. DataType'  BY <1>10 DEF Woken, Fault, DataType
  <2> QED  BY <2>1, <2>2, <2>3
<1> QED  BY <1>2, <1>3, <1>4, <1>5, <1>6, <1>7, <1>8, <1>9, <1>10 DEF PsCall, PsStep

\* What its users do.
LEMMA ServiceRest == ASSUME Rest, Service PROVE Rest'
<1> USE DEF Rest, ps, works, data, pins, chip, bounds
<1>1. PsType'  BY DEF Service, PsType
<1>2. PinType'  BY DEF Service, PinType
<1>3. flags' \subseteq Flags /\ command' \in {"none", "queued", "sent", "answered", "lost"}
  BY DEF Service, DataType
<1>4. stopped' \in BOOLEAN /\ asks' \in BOOLEAN  BY DEF Service, DataType
<1>5. queued' \in Nat /\ unsignalled' \in Nat
  BY DEF Service, DataType
<1>6. sent' \in Nat /\ pending' \in Nat /\ dropped' \in Nat
  BY DEF Service, DataType
<1>7. toHost' \in Message  BY NothingIsMessage DEF Service, DataType
<1>8. received' \in Message
  <2>1. [statuses |-> received.statuses + toHost.statuses,
         answer |-> received.answer \/ toHost.answer,
         traffic |-> IF toHost.traffic = "none" THEN received.traffic ELSE toHost.traffic]
          \in Message
    BY DEF DataType, Message
  <2> QED  BY <2>1 DEF Service, DataType
<1> QED  BY <1>1, <1>2, <1>3, <1>4, <1>5, <1>6, <1>7, <1>8 DEF DataType

LEMMA UserRest ==
  ASSUME Rest, NEW t \in Threads, Cmd(t) \/ Mac
  PROVE  Rest'
<1> USE DEF Rest, ps, works, data, pins, chip, bounds
<1>1. CASE CommandSend(t)  BY <1>1 DEF CommandSend, Flags, PsType, PinType, DataType
<1>2. CASE CommandEnd(t)  BY <1>2 DEF CommandEnd, PsType, PinType, DataType
<1>3. CASE Reload
  <2>1. PsType'  BY <1>3, NothingIsMessage DEF Reload, PsType
  <2>2. PinType'  BY <1>3, NothingIsMessage DEF Reload, PinType
  <2>3. DataType'
    <3>1. received.statuses \in Nat  BY DEF DataType, Message
    <3> QED  BY <1>3, <3>1, NothingIsMessage DEF Reload, DataType
  <2> QED  BY <2>1, <2>2, <2>3
<1>4. CASE Finish  BY <1>4 DEF Finish, PsType, PinType, DataType
<1>5. CASE FinishCancel
  <2>1. PsType'  BY <1>5 DEF FinishCancel, PsType
  <2>2. PinType'  BY <1>5 DEF FinishCancel, PinType
  <2>3. DataType'  BY <1>5 DEF FinishCancel, DataType
  <2> QED  BY <2>1, <2>2, <2>3
<1> QED  BY <1>1, <1>2, <1>3, <1>4, <1>5 DEF Cmd, Mac

LEMMA BeginsRest ==
  ASSUME Rest, StartAsync \/ StartEvaluate \/ StartChipIf \/ BeginCommand \/ ConfigPs
                 \/ BeginRestart \/ Unregister
  PROVE  Rest'
<1> USE DEF Rest, ps, works, data, pins, chip, bounds
<1>1. CASE StartAsync
  <2>1. PsType'  BY <1>1 DEF StartAsync, PsType
  <2>2. PinType'  BY <1>1 DEF StartAsync, PinType
  <2>3. DataType'  BY <1>1 DEF StartAsync, DataType
  <2> QED  BY <2>1, <2>2, <2>3
<1>2. CASE StartEvaluate
  <2>1. PsType'  BY <1>2 DEF StartEvaluate, PsType
  <2>2. PinType'  BY <1>2 DEF StartEvaluate, PinType
  <2>3. DataType'  BY <1>2 DEF StartEvaluate, DataType
  <2> QED  BY <2>1, <2>2, <2>3
<1>3. CASE StartChipIf
  <2>1. PsType'  BY <1>3 DEF StartChipIf, PsType
  <2>2. PinType'  BY <1>3 DEF StartChipIf, PinType
  <2>3. DataType'  BY <1>3 DEF StartChipIf, DataType
  <2> QED  BY <2>1, <2>2, <2>3
<1>4. CASE BeginCommand  BY <1>4 DEF BeginCommand, Input, PsType, PinType, DataType
<1>5. CASE ConfigPs  BY <1>5 DEF ConfigPs, Input, PsType, PinType, DataType
<1>6. CASE BeginRestart  BY <1>6 DEF BeginRestart, Input, PsType, PinType, DataType
<1>7. CASE Unregister  BY <1>7 DEF Unregister, Input, PsType, PinType, DataType
<1> QED  BY <1>1, <1>2, <1>3, <1>4, <1>5, <1>6, <1>7

LEMMA OfferRest ==
  ASSUME Rest, NEW m \in Message, Offer(m), inputs' \in Nat, faults' \in Nat, sent' \in Nat
  PROVE  Rest'
BY DEF Offer, Rest, PsType, PinType, DataType, ps, works, data

LEMMA AsideRest == ASSUME Core, Rest, Aside PROVE Rest'
<1> USE DEF Rest, ps, works, data, pins, chip, bounds
<1>1. CASE StaleWork
  <2>1. PsType'  BY <1>1 DEF StaleWork, PsType
  <2>2. PinType'
    <3>1. inputs' \in Nat /\ faults' \in Nat  BY <1>1 DEF StaleWork, Fault, PinType
    <3> QED  BY <1>1, <3>1 DEF StaleWork, PinType
  <2>3. DataType'
    <3>1. toHost.statuses \in Nat /\ received.statuses \in Nat  BY DEF DataType, Message
    <3>2. dropped' \in Nat /\ pending' \in Nat  BY <1>1, <3>1 DEF StaleWork, DataType
    <3> QED  BY <1>1, <3>2 DEF StaleWork, DataType
  <2> QED  BY <2>1, <2>2, <2>3
<1>2. CASE Put  BY <1>2 DEF Put, Input, PsType, PinType, DataType
<1>3. CASE Signal
  <2>1. PsType'  BY <1>3 DEF Signal, Flags, PsType
  <2>2. PinType'  BY <1>3 DEF Signal, Flags, PinType
  <2>3. DataType'
    <3>1. flags \cup {"data"} \subseteq Flags /\ unsignalled - 1 \in Nat
      BY <1>3 DEF Signal, Flags, DataType
    <3> QED  BY <1>3, <3>1 DEF Signal, DataType
  <2> QED  BY <2>1, <2>2, <2>3
<1>4. CASE IrqRead
  <2>1. PsType'  BY <1>4 DEF IrqRead, PsType
  <2>2. PinType'  BY <1>4 DEF IrqRead, PinType
  <2>3. DataType'  BY <1>4 DEF IrqRead, DataType
  <2> QED  BY <2>1, <2>2, <2>3
<1>5. CASE IrqAct
  <2>1. PsType'  BY <1>5 DEF IrqAct, PsType
  <2>2. PinType'  BY <1>5 DEF IrqAct, PinType
  <2>3. DataType'  BY <1>5 DEF IrqAct, DataType
  <2> QED  BY <2>1, <2>2, <2>3
<1>6. CASE BusIrq
  <2>1. PsType'  BY <1>6 DEF BusIrq, Flags, PsType
  <2>2. PinType'  BY <1>6 DEF BusIrq, Flags, PinType
  <2>3. DataType'  BY <1>6 DEF BusIrq, Flags, DataType
  <2> QED  BY <2>1, <2>2, <2>3
<1>7. CASE ReceiveWork
  <2>1. PsType'  BY <1>7 DEF ReceiveWork, PsType
  <2>2. PinType'  BY <1>7 DEF ReceiveWork, PinType
  <2>3. DataType'
    <3>1. /\ received.statuses \in Nat /\ received.answer \in BOOLEAN
          /\ received.traffic \in {"none", "pause", "resume"}
      BY DEF DataType, Message
    <3>2. /\ pending' \in Nat /\ dropped' \in Nat
          /\ command' \in {"none", "queued", "sent", "answered", "lost"}
      <4> DEFINE late == Least(dropped, received.statuses)
      <4>1. dropped' = dropped - late
            /\ pending' = pending - Least(pending, received.statuses - late)
        BY <1>7 DEF ReceiveWork
      <4>2. pending \in Nat /\ dropped \in Nat  BY DEF DataType
      <4>3. late \in Nat /\ late <= dropped /\ late <= received.statuses
        BY <3>1, <4>2 DEF Least
      <4>4. dropped' \in Nat /\ pending' \in Nat
        <5> HIDE DEF late
        <5> QED  BY <3>1, <4>1, <4>2, <4>3 DEF Least
      <4> QED  BY <1>7, <4>4 DEF ReceiveWork, DataType
    <3>3. flags' \subseteq Flags
      BY <1>7, <3>1 DEF ReceiveWork, DataType, Flags
    <3>4. received' \in Message /\ toHost' \in Message /\ sent' \in Nat
      BY <1>7, NothingIsMessage DEF ReceiveWork, DataType
    <3>5. asks' \in BOOLEAN /\ stopped' \in BOOLEAN /\ queued' \in Nat /\ unsignalled' \in Nat
      BY <1>7 DEF ReceiveWork, DataType
    <3> QED  BY <3>2, <3>3, <3>4, <3>5 DEF DataType
  <2> QED  BY <2>1, <2>2, <2>3
<1>8. CASE AskEvaluate
  <2>1. PsType'  BY <1>8 DEF AskEvaluate, PsType
  <2>2. PinType'  BY <1>8 DEF AskEvaluate, PinType
  <2>3. DataType'  BY <1>8 DEF AskEvaluate, DataType
  <2> QED  BY <2>1, <2>2, <2>3
<1>9. CASE ActivityEnds
  <2>1. PsType'  BY <1>9 DEF ActivityEnds, PsType
  <2>2. PinType'  BY <1>9 DEF ActivityEnds, PinType
  <2>3. DataType'  BY <1>9 DEF ActivityEnds, DataType
  <2> QED  BY <2>1, <2>2, <2>3
<1>10. CASE ChipReports
  <2>1. [toHost EXCEPT !.statuses = @ + sent] \in Message  BY DEF DataType, Message
  <2>2. inputs' \in Nat /\ faults' \in Nat /\ sent' \in Nat
    BY <1>10 DEF ChipReports, PinType, DataType
  <2> QED  BY <1>10, <2>1, <2>2, OfferRest DEF ChipReports
<1>11. CASE ChipAnswers
  <2>1. [toHost EXCEPT !.answer = TRUE] \in Message  BY DEF DataType, Message
  <2>2. inputs' \in Nat /\ faults' \in Nat /\ sent' \in Nat
    BY <1>11 DEF ChipAnswers, PinType, DataType
  <2> QED  BY <1>11, <2>1, <2>2, OfferRest DEF ChipAnswers
<1>12. CASE ChipTraffic
  <2>1. [toHost EXCEPT !.traffic = IF stopped THEN "resume" ELSE "pause"] \in Message
    BY DEF DataType, Message
  <2>2. inputs' \in Nat /\ faults' \in Nat /\ sent' \in Nat
    BY <1>12 DEF ChipTraffic, Input, PinType, DataType
  <2> QED  BY <1>12, <2>1, <2>2, OfferRest DEF ChipTraffic
<1>13. CASE ChipLoses
  <2>1. PsType'  BY <1>13 DEF ChipLoses, PsType
  <2>2. PinType'
    <3>1. inputs' \in Nat /\ faults' \in Nat  BY <1>13 DEF ChipLoses, Fault, PinType
    <3> QED  BY <1>13, <3>1 DEF ChipLoses, PinType
  <2>3. DataType'
    <3>1. toHost.statuses \in Nat /\ received.statuses \in Nat  BY DEF DataType, Message
    <3>2. dropped' \in Nat /\ sent' \in Nat  BY <1>13, <3>1 DEF ChipLoses, Least, DataType
    <3> QED  BY <1>13, <3>2 DEF ChipLoses, DataType
  <2> QED  BY <2>1, <2>2, <2>3
<1>14. CASE ChipIdle
  <2>1. PsType'  BY <1>14 DEF ChipIdle, PsType
  <2>2. PinType'  BY <1>14 DEF ChipIdle, PinType
  <2>3. DataType'  BY <1>14 DEF ChipIdle, DataType
  <2> QED  BY <2>1, <2>2, <2>3
<1>15. CASE ChipWakes
  <2>1. PsType'  BY <1>15 DEF ChipWakes, PsType
  <2>2. PinType'  BY <1>15 DEF ChipWakes, PinType
  <2>3. DataType'  BY <1>15 DEF ChipWakes, DataType
  <2> QED  BY <2>1, <2>2, <2>3
<1> QED  BY <1>1, <1>2, <1>3, <1>4, <1>5, <1>6, <1>7, <1>8, <1>9, <1>10, <1>11, <1>12, <1>13,
            <1>14, <1>15 DEF Aside, Irq, Receive, Chip

LEMMA RestStep == ASSUME Core, Rest, [Next]_vars PROVE Rest'
<1>1. CASE \E t \in Threads : Thread(t)
  <2>1. PICK t \in Threads : Thread(t)  BY <1>1
  <2> QED  BY <2>1, PsRest, UserRest, ServiceRest DEF Thread
<1>2. CASE StartAsync \/ StartEvaluate \/ StartChipIf \/ BeginCommand \/ ConfigPs \/ BeginRestart
             \/ Unregister
  BY <1>2, BeginsRest
<1>3. CASE Aside
  BY <1>3, AsideRest
<1>4. CASE UNCHANGED vars
  BY <1>4 DEF vars, ps, works, data, pins, chip, bounds, Rest, PsType, PinType, DataType
<1> QED  BY <1>1, <1>2, <1>3, <1>4 DEF Next, Inputs, Aside

LEMMA RestInit == Init => Rest
<1> SUFFICES ASSUME Init PROVE Rest  OBVIOUS
<1>1. PsType  BY DEF Init, PsType
<1>2. PinType  BY DEF Init, PinType
<1>3. DataType  BY NothingIsMessage DEF Init, DataType
<1> QED  BY <1>1, <1>2, <1>3 DEF Rest

-----------------------------------------------------------------------------
\* The inductive invariant.
IInv == Core /\ Paired /\ Rest

LEMMA Inductive == Spec => []IInv
<1>1. Init => IInv  BY CoreInit, RestInit DEF IInv
<1>2. IInv /\ [Next]_vars => IInv'  BY CoreStep, RestStep DEF IInv
<1> QED  BY <1>1, <1>2, PTL DEF Spec

\* Types, and the lock of ps.c: a thread holds it exactly where it is in one of
\* its functions.
THEOREM TypeCorrect == Spec => []TypeOK
<1>1. IInv => TypeOK
  <2> SUFFICES ASSUME IInv PROVE TypeOK  OBVIOUS
  <2>1. CoreType /\ Held  BY DEF IInv, Core
  <2>2. PsType /\ PinType /\ DataType  BY DEF IInv, Rest
  <2> QED  BY <2>1, <2>2 DEF TypeOK, CoreType, Held, PsType, PinType, DataType, Flags
<1> QED  BY <1>1, Inductive, PTL

\* The calls of morse_ps_disable() and morse_ps_enable() of all threads are
\* paired (ps.h): the count of wakers is what they owe, in every interleaving.
THEOREM Pairing == Spec => []WakersPaired
<1>1. IInv => WakersPaired  BY DEF IInv, Paired
<1> QED  BY <1>1, Inductive, PTL

\* morse_ps_sleep() never suspends the bus under a user of the chip, also not
\* when the decision of morse_ps_evaluate() is old by the time it acts.
THEOREM Awake == Spec => []UsedAwake
<1>1. IInv => UsedAwake  BY DEF IInv, Paired
<1> QED  BY <1>1, Inductive, PTL
=============================================================================
