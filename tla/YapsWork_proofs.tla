--------------------------- MODULE YapsWork_proofs --------------------------
(***************************************************************************)
(* Theorems about YapsWork, for every number of data queues, packets and   *)
(* messages, every burst, receive window and size of the chip's queues.    *)
(***************************************************************************)
EXTENDS YapsWork, SequenceTheorems, TLAPS

-----------------------------------------------------------------------------
\* The data queues are channels, and the first one is there.
LEMMA DataQueues ==
  /\ Len(DataQs) \in Nat /\ DOMAIN DataQs = 1 .. Len(DataQs)
  /\ \A i \in 1 .. Len(DataQs) : DataQs[i] \in Range(DataQs)
  /\ Head(DataQs) \in Range(DataQs)
<1>1. DataQs \in Seq(STRING) /\ DataQs # <<>>  BY YapsWorkAssumption
<1>2. Len(DataQs) \in Nat /\ DOMAIN DataQs = 1 .. Len(DataQs)
  BY <1>1, LenProperties
<1>3. Len(DataQs) > 0 /\ Head(DataQs) = DataQs[1]  BY <1>1, EmptySeq
<1>4. \A i \in 1 .. Len(DataQs) : DataQs[i] \in Range(DataQs)
  BY <1>2 DEF Range
<1> QED  BY <1>2, <1>3, <1>4

\* The loop goes on with another data queue or ends.
LEMMA NextDataQType ==
  ASSUME NEW c \in Range(DataQs)
  PROVE  NextDataQ(c) \in Range(DataQs) \cup {"dataend"}
<1> DEFINE i == CHOOSE j \in DOMAIN DataQs : DataQs[j] = c
<1>1. \E j \in DOMAIN DataQs : DataQs[j] = c  BY DEF Range
<1>2. i \in 1 .. Len(DataQs)  BY <1>1, DataQueues
<1>3. i < Len(DataQs) => i + 1 \in 1 .. Len(DataQs)  BY <1>2, DataQueues
<1>4. NextDataQ(c) = IF i < Len(DataQs) THEN DataQs[i + 1] ELSE "dataend"
  BY DEF NextDataQ
<1> HIDE DEF i
<1> QED  BY <1>3, <1>4, DataQueues

LEMMA Min2Type ==
  ASSUME NEW a \in Nat, NEW b \in Nat
  PROVE  Min2(a, b) \in Nat /\ Min2(a, b) <= a /\ Min2(a, b) <= b
BY DEF Min2

\* What Write takes fits the chip's queue, and no more than it has in hand.
LEMMA TakenFits ==
  ASSUME NEW size \in Nat, NEW held \in 0 .. size, NEW k \in Nat
  PROVE  /\ Min2(k, size - held) \in 0 .. k
         /\ held + Min2(k, size - held) \in 0 .. size
<1>1. size - held \in Nat  OBVIOUS
<1>2. CASE k < size - held  BY <1>1, <1>2 DEF Min2
<1>3. CASE ~(k < size - held)  BY <1>1, <1>3 DEF Min2
<1> QED  BY <1>2, <1>3

-----------------------------------------------------------------------------
(* Type correctness.                                                       *)

LEMMA InitType == Init => TypeOK
<1> SUFFICES ASSUME Init PROVE TypeOK  OBVIOUS
<1> USE YapsWorkAssumption
<1>1. <<>> \in Seq(Msgs)  BY EmptySeq
<1>2. 0 \in 0 .. Burst /\ 0 \in 0 .. ChipSize  OBVIOUS
<1>3. "cmd" \in Chans /\ "idle" \in Stages /\ "resume" \in {"pause", "resume"}
  BY DEF Chans, Others, Stages
<1> QED  BY <1>1, <1>2, <1>3 DEF Init, TypeOK

\* What a step that writes leaves in the fields that Sent sets.
LEMMA SentType ==
  ASSUME TypeOK, NEW failed \in BOOLEAN, Sent(failed)
  PROVE  /\ flags' \subseteq Flags /\ pc' \in Stages \cup Chans
         /\ more' \in BOOLEAN /\ isFull' \in BOOLEAN
<1>1. CASE chan \in Others
  <2>1. After(chan) \in Stages \cup Chans
    BY <1>1 DEF After, Others, Stages, Chans
  <2> QED  BY <1>1, <2>1 DEF TypeOK, Sent, Flags
<1>2. CASE chan \notin Others
  <2>1. chan \in Range(DataQs)  BY <1>2 DEF TypeOK, Chans
  <2>2. NextDataQ(chan) \in Stages \cup Chans
    BY <2>1, NextDataQType DEF Stages, Chans
  <2>3. "dataend" \in Stages  BY DEF Stages
  <2> QED  BY <1>2, <2>2, <2>3 DEF TypeOK, Sent
<1> QED  BY <1>1, <1>2

LEMMA StepType == TypeOK /\ [Next]_vars => TypeOK'
<1> SUFFICES ASSUME TypeOK, [Next]_vars PROVE TypeOK'  OBVIOUS
<1> USE YapsWorkAssumption
<1> USE DEF TypeOK, senders, worker, full, chip, host
<1>1. ASSUME NEW c \in Chans, Put(c) PROVE TypeOK'
  <2>1. supply[c] \in Nat \ {0} /\ q[c] \in Nat /\ unsignalled[c] \in Nat
    BY <1>1 DEF Put
  <2>2. supply' \in [Chans -> Nat]  BY <1>1, <2>1, SMTT(30) DEF Put
  <2>3. q' \in [Chans -> Nat]  BY <1>1, <2>1, SMTT(30) DEF Put
  <2>4. unsignalled' \in [Chans -> Nat]  BY <1>1, <2>1, SMTT(30) DEF Put
  <2> QED  BY <1>1, <2>2, <2>3, <2>4, SMTT(30) DEF Put
<1>2. ASSUME NEW c \in Chans, Signal(c) PROVE TypeOK'
  <2>1. FlagOf(c) \in Flags  BY DEF FlagOf, Flags
  <2>2. unsignalled' \in [Chans -> Nat]
    <3>1. unsignalled[c] \in Nat \ {0}  BY <1>2 DEF Signal
    <3> QED  BY <1>2, <3>1 DEF Signal
  <2>3. flags' \subseteq Flags /\ work' \in BOOLEAN
    BY <1>2, <2>1 DEF Signal
  <2> QED  BY <1>2, <2>2, <2>3 DEF Signal
<1>3. CASE Start  BY <1>3 DEF Start, Stages
<1>4. CASE Rx
  <2>1. pc' \in Stages \cup Chans  BY <1>4 DEF Rx, Chans, Others
  <2>2. CASE /\ UNCHANGED <<toHost, rxq, dispatch>> /\ flags' \subseteq Flags
             /\ errors' \in Nat
    BY <1>4, <2>1, <2>2 DEF Rx
  <2>3. CASE "rx" \in flags /\ UNCHANGED errors
             /\ LET n == Min2(Len(toHost), RxBurst) IN
                /\ rxq' = rxq \o SubSeq(toHost, 1, n)
                /\ toHost' = SubSeq(toHost, n + 1, Len(toHost))
                /\ dispatch' = (dispatch \/ n > 0)
             /\ flags' = IF toHost' = <<>> THEN flags \ {"rx"} ELSE flags
    <3> DEFINE n == Min2(Len(toHost), RxBurst)
    <3>1. Len(toHost) \in Nat /\ n \in Nat /\ n <= Len(toHost)
      BY LenProperties, Min2Type
    <3>2. \A i \in 1 .. Len(toHost) : toHost[i] \in Msgs  BY ElementOfSeq
    <3>3. SubSeq(toHost, 1, n) \in Seq(Msgs)
      BY <3>1, <3>2, SubSeqProperties
    <3>4. SubSeq(toHost, n + 1, Len(toHost)) \in Seq(Msgs)
      BY <3>1, <3>2, SubSeqProperties
    <3>5. rxq \o SubSeq(toHost, 1, n) \in Seq(Msgs)
      BY <3>3, ConcatProperties
    <3>6. (n > 0) \in BOOLEAN  OBVIOUS
    <3>7. rxq' \in Seq(Msgs) /\ toHost' \in Seq(Msgs)  BY <2>3, <3>4, <3>5
    <3>8. flags' \subseteq Flags  BY <2>3
    <3>9. dispatch' \in BOOLEAN  BY <2>3
    <3> HIDE DEF n
    <3> QED  BY <1>4, <2>1, <2>3, <3>7, <3>8, <3>9 DEF Rx
  <2>4. CASE "rx" \notin flags /\ UNCHANGED <<flags, toHost, rxq, dispatch, errors>>
    BY <2>2, <2>4
  <2>5. CASE /\ flags' \in {flags, flags \ {"rx"}}
             /\ errors' = errors + 1 /\ UNCHANGED <<toHost, rxq, dispatch>>
    <3>1. flags' \subseteq Flags /\ errors' \in Nat  BY <2>5
    <3> QED  BY <2>2, <2>5, <3>1
  <2> QED  BY <1>4, <2>3, <2>4, <2>5, Zenon DEF Rx
<1>5. ASSUME NEW c \in Others, TxOther(c) PROVE TypeOK'
  <2>1. After(c) \in Stages \cup Chans /\ c \in Chans /\ "write" \in Stages
    BY DEF After, Others, Stages, Chans
  <2>2. CASE UNCHANGED <<chan, sending, q>> /\ pc' = After(c)
    BY <1>5, <2>1, <2>2, SMTT(30) DEF TxOther
  <2>3. ASSUME NEW aged \in 0 .. q[c],
               chan' = c, sending' = Min2(q[c] - aged, Burst), pc' = "write",
               q' = [q EXCEPT ![c] = @ - aged - sending']
        PROVE  TypeOK'
    <3>1. q[c] \in Nat /\ q[c] - aged \in Nat  BY <2>1
    <3>2. sending' \in 0 .. Burst /\ sending' <= q[c] - aged
      <4>1. ASSUME NEW a \in Nat PROVE Min2(a, Burst) \in 0 .. Burst /\ Min2(a, Burst) <= a
        BY <4>1 DEF Min2
      <4> QED  BY <2>3, <3>1, <4>1
    <3>3. q' \in [Chans -> Nat]
      <4>1. q[c] - aged - sending' \in Nat  BY <3>1, <3>2, SMTT(30)
      <4> QED  BY <2>1, <2>3, <4>1
    <3> QED  BY <1>5, <2>1, <2>3, <3>2, <3>3 DEF TxOther
  <2>4. CASE c \in flags /\ q[c] > 0
    <3>1. PICK aged \in IF c = "mgmt" THEN 0 .. q[c] ELSE {0} :
               /\ chan' = c
               /\ sending' = Min2(q[c] - aged, Burst)
               /\ q' = [q EXCEPT ![c] = @ - aged - sending']
               /\ pc' = "write"
      BY <1>5, <2>4 DEF TxOther
    <3>2. aged \in 0 .. q[c]  BY <2>1
    <3> QED  BY <2>3, <3>1, <3>2
  <2>5. CASE ~(c \in flags /\ q[c] > 0)  BY <1>5, <2>2, <2>5 DEF TxOther
  <2> QED  BY <2>4, <2>5
<1>6. CASE Write
  <2> DEFINE n == Min2(sending, ChipSize - onChip[ChipQ(chan)])
  <2>1. ChipQ(chan) \in ChipQs  BY DEF ChipQ, ChipQs
  <2>2. onChip[ChipQ(chan)] \in 0 .. ChipSize  BY <2>1
  <2>3. n \in 0 .. sending /\ onChip[ChipQ(chan)] + n \in 0 .. ChipSize
    <3>1. ChipSize \in Nat /\ sending \in Nat  OBVIOUS
    <3> QED  BY ONLY <2>2, <3>1, TakenFits
  <2>4. onChip' \in [ChipQs -> 0 .. ChipSize]  BY <1>6, <2>1, <2>3 DEF Write
  <2>5. q' \in [Chans -> Nat]
    <3>1. q[chan] + (sending - n) \in Nat
      <4>1. q[chan] \in Nat /\ sending \in Nat  OBVIOUS
      <4> QED  BY ONLY <2>3, <4>1
    <3> QED  BY <1>6, <3>1 DEF Write
  <2>6. Sent(n = 0)  BY <1>6 DEF Write
  <2>7. /\ flags' \subseteq Flags /\ pc' \in Stages \cup Chans
        /\ more' \in BOOLEAN /\ isFull' \in BOOLEAN
    BY <2>6, SentType
  <2> HIDE DEF n
  <2> QED  BY <1>6, <2>4, <2>5, <2>7 DEF Write
<1>7. CASE WriteError
  <2>1. /\ flags' \subseteq Flags /\ pc' \in Stages \cup Chans
        /\ more' \in BOOLEAN /\ isFull' \in BOOLEAN
    BY <1>7, SentType DEF WriteError
  <2> QED  BY <1>7, <2>1 DEF WriteError
<1>8. CASE Pause  BY <1>8 DEF Pause, Stages
<1>9. CASE Resume  BY <1>9 DEF Resume, Stages, Flags
<1>10. CASE CheckFull  BY <1>10 DEF CheckFull, Stages
<1>11. CASE Data
  <2>1. Head(DataQs) \in Chans  BY DataQueues DEF Chans
  <2> QED  BY <1>11, <2>1 DEF Data, Stages
<1>12. ASSUME NEW c \in Range(DataQs), TxData(c) PROVE TypeOK'
  <2>1. c \in Chans /\ NextDataQ(c) \in Stages \cup Chans
    BY NextDataQType DEF Chans, Stages
  <2>2. "write" \in Stages /\ "dataend" \in Stages  BY DEF Stages
  <2>3. CASE Allowed /\ q[c] > 0
    <3>1. q[c] \in Nat  BY <2>1
    <3>2. sending' \in 0 .. Burst /\ sending' <= q[c]
      <4>1. sending' = Min2(q[c], Burst)  BY <1>12, <2>3 DEF TxData
      <4> QED  BY <3>1, <4>1 DEF Min2
    <3>3. q' \in [Chans -> Nat]
      <4>1. q[c] - sending' \in Nat  BY <3>1, <3>2
      <4> QED  BY <1>12, <2>1, <2>3, <4>1, ZenonT(60) DEF TxData
    <3> QED  BY <1>12, <2>1, <2>2, <2>3, <3>2, <3>3 DEF TxData
  <2>4. CASE ~(Allowed /\ q[c] > 0)
    BY <1>12, <2>1, <2>2, <2>4 DEF TxData
  <2> QED  BY <2>3, <2>4
<1>13. CASE DataEnd  BY <1>13 DEF DataEnd, Stages, Flags
<1>14. CASE End  BY <1>14 DEF End, Again, Stages
<1>15. CASE RetryTime  BY <1>15 DEF RetryTime
<1>16. CASE TimerFire  BY <1>16 DEF TimerFire
<1>17. CASE Irq  BY <1>17 DEF Irq, Flags
<1>18. ASSUME NEW t \in ChipQs, ChipTake(t) PROVE TypeOK'
  <2>1. onChip' \in [ChipQs -> 0 .. ChipSize]  BY <1>18, SMTT(30) DEF ChipTake
  <2> QED  BY <1>18, <2>1, SMTT(30) DEF ChipTake
<1>19. ASSUME NEW m \in Msgs, ChipSend(m) PROVE TypeOK'
  <2>1. toHost' \in Seq(Msgs)  BY <1>19, AppendProperties DEF ChipSend
  <2>2. lastEv' \in {"pause", "resume"}  BY <1>19 DEF ChipSend, Msgs
  <2> QED  BY <1>19, <2>1, <2>2 DEF ChipSend
<1>20. CASE DispatchStart
  <2>1. <<>> \in Seq(Msgs)  BY EmptySeq
  <2> QED  BY <1>20, <2>1 DEF DispatchStart
<1>21. CASE DispatchMsg
  <2>1. Head(handling) \in Msgs /\ Tail(handling) \in Seq(Msgs)
    BY <1>21, HeadTailProperties DEF DispatchMsg
  <2>2. flags' \subseteq Flags
    BY <1>21, <2>1 DEF DispatchMsg, Flags, Msgs
  <2> QED  BY <1>21, <2>1, <2>2 DEF DispatchMsg
<1>22. CASE DispatchEnd  BY <1>22 DEF DispatchEnd, Flags
<1>23. CASE UNCHANGED vars  BY <1>23 DEF vars
<1> QED
  BY <1>1, <1>2, <1>3, <1>4, <1>5, <1>6, <1>7, <1>8, <1>9, <1>10, <1>11, <1>12,
     <1>13, <1>14, <1>15, <1>16, <1>17, <1>18, <1>19, <1>20, <1>21, <1>22, <1>23
  DEF Next, WorkStep, DispatchStep, Msgs

\* The state stays within its types, the chip's queues within their size, for
\* every configuration.
THEOREM TypeCorrect == Spec => []TypeOK
<1> QED  BY InitType, StepType, PTL DEF Spec

-----------------------------------------------------------------------------
(* Pause.  The traffic is not stopped while data is on its way to the chip.  *)

Sending == pc = "write" /\ chan \notin Others => ~stopped

LEMMA StepSending == TypeOK /\ Sending /\ [Next]_vars => Sending'
<1> SUFFICES ASSUME TypeOK, Sending, [Next]_vars PROVE Sending'  OBVIOUS
<1> USE YapsWorkAssumption
<1> USE DEF Sending, senders, worker, full, chip, host
<1>1. ASSUME NEW c \in Chans, Put(c) \/ Signal(c) PROVE Sending'
  BY <1>1 DEF Put, Signal
<1>2. CASE Start \/ Rx  BY <1>2 DEF Start, Rx
<1>3. ASSUME NEW c \in Others, TxOther(c) PROVE Sending'
  <2>1. After(c) # "write"  BY DEF After, Others
  <2> QED  BY <1>3, <2>1 DEF TxOther
<1>4. CASE Write \/ WriteError
  <2>1. PICK failed \in BOOLEAN : Sent(failed)  BY <1>4 DEF Write, WriteError
  <2>2. pc' # "write"
    <3>1. CASE chan \in Others  BY <2>1, <3>1 DEF Sent, After, Others
    <3>2. CASE chan \notin Others
      <4>1. chan \in Range(DataQs)  BY <3>2 DEF TypeOK, Chans
      <4>2. NextDataQ(chan) # "write"  BY <4>1, NextDataQType DEF Stages
      <4> QED  BY <2>1, <3>2, <4>2 DEF Sent
    <3> QED  BY <3>1, <3>2
  <2> QED  BY <2>2
<1>5. CASE Pause \/ Resume  BY <1>5 DEF Pause, Resume
<1>6. CASE CheckFull \/ Data
  <2>1. Head(DataQs) # "write"  BY DataQueues DEF Stages
  <2> QED  BY <1>6, <2>1 DEF CheckFull, Data
<1>7. ASSUME NEW c \in Range(DataQs), TxData(c) PROVE Sending'
  <2>1. NextDataQ(c) # "write"  BY NextDataQType DEF Stages
  <2> QED  BY <1>7, <2>1 DEF TxData, Allowed
<1>8. CASE DataEnd \/ End  BY <1>8 DEF DataEnd, End
<1>9. CASE RetryTime \/ TimerFire \/ Irq  BY <1>9 DEF RetryTime, TimerFire, Irq
<1>10. ASSUME NEW t \in ChipQs, ChipTake(t) PROVE Sending'  BY <1>10 DEF ChipTake
<1>11. ASSUME NEW m \in Msgs, ChipSend(m) PROVE Sending'  BY <1>11 DEF ChipSend
<1>12. CASE DispatchStep
  BY <1>12 DEF DispatchStep, DispatchStart, DispatchMsg, DispatchEnd
<1>13. CASE UNCHANGED vars  BY <1>13 DEF vars
<1> QED
  BY <1>1, <1>2, <1>3, <1>4, <1>5, <1>6, <1>7, <1>8, <1>9, <1>10, <1>11, <1>12, <1>13
  DEF Next, WorkStep, Msgs

\* Only Write fills the chip's data queue, and it leaves the traffic as it is.
LEMMA StepPaused ==
  TypeOK /\ Sending /\ [Next]_vars
    => (onChip'["tx"] > onChip["tx"] => ~stopped /\ ~stopped')
<1> SUFFICES ASSUME TypeOK, Sending, [Next]_vars, onChip'["tx"] > onChip["tx"]
             PROVE  ~stopped /\ ~stopped'
  OBVIOUS
<1> USE DEF senders, worker, full, chip, host
<1>1. onChip["tx"] \in Nat  BY YapsWorkAssumption DEF TypeOK, ChipQs
<1>2. onChip' # onChip  BY <1>1
<1>3. CASE Write
  <2>1. chan \notin Others
    <3> SUFFICES ASSUME chan \in Others PROVE FALSE  OBVIOUS
    <3>1. ChipQ(chan) # "tx"  BY DEF ChipQ, Others
    <3>2. onChip'["tx"] = onChip["tx"]
      BY <1>3, <3>1 DEF Write, TypeOK, ChipQs
    <3> QED  BY <1>1, <3>2
  <2> QED  BY <1>3, <2>1 DEF Write, Sending
<1>4. ASSUME NEW t \in ChipQs, ChipTake(t) PROVE FALSE
  <2>1. onChip'["tx"] = IF t = "tx" THEN onChip["tx"] - 1 ELSE onChip["tx"]
    BY <1>4 DEF ChipTake, TypeOK, ChipQs
  <2> QED  BY <1>1, <2>1
<1>5. ASSUME ~Write, \A t \in ChipQs : ~ChipTake(t) PROVE UNCHANGED onChip
  BY <1>5 DEF Next, WorkStep, DispatchStep, vars, Put, Signal, Start, Rx, TxOther,
     WriteError, Pause, Resume, CheckFull, Data, TxData, DataEnd, End, RetryTime,
     TimerFire, Irq, ChipSend, DispatchStart, DispatchMsg, DispatchEnd
<1> QED  BY <1>2, <1>3, <1>4, <1>5

\* However the pause falls into a run of the chip's work, no data packet reaches
\* the chip between the moment the traffic is stopped and its resumption.
THEOREM PauseCorrect == Spec => NoDataWhilePaused
<1>1. Init => TypeOK /\ Sending
  <2>1. Init => Sending  BY DEF Init, Sending
  <2> QED  BY <2>1, InitType
<1>2. TypeOK /\ Sending /\ [Next]_vars => (TypeOK /\ Sending)'
  BY StepType, StepSending
<1>3. TypeOK /\ Sending /\ [Next]_vars
        => [onChip'["tx"] > onChip["tx"] => ~stopped /\ ~stopped']_vars
  BY StepPaused
<1> QED  BY <1>1, <1>2, <1>3, PTL DEF Spec, NoDataWhilePaused

-----------------------------------------------------------------------------
(* Lost wakeups.  Events, Retried and WorkKept are inductive together.       *)

DataQ == Range(DataQs)
Position(c) == CHOOSE j \in DOMAIN DataQs : DataQs[j] = c

\* The queue whose turn it is, when the work is at a queue or sending from it.
Turn == IF pc = "write" THEN chan ELSE pc

\* A packet was put into queue c, and every sender has signalled its own.
Left(c) == q[c] > 0 /\ unsignalled[c] = 0

\* While the work is not running it is queued for every event, but a data event
\* that the retry timer answers for.
Events == pc = "idle" => work \/ flags = {} \/ (flags \subseteq {"data"} /\ isFull /\ timer)

\* A full chip queue that is left alone has a timer, unless room has come up.
Retried ==
    /\ isFull /\ ~past => timer \/ "freed" \in flags \/ pc = "dataend"
    /\ pc = "end" /\ isFull /\ "data" \in flags => timer \/ work

\* What is left in a queue has its event, or the work is going to set it.
OtherCovered(c) == c \in flags \/ (pc = "write" /\ chan = c)
DataCovered(c) ==
    \/ "data" \in flags \/ ~Allowed
    \/ more /\ (Turn \in DataQ \/ pc = "dataend")
    \/ Turn \in DataQ /\ Position(c) >= Position(Turn)
WorkKept ==
    errors = 0 =>
        /\ \A c \in Others : Left(c) => OtherCovered(c)
        /\ \A c \in DataQ : Left(c) => DataCovered(c)
        /\ pc = "write" /\ chan \in DataQ => sending > 0

LEMMA Positions ==
  /\ DataQ \cap (Others \cup Stages) = {} /\ Chans = Others \cup DataQ
  /\ \A c \in DataQ : Position(c) \in 1 .. Len(DataQs) /\ DataQs[Position(c)] = c
  /\ \A i \in 1 .. Len(DataQs) : DataQs[i] \in DataQ /\ Position(DataQs[i]) = i
  /\ Len(DataQs) \in Nat
<1>1. Len(DataQs) \in Nat /\ DOMAIN DataQs = 1 .. Len(DataQs)
      /\ \A i \in 1 .. Len(DataQs) : DataQs[i] \in DataQ
  BY DataQueues DEF DataQ
<1>2. ASSUME NEW c \in DataQ
      PROVE  Position(c) \in 1 .. Len(DataQs) /\ DataQs[Position(c)] = c
  <2>1. \E j \in DOMAIN DataQs : DataQs[j] = c  BY DEF DataQ, Range
  <2> QED  BY <1>1, <2>1 DEF Position
<1>3. ASSUME NEW i \in 1 .. Len(DataQs)  PROVE Position(DataQs[i]) = i
  <2>1. /\ Position(DataQs[i]) \in 1 .. Len(DataQs)
        /\ DataQs[Position(DataQs[i])] = DataQs[i]
    BY <1>1, <1>2
  <2> QED  BY <1>1, <2>1, YapsWorkAssumption
<1> QED  BY <1>1, <1>2, <1>3, YapsWorkAssumption DEF DataQ, Chans

\* The first data queue comes before all, and NextDataQ leaves none out.
LEMMA Turns ==
  /\ \A d \in DataQ : Position(d) >= Position(Head(DataQs))
  /\ \A c \in DataQ : \A d \in DataQ : d # c /\ Position(d) >= Position(c) =>
        NextDataQ(c) \in DataQ /\ Position(d) >= Position(NextDataQ(c))
  /\ \A c \in DataQ : NextDataQ(c) \in DataQ \/ NextDataQ(c) = "dataend"
<1>1. Head(DataQs) = DataQs[1] /\ 1 \in 1 .. Len(DataQs)
  <2>1. DataQs \in Seq(STRING) /\ DataQs # <<>>  BY YapsWorkAssumption
  <2> QED  BY <2>1, EmptySeq, Positions
<1>2. \A d \in DataQ : Position(d) >= Position(Head(DataQs))
  BY <1>1, Positions
<1>3. ASSUME NEW c \in DataQ
      PROVE  NextDataQ(c) = IF Position(c) < Len(DataQs) THEN DataQs[Position(c) + 1]
                            ELSE "dataend"
  BY DEF NextDataQ, Position
<1>4. ASSUME NEW c \in DataQ, Position(c) < Len(DataQs)
      PROVE  NextDataQ(c) \in DataQ /\ Position(NextDataQ(c)) = Position(c) + 1
  <2>1. Position(c) + 1 \in 1 .. Len(DataQs)  BY <1>4, Positions
  <2> QED  BY <1>3, <1>4, <2>1, Positions
<1>5. ASSUME NEW c \in DataQ, NEW d \in DataQ, d # c, Position(d) >= Position(c)
      PROVE  NextDataQ(c) \in DataQ /\ Position(d) >= Position(NextDataQ(c))
  <2>1. Position(d) \in 1 .. Len(DataQs) /\ Position(c) \in 1 .. Len(DataQs)
        /\ Position(d) # Position(c)
    BY <1>5, Positions
  <2>2. Position(c) < Len(DataQs) /\ Position(c) + 1 <= Position(d)
    BY <1>5, <2>1, Positions
  <2> QED  BY <1>4, <2>2
<1>6. ASSUME NEW c \in DataQ  PROVE NextDataQ(c) \in DataQ \/ NextDataQ(c) = "dataend"
  BY <1>3, <1>4
<1> QED  BY <1>2, <1>5, <1>6

LEMMA InitKept == Init => Events /\ Retried /\ WorkKept
<1> SUFFICES ASSUME Init  PROVE Events /\ Retried /\ WorkKept  OBVIOUS
<1>1. \A c \in Chans : ~Left(c)  BY DEF Init, Left
<1>2. pc = "idle" /\ flags = {} /\ isFull = FALSE  BY DEF Init
<1> QED  BY <1>1, <1>2, Positions DEF Events, Retried, WorkKept

\* Only the work's own steps start it, end it or take a data event away.
LEMMA StepEvents ==
  TypeOK /\ Events /\ Retried /\ [Next]_vars => Events' /\ Retried'
<1> SUFFICES ASSUME TypeOK, Events, Retried, [Next]_vars  PROVE Events' /\ Retried'
  OBVIOUS
<1> USE DEF senders, worker, full, chip, host
<1>1. ASSUME UNCHANGED <<pc, isFull, past, timer>>, flags \subseteq flags', work => work',
             flags' # flags => work'
      PROVE  Events' /\ Retried'
  BY <1>1 DEF Events, Retried
<1>2. ASSUME NEW c \in Chans, Put(c)  PROVE Events' /\ Retried'
  BY <1>1, <1>2 DEF Put
<1>3. ASSUME NEW c \in Chans, Signal(c)  PROVE Events' /\ Retried'
  <2>1. UNCHANGED <<pc, isFull, past, timer>>  BY <1>3 DEF Signal
  <2>2. CASE c \in Others \/ Allowed
    <3>1. flags' = flags \cup {FlagOf(c)} /\ work' = TRUE  BY <1>3, <2>2 DEF Signal
    <3> QED  BY <1>1, <2>1, <3>1
  <2>3. CASE ~(c \in Others \/ Allowed)
    <3>1. UNCHANGED <<flags, work>>  BY <1>3, <2>3 DEF Signal
    <3> QED  BY <1>1, <2>1, <3>1
  <2> QED  BY <2>2, <2>3
<1>4. CASE Start
  <2>1. UNCHANGED <<flags, isFull, past, timer>> /\ pc = "idle"
        /\ pc' = IF flags = {} THEN "idle" ELSE "rx"
    BY <1>4 DEF Start
  <2> QED  BY <2>1 DEF Events, Retried
<1>5. CASE Rx
  <2>1. UNCHANGED <<isFull, past, timer>> /\ pc = "rx" /\ pc' = "cmd"
    BY <1>5 DEF Rx
  <2>2. "freed" \in flags => "freed" \in flags'  BY <1>5 DEF Rx
  <2> QED  BY <2>1, <2>2 DEF Events, Retried
<1>6. ASSUME NEW c \in Others, TxOther(c)  PROVE Events' /\ Retried'
  <2>1. UNCHANGED <<isFull, past, timer>> /\ flags' = flags \ {c} /\ pc = c
    BY <1>6 DEF TxOther
  <2>2. pc # "dataend" /\ pc' \notin {"idle", "end"} /\ c # "freed"
    BY <1>6 DEF TxOther, After, Others
  <2> QED  BY <2>1, <2>2 DEF Events, Retried
<1>7. CASE Write \/ WriteError
  <2>1. PICK failed \in BOOLEAN : Sent(failed)  BY <1>7 DEF Write, WriteError
  <2>2. UNCHANGED <<past, timer>> /\ pc = "write"  BY <1>7 DEF Write, WriteError
  <2>3. CASE chan \in Others
    <3>1. isFull' = isFull /\ flags \subseteq flags' /\ pc' = After(chan)
      BY <2>1, <2>3 DEF Sent
    <3>2. pc' \notin {"idle", "end"}  BY <2>3, <3>1 DEF After, Others
    <3> QED  BY <2>2, <3>1, <3>2 DEF Events, Retried
  <2>4. CASE chan \notin Others
    <3>1. chan \in DataQ  BY <2>4, Positions DEF TypeOK
    <3>2. isFull' = failed /\ flags' = flags
          /\ pc' = IF failed THEN "dataend" ELSE NextDataQ(chan)
      BY <2>1, <2>4 DEF Sent
    <3>3. pc' \notin {"idle", "end"}
      BY <3>1, <3>2, Turns, Positions DEF Stages
    <3> QED  BY <2>2, <3>2, <3>3 DEF Events, Retried
  <2> QED  BY <2>3, <2>4
<1>8. CASE Pause
  <2>1. UNCHANGED <<isFull, past, timer>> /\ pc = "pause" /\ pc' = "resume"
        /\ ("freed" \in flags => "freed" \in flags')
    BY <1>8 DEF Pause
  <2> QED  BY <2>1 DEF Events, Retried
<1>9. CASE Resume
  <2>1. UNCHANGED <<isFull, past, timer>> /\ pc = "resume" /\ pc' = "full"
        /\ ("freed" \in flags => "freed" \in flags')
    BY <1>9 DEF Resume
  <2> QED  BY <2>1 DEF Events, Retried
<1>10. CASE CheckFull
  <2>1. UNCHANGED <<past, timer>> /\ pc = "full" /\ flags' = flags \ {"freed"}
        /\ isFull' = (isFull /\ "freed" \notin flags)
        /\ pc' = IF isFull' /\ ~past THEN "end" ELSE "data"
    BY <1>10 DEF CheckFull
  <2>2. isFull' /\ ~past => timer  BY <2>1 DEF Retried
  <2> QED  BY <2>1, <2>2 DEF Events, Retried
<1>11. CASE Data
  <2>1. UNCHANGED <<isFull, past, timer>> /\ pc = "data"
        /\ ("freed" \in flags => "freed" \in flags')
    BY <1>11 DEF Data
  <2>2. CASE "data" \in flags
    <3>1. pc' = Head(DataQs)  BY <1>11, <2>2 DEF Data
    <3>2. pc' \in DataQ  BY <3>1, DataQueues DEF DataQ
    <3>3. pc' \notin {"idle", "end"}  BY <3>2, Positions DEF Stages
    <3> QED  BY <2>1, <3>3 DEF Events, Retried
  <2>3. CASE "data" \notin flags
    <3>1. pc' = "end" /\ flags' = flags  BY <1>11, <2>3 DEF Data
    <3> QED  BY <2>1, <2>3, <3>1 DEF Events, Retried
  <2> QED  BY <2>2, <2>3
<1>12. ASSUME NEW c \in DataQ, TxData(c)  PROVE Events' /\ Retried'
  <2>1. UNCHANGED <<flags, past, timer>> /\ pc = c /\ (isFull' => isFull)
    BY <1>12 DEF TxData
  <2>2. pc' \in {"write", NextDataQ(c), "dataend"}  BY <1>12 DEF TxData
  <2>3. pc # "dataend" /\ pc' \notin {"idle", "end"}
    BY <2>1, <2>2, Turns, Positions DEF Stages
  <2> QED  BY <2>1, <2>3 DEF Events, Retried
<1>13. CASE DataEnd
  <2>1. pc' = "end" /\ isFull' = isFull /\ timer' = (timer \/ isFull)
    BY <1>13 DEF DataEnd
  <2> QED  BY <2>1 DEF Events, Retried
<1>14. CASE End
  <2>1. UNCHANGED <<flags, isFull, past, timer>> /\ pc = "end" /\ pc' = "idle"
        /\ work' = (work \/ Again)
    BY <1>14 DEF End
  <2>2. CASE work'  BY <2>1, <2>2 DEF Events, Retried
  <2>3. CASE ~work'
    <3>1. ~work /\ flags \subseteq {"data"} /\ (isFull \/ flags = {})
      BY <2>1, <2>3 DEF Again
    <3> QED  BY <2>1, <3>1 DEF Events, Retried
  <2> QED  BY <2>2, <2>3
<1>15. CASE RetryTime  BY <1>15 DEF RetryTime, Events, Retried
<1>16. CASE TimerFire  BY <1>16 DEF TimerFire, Events, Retried
<1>17. CASE Irq  BY <1>17 DEF Irq, Events, Retried
<1>18. ASSUME NEW t \in ChipQs, ChipTake(t)  PROVE Events' /\ Retried'
  <2>1. UNCHANGED <<pc, isFull, past, timer, flags, work>>  BY <1>18 DEF ChipTake
  <2> QED  BY <1>1, <2>1
<1>19. ASSUME NEW m \in Msgs, ChipSend(m)  PROVE Events' /\ Retried'
  <2>1. UNCHANGED <<pc, isFull, past, timer, flags, work>>  BY <1>19 DEF ChipSend
  <2> QED  BY <1>1, <2>1
<1>20. CASE DispatchStep
  <2>1. UNCHANGED <<pc, isFull, past, timer>>
    BY <1>20 DEF DispatchStep, DispatchStart, DispatchMsg, DispatchEnd
  <2>2. CASE DispatchStart  BY <1>1, <2>1, <2>2 DEF DispatchStart
  <2>3. CASE DispatchMsg
    <3>1. flags' = flags \cup ({Head(handling)} \ {"packet"})
          /\ work' = (work \/ Head(handling) # "packet")
      BY <2>3 DEF DispatchMsg
    <3>2. flags' # flags => Head(handling) # "packet"  BY <3>1
    <3> QED  BY <1>1, <2>1, <3>1, <3>2
  <2>4. CASE DispatchEnd  BY <1>1, <2>1, <2>4 DEF DispatchEnd
  <2> QED  BY <1>20, <2>2, <2>3, <2>4 DEF DispatchStep
<1>21. CASE UNCHANGED vars  BY <1>1, <1>21 DEF vars
<1> QED
  BY <1>2, <1>3, <1>4, <1>5, <1>6, <1>7, <1>8, <1>9, <1>10, <1>11, <1>12, <1>13,
     <1>14, <1>15, <1>16, <1>17, <1>18, <1>19, <1>20, <1>21
  DEF Next, WorkStep, DataQ, Msgs

\* A step outside the loop that takes no event of a queue away.
LEMMA Passes ==
  ASSUME errors' = 0 => errors = 0, WorkKept, UNCHANGED <<q, unsignalled>>,
         pc \notin DataQ \cup {"write", "dataend"}, pc' \notin {"write"},
         flags \cap (Others \cup {"data"}) \subseteq flags',
         ~Allowed => ~Allowed' \/ "data" \in flags'
  PROVE  WorkKept'
<1> SUFFICES ASSUME errors' = 0
             PROVE  /\ \A c \in Others : Left(c)' => OtherCovered(c)'
                    /\ \A c \in DataQ : Left(c)' => DataCovered(c)'
  BY DEF WorkKept
<1>1. ASSUME NEW c \in Others, Left(c)'  PROVE OtherCovered(c)'
  <2>1. Left(c)  BY <1>1 DEF Left
  <2> QED  BY <1>1, <2>1 DEF WorkKept, OtherCovered
<1>2. ASSUME NEW c \in DataQ, Left(c)'  PROVE DataCovered(c)'
  <2>1. Left(c)  BY <1>2 DEF Left
  <2>2. "data" \in flags \/ ~Allowed
    BY <1>2, <2>1 DEF WorkKept, DataCovered, Turn
  <2> QED  BY <2>2 DEF DataCovered
<1> QED  BY <1>1, <1>2

\* A step of another thread: it takes no event away.
LEMMA Elsewhere ==
  ASSUME errors' = errors, WorkKept, UNCHANGED <<worker, stopped>>, flags \subseteq flags',
         \A c \in Others : Left(c)' => Left(c) \/ c \in flags',
         \A c \in DataQ : Left(c)' => Left(c) \/ "data" \in flags' \/ ~Allowed
  PROVE  WorkKept'
<1> USE DEF worker
<1> SUFFICES ASSUME errors' = 0
             PROVE  /\ \A c \in Others : Left(c)' => OtherCovered(c)'
                    /\ \A c \in DataQ : Left(c)' => DataCovered(c)'
  BY DEF WorkKept
<1>1. ~Allowed => ~Allowed'  BY DEF Allowed
<1>2. ASSUME NEW c \in Others, Left(c)'  PROVE OtherCovered(c)'
  BY <1>2 DEF WorkKept, OtherCovered
<1>3. ASSUME NEW c \in DataQ, Left(c)'  PROVE DataCovered(c)'
  BY <1>1, <1>3 DEF WorkKept, DataCovered, Turn
<1> QED  BY <1>2, <1>3

LEMMA SendersKept ==
  ASSUME TypeOK, WorkKept, NEW c \in Chans, Put(c) \/ Signal(c)
  PROVE  WorkKept'
<1> USE DEF full, chip, host
<1>1. CASE Put(c)
  <2>1. q \in [Chans -> Nat] /\ unsignalled \in [Chans -> Nat]  BY DEF TypeOK
  <2>2. /\ unsignalled' = [unsignalled EXCEPT ![c] = @ + 1]
        /\ q' = [q EXCEPT ![c] = @ + 1]
        /\ UNCHANGED <<worker, stopped, flags, errors>>
    BY <1>1 DEF Put
  <2>3. ASSUME NEW d \in Chans, Left(d)'  PROVE Left(d)
    <3>1. unsignalled'[d] = 0  BY <2>3 DEF Left
    <3>2. d # c
      <4>1. unsignalled'[c] = unsignalled[c] + 1 /\ unsignalled[c] \in Nat  BY <2>1, <2>2
      <4> QED  BY <3>1, <4>1
    <3> QED  BY <2>1, <2>2, <2>3, <3>2 DEF Left
  <2> QED  BY <2>2, <2>3, Elsewhere, Positions
<1>2. CASE Signal(c)
  <2>1. unsignalled \in [Chans -> Nat]  BY DEF TypeOK
  <2>2. /\ unsignalled' = [unsignalled EXCEPT ![c] = @ - 1]
        /\ UNCHANGED <<q, worker, stopped, errors>>
    BY <1>2 DEF Signal
  <2>3. flags' = IF c \in Others \/ Allowed THEN flags \cup {FlagOf(c)} ELSE flags
    BY <1>2 DEF Signal
  <2>4. ASSUME NEW d \in Chans, Left(d)', d # c  PROVE Left(d)
    BY <2>1, <2>2, <2>4 DEF Left
  <2>5. c \in Others => c \in flags'  BY <2>3 DEF FlagOf
  <2>6. c \in DataQ => "data" \in flags' \/ ~Allowed
    <3>1. c \in DataQ => c \notin Others  BY Positions
    <3> QED  BY <2>3, <3>1 DEF FlagOf
  <2>7. flags \subseteq flags'  BY <2>3
  <2> QED  BY <2>2, <2>4, <2>5, <2>6, <2>7, Elsewhere, Positions
<1> QED  BY <1>1, <1>2

\* The handlers of commands, beacons and management frames.
LEMMA OtherKept ==
  ASSUME TypeOK, WorkKept, NEW c \in Others, TxOther(c)
  PROVE  WorkKept'
<1> USE DEF senders, full, chip, host
<1>1. /\ pc = c /\ flags' = flags \ {c} /\ UNCHANGED <<unsignalled, stopped, errors, more>>
      /\ c \in Chans /\ c \notin DataQ /\ c # "write" /\ c # "dataend" /\ c # "data"
      /\ c # "pause"
  BY Positions DEF TxOther, Others
<1>2. q \in [Chans -> Nat]  BY DEF TypeOK
<1>3. \A d \in Chans : d # c => q'[d] = q[d]
  <2>1. CASE c \in flags /\ q[c] > 0
    <3>1. PICK k : q' = [q EXCEPT ![c] = k]  BY <2>1 DEF TxOther
    <3> QED  BY <1>2, <3>1
  <2>2. CASE ~(c \in flags /\ q[c] > 0)  BY <2>2 DEF TxOther
  <2> QED  BY <2>1, <2>2
<1>4. \/ pc' = "write" /\ chan' = c
      \/ pc' \in {"bcn", "mgmt", "pause"} /\ (c \notin flags \/ ~(q'[c] > 0))
  <2>1. CASE c \in flags /\ q[c] > 0  BY <2>1 DEF TxOther
  <2>2. CASE ~(c \in flags /\ q[c] > 0)
    <3>1. pc' = After(c) /\ q' = q  BY <2>2 DEF TxOther
    <3> QED  BY <2>2, <3>1 DEF After, Others
  <2> QED  BY <2>1, <2>2
<1> SUFFICES ASSUME errors' = 0
             PROVE  /\ \A d \in Others : Left(d)' => OtherCovered(d)'
                    /\ \A d \in DataQ : Left(d)' => DataCovered(d)'
                    /\ pc' = "write" /\ chan' \in DataQ => sending' > 0
  BY DEF WorkKept
<1>5. ASSUME NEW d \in Others, Left(d)'  PROVE OtherCovered(d)'
  <2>1. CASE d # c
    <3>1. Left(d)  BY <1>1, <1>3, <1>5, <2>1, Positions DEF Left
    <3>2. d \in flags  BY <1>1, <3>1 DEF WorkKept, OtherCovered
    <3> QED  BY <1>1, <2>1, <3>2 DEF OtherCovered
  <2>2. CASE d = c
    <3>1. CASE pc' = "write" /\ chan' = c  BY <2>2, <3>1 DEF OtherCovered
    <3>2. CASE c \notin flags \/ ~(q'[c] > 0)
      <4>1. q'[c] > 0  BY <1>5, <2>2 DEF Left
      <4>2. c \notin flags  BY <3>2, <4>1
      <4>3. ~Left(c)  BY <1>1, <4>2 DEF WorkKept, OtherCovered
      <4>4. q' = q  BY <4>2 DEF TxOther
      <4> QED  BY <1>1, <1>5, <2>2, <4>3, <4>4 DEF Left
    <3> QED  BY <1>4, <3>1, <3>2
  <2> QED  BY <2>1, <2>2
<1>6. ASSUME NEW d \in DataQ, Left(d)'  PROVE DataCovered(d)'
  <2>1. Left(d)  BY <1>1, <1>3, <1>6, Positions DEF Left
  <2>2. "data" \in flags \/ ~Allowed
    BY <1>1, <2>1 DEF WorkKept, DataCovered, Turn
  <2> QED  BY <1>1, <2>2 DEF DataCovered, Allowed
<1> QED  BY <1>1, <1>4, <1>5, <1>6

\* A send puts back what the chip had no room for, and counts what is left.
LEMMA WriteKept ==
  ASSUME TypeOK, WorkKept, Write
  PROVE  WorkKept'
<1> USE DEF full, chip, host
<1> DEFINE room == ChipSize - onChip[ChipQ(chan)]
           n == Min2(sending, room)
<1>1. /\ pc = "write" /\ UNCHANGED <<unsignalled, stopped, errors, chan>> /\ Sent(n = 0)
      /\ q' = [q EXCEPT ![chan] = @ + (sending - n)]
  BY DEF Write
<1>2. q \in [Chans -> Nat] /\ chan \in Chans /\ sending \in Nat  BY YapsWorkAssumption DEF TypeOK
<1>3. n \in 0 .. sending
  <2>1. ChipQ(chan) \in ChipQs  BY DEF ChipQ, ChipQs
  <2>2. onChip[ChipQ(chan)] \in 0 .. ChipSize  BY <2>1 DEF TypeOK
  <2>3. room \in Nat  BY <2>2, YapsWorkAssumption
  <2> HIDE DEF room
  <2> QED  BY <1>2, <2>3 DEF Min2
<1> HIDE DEF n
<1>4. \A d \in Chans : d # chan => q'[d] = q[d]  BY <1>1, <1>2
<1>5. q'[chan] = q[chan] + (sending - n) /\ q[chan] \in Nat  BY <1>1, <1>2
<1> SUFFICES ASSUME errors' = 0
             PROVE  /\ \A d \in Others : Left(d)' => OtherCovered(d)'
                    /\ \A d \in DataQ : Left(d)' => DataCovered(d)'
                    /\ pc' # "write"
  BY DEF WorkKept
<1>6. CASE chan \in Others
  <2>1. flags' = (IF q'[chan] > 0 THEN flags \cup {chan} ELSE flags)
        /\ pc' = After(chan) /\ more' = more
    BY <1>1, <1>6 DEF Sent
  <2>2. pc' # "write" /\ chan # "pause"  BY <1>6, <2>1 DEF After, Others
  <2>3. ASSUME NEW d \in Others, Left(d)'  PROVE OtherCovered(d)'
    <3>1. CASE d = chan  BY <2>1, <2>3, <3>1 DEF Left, OtherCovered
    <3>2. CASE d # chan
      <4>1. Left(d)  BY <1>1, <1>4, <2>3, <3>2, Positions DEF Left
      <4>2. d \in flags  BY <1>1, <3>2, <4>1 DEF WorkKept, OtherCovered
      <4> QED  BY <2>1, <4>2 DEF OtherCovered
    <3> QED  BY <3>1, <3>2
  <2>4. ASSUME NEW d \in DataQ, Left(d)'  PROVE DataCovered(d)'
    <3>1. d # chan /\ chan \notin DataQ  BY <1>6, Positions
    <3>2. Left(d)  BY <1>1, <1>4, <2>4, <3>1, Positions DEF Left
    <3>3. "data" \in flags \/ ~Allowed
      BY <1>1, <3>1, <3>2 DEF WorkKept, DataCovered, Turn, Stages
    <3> QED  BY <1>1, <2>1, <3>3 DEF DataCovered, Allowed
  <2> QED  BY <2>2, <2>3, <2>4
<1>7. CASE chan \notin Others
  <2>1. chan \in DataQ  BY <1>2, <1>7, Positions
  <2>2. /\ more' = (more \/ q'[chan] > 0) /\ flags' = flags
        /\ pc' = IF n = 0 THEN "dataend" ELSE NextDataQ(chan)
    BY <1>1, <1>7 DEF Sent
  <2>3. pc' # "write"  BY <2>1, <2>2, Turns, Positions DEF Stages
  <2>4. n = 0 => more'
    <3>1. sending > 0  BY <1>1, <2>1 DEF WorkKept
    <3>2. n = 0 => q'[chan] > 0  BY ONLY <1>2, <1>5, <3>1
    <3> QED  BY <2>2, <3>2
  <2>5. ASSUME NEW d \in Others, Left(d)'  PROVE OtherCovered(d)'
    <3>1. d # chan  BY <1>7
    <3>2. Left(d)  BY <1>1, <1>4, <2>5, <3>1, Positions DEF Left
    <3>3. d \in flags  BY <1>1, <3>1, <3>2 DEF WorkKept, OtherCovered
    <3> QED  BY <2>2, <3>3 DEF OtherCovered
  <2>6. ASSUME NEW d \in DataQ, Left(d)'  PROVE DataCovered(d)'
    <3>1. Turn = chan  BY <1>1 DEF Turn
    <3>2. pc' \in DataQ \/ pc' = "dataend"  BY <2>1, <2>2, Turns
    <3>3. Turn' = pc'  BY <2>3 DEF Turn
    <3>4. CASE more'  BY <3>2, <3>3, <3>4 DEF DataCovered
    <3>5. CASE ~more'
      <4>1. n # 0 /\ ~(q'[chan] > 0) /\ ~more  BY <2>2, <2>4, <3>5
      <4>2. d # chan  BY <2>6, <4>1 DEF Left
      <4>3. Left(d)  BY <1>1, <1>4, <2>6, <4>2, Positions DEF Left
      <4>4. "data" \in flags \/ ~Allowed \/ Position(d) >= Position(chan)
        BY <1>1, <3>1, <4>1, <4>3 DEF WorkKept, DataCovered
      <4>5. CASE "data" \in flags \/ ~Allowed
        BY <1>1, <2>2, <4>5 DEF DataCovered, Allowed
      <4>6. CASE Position(d) >= Position(chan)
        <5>1. pc' \in DataQ /\ Position(d) >= Position(pc')
          BY <2>1, <2>2, <4>1, <4>2, <4>6, Turns
        <5> QED  BY <3>3, <5>1 DEF DataCovered
      <4> QED  BY <4>4, <4>5, <4>6
    <3> QED  BY <3>4, <3>5
  <2> QED  BY <2>3, <2>5, <2>6
<1> QED  BY <1>6, <1>7

\* The loop over the data queues: Data, TxData and DataEnd.
LEMMA DataKept ==
  ASSUME TypeOK, WorkKept, Data \/ (\E c \in DataQ : TxData(c)) \/ DataEnd
  PROVE  WorkKept'
<1> USE DEF senders, full, chip, host
<1>1. UNCHANGED <<unsignalled, stopped, errors>>
  BY DEF Data, TxData, DataEnd
<1>2. CASE Data
  <2>1. pc = "data" /\ q' = q  BY <1>2 DEF Data
  <2>2. CASE "data" \in flags
    <3>1. flags' = flags \ {"data"} /\ pc' = Head(DataQs)  BY <1>2, <2>2 DEF Data
    <3>2. pc' \in DataQ  BY <3>1, DataQueues DEF DataQ
    <3>3. pc' # "write" /\ Turn' = pc'  BY <3>2, Positions DEF Stages, Turn
    <3>4. \A c \in Others : Left(c)' /\ errors' = 0 => OtherCovered(c)'
      BY <1>1, <2>1, <3>1 DEF WorkKept, Left, OtherCovered, Others
    <3>5. \A c \in DataQ : DataCovered(c)'
      BY <3>1, <3>2, <3>3, Turns DEF DataCovered
    <3> QED  BY <3>3, <3>4, <3>5 DEF WorkKept
  <2>3. CASE "data" \notin flags
    <3>1. pc' = "end" /\ flags' = flags  BY <1>2, <2>3 DEF Data
    <3>2. pc \notin DataQ  BY <2>1, Positions DEF Stages
    <3>3. Allowed' = Allowed  BY <1>1, <3>1 DEF Allowed
    <3> QED  BY <1>1, <2>1, <3>1, <3>2, <3>3, Passes
  <2> QED  BY <2>2, <2>3
<1>3. ASSUME NEW c \in DataQ, TxData(c)  PROVE WorkKept'
  <2>1. /\ pc = c /\ UNCHANGED <<flags, more>> /\ pc # "write" /\ Turn = c
        /\ c \notin Others /\ c \in Chans
    BY <1>3, Positions DEF TxData, Turn, Stages
  <2>2. Allowed' = Allowed  BY <1>1, <2>1 DEF Allowed
  <2>3. q \in [Chans -> Nat]  BY DEF TypeOK
  <2>4. \A d \in Chans : q'[d] > 0 => q[d] > 0
    <3>1. CASE Allowed /\ q[c] > 0
      <4>1. q' = [q EXCEPT ![c] = @ - sending']  BY <1>3, <3>1 DEF TxData
      <4> QED  BY <2>3, <3>1, <4>1
    <3>2. CASE ~(Allowed /\ q[c] > 0)  BY <1>3, <3>2 DEF TxData
    <3> QED  BY <3>1, <3>2
  <2>5. ASSUME NEW d \in Others, Left(d)', errors' = 0  PROVE OtherCovered(d)'
    <3>1. Left(d)  BY <1>1, <2>4, <2>5, Positions DEF Left
    <3> QED  BY <1>1, <2>1, <2>5, <3>1 DEF WorkKept, OtherCovered
  <2>6. ASSUME NEW d \in DataQ, Left(d)', errors' = 0  PROVE DataCovered(d)'
    <3>1. Left(d)  BY <1>1, <2>4, <2>6, Positions DEF Left
    <3>2. \/ "data" \in flags \/ ~Allowed \/ more
          \/ Position(d) >= Position(c)
      BY <1>1, <2>1, <2>6, <3>1 DEF WorkKept, DataCovered
    <3>3. CASE Allowed /\ q[c] > 0
      <4>1. pc' = "write" /\ chan' = c  BY <1>3, <3>3 DEF TxData
      <4>2. Turn' = c  BY <4>1 DEF Turn
      <4> QED  BY <2>1, <2>2, <3>2, <4>2 DEF DataCovered
    <3>4. CASE ~Allowed  BY <2>2, <3>4 DEF DataCovered
    <3>5. CASE Allowed /\ ~(q[c] > 0)
      <4>1. pc' = NextDataQ(c)  BY <1>3, <3>5 DEF TxData
      <4>2. d # c  BY <3>1, <3>5 DEF Left
      <4>3. pc' # "write"  BY <4>1, Turns, Positions DEF Stages
      <4>4. Turn' = pc' /\ (pc' \in DataQ \/ pc' = "dataend")
        BY <4>1, <4>3, Turns DEF Turn
      <4>5. Position(d) >= Position(c) => pc' \in DataQ /\ Position(d) >= Position(pc')
        BY <4>1, <4>2, Turns
      <4> QED  BY <2>1, <2>2, <3>2, <4>4, <4>5 DEF DataCovered
    <3> QED  BY <3>3, <3>4, <3>5
  <2>7. ASSUME pc' = "write"  PROVE sending' > 0
    <3>1. Allowed /\ q[c] > 0
      <4> SUFFICES ASSUME ~(Allowed /\ q[c] > 0)  PROVE FALSE  OBVIOUS
      <4>1. pc' \in {NextDataQ(c), "dataend"}  BY <1>3 DEF TxData
      <4> QED  BY <2>7, <4>1, Turns, Positions DEF Stages
    <3>2. sending' = Min2(q[c], Burst)  BY <1>3, <3>1 DEF TxData
    <3>3. q[c] \in Nat /\ Burst \in Nat /\ Burst > 0
      BY <2>1, <2>3, YapsWorkAssumption
    <3> QED  BY <3>1, <3>2, <3>3 DEF Min2
  <2> QED  BY <2>5, <2>6, <2>7 DEF WorkKept
<1>4. CASE DataEnd
  <2>1. /\ pc = "dataend" /\ pc' = "end" /\ q' = q
        /\ flags' = IF more /\ Allowed THEN flags \cup {"data"} ELSE flags
    BY <1>4 DEF DataEnd
  <2>2. \A c \in Others : Left(c)' /\ errors' = 0 => OtherCovered(c)'
    BY <1>1, <2>1 DEF WorkKept, Left, OtherCovered
  <2>3. ASSUME NEW c \in DataQ, Left(c)', errors' = 0  PROVE DataCovered(c)'
    <3>1. Turn \notin DataQ  BY <2>1, Positions DEF Turn, Stages
    <3>2. Left(c)  BY <1>1, <2>1, <2>3 DEF Left
    <3>3. "data" \in flags \/ ~Allowed \/ more
      BY <1>1, <2>3, <3>1, <3>2 DEF WorkKept, DataCovered
    <3>4. ~Allowed => ~Allowed'  BY <1>1, <2>1 DEF Allowed
    <3> QED  BY <2>1, <3>3, <3>4 DEF DataCovered
  <2> QED  BY <2>1, <2>2, <2>3 DEF WorkKept
<1> QED  BY <1>2, <1>3, <1>4

LEMMA StepKept == TypeOK /\ WorkKept /\ [Next]_vars => WorkKept'
<1> SUFFICES ASSUME TypeOK, WorkKept, [Next]_vars  PROVE WorkKept'  OBVIOUS
<1> USE DEF senders, full, chip, host
<1>1. ASSUME NEW c \in Chans, Put(c) \/ Signal(c)  PROVE WorkKept'
  BY <1>1, SendersKept
<1>2. ASSUME NEW c \in Others, TxOther(c)  PROVE WorkKept'  BY <1>2, OtherKept
<1>3. CASE Write  BY <1>3, WriteKept
<1>4. CASE WriteError
  <2>1. errors' # 0  BY <1>4 DEF WriteError, TypeOK
  <2> QED  BY <2>1 DEF WorkKept
<1>5. CASE Data \/ (\E c \in DataQ : TxData(c)) \/ DataEnd  BY <1>5, DataKept
<1>6. \A s \in Stages : s \notin DataQ  BY Positions
<1>7. CASE Start \/ End
  <2>1. /\ UNCHANGED <<q, unsignalled, flags, stopped, errors>>
        /\ pc \in {"idle", "end"} /\ pc' # "write"
    BY <1>7 DEF Start, End
  <2>2. pc \notin DataQ /\ Allowed' = Allowed  BY <1>6, <2>1 DEF Stages, Allowed
  <2> QED  BY <2>1, <2>2, Passes
<1>8. CASE Rx
  <2>1. /\ UNCHANGED <<q, unsignalled, stopped>> /\ pc = "rx" /\ pc' = "cmd"
        /\ flags \ {"rx"} \subseteq flags' /\ flags' \subseteq flags
    BY <1>8 DEF Rx
  <2>2. errors' = 0 => errors = 0  BY <1>8 DEF Rx, TypeOK
  <2>3. pc \notin DataQ  BY <1>6, <2>1 DEF Stages
  <2>4. flags \cap (Others \cup {"data"}) \subseteq flags'  BY <2>1 DEF Others
  <2>5. ~Allowed => ~Allowed'  BY <2>1 DEF Allowed
  <2> QED  BY <2>1, <2>2, <2>3, <2>4, <2>5, Passes
<1>9. CASE Pause
  <2>1. /\ UNCHANGED <<q, unsignalled, errors>> /\ pc = "pause" /\ pc' = "resume"
        /\ flags \ {"pause", "resume"} \subseteq flags'
        /\ (~Allowed => stopped')
    BY <1>9 DEF Pause, Allowed
  <2>2. pc \notin DataQ  BY <1>6, <2>1 DEF Stages
  <2>3. flags \cap (Others \cup {"data"}) \subseteq flags'  BY <2>1 DEF Others
  <2>4. ~Allowed => ~Allowed'  BY <2>1 DEF Allowed
  <2> QED  BY <2>1, <2>2, <2>3, <2>4, Passes
<1>10. CASE Resume
  <2>1. /\ UNCHANGED <<q, unsignalled, errors>> /\ pc = "resume" /\ pc' = "full"
        /\ flags \ {"resume"} \subseteq flags'
    BY <1>10 DEF Resume
  <2>2. pc \notin DataQ  BY <1>6, <2>1 DEF Stages
  <2>3. flags \cap (Others \cup {"data"}) \subseteq flags'  BY <2>1 DEF Others
  <2>4. ~Allowed => ~Allowed' \/ "data" \in flags'
    BY <1>10 DEF Resume, Allowed
  <2> QED  BY <2>1, <2>2, <2>3, <2>4, Passes
<1>11. CASE CheckFull
  <2>1. /\ UNCHANGED <<q, unsignalled, errors, stopped>> /\ pc = "full"
        /\ pc' \in {"end", "data"} /\ flags' = flags \ {"freed"}
    BY <1>11 DEF CheckFull
  <2>2. pc \notin DataQ  BY <1>6, <2>1 DEF Stages
  <2>3. flags \cap (Others \cup {"data"}) \subseteq flags'  BY <2>1 DEF Others
  <2>4. ~Allowed => ~Allowed'  BY <2>1 DEF Allowed
  <2> QED  BY <2>1, <2>2, <2>3, <2>4, Passes
<1>12. ASSUME UNCHANGED <<q, unsignalled, worker, stopped, errors>>, flags \subseteq flags'
       PROVE  WorkKept'
  <2>1. \A c \in Chans : Left(c)' => Left(c)  BY <1>12 DEF Left
  <2> QED  BY <1>12, <2>1, Elsewhere, Positions
<1>13. CASE RetryTime \/ TimerFire  BY <1>12, <1>13 DEF RetryTime, TimerFire
<1>14. CASE Irq  BY <1>12, <1>14 DEF Irq
<1>15. ASSUME NEW t \in ChipQs, ChipTake(t)  PROVE WorkKept'
  BY <1>12, <1>15 DEF ChipTake
<1>16. ASSUME NEW m \in Msgs, ChipSend(m)  PROVE WorkKept'
  BY <1>12, <1>16 DEF ChipSend
<1>17. CASE DispatchStep
  BY <1>12, <1>17 DEF DispatchStep, DispatchStart, DispatchMsg, DispatchEnd
<1>18. CASE UNCHANGED vars  BY <1>12, <1>18 DEF vars
<1> QED
  BY <1>1, <1>2, <1>3, <1>4, <1>5, <1>7, <1>8, <1>9, <1>10, <1>11, <1>13, <1>14,
     <1>15, <1>16, <1>17, <1>18
  DEF Next, WorkStep, DataQ, Msgs

\* Without bus errors a packet that was put and signalled always has somebody to
\* send it, for any number of data queues and any sizes: each event is taken by
\* a handler that sets it again or leaves nothing, and morse_yaps_work() is
\* queued again for every event the retry timer does not answer for.
THEOREM WakeupKept == Spec => []NoLostWakeup
<1>1. TypeOK /\ Events /\ WorkKept => NoLostWakeup
  <2> SUFFICES ASSUME TypeOK, Events, WorkKept, errors = 0,
                      NEW c \in Chans, Left(c)
               PROVE  Awake(c)
    BY DEF NoLostWakeup, Left
  <2> SUFFICES ASSUME pc = "idle", ~work  PROVE Awake(c)  BY DEF Awake
  <2>1. Turn \notin DataQ  BY Positions DEF Turn, Stages
  <2>2. flags = {} \/ (flags \subseteq {"data"} /\ isFull /\ timer)  BY DEF Events
  <2>3. CASE c \in Others
    <3>1. c \in flags  BY <2>3 DEF WorkKept, OtherCovered
    <3> QED  BY <2>2, <2>3, <3>1 DEF Others
  <2>4. CASE c \in DataQ
    <3>1. "data" \in flags \/ ~Allowed
      BY <2>1, <2>4 DEF WorkKept, DataCovered
    <3>2. "data" \in flags \/ stopped  BY <2>2, <3>1 DEF Allowed
    <3> QED  BY <2>2, <2>4, <3>2 DEF Awake, DataQ
  <2> QED  BY <2>3, <2>4, Positions
<1>2. TypeOK /\ Events /\ Retried /\ WorkKept /\ [Next]_vars
        => (TypeOK /\ Events /\ Retried /\ WorkKept)'
  BY StepType, StepEvents, StepKept
<1> QED  BY <1>1, <1>2, InitType, InitKept, PTL DEF Spec
=============================================================================
