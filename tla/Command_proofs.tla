--------------------------- MODULE Command_proofs ---------------------------
(***************************************************************************)
(* Theorems about Command, for every number of calls and retries.          *)
(***************************************************************************)
EXTENDS Command, SequenceTheorems, TLAPS

\* No timeout passes while the chip work has the command in a local list.
NoSlowSend == ~SlowSend

\* The sequence number of a call is its own.
NoSeqWrap == NumCmds <= SeqMax

-----------------------------------------------------------------------------
(* Lists of packets.                                                       *)

LEMMA OneElement ==
  ASSUME NEW s
  PROVE  /\ <<s>> # <<>> /\ Len(<<s>>) = 1 /\ Head(<<s>>) = s /\ Tail(<<s>>) = <<>>
         /\ Range(<<s>>) = {s} /\ Range(<<>>) = {} /\ Len(<<>>) = 0
<1>1. <<s>> \in Seq({s}) /\ <<>> \in Seq({s}) /\ Len(<<>>) = 0 /\ Len(<<s>>) = 1
  BY EmptySeq
<1>2. DOMAIN <<s>> = 1 .. 1 /\ DOMAIN <<>> = 1 .. 0  BY <1>1, LenProperties
<1>3. Range(<<s>>) = {s} /\ Range(<<>>) = {}
  <2>1. 1 .. 1 = {1} /\ 1 .. 0 = {} /\ <<s>>[1] = s  OBVIOUS
  <2>2. Range(<<s>>) = {<<s>>[i] : i \in 1 .. Len(<<s>>)}  BY <1>1, RangeEquality
  <2>3. Range(<<>>) = {<<>>[i] : i \in 1 .. Len(<<>>)}  BY <1>1, RangeEquality
  <2>4. Range(<<s>>) = {<<s>>[i] : i \in {1}}  BY <1>1, <2>1, <2>2
  <2>5. Range(<<>>) = {<<>>[i] : i \in {}}  BY <1>1, <2>1, <2>3
  <2> QED  BY <2>1, <2>4, <2>5
<1>4. Tail(<<s>>) = <<>>
  <2>1. <<s>> # <<>>  BY <1>1
  <2>2. Tail(<<s>>) \in Seq({s}) /\ Len(Tail(<<s>>)) = 0
    BY <1>1, <2>1, HeadTailProperties
  <2> QED  BY <2>2, EmptySeq
<1>5. Head(<<s>>) = s  OBVIOUS
<1> QED  BY <1>1, <1>3, <1>4, <1>5

\* __morse_skbq_unlink() leaves a list of packets.
LEMMA WithoutType ==
  ASSUME NEW S, NEW q \in Seq(S), NEW s
  PROVE  Without(q, s) \in Seq(S)
<1>1. CASE s \in Range(q)
  <2> DEFINE i == CHOOSE j \in DOMAIN q : q[j] = s
  <2>1. \E j \in DOMAIN q : q[j] = s  BY <1>1 DEF Range
  <2>2. DOMAIN q = 1 .. Len(q) /\ Len(q) \in Nat  BY LenProperties
  <2>3. i \in 1 .. Len(q)  BY <2>1, <2>2
  <2>4. \A j \in 1 .. Len(q) : q[j] \in S  BY ElementOfSeq
  <2> HIDE DEF i
  <2>5. SubSeq(q, 1, i - 1) \in Seq(S)
    <3>1. 1 \in Int /\ i - 1 \in Int /\ \A j \in 1 .. (i - 1) : q[j] \in S
      BY <2>2, <2>3, <2>4
    <3> QED  BY ONLY <3>1, SubSeqProperties
  <2>6. SubSeq(q, i + 1, Len(q)) \in Seq(S)
    <3>1. i + 1 \in Int /\ Len(q) \in Int /\ \A j \in (i + 1) .. Len(q) : q[j] \in S
      BY <2>2, <2>3, <2>4
    <3> QED  BY ONLY <3>1, SubSeqProperties
  <2>7. SubSeq(q, 1, i - 1) \o SubSeq(q, i + 1, Len(q)) \in Seq(S)
    BY <2>5, <2>6, ConcatProperties
  <2> QED  BY <1>1, <2>7 DEF Without, i
<1>2. CASE s \notin Range(q)  BY <1>2 DEF Without
<1> QED  BY <1>1, <1>2

\* The only packet of a list is taken out of it.
LEMMA WithoutOnly ==
  ASSUME NEW s
  PROVE  Without(<<>>, s) = <<>> /\ Without(<<s>>, s) = <<>>
<1>1. Without(<<>>, s) = <<>>  BY OneElement DEF Without
<1>2. Without(<<s>>, s) = <<>>
  <2> DEFINE i == CHOOSE j \in DOMAIN <<s>> : <<s>>[j] = s
  <2>1. s \in Range(<<s>>) /\ Len(<<s>>) = 1  BY OneElement
  <2>2. DOMAIN <<s>> = 1 .. 1
    <3>1. <<s>> \in Seq({s})  OBVIOUS
    <3> QED  BY <3>1, <2>1, LenProperties
  <2>3. i = 1
    <3>1. 1 \in DOMAIN <<s>> /\ <<s>>[1] = s  BY <2>2
    <3>2. i \in DOMAIN <<s>>  BY <3>1
    <3> QED  BY <2>2, <3>2
  <2>4. SubSeq(<<s>>, 1, 0) = <<>> /\ SubSeq(<<s>>, 2, 1) = <<>>
    BY SubSeqEmpty
  <2>5. <<>> \o <<>> = <<>>
    <3>1. <<>> \in Seq({s})  BY EmptySeq
    <3> QED  BY <3>1, ConcatEmptySeq
  <2>6. Without(<<s>>, s) = SubSeq(<<s>>, 1, i - 1) \o SubSeq(<<s>>, i + 1, Len(<<s>>))
    BY <2>1 DEF Without
  <2> HIDE DEF i
  <2>7. i - 1 = 0 /\ i + 1 = 2  BY <2>3
  <2> QED  BY <2>1, <2>4, <2>5, <2>6, <2>7
<1> QED  BY <1>1, <1>2

-----------------------------------------------------------------------------
(* Types.  TypeOK is inductive.                                            *)

LEMMA NoneIsNoPacket == None \notin Packets
BY CommandAssumption DEF None, Packets, Cmds

LEMMA InitType == Init => TypeOK
<1> SUFFICES ASSUME Init  PROVE TypeOK  OBVIOUS
<1>1. <<>> \in Seq(Packets)  BY EmptySeq
<1>2. 0 \in 0 .. NumCmds /\ 0 \in 0 .. MaxRetry - 1  BY CommandAssumption
<1>3. result \in [Cmds -> Results] /\ buffer \in [Cmds -> 0 .. NumCmds]
  BY <1>2 DEF Init, Results
<1>4. /\ cur \in 0 .. NumCmds /\ retry \in 0 .. MaxRetry - 1
      /\ pc = "idle" /\ woken \in BOOLEAN /\ comp \in BOOLEAN /\ cmdComp \in 0 .. NumCmds
  BY <1>2 DEF Init
<1>5. /\ skbq \in Seq(Packets) /\ pending \in Seq(Packets) /\ nSkbq \in Int /\ nPending \in Int
      /\ sending \in Seq(Packets) /\ sent \in Seq(Packets)
      /\ chipIf \in {"pageset", "yaps"}
  BY <1>1 DEF Init
<1>6. /\ freed = {} /\ stripped = {} /\ fwSeen = {} /\ fwTodo = {} /\ resps = {}
      /\ resp = None /\ respSkb = None /\ misread \in BOOLEAN
  BY DEF Init
<1> QED  BY <1>3, <1>4, <1>5, <1>6 DEF TypeOK

\* The packet of the call that is being made.
LEMMA CurrentType ==
  ASSUME TypeOK, pc # "idle"
  PROVE  cur \in Cmds /\ <<cur, retry>> \in Packets /\ cur \in 0 .. NumCmds
BY CommandAssumption DEF TypeOK, Cmds, Packets

LEMMA CallerType ==
  ASSUME TypeOK, Call \/ SendFails \/ Send \/ Wake \/ Timeout
  PROVE  TypeOK'
<1> USE DEF queues, chip, answers
<1>1. CASE Call
  <2>1. cur' \in 0 .. NumCmds /\ cur' # 0 /\ retry' \in 0 .. MaxRetry - 1
    BY <1>1, CommandAssumption DEF Call, TypeOK
  <2> QED  BY <1>1, <2>1 DEF Call, TypeOK
<1>2. CASE SendFails
  <2>1. cur \in Cmds /\ cur \in 0 .. NumCmds  BY <1>2, CurrentType DEF SendFails
  <2>2. result' \in [Cmds -> Results]  BY <1>2, <2>1 DEF SendFails, TypeOK, Results
  <2>3. cmdComp' \in 0 .. NumCmds  BY <1>2, <2>1 DEF SendFails, TypeOK
  <2> QED  BY <1>2, <2>2, <2>3 DEF SendFails, TypeOK
<1>3. CASE Send
  <2>1. <<cur, retry>> \in Packets /\ cur \in 0 .. NumCmds
    BY <1>3, CurrentType DEF Send
  <2>2. skbq' \in Seq(Packets)
    BY <1>3, <2>1, AppendProperties DEF Send, TypeOK
  <2>3. cmdComp' \in 0 .. NumCmds /\ nSkbq' \in Int /\ comp' \in BOOLEAN /\ pc' = "wait"
    BY <1>3, <2>1 DEF Send, TypeOK
  <2>4. pc # "idle"  BY <1>3 DEF Send
  <2> QED  BY <1>3, <2>2, <2>3, <2>4 DEF Send, TypeOK
<1>4. CASE Wake  BY <1>4 DEF Wake, TypeOK
<1>5. CASE Timeout  BY <1>5 DEF Timeout, TypeOK
<1> QED  BY <1>1, <1>2, <1>3, <1>4, <1>5

\* The call goes on with a retry, or returns what it waited for.
LEMMA CleanupReturns ==
  ASSUME Cleanup
  PROVE  \/ MayRetry /\ retry' = retry + 1 /\ pc' = "send" /\ result' = result
         \/ \E ret \in {"answer", "timeout"} :
              /\ ret = "answer" => woken
              /\ result' = [result EXCEPT ![cur] = ret] /\ pc' = "idle" /\ retry' = retry
<1>1. PICK ret \in {"answer", "timeout"} :
        /\ ~woken => ret = "timeout"
        /\ IF ret = "timeout" /\ MayRetry
           THEN retry' = retry + 1 /\ pc' = "send" /\ UNCHANGED result
           ELSE /\ result' = [result EXCEPT ![cur] = ret]
                /\ pc' = "idle" /\ UNCHANGED retry
  BY Zenon DEF Cleanup
<1> QED  BY <1>1, Zenon

LEMMA CleanupType == TypeOK /\ Cleanup => TypeOK'
<1> SUFFICES ASSUME TypeOK, Cleanup  PROVE TypeOK'  OBVIOUS
<1> DEFINE s == <<cur, retry>>
<1>1. cur \in Cmds /\ s \in Packets  BY CurrentType DEF Cleanup
<1>2. /\ nPending' \in Int /\ nSkbq' \in Int
      /\ pending' \in Seq(Packets) /\ skbq' \in Seq(Packets)
      /\ sending' \in Seq(Packets) /\ sent' \in Seq(Packets)
      /\ freed' \subseteq Packets
  <2>1. CmdFinish(s)  BY DEF Cleanup
  <2> HIDE DEF s
  <2>2. CASE nPending = 0 /\ nSkbq = 0
    BY <2>1, <2>2 DEF CmdFinish, queues, TypeOK
  <2>3. CASE ~(nPending = 0 /\ nSkbq = 0)
    <3>1. nPending' \in Int /\ nSkbq' \in Int /\ freed' \subseteq Packets
      BY <1>1, <2>1, <2>3 DEF CmdFinish, TypeOK
    <3>2. /\ pending' = Without(pending, s) /\ skbq' = Without(skbq, s)
          /\ sending' = Without(sending, s) /\ sent' = Without(sent, s)
      BY <2>1, <2>3 DEF CmdFinish
    <3> QED  BY <3>1, <3>2, WithoutType DEF TypeOK
  <2> QED  BY <2>2, <2>3
<1>3. /\ retry' \in 0 .. MaxRetry - 1 /\ pc' \in {"send", "idle"}
      /\ result' \in [Cmds -> Results]
  <2>1. CASE MayRetry /\ retry' = retry + 1 /\ pc' = "send" /\ result' = result
    BY <2>1, CommandAssumption DEF MayRetry, TypeOK
  <2>2. ASSUME NEW ret \in {"answer", "timeout"}, pc' = "idle", retry' = retry,
               result' = [result EXCEPT ![cur] = ret]
        PROVE  /\ retry' \in 0 .. MaxRetry - 1 /\ pc' \in {"send", "idle"}
               /\ result' \in [Cmds -> Results]
    BY <1>1, <2>2 DEF TypeOK, Results
  <2> QED  BY <2>1, <2>2, CleanupReturns
<1>4. cmdComp' \in 0 .. NumCmds /\ cur # 0
  BY CommandAssumption DEF Cleanup, TypeOK
<1> QED  BY <1>2, <1>3, <1>4 DEF Cleanup, TypeOK, answers

LEMMA TxStartType ==
  ASSUME TypeOK, NEW n \in 0 .. Len(skbq), TxStart(n)
  PROVE  TypeOK'
<1>1. Len(skbq) \in Nat /\ Len(pending) \in Nat  BY LenProperties DEF TypeOK
<1>2. \A i \in 1 .. Len(skbq) : skbq[i] \in Packets  BY ElementOfSeq DEF TypeOK
<1>3. sending' \in Seq(Packets)
  <2>1. 1 \in Int /\ n \in Int /\ \A i \in 1 .. n : skbq[i] \in Packets
    BY <1>1, <1>2
  <2>2. SubSeq(skbq, 1, n) \in Seq(Packets)  BY ONLY <2>1, SubSeqProperties
  <2> QED  BY <2>2 DEF TxStart
<1>4. skbq' \in Seq(Packets)
  <2>1. n + 1 \in Int /\ Len(skbq) \in Int /\ \A i \in (n + 1) .. Len(skbq) : skbq[i] \in Packets
    BY <1>1, <1>2
  <2>2. SubSeq(skbq, n + 1, Len(skbq)) \in Seq(Packets)  BY ONLY <2>1, SubSeqProperties
  <2> QED  BY <2>2 DEF TxStart
<1>5. <<>> \in Seq(Packets)  BY EmptySeq
<1>6. nPending' \in Int /\ nSkbq' \in Int  BY <1>1 DEF TxStart, TypeOK
<1>7. freed' \subseteq Packets
  <2>1. Range(pending) \in SUBSET Packets  BY RangeOfSeq DEF TypeOK
  <2> QED  BY <2>1 DEF TxStart, TypeOK
<1> QED  BY <1>3, <1>4, <1>5, <1>6, <1>7 DEF TxStart, TypeOK, caller, answers

LEMMA ChipWorkType ==
  ASSUME TypeOK, WriteOk \/ WriteFails \/ TxComplete
  PROVE  TypeOK'
<1> USE DEF caller, queues, chip, answers
<1>1. sending # <<>> => Head(sending) \in Packets /\ Tail(sending) \in Seq(Packets)
  BY HeadTailProperties DEF TypeOK
<1>2. <<>> \in Seq(Packets)  BY EmptySeq
<1>3. Len(sending) \in Nat /\ Len(sent) \in Nat  BY LenProperties DEF TypeOK
<1>4. CASE WriteOk
  <2>1. sent' \in Seq(Packets) /\ sending' \in Seq(Packets)
    BY <1>1, <1>4, AppendProperties DEF WriteOk, TypeOK
  <2>2. fwSeen' \subseteq Cmds /\ fwTodo' \subseteq Packets
    <3>1. Head(sending) \in Packets /\ Head(sending)[1] \in Cmds
      BY <1>1, <1>4 DEF WriteOk, Packets
    <3> QED  BY <1>4, <3>1 DEF WriteOk, TypeOK
  <2> QED  BY <1>4, <2>1, <2>2 DEF WriteOk, TypeOK
<1>5. CASE WriteFails
  <2>1. sending' \in Seq(Packets)  BY <1>1, <1>2, <1>5 DEF WriteFails
  <2>2. freed' \subseteq Packets  BY <1>1, <1>5 DEF WriteFails, TypeOK
  <2>3. nSkbq' \in Int  BY <1>3, <1>5 DEF WriteFails, TypeOK
  <2>4. skbq' \in Seq(Packets)
    <3>1. sending \o skbq \in Seq(Packets)  BY ConcatProperties DEF TypeOK
    <3> QED  BY <1>5, <3>1 DEF WriteFails, TypeOK
  <2> QED  BY <1>5, <2>1, <2>2, <2>3, <2>4 DEF WriteFails, TypeOK
<1>6. CASE TxComplete
  <2>1. pending' \in Seq(Packets)
    BY <1>6, ConcatProperties DEF TxComplete, TypeOK
  <2>2. nPending' \in Int  BY <1>3, <1>6 DEF TxComplete, TypeOK
  <2> QED  BY <1>2, <1>6, <2>1, <2>2 DEF TxComplete, TypeOK
<1> QED  BY <1>4, <1>5, <1>6

LEMMA AnswerType ==
  ASSUME TypeOK, NEW s \in Packets, FwAnswer(s) \/ RespStart(s) \/ RespEnd
  PROVE  TypeOK'
<1> USE DEF caller, queues, chip, answers
<1>1. CASE FwAnswer(s)  BY <1>1 DEF FwAnswer, TypeOK
<1>2. CASE RespStart(s)
  <2>1. respSkb' \in Packets \cup {None}
    BY <1>2, HeadTailProperties DEF RespStart, TypeOK
  <2>2. misread' \in BOOLEAN  BY <1>2 DEF RespStart
  <2>3. stripped' \subseteq Packets  BY <1>2, <2>1 DEF RespStart, TypeOK
  <2>4. resp' \in Packets /\ resp' # None /\ resps' \subseteq Packets
    BY <1>2, NoneIsNoPacket DEF RespStart, TypeOK
  <2> QED  BY <1>2, <2>1, <2>2, <2>3, <2>4 DEF RespStart, TypeOK
<1>3. CASE RespEnd
  <2>1. comp' \in BOOLEAN  BY <1>3, Zenon DEF RespEnd, TypeOK
  <2>2. buffer' \in [Cmds -> 0 .. NumCmds]
    <3>1. CASE Matches
      <4>1. respSkb \in Packets /\ resp \in Packets
        BY <1>3, <3>1 DEF Matches, RespEnd, TypeOK
      <4>2. respSkb[1] \in Cmds /\ resp[1] \in 0 .. NumCmds
        BY <4>1, CommandAssumption DEF Packets, Cmds
      <4> QED  BY <1>3, <3>1, <4>2 DEF RespEnd, TypeOK
    <3>2. CASE ~Matches  BY <1>3, <3>2 DEF RespEnd, TypeOK
    <3> QED  BY <3>1, <3>2
  <2> QED  BY <1>3, <2>1, <2>2 DEF RespEnd, TypeOK
<1> QED  BY <1>1, <1>2, <1>3

LEMMA StepType == TypeOK /\ [Next]_vars => TypeOK'
<1> SUFFICES ASSUME TypeOK, [Next]_vars  PROVE TypeOK'  OBVIOUS
<1>1. CASE Call \/ SendFails \/ Send \/ Wake \/ Timeout  BY <1>1, CallerType
<1>2. CASE Cleanup  BY <1>2, CleanupType
<1>3. ASSUME NEW n \in 0 .. Len(skbq), TxStart(n)  PROVE TypeOK'
  BY <1>3, TxStartType
<1>4. CASE WriteOk \/ WriteFails \/ TxComplete  BY <1>4, ChipWorkType
<1>5. ASSUME NEW s \in fwTodo, FwAnswer(s)  PROVE TypeOK'
  BY <1>5, AnswerType DEF TypeOK
<1>6. ASSUME NEW r \in resps, RespStart(r)  PROVE TypeOK'
  BY <1>6, AnswerType DEF TypeOK
<1>7. CASE RespEnd
  <2>1. resp \in Packets  BY <1>7 DEF RespEnd, TypeOK
  <2> QED  BY <1>7, <2>1, AnswerType
<1>8. CASE UNCHANGED vars
  BY <1>8 DEF vars, caller, queues, chip, answers, TypeOK
<1> QED  BY <1>1, <1>2, <1>3, <1>4, <1>5, <1>6, <1>7, <1>8 DEF Next

\* The types of the state, and that an answer is matched only while it is
\* processed, whether a timeout may pass during a send or not.
THEOREM TypeCorrect == Spec => []TypeOK
<1> QED  BY InitType, StepType, PTL DEF Spec

-----------------------------------------------------------------------------
(* At most one packet.  IInv is inductive if no send is slow.               *)

Current == <<cur, retry>>
Waiting == pc \in {"wait", "cleanup"}

Holds(q) == q = <<>> \/ (q = <<Current>> /\ Waiting)

\* At most one packet is linked anywhere, and it is the one whose caller waits.
OneCommand ==
    /\ Holds(skbq) /\ Holds(sending) /\ Holds(sent) /\ Holds(pending)
    /\ skbq # <<>> => sending = <<>> /\ sent = <<>> /\ pending = <<>>
    /\ sending # <<>> => sent = <<>> /\ pending = <<>>
    /\ sent # <<>> => pending = <<>>

\* What was freed is of a call, or a try, that is over, or is linked nowhere.
FreedUnlinked ==
    /\ \A s \in freed :
          \/ s[1] < cur
          \/ s[1] = cur /\ (pc # "idle" => s[2] <= retry)
    /\ pc = "send" => Current \notin freed
    /\ \A q \in {skbq, sending, sent, pending} : Range(q) \cap freed = {}

\* An answer is matched against a packet that stays pending.
MatchedPending == respSkb # None => pending = <<respSkb>>

\* A completed call has the answer to its command in its buffer.
Answered ==
    /\ \A c \in Cmds : c > cur => result[c] = "none"
    /\ pc # "idle" => result[cur] = "none"
    /\ pc # "idle" /\ comp => buffer[cur] = cur
    /\ pc = "cleanup" /\ woken => buffer[cur] = cur

IInv == TypeOK /\ CountsMatch /\ OneCommand /\ FreedUnlinked /\ MatchedPending

\* The lists, once it is known which one the packet is linked in.
Linked(a, b, c, d) == skbq = a /\ sending = b /\ sent = c /\ pending = d

LEMMA WhereItIs ==
  ASSUME IInv
  PROVE  \/ Linked(<<>>, <<>>, <<>>, <<>>)
         \/ Waiting /\ Linked(<<Current>>, <<>>, <<>>, <<>>)
         \/ Waiting /\ Linked(<<>>, <<Current>>, <<>>, <<>>)
         \/ Waiting /\ Linked(<<>>, <<>>, <<Current>>, <<>>)
         \/ Waiting /\ Linked(<<>>, <<>>, <<>>, <<Current>>)
BY DEF IInv, OneCommand, Holds, Linked

LEMMA InitInv == Init => IInv
<1> SUFFICES ASSUME Init  PROVE IInv  OBVIOUS
<1>1. TypeOK  BY InitType
<1>2. CountsMatch  BY OneElement DEF Init, CountsMatch
<1>3. OneCommand  BY DEF Init, OneCommand, Holds
<1>4. FreedUnlinked  BY DEF Init, FreedUnlinked
<1>5. MatchedPending  BY DEF Init, MatchedPending
<1> QED  BY <1>1, <1>2, <1>3, <1>4, <1>5 DEF IInv

\* The caller's steps: a packet is linked only between Send and Cleanup.
LEMMA CallerInv ==
  ASSUME IInv, Call \/ SendFails \/ Send \/ Wake \/ Timeout
  PROVE  CountsMatch' /\ OneCommand' /\ FreedUnlinked' /\ MatchedPending'
<1> USE DEF queues, chip, answers
<1>1. CASE Call \/ SendFails
  <2>1. /\ UNCHANGED <<skbq, sending, sent, pending, nSkbq, nPending, freed, respSkb>>
        /\ ~Waiting
    BY <1>1 DEF Call, SendFails, Waiting
  <2>2. Linked(<<>>, <<>>, <<>>, <<>>)  BY <2>1, WhereItIs
  <2>3. CountsMatch' /\ OneCommand' /\ MatchedPending'
    BY <2>1, <2>2 DEF IInv, CountsMatch, OneCommand, Holds, MatchedPending, Linked
  <2>4. \A q \in {skbq', sending', sent', pending'} : Range(q) \cap freed' = {}
    BY <2>1 DEF IInv, FreedUnlinked
  <2>5. ASSUME NEW s \in freed
        PROVE  s[1] \in Int /\ s[2] \in Int /\ (s[1] < cur \/ s[1] = cur)
    <3>1. s \in Packets  BY DEF IInv, TypeOK
    <3> QED  BY <3>1 DEF IInv, FreedUnlinked, Packets, Cmds
  <2>6. CASE Call
    <3>1. cur' = cur + 1 /\ retry' = 0 /\ pc' = "send" /\ cur \in Int
      BY <2>6 DEF Call, IInv, TypeOK
    <3>2. \A s \in freed : s[1] < cur'  BY <2>5, <3>1
    <3>3. Current' \notin freed
      <4>1. Current'[1] = cur'  BY DEF Current
      <4> QED  BY <3>1, <3>2, <4>1
    <3> QED  BY <2>1, <2>3, <2>4, <3>2, <3>3 DEF FreedUnlinked
  <2>7. CASE SendFails
    <3>1. pc' = "idle" /\ cur' = cur  BY <2>7 DEF SendFails
    <3> QED  BY <2>1, <2>3, <2>4, <2>5, <3>1 DEF FreedUnlinked
  <2> QED  BY <1>1, <2>6, <2>7
<1>2. CASE Send
  <2>1. /\ skbq' = Append(skbq, Current) /\ nSkbq' = nSkbq + 1
        /\ UNCHANGED <<cur, retry, sending, sent, pending, nPending, freed, respSkb>>
        /\ pc = "send" /\ pc' = "wait" /\ ~Waiting
    BY <1>2 DEF Send, Current, Waiting
  <2>2. Linked(<<>>, <<>>, <<>>, <<>>)  BY <2>1, WhereItIs
  <2>3. skbq' = <<Current>>  BY <2>1, <2>2 DEF Linked
  <2>4. Current' = Current /\ Waiting'  BY <2>1 DEF Current, Waiting
  <2>5. nSkbq' = Len(skbq') /\ nPending' = Len(pending')
    BY <2>1, <2>2, <2>3, OneElement DEF IInv, CountsMatch, Linked
  <2>6. OneCommand' /\ MatchedPending'
    BY <2>1, <2>2, <2>3, <2>4, OneElement
    DEF IInv, OneCommand, Holds, MatchedPending, Linked
  <2>7. FreedUnlinked'
    <3>1. Current \notin freed  BY <2>1 DEF IInv, FreedUnlinked
    <3>2. Range(skbq') = {Current}  BY <2>3, OneElement
    <3> QED  BY <2>1, <2>4, <3>1, <3>2 DEF IInv, FreedUnlinked
  <2> QED  BY <2>5, <2>6, <2>7 DEF CountsMatch
<1>3. CASE Wake \/ Timeout
  <2>1. /\ UNCHANGED <<skbq, sending, sent, pending, nSkbq, nPending, freed, respSkb, cur, retry>>
        /\ pc = "wait" /\ pc' = "cleanup"
    BY <1>3 DEF Wake, Timeout
  <2>2. Current' = Current /\ Waiting'  BY <2>1 DEF Current, Waiting
  <2> QED
    BY <2>1, <2>2 DEF IInv, CountsMatch, OneCommand, Holds, FreedUnlinked, MatchedPending
<1> QED  BY <1>1, <1>2, <1>3

\* Cleanup unlinks the packet wherever it is: the counters tell where.
LEMMA CleanupInv ==
  ASSUME NoSlowSend, IInv, Cleanup
  PROVE  CountsMatch' /\ OneCommand' /\ FreedUnlinked' /\ MatchedPending'
<1>1. /\ CmdFinish(Current) /\ Current \notin Range(sending \o sent)
      /\ UNCHANGED <<cur, respSkb, resp>> /\ resp = None /\ pc = "cleanup"
  BY DEF Cleanup, Current, NoSlowSend, CmdLockFree, answers
<1>2. respSkb = None  BY <1>1 DEF IInv, TypeOK
<1>3. sending = <<>> /\ sent = <<>>
  <2>1. sending \in Seq(Packets) /\ sent \in Seq(Packets)  BY DEF IInv, TypeOK
  <2>2. Range(sending \o sent) = Range(sending) \cup Range(sent)
    BY <2>1, RangeConcatenation, ZenonT(60)
  <2>3. Current \notin Range(sending) /\ Current \notin Range(sent)  BY <1>1, <2>2
  <2> QED  BY <2>3, OneElement DEF IInv, OneCommand, Holds
<1>4. /\ skbq' = <<>> /\ pending' = <<>> /\ sending' = <<>> /\ sent' = <<>>
      /\ nSkbq' = 0 /\ nPending' = 0 /\ freed' \subseteq freed \cup {Current}
  <2>1. CASE skbq = <<>> /\ pending = <<>>
    <3>1. nPending = 0 /\ nSkbq = 0  BY <2>1, OneElement DEF IInv, CountsMatch
    <3>2. UNCHANGED <<queues, sending, sent>>  BY <1>1, <3>1 DEF CmdFinish
    <3> QED  BY <1>3, <2>1, <3>1, <3>2 DEF queues
  <2>2. CASE skbq = <<Current>> /\ pending = <<>>
    <3>1. nPending = 0 /\ nSkbq = 1  BY <2>2, OneElement DEF IInv, CountsMatch
    <3> QED  BY <1>1, <1>3, <2>2, <3>1, WithoutOnly DEF CmdFinish
  <2>3. CASE skbq = <<>> /\ pending = <<Current>>
    <3>1. nPending = 1 /\ nSkbq = 0  BY <2>3, OneElement DEF IInv, CountsMatch
    <3> QED  BY <1>1, <1>3, <2>3, <3>1, WithoutOnly DEF CmdFinish
  <2> QED  BY <2>1, <2>2, <2>3, WhereItIs DEF Linked
<1>5. CountsMatch' /\ OneCommand' /\ MatchedPending'
  BY <1>1, <1>2, <1>4, OneElement DEF CountsMatch, OneCommand, Holds, MatchedPending
<1>6. FreedUnlinked'
  <2>1. \A q \in {skbq', sending', sent', pending'} : Range(q) \cap freed' = {}
    BY <1>4, OneElement
  <2>2. ASSUME NEW s \in freed'
        PROVE  /\ s[1] \in Int /\ s[2] \in Int
               /\ s[1] < cur \/ (s[1] = cur /\ s[2] <= retry)
    <3>1. Current \in Packets /\ Current[1] = cur /\ Current[2] = retry
      BY <1>1, CurrentType DEF Current, IInv
    <3>2. s \in Packets  BY <1>4, <3>1 DEF IInv, TypeOK
    <3>3. s[1] \in Int /\ s[2] \in Int /\ retry \in Int
      BY <3>2 DEF Packets, Cmds, IInv, TypeOK
    <3>4. s \in freed \/ s = Current  BY <1>4
    <3>5. CASE s \in freed  BY <1>1, <3>3, <3>5 DEF IInv, FreedUnlinked
    <3> QED  BY <3>1, <3>3, <3>4, <3>5
  <2>3. CASE pc' = "idle"  BY <1>1, <2>1, <2>2, <2>3 DEF FreedUnlinked
  <2>4. CASE pc' # "idle"
    <3>1. pc' = "send" /\ retry' = retry + 1 /\ retry \in Int
      BY <2>4, CleanupReturns DEF IInv, TypeOK
    <3>2. Current'[1] = cur /\ Current'[2] = retry + 1  BY <1>1, <3>1 DEF Current
    <3>3. \A s \in freed' : s # Current'  BY <2>2, <3>1, <3>2
    <3>4. \A s \in freed' : s[1] < cur' \/ (s[1] = cur' /\ s[2] <= retry')
      BY <1>1, <2>2, <3>1
    <3> QED  BY <2>1, <3>3, <3>4 DEF FreedUnlinked
  <2> QED  BY <2>3, <2>4
<1> QED  BY <1>5, <1>6

\* The chip work moves the packet it has to another list, loses it or frees it.
LEMMA Moved ==
  ASSUME IInv, UNCHANGED <<cur, retry, pc, respSkb>>, Waiting, pending = <<>>,
         Current \notin freed,
         \/ /\ freed' = freed
            /\ \/ Linked(<<>>, <<>>, <<>>, <<>>)' /\ nSkbq' = 0 /\ nPending' = 0
               \/ Linked(<<Current>>, <<>>, <<>>, <<>>)' /\ nSkbq' = 1 /\ nPending' = 0
               \/ Linked(<<>>, <<Current>>, <<>>, <<>>)' /\ nSkbq' = 0 /\ nPending' = 0
               \/ Linked(<<>>, <<>>, <<Current>>, <<>>)' /\ nSkbq' = 0 /\ nPending' = 0
               \/ Linked(<<>>, <<>>, <<>>, <<Current>>)' /\ nSkbq' = 0 /\ nPending' = 1
         \/ /\ freed' = freed \cup {Current}
            /\ Linked(<<>>, <<>>, <<>>, <<>>)' /\ nSkbq' = 0 /\ nPending' = 0
  PROVE  CountsMatch' /\ OneCommand' /\ FreedUnlinked' /\ MatchedPending'
<1>1. Current' = Current /\ Waiting'  BY DEF Current, Waiting
<1>2. respSkb' = None  BY DEF IInv, MatchedPending
<1>3. nSkbq' = Len(skbq') /\ nPending' = Len(pending')
  BY <1>1, OneElement DEF Linked
<1>4. OneCommand'  BY <1>1, OneElement DEF OneCommand, Holds, Linked
<1>5. pc \in {"wait", "cleanup"}  BY DEF Waiting
<1>6. FreedUnlinked'
  <2>1. \A s \in freed' : s[1] < cur' \/ (s[1] = cur' /\ (pc' # "idle" => s[2] <= retry'))
    <3>1. \A s \in freed : s[1] < cur' \/ (s[1] = cur' /\ (pc' # "idle" => s[2] <= retry'))
      BY DEF IInv, FreedUnlinked
    <3>2. Current[1] = cur' /\ Current[2] <= retry'  BY DEF Current, IInv, TypeOK
    <3> QED  BY <3>1, <3>2
  <2>2. \A q \in {skbq', sending', sent', pending'} : Range(q) \cap freed' = {}
    <3>1. CASE freed' = freed
      <4>1. \A q \in {skbq', sending', sent', pending'} : q = <<>> \/ q = <<Current>>
        BY <1>1, <3>1 DEF Linked
      <4>2. Range(<<>>) = {} /\ Range(<<Current>>) = {Current}  BY OneElement
      <4> QED  BY <3>1, <4>1, <4>2
    <3>2. CASE freed' # freed
      <4>1. \A q \in {skbq', sending', sent', pending'} : q = <<>>
        BY <3>2 DEF Linked
      <4>2. Range(<<>>) = {}  BY OneElement
      <4> QED  BY <4>1, <4>2
    <3> QED  BY <3>1, <3>2
  <2> QED  BY <1>5, <2>1, <2>2 DEF FreedUnlinked
<1> QED  BY <1>2, <1>3, <1>4, <1>6 DEF CountsMatch, MatchedPending

\* The purge of TxStart finds nothing pending.
LEMMA TxStartInv ==
  ASSUME IInv, NEW n \in 0 .. Len(skbq), TxStart(n)
  PROVE  CountsMatch' /\ OneCommand' /\ FreedUnlinked' /\ MatchedPending'
<1>1. /\ skbq # <<>> /\ UNCHANGED <<cur, retry, pc, sent, respSkb>>
  BY DEF TxStart, caller, answers
<1>2. Waiting /\ Linked(<<Current>>, <<>>, <<>>, <<>>)  BY <1>1, WhereItIs DEF Linked
<1>3. Len(skbq) = 1 /\ nSkbq = 1 /\ nPending = 0
  BY <1>2, OneElement DEF Linked, IInv, CountsMatch
<1>4. pending = <<>> /\ Range(pending) = {} /\ Len(pending) = 0
  BY <1>2, OneElement DEF Linked
<1>5. Current \notin freed
  <2>1. Range(skbq) = {Current}  BY <1>2, OneElement DEF Linked
  <2> QED  BY <2>1 DEF IInv, FreedUnlinked
<1>6. pending' = <<>> /\ nPending' = 0 /\ nSkbq' = 1 - n
  <2>1. /\ pending' = <<>> /\ nPending' = nPending - Len(pending)
        /\ nSkbq' = nSkbq - n
    BY DEF TxStart
  <2> QED  BY ONLY <1>3, <1>4, <2>1
<1>7. freed' = freed  BY <1>4 DEF TxStart
<1>8. sending' = SubSeq(<<Current>>, 1, n) /\ skbq' = SubSeq(<<Current>>, n + 1, 1)
  BY <1>2, <1>3 DEF TxStart, Linked
<1>9. SubSeq(<<Current>>, 1, 1) = <<Current>>
  <2>1. <<Current>> \in Seq({Current}) /\ Len(<<Current>>) = 1  BY OneElement
  <2> QED  BY <2>1, SubSeqFull
<1>10. SubSeq(<<Current>>, 1, 0) = <<>> /\ SubSeq(<<Current>>, 2, 1) = <<>>
  BY SubSeqEmpty
<1>11. \/ Linked(<<Current>>, <<>>, <<>>, <<>>)' /\ nSkbq' = 1
       \/ Linked(<<>>, <<Current>>, <<>>, <<>>)' /\ nSkbq' = 0
  <2>1. n = 0 \/ n = 1  BY <1>3
  <2>2. sent' = <<>> /\ Current' = Current  BY <1>1, <1>2 DEF Linked, Current
  <2>3. CASE n = 0
    <3>1. sending' = <<>> /\ skbq' = <<Current>> /\ nSkbq' = 1
      BY <1>6, <1>8, <1>9, <1>10, <2>3
    <3> QED  BY <1>6, <2>2, <3>1 DEF Linked
  <2>4. CASE n = 1
    <3>1. sending' = <<Current>> /\ skbq' = <<>> /\ nSkbq' = 0
      BY <1>6, <1>8, <1>9, <1>10, <2>4
    <3> QED  BY <1>6, <2>2, <3>1 DEF Linked
  <2> QED  BY <2>1, <2>3, <2>4
<1> QED  BY <1>1, <1>2, <1>4, <1>5, <1>6, <1>7, <1>11, Moved

LEMMA ChipWorkInv ==
  ASSUME IInv, WriteOk \/ WriteFails \/ TxComplete
  PROVE  CountsMatch' /\ OneCommand' /\ FreedUnlinked' /\ MatchedPending'
<1> USE DEF caller, queues, chip, answers
<1>1. /\ UNCHANGED <<cur, retry, pc, respSkb>> /\ Current' = Current
  BY DEF WriteOk, WriteFails, TxComplete, Current
<1>2. <<>> \o <<Current>> = <<Current>> /\ <<Current>> \o <<>> = <<Current>>
  <2>1. <<Current>> \in Seq({Current})  OBVIOUS
  <2> QED  BY <2>1, ConcatEmptySeq
<1>3. CASE WriteOk \/ WriteFails
  <2>1. sending # <<>>  BY <1>3 DEF WriteOk, WriteFails
  <2>2. Waiting /\ Linked(<<>>, <<Current>>, <<>>, <<>>)  BY <2>1, WhereItIs DEF Linked
  <2>3. /\ Len(sending) = 1 /\ Tail(sending) = <<>> /\ Head(sending) = Current
        /\ nSkbq = 0 /\ nPending = 0 /\ Append(sent, Current) = <<Current>>
        /\ sending \o skbq = <<Current>>
    BY <1>2, <2>2, OneElement DEF Linked, IInv, CountsMatch
  <2>4. Current \notin freed
    <3>1. Range(sending) = {Current}  BY <2>2, OneElement DEF Linked
    <3> QED  BY <3>1 DEF IInv, FreedUnlinked
  <2>5. skbq = <<>> /\ sent = <<>> /\ pending = <<>> /\ sending = <<Current>>
    BY <2>2 DEF Linked
  <2>6. CASE WriteOk
    <3>1. Linked(<<>>, <<>>, <<Current>>, <<>>)' /\ nSkbq' = 0 /\ nPending' = 0 /\ freed' = freed
      BY <1>1, <2>3, <2>5, <2>6 DEF WriteOk, Linked
    <3> QED  BY <1>1, <2>2, <2>4, <2>5, <3>1, Moved
  <2>7. CASE WriteFails
    <3>1. pending' = <<>> /\ nPending' = 0 /\ sent' = <<>> /\ sending' = <<>>
      BY <2>3, <2>5, <2>7 DEF WriteFails
    <3>2. \/ freed' = freed \cup {Current} /\ skbq' = <<>> /\ nSkbq' = 0
          \/ freed' = freed /\ skbq' = <<Current>> /\ nSkbq' = 1
          \/ freed' = freed /\ skbq' = <<>> /\ nSkbq' = 0
      BY <2>3, <2>5, <2>7 DEF WriteFails
    <3>3. \/ freed' = freed \cup {Current} /\ Linked(<<>>, <<>>, <<>>, <<>>)' /\ nSkbq' = 0
          \/ freed' = freed /\ Linked(<<Current>>, <<>>, <<>>, <<>>)' /\ nSkbq' = 1
          \/ freed' = freed /\ Linked(<<>>, <<>>, <<>>, <<>>)' /\ nSkbq' = 0
      BY <1>1, <3>1, <3>2 DEF Linked
    <3> QED  BY <1>1, <2>2, <2>4, <2>5, <3>1, <3>3, Moved
  <2> QED  BY <1>3, <2>6, <2>7
<1>4. CASE TxComplete
  <2>1. sent # <<>>  BY <1>4 DEF TxComplete
  <2>2. Waiting /\ Linked(<<>>, <<>>, <<Current>>, <<>>)  BY <2>1, WhereItIs DEF Linked
  <2>3. Current \notin freed
    <3>1. Range(sent) = {Current}  BY <2>2, OneElement DEF Linked
    <3> QED  BY <3>1 DEF IInv, FreedUnlinked
  <2>4. /\ skbq = <<>> /\ sending = <<>> /\ pending = <<>> /\ sent = <<Current>>
        /\ Len(sent) = 1 /\ nSkbq = 0 /\ nPending = 0
    BY <2>2, OneElement DEF Linked, IInv, CountsMatch
  <2>5. Linked(<<>>, <<>>, <<>>, <<Current>>)' /\ nSkbq' = 0 /\ nPending' = 1 /\ freed' = freed
    BY <1>1, <1>2, <1>4, <2>4 DEF TxComplete, Linked
  <2> QED  BY <1>1, <2>2, <2>3, <2>4, <2>5, Moved
<1> QED  BY <1>3, <1>4

\* An answer is matched against the head of pending, and nothing is unlinked.
LEMMA AnswerInv ==
  ASSUME IInv, NEW s, FwAnswer(s) \/ RespStart(s) \/ RespEnd
  PROVE  CountsMatch' /\ OneCommand' /\ FreedUnlinked' /\ MatchedPending'
<1> USE DEF caller, queues, chip, answers
<1>1. UNCHANGED <<cur, retry, pc, skbq, nSkbq, sending, sent, pending, nPending, freed>>
  BY DEF FwAnswer, RespStart, RespEnd
<1>2. CountsMatch' /\ OneCommand' /\ FreedUnlinked'
  BY <1>1 DEF IInv, CountsMatch, OneCommand, Holds, Waiting, Current, FreedUnlinked
<1>3. MatchedPending'
  <2>1. CASE FwAnswer(s)  BY <1>1, <2>1 DEF FwAnswer, IInv, MatchedPending
  <2>2. CASE RespStart(s)
    <3>1. pending = <<>> \/ pending = <<Current>>  BY DEF IInv, OneCommand, Holds
    <3>2. respSkb' = IF pending = <<>> THEN None ELSE Head(pending)
      BY <2>2 DEF RespStart
    <3> QED  BY <1>1, <3>1, <3>2, OneElement DEF MatchedPending
  <2>3. CASE RespEnd  BY <2>3 DEF RespEnd, MatchedPending
  <2> QED  BY <2>1, <2>2, <2>3
<1> QED  BY <1>2, <1>3

LEMMA StepInv == NoSlowSend /\ IInv /\ [Next]_vars => IInv'
<1> SUFFICES ASSUME NoSlowSend, IInv, [Next]_vars  PROVE IInv'  OBVIOUS
<1>1. TypeOK'  BY StepType DEF IInv
<1> SUFFICES CountsMatch' /\ OneCommand' /\ FreedUnlinked' /\ MatchedPending'
  BY <1>1 DEF IInv
<1>2. CASE Call \/ SendFails \/ Send \/ Wake \/ Timeout  BY <1>2, CallerInv
<1>3. CASE Cleanup  BY <1>3, CleanupInv
<1>4. CASE \E n \in 0 .. Len(skbq) : TxStart(n)  BY <1>4, TxStartInv
<1>5. CASE WriteOk \/ WriteFails \/ TxComplete  BY <1>5, ChipWorkInv
<1>6. CASE \E s \in fwTodo : FwAnswer(s)  BY <1>6, AnswerInv
<1>7. CASE \E r \in resps : RespStart(r)  BY <1>7, AnswerInv
<1>8. CASE RespEnd  BY <1>8, AnswerInv
<1>9. CASE UNCHANGED vars
  BY <1>9 DEF vars, caller, queues, chip, answers, IInv, CountsMatch, OneCommand,
              Holds, Waiting, Current, FreedUnlinked, MatchedPending
<1> QED  BY <1>2, <1>3, <1>4, <1>5, <1>6, <1>7, <1>8, <1>9 DEF Next

LEMMA InvHolds == NoSlowSend => (Spec => []IInv)
<1> SUFFICES ASSUME NoSlowSend  PROVE Spec => []IInv  OBVIOUS
<1>1. IInv /\ [Next]_vars => IInv'  BY StepInv
<1> QED  BY <1>1, InitInv, PTL DEF Spec

\* The two qlen count the packets that are linked: what the cleanup decides from
\* the counters alone is decided of the list that has the packet.
THEOREM CountsCorrect == NoSlowSend => (Spec => []CountsMatch)
<1>1. IInv => CountsMatch  BY DEF IInv
<1> QED  BY <1>1, InvHolds, PTL

\* No packet is freed while an answer is matched against it: the purge of the
\* chip work, which does not take cmd_lock, finds nothing pending.
THEOREM HeldLives == NoSlowSend => (Spec => []HeldPacketLives)
<1>1. IInv => HeldPacketLives
  <2> SUFFICES ASSUME IInv  PROVE respSkb \notin freed  BY DEF HeldPacketLives
  <2>1. CASE respSkb = None
    BY <2>1, NoneIsNoPacket DEF IInv, TypeOK
  <2>2. CASE respSkb # None
    <3>1. pending = <<respSkb>>  BY <2>2 DEF IInv, MatchedPending
    <3>2. Range(pending) = {respSkb}  BY <3>1, OneElement
    <3> QED  BY <3>2 DEF IInv, FreedUnlinked
  <2> QED  BY <2>1, <2>2
<1> QED  BY <1>1, InvHolds, PTL

-----------------------------------------------------------------------------
(* The calls.  IInv /\ Answered is inductive if the sequence number of a     *)
(* call is its own.                                                        *)

LEMMA OwnSequence ==
  ASSUME NoSeqWrap, NEW c \in Cmds
  PROVE  SeqOf(c) = c
BY CommandAssumption DEF NoSeqWrap, SeqOf, Cmds

\* A matching answer is the answer to the command whose caller waits.
LEMMA MatchIsCurrent ==
  ASSUME NoSeqWrap, IInv, resp # None, Matches
  PROVE  Waiting /\ cur \in Cmds /\ respSkb[1] = cur /\ resp[1] = cur
<1>1. respSkb # None /\ pending = <<respSkb>>
  BY DEF Matches, IInv, MatchedPending
<1>2. Waiting /\ respSkb = Current
  <2>1. pending # <<>>  BY <1>1, OneElement
  <2>2. pending = <<Current>> /\ Waiting  BY <2>1 DEF IInv, OneCommand, Holds
  <2>3. Head(pending) = respSkb /\ Head(pending) = Current
    BY <1>1, <2>2, OneElement
  <2> QED  BY <2>2, <2>3
<1>3. cur \in Cmds /\ respSkb[1] = cur
  BY <1>2, CurrentType DEF IInv, Waiting, Current
<1>4. resp[1] \in Cmds  BY DEF IInv, TypeOK, Packets
<1>5. SeqOf(cur) = SeqOf(resp[1])  BY <1>3 DEF Matches
<1> QED  BY <1>2, <1>3, <1>4, <1>5, OwnSequence

LEMMA InitAnswered == Init => Answered
BY DEF Init, Answered

LEMMA StepAnswered ==
  ASSUME NoSeqWrap, IInv, Answered, [Next]_vars
  PROVE  Answered'
<1> USE DEF queues, chip, answers
<1>1. cur \in 0 .. NumCmds /\ result \in [Cmds -> Results] /\ buffer \in [Cmds -> 0 .. NumCmds]
  BY DEF IInv, TypeOK
<1>2. CASE Call
  <2>1. /\ cur' = cur + 1 /\ comp' = FALSE /\ pc' = "send" /\ UNCHANGED <<result, buffer>>
        /\ cur + 1 \in Cmds
    BY <1>1, <1>2, CommandAssumption DEF Call, Cmds
  <2>2. \A c \in Cmds : c > cur => result[c] = "none"  BY DEF Answered
  <2>3. \A c \in Cmds : c > cur' => result'[c] = "none"
    BY <1>1, <2>1, <2>2 DEF Cmds
  <2>4. result'[cur'] = "none"  BY <1>1, <2>1, <2>2
  <2> QED  BY <2>1, <2>3, <2>4 DEF Answered
<1>3. CASE SendFails
  <2>1. cur \in Cmds  BY <1>3, CurrentType DEF SendFails, IInv
  <2>2. /\ pc' = "idle" /\ UNCHANGED <<cur, buffer>>
        /\ result' = [result EXCEPT ![cur] = "error"]
    BY <1>3 DEF SendFails
  <2>3. \A c \in Cmds : c > cur => result'[c] = "none"
    BY <1>1, <2>1, <2>2 DEF Answered, Cmds
  <2> QED  BY <2>2, <2>3 DEF Answered
<1>4. CASE Send
  <2>1. /\ pc = "send" /\ pc' = "wait" /\ (comp' => comp) /\ UNCHANGED <<cur, buffer, result>>
    BY <1>4 DEF Send
  <2> QED  BY <2>1 DEF Answered
<1>5. CASE Wake
  <2>1. /\ pc = "wait" /\ comp /\ comp' = FALSE /\ UNCHANGED <<cur, buffer, result>>
    BY <1>5 DEF Wake
  <2> QED  BY <2>1 DEF Answered
<1>6. CASE Timeout
  <2>1. /\ pc = "wait" /\ comp' = comp /\ woken' = FALSE /\ UNCHANGED <<cur, buffer, result>>
    BY <1>6 DEF Timeout
  <2> QED  BY <2>1 DEF Answered
<1>7. CASE Cleanup
  <2>1. cur \in Cmds  BY <1>7, CurrentType DEF Cleanup, IInv
  <2>2. pc = "cleanup" /\ UNCHANGED <<cur, comp, buffer>>  BY <1>7 DEF Cleanup
  <2>3. CASE pc' = "send" /\ result' = result
    BY <2>2, <2>3 DEF Answered
  <2>4. ASSUME NEW ret, pc' = "idle", result' = [result EXCEPT ![cur] = ret]
        PROVE  Answered'
    <3>1. \A c \in Cmds : c > cur => result'[c] = "none"
      BY <1>1, <2>1, <2>4 DEF Answered, Cmds
    <3> QED  BY <2>2, <2>4, <3>1 DEF Answered
  <2> QED  BY <1>7, <2>3, <2>4, CleanupReturns
<1>8. CASE RespEnd
  <2>1. resp # None /\ UNCHANGED <<cur, pc, woken, result>>  BY <1>8 DEF RespEnd
  <2>2. CASE Matches
    <3>1. Waiting /\ cur \in Cmds /\ respSkb[1] = cur /\ resp[1] = cur
      BY <2>1, <2>2, MatchIsCurrent
    <3>2. buffer'[cur] = cur  BY <1>1, <1>8, <2>2, <3>1 DEF RespEnd
    <3> QED  BY <2>1, <3>2 DEF Answered
  <2>3. CASE ~Matches
    <3>1. UNCHANGED <<buffer, comp>>  BY <1>8, <2>3 DEF RespEnd
    <3> QED  BY <2>1, <3>1 DEF Answered
  <2> QED  BY <2>2, <2>3
<1>9. CASE (\E n \in 0 .. Len(skbq) : TxStart(n)) \/ WriteOk \/ WriteFails \/ TxComplete
  <2>1. UNCHANGED <<cur, pc, comp, woken, result, buffer>>
    BY <1>9 DEF TxStart, WriteOk, WriteFails, TxComplete, caller
  <2> QED  BY <2>1 DEF Answered
<1>10. CASE (\E s \in fwTodo : FwAnswer(s)) \/ (\E r \in resps : RespStart(r))
  <2>1. UNCHANGED <<cur, pc, comp, woken, result, buffer>>
    BY <1>10 DEF FwAnswer, RespStart, caller
  <2> QED  BY <2>1 DEF Answered
<1>11. CASE UNCHANGED vars  BY <1>11 DEF vars, caller, Answered
<1> QED  BY <1>2, <1>3, <1>4, <1>5, <1>6, <1>7, <1>8, <1>9, <1>10, <1>11 DEF Next

-----------------------------------------------------------------------------
(* The calls of Command are calls of CommandService.                       *)

\* What Service takes for the status of each command.
Status == [c \in Cmds |-> IF result[c] # "none" THEN result[c]
                          ELSE IF c = cur /\ pc # "idle" THEN "called" ELSE "new"]

LEMMA InitService == Init => Service!Init
<1> SUFFICES ASSUME Init  PROVE Service!Init  OBVIOUS
<1>1. result = [c \in Cmds |-> "none"] /\ pc = "idle" /\ buffer = [c \in Cmds |-> 0]
  BY DEF Init
<1>2. Status = [c \in Cmds |-> "new"]  BY <1>1 DEF Status
<1> QED  BY <1>1, <1>2 DEF Service!Init, Status

\* While a call is made its status is "called", and it is the only one.
LEMMA StatusOfCurrent ==
  ASSUME IInv, Answered, pc # "idle"
  PROVE  cur \in Cmds /\ Status[cur] = "called"
BY CurrentType DEF IInv, Answered, Status

\* A call returns: the abstract step is Return.
LEMMA ReturnService ==
  ASSUME IInv, Answered, pc # "idle", pc' = "idle", UNCHANGED <<cur, buffer>>,
         NEW ret \in {"answer", "timeout", "error"},
         result' = [result EXCEPT ![cur] = ret],
         ret = "answer" => buffer[cur] = cur
  PROVE  Service!Next
<1>1. cur \in Cmds /\ Status[cur] = "called"  BY StatusOfCurrent
<1>2. result \in [Cmds -> Results]  BY DEF IInv, TypeOK
<1>3. Status' = [Status EXCEPT ![cur] = ret]
  <2>1. \A c \in Cmds : result'[c] = IF c = cur THEN ret ELSE result[c]
    BY <1>1, <1>2
  <2>2. ret # "none"  OBVIOUS
  <2>3. \A c \in Cmds : Status'[c] = IF c = cur THEN ret ELSE Status[c]
    BY <2>1, <2>2 DEF Status
  <2>4. Status' = [c \in Cmds |-> Status'[c]] /\ Status = [c \in Cmds |-> Status[c]]
    BY DEF Status
  <2> HIDE DEF Status
  <2> QED  BY <1>1, <2>3, <2>4
<1>4. Service!Return(cur, ret)
  BY <1>1, <1>3 DEF Service!Return, Status
<1> QED  BY <1>1, <1>4 DEF Service!Next

\* Every step is a step of CommandService or leaves its variables alone.
LEMMA StepService ==
  ASSUME NoSeqWrap, IInv, Answered, [Next]_vars
  PROVE  [Service!Next]_(Service!svars)
<1> USE DEF queues, chip, answers
<1>1. cur \in 0 .. NumCmds /\ result \in [Cmds -> Results] /\ buffer \in [Cmds -> 0 .. NumCmds]
  BY DEF IInv, TypeOK
<1>2. ASSUME UNCHANGED <<Status, buffer>>  PROVE UNCHANGED Service!svars
  BY <1>2 DEF Service!svars, Status
<1>3. ASSUME UNCHANGED <<cur, result>>, pc = "idle" <=> pc' = "idle"
      PROVE  Status' = Status
  BY <1>3 DEF Status
<1>4. CASE Call
  <2>1. /\ pc = "idle" /\ pc' = "send" /\ cur' = cur + 1 /\ UNCHANGED <<result, buffer>>
        /\ cur' \in Cmds
    BY <1>1, <1>4, CommandAssumption DEF Call, Cmds
  <2>2. PICK c \in Cmds : c = cur'  BY <2>1
  <2>3. result[c] = "none"
    <3>1. \A d \in Cmds : d > cur => result[d] = "none"  BY DEF Answered
    <3> QED  BY <1>1, <2>1, <2>2, <3>1
  <2>4. \A d \in Cmds : Status[d] # "called"
    <3> TAKE d \in Cmds
    <3>1. result[d] \in Results  BY <1>1
    <3> QED  BY <2>1, <3>1 DEF Status, Results
  <2>5. Status[c] = "new"  BY <2>1, <2>3 DEF Status
  <2>6. Status' = [Status EXCEPT ![c] = "called"]
    <3>1. \A d \in Cmds : Status'[d] = IF d = c THEN "called" ELSE Status[d]
      BY <2>1, <2>2, <2>3 DEF Status
    <3>2. Status' = [d \in Cmds |-> Status'[d]] /\ Status = [d \in Cmds |-> Status[d]]
      BY DEF Status
    <3> HIDE DEF Status
    <3> QED  BY <3>1, <3>2
  <2>7. Service!Call(c)  BY <2>1, <2>4, <2>5, <2>6 DEF Service!Call, Status
  <2> QED  BY <2>7 DEF Service!Next
<1>5. CASE SendFails
  <2>1. /\ pc # "idle" /\ pc' = "idle" /\ UNCHANGED <<cur, buffer>>
        /\ result' = [result EXCEPT ![cur] = "error"]
    BY <1>5 DEF SendFails
  <2> QED  BY <2>1, ReturnService
<1>6. CASE Send \/ Wake \/ Timeout
  <2>1. /\ UNCHANGED <<cur, result, buffer>> /\ pc # "idle" /\ pc' # "idle"
    BY <1>6 DEF Send, Wake, Timeout
  <2> QED  BY <1>2, <1>3, <2>1
<1>7. CASE Cleanup
  <2>1. pc = "cleanup" /\ UNCHANGED <<cur, buffer>>  BY <1>7 DEF Cleanup
  <2>2. CASE pc' = "send" /\ result' = result
    BY <1>2, <1>3, <2>1, <2>2
  <2>3. ASSUME NEW ret \in {"answer", "timeout"}, ret = "answer" => woken, pc' = "idle",
               result' = [result EXCEPT ![cur] = ret]
        PROVE  Service!Next
    <3>1. ret \in {"answer", "timeout", "error"} /\ (ret = "answer" => buffer[cur] = cur)
      BY <2>1, <2>3 DEF Answered
    <3> QED  BY <2>1, <2>3, <3>1, ReturnService
  <2> QED  BY <1>7, <2>2, <2>3, CleanupReturns
<1>8. CASE RespEnd
  <2>1. resp # None /\ UNCHANGED <<cur, pc, result>>  BY <1>8 DEF RespEnd
  <2>2. CASE Matches
    <3>1. Waiting /\ cur \in Cmds /\ respSkb[1] = cur /\ resp[1] = cur
      BY <2>1, <2>2, MatchIsCurrent
    <3>2. buffer' = [buffer EXCEPT ![cur] = cur]  BY <1>8, <2>2, <3>1 DEF RespEnd
    <3>3. Status[cur] = "called" /\ Status' = Status
      BY <1>3, <2>1, <3>1, StatusOfCurrent DEF Waiting
    <3>4. Service!Answer(cur)  BY <3>2, <3>3 DEF Service!Answer, Status
    <3> QED  BY <3>1, <3>4 DEF Service!Next
  <2>3. CASE ~Matches
    <3>1. buffer' = buffer  BY <1>8, <2>3 DEF RespEnd
    <3> QED  BY <1>2, <1>3, <2>1, <3>1
  <2> QED  BY <2>2, <2>3
<1>9. CASE (\E n \in 0 .. Len(skbq) : TxStart(n)) \/ WriteOk \/ WriteFails \/ TxComplete
  <2>1. UNCHANGED <<cur, pc, result, buffer>>
    BY <1>9 DEF TxStart, WriteOk, WriteFails, TxComplete, caller
  <2> QED  BY <1>2, <1>3, <2>1
<1>10. CASE (\E s \in fwTodo : FwAnswer(s)) \/ (\E r \in resps : RespStart(r))
  <2>1. UNCHANGED <<cur, pc, result, buffer>>
    BY <1>10 DEF FwAnswer, RespStart, caller
  <2> QED  BY <1>2, <1>3, <2>1
<1>11. CASE UNCHANGED vars
  <2>1. UNCHANGED <<cur, pc, result, buffer>>  BY <1>11 DEF vars, caller
  <2> QED  BY <1>2, <1>3, <2>1
<1> QED  BY <1>4, <1>5, <1>6, <1>7, <1>8, <1>9, <1>10, <1>11 DEF Next

\* morse_cmd_tx() does what CommandService promises: a response buffer is written
\* only while its caller waits, only with the answer to its command, and a call
\* that returns the status of the firmware has been answered.
THEOREM ImplementsService == NoSlowSend /\ NoSeqWrap => (Spec => Implements)
<1> SUFFICES ASSUME NoSlowSend, NoSeqWrap  PROVE Spec => Implements  OBVIOUS
<1>1. Spec => []IInv  BY InvHolds
<1>2. IInv /\ Answered /\ [Next]_vars => Answered'  BY StepAnswered
<1>3. IInv /\ Answered /\ [Next]_vars => [Service!Next]_(Service!svars)
  BY StepService
<1> QED
  BY <1>1, <1>2, <1>3, InitAnswered, InitService, PTL
  DEF Spec, Implements, Service!Spec

=============================================================================
