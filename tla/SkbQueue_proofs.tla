--------------------------- MODULE SkbQueue_proofs --------------------------
(***************************************************************************)
(* Theorems about SkbQueue, for every size of queue, burst and number of   *)
(* packets.                                                                *)
(***************************************************************************)
EXTENDS SkbQueue, SequenceTheorems, WellFoundedInduction, TLAPS

-----------------------------------------------------------------------------
(* The two halves a queue is cut into, and the queue with a packet inserted.  *)

Inserted(q, i, p) == (Prefix(q, i - 1) \o <<p>>) \o Rest(q, i - 1)

\* What a prefix (the packets a dequeue takes) holds.
LEMMA PrefixProperties ==
  ASSUME NEW S, NEW q \in Seq(S), NEW n \in 0 .. Len(q)
  PROVE  /\ Prefix(q, n) \in Seq(S)
         /\ Len(Prefix(q, n)) = n
         /\ \A i \in 1 .. n : Prefix(q, n)[i] = q[i]
         /\ Range(Prefix(q, n)) = {q[i] : i \in 1 .. n}
<1>1. Len(q) \in Nat  BY LenProperties
<1>2. \A i \in 1 .. n : q[i] \in S  BY <1>1, ElementOfSeq
<1>3. /\ Prefix(q, n) \in Seq(S)
      /\ Len(Prefix(q, n)) = n
      /\ \A i \in 1 .. n : Prefix(q, n)[i] = q[i]
  BY <1>1, <1>2, SubSeqProperties DEF Prefix
<1>4. Range(Prefix(q, n)) = {Prefix(q, n)[i] : i \in 1 .. n}
  BY <1>3, RangeEquality
<1> QED  BY <1>3, <1>4

\* What the rest of the queue holds after a dequeue.
LEMMA RestProperties ==
  ASSUME NEW S, NEW q \in Seq(S), NEW n \in 0 .. Len(q)
  PROVE  /\ Rest(q, n) \in Seq(S)
         /\ Len(Rest(q, n)) = Len(q) - n
         /\ \A i \in 1 .. (Len(q) - n) : Rest(q, n)[i] = q[n + i]
         /\ Range(Rest(q, n)) = {q[i] : i \in (n + 1) .. Len(q)}
<1>1. Len(q) \in Nat  BY LenProperties
<1>2. \A i \in (n + 1) .. Len(q) : q[i] \in S  BY <1>1, ElementOfSeq
<1>3. /\ Rest(q, n) \in Seq(S)
      /\ Len(Rest(q, n)) = IF n + 1 <= Len(q) THEN Len(q) - (n + 1) + 1 ELSE 0
      /\ \A i \in 1 .. (Len(q) - (n + 1) + 1) : Rest(q, n)[i] = q[(n + 1) + i - 1]
  BY <1>1, <1>2, SubSeqProperties DEF Rest
<1>4. /\ Len(Rest(q, n)) = Len(q) - n
      /\ \A i \in 1 .. (Len(q) - n) : Rest(q, n)[i] = q[n + i]
  <2>1. n \in Nat /\ n <= Len(q)  BY <1>1
  <2>2. Len(q) - (n + 1) + 1 = Len(q) - n  BY <1>1, <2>1
  <2>3. \A i \in 1 .. (Len(q) - n) : (n + 1) + i - 1 = n + i  BY <2>1, SMTT(30)
  <2>4. \A i \in 1 .. (Len(q) - n) : Rest(q, n)[i] = q[(n + 1) + i - 1]
    BY <1>3, <2>2
  <2>5. Len(Rest(q, n)) = Len(q) - n
    <3>1. CASE n + 1 <= Len(q)  BY <1>3, <2>2, <3>1
    <3>2. CASE ~(n + 1 <= Len(q))
      <4>1. Len(Rest(q, n)) = 0  BY <1>3, <3>2
      <4>2. n = Len(q)  BY <1>1, <2>1, <3>2
      <4> QED  BY <1>1, <4>1, <4>2
    <3> QED  BY <3>1, <3>2
  <2> QED  BY <2>3, <2>4, <2>5
<1>5. Range(Rest(q, n)) = {Rest(q, n)[i] : i \in 1 .. (Len(q) - n)}
  BY <1>3, <1>4, RangeEquality
<1>6. {q[n + i] : i \in 1 .. (Len(q) - n)} = {q[i] : i \in (n + 1) .. Len(q)}
  <2>1. ASSUME NEW i \in (n + 1) .. Len(q)
        PROVE  \E j \in 1 .. (Len(q) - n) : q[i] = q[n + j]
    <3>1. i - n \in 1 .. (Len(q) - n) /\ n + (i - n) = i  BY <1>1
    <3> QED  BY <3>1
  <2>2. ASSUME NEW j \in 1 .. (Len(q) - n)
        PROVE  n + j \in (n + 1) .. Len(q)
    BY <1>1
  <2> QED  BY <2>1, <2>2
<1>7. Range(Rest(q, n)) = {q[n + i] : i \in 1 .. (Len(q) - n)}
  BY <1>4, <1>5
<1> QED  BY <1>3, <1>4, <1>6, <1>7

\* A cut splits the packets of a queue without repetition into two disjoint
\* queues without repetition.
LEMMA CutProperties ==
  ASSUME NEW S, NEW q \in Seq(S), NEW n \in 0 .. Len(q), NoDup(q)
  PROVE  /\ NoDup(Prefix(q, n)) /\ NoDup(Rest(q, n))
         /\ Range(Prefix(q, n)) \cup Range(Rest(q, n)) = Range(q)
         /\ Range(Prefix(q, n)) \cap Range(Rest(q, n)) = {}
<1>1. Len(q) \in Nat  BY LenProperties
<1>2. Range(q) = {q[i] : i \in 1 .. Len(q)}  BY RangeEquality
<1>3. NoDup(Prefix(q, n))
  <2>1. /\ Len(Prefix(q, n)) = n
        /\ \A i \in 1 .. n : Prefix(q, n)[i] = q[i]
    BY PrefixProperties
  <2>2. 1 .. n \subseteq 1 .. Len(q)  BY <1>1
  <2> QED  BY <2>1, <2>2 DEF NoDup
<1>4. NoDup(Rest(q, n))
  <2> SUFFICES ASSUME NEW i \in 1 .. (Len(q) - n), NEW j \in 1 .. (Len(q) - n),
                      Rest(q, n)[i] = Rest(q, n)[j]
               PROVE  i = j
    <3>1. Len(Rest(q, n)) = Len(q) - n  BY RestProperties
    <3> QED  BY <3>1 DEF NoDup
  <2>1. q[n + i] = q[n + j]  BY RestProperties
  <2>2. n + i \in 1 .. Len(q) /\ n + j \in 1 .. Len(q)  BY <1>1
  <2>3. n + i = n + j  BY <2>1, <2>2 DEF NoDup
  <2> QED  BY <1>1, <2>3
<1>5. Range(Prefix(q, n)) = {q[i] : i \in 1 .. n}  BY PrefixProperties
<1>6. Range(Rest(q, n)) = {q[i] : i \in (n + 1) .. Len(q)}  BY RestProperties
<1>7. Range(Prefix(q, n)) \cup Range(Rest(q, n)) = Range(q)
  <2>1. 1 .. Len(q) = (1 .. n) \cup ((n + 1) .. Len(q))  BY <1>1
  <2>2. Range(q) = {q[i] : i \in 1 .. n} \cup {q[i] : i \in (n + 1) .. Len(q)}
    BY <1>2, <2>1
  <2> QED  BY <2>2, <1>5, <1>6
<1>8. Range(Prefix(q, n)) \cap Range(Rest(q, n)) = {}
  <2>1. ASSUME NEW i \in 1 .. n, NEW j \in (n + 1) .. Len(q)  PROVE  q[i] # q[j]
    <3>1. i \in 1 .. Len(q) /\ j \in 1 .. Len(q) /\ i # j  BY <1>1
    <3> QED  BY <3>1 DEF NoDup
  <2> QED  BY <2>1, <1>5, <1>6, Zenon
<1> QED  BY <1>3, <1>4, <1>7, <1>8

\* Two disjoint queues without repetition make one.
LEMMA ConcatNoDup ==
  ASSUME NEW S, NEW q \in Seq(S), NEW r \in Seq(S), NoDup(q), NoDup(r),
         Range(q) \cap Range(r) = {}
  PROVE  NoDup(q \o r)
<1>1. Len(q) \in Nat /\ Len(r) \in Nat  BY LenProperties
<1>2. /\ Len(q \o r) = Len(q) + Len(r)
      /\ \A i \in 1 .. (Len(q) + Len(r)) :
            (q \o r)[i] = IF i <= Len(q) THEN q[i] ELSE r[i - Len(q)]
  BY ConcatProperties
<1>3. \A i \in 1 .. Len(q), j \in 1 .. Len(r) : q[i] # r[j]
  <2>1. /\ Range(q) = {q[i] : i \in 1 .. Len(q)}
        /\ Range(r) = {r[j] : j \in 1 .. Len(r)}
    BY RangeEquality
  <2> QED  BY <2>1, Zenon
<1> SUFFICES ASSUME NEW i \in 1 .. (Len(q) + Len(r)), NEW j \in 1 .. (Len(q) + Len(r)),
                    (q \o r)[i] = (q \o r)[j]
             PROVE  i = j
  BY <1>2 DEF NoDup
<1>4. CASE i <= Len(q) /\ j <= Len(q)
  <2>1. i \in 1 .. Len(q) /\ j \in 1 .. Len(q) /\ q[i] = q[j]  BY <1>1, <1>2, <1>4
  <2> QED  BY <2>1 DEF NoDup
<1>5. CASE i <= Len(q) /\ ~(j <= Len(q))
  <2>1. i \in 1 .. Len(q) /\ j - Len(q) \in 1 .. Len(r)  BY <1>1, <1>5
  <2> QED  BY <2>1, <1>2, <1>3, <1>5
<1>6. CASE ~(i <= Len(q)) /\ j <= Len(q)
  <2>1. j \in 1 .. Len(q) /\ i - Len(q) \in 1 .. Len(r)  BY <1>1, <1>6
  <2> QED  BY <2>1, <1>2, <1>3, <1>6
<1>7. CASE ~(i <= Len(q)) /\ ~(j <= Len(q))
  <2>1. i - Len(q) \in 1 .. Len(r) /\ j - Len(q) \in 1 .. Len(r)  BY <1>1, <1>7
  <2>2. r[i - Len(q)] = r[j - Len(q)]  BY <1>2, <1>7
  <2>3. i - Len(q) = j - Len(q)  BY <2>1, <2>2 DEF NoDup
  <2> QED  BY <1>1, <2>3
<1> QED  BY <1>4, <1>5, <1>6, <1>7

\* Two queues and a packet between them.
LEMMA SpliceProperties ==
  ASSUME NEW S, NEW a \in Seq(S), NEW b \in Seq(S), NEW p \in S
  PROVE  /\ (a \o <<p>>) \o b \in Seq(S)
         /\ Len((a \o <<p>>) \o b) = Len(a) + 1 + Len(b)
         /\ Range((a \o <<p>>) \o b) = (Range(a) \cup {p}) \cup Range(b)
         /\ \A i \in 1 .. Len(a) : ((a \o <<p>>) \o b)[i] = a[i]
         /\ ((a \o <<p>>) \o b)[Len(a) + 1] = p
         /\ \A i \in 1 .. Len(b) : ((a \o <<p>>) \o b)[Len(a) + 1 + i] = b[i]
         /\ /\ NoDup(a) /\ NoDup(b) /\ Range(a) \cap Range(b) = {}
            /\ p \notin Range(a) \cup Range(b)
            => NoDup((a \o <<p>>) \o b)
<1>1. <<p>> \in Seq(S) /\ Len(<<p>>) = 1 /\ <<p>>[1] = p  OBVIOUS
<1>2. Range(<<p>>) = {p} /\ NoDup(<<p>>)
  <2>1. Range(<<p>>) = {<<p>>[k] : k \in 1 .. Len(<<p>>)}  BY <1>1, RangeEquality
  <2>2. 1 .. 1 = {1}  OBVIOUS
  <2> QED  BY <1>1, <2>1, <2>2 DEF NoDup
<1> DEFINE c == a \o <<p>>
<1>3. /\ c \in Seq(S) /\ Len(c) = Len(a) + 1
      /\ \A i \in 1 .. (Len(a) + 1) : c[i] = IF i <= Len(a) THEN a[i] ELSE <<p>>[i - Len(a)]
  BY <1>1, ConcatProperties
<1>4. Range(c) = Range(a) \cup {p}
  <2> HIDE DEF c
  <2>1. Len(a) \in Nat  BY LenProperties
  <2>2. /\ Range(c) = {c[i] : i \in 1 .. Len(c)}
        /\ Range(a) = {a[i] : i \in 1 .. Len(a)}
    BY <1>3, RangeEquality
  <2>3. c[Len(a) + 1] = p  BY <2>1, <1>1, <1>3
  <2>4. \A i \in 1 .. Len(a) : c[i] = a[i]  BY <2>1, <1>3
  <2>5. 1 .. Len(c) = (1 .. Len(a)) \cup {Len(a) + 1}  BY <2>1, <1>3
  <2> QED  BY <2>2, <2>3, <2>4, <2>5, SMTT(30)
<1>5. Range(c \o b) = Range(c) \cup Range(b)
  <2> HIDE DEF c
  <2> QED  BY <1>3, RangeConcatenation, ZenonT(60)
<1>6. ASSUME NoDup(a), NoDup(b), Range(a) \cap Range(b) = {},
             p \notin Range(a) \cup Range(b)
      PROVE  NoDup(c \o b)
  <2>1. NoDup(c)  BY <1>1, <1>2, <1>6, ConcatNoDup
  <2> QED  BY <2>1, <1>3, <1>4, <1>6, ConcatNoDup
<1> HIDE DEF c
<1>7. /\ c \o b \in Seq(S) /\ Len(c \o b) = Len(c) + Len(b)
      /\ \A i \in 1 .. (Len(c) + Len(b)) :
            (c \o b)[i] = IF i <= Len(c) THEN c[i] ELSE b[i - Len(c)]
  <2>1. c \in Seq(S)  BY <1>3
  <2> QED  BY <2>1, ConcatProperties
<1>8. Len(a) \in Nat /\ Len(b) \in Nat  BY LenProperties
<1>9. \A i \in 1 .. Len(a) : (c \o b)[i] = a[i]  BY <1>3, <1>7, <1>8
<1>10. (c \o b)[Len(a) + 1] = p  BY <1>1, <1>3, <1>7, <1>8
<1>11. \A i \in 1 .. Len(b) : (c \o b)[Len(a) + 1 + i] = b[i]
  <2> TAKE i \in 1 .. Len(b)
  <2>1. /\ Len(a) + 1 + i \in 1 .. (Len(c) + Len(b))
        /\ ~(Len(a) + 1 + i <= Len(c))
        /\ (Len(a) + 1 + i) - Len(c) = i
    BY <1>3, <1>8
  <2> QED  BY <1>7, <2>1
<1> QED  BY <1>3, <1>4, <1>5, <1>6, <1>7, <1>9, <1>10, <1>11 DEF c

\* A packet inserted at any place.
LEMMA InsertedProperties ==
  ASSUME NEW S, NEW q \in Seq(S), NEW p \in S, NEW i \in 1 .. (Len(q) + 1)
  PROVE  /\ Inserted(q, i, p) \in Seq(S)
         /\ Len(Inserted(q, i, p)) = Len(q) + 1
         /\ NoDup(q) => Range(Inserted(q, i, p)) = Range(q) \cup {p}
         /\ NoDup(q) /\ p \notin Range(q) => NoDup(Inserted(q, i, p))
<1>1. Len(q) \in Nat /\ i - 1 \in 0 .. Len(q)  BY LenProperties
<1>2. /\ Prefix(q, i - 1) \in Seq(S) /\ Len(Prefix(q, i - 1)) = i - 1
      /\ Rest(q, i - 1) \in Seq(S) /\ Len(Rest(q, i - 1)) = Len(q) - (i - 1)
  BY <1>1, PrefixProperties, RestProperties, ZenonT(60)
<1>3. Inserted(q, i, p) \in Seq(S) /\ Len(Inserted(q, i, p)) = Len(q) + 1
  <2>1. Prefix(q, i - 1) \in Seq(S) /\ Rest(q, i - 1) \in Seq(S)  BY <1>2
  <2>2. /\ Inserted(q, i, p) \in Seq(S)
        /\ Len(Inserted(q, i, p)) = Len(Prefix(q, i - 1)) + 1 + Len(Rest(q, i - 1))
    BY <2>1, SpliceProperties DEF Inserted
  <2>3. Len(Prefix(q, i - 1)) = i - 1 /\ Len(Rest(q, i - 1)) = Len(q) - (i - 1)
    BY <1>2
  <2>4. Len(Prefix(q, i - 1)) + 1 + Len(Rest(q, i - 1)) = Len(q) + 1
    BY <1>1, <2>3
  <2> QED  BY <2>2, <2>4
<1>4. ASSUME NoDup(q)
      PROVE  /\ Range(Inserted(q, i, p)) = Range(q) \cup {p}
             /\ p \notin Range(q) => NoDup(Inserted(q, i, p))
  <2>1. /\ NoDup(Prefix(q, i - 1)) /\ NoDup(Rest(q, i - 1))
        /\ Range(Prefix(q, i - 1)) \cup Range(Rest(q, i - 1)) = Range(q)
        /\ Range(Prefix(q, i - 1)) \cap Range(Rest(q, i - 1)) = {}
    BY <1>1, <1>4, CutProperties
  <2>2. Range(Inserted(q, i, p))
          = (Range(Prefix(q, i - 1)) \cup {p}) \cup Range(Rest(q, i - 1))
    BY <1>2, SpliceProperties DEF Inserted
  <2>3. p \notin Range(q) => NoDup(Inserted(q, i, p))
    BY <1>2, <2>1, SpliceProperties DEF Inserted
  <2> QED  BY <2>1, <2>2, <2>3
<1> QED  BY <1>3, <1>4

\* insert_pending_skb_to_skbq() finds a place: when the tail is not smaller
\* there is a first packet that is not.
LEMMA InsertPosType ==
  ASSUME NEW q \in Seq(Pkts), NEW p \in Pkts
  PROVE  /\ InsertPos(q, p) \in 1 .. (Len(q) + 1)
         /\ \/ InsertPos(q, p) = Len(q) + 1 /\ (q = <<>> \/ Id(p) >= Id(q[Len(q)]))
            \/ /\ InsertPos(q, p) \in 1 .. Len(q)
               /\ Id(p) <= Id(q[InsertPos(q, p)])
               /\ \A j \in 1 .. (InsertPos(q, p) - 1) : Id(q[j]) < Id(p)
<1>1. Len(q) \in Nat  BY LenProperties
<1>2. CASE q = <<>> \/ Id(p) >= Id(q[Len(q)])
  BY <1>1, <1>2 DEF InsertPos
<1>3. CASE ~(q = <<>> \/ Id(p) >= Id(q[Len(q)]))
  <2> DEFINE T == {i \in 1 .. Len(q) : Id(p) <= Id(q[i])}
  <2>1. \A i \in 1 .. Len(q) : Id(q[i]) \in Nat
    <3>1. \A i \in 1 .. Len(q) : q[i] \in Nat  BY ElementOfSeq, SkbQueueAssumption DEF Pkts
    <3> QED  BY <3>1, SkbQueueAssumption DEF Id
  <2>2. Id(p) \in Nat  BY SkbQueueAssumption DEF Id, Pkts
  <2>3. Len(q) \in 1 .. Len(q)  BY <1>1, <1>3, EmptySeq
  <2>4. Len(q) \in T  BY <1>3, <2>1, <2>2, <2>3
  <2>5. T \subseteq Nat  BY <1>1
  <2>6. PICK i \in T : \A j \in T : ~(<<j, i>> \in OpToRel(<, Nat))
    BY <2>4, <2>5, NatLessThanWellFounded, WFMin
  <2>7. \A j \in T : ~(j < i)  BY <2>5, <2>6 DEF OpToRel
  <2>8. ASSUME NEW j \in 1 .. (i - 1)  PROVE  Id(q[j]) < Id(p)
    <3>1. j \in 1 .. Len(q) /\ j < i  BY <1>1
    <3> QED  BY <3>1, <2>1, <2>2, <2>7
  <2>9. \E k \in 1 .. Len(q) :
           Id(p) <= Id(q[k]) /\ \A j \in 1 .. (k - 1) : Id(q[j]) < Id(p)
    BY <2>8
  <2>10. InsertPos(q, p) = CHOOSE k \in 1 .. Len(q) :
            Id(p) <= Id(q[k]) /\ \A j \in 1 .. (k - 1) : Id(q[j]) < Id(p)
    BY <1>3 DEF InsertPos
  <2>11. /\ InsertPos(q, p) \in 1 .. Len(q)
         /\ Id(p) <= Id(q[InsertPos(q, p)])
         /\ \A j \in 1 .. (InsertPos(q, p) - 1) : Id(q[j]) < Id(p)
    BY <2>9, <2>10
  <2>12. 1 .. Len(q) \subseteq 1 .. (Len(q) + 1)  BY <1>1
  <2> QED  BY <2>11, <2>12
<1> QED  BY <1>2, <1>3

\* The requeued part of the packets that were not sent fits the queue.
LEMMA RequeueProperties ==
  ASSUME NEW q \in Seq(Pkts), NEW failed \in Seq(Pkts), Len(q) <= QueueLimit
  PROVE  /\ Requeue(q, failed) \in Seq(Pkts)
         /\ Len(Requeue(q, failed)) <= QueueLimit
         /\ \E k \in 0 .. Len(failed) : Requeue(q, failed) = Rest(failed, k) \o q
<1> DEFINE fit == IF Len(failed) <= Space(q) THEN Len(failed) ELSE Space(q)
           k == Len(failed) - fit
<1>1. Len(q) \in Nat /\ Len(failed) \in Nat /\ QueueLimit \in Nat
  BY LenProperties, SkbQueueAssumption
<1>2. fit \in 0 .. Len(failed) /\ fit + Len(q) <= QueueLimit  BY <1>1 DEF Space
<1> HIDE DEF fit
<1>3. k \in 0 .. Len(failed) /\ Len(failed) - k = fit  BY <1>1, <1>2
<1> HIDE DEF k
<1>4. Requeue(q, failed) = Rest(failed, k) \o q  BY DEF Requeue, fit, k
<1>5. Rest(failed, k) \in Seq(Pkts) /\ Len(Rest(failed, k)) = fit
  BY <1>3, RestProperties
<1>6. /\ Rest(failed, k) \o q \in Seq(Pkts)
      /\ Len(Rest(failed, k) \o q) = fit + Len(q)
  <2>1. Rest(failed, k) \in Seq(Pkts)  BY <1>5
  <2> QED  BY <2>1, <1>5, ConcatProperties
<1> QED  BY <1>2, <1>3, <1>4, <1>6

\* Re-buffering a packet keeps the types and the size of the queue.
LEMMA RebufferType ==
  ASSUME NEW p \in Pkts, skbq \in Seq(Pkts), Len(skbq) <= QueueLimit,
         leaked \subseteq Pkts, putback \subseteq Pkts, Rebuffer(p)
  PROVE  /\ skbq' \in Seq(Pkts) /\ Len(skbq') <= QueueLimit
         /\ leaked' \subseteq Pkts /\ putback' \subseteq Pkts
<1>1. CASE Full(skbq)  BY <1>1 DEF Rebuffer
<1>2. CASE ~Full(skbq)
  <2> DEFINE i == InsertPos(skbq, p)
  <2>1. i \in 1 .. (Len(skbq) + 1)  BY InsertPosType
  <2>2. skbq' = Inserted(skbq, i, p) /\ leaked' = leaked /\ putback' = putback \cup {p}
    BY <1>2 DEF Rebuffer, Inserted
  <2> HIDE DEF i
  <2>3. skbq' \in Seq(Pkts) /\ Len(skbq') = Len(skbq) + 1
    BY <2>1, <2>2, InsertedProperties
  <2>4. Len(skbq) + 1 <= QueueLimit
    BY <1>2, SkbQueueAssumption, LenProperties DEF Full
  <2> QED  BY <2>2, <2>3, <2>4
<1> QED  BY <1>1, <1>2

-----------------------------------------------------------------------------
(* Types.  TypeOK is inductive.                                            *)

LEMMA InitType == Init => TypeOK
<1> SUFFICES ASSUME Init  PROVE TypeOK  OBVIOUS
<1>1. <<>> \in Seq(Pkts) /\ Len(<<>>) = 0  BY EmptySeq
<1>2. 0 <= QueueLimit /\ 0 \in 0 .. MaxPkts /\ 0 \in 0 .. MaxFiltered /\ 0 \in 0 .. MaxRestarts
  BY SkbQueueAssumption
<1>3. 0 + 0 <= Callers  BY SkbQueueAssumption
<1> QED  BY <1>1, <1>2, <1>3 DEF Init, TypeOK

\* The calls under way, and what they set.
CallsOK == stopping \in Nat /\ signalling \in Nat /\ stopping + signalling <= Callers

LEMMA TxType == TypeOK /\ Tx => TypeOK'
<1> SUFFICES ASSUME TypeOK, Tx  PROVE TypeOK'  OBVIOUS
<1>1. born \in Pkts /\ born' \in 0 .. MaxPkts
  BY SkbQueueAssumption DEF Tx, TypeOK, Pkts
<1>2. /\ skbq' \in Seq(Pkts) /\ Len(skbq') <= QueueLimit
      /\ freed' \subseteq Pkts
  <2>1. CASE Full(skbq)  BY <1>1, <2>1 DEF Tx, TypeOK
  <2>2. CASE ~Full(skbq)
    <3>1. skbq' = Append(skbq, born) /\ freed' = freed  BY <2>2 DEF Tx
    <3>2. Append(skbq, born) \in Seq(Pkts) /\ Len(Append(skbq, born)) = Len(skbq) + 1
      BY <1>1, AppendProperties DEF TypeOK
    <3>3. Len(skbq) + 1 <= QueueLimit
      BY <2>2, SkbQueueAssumption, LenProperties DEF Full, TypeOK
    <3> QED  BY <3>1, <3>2, <3>3 DEF TypeOK
  <2> QED  BY <2>1, <2>2
<1>3. CallsOK'
  <2>1. \/ stopping' = stopping + 1 /\ signalling' = signalling
        \/ signalling' = signalling + 1 /\ stopping' = stopping
    BY DEF Tx
  <2>2. /\ stopping \in Nat /\ signalling \in Nat
        /\ stopping + signalling < Callers /\ Callers \in Nat
    BY SkbQueueAssumption DEF Tx, TypeOK
  <2>3. stopping' + signalling' = stopping + signalling + 1  BY <2>1, <2>2
  <2> QED  BY <2>1, <2>2, <2>3 DEF CallsOK
<1> QED  BY <1>1, <1>2, <1>3 DEF Tx, TypeOK, CallsOK, status

\* What a call does after the unlock.
LEMMA CallType == TypeOK /\ (TxStop \/ TxSignal) => TypeOK'
<1> SUFFICES ASSUME TypeOK, TxStop \/ TxSignal  PROVE TypeOK'  OBVIOUS
<1>1. stopping \in Nat /\ signalling \in Nat /\ stopping + signalling <= Callers
  BY DEF TypeOK
<1>2. CASE TxStop
  <2>1. /\ stopping > 0 /\ stopping' = stopping - 1 /\ signalling' = signalling + 1
        /\ stopped' = TRUE
    BY <1>2 DEF TxStop
  <2>2. CallsOK'
    <3>1. stopping' + signalling' = stopping + signalling  BY <1>1, <2>1
    <3> QED  BY <1>1, <2>1, <3>1 DEF CallsOK
  <2> QED  BY <1>2, <2>1, <2>2 DEF TxStop, TypeOK, CallsOK, status
<1>3. CASE TxSignal
  <2>1. /\ signalling > 0 /\ signalling' = signalling - 1 /\ stopping' = stopping
        /\ signalled' = TRUE
    BY <1>3 DEF TxSignal
  <2>2. CallsOK'
    <3>1. stopping' + signalling' = (stopping + signalling) - 1  BY <1>1, <2>1
    <3> QED  BY SkbQueueAssumption, <1>1, <2>1, <3>1 DEF CallsOK
  <2> QED  BY <1>3, <2>1, <2>2 DEF TxSignal, TypeOK, CallsOK, status
<1> QED  BY <1>2, <1>3

LEMMA TxStartType ==
  ASSUME NEW aged \in 0 .. Len(skbq), NEW n \in 0 .. Burst,
         TypeOK, TxStart(aged, n)
  PROVE  TypeOK'
<1> DEFINE q == Rest(skbq, aged)
<1>1. skbq \in Seq(Pkts) /\ Len(skbq) \in Nat /\ Burst \in Nat
  BY LenProperties, SkbQueueAssumption DEF TypeOK
<1>2. q \in Seq(Pkts) /\ Len(q) = Len(skbq) - aged  BY <1>1, RestProperties
<1>3. n \in 0 .. Len(q)  BY <1>1, <1>2 DEF TxStart
<1> HIDE DEF q
<1>4. sending' = Prefix(q, n) /\ skbq' = Rest(q, n)  BY DEF TxStart, q
<1>5. /\ sending' \in Seq(Pkts) /\ Len(sending') = n
      /\ skbq' \in Seq(Pkts) /\ Len(skbq') = Len(q) - n
  BY <1>2, <1>3, <1>4, PrefixProperties, RestProperties
<1>6. Len(skbq') <= QueueLimit
  BY <1>1, <1>2, <1>3, <1>5, SkbQueueAssumption DEF TypeOK
<1>7. freed' \subseteq Pkts
  <2>1. Prefix(skbq, aged) \in Seq(Pkts)  BY <1>1, PrefixProperties
  <2>2. Range(Prefix(skbq, aged)) \in SUBSET Pkts  BY <2>1, RangeOfSeq
  <2> QED  BY <2>2 DEF TxStart, TypeOK
<1>8. pc' # "write" => sending' = <<>>
  BY <1>5, EmptySeq DEF TxStart
<1>9. /\ pc' \in {"count", "write"} /\ putback' \subseteq Pkts
      /\ signalled' = FALSE /\ ~left
  BY DEF TxStart, TypeOK
<1> QED  BY <1>5, <1>6, <1>7, <1>8, <1>9 DEF TxStart, TypeOK, calls, status

LEMMA WriteType == TypeOK /\ Write => TypeOK'
<1> SUFFICES ASSUME TypeOK, Write  PROVE TypeOK'  OBVIOUS
<1>1. Range(sending) \in SUBSET Pkts  BY RangeOfSeq DEF TypeOK
<1> DEFINE Typed == /\ skbq' \in Seq(Pkts) /\ Len(skbq') <= QueueLimit
                    /\ sent' \subseteq Pkts /\ freed' \subseteq Pkts
                    /\ leaked' \subseteq Pkts
<1>2. Typed
  <2>1. ASSUME NEW ok \in SUBSET Range(sending), WritePageset(ok)
        PROVE  Typed
    BY <1>1, <2>1 DEF WritePageset, TypeOK
  <2>2. ASSUME NEW n \in 0 .. Len(sending), WriteYaps(n)
        PROVE  Typed
    <3> DEFINE failed == Rest(sending, n)
    <3>1. failed \in Seq(Pkts) /\ Prefix(sending, n) \in Seq(Pkts)
      BY PrefixProperties, RestProperties DEF TypeOK
    <3>2. Range(failed) \in SUBSET Pkts /\ Range(Prefix(sending, n)) \in SUBSET Pkts
      BY <3>1, RangeOfSeq
    <3>3. Requeue(skbq, failed) \in Seq(Pkts) /\ Len(Requeue(skbq, failed)) <= QueueLimit
      BY <3>1, RequeueProperties DEF TypeOK
    <3> QED  BY <2>2, <3>2, <3>3 DEF WriteYaps, TypeOK
  <2>3. CASE StatusFails  BY <1>1, <2>3 DEF StatusFails, TypeOK
  <2> QED  BY <2>1, <2>2, <2>3 DEF Write
<1>3. sending' = <<>> /\ sending' \in Seq(Pkts)  BY EmptySeq DEF Write
<1>4. /\ pc' \in {"count", "complete"} /\ ~left
      /\ pc' # "complete" => sent' = {}
  BY DEF Write, TypeOK
<1> QED  BY <1>2, <1>3, <1>4 DEF Write, TypeOK, flow, calls, status

LEMMA ChipType ==
  ASSUME TypeOK, NEW p \in Pkts, NEW kind \in ReportKind,
         ChipReport(p, kind) \/ ReportLost(p) \/ Expire(p)
  PROVE  TypeOK'
<1>1. CASE ChipReport(p, kind)
  <2>1. filtered' \in 0 .. MaxFiltered
    BY <1>1, SkbQueueAssumption DEF ChipReport, TypeOK
  <2>2. reports' \subseteq [pkt : Pkts, kind : ReportKind]
    BY <1>1 DEF ChipReport, TypeOK
  <2>3. chip' \subseteq Pkts  BY <1>1 DEF ChipReport, TypeOK
  <2> QED  BY <1>1, <2>1, <2>2, <2>3 DEF ChipReport, TypeOK, flow, calls
<1>2. CASE ReportLost(p)  BY <1>2 DEF ReportLost, TypeOK, flow, calls
<1>3. CASE Expire(p)  BY <1>3 DEF Expire, TypeOK, flow, calls
<1> QED  BY <1>1, <1>2, <1>3

LEMMA TxStatusType ==
  ASSUME TypeOK, NEW r \in reports, TxStatus(r)
  PROVE  TypeOK'
<1> DEFINE Typed == /\ skbq' \in Seq(Pkts) /\ Len(skbq') <= QueueLimit
                    /\ pending' \subseteq Pkts /\ freed' \subseteq Pkts
                    /\ leaked' \subseteq Pkts /\ putback' \subseteq Pkts
                    /\ stale' \subseteq pending' /\ unarmed' \subseteq pending'
<1>1. WalkDrops(Id(r.pkt)) \subseteq Pkts  BY DEF WalkDrops, TypeOK
<1>2. ASSUME NEW p \in pending, NEW dropped \in SUBSET WalkDrops(Id(r.pkt)),
             StatusOf(r, p, dropped)
      PROVE  Typed
  <2>1. p \in Pkts /\ dropped \subseteq Pkts  BY <1>1 DEF TypeOK
  <2>2. /\ pending' \subseteq Pkts /\ freed' \subseteq Pkts
        /\ stale' \subseteq pending' /\ unarmed' \subseteq pending'
    BY <1>2, <2>1 DEF StatusOf, TypeOK
  <2>3. /\ skbq' \in Seq(Pkts) /\ Len(skbq') <= QueueLimit
        /\ leaked' \subseteq Pkts /\ putback' \subseteq Pkts
    BY <1>2, <2>1, RebufferType DEF StatusOf, TypeOK
  <2> QED  BY <2>2, <2>3
<1>3. ASSUME StatusUnmatched(r)  PROVE Typed
  <2>1. skbq' = skbq /\ leaked' = leaked /\ putback' = putback  BY <1>3 DEF StatusUnmatched
  <2>2. /\ pending' \subseteq Pkts /\ freed' \subseteq Pkts
        /\ stale' \subseteq pending' /\ unarmed' \subseteq pending'
    BY <1>1, <1>3 DEF StatusUnmatched, TypeOK
  <2> QED  BY <2>1, <2>2 DEF TypeOK
<1>4. Typed
  <2> HIDE DEF Typed
  <2>1. \/ \E p \in pending :
             \E dropped \in SUBSET WalkDrops(Id(r.pkt)) : StatusOf(r, p, dropped)
        \/ StatusUnmatched(r)
    BY DEF TxStatus
  <2> QED  BY <2>1, <1>2, <1>3
<1>5. reports' \subseteq [pkt : Pkts, kind : ReportKind]  BY DEF TxStatus, TypeOK
<1> QED  BY <1>4, <1>5 DEF TxStatus, TypeOK, flow, calls

\* The rest of the pass.
LEMMA PassType ==
  ASSUME TypeOK, TxComplete \/ ArmTimer \/ Count \/ CheckThreshold \/ Wake \/ TxEnd
  PROVE  TypeOK'
<1>1. CASE TxComplete
  <2>1. /\ pending' \subseteq Pkts /\ chip' \subseteq Pkts /\ freed' \subseteq Pkts
        /\ stale' \subseteq pending' /\ unarmed' \subseteq pending'
    BY <1>1 DEF TxComplete, TypeOK
  <2>2. sending = <<>> /\ sent' = {} /\ pc' \in {"arm", "count"} /\ ~left
    BY <1>1 DEF TxComplete, TypeOK
  <2> QED  BY <1>1, <2>1, <2>2 DEF TxComplete, TypeOK, flow, calls
<1>2. CASE ArmTimer
  <2>1. sending = <<>> /\ sent = {} /\ ~left /\ pc' = "count"
    BY <1>2 DEF ArmTimer, TypeOK
  <2> QED  BY <1>2, <2>1 DEF ArmTimer, TypeOK, flow, calls
<1>3. CASE Count
  <2>1. sending = <<>> /\ sent = {} /\ pc' \in {"threshold", "end"}
    BY <1>3 DEF Count, TypeOK
  <2>2. left' \in BOOLEAN  BY <1>3 DEF Count
  <2> QED  BY <1>3, <2>1, <2>2 DEF Count, TypeOK, calls, status
<1>4. CASE CheckThreshold
  <2>1. sending = <<>> /\ sent = {} /\ pc' \in {"wake", "end"}
    BY <1>4 DEF CheckThreshold, TypeOK
  <2> QED  BY <1>4, <2>1 DEF CheckThreshold, TypeOK, flow, calls, status
<1>5. CASE Wake
  <2>1. sending = <<>> /\ sent = {} /\ pc' = "end"  BY <1>5 DEF Wake, TypeOK
  <2> QED  BY <1>5, <2>1 DEF Wake, TypeOK, calls, status
<1>6. CASE TxEnd
  <2>1. sending = <<>> /\ sent = {} /\ pc' = "idle" /\ left' = FALSE
    BY <1>6 DEF TxEnd, TypeOK
  <2>2. signalled' \in BOOLEAN  BY <1>6, Zenon DEF TxEnd
  <2> QED  BY <1>6, <2>1, <2>2 DEF TxEnd, TypeOK, calls, status
<1> QED  BY <1>1, <1>2, <1>3, <1>4, <1>5, <1>6

LEMMA OtherType ==
  ASSUME TypeOK, Resume \/ TimerFire \/ StaleWork \/ RestartBegin \/ Flush
  PROVE  TypeOK'
<1>1. CASE Resume  BY <1>1 DEF Resume, TypeOK, calls, status
<1>3. CASE TimerFire
  <2>1. stalework' \in BOOLEAN  BY <1>3 DEF TimerFire, TypeOK
  <2> QED  BY <1>3, <2>1 DEF TimerFire, TypeOK, flow, calls
<1>4. CASE StaleWork  BY <1>4 DEF StaleWork, TypeOK, flow, calls
<1>5. CASE RestartBegin
  <2>1. restarts' \in 0 .. MaxRestarts  BY <1>5, SkbQueueAssumption DEF RestartBegin, TypeOK
  <2> QED  BY <1>5, <2>1 DEF RestartBegin, TypeOK, flow, calls
<1>6. CASE Flush
  <2>1. Range(skbq) \in SUBSET Pkts  BY RangeOfSeq DEF TypeOK
  <2>2. <<>> \in Seq(Pkts) /\ Len(<<>>) <= QueueLimit  BY EmptySeq, SkbQueueAssumption
  <2>3. freed' \subseteq Pkts  BY <1>6, <2>1 DEF Flush, TypeOK
  <2> QED  BY <1>6, <2>2, <2>3 DEF Flush, TypeOK, calls
<1> QED  BY <1>1, <1>3, <1>4, <1>5, <1>6

LEMMA StepType == TypeOK /\ [Next]_vars => TypeOK'
<1> SUFFICES ASSUME TypeOK, [Next]_vars  PROVE TypeOK'  OBVIOUS
<1>1. CASE Tx  BY <1>1, TxType
<1>2. ASSUME NEW aged \in 0 .. Len(skbq), NEW n \in 0 .. Burst, TxStart(aged, n)
      PROVE  TypeOK'
  BY <1>2, TxStartType
<1>3. CASE Write  BY <1>3, WriteType
<1>4. CASE Resume \/ TimerFire \/ StaleWork \/ RestartBegin \/ Flush
  BY <1>4, OtherType
<1>9. CASE TxComplete \/ ArmTimer \/ Count \/ CheckThreshold \/ Wake \/ TxEnd
  BY <1>9, PassType
<1>10. CASE TxStop \/ TxSignal  BY <1>10, CallType
<1>5. ASSUME NEW p \in Pkts, NEW kind \in ReportKind, ChipReport(p, kind)
      PROVE  TypeOK'
  BY <1>5, ChipType
<1>6. ASSUME NEW p \in Pkts, ReportLost(p) \/ Expire(p)  PROVE TypeOK'
  <2>1. "ok" \in ReportKind  BY DEF ReportKind
  <2> QED  BY <1>6, <2>1, ChipType
<1>7. ASSUME NEW r \in reports, TxStatus(r)  PROVE TypeOK'
  BY <1>7, TxStatusType
<1>8. CASE UNCHANGED vars  BY <1>8 DEF vars, flow, calls, status, TypeOK
<1> QED
  BY <1>1, <1>2, <1>3, <1>4, <1>5, <1>6, <1>7, <1>8, <1>9, <1>10 DEF Next

\* Types, and the size of the queue, in every state.  __morse_skbq_put() is the
\* only bound on skbq_size and every put goes through it.
THEOREM TypeCorrect == Spec => []TypeOK
<1>1. Init => TypeOK  BY InitType
<1>2. TypeOK /\ [Next]_vars => TypeOK'  BY StepType
<1> QED  BY <1>1, <1>2, PTL DEF Spec

-----------------------------------------------------------------------------
(* Ownership.  TypeOK /\ Ownership is inductive.                           *)

LEMMA AppendedRange ==
  ASSUME NEW S, NEW q \in Seq(S), NEW e \in S, e \notin Range(q), NoDup(q)
  PROVE  Range(Append(q, e)) = Range(q) \cup {e} /\ NoDup(Append(q, e))
<1> DEFINE c == Append(q, e)
<1>1. /\ c \in Seq(S) /\ Len(c) = Len(q) + 1
      /\ \A i \in 1 .. Len(q) : c[i] = q[i]
      /\ c[Len(q) + 1] = e
  BY AppendProperties
<1> HIDE DEF c
<1>2. Len(q) \in Nat  BY LenProperties
<1>3. 1 .. Len(c) = (1 .. Len(q)) \cup {Len(q) + 1}  BY <1>1, <1>2
<1>4. /\ Range(c) = {c[i] : i \in 1 .. Len(c)}
      /\ Range(q) = {q[i] : i \in 1 .. Len(q)}
  <2>1. c \in Seq(S)  BY <1>1
  <2> QED  BY <2>1, RangeEquality
<1>5. Range(c) = Range(q) \cup {e}  BY <1>1, <1>3, <1>4
<1>6. \A i \in 1 .. Len(q) : q[i] # e  BY <1>4
<1>7. NoDup(c)  BY <1>1, <1>2, <1>3, <1>6 DEF NoDup
<1> QED  BY <1>5, <1>7 DEF c

LEMMA EmptyRange == Range(<<>>) = {} /\ NoDup(<<>>)
<1>1. Len(<<>>) = 0  BY EmptySeq
<1>2. 1 .. 0 = {}  OBVIOUS
<1>3. <<>> \in Seq({})  BY EmptySeq
<1>4. Range(<<>>) = {<<>>[i] : i \in 1 .. Len(<<>>)}  BY <1>3, RangeEquality
<1> QED  BY <1>1, <1>2, <1>4 DEF NoDup

LEMMA InitOwnership == Init => Ownership
<1> SUFFICES ASSUME Init  PROVE Ownership  OBVIOUS
<1>1. Range(skbq) = {} /\ NoDup(skbq) /\ Range(sending) = {} /\ NoDup(sending)
  BY EmptyRange DEF Init
<1>2. 0 .. (born - 1) = {}  BY DEF Init
<1> QED  BY <1>1, <1>2 DEF Init, Ownership

LEMMA TxOwnership == TypeOK /\ Ownership /\ Tx => Ownership'
<1> SUFFICES ASSUME TypeOK, Ownership, Tx  PROVE Ownership'  OBVIOUS
<1>1. /\ born \in Pkts /\ born \notin 0 .. (born - 1)
      /\ 0 .. (born' - 1) = 0 .. (born - 1) \cup {born}
  BY SkbQueueAssumption DEF Tx, TypeOK, Pkts
<1>2. /\ born \notin Range(skbq) /\ born \notin Range(sending) /\ born \notin sent
      /\ born \notin pending /\ born \notin freed /\ born \notin leaked
  BY <1>1 DEF Ownership
<1>3. UNCHANGED <<sending, sent, pending, leaked>>  BY DEF Tx
<1>4. CASE Full(skbq)
  <2>1. skbq' = skbq /\ freed' = freed \cup {born}  BY <1>4 DEF Tx
  <2> QED  BY <2>1, <1>1, <1>2, <1>3 DEF Ownership
<1>5. CASE ~Full(skbq)
  <2>1. skbq' = Append(skbq, born) /\ freed' = freed  BY <1>5 DEF Tx
  <2>2. Range(skbq') = Range(skbq) \cup {born} /\ NoDup(skbq')
    BY <1>1, <1>2, <2>1, AppendedRange DEF TypeOK, Ownership
  <2> QED  BY <2>1, <2>2, <1>1, <1>2, <1>3 DEF Ownership
<1> QED  BY <1>4, <1>5

LEMMA TxStartOwnership ==
  ASSUME NEW aged \in 0 .. Len(skbq), NEW n \in 0 .. Burst,
         TypeOK, Ownership, TxStart(aged, n)
  PROVE  Ownership'
<1> DEFINE q == Rest(skbq, aged)
           a == Prefix(skbq, aged)
<1>1. skbq \in Seq(Pkts) /\ Len(skbq) \in Nat /\ NoDup(skbq) /\ Burst \in Nat
  BY LenProperties, SkbQueueAssumption DEF TypeOK, Ownership
<1>2. q \in Seq(Pkts) /\ Len(q) = Len(skbq) - aged  BY <1>1, RestProperties
<1>3. NoDup(q) /\ Range(a) \cup Range(q) = Range(skbq) /\ Range(a) \cap Range(q) = {}
  BY <1>1, CutProperties
<1>4. n \in 0 .. Len(q)  BY <1>1, <1>2 DEF TxStart
<1> HIDE DEF q, a
<1>5. /\ sending' = Prefix(q, n) /\ skbq' = Rest(q, n)
      /\ freed' = freed \cup Range(a)
      /\ UNCHANGED <<born, sent, pending, leaked>>
  BY DEF TxStart, q, a
<1>6. /\ NoDup(sending') /\ NoDup(skbq')
      /\ Range(sending') \cup Range(skbq') = Range(q)
      /\ Range(sending') \cap Range(skbq') = {}
  BY <1>2, <1>3, <1>4, <1>5, CutProperties
<1>7. Range(sending) = {}
  BY EmptyRange DEF TxStart, TypeOK
<1> QED  BY <1>3, <1>5, <1>6, <1>7 DEF Ownership

LEMMA WriteOwnership == TypeOK /\ Ownership /\ Write => Ownership'
<1> SUFFICES ASSUME TypeOK, Ownership, Write  PROVE Ownership'  OBVIOUS
<1>1. /\ sent = {} /\ sending' = <<>> /\ UNCHANGED <<born, pending>>
      /\ Range(sending') = {} /\ NoDup(sending')
  BY EmptyRange DEF Write, TypeOK
<1>2. ASSUME NEW ok \in SUBSET Range(sending), WritePageset(ok)
      PROVE  Ownership'
  <2>1. /\ sent' = ok /\ freed' = freed \cup (Range(sending) \ ok)
        /\ skbq' = skbq /\ leaked' = leaked
    BY <1>2 DEF WritePageset
  <2>2. Range(sending) = ok \cup (Range(sending) \ ok)  OBVIOUS
  <2> QED  BY <1>1, <2>1, <2>2 DEF Ownership
<1>3. ASSUME NEW n \in 0 .. Len(sending), WriteYaps(n)  PROVE Ownership'
  <2> DEFINE failed == Rest(sending, n)
             done == Prefix(sending, n)
  <2>1. /\ sent' = Range(done) /\ skbq' = Requeue(skbq, failed)
        /\ freed' = freed \cup (Range(failed) \ Range(skbq'))
        /\ leaked' = leaked
    BY <1>3 DEF WriteYaps
  <2>2. /\ failed \in Seq(Pkts) /\ NoDup(failed)
        /\ Range(done) \cup Range(failed) = Range(sending)
        /\ Range(done) \cap Range(failed) = {}
    BY RestProperties, CutProperties DEF TypeOK, Ownership
  <2> HIDE DEF failed, done
  <2>3. PICK k \in 0 .. Len(failed) : skbq' = Rest(failed, k) \o skbq
    BY <2>1, <2>2, RequeueProperties DEF TypeOK
  <2> DEFINE back == Rest(failed, k)
  <2>4. /\ back \in Seq(Pkts) /\ NoDup(back) /\ Range(back) \subseteq Range(failed)
    BY <2>2, RestProperties, CutProperties
  <2>5. skbq \in Seq(Pkts) /\ NoDup(skbq) /\ Range(skbq) \cap Range(sending) = {}
    BY DEF TypeOK, Ownership
  <2> HIDE DEF back
  <2>6. skbq' = back \o skbq  BY <2>3 DEF back
  <2>7. Range(skbq') = Range(back) \cup Range(skbq)
    BY <2>4, <2>5, <2>6, RangeConcatenation
  <2>8. NoDup(skbq')
    <3>1. Range(back) \cap Range(skbq) = {}  BY <2>2, <2>4, <2>5
    <3> QED  BY <2>4, <2>5, <2>6, <3>1, ConcatNoDup
  <2>9. freed' = freed \cup (Range(failed) \ Range(back))
    BY <2>1, <2>2, <2>5, <2>7
  <2> QED  BY <1>1, <2>1, <2>2, <2>4, <2>7, <2>8, <2>9 DEF Ownership
<1>4. CASE StatusFails
  <2>1. sent' = {} /\ leaked' = leaked \cup Range(sending) /\ UNCHANGED <<skbq, freed>>
    BY <1>4 DEF StatusFails
  <2> QED  BY <1>1, <2>1 DEF Ownership
<1> QED  BY <1>2, <1>3, <1>4 DEF Write

\* Re-buffering moves the packet from the pending list to the queue, or loses
\* it to a full one.
LEMMA RebufferOwnership ==
  ASSUME TypeOK, Ownership, NEW p \in pending, Rebuffer(p)
  PROVE  /\ NoDup(skbq')
         /\ \/ Range(skbq') = Range(skbq) \cup {p} /\ leaked' = leaked
            \/ skbq' = skbq /\ leaked' = leaked \cup {p}
<1>1. skbq \in Seq(Pkts) /\ NoDup(skbq) /\ p \in Pkts /\ p \notin Range(skbq)
  BY DEF TypeOK, Ownership
<1>2. CASE Full(skbq)  BY <1>1, <1>2 DEF Rebuffer
<1>3. CASE ~Full(skbq)
  <2> DEFINE i == InsertPos(skbq, p)
  <2>1. i \in 1 .. (Len(skbq) + 1)  BY <1>1, InsertPosType
  <2>2. skbq' = Inserted(skbq, i, p) /\ leaked' = leaked
    BY <1>3 DEF Rebuffer, Inserted
  <2> HIDE DEF i
  <2> QED  BY <1>1, <2>1, <2>2, InsertedProperties
<1> QED  BY <1>2, <1>3

LEMMA TxStatusOwnership ==
  ASSUME TypeOK, Ownership, NEW r \in reports, TxStatus(r)
  PROVE  Ownership'
<1>1. UNCHANGED <<born, sending, sent>>  BY DEF TxStatus
<1>2. WalkDrops(Id(r.pkt)) \subseteq pending /\ \A p \in WalkDrops(Id(r.pkt)) : Id(p) # Id(r.pkt)
  BY SkbQueueAssumption DEF WalkDrops, Id, TypeOK, Pkts
<1>3. ASSUME NEW p \in pending, NEW dropped \in SUBSET WalkDrops(Id(r.pkt)),
             StatusOf(r, p, dropped)
      PROVE  Ownership'
  <2>1. /\ dropped \subseteq pending /\ p \notin dropped
        /\ pending' = pending \ ({p} \cup dropped)
    BY <1>2, <1>3 DEF StatusOf
  <2>2. CASE r.kind = "filtered" /\ PsFilter = "station"
    <3>1. freed' = freed \cup dropped /\ Rebuffer(p)  BY <1>3, <2>2 DEF StatusOf
    <3>2. /\ NoDup(skbq')
          /\ \/ Range(skbq') = Range(skbq) \cup {p} /\ leaked' = leaked
             \/ skbq' = skbq /\ leaked' = leaked \cup {p}
      BY <3>1, RebufferOwnership
    <3>3. CASE Range(skbq') = Range(skbq) \cup {p} /\ leaked' = leaked
      BY <1>1, <2>1, <3>1, <3>2, <3>3 DEF Ownership
    <3>4. CASE skbq' = skbq /\ leaked' = leaked \cup {p}
      BY <1>1, <2>1, <3>1, <3>4 DEF Ownership
    <3> QED  BY <3>2, <3>3, <3>4
  <2>3. CASE ~(r.kind = "filtered" /\ PsFilter = "station")
    <3>1. freed' = freed \cup dropped \cup {p} /\ UNCHANGED <<skbq, leaked>>
      BY <1>3, <2>3 DEF StatusOf
    <3> QED  BY <1>1, <2>1, <3>1 DEF Ownership
  <2> QED  BY <2>2, <2>3
<1>4. ASSUME StatusUnmatched(r)  PROVE Ownership'
  <2>1. /\ pending' = pending \ WalkDrops(Id(r.pkt))
        /\ freed' = freed \cup WalkDrops(Id(r.pkt))
        /\ UNCHANGED <<skbq, leaked>>
    BY <1>4 DEF StatusUnmatched
  <2> QED  BY <1>1, <1>2, <2>1 DEF Ownership
<1>5. \/ \E p \in pending :
             \E dropped \in SUBSET WalkDrops(Id(r.pkt)) : StatusOf(r, p, dropped)
      \/ StatusUnmatched(r)
  BY DEF TxStatus
<1> QED  BY <1>3, <1>4, <1>5

LEMMA OtherOwnership ==
  ASSUME TypeOK, Ownership, TxComplete \/ StaleWork \/ Flush
  PROVE  Ownership'
<1>1. CASE TxComplete
  <2>1. /\ pending' = pending \cup (sent \ NoReport)
        /\ freed' = freed \cup (sent \cap NoReport)
        /\ sent' = {} /\ UNCHANGED <<born, skbq, sending, leaked>>
    BY <1>1 DEF TxComplete
  <2> QED  BY <2>1 DEF Ownership
<1>3. CASE StaleWork
  <2>1. /\ stale \subseteq pending /\ pending' = pending \ stale /\ freed' = freed \cup stale
        /\ UNCHANGED <<born, skbq, sending, sent, leaked>>
    BY <1>3 DEF StaleWork, TypeOK
  <2> QED  BY <2>1 DEF Ownership
<1>4. CASE Flush
  <2>1. /\ freed' = freed \cup pending \cup Range(skbq)
        /\ pending' = {} /\ skbq' = <<>>
        /\ UNCHANGED <<born, sending, sent, leaked>>
    BY <1>4 DEF Flush
  <2>2. Range(skbq') = {} /\ NoDup(skbq')  BY <2>1, EmptyRange
  <2> QED  BY <2>1, <2>2 DEF Ownership
<1> QED  BY <1>1, <1>3, <1>4

\* The steps that move no packet between the lists.
Moves ==
    \/ Tx \/ Write \/ TxComplete \/ StaleWork \/ Flush
    \/ \E aged \in 0 .. Len(skbq), n \in 0 .. Burst : TxStart(aged, n)
    \/ \E r \in reports : TxStatus(r)

LEMMA NoMove ==
  ASSUME [Next]_vars, ~Moves
  PROVE  UNCHANGED <<born, skbq, sending, sent, pending, freed, leaked, putback>>
<1>1. CASE TxStop \/ TxSignal \/ Resume  BY <1>1 DEF TxStop, TxSignal, Resume
<1>2. CASE ArmTimer \/ Count \/ CheckThreshold \/ Wake \/ TxEnd
  BY <1>2 DEF ArmTimer, Count, CheckThreshold, Wake, TxEnd
<1>3. ASSUME NEW p \in Pkts, NEW kind \in ReportKind,
             ChipReport(p, kind) \/ ReportLost(p) \/ Expire(p)
      PROVE  UNCHANGED <<born, skbq, sending, sent, pending, freed, leaked, putback>>
  BY <1>3 DEF ChipReport, ReportLost, Expire
<1>4. "ok" \in ReportKind  BY DEF ReportKind
<1>5. CASE TimerFire \/ RestartBegin  BY <1>5 DEF TimerFire, RestartBegin
<1>6. CASE UNCHANGED vars  BY <1>6 DEF vars
<1> QED  BY <1>1, <1>2, <1>3, <1>4, <1>5, <1>6 DEF Next, Moves

LEMMA StepOwnership == TypeOK /\ Ownership /\ [Next]_vars => Ownership'
<1> SUFFICES ASSUME TypeOK, Ownership, [Next]_vars  PROVE Ownership'  OBVIOUS
<1>1. CASE Tx  BY <1>1, TxOwnership
<1>2. ASSUME NEW aged \in 0 .. Len(skbq), NEW n \in 0 .. Burst, TxStart(aged, n)
      PROVE  Ownership'
  BY <1>2, TxStartOwnership
<1>3. CASE Write  BY <1>3, WriteOwnership
<1>4. CASE TxComplete \/ StaleWork \/ Flush  BY <1>4, OtherOwnership
<1>5. ASSUME NEW r \in reports, TxStatus(r)  PROVE Ownership'
  BY <1>5, TxStatusOwnership
<1>6. CASE ~Moves
  <2>1. UNCHANGED <<born, skbq, sending, sent, pending, freed, leaked>>
    BY <1>6, NoMove
  <2> QED  BY <2>1 DEF Ownership
<1> QED  BY <1>1, <1>2, <1>3, <1>4, <1>5, <1>6 DEF Moves

\* Every packet handed in is in exactly one place in every state: the packets of
\* skbq, of the chip work's local lists, of the pending list, and those freed or
\* leaked are disjoint and together all that were handed in.
THEOREM OwnershipCorrect == Spec => []Ownership
<1> DEFINE IInv == TypeOK /\ Ownership
<1>1. Init => IInv  BY InitType, InitOwnership
<1>2. IInv /\ [Next]_vars => IInv'  BY StepType, StepOwnership
<1>3. IInv => Ownership  OBVIOUS
<1> HIDE DEF IInv
<1> QED  BY <1>1, <1>2, <1>3, PTL DEF Spec

-----------------------------------------------------------------------------
(* Order.  With the page-set interface, as long as no identifier wraps.     *)

NoIdWrap == MaxPkts <= IdMod
NoWrap == NoIdWrap /\ ChipIf = "pageset"

Sorted(q) == \A i, j \in 1 .. Len(q) : i < j => q[i] < q[j]

LEMMA IdIsPacket == ASSUME NoIdWrap, NEW p \in Pkts  PROVE  Id(p) = p
<1>1. p \in Nat /\ p < IdMod /\ IdMod \in Nat \ {0}
  BY SkbQueueAssumption DEF NoIdWrap, Pkts
<1> QED  BY <1>1 DEF Id

\* A packet inserted where insert_pending_skb_to_skbq() puts it keeps a queue in
\* order.
LEMMA InsertedSorted ==
  ASSUME NoWrap, NEW q \in Seq(Pkts), Sorted(q), NEW p \in Pkts, p \notin Range(q)
  PROVE  Sorted(Inserted(q, InsertPos(q, p), p))
<1> DEFINE k == InsertPos(q, p)
           a == Prefix(q, k - 1)
           b == Rest(q, k - 1)
           c == (a \o <<p>>) \o b
<1> SUFFICES Sorted(c)  BY DEF Inserted
<1>1. Len(q) \in Nat /\ k \in 1 .. (Len(q) + 1) /\ k - 1 \in 0 .. Len(q)
  <2>1. Len(q) \in Nat  BY LenProperties
  <2> QED  BY <2>1, InsertPosType
<1>2. \A i \in 1 .. Len(q) : q[i] \in Nat /\ Id(q[i]) = q[i] /\ q[i] # p
  <2>1. Range(q) = {q[i] : i \in 1 .. Len(q)}  BY RangeEquality
  <2>2. \A i \in 1 .. Len(q) : q[i] \in Pkts  BY ElementOfSeq
  <2> QED  BY <2>1, <2>2, IdIsPacket, SkbQueueAssumption DEF Pkts, NoWrap
<1>3. p \in Nat /\ Id(p) = p  BY IdIsPacket, SkbQueueAssumption DEF Pkts, NoWrap
<1>4. \/ k = Len(q) + 1 /\ (q = <<>> \/ Id(p) >= Id(q[Len(q)]))
      \/ /\ k \in 1 .. Len(q) /\ Id(p) <= Id(q[k])
         /\ \A j \in 1 .. (k - 1) : Id(q[j]) < Id(p)
  BY InsertPosType
<1>5. \A i \in 1 .. Len(q) : (i < k => q[i] < p) /\ (i >= k => p < q[i])
  <2>1. CASE k = Len(q) + 1 /\ (q = <<>> \/ Id(p) >= Id(q[Len(q)]))
    <3> TAKE i \in 1 .. Len(q)
    <3>1. q # <<>> /\ Len(q) \in 1 .. Len(q)  BY <1>1, EmptySeq
    <3>2. q[Len(q)] < p  BY <2>1, <3>1, <1>2, <1>3
    <3>3. q[i] <= q[Len(q)]  BY <3>1, <1>1, <1>2 DEF Sorted
    <3> QED  BY <2>1, <3>1, <3>2, <3>3, <1>1, <1>2, <1>3
  <2>2. CASE /\ k \in 1 .. Len(q) /\ Id(p) <= Id(q[k])
             /\ \A j \in 1 .. (k - 1) : Id(q[j]) < Id(p)
    <3> TAKE i \in 1 .. Len(q)
    <3>1. i < k => q[i] < p  BY <2>2, <1>1, <1>2, <1>3
    <3>2. p < q[k]  BY <2>2, <1>2, <1>3
    <3>3. i >= k => q[k] <= q[i]  BY <2>2, <1>1, <1>2 DEF Sorted
    <3> QED  BY <3>1, <3>2, <3>3, <2>2, <1>2, <1>3
  <2> QED  BY <1>4, <2>1, <2>2
<1> HIDE DEF k
<1>6. /\ a \in Seq(Pkts) /\ Len(a) = k - 1 /\ \A i \in 1 .. (k - 1) : a[i] = q[i]
      /\ b \in Seq(Pkts) /\ Len(b) = Len(q) - (k - 1)
      /\ \A i \in 1 .. (Len(q) - (k - 1)) : b[i] = q[(k - 1) + i]
  <2>1. k - 1 \in 0 .. Len(q)  BY <1>1
  <2>2. a \in Seq(Pkts) /\ Len(a) = k - 1 /\ \A i \in 1 .. (k - 1) : a[i] = q[i]
    BY <2>1, PrefixProperties
  <2>3. /\ b \in Seq(Pkts) /\ Len(b) = Len(q) - (k - 1)
        /\ \A i \in 1 .. (Len(q) - (k - 1)) : b[i] = q[(k - 1) + i]
    BY <2>1, RestProperties
  <2> QED  BY <2>2, <2>3
<1> HIDE DEF a, b
<1>7. /\ Len(c) = Len(a) + 1 + Len(b)
      /\ \A i \in 1 .. Len(a) : c[i] = a[i]
      /\ c[Len(a) + 1] = p
      /\ \A i \in 1 .. Len(b) : c[Len(a) + 1 + i] = b[i]
  <2>1. a \in Seq(Pkts) /\ b \in Seq(Pkts)  BY <1>6
  <2> QED  BY <2>1, SpliceProperties
<1> HIDE DEF c
<1>8. /\ Len(c) = Len(q) + 1
      /\ \A i \in 1 .. (Len(q) + 1) :
            /\ i < k => i \in 1 .. Len(q) /\ c[i] = q[i]
            /\ i = k => c[i] = p
            /\ i > k => i - 1 \in 1 .. Len(q) /\ c[i] = q[i - 1]
  <2>1. Len(c) = Len(q) + 1  BY <1>1, <1>6, <1>7
  <2>2. ASSUME NEW i \in 1 .. (Len(q) + 1), i < k
        PROVE  i \in 1 .. Len(q) /\ c[i] = q[i]
    <3>1. i \in 1 .. (k - 1) /\ i \in 1 .. Len(a)  BY <1>1, <1>6, <2>2
    <3> QED  BY <3>1, <1>1, <1>6, <1>7
  <2>3. c[k] = p  BY <1>1, <1>6, <1>7
  <2>4. ASSUME NEW i \in 1 .. (Len(q) + 1), i > k
        PROVE  i - 1 \in 1 .. Len(q) /\ c[i] = q[i - 1]
    <3>1. /\ i - k \in 1 .. Len(b) /\ i - k \in 1 .. (Len(q) - (k - 1))
          /\ Len(a) + 1 + (i - k) = i /\ (k - 1) + (i - k) = i - 1
          /\ i - 1 \in 1 .. Len(q)
      BY <1>1, <1>6, <2>4
    <3>2. c[Len(a) + 1 + (i - k)] = b[i - k]  BY <3>1, <1>7
    <3>3. b[i - k] = q[(k - 1) + (i - k)]  BY <3>1, <1>6
    <3> QED  BY <3>1, <3>2, <3>3
  <2> QED  BY <2>1, <2>2, <2>3, <2>4
<1>9. Sorted(c)
  <2> SUFFICES ASSUME NEW i \in 1 .. (Len(q) + 1), NEW j \in 1 .. (Len(q) + 1), i < j
               PROVE  c[i] < c[j]
    BY <1>8 DEF Sorted
  <2>1. CASE j < k
    <3>1. /\ i \in 1 .. Len(q) /\ c[i] = q[i]
          /\ j \in 1 .. Len(q) /\ c[j] = q[j]
      BY <2>1, <1>1, <1>8
    <3> QED  BY <3>1 DEF Sorted
  <2>2. CASE j = k
    <3>1. i \in 1 .. Len(q) /\ c[i] = q[i] /\ i < k /\ c[j] = p  BY <2>2, <1>1, <1>8
    <3> QED  BY <3>1, <1>5
  <2>3. CASE j > k /\ i = k
    <3>1. c[i] = p /\ j - 1 \in 1 .. Len(q) /\ c[j] = q[j - 1] /\ j - 1 >= k
      BY <2>3, <1>1, <1>8
    <3> QED  BY <3>1, <1>5
  <2>4. CASE j > k /\ i < k
    <3>1. /\ i \in 1 .. Len(q) /\ c[i] = q[i]
          /\ j - 1 \in 1 .. Len(q) /\ c[j] = q[j - 1] /\ j - 1 >= k
      BY <2>4, <1>1, <1>8
    <3>2. q[i] < p /\ p < q[j - 1]  BY <3>1, <2>4, <1>5
    <3> QED  BY <3>1, <3>2, <1>2, <1>3
  <2>5. CASE j > k /\ i > k
    <3>1. /\ i - 1 \in 1 .. Len(q) /\ c[i] = q[i - 1]
          /\ j - 1 \in 1 .. Len(q) /\ c[j] = q[j - 1] /\ i - 1 < j - 1
      BY <2>5, <1>1, <1>8
    <3> QED  BY <3>1 DEF Sorted
  <2> QED  BY <1>1, <2>1, <2>2, <2>3, <2>4, <2>5
<1> QED  BY <1>9

\* What Tx appends is younger than every packet before it.
LEMMA TxSorted ==
  ASSUME TypeOK, Ownership, Sorted(skbq), Tx
  PROVE  Sorted(skbq)'
<1>1. CASE Full(skbq)
  <2>1. skbq' = skbq  BY <1>1 DEF Tx
  <2> QED  BY <2>1 DEF Sorted
<1>2. CASE ~Full(skbq)
  <2>1. skbq' = Append(skbq, born)  BY <1>2 DEF Tx
  <2>2. born \in Pkts /\ born \in Nat
    BY SkbQueueAssumption DEF Tx, TypeOK, Pkts
  <2>3. Len(skbq) \in Nat  BY LenProperties DEF TypeOK
  <2>4. /\ Len(skbq') = Len(skbq) + 1
        /\ \A i \in 1 .. Len(skbq) : skbq'[i] = skbq[i]
        /\ skbq'[Len(skbq) + 1] = born
    BY <2>1, <2>2, AppendProperties DEF TypeOK
  <2>5. \A i \in 1 .. Len(skbq) : skbq[i] < born
    <3>1. Range(skbq) = {skbq[i] : i \in 1 .. Len(skbq)}
      BY RangeEquality DEF TypeOK
    <3>2. Range(skbq) \subseteq 0 .. (born - 1)  BY DEF Ownership
    <3>3. \A i \in 1 .. Len(skbq) : skbq[i] \in 0 .. (born - 1)  BY <3>1, <3>2
    <3> QED  BY <2>2, <3>3
  <2>6. ASSUME NEW i \in 1 .. (Len(skbq) + 1), NEW j \in 1 .. (Len(skbq) + 1), i < j
        PROVE  skbq'[i] < skbq'[j]
    <3>1. i \in 1 .. Len(skbq)  BY <2>3, <2>6
    <3>2. CASE j = Len(skbq) + 1  BY <3>1, <3>2, <2>4, <2>5
    <3>3. CASE j # Len(skbq) + 1
      <4>1. j \in 1 .. Len(skbq)  BY <3>3, <2>3
      <4> QED  BY <3>1, <4>1, <2>4, <2>6 DEF Sorted
    <3> QED  BY <3>2, <3>3
  <2> QED  BY <2>4, <2>6 DEF Sorted
<1> QED  BY <1>1, <1>2

\* Both halves of a sorted queue are sorted, and the first comes first.
InLine(a, b) == Sorted(a) /\ Sorted(b) /\ \A x \in Range(a), y \in Range(b) : x < y

LEMMA SortedCut ==
  ASSUME NEW q \in Seq(Pkts), Sorted(q), NEW n \in 0 .. Len(q)
  PROVE  /\ InLine(Prefix(q, n), Rest(q, n))
         /\ Range(Prefix(q, n)) \subseteq Range(q) /\ Range(Rest(q, n)) \subseteq Range(q)
<1>1. Len(q) \in Nat /\ n \in Nat /\ n <= Len(q)  BY LenProperties
<1>2. Range(q) = {q[i] : i \in 1 .. Len(q)}  BY RangeEquality
<1>3. /\ Len(Prefix(q, n)) = n /\ \A i \in 1 .. n : Prefix(q, n)[i] = q[i]
      /\ Range(Prefix(q, n)) = {q[i] : i \in 1 .. n}
  BY PrefixProperties
<1>4. /\ Len(Rest(q, n)) = Len(q) - n
      /\ \A i \in 1 .. (Len(q) - n) : Rest(q, n)[i] = q[n + i]
      /\ Range(Rest(q, n)) = {q[i] : i \in (n + 1) .. Len(q)}
  BY RestProperties
<1>5. Sorted(Prefix(q, n))
  <2>1. 1 .. n \subseteq 1 .. Len(q)  BY <1>1
  <2> QED  BY <1>3, <2>1 DEF Sorted
<1>6. Sorted(Rest(q, n))
  <2> SUFFICES ASSUME NEW i \in 1 .. (Len(q) - n), NEW j \in 1 .. (Len(q) - n), i < j
               PROVE  Rest(q, n)[i] < Rest(q, n)[j]
    BY <1>4 DEF Sorted
  <2>1. n + i \in 1 .. Len(q) /\ n + j \in 1 .. Len(q) /\ n + i < n + j  BY <1>1
  <2> QED  BY <1>4, <2>1 DEF Sorted
<1>7. \A i \in 1 .. n, j \in (n + 1) .. Len(q) : q[i] < q[j]
  <2>1. \A i \in 1 .. n, j \in (n + 1) .. Len(q) :
          i \in 1 .. Len(q) /\ j \in 1 .. Len(q) /\ i < j
    BY <1>1
  <2> QED  BY <2>1 DEF Sorted
<1>8. 1 .. n \subseteq 1 .. Len(q) /\ (n + 1) .. Len(q) \subseteq 1 .. Len(q)  BY <1>1
<1> QED  BY <1>2, <1>3, <1>4, <1>5, <1>6, <1>7, <1>8 DEF InLine

LEMMA StepOrdered ==
  ASSUME NoWrap, TypeOK, Ownership, Sorted(skbq), [Next]_vars
  PROVE  Sorted(skbq)'
<1>1. CASE Tx  BY <1>1, TxSorted
<1>2. ASSUME NEW aged \in 0 .. Len(skbq), NEW n \in 0 .. Burst, TxStart(aged, n)
      PROVE  Sorted(skbq)'
  <2> DEFINE q == Rest(skbq, aged)
  <2>1. skbq \in Seq(Pkts) /\ Len(skbq) \in Nat /\ Burst \in Nat
    BY LenProperties, SkbQueueAssumption DEF TypeOK
  <2>2. q \in Seq(Pkts) /\ Len(q) = Len(skbq) - aged /\ Sorted(q)
    BY <2>1, RestProperties, SortedCut DEF InLine
  <2>3. n \in 0 .. Len(q)  BY <1>2, <2>1, <2>2 DEF TxStart
  <2>4. skbq' = Rest(q, n)  BY <1>2 DEF TxStart
  <2> HIDE DEF q
  <2>5. Sorted(Rest(q, n))  BY <2>2, <2>3, SortedCut DEF InLine
  <2> QED  BY <2>4, <2>5 DEF Sorted
<1>3. CASE Write
  <2>1. skbq' = skbq  BY <1>3, Zenon DEF Write, WritePageset, WriteYaps, StatusFails, NoWrap
  <2> QED  BY <2>1 DEF Sorted
<1>4. CASE Flush
  <2>1. Len(skbq') = 0  BY <1>4, EmptySeq DEF Flush
  <2> QED  BY <2>1 DEF Sorted
<1>5. ASSUME NEW r \in reports, TxStatus(r)  PROVE Sorted(skbq)'
  <2>1. ASSUME NEW p \in pending, Rebuffer(p)  PROVE Sorted(skbq)'
    <3>1. p \in Pkts /\ p \notin Range(skbq) /\ skbq \in Seq(Pkts)
      BY DEF TypeOK, Ownership
    <3>2. CASE Full(skbq)
      <4>1. skbq' = skbq  BY <2>1, <3>2 DEF Rebuffer
      <4> QED  BY <4>1 DEF Sorted
    <3>3. CASE ~Full(skbq)
      <4>1. skbq' = Inserted(skbq, InsertPos(skbq, p), p)
        BY <2>1, <3>3 DEF Rebuffer, Inserted
      <4>2. Sorted(Inserted(skbq, InsertPos(skbq, p), p))  BY <3>1, InsertedSorted
      <4> QED  BY <4>1, <4>2 DEF Sorted
    <3> QED  BY <3>2, <3>3
  <2>2. \/ skbq' = skbq
        \/ \E p \in pending : Rebuffer(p)
    BY <1>5 DEF TxStatus, StatusOf, StatusUnmatched
  <2>3. CASE skbq' = skbq  BY <2>3 DEF Sorted
  <2> QED  BY <2>1, <2>2, <2>3
<1>6. CASE skbq' = skbq  BY <1>6 DEF Sorted
<1>7. \/ Tx \/ Write \/ Flush
      \/ \E aged \in 0 .. Len(skbq), n \in 0 .. Burst : TxStart(aged, n)
      \/ \E r \in reports : TxStatus(r)
      \/ skbq' = skbq
  BY NoMove DEF Moves, TxComplete, StaleWork
<1> QED  BY <1>1, <1>2, <1>3, <1>4, <1>5, <1>6, <1>7

\* The queue stays in the order of the transmit calls, whatever packets come back
\* from the pending list: with the page-set interface and until pkt_id wraps.
THEOREM OrderCorrect == NoWrap => (Spec => []Ordered)
<1> DEFINE IInv == TypeOK /\ Ownership /\ Sorted(skbq)
<1>1. Init => IInv
  <2>1. Init => Sorted(skbq)  BY EmptySeq DEF Init, Sorted
  <2> QED  BY <2>1, InitType, InitOwnership
<1>2. NoWrap /\ IInv /\ [Next]_vars => IInv'
  BY StepType, StepOwnership, StepOrdered
<1>3. IInv => Ordered  BY DEF Ordered, Sorted
<1>4. NoWrap => NoWrap'  BY DEF NoWrap
<1> HIDE DEF IInv, NoWrap
<1> QED  BY <1>1, <1>2, <1>3, <1>4, PTL DEF Spec

-----------------------------------------------------------------------------
(* Where the queue requeues (YAPS).  A burst the chip did not take goes back  *)
(* to the head of the queue: it was cut off there, and nothing came in front  *)
(* of it meanwhile unless a pending packet was put back.                      *)

LEMMA SortedJoin ==
  ASSUME NEW a \in Seq(Pkts), NEW b \in Seq(Pkts), InLine(a, b)
  PROVE  Sorted(a \o b)
<1>1. Len(a) \in Nat /\ Len(b) \in Nat  BY LenProperties
<1>2. /\ Len(a \o b) = Len(a) + Len(b)
      /\ \A i \in 1 .. Len(a) : (a \o b)[i] = a[i]
      /\ \A i \in 1 .. Len(b) : (a \o b)[Len(a) + i] = b[i]
  BY ConcatProperties
<1>3. /\ \A i \in 1 .. Len(a) : a[i] \in Range(a)
      /\ \A i \in 1 .. Len(b) : b[i] \in Range(b)
  BY RangeEquality
<1> DEFINE c == a \o b
<1>4. /\ Len(c) = Len(a) + Len(b)
      /\ \A i \in 1 .. Len(a) : c[i] = a[i]
      /\ \A i \in 1 .. Len(b) : c[Len(a) + i] = b[i]
  BY <1>2
<1> HIDE DEF c
<1> SUFFICES ASSUME NEW i \in 1 .. (Len(a) + Len(b)), NEW j \in 1 .. (Len(a) + Len(b)),
                    i < j
             PROVE  c[i] < c[j]
  BY <1>4 DEF Sorted, c
<1>5. ASSUME NEW k \in 1 .. (Len(a) + Len(b)), k > Len(a)
      PROVE  k - Len(a) \in 1 .. Len(b) /\ c[k] = b[k - Len(a)]
  <2>1. k - Len(a) \in 1 .. Len(b) /\ Len(a) + (k - Len(a)) = k  BY <1>1, <1>5
  <2> QED  BY <1>4, <2>1
<1>6. CASE j <= Len(a)
  <2>1. i \in 1 .. Len(a) /\ j \in 1 .. Len(a)  BY <1>1, <1>6
  <2> QED  BY <1>4, <2>1 DEF InLine, Sorted
<1>7. CASE i <= Len(a) /\ j > Len(a)
  <2>1. i \in 1 .. Len(a)  BY <1>1, <1>7
  <2>2. c[i] \in Range(a) /\ c[j] \in Range(b)  BY <1>3, <1>4, <1>5, <1>7, <2>1
  <2> QED  BY <2>2 DEF InLine
<1>8. CASE i > Len(a)
  <2>1. j > Len(a)  BY <1>1, <1>8
  <2>2. /\ i - Len(a) \in 1 .. Len(b) /\ c[i] = b[i - Len(a)]
        /\ j - Len(a) \in 1 .. Len(b) /\ c[j] = b[j - Len(a)]
    BY <1>5, <1>8, <2>1
  <2>3. i - Len(a) < j - Len(a)  BY <1>1
  <2> QED  BY <2>2, <2>3 DEF InLine, Sorted
<1> QED  BY <1>1, <1>6, <1>7, <1>8

\* No pending packet is put back: only a station's data queue does that.
NothingRebuffered == Queue = "mgmt" \/ PsFilter # "station"

BurstInLine ==
    /\ InLine(sending, skbq)
    /\ Queue = "mgmt" => \A r \in reports : r.kind # "filtered"

\* A packet handed in is younger than the burst, too.
LEMMA TxInLine ==
  ASSUME TypeOK, Ownership, InLine(sending, skbq), Tx
  PROVE  InLine(sending, skbq)'
<1>1. sending' = sending  BY DEF Tx
<1>2. Sorted(skbq)'  BY TxSorted DEF InLine
<1>3. Range(skbq') \subseteq Range(skbq) \cup {born}
  <2>1. born \in Pkts  BY SkbQueueAssumption DEF Tx, TypeOK, Pkts
  <2>2. CASE skbq' = skbq  BY <2>2
  <2>3. CASE skbq' = Append(skbq, born)
    BY <2>1, <2>3, AppendedRange DEF TypeOK, Ownership
  <2> QED  BY <2>2, <2>3 DEF Tx
<1>4. \A x \in Range(sending) : x < born
  <2>1. Range(sending) \subseteq 0 .. (born - 1)  BY DEF Ownership
  <2>2. born \in Nat  BY DEF TypeOK
  <2> QED  BY <2>1, <2>2
<1> QED  BY <1>1, <1>2, <1>3, <1>4 DEF InLine

\* The burst is the head of the queue, its rest what stays.
LEMMA TxStartInLine ==
  ASSUME TypeOK, Sorted(skbq), NEW aged \in 0 .. Len(skbq), NEW n \in 0 .. Burst,
         TxStart(aged, n)
  PROVE  InLine(sending, skbq)'
<1> DEFINE q == Rest(skbq, aged)
<1>1. skbq \in Seq(Pkts) /\ Len(skbq) \in Nat /\ Burst \in Nat
  BY LenProperties, SkbQueueAssumption DEF TypeOK
<1>2. q \in Seq(Pkts) /\ Len(q) = Len(skbq) - aged /\ Sorted(q)
  BY <1>1, RestProperties, SortedCut DEF InLine
<1>3. n \in 0 .. Len(q)  BY <1>1, <1>2 DEF TxStart
<1>4. sending' = Prefix(q, n) /\ skbq' = Rest(q, n)  BY DEF TxStart
<1> HIDE DEF q
<1>5. InLine(Prefix(q, n), Rest(q, n))  BY <1>2, <1>3, SortedCut
<1> QED  BY <1>4, <1>5 DEF InLine, Sorted

\* What goes back of the burst is its end, in front of what is younger.
LEMMA WriteInLine ==
  ASSUME TypeOK, InLine(sending, skbq), Write
  PROVE  InLine(sending, skbq)'
<1>1. sending' = <<>>  BY DEF Write
<1>2. Sorted(skbq)'
  <2>1. CASE skbq' = skbq  BY <2>1 DEF InLine, Sorted
  <2>2. ASSUME NEW n \in 0 .. Len(sending), WriteYaps(n)  PROVE Sorted(skbq)'
    <3> DEFINE failed == Rest(sending, n)
    <3>1. skbq' = Requeue(skbq, failed)  BY <2>2 DEF WriteYaps
    <3>2. /\ failed \in Seq(Pkts) /\ Sorted(failed)
          /\ Range(failed) \subseteq Range(sending)
      BY RestProperties, SortedCut DEF TypeOK, InLine
    <3> HIDE DEF failed
    <3>3. PICK k \in 0 .. Len(failed) : Requeue(skbq, failed) = Rest(failed, k) \o skbq
      BY <3>2, RequeueProperties DEF TypeOK
    <3>4. /\ Rest(failed, k) \in Seq(Pkts) /\ Sorted(Rest(failed, k))
          /\ Range(Rest(failed, k)) \subseteq Range(failed)
      BY <3>2, RestProperties, SortedCut DEF InLine
    <3>5. InLine(Rest(failed, k), skbq)  BY <3>2, <3>4 DEF InLine
    <3>6. Sorted(Rest(failed, k) \o skbq)  BY <3>4, <3>5, SortedJoin DEF TypeOK
    <3> QED  BY <3>1, <3>3, <3>6 DEF Sorted
  <2> QED  BY <2>1, <2>2 DEF Write, WritePageset, StatusFails
<1> QED  BY <1>1, <1>2, EmptyRange, EmptySeq DEF InLine, Sorted

LEMMA StepInLine ==
  ASSUME NothingRebuffered, TypeOK, Ownership, BurstInLine, [Next]_vars
  PROVE  BurstInLine'
<1>1. InLine(sending, skbq)'
  <2>1. CASE Tx  BY <2>1, TxInLine DEF BurstInLine
  <2>2. ASSUME NEW aged \in 0 .. Len(skbq), NEW n \in 0 .. Burst, TxStart(aged, n)
        PROVE  InLine(sending, skbq)'
    BY <2>2, TxStartInLine DEF BurstInLine, InLine
  <2>3. CASE Write  BY <2>3, WriteInLine DEF BurstInLine
  <2>4. CASE Flush
    <3>1. sending' = <<>> /\ skbq' = <<>>  BY <2>4 DEF Flush, TypeOK
    <3> QED  BY <3>1, EmptyRange, EmptySeq DEF InLine, Sorted
  <2>5. ASSUME NEW r \in reports, TxStatus(r)  PROVE UNCHANGED <<sending, skbq>>
    <3>1. ~(r.kind = "filtered" /\ PsFilter = "station")
      BY DEF NothingRebuffered, BurstInLine
    <3> QED  BY <2>5, <3>1 DEF TxStatus, StatusOf, StatusUnmatched
  <2>6. CASE UNCHANGED <<sending, skbq>>  BY <2>6 DEF BurstInLine, InLine, Sorted
  <2>7. \/ Tx \/ Write \/ Flush
        \/ \E aged \in 0 .. Len(skbq), n \in 0 .. Burst : TxStart(aged, n)
        \/ \E r \in reports : TxStatus(r)
        \/ UNCHANGED <<sending, skbq>>
    BY NoMove DEF Moves, TxComplete, StaleWork
  <2> QED  BY <2>1, <2>2, <2>3, <2>4, <2>5, <2>6, <2>7
<1>2. Queue = "mgmt" => \A r \in reports' : r.kind # "filtered"
  <2> SUFFICES ASSUME Queue = "mgmt"  PROVE \A r \in reports' : r.kind # "filtered"
    OBVIOUS
  <2>1. \A r \in reports : r.kind # "filtered"  BY DEF BurstInLine
  <2>2. ASSUME NEW p \in Pkts, NEW kind \in ReportKind, ChipReport(p, kind)
        PROVE  \A r \in reports' : r.kind # "filtered"
    <3>1. kind # "filtered"  BY <2>2, SkbQueueAssumption DEF ChipReport
    <3> QED  BY <2>1, <2>2, <3>1 DEF ChipReport
  <2>3. CASE reports' \subseteq reports  BY <2>1, <2>3
  <2>4. \/ \E p \in Pkts, kind \in ReportKind : ChipReport(p, kind)
        \/ reports' \subseteq reports
    BY DEF Next, vars, status, Tx, TxStop, TxSignal, Resume, TxStart, Write, TxComplete,
           ArmTimer, Count, CheckThreshold, Wake, TxEnd, ReportLost, Expire, TxStatus,
           TimerFire, StaleWork, RestartBegin, Flush
  <2> QED  BY <2>2, <2>3, <2>4
<1> QED  BY <1>1, <1>2 DEF BurstInLine

\* No packet is overtaken by a burst that comes back: on both chip interfaces,
\* for a management queue and for every VIF that is not a station with power
\* save filtering, identifiers wrapped or not.
THEOREM RequeuedInOrder == NothingRebuffered => (Spec => []Ordered)
<1> DEFINE IInv == TypeOK /\ Ownership /\ BurstInLine
<1>1. Init => IInv
  <2>1. Init => BurstInLine
    BY EmptyRange, EmptySeq DEF Init, BurstInLine, InLine, Sorted
  <2> QED  BY <2>1, InitType, InitOwnership
<1>2. NothingRebuffered /\ IInv /\ [Next]_vars => IInv'
  BY StepType, StepOwnership, StepInLine
<1>3. IInv => Ordered  BY DEF BurstInLine, InLine, Ordered, Sorted
<1>4. NothingRebuffered => NothingRebuffered'  BY DEF NothingRebuffered
<1> HIDE DEF IInv, NothingRebuffered
<1> QED  BY <1>1, <1>2, <1>3, <1>4, PTL DEF Spec

-----------------------------------------------------------------------------
(* Statuses.  The chip has one status to give for a packet it was sent, and   *)
(* a packet it may still report is not one the driver has to send.           *)

OneStatus ==
    /\ \A r \in reports : r.pkt \notin chip
    /\ \A r, s \in reports : r.pkt = s.pkt => r = s
    /\ chip \subseteq pending \cup freed \cup leaked
    /\ \A r \in reports : r.pkt \in pending \cup freed \cup leaked

\* Re-buffering a packet takes nothing from those that leaked.
LEMMA RebufferLeaked ==
  ASSUME NEW p, Rebuffer(p)  PROVE  leaked \subseteq leaked'
BY DEF Rebuffer

\* A status leaves the other statuses to packets that are not to be sent: the
\* packet it puts back has no second one.
LEMMA TxStatusOneStatus ==
  ASSUME NoIdWrap, TypeOK, OneStatus, NEW r \in reports, TxStatus(r)
  PROVE  OneStatus'
<1>1. reports' = reports \ {r} /\ chip' = chip  BY DEF TxStatus
<1>2. r.pkt \notin chip /\ \A s \in reports' : s.pkt # r.pkt
  BY <1>1 DEF OneStatus
<1>3. ASSUME NEW q \in pending \cup freed \cup leaked, q # r.pkt
      PROVE  q \in pending' \cup freed' \cup leaked'
  <2>1. ASSUME NEW p \in pending, NEW dropped \in SUBSET WalkDrops(Id(r.pkt)),
               StatusOf(r, p, dropped)
        PROVE  q \in pending' \cup freed' \cup leaked'
    <3>1. p \in Pkts /\ r.pkt \in Pkts  BY DEF TypeOK
    <3>2. p = r.pkt  BY <2>1, <3>1, IdIsPacket DEF StatusOf
    <3>3. pending' = pending \ ({p} \cup dropped)  BY <2>1 DEF StatusOf
    <3>4. freed \cup dropped \subseteq freed' /\ leaked \subseteq leaked'
      BY <2>1, RebufferLeaked DEF StatusOf
    <3> QED  BY <1>3, <3>2, <3>3, <3>4
  <2>2. CASE StatusUnmatched(r)  BY <2>2 DEF StatusUnmatched
  <2> QED  BY <2>1, <2>2 DEF TxStatus
<1> QED  BY <1>1, <1>2, <1>3 DEF OneStatus

LEMMA StepOneStatus ==
  ASSUME NoIdWrap, TypeOK, Ownership, OneStatus, [Next]_vars
  PROVE  OneStatus'
<1>1. CASE Tx  BY <1>1 DEF Tx, OneStatus, status
<1>2. ASSUME NEW aged \in 0 .. Len(skbq), NEW n \in 0 .. Burst, TxStart(aged, n)
      PROVE  OneStatus'
  BY <1>2 DEF TxStart, OneStatus, status
<1>3. CASE Write
  <2>1. UNCHANGED <<pending, chip, reports>>  BY <1>3 DEF Write, status
  <2>2. freed \subseteq freed' /\ leaked \subseteq leaked'
    BY <1>3 DEF Write, WritePageset, WriteYaps, StatusFails
  <2> QED  BY <2>1, <2>2 DEF OneStatus
<1>4. CASE TxComplete
  <2> DEFINE await == sent \ NoReport
  <2>1. /\ pending' = pending \cup await /\ chip' = chip \cup await
        /\ freed \subseteq freed' /\ UNCHANGED <<leaked, reports>>
    BY <1>4 DEF TxComplete
  <2>2. \A r \in reports : r.pkt \notin await  BY DEF Ownership, OneStatus
  <2> QED  BY <2>1, <2>2 DEF OneStatus
<1>5. ASSUME NEW p \in Pkts, NEW kind \in ReportKind, ChipReport(p, kind)
      PROVE  OneStatus'
  <2> DEFINE new == [pkt |-> p, kind |-> kind]
  <2>1. /\ p \in chip /\ chip' = chip \ {p} /\ reports' = reports \cup {new}
        /\ UNCHANGED <<pending, freed, leaked>>
    BY <1>5 DEF ChipReport
  <2>2. new.pkt = p  OBVIOUS
  <2>3. \A r \in reports : r.pkt # new.pkt  BY <2>1, <2>2 DEF OneStatus
  <2> HIDE DEF new
  <2> QED  BY <2>1, <2>2, <2>3 DEF OneStatus
<1>6. ASSUME NEW p \in Pkts, ReportLost(p)  PROVE OneStatus'
  BY <1>6 DEF ReportLost, OneStatus
<1>7. ASSUME NEW r \in reports, TxStatus(r)  PROVE OneStatus'
  BY <1>7, TxStatusOneStatus
<1>8. CASE StaleWork  BY <1>8 DEF StaleWork, OneStatus
<1>9. CASE Flush  BY <1>9 DEF Flush, OneStatus
<1>10. CASE UNCHANGED <<pending, freed, leaked, chip, reports>>
  BY <1>10 DEF OneStatus
<1>11. \/ Tx \/ Write \/ TxComplete \/ StaleWork \/ Flush
       \/ \E aged \in 0 .. Len(skbq), n \in 0 .. Burst : TxStart(aged, n)
       \/ \E p \in Pkts, kind \in ReportKind : ChipReport(p, kind)
       \/ \E p \in Pkts : ReportLost(p)
       \/ \E r \in reports : TxStatus(r)
       \/ UNCHANGED <<pending, freed, leaked, chip, reports>>
  BY DEF Next, vars, status, TxStop, TxSignal, Resume, ArmTimer, Count, CheckThreshold,
         Wake, TxEnd, Expire, TimerFire, RestartBegin
<1> QED
  BY <1>1, <1>2, <1>3, <1>4, <1>5, <1>6, <1>7, <1>8, <1>9, <1>10, <1>11

\* No status can hit the second transmission of a packet: what the driver has
\* still to send, re-buffered packets included, is neither held by the chip nor
\* has a status on its way, through restarts too, until pkt_id wraps.
THEOREM SentOnce == NoIdWrap => (Spec => []NotSentTwice)
<1> DEFINE IInv == TypeOK /\ Ownership /\ OneStatus
<1>1. Init => IInv
  <2>1. Init => OneStatus  BY DEF Init, OneStatus
  <2> QED  BY <2>1, InitType, InitOwnership
<1>2. NoIdWrap /\ IInv /\ [Next]_vars => IInv'
  BY StepType, StepOwnership, StepOneStatus
<1>3. IInv => NotSentTwice
  <2> SUFFICES ASSUME IInv, NEW p \in Range(skbq) \cup Range(sending) \cup sent
               PROVE  p \notin chip /\ \A r \in reports : r.pkt # p
    BY DEF NotSentTwice
  <2>1. p \notin pending \cup freed \cup leaked  BY DEF Ownership
  <2> QED  BY <2>1 DEF OneStatus
<1>4. NoIdWrap => NoIdWrap'  BY DEF NoIdWrap
<1> HIDE DEF IInv, NoIdWrap
<1> QED  BY <1>1, <1>2, <1>3, <1>4, PTL DEF Spec

\* A packet that leaves the pending list has had its own status, has outlived
\* tx_status_lifetime_ms, or is flushed by a restart: no status of another
\* packet that overtook its own drops it.
THEOREM PendingLeaves == Spec => PendingKept
<1> DEFINE Justified ==
      \A p \in pending \ pending' :
         \/ p \in stale
         \/ unresponsive
         \/ \E r \in reports \ reports' : Id(r.pkt) = Id(p)
<1>1. TypeOK /\ [Next]_vars => Justified
  <2> SUFFICES ASSUME TypeOK, [Next]_vars, NEW p \in pending \ pending'
               PROVE  \/ p \in stale \/ unresponsive
                      \/ \E r \in reports \ reports' : Id(r.pkt) = Id(p)
    OBVIOUS
  <2>1. ASSUME NEW r \in reports, TxStatus(r)
        PROVE  p \in stale \/ \E s \in reports \ reports' : Id(s.pkt) = Id(p)
    <3>1. r \in reports \ reports'  BY <2>1 DEF TxStatus
    <3>2. ASSUME NEW q \in pending, NEW dropped \in SUBSET WalkDrops(Id(r.pkt)),
                 StatusOf(r, q, dropped)
          PROVE  p \in stale \/ Id(r.pkt) = Id(p)
      <4>1. p = q \/ p \in dropped  BY <3>2 DEF StatusOf
      <4> QED  BY <3>2, <4>1 DEF StatusOf, WalkDrops
    <3>3. CASE StatusUnmatched(r)
      BY <3>3 DEF StatusUnmatched, WalkDrops
    <3> QED  BY <2>1, <3>1, <3>2, <3>3 DEF TxStatus
  <2>2. CASE StaleWork  BY <2>2 DEF StaleWork
  <2>3. CASE Flush  BY <2>3 DEF Flush
  <2>4. CASE pending \subseteq pending'  BY <2>4
  <2>5. \/ StaleWork \/ Flush \/ pending \subseteq pending'
        \/ \E r \in reports : TxStatus(r)
    BY NoMove DEF Moves, Tx, TxStart, Write, TxComplete
  <2> QED  BY <2>1, <2>2, <2>3, <2>4, <2>5
<1>2. TypeOK /\ [Next]_vars => [Justified]_vars  BY <1>1
<1> QED  BY <1>2, TypeCorrect, PTL DEF Spec, PendingKept

-----------------------------------------------------------------------------
(* Signals.  Somebody is on the way to see every packet that was not put back: *)
(* a call that will set the event, the event, a pass that has not counted yet, *)
(* or one that has counted packets.                                           *)

SomebodyComes ==
    \/ signalled \/ left
    \/ stopping + signalling > 0
    \/ pc \in {"write", "complete", "arm", "count"}

Signals == SomebodyComes \/ Range(skbq) \subseteq putback

\* A pass that ends leaves the event, a call is replaced by what it sets.
LEMMA StepSignals ==
  ASSUME TypeOK, Ownership, Signals, [Next]_vars
  PROVE  Signals'
<1>0. stopping \in Nat /\ signalling \in Nat  BY DEF TypeOK
<1>1. CASE Tx
  <2>1. \/ stopping' = stopping + 1 /\ signalling' = signalling
        \/ signalling' = signalling + 1 /\ stopping' = stopping
    BY <1>1 DEF Tx
  <2>2. stopping' + signalling' > 0  BY <1>0, <2>1
  <2> QED  BY <2>2 DEF Signals, SomebodyComes
<1>2. CASE TxStop
  <2>1. stopping' + signalling' > 0
    <3>1. stopping' = stopping - 1 /\ signalling' = signalling + 1 /\ stopping > 0
      BY <1>2 DEF TxStop
    <3> QED  BY <1>0, <3>1
  <2> QED  BY <2>1 DEF Signals, SomebodyComes
<1>3. CASE TxSignal \/ Resume
  BY <1>3 DEF TxSignal, Resume, Signals, SomebodyComes
<1>4. ASSUME NEW aged \in 0 .. Len(skbq), NEW n \in 0 .. Burst, TxStart(aged, n)
      PROVE  Signals'
  <2>1. pc' \in {"write", "count"}  BY <1>4 DEF TxStart
  <2> QED  BY <2>1 DEF Signals, SomebodyComes
<1>5. CASE Write \/ TxComplete \/ ArmTimer
  <2>1. pc' \in {"complete", "arm", "count"}  BY <1>5 DEF Write, TxComplete, ArmTimer
  <2> QED  BY <2>1 DEF Signals, SomebodyComes
<1>6. CASE Count
  <2>1. CASE skbq = <<>>
    <3>1. Range(skbq') = {}  BY <1>6, <2>1, EmptyRange DEF Count
    <3> QED  BY <3>1 DEF Signals
  <2>2. CASE skbq # <<>>
    <3>1. left'  BY <1>6, <2>2 DEF Count
    <3> QED  BY <3>1 DEF Signals, SomebodyComes
  <2> QED  BY <2>1, <2>2
<1>7. CASE CheckThreshold \/ Wake
  <2>1. UNCHANGED <<skbq, putback, signalled, left, calls>>
    BY <1>7 DEF CheckThreshold, Wake, flow
  <2>2. pc \notin {"write", "complete", "arm", "count"}
    BY <1>7 DEF CheckThreshold, Wake
  <2>3. UNCHANGED <<stopping, signalling>>  BY <2>1 DEF calls
  <2> QED  BY <2>1, <2>2, <2>3 DEF Signals, SomebodyComes
<1>8. CASE TxEnd
  <2>1. UNCHANGED <<skbq, putback, stopping, signalling>>  BY <1>8 DEF TxEnd, calls
  <2>2. pc = "end"  BY <1>8 DEF TxEnd
  <2>3. CASE signalled \/ left
    <3>1. signalled'  BY <1>8, <2>3, Zenon DEF TxEnd
    <3> QED  BY <3>1 DEF Signals, SomebodyComes
  <2>4. CASE ~(signalled \/ left)
    BY <2>1, <2>2, <2>4 DEF Signals, SomebodyComes
  <2> QED  BY <2>3, <2>4
<1>9. ASSUME NEW r \in reports, TxStatus(r)  PROVE Signals'
  <2>1. UNCHANGED <<pc, signalled, left, stopping, signalling>>
    BY <1>9 DEF TxStatus, flow, calls
  <2>2. \/ UNCHANGED <<skbq, putback>>
        \/ \E p \in pending : Rebuffer(p)
    BY <1>9 DEF TxStatus, StatusOf, StatusUnmatched
  <2>3. ASSUME NEW p \in pending, Rebuffer(p)
        PROVE  Range(skbq) \subseteq putback => Range(skbq') \subseteq putback'
    <3>1. CASE Full(skbq)  BY <2>3, <3>1 DEF Rebuffer
    <3>2. CASE ~Full(skbq)
      <4>1. putback' = putback \cup {p} /\ leaked' = leaked
        BY <2>3, <3>2 DEF Rebuffer
      <4>2. Range(skbq') \subseteq Range(skbq) \cup {p}
        BY <2>3, RebufferOwnership
      <4> QED  BY <4>1, <4>2
    <3> QED  BY <3>1, <3>2
  <2>4. Range(skbq) \subseteq putback => Range(skbq') \subseteq putback'
    BY <2>2, <2>3
  <2> QED  BY <2>1, <2>4 DEF Signals, SomebodyComes
<1>10. CASE Flush
  <2>1. Range(skbq') = {}  BY <1>10, EmptyRange DEF Flush
  <2> QED  BY <2>1 DEF Signals
<1>11. CASE UNCHANGED <<skbq, putback, pc, flow>>
  <2>1. UNCHANGED <<signalled, left, stopping, signalling>>  BY <1>11 DEF flow, calls
  <2> QED  BY <1>11, <2>1 DEF Signals, SomebodyComes
<1>12. \/ Tx \/ TxStop \/ TxSignal \/ Resume \/ Write \/ TxComplete \/ ArmTimer
       \/ Count \/ CheckThreshold \/ Wake \/ TxEnd \/ Flush
       \/ \E aged \in 0 .. Len(skbq), n \in 0 .. Burst : TxStart(aged, n)
       \/ \E r \in reports : TxStatus(r)
       \/ UNCHANGED <<skbq, putback, pc, flow>>
  BY DEF Next, vars, ChipReport, ReportLost, Expire, TimerFire, StaleWork, RestartBegin
<1> QED
  BY <1>1, <1>2, <1>3, <1>4, <1>5, <1>6, <1>7, <1>8, <1>9, <1>10, <1>11, <1>12

\* No signal is lost: when the chip work rests, no event is set and no call is on
\* its way to set one, every packet that waits is one the status work put back.
THEOREM WaitersSignalled == Spec => []OnlyPutBackWait
<1> DEFINE IInv == TypeOK /\ Ownership /\ Signals
<1>1. Init => IInv
  <2>1. Init => Signals  BY EmptyRange DEF Init, Signals
  <2> QED  BY <2>1, InitType, InitOwnership
<1>2. IInv /\ [Next]_vars => IInv'  BY StepType, StepOwnership, StepSignals
<1>3. IInv => OnlyPutBackWait
  BY DEF TypeOK, Signals, SomebodyComes, OnlyPutBackWait, Unsignalled
<1> HIDE DEF IInv
<1> QED  BY <1>1, <1>2, <1>3, PTL DEF Spec
=============================================================================
