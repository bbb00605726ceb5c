--------------------------- MODULE YapsHw_proofs ----------------------------
(****************************************************************************)
(* Theorems about YapsRead and YapsWrite, for every window, every length of *)
(* packets and every number of failures.                                    *)
(****************************************************************************)
EXTENDS YapsRead, YapsWrite, SequenceTheorems, FiniteSetTheorems, TLAPS

-----------------------------------------------------------------------------
(* The words from the driver's place on: those left in the buffer, then     *)
(* those in the chip.                                                      *)

Place(b, s, i) == IF i <= Len(b) THEN b[i] ELSE s[i - Len(b)]

\* Around each word are the words of its packet, in order, and the rest of the
\* packet is there: what makes the overhang the end of the right packet.
Contiguous(b, s) ==
  \A i \in 1 .. Len(b) + Len(s) :
    LET w == Place(b, s, i) IN
    /\ w[1] \in 1 .. Len(lens) /\ w[2] \in 0 .. lens[w[1]]
    /\ \A j \in 0 .. lens[w[1]] :
         i + j - w[2] >= 1 =>
           /\ i + j - w[2] <= Len(b) + Len(s)
           /\ Place(b, s, i + j - w[2]) = <<w[1], j>>

\* Where the buffer is in use, and how much of the window is still to come.
Buffered ==
  /\ pc \notin {"parse", "overhang"} => buf = <<>>
  /\ pc = "read" => bytes <= Len(stream)
  /\ pc = "overhang" =>
       /\ num < RxMax /\ buf # <<>> /\ buf[1][2] = 0
       /\ Len(buf) - 1 < lens[buf[1][1]]
       /\ slots[num + 1] = SubSeq(buf, 2, Len(buf))

AllWhole(s, n) == \A i \in 1 .. n : \E p \in 1 .. Len(lens) : s[i] = Whole(p)

IInv ==
  /\ TypeOK
  /\ Contiguous(buf, stream)
  /\ Buffered
  /\ AllWhole(slots, num)
  /\ AllWhole(got, Len(got))

-----------------------------------------------------------------------------
\* What a sequence is cut into.
LEMMA CutProperties ==
  ASSUME NEW S, NEW s \in Seq(S), NEW n \in Nat, n <= Len(s)
  PROVE  /\ SubSeq(s, 1, n) \in Seq(S)
         /\ Len(SubSeq(s, 1, n)) = n
         /\ \A i \in 1 .. n : SubSeq(s, 1, n)[i] = s[i]
         /\ From(s, n + 1) \in Seq(S)
         /\ Len(From(s, n + 1)) = Len(s) - n
         /\ \A i \in 1 .. Len(s) - n : From(s, n + 1)[i] = s[n + i]
<1>1. Len(s) \in Nat  BY LenProperties
<1>2. \A i \in 1 .. Len(s) : s[i] \in S  BY ElementOfSeq
<1>3. /\ SubSeq(s, 1, n) \in Seq(S)
      /\ Len(SubSeq(s, 1, n)) = IF 1 <= n THEN n - 1 + 1 ELSE 0
      /\ \A i \in 1 .. n - 1 + 1 : SubSeq(s, 1, n)[i] = s[1 + i - 1]
  <2>1. \A i \in 1 .. n : s[i] \in S  BY <1>1, <1>2
  <2> QED  BY <2>1, SubSeqProperties
<1>4. /\ From(s, n + 1) \in Seq(S)
      /\ Len(From(s, n + 1)) = IF n + 1 <= Len(s) THEN Len(s) - (n + 1) + 1 ELSE 0
      /\ \A i \in 1 .. Len(s) - (n + 1) + 1 : From(s, n + 1)[i] = s[(n + 1) + i - 1]
  <2>1. \A i \in n + 1 .. Len(s) : s[i] \in S  BY <1>1, <1>2
  <2> QED  BY <1>1, <2>1, SubSeqProperties DEF From
<1>5. n - 1 + 1 = n /\ \A i \in 1 .. n : 1 + i - 1 = i  OBVIOUS
<1>6. Len(SubSeq(s, 1, n)) = n  BY <1>3, <1>5
<1>7. Len(s) - (n + 1) + 1 = Len(s) - n /\ \A i \in 1 .. Len(s) - n : (n + 1) + i - 1 = n + i
  BY <1>1
<1>8. Len(From(s, n + 1)) = Len(s) - n
  <2>1. CASE n + 1 <= Len(s)  BY <1>4, <1>7, <2>1
  <2>2. CASE ~(n + 1 <= Len(s))
    <3>1. Len(From(s, n + 1)) = 0  BY <1>4, <2>2
    <3>2. n = Len(s)  BY <1>1, <2>2
    <3> QED  BY <1>1, <3>1, <3>2
  <2> QED  BY <2>1, <2>2
<1> QED  BY <1>3, <1>4, <1>5, <1>6, <1>7, <1>8

\* A sequence given by a function of its places.
LEMMA FramedProperties ==
  ASSUME NEW p \in 1 .. MaxPkts, NEW len \in Nat
  PROVE  /\ Framed(p, len) \in Seq(Word)
         /\ Len(Framed(p, len)) = len + 1
         /\ \A k \in 1 .. len + 1 : Framed(p, len)[k] = <<p, k - 1>>
<1>1. Framed(p, len) \in [1 .. len + 1 -> Word]  BY DEF Framed, Word
<1>2. Framed(p, len) \in Seq(Word)  BY <1>1, SeqDef
<1>3. Len(Framed(p, len)) = len + 1  BY <1>1, <1>2, LenProperties
<1> QED  BY <1>2, <1>3 DEF Framed

LEMMA WholeProperties ==
  ASSUME TypeOK, NEW p \in 1 .. Len(lens)
  PROVE  /\ lens[p] \in Nat \ {0} /\ p \in 1 .. MaxPkts
         /\ Whole(p) \in Seq(Word)
         /\ Len(Whole(p)) = lens[p]
         /\ \A k \in 1 .. lens[p] : Whole(p)[k] = <<p, k>>
<1>1. lens[p] \in Lens  BY ElementOfSeq DEF TypeOK
<1>2. lens[p] \in Nat \ {0}  BY <1>1, YapsReadAssumption, YapsHwAssumption
<1>3. p \in 1 .. MaxPkts  BY LenProperties, YapsReadAssumption, YapsHwAssumption DEF TypeOK
<1>4. Whole(p) \in [1 .. lens[p] -> Word]  BY <1>2, <1>3 DEF Whole, Word
<1>5. Whole(p) \in Seq(Word)  BY <1>2, <1>4, SeqDef
<1>6. Len(Whole(p)) = lens[p]  BY <1>2, <1>4, <1>5, LenProperties
<1> QED  BY <1>2, <1>3, <1>5, <1>6 DEF Whole

\* Going on k words keeps what is before the driver contiguous.
LEMMA SkipContiguous ==
  ASSUME TypeOK, Contiguous(buf, stream),
         NEW b \in Seq(Word), NEW s \in Seq(Word), NEW k \in Nat,
         Len(b) + Len(s) = Len(buf) + Len(stream) - k,
         \A i \in 1 .. Len(b) + Len(s) : Place(b, s, i) = Place(buf, stream, i + k)
  PROVE  Contiguous(b, s)
<1>1. Len(b) \in Nat /\ Len(s) \in Nat /\ Len(buf) \in Nat /\ Len(stream) \in Nat
  BY LenProperties DEF TypeOK
<1> SUFFICES ASSUME NEW i \in 1 .. Len(b) + Len(s)
             PROVE  LET w == Place(b, s, i) IN
                    /\ w[1] \in 1 .. Len(lens) /\ w[2] \in 0 .. lens[w[1]]
                    /\ \A j \in 0 .. lens[w[1]] :
                         i + j - w[2] >= 1 =>
                           /\ i + j - w[2] <= Len(b) + Len(s)
                           /\ Place(b, s, i + j - w[2]) = <<w[1], j>>
  BY DEF Contiguous
<1> DEFINE w == Place(b, s, i)
<1>2. w = Place(buf, stream, i + k) /\ i + k \in 1 .. Len(buf) + Len(stream)  BY <1>1
<1>3. /\ w[1] \in 1 .. Len(lens) /\ w[2] \in 0 .. lens[w[1]]
      /\ \A j \in 0 .. lens[w[1]] :
           (i + k) + j - w[2] >= 1 =>
             /\ (i + k) + j - w[2] <= Len(buf) + Len(stream)
             /\ Place(buf, stream, (i + k) + j - w[2]) = <<w[1], j>>
  BY <1>2 DEF Contiguous
<1>4. lens[w[1]] \in Nat  BY <1>3, WholeProperties
<1> HIDE DEF w
<1>5. ASSUME NEW j \in 0 .. lens[w[1]], i + j - w[2] >= 1
      PROVE  /\ i + j - w[2] <= Len(b) + Len(s)
             /\ Place(b, s, i + j - w[2]) = <<w[1], j>>
  <2>1. w[2] \in Int /\ j \in Int  BY <1>3, <1>4
  <2>2. (i + k) + j - w[2] = (i + j - w[2]) + k /\ (i + k) + j - w[2] >= 1
    BY <1>5, <2>1
  <2>3. /\ (i + j - w[2]) + k <= Len(buf) + Len(stream)
        /\ Place(buf, stream, (i + j - w[2]) + k) = <<w[1], j>>
    BY <1>3, <2>2
  <2>4. i + j - w[2] \in 1 .. Len(b) + Len(s)
    <3> DEFINE m == i + j - w[2]  T == Len(b) + Len(s)  U == Len(buf) + Len(stream)
    <3>1. m \in Int /\ m >= 1  BY <1>5, <2>1
    <3>2. m + k <= U  BY <2>3
    <3>3. T = U - k  OBVIOUS
    <3>4. T \in Nat /\ U \in Nat  BY <1>1
    <3> HIDE DEF m, T, U
    <3>5. m \in 1 .. T  BY <3>1, <3>2, <3>3, <3>4
    <3> QED  BY <3>5 DEF m, T
  <2> QED  BY <2>3, <2>4
<1> QED  BY <1>3, <1>5 DEF w

-----------------------------------------------------------------------------
LEMMA InitInv == Init => IInv
<1> SUFFICES ASSUME Init PROVE IInv
  OBVIOUS
<1>1. /\ lens \in Seq(Lens) /\ stream \in Seq(Word) /\ buf \in Seq(Word)
      /\ got \in Seq(Seq(Word)) /\ <<>> \in Seq(Word)
      /\ Len(lens) = 0 /\ Len(stream) = 0 /\ Len(buf) = 0 /\ Len(got) = 0
  BY EmptySeq DEF Init
<1>2. TypeOK
  <2>1. slots \in [1 .. RxMax -> Seq(Word)]  BY <1>1 DEF Init
  <2>2. /\ pend \in BOOLEAN /\ again \in BOOLEAN
        /\ pc \in {"idle", "read", "parse", "overhang", "end"}
        /\ ret \in {"ok", "again", "nomem", "eio"}
    BY DEF Init
  <2>3. /\ bytes \in 0 .. Window /\ num \in 0 .. RxMax /\ leaked \in Nat
        /\ errors \in 0 .. MaxErrors /\ Len(lens) <= MaxPkts /\ Len(buf) <= Window
    BY <1>1, YapsReadAssumption, YapsHwAssumption DEF Init
  <2> QED  BY <1>1, <2>1, <2>2, <2>3 DEF TypeOK
<1>3. Contiguous(buf, stream)  BY <1>1 DEF Contiguous
<1>4. Buffered  BY DEF Init, Buffered
<1>5. AllWhole(slots, num) /\ AllWhole(got, Len(got))  BY <1>1 DEF Init, AllWhole
<1> QED  BY <1>2, <1>3, <1>4, <1>5 DEF IInv

\* What a packet of the chip adds to the stream.
LEMMA SendWords ==
  ASSUME TypeOK, NEW len \in Lens, Send(len)
  PROVE  /\ len \in Nat \ {0}
         /\ lens' \in Seq(Lens) /\ Len(lens') = Len(lens) + 1 /\ Len(lens') \in 1 .. MaxPkts
         /\ lens'[Len(lens')] = len
         /\ \A p \in 1 .. Len(lens) : lens'[p] = lens[p]
         /\ stream' \in Seq(Word) /\ Len(stream') = Len(stream) + len + 1
         /\ \A i \in 1 .. Len(stream) : stream'[i] = stream[i]
         /\ \A k \in 1 .. len + 1 : stream'[Len(stream) + k] = <<Len(lens'), k - 1>>
<1>1. /\ Len(lens) \in Nat /\ Len(stream) \in Nat /\ len \in Nat \ {0} /\ MaxPkts \in Nat
  BY LenProperties, YapsReadAssumption, YapsHwAssumption DEF TypeOK
<1>2. /\ lens' \in Seq(Lens) /\ Len(lens') = Len(lens) + 1 /\ Len(lens') <= MaxPkts
      /\ lens'[Len(lens')] = len
      /\ \A p \in 1 .. Len(lens) : lens'[p] = lens[p]
  BY <1>1, AppendProperties DEF TypeOK, Send
<1> DEFINE P == Len(lens')
<1>3. P \in 1 .. MaxPkts /\ P = Len(lens) + 1  BY <1>1, <1>2
<1>4. /\ Framed(P, len) \in Seq(Word) /\ Len(Framed(P, len)) = len + 1
      /\ \A k \in 1 .. len + 1 : Framed(P, len)[k] = <<P, k - 1>>
  BY <1>1, <1>3, FramedProperties
<1>5. /\ stream' \in Seq(Word) /\ Len(stream') = Len(stream) + len + 1
      /\ \A i \in 1 .. Len(stream) : stream'[i] = stream[i]
      /\ \A k \in 1 .. len + 1 : stream'[Len(stream) + k] = <<P, k - 1>>
  <2>1. stream' = stream \o Framed(P, len)  BY DEF Send
  <2>2. /\ stream' \in Seq(Word) /\ Len(stream') = Len(stream) + Len(Framed(P, len))
        /\ \A i \in 1 .. Len(stream) + Len(Framed(P, len)) :
              stream'[i] = IF i <= Len(stream) THEN stream[i]
                           ELSE Framed(P, len)[i - Len(stream)]
    BY <1>4, <2>1, ConcatProperties DEF TypeOK
  <2>3. ASSUME NEW i \in 1 .. Len(stream)  PROVE  stream'[i] = stream[i]
    BY <1>1, <1>4, <2>2
  <2>4. ASSUME NEW k \in 1 .. len + 1  PROVE  stream'[Len(stream) + k] = <<P, k - 1>>
    <3>1. /\ Len(stream) + k \in 1 .. Len(stream) + Len(Framed(P, len))
          /\ ~(Len(stream) + k <= Len(stream)) /\ (Len(stream) + k) - Len(stream) = k
      BY <1>1, <1>4
    <3> QED  BY <1>4, <2>2, <3>1
  <2>5. Len(stream') = Len(stream) + len + 1  BY <1>1, <1>4, <2>2
  <2> QED  BY <2>2, <2>3, <2>4, <2>5
<1> QED  BY <1>1, <1>2, <1>3, <1>5

\* A packet of the chip comes behind what is there.
LEMMA SendInv == ASSUME IInv, NEW len \in Lens, Send(len)  PROVE  IInv'
<1>1. /\ Len(lens) \in Nat /\ Len(buf) \in Nat /\ Len(stream) \in Nat /\ len \in Nat \ {0}
      /\ MaxPkts \in Nat /\ Len(got) \in Nat
  BY LenProperties, YapsReadAssumption, YapsHwAssumption DEF IInv, TypeOK
<1> DEFINE P == Len(lens')  T == Len(buf) + Len(stream)
<1>2. /\ lens' \in Seq(Lens) /\ P = Len(lens) + 1 /\ P \in 1 .. MaxPkts
      /\ lens'[P] = len
      /\ \A p \in 1 .. Len(lens) : lens'[p] = lens[p]
  BY SendWords DEF IInv
<1>5. /\ stream' \in Seq(Word) /\ Len(stream') = Len(stream) + len + 1
      /\ \A i \in 1 .. Len(stream) : stream'[i] = stream[i]
      /\ \A k \in 1 .. len + 1 : stream'[Len(stream) + k] = <<P, k - 1>>
  BY SendWords DEF IInv
<1>6. TypeOK'  BY <1>2, <1>5 DEF IInv, TypeOK, Send, parsed
<1>7. Contiguous(buf, stream)'
  <2>0. buf' = buf  BY DEF Send, parsed
  <2> SUFFICES ASSUME NEW i \in 1 .. Len(buf) + Len(stream')
               PROVE  LET w == Place(buf, stream', i) IN
                      /\ w[1] \in 1 .. P /\ w[2] \in 0 .. lens'[w[1]]
                      /\ \A j \in 0 .. lens'[w[1]] :
                           i + j - w[2] >= 1 =>
                             /\ i + j - w[2] <= Len(buf) + Len(stream')
                             /\ Place(buf, stream', i + j - w[2]) = <<w[1], j>>
    BY <2>0 DEF Contiguous, Place
  <2> DEFINE w == Place(buf, stream', i)
  <2>1. \A m \in 1 .. T : Place(buf, stream', m) = Place(buf, stream, m)
    <3> TAKE m \in 1 .. T
    <3>1. CASE m <= Len(buf)  BY <3>1 DEF Place
    <3>2. CASE ~(m <= Len(buf))
      <4>1. m - Len(buf) \in 1 .. Len(stream)  BY <1>1, <3>2
      <4>2. stream'[m - Len(buf)] = stream[m - Len(buf)]  BY <1>5, <4>1
      <4> QED  BY <3>2, <4>2 DEF Place
    <3> QED  BY <3>1, <3>2
  <2>2. \A k \in 1 .. len + 1 : Place(buf, stream', T + k) = <<P, k - 1>>
    <3> TAKE k \in 1 .. len + 1
    <3>1. ~(T + k <= Len(buf)) /\ (T + k) - Len(buf) = Len(stream) + k  BY <1>1
    <3> QED  BY <1>5, <3>1 DEF Place
  <2>3. CASE i <= T
    <3>1. i \in 1 .. T /\ w = Place(buf, stream, i)  BY <1>1, <2>1, <2>3
    <3>2. /\ w[1] \in 1 .. Len(lens) /\ w[2] \in 0 .. lens[w[1]]
          /\ \A j \in 0 .. lens[w[1]] :
               i + j - w[2] >= 1 =>
                 /\ i + j - w[2] <= T
                 /\ Place(buf, stream, i + j - w[2]) = <<w[1], j>>
      BY <3>1 DEF IInv, Contiguous
    <3>3. lens'[w[1]] = lens[w[1]] /\ lens[w[1]] \in Nat  BY <1>2, <3>2, WholeProperties DEF IInv
    <3> HIDE DEF w
    <3>4. ASSUME NEW j \in 0 .. lens[w[1]], i + j - w[2] >= 1
          PROVE  /\ i + j - w[2] <= Len(buf) + Len(stream')
                 /\ Place(buf, stream', i + j - w[2]) = <<w[1], j>>
      <4>1. w[2] \in Int /\ j \in Int  BY <3>2, <3>3
      <4>2. i + j - w[2] \in 1 .. T /\ Place(buf, stream, i + j - w[2]) = <<w[1], j>>
        BY <1>1, <3>2, <3>4, <4>1
      <4>3. T <= Len(buf) + Len(stream')  BY <1>1, <1>5
      <4> QED  BY <1>1, <1>5, <2>1, <4>2, <4>3
    <3>5. w[1] \in 1 .. P  BY <1>1, <1>2, <3>2
    <3> QED  BY <3>2, <3>3, <3>4, <3>5 DEF w
  <2>4. CASE ~(i <= T)
    <3> DEFINE k == i - T
    <3>1. k \in 1 .. len + 1 /\ i = T + k  BY <1>1, <1>5, <2>4
    <3>2. w = <<P, k - 1>>  BY <2>2, <3>1
    <3>3. w[1] = P /\ w[2] = k - 1 /\ lens'[w[1]] = len  BY <1>2, <3>2
    <3> HIDE DEF w, k, T, P
    <3>4. ASSUME NEW j \in 0 .. len
          PROVE  /\ i + j - w[2] <= Len(buf) + Len(stream')
                 /\ Place(buf, stream', i + j - w[2]) = <<P, j>>
      <4>0. T \in Nat /\ k \in Int /\ j \in Int  BY <1>1, <3>1 DEF T
      <4>1. i + j - w[2] = T + (j + 1)  BY <3>1, <3>3, <4>0
      <4>2. j + 1 \in 1 .. len + 1 /\ (j + 1) - 1 = j  BY <1>1
      <4>3. Len(buf) + Len(stream') = T + (len + 1)  BY <1>1, <1>5 DEF T
      <4>4. Place(buf, stream', T + (j + 1)) = <<P, j>>  BY <2>2, <4>2
      <4>5. T + (j + 1) <= T + (len + 1)  BY <1>1, <4>0, <4>2
      <4> QED  BY <4>1, <4>3, <4>4, <4>5
    <3>5. P \in 1 .. P /\ w[2] \in 0 .. len  BY <1>1, <1>2, <3>1, <3>3
    <3> QED  BY <3>3, <3>4, <3>5 DEF w
  <2> QED  BY <2>3, <2>4
<1>8. Buffered'
  <2>1. /\ pc' = pc /\ buf' = buf /\ bytes' = bytes /\ num' = num /\ slots' = slots
        /\ Buffered
    BY DEF IInv, Send, parsed
  <2>2. pc = "read" => bytes <= Len(stream')
    <3>1. bytes \in Int  BY YapsHwAssumption DEF IInv, TypeOK
    <3> QED  BY <1>1, <1>5, <2>1, <3>1 DEF Buffered
  <2>3. ASSUME pc = "overhang"  PROVE  lens'[buf[1][1]] = lens[buf[1][1]]
    <3>1. buf # <<>>  BY <2>1, <2>3 DEF Buffered
    <3>2. 1 \in 1 .. Len(buf)  BY <3>1, EmptySeq DEF IInv, TypeOK
    <3>3. buf[1][1] \in 1 .. Len(lens)  BY <1>1, <3>2 DEF IInv, Contiguous, Place
    <3> QED  BY <1>2, <3>3
  <2> QED  BY <2>1, <2>2, <2>3 DEF Buffered
<1>9. AllWhole(slots, num)' /\ AllWhole(got, Len(got))'
  <2>1. \A p \in 1 .. Len(lens) : Whole(p)' = Whole(p) /\ p \in 1 .. Len(lens')
    BY <1>1, <1>2 DEF Whole
  <2> QED  BY <2>1 DEF IInv, AllWhole, Send, parsed
<1> QED  BY <1>6, <1>7, <1>8, <1>9 DEF IInv

-----------------------------------------------------------------------------
(* The handler.  None of its steps changes lens.                            *)

\* Where the driver's place is does not depend on how the words are named.
LEMMA SameContiguous ==
  ASSUME lens' = lens, Contiguous(buf', stream')
  PROVE  Contiguous(buf, stream)'
BY DEF Contiguous, Place

\* Nothing is in the buffer after a step that drops it; the place is the chip's.
LEMMA DropContiguous ==
  ASSUME TypeOK, Contiguous(buf, stream), lens' = lens, buf' = <<>>,
         NEW n \in Nat, n <= Len(stream), stream' = From(stream, n + 1)
  PROVE  Contiguous(buf, stream)' /\ stream' \in Seq(Word)
<1>1. Len(buf) \in Nat /\ Len(stream) \in Nat  BY LenProperties DEF TypeOK
<1>2. /\ stream' \in Seq(Word) /\ Len(stream') = Len(stream) - n
      /\ \A i \in 1 .. Len(stream) - n : stream'[i] = stream[n + i]
  BY CutProperties DEF TypeOK
<1>3. buf' \in Seq(Word) /\ Len(buf') = 0  BY EmptySeq
<1>4. ASSUME NEW i \in 1 .. Len(buf') + Len(stream')
      PROVE  Place(buf', stream', i) = Place(buf, stream, i + (Len(buf) + n))
  <2>1. i \in 1 .. Len(stream) - n /\ ~(i <= Len(buf')) /\ i - Len(buf') = i
    BY <1>1, <1>2, <1>3
  <2>2. ~(i + (Len(buf) + n) <= Len(buf)) /\ i + (Len(buf) + n) - Len(buf) = n + i
    BY <1>1, <2>1
  <2> QED  BY <1>2, <2>1, <2>2 DEF Place
<1>5. Len(buf') + Len(stream') = Len(buf) + Len(stream) - (Len(buf) + n)
  BY <1>1, <1>2, <1>3
<1>6. Len(buf) + n \in Nat  BY <1>1
<1>7. Contiguous(buf', stream')
  BY <1>2, <1>3, <1>4, <1>5, <1>6, SkipContiguous
<1> QED  BY <1>2, <1>7, SameContiguous

\* The same when the chip's words stay.
LEMMA DropBuffer ==
  ASSUME TypeOK, Contiguous(buf, stream), lens' = lens, buf' = <<>>, stream' = stream
  PROVE  Contiguous(buf, stream)'
<1>1. Len(stream) \in Nat  BY LenProperties DEF TypeOK
<1>2. From(stream, 1) = stream  BY SubSeqFull DEF From, TypeOK
<1> QED  BY <1>1, <1>2, DropContiguous

LEMMA UpdateStatusInv == IInv /\ UpdateStatus => IInv'
<1> SUFFICES ASSUME IInv, UpdateStatus  PROVE IInv'
  OBVIOUS
<1>1. Len(stream) \in Nat  BY LenProperties DEF IInv, TypeOK
<1>2. /\ lens' = lens /\ stream' = stream /\ slots' = slots /\ num' = num /\ got' = got
      /\ leaked' = leaked /\ pc = "idle" /\ pend' = FALSE /\ buf = <<>>
  BY DEF IInv, UpdateStatus, Buffered, chip
<1>3. buf' = buf  BY <1>2 DEF UpdateStatus, Fail
<1>4. /\ bytes' \in 0 .. Window /\ again' \in BOOLEAN /\ errors' \in 0 .. MaxErrors
      /\ ret' \in {"ok", "again", "nomem", "eio"}
      /\ pc' = "end" \/ (pc' = "read" /\ bytes' <= Len(stream))
  <2>1. CASE bytes' = BytesRemaining /\ again' = (Len(stream) > Window)
             /\ pc' = (IF stream = <<>> THEN "end" ELSE "read") /\ UNCHANGED <<buf, ret, errors>>
    <3>1. bytes' \in 0 .. Window /\ bytes' <= Len(stream)
      BY <1>1, <2>1, YapsHwAssumption DEF BytesRemaining, Min2
    <3> QED  BY <2>1, <3>1 DEF IInv, TypeOK
  <2>2. CASE Fail("eio") /\ UNCHANGED <<bytes, again>>
    BY <2>2, YapsHwAssumption DEF Fail, IInv, TypeOK
  <2> QED  BY <2>1, <2>2 DEF UpdateStatus
<1>5. TypeOK'  BY <1>2, <1>3, <1>4 DEF IInv, TypeOK
<1>6. Contiguous(buf, stream)'  BY <1>2, <1>3, SameContiguous DEF IInv
<1>7. Buffered'  BY <1>2, <1>3, <1>4 DEF Buffered
<1>8. AllWhole(slots, num)' /\ AllWhole(got, Len(got))'
  BY <1>2 DEF IInv, AllWhole, Whole
<1> QED  BY <1>5, <1>6, <1>7, <1>8 DEF IInv

LEMMA ReadWindowInv == IInv /\ ReadWindow => IInv'
<1> SUFFICES ASSUME IInv, ReadWindow  PROVE IInv'
  OBVIOUS
<1>1. /\ Len(stream) \in Nat /\ Len(buf) = 0 /\ buf = <<>>
      /\ bytes \in Nat /\ bytes <= Len(stream) /\ bytes <= Window
  BY LenProperties, EmptySeq, YapsHwAssumption DEF IInv, TypeOK, Buffered, ReadWindow
<1>2. /\ lens' = lens /\ slots' = slots /\ num' = num /\ got' = got /\ pend' = pend
      /\ leaked' = leaked /\ bytes' = bytes /\ again' = again
  BY DEF ReadWindow
<1>3. /\ SubSeq(stream, 1, bytes) \in Seq(Word) /\ Len(SubSeq(stream, 1, bytes)) = bytes
      /\ \A i \in 1 .. bytes : SubSeq(stream, 1, bytes)[i] = stream[i]
      /\ From(stream, bytes + 1) \in Seq(Word)
      /\ Len(From(stream, bytes + 1)) = Len(stream) - bytes
      /\ \A i \in 1 .. Len(stream) - bytes : From(stream, bytes + 1)[i] = stream[bytes + i]
  <2>1. stream \in Seq(Word) /\ bytes \in Nat /\ bytes <= Len(stream)
    BY <1>1 DEF IInv, TypeOK
  <2> QED  BY <2>1, CutProperties
<1>4. AllWhole(slots, num)' /\ AllWhole(got, Len(got))'
  BY <1>2 DEF IInv, AllWhole, Whole
<1>5. CASE /\ buf' = SubSeq(stream, 1, bytes) /\ stream' = From(stream, bytes + 1)
           /\ pc' = "parse" /\ UNCHANGED <<ret, errors>>
  <2>1. TypeOK'  BY <1>1, <1>2, <1>3, <1>5 DEF IInv, TypeOK
  <2>2. ASSUME NEW i \in 1 .. Len(buf') + Len(stream')
        PROVE  Place(buf', stream', i) = Place(buf, stream, i + 0)
    <3>1. i \in 1 .. Len(stream) /\ Len(buf') = bytes  BY <1>1, <1>3, <1>5
    <3>2. Place(buf, stream, i + 0) = stream[i]  BY <1>1, <3>1 DEF Place
    <3>3. CASE i <= bytes  BY <1>3, <1>5, <3>1, <3>2, <3>3 DEF Place
    <3>4. CASE ~(i <= bytes)
      <4>1. i - bytes \in 1 .. Len(stream) - bytes /\ bytes + (i - bytes) = i
        BY <1>1, <3>1, <3>4
      <4>2. Place(buf', stream', i) = stream'[i - bytes]  BY <3>1, <3>4 DEF Place
      <4> QED  BY <1>3, <1>5, <3>2, <4>1, <4>2
    <3> QED  BY <3>3, <3>4
  <2>3. Len(buf') + Len(stream') = Len(buf) + Len(stream) - 0  BY <1>1, <1>3, <1>5
  <2>4. Contiguous(buf', stream')
    <3>1. buf' \in Seq(Word) /\ stream' \in Seq(Word)  BY <1>3, <1>5
    <3> QED  BY <2>2, <2>3, <3>1, SkipContiguous DEF IInv
  <2>5. Contiguous(buf, stream)'  BY <1>2, <2>4, SameContiguous
  <2>6. Buffered'  BY <1>5 DEF Buffered
  <2> QED  BY <1>4, <2>1, <2>5, <2>6 DEF IInv
<1>6. CASE Fail("eio") /\ stream' \in {stream, From(stream, bytes + 1)}
  <2>1. Contiguous(buf, stream)' /\ stream' \in Seq(Word)
    <3>1. CASE stream' = stream  BY <1>2, <1>6, <3>1, DropBuffer DEF IInv, Fail, TypeOK
    <3>2. CASE stream' = From(stream, bytes + 1)
      BY <1>1, <1>2, <1>6, <3>2, DropContiguous DEF IInv, Fail
    <3> QED  BY <1>6, <3>1, <3>2
  <2>2. TypeOK'
    BY <1>1, <1>2, <1>6, <2>1, YapsHwAssumption DEF IInv, TypeOK, Fail
  <2>3. Buffered'  BY <1>6 DEF Buffered, Fail
  <2> QED  BY <1>4, <2>1, <2>2, <2>3 DEF IInv
<1> QED  BY <1>5, <1>6 DEF ReadWindow

\* What the driver knows at a delimiter: the words of its packet follow, in the
\* buffer as far as it goes and then in the chip.
LEMMA HeadPacket ==
  ASSUME IInv, buf # <<>>, Head(buf)[2] = 0
  PROVE  LET p == Head(buf)[1] IN
         /\ Head(buf) = buf[1] /\ Len(buf) \in Nat \ {0} /\ Len(stream) \in Nat
         /\ p \in 1 .. Len(lens) /\ lens[p] \in Nat \ {0}
         /\ lens[p] + 1 <= Len(buf) + Len(stream)
         /\ \A j \in 1 .. lens[p] : Place(buf, stream, j + 1) = <<p, j>>
<1> DEFINE p == Head(buf)[1]
<1>1. Head(buf) = buf[1] /\ Len(buf) \in Nat \ {0} /\ Len(stream) \in Nat
  BY EmptySeq, LenProperties DEF IInv, TypeOK
<1>2. Place(buf, stream, 1) = buf[1] /\ 1 \in 1 .. Len(buf) + Len(stream)
  BY <1>1 DEF Place
<1>3. /\ p \in 1 .. Len(lens)
      /\ \A j \in 0 .. lens[p] :
           1 + j - 0 >= 1 =>
             /\ 1 + j - 0 <= Len(buf) + Len(stream)
             /\ Place(buf, stream, 1 + j - 0) = <<p, j>>
  BY <1>1, <1>2 DEF IInv, Contiguous
<1>4. lens[p] \in Nat \ {0}  BY <1>3, WholeProperties DEF IInv
<1> HIDE DEF p
<1>5. ASSUME NEW j \in 0 .. lens[p]
      PROVE  j + 1 <= Len(buf) + Len(stream) /\ Place(buf, stream, j + 1) = <<p, j>>
  <2>1. 1 + j - 0 = j + 1 /\ j + 1 >= 1  BY <1>4
  <2> QED  BY <1>3, <2>1
<1>6. lens[p] \in 0 .. lens[p]  BY <1>4
<1> QED  BY <1>1, <1>3, <1>4, <1>5, <1>6 DEF p

\* The words of a packet in hand, up to the end of the buffer.
LEMMA PartProperties ==
  ASSUME IInv, buf # <<>>, Head(buf)[2] = 0, NEW n \in Nat, n <= Len(buf) - 1
  PROVE  /\ SubSeq(buf, 2, n + 1) \in Seq(Word)
         /\ Len(SubSeq(buf, 2, n + 1)) = n
         /\ \A k \in 1 .. n : SubSeq(buf, 2, n + 1)[k] = Place(buf, stream, k + 1)
<1>1. Len(buf) \in Nat \ {0} /\ buf \in Seq(Word)  BY HeadPacket DEF IInv, TypeOK
<1>2. \A i \in 2 .. n + 1 : buf[i] \in Word  BY <1>1, ElementOfSeq
<1>3. /\ SubSeq(buf, 2, n + 1) \in Seq(Word)
      /\ Len(SubSeq(buf, 2, n + 1)) = IF 2 <= n + 1 THEN n + 1 - 2 + 1 ELSE 0
      /\ \A i \in 1 .. n + 1 - 2 + 1 : SubSeq(buf, 2, n + 1)[i] = buf[2 + i - 1]
  BY <1>2, SubSeqProperties
<1>4. n + 1 - 2 + 1 = n /\ (2 <= n + 1 \/ n = 0)  OBVIOUS
<1>5. Len(SubSeq(buf, 2, n + 1)) = n  BY <1>3, <1>4
<1>6. ASSUME NEW k \in 1 .. n
      PROVE  SubSeq(buf, 2, n + 1)[k] = Place(buf, stream, k + 1)
  <2>1. 2 + k - 1 = k + 1 /\ k + 1 <= Len(buf)  BY <1>1
  <2> QED  BY <1>3, <1>4, <2>1 DEF Place
<1> QED  BY <1>3, <1>5, <1>6

LEMMA SplitInv == IInv /\ Split => IInv'
<1> SUFFICES ASSUME IInv, Split  PROVE IInv'
  OBVIOUS
<1> DEFINE p == Head(buf)[1]  len == lens[p]  here == Min2(len, Len(buf) - 1)
<1>1. pc = "parse" /\ num < RxMax /\ buf # <<>> /\ Head(buf)[2] = 0
  BY DEF Split, More
<1>2. /\ Len(buf) \in Nat \ {0} /\ Len(stream) \in Nat
      /\ p \in 1 .. Len(lens) /\ len \in Nat \ {0}
      /\ len + 1 <= Len(buf) + Len(stream)
      /\ \A j \in 1 .. len : Place(buf, stream, j + 1) = <<p, j>>
  BY <1>1, HeadPacket
<1>3. here \in Nat /\ here <= len /\ here <= Len(buf) - 1 /\ (here = len \/ here = Len(buf) - 1)
  BY <1>2 DEF Min2
<1>4. /\ SubSeq(buf, 2, here + 1) \in Seq(Word) /\ Len(SubSeq(buf, 2, here + 1)) = here
      /\ \A k \in 1 .. here : SubSeq(buf, 2, here + 1)[k] = Place(buf, stream, k + 1)
  BY <1>1, <1>3, PartProperties
<1>5. /\ num + 1 \in 1 .. RxMax /\ num \in Nat /\ slots \in [1 .. RxMax -> Seq(Word)]
  BY <1>1, YapsReadAssumption DEF IInv, TypeOK
<1>6. /\ lens' = lens /\ stream' = stream /\ pend' = pend /\ bytes' = bytes
      /\ again' = again /\ got' = got
  BY DEF Split, chip
<1>7. ASSUME NEW ws \in Seq(Word), Store(ws)
      PROVE  /\ slots' \in [1 .. RxMax -> Seq(Word)] /\ slots'[num + 1] = ws
             /\ \A i \in 1 .. num : slots'[i] = slots[i]
             /\ leaked' \in Nat
  BY <1>5, <1>7 DEF Store, IInv, TypeOK
<1>8. AllWhole(got, Len(got))'  BY <1>6 DEF IInv, AllWhole, Whole
<1>10. \A q \in 1 .. Len(lens) : Whole(q)' = Whole(q)  BY <1>6 DEF Whole
<1> HIDE DEF here, len, p
<1>11. CASE /\ Store(SubSeq(buf, 2, here + 1)) /\ here = len /\ num' = num + 1
            /\ buf' = From(buf, len + 2) /\ UNCHANGED <<pc, ret, errors>>
  <2>1. /\ slots' \in [1 .. RxMax -> Seq(Word)]
        /\ slots'[num + 1] = SubSeq(buf, 2, here + 1)
        /\ \A i \in 1 .. num : slots'[i] = slots[i]
        /\ leaked' \in Nat
    BY <1>4, <1>7, <1>11
  <2>2. SubSeq(buf, 2, here + 1) = Whole(p)
    <3>1. /\ Whole(p) \in Seq(Word) /\ Len(Whole(p)) = len
          /\ \A k \in 1 .. len : Whole(p)[k] = <<p, k>>
      BY <1>2, WholeProperties DEF IInv, len
    <3>2. \A k \in 1 .. here : SubSeq(buf, 2, here + 1)[k] = Whole(p)[k]
      BY <1>2, <1>4, <1>11, <3>1
    <3> QED  BY <1>4, <1>11, <3>1, <3>2, SeqEqual
  <2>3. /\ buf' \in Seq(Word) /\ Len(buf') = Len(buf) - (len + 1)
        /\ \A i \in 1 .. Len(buf) - (len + 1) : buf'[i] = buf[(len + 1) + i]
    <3>1. buf \in Seq(Word) /\ len + 1 \in Nat /\ len + 1 <= Len(buf) /\ (len + 1) + 1 = len + 2
      BY <1>2, <1>3, <1>11 DEF IInv, TypeOK
    <3> QED  BY <1>11, <3>1, CutProperties
  <2>4. TypeOK'
    <3>1. Len(buf') <= Window  BY <1>2, <2>3, YapsHwAssumption DEF IInv, TypeOK
    <3>2. num' \in 0 .. RxMax  BY <1>5, <1>11, YapsHwAssumption
    <3> QED  BY <1>6, <1>11, <2>1, <2>3, <3>1, <3>2 DEF IInv, TypeOK
  <2>5. Contiguous(buf, stream)'
    <3>1. ASSUME NEW i \in 1 .. Len(buf') + Len(stream)
          PROVE  Place(buf', stream, i) = Place(buf, stream, i + (len + 1))
      <4>1. CASE i <= Len(buf')
        <5>1. i \in 1 .. Len(buf) - (len + 1) /\ (len + 1) + i = i + (len + 1)
              /\ i + (len + 1) <= Len(buf)
          BY <1>2, <2>3, <4>1
        <5> QED  BY <2>3, <4>1, <5>1 DEF Place
      <4>2. CASE ~(i <= Len(buf'))
        <5> DEFINE m == i + (len + 1)
        <5>1. ~(m <= Len(buf))  BY <1>2, <2>3, <4>2
        <5>2. m - Len(buf) = i - Len(buf')  BY <1>2, <2>3, <4>2
        <5>3. Place(buf', stream, i) = stream[i - Len(buf')]  BY <4>2 DEF Place
        <5> HIDE DEF m
        <5>4. Place(buf, stream, m) = stream[m - Len(buf)]  BY <5>1 DEF Place
        <5>5. Place(buf, stream, m) = Place(buf', stream, i)  BY <5>2, <5>3, <5>4
        <5> QED  BY <5>5 DEF m
      <4> QED  BY <4>1, <4>2
    <3>2. Len(buf') + Len(stream) = Len(buf) + Len(stream) - (len + 1)  BY <1>2, <2>3
    <3>3. stream \in Seq(Word) /\ TypeOK /\ Contiguous(buf, stream) /\ len + 1 \in Nat
      BY <1>2 DEF IInv, TypeOK
    <3>4. Contiguous(buf', stream)  BY <2>3, <3>1, <3>2, <3>3, SkipContiguous
    <3> QED  BY <1>6, <3>4, SameContiguous
  <2>6. Buffered'  BY <1>1, <1>11 DEF Buffered
  <2>7. AllWhole(slots, num)'
    <3> SUFFICES ASSUME NEW i \in 1 .. num + 1
                 PROVE  \E q \in 1 .. Len(lens) : slots'[i] = Whole(q)
      BY <1>6, <1>10, <1>11 DEF AllWhole
    <3>1. CASE i = num + 1  BY <1>2, <2>1, <2>2, <3>1
    <3>2. CASE i # num + 1
      <4>1. i \in 1 .. num  BY <1>5, <3>2
      <4> QED  BY <2>1, <4>1 DEF IInv, AllWhole
    <3> QED  BY <3>1, <3>2
  <2> QED  BY <1>8, <2>4, <2>5, <2>6, <2>7 DEF IInv
<1>12. ASSUME NEW ws \in Seq(Word), Store(ws), num' = num
       PROVE  AllWhole(slots, num)' /\ slots' \in [1 .. RxMax -> Seq(Word)]
              /\ slots'[num + 1] = ws /\ leaked' \in Nat
  <2>1. \A i \in 1 .. num : slots'[i] = slots[i]  BY <1>7, <1>12
  <2>2. AllWhole(slots, num)'  BY <1>6, <1>10, <1>12, <2>1 DEF IInv, AllWhole
  <2> QED  BY <1>7, <1>12, <2>2
<1>13. CASE /\ Store(SubSeq(buf, 2, here + 1)) /\ here # len /\ pc' = "overhang"
            /\ UNCHANGED <<num, buf, ret, errors>>
  <2>1. /\ AllWhole(slots, num)' /\ slots' \in [1 .. RxMax -> Seq(Word)]
        /\ slots'[num + 1] = SubSeq(buf, 2, here + 1) /\ leaked' \in Nat
    BY <1>4, <1>12, <1>13
  <2>2. TypeOK'  BY <1>6, <1>13, <2>1 DEF IInv, TypeOK
  <2>3. Contiguous(buf, stream)'  BY <1>6, <1>13, SameContiguous DEF IInv
  <2>4. Buffered'
    <3>1. here = Len(buf) - 1 /\ here + 1 = Len(buf) /\ here < len  BY <1>2, <1>3, <1>13
    <3>2. Head(buf) = buf[1]  BY <1>1, HeadPacket
    <3> QED  BY <1>1, <1>6, <1>13, <2>1, <3>1, <3>2 DEF Buffered, len, p
  <2> QED  BY <1>8, <2>1, <2>2, <2>3, <2>4 DEF IInv
<1>14. CASE Store(<<>>) /\ Fail("nomem") /\ UNCHANGED num
  <2>1. <<>> \in Seq(Word)  BY EmptySeq
  <2>2. AllWhole(slots, num)' /\ slots' \in [1 .. RxMax -> Seq(Word)] /\ leaked' \in Nat
    BY <1>12, <1>14, <2>1
  <2>3. buf' = <<>> /\ Len(buf') = 0 /\ pc' = "end" /\ ret' = "nomem" /\ errors' \in 0 .. MaxErrors
    BY <1>14, EmptySeq, YapsHwAssumption DEF Fail, IInv, TypeOK
  <2>4. TypeOK'  BY <1>6, <1>14, <2>1, <2>2, <2>3, YapsHwAssumption DEF IInv, TypeOK
  <2>5. Contiguous(buf, stream)'  BY <1>6, <2>3, DropBuffer DEF IInv
  <2>6. Buffered'  BY <2>3 DEF Buffered
  <2> QED  BY <1>8, <2>2, <2>4, <2>5, <2>6 DEF IInv
<1> QED  BY <1>11, <1>13, <1>14 DEF Split, here, len, p

LEMMA ReadOverhangInv == IInv /\ ReadOverhang => IInv'
<1> SUFFICES ASSUME IInv, ReadOverhang  PROVE IInv'
  OBVIOUS
<1> DEFINE p == Head(buf)[1]  len == lens[p]  n == Len(buf) - 1  rest == len - n
<1>1. /\ pc = "overhang" /\ num < RxMax /\ buf # <<>> /\ buf[1][2] = 0
      /\ Len(buf) - 1 < lens[buf[1][1]] /\ slots[num + 1] = SubSeq(buf, 2, Len(buf))
  BY DEF ReadOverhang, IInv, Buffered
<1>2. Head(buf) = buf[1]  BY <1>1, EmptySeq DEF IInv, TypeOK
<1>3. /\ Len(buf) \in Nat \ {0} /\ Len(stream) \in Nat
      /\ p \in 1 .. Len(lens) /\ len \in Nat \ {0}
      /\ len + 1 <= Len(buf) + Len(stream)
      /\ \A j \in 1 .. len : Place(buf, stream, j + 1) = <<p, j>>
  BY <1>1, <1>2, HeadPacket
<1>4. /\ n \in Nat /\ n + 1 = Len(buf) /\ n <= Len(buf) - 1 /\ rest \in Nat
      /\ rest <= Len(stream) /\ n + rest = len
  <2>1. Len(buf) - 1 < len  BY <1>1, <1>2
  <2> HIDE DEF len, p
  <2>2. Len(buf) \in Nat \ {0} /\ len \in Nat \ {0} /\ Len(stream) \in Nat
    BY <1>3
  <2>3. len + 1 <= Len(buf) + Len(stream)  BY <1>3
  <2> QED  BY <2>1, <2>2, <2>3
<1>5. /\ slots[num + 1] \in Seq(Word) /\ Len(slots[num + 1]) = n
      /\ \A k \in 1 .. n : slots[num + 1][k] = Place(buf, stream, k + 1)
  <2> HIDE DEF n
  <2> QED  BY <1>1, <1>2, <1>4, PartProperties
<1>6. /\ SubSeq(stream, 1, rest) \in Seq(Word) /\ Len(SubSeq(stream, 1, rest)) = rest
      /\ \A i \in 1 .. rest : SubSeq(stream, 1, rest)[i] = stream[i]
  <2> HIDE DEF rest
  <2>1. stream \in Seq(Word)  BY DEF IInv, TypeOK
  <2> QED  BY <1>4, <2>1, CutProperties
<1>7. /\ num + 1 \in 1 .. RxMax /\ num \in Nat /\ slots \in [1 .. RxMax -> Seq(Word)]
  BY <1>1, YapsReadAssumption DEF IInv, TypeOK
<1>8. /\ lens' = lens /\ pend' = pend /\ bytes' = bytes /\ again' = again
      /\ leaked' = leaked /\ got' = got
  BY DEF ReadOverhang
<1>9. AllWhole(got, Len(got))'  BY <1>8 DEF IInv, AllWhole, Whole
<1>10. \A q \in 1 .. Len(lens) : Whole(q)' = Whole(q)  BY <1>8 DEF Whole
<1>11. (\/ /\ slots' = [slots EXCEPT ![num + 1] = @ \o SubSeq(stream, 1, rest)]
           /\ stream' = From(stream, rest + 1)
           /\ num' = num + 1 /\ buf' = <<>> /\ pc' = "parse"
           /\ UNCHANGED <<ret, errors>>
        \/ /\ Fail("eio")
           /\ stream' \in {stream, From(stream, rest + 1)}
           /\ UNCHANGED <<slots, num>>)
  BY DEF ReadOverhang
<1> HIDE DEF rest, n, len, p
<1>12. CASE /\ slots' = [slots EXCEPT ![num + 1] = @ \o SubSeq(stream, 1, rest)]
            /\ stream' = From(stream, rest + 1)
            /\ num' = num + 1 /\ buf' = <<>> /\ pc' = "parse"
            /\ UNCHANGED <<ret, errors>>
  <2> DEFINE ws == slots[num + 1] \o SubSeq(stream, 1, rest)
  <2>1. /\ ws \in Seq(Word) /\ Len(ws) = n + rest
        /\ \A k \in 1 .. n + rest :
             ws[k] = IF k <= n THEN slots[num + 1][k] ELSE SubSeq(stream, 1, rest)[k - n]
    BY <1>5, <1>6, ConcatProperties
  <2>2. slots' = [slots EXCEPT ![num + 1] = ws]  BY <1>12
  <2> HIDE DEF ws
  <2>3. /\ slots' \in [1 .. RxMax -> Seq(Word)] /\ slots'[num + 1] = ws
        /\ \A i \in 1 .. num : slots'[i] = slots[i]
    BY <1>7, <2>1, <2>2
  <2>4. ASSUME NEW k \in 1 .. len  PROVE  ws[k] = <<p, k>>
    <3>1. k \in 1 .. n + rest  BY <1>4
    <3>2. Place(buf, stream, k + 1) = <<p, k>>  BY <1>3
    <3>3. CASE k <= n
      <4>1. k \in 1 .. n  BY <1>4, <3>3
      <4> QED  BY <1>5, <2>1, <3>1, <3>2, <3>3, <4>1
    <3>4. CASE ~(k <= n)
      <4>1. k - n \in 1 .. rest /\ ~(k + 1 <= Len(buf)) /\ k + 1 - Len(buf) = k - n
        <5>1. k \in Nat /\ n \in Nat /\ rest \in Nat /\ k <= n + rest  BY <1>4, <3>1
        <5>2. Len(buf) = n + 1  BY <1>4
        <5>3. k - n \in 1 .. rest  BY <3>4, <5>1
        <5>4. ~(k + 1 <= Len(buf))  BY <3>4, <5>1, <5>2
        <5>5. k + 1 - Len(buf) = k - n  BY <5>1, <5>2
        <5> QED  BY <5>3, <5>4, <5>5
      <4>2. Place(buf, stream, k + 1) = stream[k + 1 - Len(buf)]  BY <4>1 DEF Place
      <4>3. ws[k] = SubSeq(stream, 1, rest)[k - n]  BY <2>1, <3>1, <3>4
      <4> QED  BY <1>6, <3>2, <4>1, <4>2, <4>3
    <3> QED  BY <3>3, <3>4
  <2>5. ws = Whole(p)
    <3>1. /\ Whole(p) \in Seq(Word) /\ Len(Whole(p)) = len
          /\ \A k \in 1 .. len : Whole(p)[k] = <<p, k>>
      BY <1>3, WholeProperties DEF IInv, len
    <3>2. Len(ws) = len /\ \A k \in 1 .. Len(ws) : ws[k] = Whole(p)[k]
      BY <1>4, <2>1, <2>4, <3>1
    <3> QED  BY <2>1, <3>1, <3>2, SeqEqual
  <2>6. Contiguous(buf, stream)' /\ stream' \in Seq(Word)
    BY <1>4, <1>8, <1>12, DropContiguous DEF IInv
  <2>7. TypeOK'
    <3>1. buf' \in Seq(Word) /\ Len(buf') <= Window
      BY <1>12, EmptySeq, YapsHwAssumption
    <3>2. num' \in 0 .. RxMax  BY <1>7, <1>12, YapsHwAssumption
    <3> QED  BY <1>8, <1>12, <2>3, <2>6, <3>1, <3>2 DEF IInv, TypeOK
  <2>8. Buffered'  BY <1>12 DEF Buffered
  <2>9. AllWhole(slots, num)'
    <3> SUFFICES ASSUME NEW i \in 1 .. num + 1
                 PROVE  \E q \in 1 .. Len(lens) : slots'[i] = Whole(q)
      BY <1>8, <1>10, <1>12 DEF AllWhole
    <3>1. CASE i = num + 1  BY <1>3, <2>3, <2>5, <3>1
    <3>2. CASE i # num + 1
      <4>1. i \in 1 .. num  BY <1>7, <3>2
      <4> QED  BY <2>3, <4>1 DEF IInv, AllWhole
    <3> QED  BY <3>1, <3>2
  <2> QED  BY <1>9, <2>6, <2>7, <2>8, <2>9 DEF IInv
<1>13. CASE /\ Fail("eio")
            /\ stream' \in {stream, From(stream, rest + 1)}
            /\ UNCHANGED <<slots, num>>
  <2>1. buf' = <<>> /\ Len(buf') = 0 /\ pc' = "end" /\ ret' = "eio" /\ errors' \in 0 .. MaxErrors
        /\ <<>> \in Seq(Word)
    BY <1>13, EmptySeq, YapsHwAssumption DEF Fail, IInv, TypeOK
  <2>2. Contiguous(buf, stream)' /\ stream' \in Seq(Word)
    <3>1. CASE stream' = stream  BY <1>8, <2>1, <3>1, DropBuffer DEF IInv, TypeOK
    <3>2. CASE stream' = From(stream, rest + 1)
      BY <1>4, <1>8, <2>1, <3>2, DropContiguous DEF IInv
    <3> QED  BY <1>13, <3>1, <3>2
  <2>3. TypeOK'  BY <1>8, <1>13, <2>1, <2>2, YapsHwAssumption DEF IInv, TypeOK
  <2>4. Buffered'  BY <2>1 DEF Buffered
  <2>5. AllWhole(slots, num)'  BY <1>8, <1>10, <1>13 DEF IInv, AllWhole
  <2> QED  BY <1>9, <2>2, <2>3, <2>4, <2>5 DEF IInv
<1> QED  BY <1>11, <1>12, <1>13

LEMMA SplittedInv == IInv /\ Splitted => IInv'
<1> SUFFICES ASSUME IInv, Splitted  PROVE IInv'
  OBVIOUS
<1>1. /\ lens' = lens /\ stream' = stream /\ slots' = slots /\ num' = num /\ got' = got
      /\ pend' = pend /\ bytes' = bytes /\ again' = again /\ leaked' = leaked
      /\ errors' = errors /\ buf' = <<>> /\ pc' = "end" /\ ret' \in {"ok", "again"}
  BY DEF Splitted, chip
<1>2. <<>> \in Seq(Word) /\ Len(buf') = 0  BY <1>1, EmptySeq
<1>3. TypeOK'  BY <1>1, <1>2, YapsHwAssumption DEF IInv, TypeOK
<1>4. Contiguous(buf, stream)'  BY <1>1, DropBuffer DEF IInv
<1>5. Buffered'  BY <1>1 DEF Buffered
<1>6. AllWhole(slots, num)' /\ AllWhole(got, Len(got))'
  BY <1>1 DEF IInv, AllWhole, Whole
<1> QED  BY <1>3, <1>4, <1>5, <1>6 DEF IInv

LEMMA EndInv == IInv /\ End => IInv'
<1> SUFFICES ASSUME IInv, End  PROVE IInv'
  OBVIOUS
<1>1. /\ lens' = lens /\ stream' = stream /\ buf' = buf /\ leaked' = leaked /\ errors' = errors
      /\ pc' = "idle" /\ ret' = "ok" /\ num' = 0 /\ bytes' = 0 /\ again' = FALSE
      /\ pend' = (pend \/ ret \in {"again", "nomem"}) /\ pc = "end"
  BY DEF End, chip
<1>2. /\ Len(got) \in Nat /\ got \in Seq(Seq(Word)) /\ num \in Nat /\ num <= RxMax
      /\ slots \in [1 .. RxMax -> Seq(Word)] /\ <<>> \in Seq(Word)
  BY LenProperties, EmptySeq, YapsHwAssumption DEF IInv, TypeOK
<1>3. \A q \in 1 .. Len(lens) : Whole(q)' = Whole(q)  BY <1>1 DEF Whole
<1>4. /\ slots' \in [1 .. RxMax -> Seq(Word)] /\ got' \in Seq(Seq(Word))
      /\ AllWhole(got, Len(got))'
  <2>1. CASE ~(ret \in {"ok", "again"})
    <3>1. got' = got /\ slots' = slots  BY <2>1 DEF End
    <3> QED  BY <1>1, <1>2, <1>3, <3>1 DEF IInv, AllWhole
  <2>2. CASE ret \in {"ok", "again"}
    <3>1. /\ got' = got \o SubSeq(slots, 1, num)
          /\ slots' = [i \in 1 .. RxMax |-> IF i <= num THEN <<>> ELSE slots[i]]
      BY <2>2 DEF End
    <3>2. \A i \in 1 .. num : slots[i] \in Seq(Word)
      <4>1. \A i \in 1 .. num : i \in 1 .. RxMax  BY <1>2, YapsReadAssumption
      <4> QED  BY <1>2, <4>1
    <3>3. /\ SubSeq(slots, 1, num) \in Seq(Seq(Word))
          /\ Len(SubSeq(slots, 1, num)) = IF 1 <= num THEN num - 1 + 1 ELSE 0
          /\ \A i \in 1 .. num - 1 + 1 : SubSeq(slots, 1, num)[i] = slots[1 + i - 1]
      BY <1>2, <3>2, SubSeqProperties
    <3>4. Len(SubSeq(slots, 1, num)) = num
      <4>1. num - 1 + 1 = num /\ (1 <= num \/ num = 0)  BY <1>2
      <4> QED  BY <3>3, <4>1
    <3>5. \A i \in 1 .. num : SubSeq(slots, 1, num)[i] = slots[i]
      <4>1. num - 1 + 1 = num /\ \A i \in 1 .. num : 1 + i - 1 = i  BY <1>2
      <4> QED  BY <3>3, <4>1
    <3>6. /\ got' \in Seq(Seq(Word)) /\ Len(got') = Len(got) + num
          /\ \A i \in 1 .. Len(got) + num :
               got'[i] = IF i <= Len(got) THEN got[i] ELSE SubSeq(slots, 1, num)[i - Len(got)]
      BY <1>2, <3>1, <3>3, <3>4, ConcatProperties
    <3>7. ASSUME NEW i \in 1 .. Len(got')
          PROVE  \E q \in 1 .. Len(lens) : got'[i] = Whole(q)
      <4>1. CASE i <= Len(got)
        <5>1. i \in 1 .. Len(got) /\ got'[i] = got[i]  BY <1>2, <3>6, <4>1
        <5> QED  BY <5>1 DEF IInv, AllWhole
      <4>2. CASE ~(i <= Len(got))
        <5>0. i \in 1 .. Len(got) + num  BY <3>6
        <5>1. i - Len(got) \in 1 .. num /\ got'[i] = SubSeq(slots, 1, num)[i - Len(got)]
          <6>1. i - Len(got) \in 1 .. num  BY <1>2, <4>2, <5>0
          <6> QED  BY <3>6, <4>2, <5>0, <6>1
        <5>2. got'[i] = slots[i - Len(got)]  BY <3>5, <5>1
        <5> QED  BY <5>1, <5>2 DEF IInv, AllWhole
      <4> QED  BY <4>1, <4>2
    <3>8. slots' \in [1 .. RxMax -> Seq(Word)]  BY <1>2, <3>1
    <3>9. AllWhole(got, Len(got))'  BY <1>1, <1>3, <3>7 DEF AllWhole
    <3> QED  BY <3>6, <3>8, <3>9
  <2> QED  BY <2>1, <2>2
<1>5. TypeOK'
  <2>1. pend' \in BOOLEAN /\ num' \in 0 .. RxMax /\ bytes' \in 0 .. Window
    BY <1>1, YapsReadAssumption, YapsHwAssumption DEF IInv, TypeOK
  <2> QED  BY <1>1, <1>4, <2>1 DEF IInv, TypeOK
<1>6. Contiguous(buf, stream)'  BY <1>1, SameContiguous DEF IInv
<1>7. Buffered'  BY <1>1 DEF IInv, Buffered
<1>8. AllWhole(slots, num)'  BY <1>1 DEF AllWhole
<1> QED  BY <1>4, <1>5, <1>6, <1>7, <1>8 DEF IInv

LEMMA StepInv == IInv /\ [Next]_vars => IInv'
<1> SUFFICES ASSUME IInv, [Next]_vars  PROVE IInv'
  OBVIOUS
<1>1. CASE Next
  BY <1>1, SendInv, UpdateStatusInv, ReadWindowInv, SplitInv, ReadOverhangInv,
     SplittedInv, EndInv DEF Next
<1>2. CASE UNCHANGED vars
  <2>1. /\ lens' = lens /\ stream' = stream /\ pend' = pend /\ pc' = pc /\ bytes' = bytes
        /\ again' = again /\ buf' = buf /\ slots' = slots /\ num' = num /\ leaked' = leaked
        /\ ret' = ret /\ got' = got /\ errors' = errors
    BY <1>2 DEF vars, chip, parsed
  <2>2. TypeOK'  BY <2>1 DEF IInv, TypeOK
  <2>3. Contiguous(buf, stream)'  BY <2>1, SameContiguous DEF IInv
  <2>4. Buffered'  BY <2>1 DEF IInv, Buffered
  <2>5. AllWhole(slots, num)' /\ AllWhole(got, Len(got))'
    BY <2>1 DEF IInv, AllWhole, Whole
  <2> QED  BY <2>2, <2>3, <2>4, <2>5 DEF IInv
<1> QED  BY <1>1, <1>2

-----------------------------------------------------------------------------
\* The buffer never overflows its window, the array never its size, and every
\* index used is inside: the types of the state of morse_yaps_hw_read_pkts().
THEOREM TypeCorrect == Spec => []TypeOK
<1>1. IInv => TypeOK  BY DEF IInv
<1> QED  BY <1>1, InitInv, StepInv, PTL DEF Spec

\* morse_yaps_hw_read_pkts() never hands up a packet with words of another or
\* without all of its own, whatever fails and wherever windows end.
THEOREM Ungarbled == Spec => []NotGarbled
<1>1. IInv => NotGarbled
  <2> SUFFICES ASSUME IInv, NEW i \in DOMAIN got
               PROVE  got[i] # <<>> /\ got[i] = Whole(got[i][1][1])
    BY DEF NotGarbled
  <2>1. i \in 1 .. Len(got)  BY LenProperties DEF IInv, TypeOK
  <2>2. PICK p \in 1 .. Len(lens) : got[i] = Whole(p)  BY <2>1 DEF IInv, AllWhole
  <2>3. /\ lens[p] \in Nat \ {0} /\ Len(Whole(p)) = lens[p]
        /\ \A k \in 1 .. lens[p] : Whole(p)[k] = <<p, k>>
    BY <2>2, WholeProperties DEF IInv
  <2>4. 1 \in 1 .. lens[p]  BY <2>3
  <2>5. got[i][1] = <<p, 1>> /\ got[i][1][1] = p  BY <2>2, <2>3, <2>4
  <2>6. got[i] # <<>>  BY <2>2, <2>3, EmptySeq
  <2> QED  BY <2>2, <2>5, <2>6
<1> QED  BY <1>1, InitInv, StepInv, PTL DEF Spec

-----------------------------------------------------------------------------
(* Sets of packets in the order they were sent in.                          *)

\* What the places of such a sequence hold.
Elements == {Element(T) : T \in SUBSET (1 .. MaxPkts)}

\* The packets of S up to p.
UpTo(S, p) == {r \in S : r <= p}

LEMMA PacketsFinite ==
  ASSUME NEW S \in SUBSET (1 .. MaxPkts)
  PROVE  IsFiniteSet(S) /\ Cardinality(S) \in Nat
<1>1. MaxPkts \in Nat /\ 1 \in Int /\ MaxPkts \in Int  BY YapsHwAssumption
<1>2. IsFiniteSet(1 .. MaxPkts)  BY <1>1, FS_Interval
<1> QED  BY <1>2, FS_Subset, FS_CardinalityType

LEMMA InOrderProperties ==
  ASSUME NEW S \in SUBSET (1 .. MaxPkts)
  PROVE  /\ InOrder(S) \in Seq(Elements)
         /\ Len(InOrder(S)) = Cardinality(S)
         /\ \A i \in 1 .. Cardinality(S) : InOrder(S)[i] = Element(AtRank(S, i))
<1>1. Cardinality(S) \in Nat  BY PacketsFinite
<1>2. \A i \in 1 .. Cardinality(S) : Element(AtRank(S, i)) \in Elements
  BY DEF Elements, AtRank
<1>3. InOrder(S) \in [1 .. Cardinality(S) -> Elements]  BY <1>2 DEF InOrder
<1>4. InOrder(S) \in Seq(Elements)  BY <1>1, <1>3, SeqDef
<1>5. Len(InOrder(S)) = Cardinality(S)  BY <1>1, <1>3, <1>4, LenProperties
<1> QED  BY <1>4, <1>5 DEF InOrder

\* Packets are elements themselves.
LEMMA PacketElements == 1 .. MaxPkts \subseteq Elements
<1> SUFFICES ASSUME NEW p \in 1 .. MaxPkts  PROVE p \in Elements
  OBVIOUS
<1>1. {p} \in SUBSET (1 .. MaxPkts)  OBVIOUS
<1>2. Element({p}) = p  BY DEF Element
<1> QED  BY <1>1, <1>2 DEF Elements

LEMMA InOrderNone == InOrder({}) = <<>>
<1>1. {} \in SUBSET (1 .. MaxPkts)  OBVIOUS
<1>2. InOrder({}) \in Seq(Elements) /\ Len(InOrder({})) = 0
  BY <1>1, InOrderProperties, FS_EmptySet
<1> QED  BY <1>2, EmptySeq

LEMMA InOrderOne ==
  ASSUME NEW p \in 1 .. MaxPkts
  PROVE  InOrder({p}) = <<p>>
<1>1. p <= p  OBVIOUS
<1>2. {r \in {p} : r <= p} = {p}  BY <1>1
<1>3. Cardinality({p}) = 1  BY FS_Singleton
<1>4. AtRank({p}, 1) = {p}  BY <1>2, <1>3 DEF AtRank
<1>5. Element(AtRank({p}, 1)) = p  BY <1>4 DEF Element
<1>6. InOrder({p}) = [i \in 1 .. 1 |-> Element(AtRank({p}, i))]  BY <1>3 DEF InOrder
<1>7. {p} \in SUBSET (1 .. MaxPkts)  OBVIOUS
<1>8. /\ InOrder({p}) \in Seq(Elements) /\ Len(InOrder({p})) = 1
      /\ \A i \in 1 .. 1 : InOrder({p})[i] = Element(AtRank({p}, i))
  BY <1>3, <1>7, InOrderProperties
<1>9. InOrder({p})[1] = p  BY <1>5, <1>8
<1>10. p \in Elements  BY PacketElements
<1>11. <<p>> \in Seq(Elements) /\ Len(<<p>>) = 1 /\ <<p>>[1] = p  BY <1>10
<1>12. \A i \in 1 .. Len(<<p>>) : InOrder({p})[i] = <<p>>[i]  BY <1>9, <1>11
<1> QED  BY <1>8, <1>11, <1>12, SeqEqual

\* All of A is before all of B: so it is in order.
LEMMA InOrderUnion ==
  ASSUME NEW A \in SUBSET (1 .. MaxPkts), NEW B \in SUBSET (1 .. MaxPkts),
         \A a \in A, b \in B : a < b
  PROVE  /\ InOrder(A \cup B) = InOrder(A) \o InOrder(B)
         /\ Cardinality(A \cup B) = Cardinality(A) + Cardinality(B)
<1> DEFINE n == Cardinality(A)  m == Cardinality(B)
<1>1. /\ IsFiniteSet(A) /\ IsFiniteSet(B) /\ n \in Nat /\ m \in Nat
      /\ A \cup B \in SUBSET (1 .. MaxPkts)
  BY PacketsFinite
<1>2. A \cap B = {}
  <2>1. \A a \in A : a \notin B /\ a \in Int  OBVIOUS
  <2> QED  BY <2>1
<1>3. Cardinality(A \cup B) = n + m
  <2>1. Cardinality(A \cup B) = Cardinality(A) + Cardinality(B) - Cardinality(A \cap B)
    BY <1>1, FS_Union
  <2>2. Cardinality(A \cap B) = 0  BY <1>2, FS_EmptySet
  <2> QED  BY <1>1, <2>1, <2>2
<1>4. \A S \in SUBSET (1 .. MaxPkts) : \A p \in S :
        /\ UpTo(S, p) \in SUBSET S /\ p \in UpTo(S, p)
        /\ IsFiniteSet(UpTo(S, p))
        /\ Cardinality(UpTo(S, p)) \in 1 .. Cardinality(S)
  <2> TAKE S \in SUBSET (1 .. MaxPkts)
  <2> TAKE p \in S
  <2>1. UpTo(S, p) \in SUBSET S  BY DEF UpTo
  <2>2. p <= p  OBVIOUS
  <2>3. p \in UpTo(S, p)  BY <2>2 DEF UpTo
  <2>4. IsFiniteSet(S) /\ Cardinality(S) \in Nat  BY PacketsFinite
  <2>5. /\ IsFiniteSet(UpTo(S, p)) /\ Cardinality(UpTo(S, p)) \in Nat
        /\ Cardinality(UpTo(S, p)) <= Cardinality(S)
    BY <2>1, <2>4, FS_Subset, FS_CardinalityType
  <2>6. Cardinality(UpTo(S, p)) # 0  BY <2>3, <2>5, FS_EmptySet
  <2> QED  BY <2>1, <2>3, <2>4, <2>5, <2>6
<1>5. \A p \in A : UpTo(A \cup B, p) = UpTo(A, p)
  <2> TAKE p \in A
  <2>1. \A b \in B : ~(b <= p)
    <3> TAKE b \in B
    <3>1. p < b /\ p \in Int /\ b \in Int  OBVIOUS
    <3> QED  BY <3>1
  <2> QED  BY <2>1 DEF UpTo
<1>6. \A p \in B : Cardinality(UpTo(A \cup B, p)) = n + Cardinality(UpTo(B, p))
  <2> TAKE p \in B
  <2>1. \A a \in A : a <= p
    <3> TAKE a \in A
    <3>1. a < p /\ p \in Int /\ a \in Int  OBVIOUS
    <3> QED  BY <3>1
  <2>2. UpTo(A \cup B, p) = A \cup UpTo(B, p)  BY <2>1 DEF UpTo
  <2>3. A \cap UpTo(B, p) = {}  BY <1>2 DEF UpTo
  <2>4. IsFiniteSet(UpTo(B, p)) /\ Cardinality(UpTo(B, p)) \in Nat  BY <1>4
  <2>5. Cardinality(A \cup UpTo(B, p))
          = Cardinality(A) + Cardinality(UpTo(B, p)) - Cardinality(A \cap UpTo(B, p))
    BY <1>1, <2>4, FS_Union
  <2>6. Cardinality(A \cap UpTo(B, p)) = 0  BY <2>3, FS_EmptySet
  <2>7. Cardinality(A \cup UpTo(B, p)) = n + Cardinality(UpTo(B, p))
    <3> HIDE DEF n
    <3>1. Cardinality(A \cup UpTo(B, p)) = n + Cardinality(UpTo(B, p)) - 0
      BY <2>5, <2>6 DEF n
    <3> QED  BY <1>1, <2>4, <3>1
  <2> QED  BY <2>2, <2>7
<1>7. \A S, i : AtRank(S, i) = {p \in S : Cardinality(UpTo(S, p)) = i}
  BY DEF AtRank, UpTo
<1>8. ASSUME NEW i \in 1 .. n  PROVE AtRank(A \cup B, i) = AtRank(A, i)
  <2>1. \A p \in B : Cardinality(UpTo(A \cup B, p)) # i
    <3> TAKE p \in B
    <3>1. Cardinality(UpTo(B, p)) \in 1 .. m  BY <1>4
    <3>2. Cardinality(UpTo(A \cup B, p)) = n + Cardinality(UpTo(B, p))  BY <1>6
    <3> HIDE DEF n, m
    <3> QED  BY <1>1, <3>1, <3>2
  <2> QED  BY <1>5, <1>7, <2>1
<1>9. ASSUME NEW i \in n + 1 .. n + m  PROVE AtRank(A \cup B, i) = AtRank(B, i - n)
  <2>1. \A p \in A : Cardinality(UpTo(A \cup B, p)) # i
    <3> TAKE p \in A
    <3>1. Cardinality(UpTo(A, p)) \in 1 .. n  BY <1>4
    <3>2. UpTo(A \cup B, p) = UpTo(A, p)  BY <1>5
    <3> HIDE DEF n, m
    <3> QED  BY <1>1, <3>1, <3>2
  <2>2. \A p \in B : Cardinality(UpTo(A \cup B, p)) = i <=> Cardinality(UpTo(B, p)) = i - n
    <3> TAKE p \in B
    <3>1. Cardinality(UpTo(B, p)) \in 1 .. m  BY <1>4
    <3>2. Cardinality(UpTo(A \cup B, p)) = n + Cardinality(UpTo(B, p))  BY <1>6
    <3> HIDE DEF n, m
    <3> QED  BY <1>1, <3>1, <3>2
  <2> QED  BY <1>7, <2>1, <2>2
<1>10. /\ InOrder(A) \in Seq(Elements) /\ Len(InOrder(A)) = n
       /\ \A i \in 1 .. n : InOrder(A)[i] = Element(AtRank(A, i))
       /\ InOrder(B) \in Seq(Elements) /\ Len(InOrder(B)) = m
       /\ \A i \in 1 .. m : InOrder(B)[i] = Element(AtRank(B, i))
  BY InOrderProperties
<1>11. /\ InOrder(A \cup B) \in Seq(Elements) /\ Len(InOrder(A \cup B)) = n + m
       /\ \A i \in 1 .. n + m : InOrder(A \cup B)[i] = Element(AtRank(A \cup B, i))
  BY <1>1, <1>3, InOrderProperties
<1> HIDE DEF n, m
<1>12. /\ InOrder(A) \o InOrder(B) \in Seq(Elements)
       /\ Len(InOrder(A) \o InOrder(B)) = n + m
       /\ \A i \in 1 .. n + m :
            (InOrder(A) \o InOrder(B))[i]
              = IF i <= n THEN InOrder(A)[i] ELSE InOrder(B)[i - n]
  BY <1>10, ConcatProperties
<1>13. ASSUME NEW i \in 1 .. n + m
       PROVE  InOrder(A \cup B)[i] = (InOrder(A) \o InOrder(B))[i]
  <2>1. CASE i <= n
    <3>1. i \in 1 .. n  BY <1>1, <2>1
    <3> QED  BY <1>8, <1>10, <1>11, <1>12, <2>1, <3>1
  <2>2. CASE ~(i <= n)
    <3>1. i \in n + 1 .. n + m /\ i - n \in 1 .. m  BY <1>1, <2>2
    <3>2. InOrder(A \cup B)[i] = Element(AtRank(B, i - n))  BY <1>9, <1>11, <3>1
    <3>3. InOrder(B)[i - n] = Element(AtRank(B, i - n))  BY <1>10, <3>1
    <3> QED  BY <1>12, <2>2, <3>2, <3>3
  <2> QED  BY <2>1, <2>2
<1>14. InOrder(A \cup B) = InOrder(A) \o InOrder(B)
  BY <1>11, <1>12, <1>13, SeqEqual
<1> QED  BY <1>3, <1>14 DEF n, m

-----------------------------------------------------------------------------
(* The packets whose delimiters are in a stretch of the stream.             *)

\* Packets come one after the other: a delimiter is of a later packet than every
\* word before it.
Rising(s) ==
  \A i \in 1 .. Len(s) : \A j \in 1 .. Len(s) :
    i < j /\ s[j][2] = 0 => s[i][1] < s[j][1]

LEMMA StartsProperties ==
  ASSUME NEW s \in Seq(Word)
  PROVE  /\ \A p : p \in Starts(s) <=> \E i \in 1 .. Len(s) : s[i][1] = p /\ s[i][2] = 0
         /\ Starts(s) \in SUBSET (1 .. MaxPkts)
<1>1. Range(s) = {s[i] : i \in 1 .. Len(s)}  BY RangeEquality
<1>2. \A p : p \in Starts(s) <=> \E i \in 1 .. Len(s) : s[i][1] = p /\ s[i][2] = 0
  BY <1>1 DEF Starts
<1>3. \A i \in 1 .. Len(s) : s[i] \in Word  BY ElementOfSeq
<1>4. \A i \in 1 .. Len(s) : s[i][1] \in 1 .. MaxPkts  BY <1>3 DEF Word
<1> QED  BY <1>2, <1>4

\* No delimiter, no packet.
LEMMA NoStarts ==
  ASSUME NEW s \in Seq(Word), \A i \in 1 .. Len(s) : s[i][2] # 0
  PROVE  Starts(s) = {}
BY StartsProperties

\* A delimiter and words of packets behind it.
LEMMA OneStart ==
  ASSUME NEW s \in Seq(Word), Len(s) >= 1, s[1][2] = 0,
         \A i \in 2 .. Len(s) : s[i][2] # 0
  PROVE  Starts(s) = {s[1][1]}
<1>1. Len(s) \in Nat /\ 1 \in 1 .. Len(s)  BY LenProperties
<1>2. \A i \in 1 .. Len(s) : i = 1 \/ i \in 2 .. Len(s)  BY <1>1
<1>3. \A p : p \in Starts(s) <=> \E i \in 1 .. Len(s) : s[i][1] = p /\ s[i][2] = 0
  BY StartsProperties
<1>4. \A p : p \in Starts(s) <=> p = s[1][1]  BY <1>1, <1>2, <1>3
<1> QED  BY <1>4

\* A stretch in two.
LEMMA StartsCut ==
  ASSUME NEW s \in Seq(Word), NEW n \in Nat, n <= Len(s), Rising(s)
  PROVE  LET a == SubSeq(s, 1, n)
             b == From(s, n + 1)
         IN  /\ Rising(a) /\ Rising(b)
             /\ Starts(s) = Starts(a) \cup Starts(b)
             /\ \A p \in Starts(a), q \in Starts(b) : p < q
             /\ InOrder(Starts(s)) = InOrder(Starts(a)) \o InOrder(Starts(b))
             /\ Cardinality(Starts(s)) = Cardinality(Starts(a)) + Cardinality(Starts(b))
<1> DEFINE a == SubSeq(s, 1, n)
           b == From(s, n + 1)
<1>1. /\ a \in Seq(Word) /\ Len(a) = n
      /\ \A i \in 1 .. n : a[i] = s[i]
      /\ b \in Seq(Word) /\ Len(b) = Len(s) - n
      /\ \A i \in 1 .. Len(s) - n : b[i] = s[n + i]
      /\ Len(s) \in Nat
  BY CutProperties, LenProperties
<1> HIDE DEF a, b
<1>2. \A i \in 1 .. n : i \in 1 .. Len(s)  BY <1>1
<1>3. \A i \in 1 .. Len(s) - n : n + i \in 1 .. Len(s)  BY <1>1
<1>4. Rising(a)  BY <1>1, <1>2 DEF Rising
<1>5. Rising(b)
  <2> SUFFICES ASSUME NEW i \in 1 .. Len(b), NEW j \in 1 .. Len(b), i < j, b[j][2] = 0
               PROVE  b[i][1] < b[j][1]
    BY DEF Rising
  <2>1. /\ n + i \in 1 .. Len(s) /\ n + j \in 1 .. Len(s) /\ n + i < n + j
        /\ b[i] = s[n + i] /\ b[j] = s[n + j]
    BY <1>1, <1>3
  <2> QED  BY <2>1 DEF Rising
<1>6. /\ \A p : p \in Starts(s) <=> \E i \in 1 .. Len(s) : s[i][1] = p /\ s[i][2] = 0
      /\ \A p : p \in Starts(a) <=> \E i \in 1 .. n : s[i][1] = p /\ s[i][2] = 0
      /\ \A p : p \in Starts(b) <=> \E i \in 1 .. Len(s) - n : s[n + i][1] = p /\ s[n + i][2] = 0
      /\ Starts(a) \in SUBSET (1 .. MaxPkts) /\ Starts(b) \in SUBSET (1 .. MaxPkts)
  <2>1. \A p : p \in Starts(a) <=> \E i \in 1 .. Len(a) : a[i][1] = p /\ a[i][2] = 0
    BY <1>1, StartsProperties
  <2>2. \A p : p \in Starts(b) <=> \E i \in 1 .. Len(b) : b[i][1] = p /\ b[i][2] = 0
    BY <1>1, StartsProperties
  <2>3. \A p : p \in Starts(a) <=> \E i \in 1 .. n : s[i][1] = p /\ s[i][2] = 0
    <3>1. Len(a) = n /\ \A i \in 1 .. n : a[i] = s[i]  BY <1>1
    <3> QED  BY ONLY <2>1, <3>1
  <2>4. \A p : p \in Starts(b) <=> \E i \in 1 .. Len(s) - n : s[n + i][1] = p /\ s[n + i][2] = 0
    <3>1. \A i \in 1 .. Len(b) : b[i] = s[n + i]  BY <1>1
    <3>2. Len(b) = Len(s) - n  BY <1>1
    <3>3. ASSUME NEW p, p \in Starts(b)
          PROVE  \E i \in 1 .. Len(s) - n : s[n + i][1] = p /\ s[n + i][2] = 0
      <4>1. PICK i \in 1 .. Len(b) : b[i][1] = p /\ b[i][2] = 0  BY <2>2, <3>3
      <4>2. s[n + i][1] = p /\ s[n + i][2] = 0  BY <3>1, <4>1
      <4> QED  BY <3>2, <4>2
    <3>4. ASSUME NEW p, NEW i \in 1 .. Len(s) - n, s[n + i][1] = p, s[n + i][2] = 0
          PROVE  p \in Starts(b)
      <4>1. i \in 1 .. Len(b) /\ b[i][1] = p /\ b[i][2] = 0  BY <3>1, <3>2, <3>4
      <4> QED  BY <2>2, <4>1
    <3> QED  BY <3>3, <3>4
  <2>5. Starts(a) \in SUBSET (1 .. MaxPkts) /\ Starts(b) \in SUBSET (1 .. MaxPkts)
    BY <1>1, StartsProperties
  <2>6. \A p : p \in Starts(s) <=> \E i \in 1 .. Len(s) : s[i][1] = p /\ s[i][2] = 0
    BY StartsProperties
  <2> QED  BY <2>3, <2>4, <2>5, <2>6
<1>7. Starts(s) = Starts(a) \cup Starts(b)
  <2>1. ASSUME NEW p \in Starts(s)  PROVE p \in Starts(a) \/ p \in Starts(b)
    <3>1. PICK i \in 1 .. Len(s) : s[i][1] = p /\ s[i][2] = 0  BY <1>6
    <3>2. CASE i <= n
      <4>1. i \in 1 .. n  BY <1>1, <3>2
      <4> QED  BY <1>6, <3>1, <4>1
    <3>3. CASE ~(i <= n)
      <4>1. i - n \in 1 .. Len(s) - n /\ n + (i - n) = i  BY <1>1, <3>3
      <4>2. s[n + (i - n)][1] = p /\ s[n + (i - n)][2] = 0  BY <3>1, <4>1
      <4> HIDE DEF b
      <4>3. p \in Starts(b)  BY <1>6, <4>1, <4>2
      <4> QED  BY <4>3
    <3> QED  BY <3>2, <3>3
  <2>2. Starts(a) \subseteq Starts(s)  BY <1>2, <1>6
  <2>3. Starts(b) \subseteq Starts(s)  BY <1>3, <1>6
  <2> QED  BY <2>1, <2>2, <2>3
<1>8. ASSUME NEW p \in Starts(a), NEW q \in Starts(b)  PROVE p < q
  <2>1. PICK i \in 1 .. n : s[i][1] = p /\ s[i][2] = 0  BY <1>6
  <2>2. PICK j \in 1 .. Len(s) - n : s[n + j][1] = q /\ s[n + j][2] = 0  BY <1>6
  <2>3. i < n + j  BY <1>1
  <2> QED  BY <1>2, <1>3, <2>1, <2>2, <2>3 DEF Rising
<1>9. /\ InOrder(Starts(s)) = InOrder(Starts(a)) \o InOrder(Starts(b))
      /\ Cardinality(Starts(s)) = Cardinality(Starts(a)) + Cardinality(Starts(b))
  BY <1>6, <1>7, <1>8, InOrderUnion
<1> QED  BY <1>4, <1>5, <1>7, <1>8, <1>9 DEF a, b

\* Losing the middle of three sequences.
LEMMA LoseMiddle ==
  ASSUME NEW S, NEW x \in Seq(S), NEW y \in Seq(S), NEW z \in Seq(S)
  PROVE  LET w == (x \o y) \o z IN
         /\ w \in Seq(S) /\ Len(w) = Len(x) + Len(y) + Len(z)
         /\ SubSeq(w, 1, Len(x)) = x
         /\ SubSeq(w, Len(x) + Len(y) + 1, Len(w)) = z
<1> DEFINE v == x \o y
           w == v \o z
           m == Len(x) + Len(y)
<1>1. Len(x) \in Nat /\ Len(y) \in Nat /\ Len(z) \in Nat  BY LenProperties
<1>2. /\ v \in Seq(S) /\ Len(v) = m
      /\ \A i \in 1 .. m : v[i] = IF i <= Len(x) THEN x[i] ELSE y[i - Len(x)]
  BY ConcatProperties
<1> HIDE DEF v
<1>3. /\ w \in Seq(S) /\ Len(w) = m + Len(z)
      /\ \A i \in 1 .. m + Len(z) : w[i] = IF i <= m THEN v[i] ELSE z[i - m]
  <2> HIDE DEF m
  <2> QED  BY <1>2, ConcatProperties
<1> HIDE DEF w
<1>4. SubSeq(w, 1, Len(x)) = x
  <2>1. /\ SubSeq(w, 1, Len(x)) \in Seq(S) /\ Len(SubSeq(w, 1, Len(x))) = Len(x)
        /\ \A i \in 1 .. Len(x) : SubSeq(w, 1, Len(x))[i] = w[i]
    <3>1. Len(x) <= Len(w)  BY <1>1, <1>3
    <3> QED  BY <1>1, <1>3, <3>1, CutProperties
  <2>2. ASSUME NEW i \in 1 .. Len(x)  PROVE w[i] = x[i]
    <3>1. i <= m /\ i \in 1 .. m /\ i \in 1 .. m + Len(z) /\ i <= Len(x)  BY <1>1
    <3> QED  BY <1>2, <1>3, <3>1
  <2> QED  BY <2>1, <2>2, SeqEqual
<1>5. SubSeq(w, m + 1, Len(w)) = z
  <2>1. m \in Nat /\ m <= Len(w)  BY <1>1, <1>3
  <2> HIDE DEF m
  <2>2. /\ From(w, m + 1) \in Seq(S) /\ Len(From(w, m + 1)) = Len(w) - m
        /\ \A i \in 1 .. Len(w) - m : From(w, m + 1)[i] = w[m + i]
    BY <1>3, <2>1, CutProperties
  <2>3. Len(w) - m = Len(z)  BY <1>1, <1>3, <2>1
  <2>4. ASSUME NEW i \in 1 .. Len(z)  PROVE w[m + i] = z[i]
    <3>1. ~(m + i <= m) /\ (m + i) - m = i /\ m + i \in 1 .. m + Len(z)  BY <1>1, <2>1
    <3> QED  BY <1>3, <3>1
  <2>5. From(w, m + 1) = z  BY <2>2, <2>3, <2>4, SeqEqual
  <2> QED  BY <2>5 DEF From
<1>6. Len(w) = Len(x) + Len(y) + Len(z)  BY <1>1, <1>3
<1> QED  BY <1>3, <1>4, <1>5, <1>6 DEF w, v

-----------------------------------------------------------------------------
(* The state in which the stream is split: packets come in order, and those  *)
(* read in one pass fit into the array.                                     *)

InSequence ==
  /\ Rising(buf) /\ Rising(stream)
  /\ Cardinality(PacketsIn(stream)) <= ChipPkts
  /\ pc \in {"idle", "read"} => num = 0
  /\ pc \in {"parse", "overhang"} => num + Cardinality(Starts(buf)) <= ChipPkts

\* The array has room for what the chip holds (MAX_PKTS_PER_RX_TXN).
RoomInArray == ChipPkts <= RxMax

LEMMA EmptyProperties ==
  /\ <<>> \in Seq(Word) /\ Len(<<>>) = 0 /\ Rising(<<>>)
  /\ Starts(<<>>) = {} /\ InOrder(Starts(<<>>)) = <<>> /\ Cardinality(Starts(<<>>)) = 0
<1>1. <<>> \in Seq(Word) /\ Len(<<>>) = 0  BY EmptySeq
<1>2. \A s \in Seq(Word) : Len(s) = 0 => Starts(s) = {}
  <2> TAKE s \in Seq(Word)
  <2> HAVE Len(s) = 0
  <2>1. \A i \in 1 .. Len(s) : s[i][2] # 0  OBVIOUS
  <2> QED  BY <2>1, NoStarts
<1>3. Starts(<<>>) = {}  BY <1>1, <1>2
<1>4. \A s : Len(s) = 0 => Rising(s)  BY DEF Rising
<1>5. Rising(<<>>)  BY <1>1, <1>4
<1>6. Cardinality({}) = 0  BY FS_EmptySet
<1> QED  BY <1>1, <1>3, <1>5, <1>6, InOrderNone

LEMMA PacketsInProperties ==
  ASSUME NEW s \in Seq(Word)
  PROVE  /\ \A p : p \in PacketsIn(s) <=> \E i \in 1 .. Len(s) : s[i][1] = p
         /\ PacketsIn(s) \in SUBSET (1 .. MaxPkts)
         /\ Starts(s) \in SUBSET PacketsIn(s)
         /\ IsFiniteSet(PacketsIn(s)) /\ Cardinality(PacketsIn(s)) \in Nat
         /\ Cardinality(Starts(s)) \in Nat
         /\ Cardinality(Starts(s)) <= Cardinality(PacketsIn(s))
<1>1. Range(s) = {s[i] : i \in 1 .. Len(s)}  BY RangeEquality
<1>2. \A p : p \in PacketsIn(s) <=> \E i \in 1 .. Len(s) : s[i][1] = p
  BY <1>1 DEF PacketsIn
<1>3. \A i \in 1 .. Len(s) : s[i] \in Word  BY ElementOfSeq
<1>4. \A i \in 1 .. Len(s) : s[i][1] \in 1 .. MaxPkts  BY <1>3 DEF Word
<1>5. PacketsIn(s) \in SUBSET (1 .. MaxPkts)  BY <1>2, <1>4
<1>6. Starts(s) \in SUBSET PacketsIn(s)  BY <1>2, StartsProperties
<1>7. IsFiniteSet(PacketsIn(s)) /\ Cardinality(PacketsIn(s)) \in Nat  BY <1>5, PacketsFinite
<1>8. Cardinality(Starts(s)) \in Nat /\ Cardinality(Starts(s)) <= Cardinality(PacketsIn(s))
  BY <1>6, <1>7, FS_Subset, FS_CardinalityType
<1> QED  BY <1>2, <1>5, <1>6, <1>7, <1>8

\* A stretch of the stream has no more packets than the stream.
LEMMA PacketsCut ==
  ASSUME NEW s \in Seq(Word), NEW n \in Nat, n <= Len(s)
  PROVE  /\ Cardinality(PacketsIn(From(s, n + 1))) <= Cardinality(PacketsIn(s))
         /\ Cardinality(Starts(SubSeq(s, 1, n))) <= Cardinality(PacketsIn(s))
         /\ Cardinality(Starts(SubSeq(s, 1, n))) \in Nat
<1> DEFINE a == SubSeq(s, 1, n)
           b == From(s, n + 1)
<1>1. /\ a \in Seq(Word) /\ Len(a) = n
      /\ \A i \in 1 .. n : a[i] = s[i]
      /\ b \in Seq(Word) /\ Len(b) = Len(s) - n
      /\ \A i \in 1 .. Len(s) - n : b[i] = s[n + i]
      /\ Len(s) \in Nat
  BY CutProperties, LenProperties
<1> HIDE DEF a, b
<1>2. PacketsIn(a) \in SUBSET PacketsIn(s)
  <2>1. \A i \in 1 .. n : i \in 1 .. Len(s)  BY <1>1
  <2>2. \A p : p \in PacketsIn(a) => \E i \in 1 .. n : a[i][1] = p
    BY <1>1, PacketsInProperties
  <2> QED  BY <1>1, <2>1, <2>2, PacketsInProperties
<1>3. PacketsIn(b) \in SUBSET PacketsIn(s)
  <2>1. \A i \in 1 .. Len(s) - n : n + i \in 1 .. Len(s)  BY <1>1
  <2>2. \A p : p \in PacketsIn(b) => \E i \in 1 .. Len(s) - n : b[i][1] = p
    BY <1>1, PacketsInProperties
  <2>3. ASSUME NEW p \in PacketsIn(b)  PROVE p \in PacketsIn(s)
    <3>1. PICK i \in 1 .. Len(s) - n : b[i][1] = p  BY <2>2
    <3>2. s[n + i][1] = p /\ n + i \in 1 .. Len(s)  BY <1>1, <2>1, <3>1
    <3> QED  BY <3>2, PacketsInProperties
  <2> QED  BY <2>3
<1>4. IsFiniteSet(PacketsIn(s)) /\ Cardinality(PacketsIn(s)) \in Nat  BY PacketsInProperties
<1>5. /\ Cardinality(PacketsIn(a)) <= Cardinality(PacketsIn(s))
      /\ Cardinality(PacketsIn(b)) <= Cardinality(PacketsIn(s))
  BY <1>2, <1>3, <1>4, FS_Subset
<1>6. /\ Cardinality(PacketsIn(a)) \in Nat /\ Cardinality(Starts(a)) \in Nat
      /\ Cardinality(Starts(a)) <= Cardinality(PacketsIn(a))
  BY <1>1, PacketsInProperties
<1>7. Cardinality(Starts(a)) <= Cardinality(PacketsIn(s))  BY <1>4, <1>5, <1>6
<1> QED  BY <1>5, <1>6, <1>7 DEF a, b

LEMMA InitSequence == Init => InSequence
<1> SUFFICES ASSUME Init  PROVE InSequence
  OBVIOUS
<1>1. Cardinality(PacketsIn(stream)) <= ChipPkts
  <2>1. stream = <<>>  BY DEF Init
  <2>2. stream \in Seq(Word) /\ Len(stream) = 0  BY <2>1, EmptyProperties
  <2>3. \A p : p \notin PacketsIn(stream)
    <3>1. \A p : p \in PacketsIn(stream) <=> \E i \in 1 .. Len(stream) : stream[i][1] = p
      BY <2>2, PacketsInProperties
    <3> QED  BY <2>2, <3>1
  <2>4. PacketsIn(stream) = {}  BY <2>3
  <2>5. Cardinality(PacketsIn(stream)) = 0  BY <2>4, FS_EmptySet
  <2> QED  BY <2>5, YapsReadAssumption
<1> QED  BY <1>1, EmptyProperties DEF Init, InSequence

-----------------------------------------------------------------------------
(* What waits, in the order of PacketStream.                                *)

InBuffer == InOrder(Starts(buf))
InChip == InOrder(Starts(stream))
Waiting == (Received \o InBuffer) \o InChip
Broken == ret \in {"nomem", "eio"} \/ Misaligned

StreamStep == [Chip2Host!Next]_(Chip2Host!svars)

LEMMA WaitingType ==
  ASSUME TypeOK, AllWhole(slots, num)
  PROVE  /\ Received \in Seq(Elements) /\ Len(Received) = num
         /\ \A i \in 1 .. num : Received[i] = slots[i][1][1]
         /\ InBuffer \in Seq(Elements) /\ InChip \in Seq(Elements)
<1>1. num \in Nat  BY YapsHwAssumption DEF TypeOK
<1>2. \A i \in 1 .. num : slots[i][1][1] \in Elements
  <2> TAKE i \in 1 .. num
  <2>1. PICK p \in 1 .. Len(lens) : slots[i] = Whole(p)  BY DEF AllWhole
  <2>2. /\ lens[p] \in Nat \ {0} /\ p \in 1 .. MaxPkts
        /\ \A k \in 1 .. lens[p] : Whole(p)[k] = <<p, k>>
    BY <2>1, WholeProperties
  <2>3. 1 \in 1 .. lens[p]  BY <2>2
  <2>4. slots[i][1][1] = p  BY <2>1, <2>2, <2>3
  <2> QED  BY <2>2, <2>4, PacketElements
<1>3. Received \in [1 .. num -> Elements]  BY <1>2 DEF Received
<1>4. Received \in Seq(Elements)  BY <1>1, <1>3, SeqDef
<1>5. Len(Received) = num  BY <1>1, <1>3, <1>4, LenProperties
<1>6. \A i \in 1 .. num : Received[i] = slots[i][1][1]  BY DEF Received
<1>7. Starts(buf) \in SUBSET (1 .. MaxPkts) /\ Starts(stream) \in SUBSET (1 .. MaxPkts)
  BY StartsProperties DEF TypeOK
<1>8. InBuffer \in Seq(Elements) /\ InChip \in Seq(Elements)
  BY <1>7, InOrderProperties DEF InBuffer, InChip
<1> QED  BY <1>4, <1>5, <1>6, <1>8

\* A packet lost, or received into the array, from one place of the others.
LEMMA LostMiddle ==
  ASSUME NEW x \in Seq(Elements), NEW y \in Seq(Elements), NEW z \in Seq(Elements),
         Waiting = (x \o y) \o z, Waiting' = x \o z, HandedUp' = HandedUp,
         Broken \/ Broken'
  PROVE  StreamStep
<1>1. Len(x) \in Nat /\ Len(y) \in Nat /\ Len(z) \in Nat  BY LenProperties
<1>2. /\ Len(Waiting) = Len(x) + Len(y) + Len(z)
      /\ SubSeq(Waiting, 1, Len(x)) = x
      /\ SubSeq(Waiting, Len(x) + Len(y) + 1, Len(Waiting)) = z
  BY LoseMiddle
<1>3. Len(x) \in 0 .. Len(Waiting) /\ Len(y) \in 0 .. Len(Waiting) - Len(x)  BY <1>1, <1>2
<1>4. Chip2Host!Lose(Len(x), Len(y))
  BY <1>2 DEF Chip2Host!Lose, Waiting, InBuffer, InChip, Broken
<1>5. Chip2Host!Next
  BY <1>3, <1>4 DEF Chip2Host!Next, Waiting, InBuffer, InChip
<1> QED  BY <1>5 DEF StreamStep

LEMMA SameWaiting ==
  ASSUME Waiting \in Seq(Elements), Waiting' = Waiting, HandedUp' = HandedUp
  PROVE  StreamStep
<1>1. CASE Broken' = Broken
  BY <1>1 DEF StreamStep, Chip2Host!svars, Waiting, InBuffer, InChip, Broken
<1>2. CASE Broken' # Broken
  <2>1. Broken \/ Broken'  BY <1>2 DEF Broken, Misaligned
  <2>2. <<>> \in Seq(Elements)  BY EmptySeq
  <2>3. (<<>> \o <<>>) \o Waiting = Waiting /\ <<>> \o Waiting = Waiting
    BY <2>2, ConcatEmptySeq
  <2> QED  BY <2>1, <2>2, <2>3, LostMiddle
<1> QED  BY <1>1, <1>2

\* Received, in the buffer and in the chip, after a step: what is left of each.
LEMMA WaitingNext ==
  ASSUME IInv', NEW r, NEW b, NEW c, Received' = r, Starts(buf)' = b, Starts(stream)' = c
  PROVE  Waiting' = (r \o InOrder(b)) \o InOrder(c)
BY DEF Waiting, InBuffer, InChip, InOrder, Element, AtRank

\* The chip's packet is the last of those that wait.
LEMMA SendStream ==
  ASSUME IInv, InSequence, NEW len \in Lens, Send(len)
  PROVE  InSequence' /\ StreamStep
<1>1. /\ buf' = buf /\ num' = num /\ slots' = slots /\ pc' = pc /\ got' = got /\ ret' = ret
      /\ lens' = Append(lens, len) /\ stream' = stream \o Framed(Len(lens'), len)
      /\ Cardinality(PacketsIn(stream)) < ChipPkts
  BY DEF Send, parsed
<1> DEFINE P == Len(lens')
<1>2. /\ P \in 1 .. MaxPkts /\ P = Len(lens) + 1 /\ len \in Nat
      /\ stream \in Seq(Word) /\ stream' \in Seq(Word)
      /\ Len(stream) \in Nat /\ Len(stream') = Len(stream) + len + 1
      /\ \A i \in 1 .. Len(stream) : stream'[i] = stream[i]
      /\ \A k \in 1 .. len + 1 : stream'[Len(stream) + k] = <<P, k - 1>>
  BY SendWords, LenProperties DEF IInv, TypeOK
<1> HIDE DEF P
<1>3. \A i \in 1 .. Len(stream) : stream[i][1] \in 1 .. MaxPkts /\ stream[i][1] < P
  <2> TAKE i \in 1 .. Len(stream)
  <2> DEFINE n == Len(buf)
  <2>1. n \in Nat /\ Len(lens) \in Nat  BY LenProperties DEF IInv, TypeOK
  <2>2. Place(buf, stream, n + i) = stream[i] /\ n + i \in 1 .. n + Len(stream)
    <3> HIDE DEF n
    <3>1. ~(n + i <= n) /\ (n + i) - n = i  BY <2>1
    <3>2. n + i \in 1 .. n + Len(stream)  BY <1>2, <2>1
    <3> QED  BY <3>1, <3>2 DEF Place, n
  <2>3. stream[i][1] \in 1 .. Len(lens)  BY <2>2 DEF IInv, Contiguous
  <2> HIDE DEF n
  <2>4. \A q \in 1 .. Len(lens) : q \in 1 .. MaxPkts /\ q < P
    BY <1>2, <2>1, YapsHwAssumption
  <2> QED  BY <2>3, <2>4
<1>4. \A j \in 1 .. Len(stream') :
        j \in 1 .. Len(stream) \/ \E k \in 1 .. len + 1 : j = Len(stream) + k
  <2> TAKE j \in 1 .. Len(stream')
  <2>1. j \in 1 .. Len(stream) \/ j - Len(stream) \in 1 .. len + 1  BY <1>2
  <2>2. j = Len(stream) + (j - Len(stream))  BY <1>2
  <2> QED  BY <2>1, <2>2
<1>5. Rising(stream')
  <2> SUFFICES ASSUME NEW i \in 1 .. Len(stream'), NEW j \in 1 .. Len(stream'),
                      i < j, stream'[j][2] = 0
               PROVE  stream'[i][1] < stream'[j][1]
    BY DEF Rising
  <2>1. CASE j \in 1 .. Len(stream)
    <3>1. i \in 1 .. Len(stream)  BY <1>2, <2>1
    <3> QED  BY <1>2, <2>1, <3>1 DEF InSequence, Rising
  <2>2. CASE \E k \in 1 .. len + 1 : j = Len(stream) + k
    <3>1. PICK k \in 1 .. len + 1 : j = Len(stream) + k  BY <2>2
    <3>2. stream'[j] = <<P, k - 1>>  BY <1>2, <3>1
    <3>3. k = 1 /\ stream'[j][1] = P  BY <3>2
    <3>4. i \in 1 .. Len(stream)  BY <1>2, <3>1, <3>3
    <3> QED  BY <1>2, <1>3, <3>3, <3>4
  <2> QED  BY <1>4, <2>1, <2>2
<1>6. Starts(stream') = Starts(stream) \cup {P}
  <2>1. \A p : p \in Starts(stream')
             <=> \E i \in 1 .. Len(stream') : stream'[i][1] = p /\ stream'[i][2] = 0
    BY <1>2, StartsProperties
  <2>2. \A p : p \in Starts(stream)
             <=> \E i \in 1 .. Len(stream) : stream[i][1] = p /\ stream[i][2] = 0
    BY <1>2, StartsProperties
  <2>3. ASSUME NEW p \in Starts(stream')  PROVE p \in Starts(stream) \cup {P}
    <3>1. PICK i \in 1 .. Len(stream') : stream'[i][1] = p /\ stream'[i][2] = 0  BY <2>1
    <3>2. CASE i \in 1 .. Len(stream)  BY <1>2, <2>2, <3>1, <3>2
    <3>3. CASE \E k \in 1 .. len + 1 : i = Len(stream) + k
      <4>1. PICK k \in 1 .. len + 1 : i = Len(stream) + k  BY <3>3
      <4>2. stream'[i] = <<P, k - 1>>  BY <1>2, <4>1
      <4> QED  BY <3>1, <4>2
    <3> QED  BY <1>4, <3>2, <3>3
  <2>4. P \in Starts(stream')
    <3>1. 1 \in 1 .. len + 1 /\ Len(stream) + 1 \in 1 .. Len(stream')  BY <1>2
    <3>2. stream'[Len(stream) + 1] = <<P, 0>>  BY <1>2, <3>1
    <3> QED  BY <2>1, <3>1, <3>2
  <2>5. ASSUME NEW p \in Starts(stream)  PROVE p \in Starts(stream')
    <3>1. PICK i \in 1 .. Len(stream) : stream[i][1] = p /\ stream[i][2] = 0  BY <2>2
    <3>2. i \in 1 .. Len(stream') /\ stream'[i] = stream[i]  BY <1>2
    <3> QED  BY <2>1, <3>1, <3>2
  <2> QED  BY <2>3, <2>4, <2>5
<1>7. Cardinality(PacketsIn(stream')) <= ChipPkts
  <2>1. PacketsIn(stream') \subseteq PacketsIn(stream) \cup {P}
    <3>1. /\ \A p : p \in PacketsIn(stream') => \E i \in 1 .. Len(stream') : stream'[i][1] = p
          /\ \A p : (\E i \in 1 .. Len(stream) : stream[i][1] = p) => p \in PacketsIn(stream)
      BY <1>2, PacketsInProperties
    <3>2. ASSUME NEW p \in PacketsIn(stream')  PROVE p \in PacketsIn(stream) \cup {P}
      <4>1. PICK i \in 1 .. Len(stream') : stream'[i][1] = p  BY <3>1
      <4>2. CASE i \in 1 .. Len(stream)  BY <1>2, <3>1, <4>1, <4>2
      <4>3. CASE \E k \in 1 .. len + 1 : i = Len(stream) + k
        <5>1. PICK k \in 1 .. len + 1 : i = Len(stream) + k  BY <4>3
        <5>2. stream'[i] = <<P, k - 1>>  BY <1>2, <5>1
        <5> QED  BY <4>1, <5>2
      <4> QED  BY <1>4, <4>2, <4>3
    <3> QED  BY <3>2
  <2>2. IsFiniteSet(PacketsIn(stream)) /\ Cardinality(PacketsIn(stream)) \in Nat
    BY <1>2, PacketsInProperties
  <2>3. /\ IsFiniteSet(PacketsIn(stream) \cup {P})
        /\ Cardinality(PacketsIn(stream) \cup {P}) <= Cardinality(PacketsIn(stream)) + 1
        /\ Cardinality(PacketsIn(stream) \cup {P}) \in Nat
    BY <2>2, FS_AddElement
  <2>4. /\ Cardinality(PacketsIn(stream')) <= Cardinality(PacketsIn(stream) \cup {P})
        /\ Cardinality(PacketsIn(stream')) \in Nat
    BY <1>2, <2>1, <2>3, FS_Subset, PacketsInProperties
  <2> QED  BY <1>1, <2>2, <2>3, <2>4, YapsReadAssumption
<1>8. InSequence'
  <2>1. (Rising(stream))'  BY <1>5 DEF Rising
  <2>2. (Cardinality(PacketsIn(stream)) <= ChipPkts)'  BY <1>7 DEF PacketsIn, Range
  <2> QED  BY <1>1, <2>1, <2>2 DEF InSequence, Rising, Starts, Range
<1>9. Waiting' = Append(Waiting, P)
  <2>1. /\ Received \in Seq(Elements) /\ InBuffer \in Seq(Elements) /\ InChip \in Seq(Elements)
    BY WaitingType DEF IInv
  <2>2. InOrder(Starts(stream')) = InChip \o <<P>>
    <3>1. Starts(stream) \in SUBSET (1 .. MaxPkts) /\ {P} \in SUBSET (1 .. MaxPkts)
      BY <1>2, StartsProperties
    <3>2. \A a \in Starts(stream), b \in {P} : a < b  BY <1>2, <1>3, StartsProperties
    <3>3. InOrder(Starts(stream) \cup {P}) = InOrder(Starts(stream)) \o InOrder({P})
      BY <3>1, <3>2, InOrderUnion
    <3> QED  BY <1>2, <1>6, <3>3, InOrderOne DEF InChip
  <2>3. Waiting' = (Received \o InBuffer) \o (InChip \o <<P>>)
    BY <1>1, <2>2 DEF Waiting, InBuffer, InChip, Received
  <2>4. Received \o InBuffer \in Seq(Elements) /\ <<P>> \in Seq(Elements) /\ P \in Elements
    BY <1>2, <2>1, ConcatProperties, PacketElements
  <2>5. Waiting \in Seq(Elements)  BY <2>1, <2>4, ConcatProperties DEF Waiting
  <2>6. Append(Waiting, P) = ((Received \o InBuffer) \o InChip) \o <<P>>
    BY <2>4, <2>5, AppendIsConcat DEF Waiting
  <2>7. ((Received \o InBuffer) \o InChip) \o <<P>> = (Received \o InBuffer) \o (InChip \o <<P>>)
    BY <2>1, <2>4, ConcatAssociative
  <2> QED  BY <2>3, <2>6, <2>7
<1>10. Misaligned' = Misaligned
  <2>1. CASE buf # <<>>  BY <1>1, <2>1 DEF Misaligned
  <2>2. CASE buf = <<>> /\ stream = <<>>
    <3>1. Len(stream) = 0 /\ 1 \in 1 .. len + 1 /\ Len(stream) + 1 = 1 /\ Len(stream') # 0
      BY <1>2, <2>2, EmptySeq
    <3>2. stream'[1] = <<P, 0>>  BY <1>2, <3>1
    <3>3. stream' # <<>> /\ Head(stream') = stream'[1]  BY <1>2, <3>1, EmptySeq
    <3> QED  BY <1>1, <2>2, <3>2, <3>3 DEF Misaligned
  <2>3. CASE buf = <<>> /\ stream # <<>>
    <3>1. Len(stream) # 0 /\ 1 \in 1 .. Len(stream) /\ Len(stream') # 0
      BY <1>2, <2>3, EmptySeq
    <3>2. stream'[1] = stream[1] /\ Head(stream) = stream[1] /\ Head(stream') = stream'[1]
          /\ stream' # <<>>
      BY <1>2, <2>3, <3>1, EmptySeq
    <3> QED  BY <1>1, <2>3, <3>2 DEF Misaligned
  <2> QED  BY <2>1, <2>2, <2>3
<1>11. HandedUp' = HandedUp /\ Broken' = Broken
  BY <1>1, <1>10 DEF HandedUp, Broken
<1>12. Chip2Host!Give(P)
  BY <1>9, <1>11 DEF Chip2Host!Give, Waiting, InBuffer, InChip, Broken
<1>13. Chip2Host!Next  BY <1>2, <1>12 DEF Chip2Host!Next
<1> QED  BY <1>8, <1>13 DEF StreamStep

\* Nothing moves while the driver learns how much there is.
LEMMA UpdateStatusStream ==
  ASSUME IInv, InSequence, UpdateStatus
  PROVE  InSequence' /\ StreamStep
<1>1. /\ stream' = stream /\ slots' = slots /\ num' = num /\ got' = got
      /\ buf' = buf /\ pc' \in {"read", "end"} /\ pc = "idle"
  BY DEF IInv, UpdateStatus, Buffered, chip, Fail
<1>2. InSequence'  BY <1>1 DEF InSequence, Rising, Starts, PacketsIn, Range
<1>3. Waiting' = Waiting /\ HandedUp' = HandedUp
  BY <1>1 DEF Waiting, InBuffer, InChip, Received, HandedUp
<1>4. Waiting \in Seq(Elements)
  <2>1. Received \in Seq(Elements) /\ InBuffer \in Seq(Elements) /\ InChip \in Seq(Elements)
    BY WaitingType DEF IInv
  <2> QED  BY <2>1, ConcatProperties DEF Waiting
<1> QED  BY <1>2, <1>3, <1>4, SameWaiting

\* Words lost from the front of the chip's, and the buffer dropped: those of a
\* failing transfer.
LEMMA DropStream ==
  ASSUME IInv, IInv', InSequence, NEW n \in Nat, n <= Len(stream),
         stream' = stream \/ stream' = From(stream, n + 1),
         buf' = <<>>, num' = num, slots' = slots, got' = got, pc' = "end",
         buf = <<>> \/ Starts(SubSeq(stream, 1, n)) = {},
         Broken'
  PROVE  InSequence' /\ StreamStep
<1> DEFINE a == SubSeq(stream, 1, n)
           b == From(stream, n + 1)
<1>1. stream \in Seq(Word) /\ Rising(stream)  BY DEF IInv, TypeOK, InSequence
<1>2. /\ Rising(b) /\ InOrder(Starts(stream)) = InOrder(Starts(a)) \o InOrder(Starts(b))
      /\ Cardinality(PacketsIn(b)) <= Cardinality(PacketsIn(stream))
      /\ Starts(stream) = Starts(a) \cup Starts(b)
  BY <1>1, StartsCut, PacketsCut
<1>3. a \in Seq(Word) /\ b \in Seq(Word)  BY <1>1, CutProperties
<1>4. /\ InOrder(Starts(a)) \in Seq(Elements) /\ InOrder(Starts(b)) \in Seq(Elements)
      /\ Received \in Seq(Elements) /\ InBuffer \in Seq(Elements) /\ InChip \in Seq(Elements)
      /\ <<>> \in Seq(Elements)
  BY <1>3, StartsProperties, InOrderProperties, WaitingType, EmptySeq DEF IInv
<1> HIDE DEF a, b
<1>5. InSequence'
  <2>1. (Rising(buf))' /\ pc' = "end"
    <3>1. \A s : Len(s) = 0 => Rising(s)  BY DEF Rising
    <3>2. Len(buf') = 0  BY EmptySeq
    <3> QED  BY <3>1, <3>2 DEF Rising
  <2>2. stream' = stream \/ stream' = b  BY DEF b
  <2>3. (Rising(stream))'  BY <1>1, <1>2, <2>2 DEF Rising
  <2>4. Cardinality(PacketsIn(stream')) <= ChipPkts
    <3>1. CASE stream' = stream  BY <3>1 DEF InSequence
    <3>2. CASE stream' = b
      <4>1. /\ Cardinality(PacketsIn(stream)) \in Nat /\ Cardinality(PacketsIn(b)) \in Nat
            /\ Cardinality(PacketsIn(stream)) <= ChipPkts
        BY <1>1, <1>3, PacketsInProperties DEF InSequence
      <4> QED  BY <1>2, <3>2, <4>1, YapsReadAssumption
    <3> QED  BY <2>2, <3>1, <3>2
  <2>5. (Cardinality(PacketsIn(stream)) <= ChipPkts)'  BY <2>4 DEF PacketsIn, Range
  <2> QED  BY <2>1, <2>3, <2>5 DEF InSequence
<1>6. /\ Received' = Received /\ HandedUp' = HandedUp
      /\ Waiting' = (Received \o <<>>) \o InOrder(Starts(stream'))
  BY EmptyProperties DEF Waiting, InBuffer, InChip, Received, HandedUp
<1>7. Received \o <<>> = Received  BY <1>4, ConcatEmptySeq
<1>8. Waiting' = Received \o InOrder(Starts(stream'))  BY <1>6, <1>7
<1>9. CASE Starts(stream') = Starts(stream)
  <2>1. Waiting' = Received \o InChip  BY <1>8, <1>9 DEF InChip
  <2>2. StreamStep
    BY <1>4, <1>6, <2>1, LostMiddle DEF Waiting
  <2> QED  BY <1>5, <2>2
<1>10. CASE stream' = b /\ Starts(stream') # Starts(stream)
  <2>1. buf = <<>>
    <3>1. CASE Starts(a) = {}  BY <1>2, <1>10, <3>1
    <3> QED  BY <3>1 DEF a
  <2>2. InBuffer = <<>>  BY <2>1, EmptyProperties DEF InBuffer
  <2>3. Waiting = Received \o (InOrder(Starts(a)) \o InOrder(Starts(b)))
    BY <1>2, <1>7, <2>2 DEF Waiting, InChip
  <2>4. Waiting = (Received \o InOrder(Starts(a))) \o InOrder(Starts(b))
    <3> DEFINE x == InOrder(Starts(a))  y == InOrder(Starts(b))
    <3>0. x \in Seq(Elements) /\ y \in Seq(Elements) /\ Received \in Seq(Elements)
      BY <1>4
    <3> HIDE DEF x, y
    <3>1. (Received \o x) \o y = Received \o (x \o y)
      BY <3>0, ConcatAssociative
    <3> USE DEF x, y
    <3> QED  BY <2>3, <3>1
  <2>5. Waiting' = Received \o InOrder(Starts(b))  BY <1>8, <1>10
  <2>6. StreamStep  BY <1>4, <1>6, <2>4, <2>5, LostMiddle
  <2> QED  BY <1>5, <2>6
<1> QED  BY <1>9, <1>10 DEF b

\* A window of the chip's words comes into the buffer.
LEMMA ReadWindowStream ==
  ASSUME IInv, IInv', InSequence, ReadWindow
  PROVE  InSequence' /\ StreamStep
<1>1. /\ slots' = slots /\ num' = num /\ got' = got /\ pc = "read" /\ num = 0
      /\ buf = <<>> /\ bytes \in Nat /\ bytes <= Len(stream)
      /\ stream \in Seq(Word) /\ Rising(stream)
  BY YapsHwAssumption DEF ReadWindow, IInv, TypeOK, Buffered, InSequence
<1>2. CASE /\ buf' = SubSeq(stream, 1, bytes) /\ stream' = From(stream, bytes + 1)
           /\ pc' = "parse" /\ UNCHANGED <<ret, errors>>
  <2>1. /\ Rising(buf') /\ Rising(stream')
        /\ InOrder(Starts(stream)) = InOrder(Starts(buf')) \o InOrder(Starts(stream'))
        /\ Cardinality(PacketsIn(stream')) <= Cardinality(PacketsIn(stream))
        /\ Cardinality(Starts(buf')) <= Cardinality(PacketsIn(stream))
        /\ Cardinality(Starts(buf')) \in Nat
    BY <1>1, <1>2, StartsCut, PacketsCut
  <2>2. buf' \in Seq(Word) /\ stream' \in Seq(Word)  BY DEF IInv, TypeOK
  <2>3. /\ Cardinality(PacketsIn(stream)) \in Nat /\ Cardinality(PacketsIn(stream')) \in Nat
        /\ Cardinality(PacketsIn(stream)) <= ChipPkts /\ ChipPkts \in Nat
    BY <1>1, <2>2, PacketsInProperties, YapsReadAssumption DEF InSequence
  <2>4. Cardinality(PacketsIn(stream')) <= ChipPkts /\ num + Cardinality(Starts(buf')) <= ChipPkts
    BY <1>1, <2>1, <2>3
  <2>5. InSequence'
    BY <1>1, <1>2, <2>1, <2>4 DEF InSequence, Rising, PacketsIn, Range, Starts
  <2>6. /\ Received \in Seq(Elements)
        /\ InOrder(Starts(buf')) \in Seq(Elements) /\ InOrder(Starts(stream')) \in Seq(Elements)
        /\ <<>> \in Seq(Elements)
    BY <2>2, StartsProperties, InOrderProperties, WaitingType, EmptySeq DEF IInv
  <2>7. Received' = Received /\ HandedUp' = HandedUp
    BY <1>1 DEF Received, HandedUp
  <2>8. Waiting' = (Received \o InOrder(Starts(buf'))) \o InOrder(Starts(stream'))
    BY <2>7 DEF Waiting, InBuffer, InChip
  <2>9. Waiting = (Received \o <<>>) \o (InOrder(Starts(buf')) \o InOrder(Starts(stream')))
    BY <1>1, <2>1, EmptyProperties DEF Waiting, InBuffer, InChip
  <2>10. Received \o <<>> = Received  BY <2>6, ConcatEmptySeq
  <2>11. Waiting = Waiting'
    BY <2>6, <2>8, <2>9, <2>10, ConcatAssociative
  <2>12. Waiting' \in Seq(Elements)  BY <2>6, <2>8, ConcatProperties
  <2>13. StreamStep  BY <2>7, <2>11, <2>12, SameWaiting
  <2> QED  BY <2>5, <2>13
<1>3. CASE Fail("eio") /\ stream' \in {stream, From(stream, bytes + 1)}
  <2>1. /\ buf' = <<>> /\ pc' = "end" /\ Broken'
        /\ stream' = stream \/ stream' = From(stream, bytes + 1)
    BY <1>3 DEF Fail, Broken
  <2> QED  BY <1>1, <2>1, DropStream
<1> QED  BY <1>2, <1>3 DEF ReadWindow

\* The delimiter in hand and words of its packet: one packet.
LEMMA HeadOnly ==
  ASSUME IInv, buf # <<>>, Head(buf)[2] = 0,
         NEW n \in Nat, n <= lens[Head(buf)[1]], n + 1 <= Len(buf)
  PROVE  Starts(SubSeq(buf, 1, n + 1)) = {Head(buf)[1]}
<1> DEFINE p == Head(buf)[1]
           a == SubSeq(buf, 1, n + 1)
<1>1. /\ Head(buf) = buf[1] /\ Len(buf) \in Nat \ {0} /\ lens[p] \in Nat \ {0}
      /\ \A j \in 1 .. lens[p] : Place(buf, stream, j + 1) = <<p, j>>
  BY HeadPacket
<1>2. /\ a \in Seq(Word) /\ Len(a) = n + 1
      /\ \A i \in 1 .. n + 1 : a[i] = buf[i]
  <2>1. buf \in Seq(Word) /\ n + 1 \in Nat  BY DEF IInv, TypeOK
  <2> QED  BY <2>1, CutProperties
<1> HIDE DEF a
<1>3. a[1] = Head(buf)  BY <1>1, <1>2
<1>4. ASSUME NEW i \in 2 .. n + 1  PROVE a[i][2] # 0
  <2>1. i - 1 \in 1 .. lens[p] /\ (i - 1) + 1 = i /\ i <= Len(buf) /\ i \in 1 .. n + 1
    BY <1>1
  <2>2. Place(buf, stream, (i - 1) + 1) = <<p, i - 1>>  BY <1>1, <2>1
  <2>3. buf[i] = <<p, i - 1>>  BY <2>1, <2>2 DEF Place
  <2> HIDE DEF p
  <2>4. a[i] = <<p, i - 1>> /\ i - 1 # 0  BY <1>2, <2>1, <2>3
  <2> QED  BY <2>4
<1>5. Starts(a) = {a[1][1]}  BY <1>2, <1>3, <1>4, OneStart
<1> QED  BY <1>3, <1>5 DEF a

\* One more packet in the array.
LEMMA OneMore ==
  ASSUME IInv, num' = num + 1, \A i \in 1 .. num : slots'[i] = slots[i],
         NEW p \in 1 .. Len(lens), slots'[num + 1][1][1] = p
  PROVE  Received' = Received \o <<p>> /\ <<p>> \in Seq(Elements)
<1>1. p \in Elements  BY WholeProperties, PacketElements DEF IInv
<1>2. <<p>> \in Seq(Elements) /\ Len(<<p>>) = 1 /\ <<p>>[1] = p  BY <1>1
<1>3. /\ Received \in Seq(Elements) /\ Len(Received) = num /\ num \in Nat
      /\ \A i \in 1 .. num : Received[i] = slots[i][1][1] /\ Received[i] \in Elements
  <2>1. /\ Received \in Seq(Elements) /\ Len(Received) = num
        /\ \A i \in 1 .. num : Received[i] = slots[i][1][1]
    BY WaitingType DEF IInv
  <2> QED  BY <2>1, ElementOfSeq, LenProperties
<1>4. /\ Received \o <<p>> \in Seq(Elements) /\ Len(Received \o <<p>>) = num + 1
      /\ \A i \in 1 .. num + 1 :
           (Received \o <<p>>)[i] = IF i <= num THEN Received[i] ELSE <<p>>[i - num]
  <2> DEFINE t == <<p>>
  <2>1. t \in Seq(Elements) /\ Len(t) = 1  BY <1>2
  <2> HIDE DEF t
  <2>2. /\ Received \o t \in Seq(Elements) /\ Len(Received \o t) = num + 1
        /\ \A i \in 1 .. num + 1 :
             (Received \o t)[i] = IF i <= num THEN Received[i] ELSE t[i - num]
    <3> DEFINE r == Received
    <3>1. r \in Seq(Elements) /\ Len(r) = num  BY <1>3
    <3> HIDE DEF r
    <3>2. /\ r \o t \in Seq(Elements) /\ Len(r \o t) = Len(r) + Len(t)
          /\ \A i \in 1 .. Len(r) + Len(t) :
               (r \o t)[i] = IF i <= Len(r) THEN r[i] ELSE t[i - Len(r)]
      BY <2>1, <3>1, ConcatProperties
    <3>3. /\ r \o t \in Seq(Elements) /\ Len(r \o t) = num + 1
          /\ \A i \in 1 .. num + 1 :
               (r \o t)[i] = IF i <= num THEN r[i] ELSE t[i - num]
      BY <2>1, <3>1, <3>2
    <3> QED  BY <3>3 DEF r
  <2> QED  BY <2>2 DEF t
<1>5. \A i \in 1 .. num + 1 : slots'[i][1][1] = (Received \o <<p>>)[i]
  <2> TAKE i \in 1 .. num + 1
  <2>1. CASE i <= num
    <3>1. i \in 1 .. num  BY <1>3, <2>1
    <3> QED  BY <1>3, <1>4, <2>1, <3>1
  <2>2. CASE ~(i <= num)
    <3>1. i = num + 1 /\ i - num = 1  BY <1>3, <2>2
    <3> QED  BY <1>2, <1>4, <2>2, <3>1
  <2> QED  BY <2>1, <2>2
<1>6. Received' = [i \in 1 .. num + 1 |-> slots'[i][1][1]]  BY DEF Received
<1>7. Received \o <<p>> = [i \in 1 .. num + 1 |-> (Received \o <<p>>)[i]]
  BY <1>4, LenProperties
<1> QED  BY <1>2, <1>5, <1>6, <1>7

\* A packet that was in the buffer is in the array: none has moved.
LEMMA PacketMoves ==
  ASSUME IInv, IInv', HandedUp' = HandedUp, NEW p, NEW r,
         Received' = Received \o <<p>>, <<p>> \in Seq(Elements), r \in Seq(Elements),
         InBuffer = <<p>> \o r, InBuffer' = r, InChip' = InChip
  PROVE  StreamStep
<1>1. Received \in Seq(Elements) /\ InBuffer \in Seq(Elements) /\ InChip \in Seq(Elements)
  BY WaitingType DEF IInv
<1>2. (Received \o <<p>>) \o r = Received \o (<<p>> \o r)  BY <1>1, ConcatAssociative
<1>3. Waiting' = Waiting  BY <1>2 DEF Waiting
<1>4. Waiting \in Seq(Elements)  BY <1>1, ConcatProperties DEF Waiting
<1> QED  BY <1>3, <1>4, SameWaiting

\* A packet of the window goes into the array, whole or in part.
LEMMA SplitStream ==
  ASSUME IInv, IInv', InSequence, Split
  PROVE  InSequence' /\ StreamStep
<1> DEFINE p == Head(buf)[1]  len == lens[p]  here == Min2(len, Len(buf) - 1)
<1>1. pc = "parse" /\ num < RxMax /\ buf # <<>> /\ Head(buf)[2] = 0
  BY DEF Split, More
<1>2. /\ Len(buf) \in Nat \ {0} /\ p \in 1 .. Len(lens) /\ len \in Nat \ {0}
      /\ \A j \in 1 .. len : Place(buf, stream, j + 1) = <<p, j>>
  BY <1>1, HeadPacket
<1>3. here \in Nat /\ here <= len /\ here <= Len(buf) - 1
  BY <1>2 DEF Min2
<1>4. /\ SubSeq(buf, 2, here + 1) \in Seq(Word) /\ Len(SubSeq(buf, 2, here + 1)) = here
      /\ \A k \in 1 .. here : SubSeq(buf, 2, here + 1)[k] = Place(buf, stream, k + 1)
  BY <1>1, <1>3, PartProperties
<1>5. /\ num + 1 \in 1 .. RxMax /\ num \in Nat /\ slots \in [1 .. RxMax -> Seq(Word)]
      /\ buf \in Seq(Word) /\ buf' \in Seq(Word)
  BY <1>1, YapsReadAssumption DEF IInv, TypeOK
<1>6. stream' = stream /\ got' = got  BY DEF Split, chip
<1>7. HandedUp' = HandedUp /\ InChip' = InChip  BY <1>6 DEF HandedUp, InChip
<1>8. /\ Received \in Seq(Elements) /\ InBuffer \in Seq(Elements) /\ InChip \in Seq(Elements)
      /\ <<>> \in Seq(Elements)
  BY WaitingType, EmptySeq DEF IInv
<1>9. \A ws : Store(ws) => /\ slots'[num + 1] = ws
                           /\ \A i \in 1 .. num : slots'[i] = slots[i]
  BY <1>5 DEF Store
<1>10. \/ /\ Store(SubSeq(buf, 2, here + 1)) /\ here = len /\ num' = num + 1
          /\ buf' = From(buf, len + 2) /\ pc' = pc
       \/ /\ Store(SubSeq(buf, 2, here + 1)) /\ pc' = "overhang" /\ num' = num /\ buf' = buf
       \/ Store(<<>>) /\ Fail("nomem") /\ UNCHANGED num
  BY DEF Split
<1> HIDE DEF here, len, p
<1>11. CASE /\ Store(SubSeq(buf, 2, here + 1)) /\ here = len /\ num' = num + 1
            /\ buf' = From(buf, len + 2) /\ pc' = pc
  <2>1. len + 1 \in Nat /\ len + 1 <= Len(buf) /\ (len + 1) + 1 = len + 2 /\ 1 \in 1 .. here
    BY <1>2, <1>3, <1>11
  <2>2. Starts(SubSeq(buf, 1, len + 1)) = {p}
    <3>1. len \in Nat /\ len <= lens[Head(buf)[1]]  BY <1>2 DEF len, p
    <3>2. Starts(SubSeq(buf, 1, len + 1)) = {Head(buf)[1]}
      BY <1>1, <2>1, <3>1, HeadOnly
    <3> QED  BY <3>2 DEF p
  <2>3. /\ Rising(buf') /\ InOrder(Starts(buf)) = InOrder({p}) \o InOrder(Starts(buf'))
        /\ Cardinality(Starts(buf)) = Cardinality({p}) + Cardinality(Starts(buf'))
    <3> DEFINE m == len + 1
    <3>1. Rising(buf) /\ m \in Nat /\ m <= Len(buf)  BY <2>1 DEF InSequence
    <3>2. buf' = From(buf, m + 1) /\ Starts(SubSeq(buf, 1, m)) = {p}
      BY <1>11, <2>1, <2>2
    <3> HIDE DEF m
    <3>3. /\ Rising(From(buf, m + 1))
          /\ InOrder(Starts(buf))
               = InOrder(Starts(SubSeq(buf, 1, m))) \o InOrder(Starts(From(buf, m + 1)))
          /\ Cardinality(Starts(buf))
               = Cardinality(Starts(SubSeq(buf, 1, m))) + Cardinality(Starts(From(buf, m + 1)))
      BY <1>5, <3>1, StartsCut
    <3> QED  BY <3>2, <3>3
  <2>4. Cardinality({p}) = 1 /\ Cardinality(Starts(buf')) \in Nat
    BY <1>5, PacketsInProperties, FS_Singleton
  <2>5. num' + Cardinality(Starts(buf')) <= ChipPkts
    BY <1>1, <1>5, <1>11, <2>3, <2>4, YapsHwAssumption DEF InSequence
  <2>6. InSequence'
    BY <1>1, <1>6, <1>11, <2>3, <2>5 DEF InSequence, Rising, PacketsIn, Range, Starts
  <2>7. Received' = Received \o <<p>> /\ <<p>> \in Seq(Elements)
    <3>1. slots'[num + 1][1] = <<p, 1>>
      <4>1. SubSeq(buf, 2, here + 1)[1] = Place(buf, stream, 1 + 1)  BY <1>4, <2>1
      <4> QED  BY <1>2, <1>9, <1>11, <2>1, <4>1
    <3> QED  BY <1>2, <1>9, <1>11, <3>1, OneMore
  <2>8. p \in 1 .. MaxPkts  BY <1>2, WholeProperties DEF IInv
  <2>9. InBuffer = <<p>> \o InOrder(Starts(buf'))  BY <2>3, <2>8, InOrderOne DEF InBuffer
  <2>10. InBuffer' = InOrder(Starts(buf'))  BY DEF InBuffer
  <2>11. InOrder(Starts(buf')) \in Seq(Elements)
    BY <1>5, StartsProperties, InOrderProperties
  <2>12. StreamStep  BY <1>7, <2>7, <2>9, <2>10, <2>11, PacketMoves
  <2> QED  BY <2>6, <2>12
<1>12. CASE /\ Store(SubSeq(buf, 2, here + 1)) /\ pc' = "overhang" /\ num' = num /\ buf' = buf
  <2>1. InSequence'
    BY <1>1, <1>6, <1>12 DEF InSequence, Rising, PacketsIn, Range, Starts
  <2>2. Received' = Received  BY <1>9, <1>12 DEF Received
  <2>3. Waiting' = Waiting  BY <1>7, <1>12, <2>2 DEF Waiting, InBuffer
  <2>4. Waiting \in Seq(Elements)  BY <1>8, ConcatProperties DEF Waiting
  <2> QED  BY <1>7, <2>1, <2>3, <2>4, SameWaiting
<1>13. CASE Store(<<>>) /\ Fail("nomem") /\ UNCHANGED num
  <2>1. buf' = <<>> /\ pc' = "end" /\ Broken'  BY <1>13 DEF Fail, Broken
  <2>2. Rising(buf')  BY <2>1, EmptyProperties
  <2>3. InSequence'
    BY <1>6, <2>1, <2>2 DEF InSequence, Rising, PacketsIn, Range, Starts
  <2>4. Received' = Received  BY <1>9, <1>13 DEF Received
  <2>5. InBuffer' = <<>>  BY <2>1, EmptyProperties DEF InBuffer
  <2>6. Waiting' = (Received \o <<>>) \o InChip  BY <1>7, <2>4, <2>5 DEF Waiting
  <2>7. Received \o <<>> = Received  BY <1>8, ConcatEmptySeq
  <2>8. StreamStep  BY <1>7, <1>8, <2>1, <2>6, <2>7, LostMiddle DEF Waiting
  <2> QED  BY <2>3, <2>8
<1> QED  BY <1>10, <1>11, <1>12, <1>13

\* The words of a packet that are not in the window are the chip's next, and there
\* is no other packet among them.
LEMMA RestProperties ==
  ASSUME IInv, pc = "overhang", NEW rest, rest = lens[Head(buf)[1]] - (Len(buf) - 1)
  PROVE  /\ rest \in Nat \ {0} /\ rest <= Len(stream)
         /\ Starts(SubSeq(stream, 1, rest)) = {}
         /\ (slots[num + 1] \o SubSeq(stream, 1, rest))[1] = <<Head(buf)[1], 1>>
<1> DEFINE p == Head(buf)[1]  len == lens[p]  n == Len(buf) - 1
           a == SubSeq(stream, 1, rest)
<1>1. /\ pc = "overhang" /\ buf # <<>> /\ buf[1][2] = 0
      /\ Len(buf) - 1 < lens[buf[1][1]] /\ slots[num + 1] = SubSeq(buf, 2, Len(buf))
  BY DEF IInv, Buffered
<1>2. Head(buf) = buf[1]  BY <1>1, EmptySeq DEF IInv, TypeOK
<1>3. /\ Len(buf) \in Nat \ {0} /\ Len(stream) \in Nat
      /\ p \in 1 .. Len(lens) /\ len \in Nat \ {0}
      /\ len + 1 <= Len(buf) + Len(stream)
      /\ \A j \in 1 .. len : Place(buf, stream, j + 1) = <<p, j>>
  BY <1>1, <1>2, HeadPacket
<1>4. n < len /\ rest = len - n  BY <1>1, <1>2
<1> HIDE DEF len, p
<1>5. n \in Nat /\ n + 1 = Len(buf) /\ rest \in Nat \ {0} /\ rest <= Len(stream) /\ n + rest = len
  <2> DEFINE b == Len(buf)
  <2>1. /\ b \in Nat \ {0} /\ len \in Nat \ {0} /\ Len(stream) \in Nat
        /\ len + 1 <= b + Len(stream) /\ b - 1 < len /\ rest = len - (b - 1)
    BY <1>3, <1>4
  <2> HIDE DEF b
  <2>2. b - 1 \in Nat /\ (b - 1) + 1 = b  BY <2>1
  <2>3. rest \in Nat \ {0} /\ rest <= Len(stream) /\ (b - 1) + rest = len
    <3>1. rest \in Int /\ rest > 0 /\ rest = (len - b) + 1  BY <2>1
    <3> QED  BY <2>1, <3>1
  <2> QED  BY <2>2, <2>3 DEF b
<1> HIDE DEF n
<1>6. /\ a \in Seq(Word) /\ Len(a) = rest /\ \A i \in 1 .. rest : a[i] = stream[i]
  <2>1. stream \in Seq(Word)  BY DEF IInv, TypeOK
  <2> QED  BY <1>5, <2>1, CutProperties
<1> HIDE DEF a
<1>7. ASSUME NEW i \in 1 .. rest  PROVE a[i] = <<p, n + i>> /\ n + i \in 1 .. len
  <2>1. n + i \in 1 .. len  BY <1>5
  <2>2. Place(buf, stream, (n + i) + 1) = <<p, n + i>>  BY <1>3, <2>1
  <2>3. ~((n + i) + 1 <= Len(buf)) /\ (n + i) + 1 - Len(buf) = i  BY <1>5
  <2>4. stream[i] = <<p, n + i>>
    <3> DEFINE m == n + i
    <3>1. m \in Nat /\ Len(buf) \in Nat  BY <1>3, <1>5
    <3>2. Place(buf, stream, m + 1) = <<p, m>> /\ ~(m + 1 <= Len(buf)) /\ m + 1 - Len(buf) = i
      BY <2>2, <2>3
    <3> HIDE DEF m
    <3>3. Place(buf, stream, m + 1) = stream[m + 1 - Len(buf)]  BY <3>1, <3>2 DEF Place
    <3>4. stream[i] = <<p, m>>  BY <3>2, <3>3
    <3> QED  BY <3>4 DEF m
  <2> QED  BY <1>6, <2>1, <2>4
<1>8. Starts(a) = {}
  <2>1. \A i \in 1 .. Len(a) : a[i][2] # 0  BY <1>3, <1>5, <1>6, <1>7
  <2> QED  BY <1>6, <2>1, NoStarts
<1>9. /\ slots[num + 1] \in Seq(Word) /\ Len(slots[num + 1]) = n
      /\ \A k \in 1 .. n : slots[num + 1][k] = Place(buf, stream, k + 1)
  <2>1. n <= Len(buf) - 1  BY <1>5
  <2> QED  BY <1>1, <1>2, <1>5, <2>1, PartProperties
<1>10. (slots[num + 1] \o a)[1] = <<p, 1>>
  <2> DEFINE w == slots[num + 1]
  <2>0. w \in Seq(Word) /\ Len(w) = n  BY <1>9
  <2> HIDE DEF w
  <2>1. \A i \in 1 .. Len(w) + Len(a) : (w \o a)[i] = IF i <= Len(w) THEN w[i] ELSE a[i - Len(w)]
    BY <1>6, <2>0, ConcatProperties
  <2>2. (w \o a)[1] = IF 1 <= n THEN w[1] ELSE a[1 - n]
    <3>1. 1 \in 1 .. Len(w) + Len(a)  BY <1>5, <1>6, <2>0
    <3> QED  BY <2>0, <2>1, <3>1
  <2>3. CASE 1 <= n
    <3>1. 1 \in 1 .. n /\ 1 \in 1 .. len /\ 1 + 1 = 1 + 1  BY <1>5, <2>3
    <3>2. w[1] = Place(buf, stream, 1 + 1)  BY <1>9, <3>1 DEF w
    <3>3. w[1] = <<p, 1>>  BY <1>3, <3>1, <3>2
    <3>4. (w \o a)[1] = w[1]  BY <2>2, <2>3
    <3> QED  BY <3>3, <3>4 DEF w
  <2>4. CASE ~(1 <= n)
    <3>1. n = 0 /\ 1 - n = 1 /\ n + 1 = 1 /\ 1 \in 1 .. rest  BY <1>5, <2>4
    <3>2. (w \o a)[1] = a[1]  BY <2>2, <2>4, <3>1
    <3>3. a[1] = <<p, 1>>  BY <1>7, <3>1
    <3> QED  BY <3>2, <3>3 DEF w
  <2> QED  BY <2>3, <2>4
<1> QED  BY <1>5, <1>8, <1>10 DEF a, p

\* The rest of the packet in hand comes from the chip.
LEMMA ReadOverhangStream ==
  ASSUME IInv, IInv', InSequence, ReadOverhang
  PROVE  InSequence' /\ StreamStep
<1> DEFINE p == Head(buf)[1]  rest == lens[p] - (Len(buf) - 1)
<1>1. /\ pc = "overhang" /\ num < RxMax /\ buf # <<>> /\ Head(buf)[2] = 0
      /\ got' = got
  <2>1. /\ pc = "overhang" /\ num < RxMax /\ buf # <<>> /\ buf[1][2] = 0 /\ got' = got
    BY DEF ReadOverhang, IInv, Buffered
  <2>2. Head(buf) = buf[1]  BY <2>1, EmptySeq DEF IInv, TypeOK
  <2> QED  BY <2>1, <2>2
<1>2. /\ rest \in Nat \ {0} /\ rest <= Len(stream)
      /\ Starts(SubSeq(stream, 1, rest)) = {}
      /\ (slots[num + 1] \o SubSeq(stream, 1, rest))[1] = <<p, 1>>
  <2>1. \A r : r = rest =>
          /\ r \in Nat \ {0} /\ r <= Len(stream)
          /\ Starts(SubSeq(stream, 1, r)) = {}
          /\ (slots[num + 1] \o SubSeq(stream, 1, r))[1] = <<Head(buf)[1], 1>>
    BY <1>1, RestProperties
  <2> QED  BY <2>1
<1>3. /\ Len(buf) \in Nat \ {0} /\ p \in 1 .. Len(lens)  BY <1>1, HeadPacket
<1>4. Starts(buf) = {p}
  <2>1. Len(buf) - 1 \in Nat /\ Len(buf) - 1 <= lens[p] /\ (Len(buf) - 1) + 1 = Len(buf)
    <3>1. lens[p] \in Nat /\ lens[p] - (Len(buf) - 1) > 0  BY <1>2, <1>3, WholeProperties DEF IInv
    <3> HIDE DEF p
    <3> QED  BY <1>3, <3>1
  <2> DEFINE n == Len(buf) - 1
  <2>2. n \in Nat /\ n <= lens[Head(buf)[1]] /\ n + 1 <= Len(buf) /\ n + 1 = Len(buf)
    BY <1>3, <2>1
  <2> HIDE DEF n
  <2>3. Starts(SubSeq(buf, 1, n + 1)) = {Head(buf)[1]}  BY <1>1, <2>2, HeadOnly
  <2>4. SubSeq(buf, 1, Len(buf)) = buf  BY SubSeqFull DEF IInv, TypeOK
  <2> QED  BY <2>2, <2>3, <2>4
<1>5. /\ num + 1 \in 1 .. RxMax /\ num \in Nat /\ slots \in [1 .. RxMax -> Seq(Word)]
      /\ stream \in Seq(Word) /\ stream' \in Seq(Word) /\ Rising(stream)
  BY <1>1, YapsReadAssumption DEF IInv, TypeOK, InSequence
<1>6. HandedUp' = HandedUp  BY <1>1 DEF HandedUp
<1>7. (\/ /\ slots' = [slots EXCEPT ![num + 1] = @ \o SubSeq(stream, 1, rest)]
          /\ stream' = From(stream, rest + 1)
          /\ num' = num + 1 /\ buf' = <<>> /\ pc' = "parse"
          /\ UNCHANGED <<ret, errors>>
       \/ /\ Fail("eio")
          /\ stream' \in {stream, From(stream, rest + 1)}
          /\ UNCHANGED <<slots, num>>)
  BY DEF ReadOverhang
<1> HIDE DEF rest, p
<1>8. CASE /\ slots' = [slots EXCEPT ![num + 1] = @ \o SubSeq(stream, 1, rest)]
           /\ stream' = From(stream, rest + 1)
           /\ num' = num + 1 /\ buf' = <<>> /\ pc' = "parse"
           /\ UNCHANGED <<ret, errors>>
  <2>1. /\ Rising(stream') /\ Starts(stream) = Starts(SubSeq(stream, 1, rest)) \cup Starts(stream')
        /\ Cardinality(PacketsIn(stream')) <= Cardinality(PacketsIn(stream))
    BY <1>2, <1>5, <1>8, StartsCut, PacketsCut
  <2>2. Starts(stream') = Starts(stream)  BY <1>2, <2>1
  <2>3. /\ Rising(buf') /\ Starts(buf') = {} /\ Cardinality(Starts(buf')) = 0
    BY <1>8, EmptyProperties
  <2>4. Cardinality(Starts(buf)) = 1  BY <1>4, FS_Singleton
  <2>5. num' + Cardinality(Starts(buf')) <= ChipPkts
    BY <1>1, <1>5, <1>8, <2>3, <2>4 DEF InSequence
  <2>6. Cardinality(PacketsIn(stream')) <= ChipPkts
    <3>1. /\ Cardinality(PacketsIn(stream)) \in Nat /\ Cardinality(PacketsIn(stream')) \in Nat
          /\ Cardinality(PacketsIn(stream)) <= ChipPkts
      BY <1>5, PacketsInProperties DEF InSequence
    <3> QED  BY <2>1, <3>1, YapsReadAssumption
  <2>7. InSequence'
    <3>1. (Rising(buf) /\ Rising(stream))'  BY <2>1, <2>3 DEF Rising
    <3>2. (Cardinality(PacketsIn(stream)) <= ChipPkts)'  BY <2>6 DEF PacketsIn, Range
    <3>3. (num + Cardinality(Starts(buf)) <= ChipPkts)'  BY <2>5 DEF Starts, Range
    <3> QED  BY <1>8, <3>1, <3>2, <3>3 DEF InSequence
  <2>8. Received' = Received \o <<p>> /\ <<p>> \in Seq(Elements)
    <3>1. slots'[num + 1] = slots[num + 1] \o SubSeq(stream, 1, rest)
      BY <1>5, <1>8
    <3>2. slots'[num + 1][1][1] = p
      <4>1. slots'[num + 1][1] = <<p, 1>>  BY <1>2, <3>1, Zenon
      <4> QED  BY <4>1
    <3>3. \A i \in 1 .. num : slots'[i] = slots[i]  BY <1>5, <1>8
    <3> QED  BY <1>3, <1>8, <3>2, <3>3, OneMore
  <2>9. p \in 1 .. MaxPkts  BY <1>3, WholeProperties DEF IInv
  <2>10. InBuffer = <<p>>  BY <1>4, <2>9, InOrderOne DEF InBuffer
  <2>11. InBuffer' = <<>>  BY <1>8, EmptyProperties DEF InBuffer
  <2>12. InChip' = InChip  BY <2>2 DEF InChip
  <2>13. <<>> \in Seq(Elements) /\ <<p>> \o <<>> = <<p>>  BY <2>8, EmptySeq, ConcatEmptySeq
  <2>14. StreamStep  BY <1>6, <2>8, <2>10, <2>11, <2>12, <2>13, PacketMoves
  <2> QED  BY <2>7, <2>14
<1>9. CASE /\ Fail("eio")
           /\ stream' \in {stream, From(stream, rest + 1)}
           /\ UNCHANGED <<slots, num>>
  <2>1. /\ buf' = <<>> /\ pc' = "end" /\ Broken' /\ num' = num /\ slots' = slots
        /\ stream' = stream \/ stream' = From(stream, rest + 1)
    BY <1>9 DEF Fail, Broken
  <2> QED  BY <1>1, <1>2, <2>1, DropStream
<1> QED  BY <1>7, <1>8, <1>9

\* What ends the splitting drops what is left of the window: nothing, or what no
\* delimiter leads to; the array is never the reason.
LEMMA SplittedStream ==
  ASSUME RoomInArray, IInv, IInv', InSequence, Splitted
  PROVE  InSequence' /\ StreamStep
<1>1. /\ stream' = stream /\ slots' = slots /\ num' = num /\ got' = got
      /\ buf' = <<>> /\ pc' = "end" /\ pc = "parse" /\ ~More
  BY DEF Splitted, chip
<1>2. HandedUp' = HandedUp /\ InChip' = InChip /\ Received' = Received
  BY <1>1 DEF HandedUp, InChip, Received
<1>3. /\ Received \in Seq(Elements) /\ InBuffer \in Seq(Elements) /\ InChip \in Seq(Elements)
      /\ <<>> \in Seq(Elements)
  BY WaitingType, EmptySeq DEF IInv
<1>4. InBuffer' = <<>> /\ Rising(buf')  BY <1>1, EmptyProperties DEF InBuffer
<1>5. InSequence'
  BY <1>1, <1>4 DEF InSequence, Rising, PacketsIn, Range, Starts
<1>6. Received \o <<>> = Received  BY <1>3, ConcatEmptySeq
<1>7. Waiting' = Received \o InChip  BY <1>2, <1>4, <1>6 DEF Waiting
<1>8. buf = <<>> \/ Head(buf)[2] # 0
  <2> SUFFICES ASSUME buf # <<>>, Head(buf)[2] = 0  PROVE FALSE
    OBVIOUS
  <2>1. /\ num \in Nat /\ num >= RxMax /\ RxMax \in Nat /\ ChipPkts \in Nat
        /\ ChipPkts <= RxMax /\ num + Cardinality(Starts(buf)) <= ChipPkts
    BY <1>1, YapsReadAssumption DEF More, IInv, TypeOK, RoomInArray, InSequence
  <2>2. /\ buf \in Seq(Word) /\ IsFiniteSet(Starts(buf)) /\ Cardinality(Starts(buf)) \in Nat
    BY StartsProperties, PacketsFinite DEF IInv, TypeOK
  <2>3. Starts(buf) # {}
    <3>1. 1 \in 1 .. Len(buf) /\ Head(buf) = buf[1]  BY HeadPacket
    <3>2. buf[1][1] \in Starts(buf)  BY <2>2, <3>1, StartsProperties
    <3> QED  BY <3>2
  <2>4. Cardinality(Starts(buf)) # 0  BY <2>2, <2>3, FS_EmptySet
  <2> QED  BY <2>1, <2>2, <2>4
<1>9. CASE buf = <<>>
  <2>1. InBuffer = <<>>  BY <1>9, EmptyProperties DEF InBuffer
  <2>2. Waiting' = Waiting  BY <1>6, <1>7, <2>1 DEF Waiting
  <2>3. Waiting \in Seq(Elements)  BY <1>3, ConcatProperties DEF Waiting
  <2> QED  BY <1>2, <1>5, <2>2, <2>3, SameWaiting
<1>10. CASE buf # <<>> /\ Head(buf)[2] # 0
  <2>1. Broken  BY <1>10 DEF Broken, Misaligned
  <2>2. StreamStep  BY <1>2, <1>3, <1>7, <2>1, LostMiddle DEF Waiting
  <2> QED  BY <1>5, <2>2
<1> QED  BY <1>8, <1>9, <1>10

\* The packets of the array go up, or are lost with a failing read.
LEMMA EndStream ==
  ASSUME IInv, IInv', InSequence, End
  PROVE  InSequence' /\ StreamStep
<1>1. /\ stream' = stream /\ buf' = buf /\ pc = "end" /\ pc' = "idle" /\ ret' = "ok" /\ num' = 0
      /\ buf = <<>>
  BY DEF End, chip, IInv, Buffered
<1>2. /\ Received \in Seq(Elements) /\ InBuffer \in Seq(Elements) /\ InChip \in Seq(Elements)
      /\ <<>> \in Seq(Elements) /\ Len(Received) = num /\ num \in Nat
      /\ \A i \in 1 .. num : Received[i] = slots[i][1][1]
  <2>1. TypeOK /\ AllWhole(slots, num)  BY DEF IInv
  <2>2. num \in Nat  BY <2>1, YapsHwAssumption DEF TypeOK
  <2> QED  BY <2>1, <2>2, WaitingType, EmptySeq
<1>3. InBuffer = <<>> /\ InBuffer' = <<>> /\ InChip' = InChip
  BY <1>1, EmptyProperties DEF InBuffer, InChip
<1>4. Received' = <<>>
  <2>1. Received' = [i \in 1 .. 0 |-> slots'[i][1][1]]  BY <1>1 DEF Received
  <2>2. Received' \in [1 .. 0 -> Elements]  BY <2>1
  <2>3. Received' \in Seq(Elements)  BY <2>2, SeqDef
  <2>4. Len(Received') = 0  BY <2>2, <2>3, LenProperties
  <2> QED  BY <2>3, <2>4, EmptySeq
<1>5. InSequence'
  BY <1>1 DEF InSequence, Rising, PacketsIn, Range, Starts
<1>6. Waiting' = InChip /\ Waiting = Received \o InChip /\ Waiting = (<<>> \o Received) \o InChip
      /\ Waiting' = <<>> \o InChip
  BY <1>2, <1>3, <1>4, ConcatEmptySeq DEF Waiting
<1>7. CASE ~(ret \in {"ok", "again"})
  <2>1. got' = got  BY <1>7 DEF End
  <2>2. HandedUp' = HandedUp  BY <2>1 DEF HandedUp
  <2>3. Broken  BY <1>7 DEF Broken, IInv, TypeOK
  <2>4. StreamStep  BY <1>2, <1>6, <2>2, <2>3, LostMiddle
  <2> QED  BY <1>5, <2>4
<1>8. CASE ret \in {"ok", "again"}
  <2>1. got' = got \o SubSeq(slots, 1, num)  BY <1>8 DEF End
  <2>2. Broken' = Broken  BY <1>1, <1>8 DEF Broken, Misaligned
  <2>3. HandedUp' = HandedUp \o Received
    <3>1. /\ got \in Seq(Seq(Word)) /\ got' \in Seq(Seq(Word)) /\ num <= RxMax /\ RxMax \in Nat
          /\ slots \in [1 .. RxMax -> Seq(Word)]
      BY YapsReadAssumption DEF IInv, TypeOK
    <3> DEFINE q == SubSeq(slots, 1, num)  n == Len(got)
    <3>2. q \in Seq(Seq(Word)) /\ Len(q) = num /\ \A i \in 1 .. num : q[i] = slots[i]
      <4>1. slots \in Seq(Seq(Word)) /\ Len(slots) = RxMax  BY <3>1, SeqDef, LenProperties
      <4> QED  BY <1>2, <3>1, <4>1, CutProperties
    <3> HIDE DEF q
    <3>3. /\ got' \in Seq(Seq(Word)) /\ n \in Nat /\ Len(got') = n + num
          /\ \A i \in 1 .. n + num : got'[i] = IF i <= n THEN got[i] ELSE q[i - n]
      BY <2>1, <3>1, <3>2, ConcatProperties, LenProperties DEF q
    <3>4. /\ HandedUp = [i \in 1 .. n |-> got[i][1][1]]
          /\ HandedUp' = [i \in 1 .. n + num |-> got'[i][1][1]]
      BY <3>1, <3>3, LenProperties DEF HandedUp
    <3>5. HandedUp \in Seq(Elements) /\ Len(HandedUp) = n
      <4>1. \A i \in 1 .. n : got[i][1][1] \in Elements
        <5> TAKE i \in 1 .. n
        <5>1. PICK p \in 1 .. Len(lens) : got[i] = Whole(p)  BY DEF IInv, AllWhole
        <5>2. /\ lens[p] \in Nat \ {0} /\ p \in 1 .. MaxPkts
              /\ \A k \in 1 .. lens[p] : Whole(p)[k] = <<p, k>>
          BY <5>1, WholeProperties DEF IInv
        <5>3. 1 \in 1 .. lens[p]  BY <5>2
        <5>4. got[i][1][1] = p  BY <5>1, <5>2, <5>3
        <5> QED  BY <5>2, <5>4, PacketElements
      <4> HIDE DEF n
      <4>2. HandedUp \in [1 .. n -> Elements]  BY <3>4, <4>1
      <4>3. HandedUp \in Seq(Elements)  BY <3>3, <4>2, SeqDef
      <4> QED  BY <3>3, <4>2, <4>3, LenProperties
    <3> HIDE DEF n
    <3>6. /\ HandedUp \o Received \in Seq(Elements) /\ Len(HandedUp \o Received) = n + num
          /\ \A i \in 1 .. n + num :
               (HandedUp \o Received)[i] = IF i <= n THEN HandedUp[i] ELSE Received[i - n]
      <4> DEFINE u == HandedUp  v == Received
      <4>1. u \in Seq(Elements) /\ v \in Seq(Elements) /\ Len(u) = n /\ Len(v) = num
        BY <1>2, <3>5
      <4> HIDE DEF u, v
      <4>2. /\ u \o v \in Seq(Elements) /\ Len(u \o v) = Len(u) + Len(v)
            /\ \A i \in 1 .. Len(u) + Len(v) :
                 (u \o v)[i] = IF i <= Len(u) THEN u[i] ELSE v[i - Len(u)]
        BY <4>1, ConcatProperties
      <4>3. /\ u \o v \in Seq(Elements) /\ Len(u \o v) = n + num
            /\ \A i \in 1 .. n + num : (u \o v)[i] = IF i <= n THEN u[i] ELSE v[i - n]
        BY <4>1, <4>2
      <4> QED  BY <4>3 DEF u, v
    <3>7. \A i \in 1 .. n + num : got'[i][1][1] = (HandedUp \o Received)[i]
      <4> TAKE i \in 1 .. n + num
      <4>1. CASE i <= n
        <5>1. i \in 1 .. n  BY <3>3, <4>1
        <5>2. got'[i] = got[i]  BY <3>3, <4>1
        <5>3. HandedUp[i] = got[i][1][1]  BY <3>4, <5>1
        <5> QED  BY <3>6, <4>1, <5>2, <5>3
      <4>2. CASE ~(i <= n)
        <5>1. i - n \in 1 .. num  BY <1>2, <3>3, <4>2
        <5>2. got'[i] = slots[i - n]  BY <3>2, <3>3, <4>2, <5>1
        <5>3. Received[i - n] = slots[i - n][1][1]  BY <1>2, <5>1
        <5> QED  BY <3>6, <4>2, <5>2, <5>3
      <4> QED  BY <4>1, <4>2
    <3>8. HandedUp \o Received = [i \in 1 .. n + num |-> (HandedUp \o Received)[i]]
      BY <3>6, LenProperties
    <3> QED  BY <3>4, <3>7, <3>8
  <2>4. CASE num = 0
    <3>1. Received = <<>>  BY <1>2, <2>4, EmptySeq
    <3>2. Waiting' = Waiting  BY <1>2, <1>6, <3>1, ConcatEmptySeq
    <3>3. got' = got
      <4>1. SubSeq(slots, 1, num) = <<>>  BY <2>4, SubSeqEmpty
      <4> QED  BY <2>1, <4>1, ConcatEmptySeq DEF IInv, TypeOK
    <3>4. HandedUp' = HandedUp  BY <3>3 DEF HandedUp
    <3>5. Waiting \in Seq(Elements)  BY <1>2, <1>6, ConcatProperties
    <3>6. StreamStep  BY <3>2, <3>4, <3>5, SameWaiting
    <3> QED  BY <1>5, <3>6
  <2>5. CASE num # 0
    <3>1. \A x, y, z \in Seq(Elements) :
            /\ Len((x \o y) \o z) = Len(x) + Len(y) + Len(z)
            /\ SubSeq((x \o y) \o z, 1, Len(x)) = x
            /\ SubSeq((x \o y) \o z, Len(x) + Len(y) + 1, Len((x \o y) \o z)) = z
      BY LoseMiddle
    <3>2. /\ SubSeq(Waiting, 1, num) = Received
          /\ Len(Waiting) = num + 0 + Len(InChip)
          /\ SubSeq(Waiting, num + 0 + 1, Len(Waiting)) = InChip
      <4>1. ASSUME NEW e \in Seq(Elements), Len(e) = 0, Waiting = (Received \o e) \o InChip
            PROVE  /\ SubSeq(Waiting, 1, num) = Received
                   /\ Len(Waiting) = num + 0 + Len(InChip)
                   /\ SubSeq(Waiting, num + 0 + 1, Len(Waiting)) = InChip
        <5> DEFINE x == Received  z == InChip  w == Waiting
        <5>1. /\ x \in Seq(Elements) /\ z \in Seq(Elements) /\ Len(x) = num
              /\ w = (x \o e) \o z
          BY <1>2, <4>1
        <5> HIDE DEF x, z, w
        <5>2. /\ Len(w) = Len(x) + Len(e) + Len(z)
              /\ SubSeq(w, 1, Len(x)) = x
              /\ SubSeq(w, Len(x) + Len(e) + 1, Len(w)) = z
          BY <3>1, <5>1
        <5>3. /\ SubSeq(w, 1, num) = x
              /\ Len(w) = num + 0 + Len(z)
              /\ SubSeq(w, num + 0 + 1, Len(w)) = z
          BY <4>1, <5>1, <5>2
        <5> QED  BY <5>3 DEF x, z, w
      <4>2. InBuffer \in Seq(Elements) /\ Len(InBuffer) = 0  BY <1>2, <1>3
      <4> QED  BY <4>1, <4>2 DEF Waiting
    <3>3. num \in 1 .. Len(Waiting) /\ SubSeq(Waiting, num + 1, Len(Waiting)) = InChip
      <4>1. Len(InChip) \in Nat  BY <1>2, LenProperties
      <4>2. num + 0 = num /\ num >= 1  BY <1>2, <2>5
      <4> QED  BY <1>2, <3>2, <4>1, <4>2
    <3>4. Chip2Host!Arrive(num)
      BY <1>6, <2>2, <2>3, <3>2, <3>3
      DEF Chip2Host!Arrive, Waiting, InBuffer, InChip, Broken
    <3>5. Chip2Host!Next  BY <3>3, <3>4 DEF Chip2Host!Next, Waiting, InBuffer, InChip
    <3>6. StreamStep  BY <3>5 DEF StreamStep
    <3> QED  BY <1>5, <3>6
  <2> QED  BY <2>4, <2>5
<1> QED  BY <1>7, <1>8

LEMMA StepStream ==
  ASSUME RoomInArray, IInv, IInv', InSequence, [Next]_vars
  PROVE  InSequence' /\ StreamStep
<1>1. CASE Next
  BY <1>1, SendStream, UpdateStatusStream, ReadWindowStream, SplitStream, ReadOverhangStream,
     SplittedStream, EndStream DEF Next
<1>2. CASE UNCHANGED vars
  <2>1. /\ stream' = stream /\ pc' = pc /\ buf' = buf /\ slots' = slots /\ num' = num
        /\ ret' = ret /\ got' = got
    BY <1>2 DEF vars, chip, parsed
  <2>2. InSequence'  BY <2>1 DEF InSequence, Rising, PacketsIn, Range, Starts
  <2>3. Waiting' = Waiting /\ HandedUp' = HandedUp /\ Broken' = Broken
    BY <2>1 DEF Waiting, InBuffer, InChip, Received, HandedUp, Broken, Misaligned
  <2>4. StreamStep
    BY <2>3 DEF StreamStep, Chip2Host!svars, Waiting, InBuffer, InChip, Broken
  <2> QED  BY <2>2, <2>4
<1> QED  BY <1>1, <1>2

LEMMA InitStream == Init => Chip2Host!Init
<1> SUFFICES ASSUME Init  PROVE Chip2Host!Init
  OBVIOUS
<1>1. /\ num = 0 /\ got = <<>> /\ buf = <<>> /\ stream = <<>> /\ ret = "ok"  BY DEF Init
<1>2. Received = <<>>
  <2>1. Received \in [1 .. 0 -> Elements]  BY <1>1 DEF Received
  <2>2. Received \in Seq(Elements) /\ Len(Received) = 0  BY <2>1, SeqDef, LenProperties
  <2> QED  BY <2>2, EmptySeq
<1>3. HandedUp = <<>>
  <2>1. DOMAIN got = 1 .. 0  BY <1>1
  <2>2. HandedUp \in [1 .. 0 -> Elements]  BY <2>1 DEF HandedUp
  <2>3. HandedUp \in Seq(Elements) /\ Len(HandedUp) = 0  BY <2>2, SeqDef, LenProperties
  <2> QED  BY <2>3, EmptySeq
<1>4. (<<>> \o <<>>) \o <<>> = <<>>
  <2>1. <<>> \in Seq(Elements)  BY EmptySeq
  <2> QED  BY <2>1, ConcatEmptySeq
<1>5. Waiting = <<>>
  BY <1>1, <1>2, <1>4, EmptyProperties DEF Waiting, InBuffer, InChip
<1>6. Broken = FALSE  BY <1>1 DEF Broken, Misaligned
<1> QED  BY <1>3, <1>5, <1>6 DEF Chip2Host!Init, Waiting, InBuffer, InChip, Broken

\* The chip's packets arrive in the order it sent them and once each; without a
\* failing transfer or allocation none is lost, wherever windows end and however
\* many words there are: the read implements the stream of packets.
THEOREM StreamInOrder == RoomInArray => (Spec => Implements)
<1> SUFFICES ASSUME RoomInArray  PROVE Spec => Implements
  OBVIOUS
<1>1. IInv /\ InSequence /\ [Next]_vars => (IInv /\ InSequence)'
  BY StepInv, StepStream
<1>2. IInv /\ InSequence /\ [Next]_vars => StreamStep
  BY StepInv, StepStream
<1>3. Init => Chip2Host!Init /\ IInv /\ InSequence
  BY InitStream, InitInv, InitSequence
<1> QED
  BY <1>1, <1>2, <1>3, PTL
  DEF Spec, Implements, Chip2Host!Spec, StreamStep

-----------------------------------------------------------------------------
(* The way to the chip (YapsWrite): same window and same bounds.             *)

Given == 1 .. Len(txLens)
PagesOf(l, p) == (l[p] + PageWords - 1) \div PageWords

TxTyped ==
  /\ txLens \in Seq(PktLens) /\ Len(txLens) <= MaxPkts
  /\ queue \in Seq(Given) /\ hand \in Seq(Given) /\ batch \in Seq(Given)
  /\ chipQ \in Seq(Given) /\ arrived \in Seq(Given)
  /\ txPc \in {"idle", "status", "check", "fill", "exit", "done"}
  /\ pages \in Nat /\ places \in Nat /\ load \in Nat /\ vacant \in Nat
  /\ count \in Nat /\ written \in Nat
  /\ processed \in Nat /\ processed <= Len(chipQ)

\* The driver's account, with what is in the buffer and the packet that was
\* checked last, is within what the chip has.
RoomLeft ==
  /\ txPc = "check" => pages <= vacant /\ places + Len(chipQ) <= QSize
  /\ txPc = "fill" =>
       /\ count + Len(batch) < Len(hand)
       /\ pages + load + PagesOf(txLens, hand[count + Len(batch) + 1]) + 1 < vacant
       /\ places + Len(batch) + Len(chipQ) < QSize
  /\ txPc = "exit" /\ batch # <<>> =>
       /\ pages + load + 1 < vacant
       /\ places + Len(batch) + Len(chipQ) <= QSize

\* What is in hand: what the chip has got, what the buffer has, and the rest.
InHand ==
  /\ txPc = "idle" => hand = <<>>
  /\ txPc \in {"idle", "status", "check"} => batch = <<>> /\ load = 0 /\ written = 0
  /\ txPc \in {"status", "check", "fill"} => txRet = "ok"
  /\ txPc \in {"fill", "exit"} =>
       /\ count = written /\ count + Len(batch) <= Len(hand)
       /\ batch = SubSeq(hand, count + 1, count + Len(batch))
  /\ txPc = "done" =>
       written <= count /\ count <= Len(hand) /\ (count = written \/ txRet = "eio")

TxInv == TxTyped /\ RoomKept /\ RoomLeft /\ InHand

Waits == From(hand, written + 1) \o queue
TxStep == [Host2Chip!Next]_(Host2Chip!svars)

-----------------------------------------------------------------------------
LEMMA PagesOfType ==
  ASSUME NEW l \in Seq(PktLens), NEW p \in 1 .. Len(l)
  PROVE  PagesOf(l, p) \in Nat
<1>1. l[p] \in PktLens  BY ElementOfSeq
<1>2. l[p] \in Nat \ {0} /\ PageWords \in Nat \ {0}  BY <1>1, YapsWriteAssumption
<1> DEFINE a == l[p] + PageWords - 1
<1>3. a \in Nat /\ PagesOf(l, p) = a \div PageWords  BY <1>2 DEF PagesOf
<1> HIDE DEF a
<1>4. a \div PageWords \in Nat  BY <1>2, <1>3
<1> QED  BY <1>3, <1>4

\* A sequence, from one place on, cut once more.
LEMMA CutFrom ==
  ASSUME NEW S, NEW h \in Seq(S), NEW i \in Nat, NEW k \in Nat, i <= k, k <= Len(h)
  PROVE  /\ SubSeq(h, i + 1, k) \in Seq(S) /\ Len(SubSeq(h, i + 1, k)) = k - i
         /\ From(h, k + 1) \in Seq(S) /\ Len(From(h, k + 1)) = Len(h) - k
         /\ From(h, i + 1) \in Seq(S)
         /\ From(h, i + 1) = SubSeq(h, i + 1, k) \o From(h, k + 1)
<1>1. Len(h) \in Nat  BY LenProperties
<1>2. From(h, k + 1) \in Seq(S) /\ Len(From(h, k + 1)) = Len(h) - k /\ From(h, i + 1) \in Seq(S)
  <2>1. i <= Len(h)  BY <1>1
  <2> QED  BY <1>1, <2>1, CutProperties
<1>3. SubSeq(h, i + 1, k) \in Seq(S) /\ Len(SubSeq(h, i + 1, k)) = k - i
  <2>1. \A j \in i + 1 .. k : h[j] \in S
    <3>1. \A j \in i + 1 .. k : j \in 1 .. Len(h)  BY <1>1
    <3> QED  BY <3>1, ElementOfSeq
  <2>2. i + 1 \in Int /\ k \in Int  OBVIOUS
  <2>3. /\ SubSeq(h, i + 1, k) \in Seq(S)
        /\ Len(SubSeq(h, i + 1, k)) = IF i + 1 <= k THEN k - (i + 1) + 1 ELSE 0
    BY ONLY <2>1, <2>2, SubSeqProperties
  <2>4. (IF i + 1 <= k THEN k - (i + 1) + 1 ELSE 0) = k - i  OBVIOUS
  <2> QED  BY <2>3, <2>4
<1>4. SubSeq(h, i + 1, k) \o SubSeq(h, k + 1, Len(h)) = SubSeq(h, i + 1, Len(h))
  <2>1. i + 1 \in 1 .. Len(h) + 1 /\ k \in (i + 1) - 1 .. Len(h) /\ Len(h) \in k .. Len(h)
    BY <1>1
  <2> QED  BY <2>1, ConcatAdjacentSubSeq
<1> QED  BY <1>2, <1>3, <1>4 DEF From

\* Nothing that waits moves.
LEMMA TxSame ==
  ASSUME NEW S, Waits \in Seq(S), Waits' = Waits, arrived' = arrived
  PROVE  TxStep
<1>1. CASE (txRet' = "eio") <=> (txRet = "eio")
  BY <1>1 DEF TxStep, Host2Chip!svars, Waits
<1>2. CASE ~((txRet' = "eio") <=> (txRet = "eio"))
  <2>1. (txRet = "eio") \/ (txRet' = "eio")  BY <1>2
  <2>2. <<>> \in Seq(S) /\ Len(<<>>) = 0  BY EmptySeq
  <2>3. (<<>> \o <<>>) \o Waits = Waits /\ <<>> \o Waits = Waits
    BY <2>2, ConcatEmptySeq
  <2>4. /\ SubSeq(Waits, 1, 0) = <<>> /\ SubSeq(Waits, 0 + 0 + 1, Len(Waits)) = Waits
    BY <2>2, <2>3, LoseMiddle
  <2>5. Waits' = SubSeq(Waits, 1, 0) \o SubSeq(Waits, 0 + 0 + 1, Len(Waits))
    BY <2>3, <2>4
  <2>6. Host2Chip!Lose(0, 0)
    BY <2>1, <2>5 DEF Host2Chip!Lose, Waits
  <2>7. 0 \in 0 .. Len(Waits) /\ 0 \in 0 .. Len(Waits) - 0  BY LenProperties
  <2>8. Host2Chip!Next  BY <2>6, <2>7 DEF Host2Chip!Next, Waits
  <2> QED  BY <2>8 DEF TxStep
<1> QED  BY <1>1, <1>2

\* The first of those that wait are lost by a fault, or arrive.
LEMMA TxFirst ==
  ASSUME NEW S, NEW x \in Seq(S), NEW y \in Seq(S), Waits = x \o y, Waits' = y,
         arrived \in Seq(S),
         \/ arrived' = arrived /\ (txRet = "eio" \/ txRet' = "eio")
         \/ arrived' = arrived \o x /\ txRet' # "eio"
  PROVE  TxStep
<1>1. <<>> \in Seq(S) /\ Len(<<>>) = 0 /\ Len(x) \in Nat /\ Len(y) \in Nat
  BY EmptySeq, LenProperties
<1>2. <<>> \o x = x /\ x \o <<>> = x /\ <<>> \o y = y  BY ConcatEmptySeq
<1>3. /\ Waits \in Seq(S) /\ Len(Waits) = Len(x) + Len(y)
      /\ SubSeq(Waits, 1, 0) = <<>>
      /\ SubSeq(Waits, Len(x) + 1, Len(Waits)) = y
  <2>1. /\ Waits \in Seq(S) /\ Len(Waits) = 0 + Len(x) + Len(y) /\ SubSeq(Waits, 1, 0) = <<>>
        /\ SubSeq(Waits, 0 + Len(x) + 1, Len(Waits)) = y
    BY <1>1, <1>2, LoseMiddle
  <2> QED  BY <1>1, <2>1
<1>4. SubSeq(Waits, 1, Len(x)) = x
  <2>1. Waits = (x \o <<>>) \o y  BY <1>2
  <2> QED  BY <1>1, <2>1, LoseMiddle
<1>5. CASE arrived' = arrived /\ (txRet = "eio" \/ txRet' = "eio")
  <2>1. 0 + Len(x) + 1 = Len(x) + 1 /\ Len(x) - 0 = Len(x)  BY <1>1
  <2>2. Waits' = SubSeq(Waits, 1, 0) \o SubSeq(Waits, 0 + Len(x) + 1, Len(Waits))
    BY <1>2, <1>3, <2>1
  <2>3. Host2Chip!Lose(0, Len(x))
    BY <1>5, <2>2 DEF Host2Chip!Lose, Waits
  <2>4. 0 \in 0 .. Len(Waits) /\ Len(x) \in 0 .. Len(Waits) - 0  BY <1>1, <1>3
  <2>5. Host2Chip!Next  BY <2>3, <2>4 DEF Host2Chip!Next, Waits
  <2> QED  BY <2>5 DEF TxStep
<1>6. CASE arrived' = arrived \o x /\ txRet' # "eio" /\ x # <<>>
  <2>1. Len(x) \in 1 .. Len(Waits)  BY <1>1, <1>3, <1>6, EmptySeq
  <2>2. Host2Chip!Arrive(Len(x))
    BY <1>3, <1>4, <1>6 DEF Host2Chip!Arrive, Waits
  <2>3. Host2Chip!Next  BY <2>1, <2>2 DEF Host2Chip!Next, Waits
  <2> QED  BY <2>3 DEF TxStep
<1>7. CASE arrived' = arrived \o x /\ txRet' # "eio" /\ x = <<>>
  <2>1. Waits' = Waits  BY <1>2, <1>7
  <2>2. arrived' = arrived  BY <1>7, ConcatEmptySeq
  <2> QED  BY <1>3, <2>1, <2>2, TxSame
<1> QED  BY <1>5, <1>6, <1>7

\* The first of those that wait arrive by a transfer that failed.
LEMMA TxUnseen ==
  ASSUME NEW S, NEW x \in Seq(S), NEW y \in Seq(S), Waits = x \o y, Waits' = Waits,
         arrived \in Seq(S), arrived' = arrived \o x, txRet' = "eio"
  PROVE  TxStep
<1>1. <<>> \in Seq(S) /\ Len(<<>>) = 0 /\ Len(x) \in Nat /\ Len(y) \in Nat
  BY EmptySeq, LenProperties
<1>2. Waits \in Seq(S) /\ Len(Waits) = Len(x) + Len(y)  BY ConcatProperties
<1>3. SubSeq(Waits, 1, Len(x)) = x
  <2>1. x \o <<>> = x  BY ConcatEmptySeq
  <2>2. Waits = (x \o <<>>) \o y  BY <2>1
  <2> QED  BY <1>1, <2>2, LoseMiddle
<1>4. CASE x # <<>>
  <2>1. Len(x) \in 1 .. Len(Waits)  BY <1>1, <1>2, <1>4, EmptySeq
  <2>2. Host2Chip!ArriveUnseen(Len(x))
    BY <1>3 DEF Host2Chip!ArriveUnseen, Waits
  <2>3. Host2Chip!Next  BY <2>1, <2>2 DEF Host2Chip!Next, Waits
  <2> QED  BY <2>3 DEF TxStep
<1>5. CASE x = <<>>
  <2>1. arrived' = arrived  BY <1>5, ConcatEmptySeq
  <2> QED  BY <1>2, <2>1, TxSame
<1> QED  BY <1>4, <1>5

\* Where nothing but the call and its result changes.
LEMMA HandWaits ==
  ASSUME TxTyped, Waits' = Waits, arrived' = arrived, written <= Len(hand)
  PROVE  TxStep
<1>1. From(hand, written + 1) \in Seq(Given)
  BY CutProperties DEF TxTyped, From
<1>2. Waits \in Seq(Given)  BY <1>1, ConcatProperties DEF TxTyped, Waits
<1> QED  BY <1>2, TxSame

LEMMA TxInitKept == ASSUME TxInit  PROVE TxInv /\ Host2Chip!Init
<1>1. /\ txLens = <<>> /\ queue = <<>> /\ hand = <<>> /\ batch = <<>> /\ chipQ = <<>>
      /\ arrived = <<>> /\ txPc = "idle" /\ pages = 0 /\ places = 0 /\ load = 0 /\ count = 0
      /\ written = 0 /\ txRet = "ok" /\ vacant = PoolPages /\ processed = 0
  BY DEF TxInit
<1>2. PoolPages \in Nat \ {0} /\ QSize \in Nat \ {0} /\ MaxPkts \in Nat
  BY YapsWriteAssumption, YapsHwAssumption
<1>3. <<>> \in Seq(PktLens) /\ <<>> \in Seq(Given) /\ Len(<<>>) = 0  BY EmptySeq
<1>4. TxTyped  BY <1>1, <1>2, <1>3 DEF TxTyped
<1>5. RoomKept /\ RoomLeft /\ InHand
  BY <1>1, <1>2, <1>3 DEF RoomKept, RoomLeft, InHand
<1>6. From(hand, written + 1) \o queue = <<>>
  <2>1. SubSeq(<<>>, 0 + 1, Len(<<>>)) = <<>>  BY <1>3, SubSeqEmpty
  <2>2. <<>> \o <<>> = <<>>  BY <1>3, ConcatEmptySeq
  <2> QED  BY <1>1, <2>1, <2>2 DEF From
<1> QED  BY <1>1, <1>4, <1>5, <1>6 DEF TxInv, Host2Chip!Init

\* A packet is handed over: nothing the call has changes.
LEMMA TxPut ==
  ASSUME TxInv, NEW len \in PktLens, Put(len)
  PROVE  TxInv' /\ TxStep
<1>1. /\ Len(txLens) < MaxPkts /\ txLens' = Append(txLens, len)
      /\ queue' = Append(queue, Len(txLens'))
      /\ hand' = hand /\ txPc' = txPc /\ pages' = pages /\ places' = places /\ batch' = batch
      /\ load' = load /\ count' = count /\ txRet' = txRet /\ vacant' = vacant
      /\ chipQ' = chipQ /\ processed' = processed /\ written' = written /\ arrived' = arrived
  BY DEF Put, account, building, txChip, atChip
<1>2. /\ txLens' \in Seq(PktLens) /\ Len(txLens') = Len(txLens) + 1 /\ Len(txLens) \in Nat
      /\ \A p \in Given : txLens'[p] = txLens[p]
  BY <1>1, AppendProperties, LenProperties DEF TxInv, TxTyped, Given
<1>3. Given \subseteq Given' /\ Len(txLens') \in Given' /\ Len(txLens') \in 1 .. MaxPkts
  <2>1. MaxPkts \in Nat  BY YapsHwAssumption
  <2> QED  BY <1>1, <1>2, <2>1 DEF Given
<1>4. /\ hand \in Seq(Given') /\ batch \in Seq(Given') /\ chipQ \in Seq(Given')
      /\ arrived \in Seq(Given') /\ queue \in Seq(Given')
  BY <1>3, SeqMonotonic DEF TxInv, TxTyped
<1>5. queue' \in Seq(Given')  BY <1>1, <1>3, <1>4, AppendProperties
<1>6. TxTyped'
  <2>1. Len(txLens') <= MaxPkts  BY <1>1, <1>2, <1>3
  <2> QED  BY <1>1, <1>2, <1>4, <1>5, <2>1 DEF TxInv, TxTyped
<1>7. RoomKept' /\ InHand'  BY <1>1 DEF TxInv, RoomKept, InHand
<1>8. RoomLeft'
  <2>1. ASSUME txPc = "fill"
        PROVE  PagesOf(txLens', hand[count + Len(batch) + 1])
                 = PagesOf(txLens, hand[count + Len(batch) + 1])
    <3> DEFINE i == count + Len(batch) + 1
    <3>1. i \in 1 .. Len(hand)
      <4>1. Len(batch) \in Nat /\ Len(hand) \in Nat  BY LenProperties DEF TxInv, TxTyped
      <4> QED  BY <2>1, <4>1 DEF TxInv, TxTyped, RoomLeft
    <3>2. hand[i] \in Given  BY <3>1, ElementOfSeq DEF TxInv, TxTyped
    <3> QED  BY <1>2, <3>2 DEF PagesOf
  <2> QED  BY <1>1, <2>1 DEF TxInv, RoomLeft
<1>9. TxStep
  <2> DEFINE h == From(hand, written + 1)
  <2>1. h \in Seq(Given')
    <3>1. \A i \in written + 1 .. Len(hand) : hand[i] \in Given'
      <4>1. \A i \in written + 1 .. Len(hand) : i \in 1 .. Len(hand)
        BY LenProperties DEF TxInv, TxTyped
      <4> QED  BY <1>4, <4>1, ElementOfSeq
    <3>2. written + 1 \in Int /\ Len(hand) \in Int
      BY LenProperties DEF TxInv, TxTyped
    <3> QED  BY <3>1, <3>2, SubSeqProperties DEF From
  <2>2. h' = h  BY <1>1 DEF From
  <2> HIDE DEF h
  <2> DEFINE p == Len(txLens')
  <2>3. p \in Given' /\ p \in 1 .. MaxPkts /\ queue' = Append(queue, p)  BY <1>1, <1>3
  <2> HIDE DEF p
  <2>4. <<p>> \in Seq(Given')  BY <2>3
  <2>5. queue' = queue \o <<p>>  BY <1>4, <2>3, AppendIsConcat
  <2>6. h \o queue' = (h \o queue) \o <<p>>  BY <1>4, <2>1, <2>4, <2>5, ConcatAssociative
  <2>7. h \o queue \in Seq(Given')  BY <1>4, <2>1, ConcatProperties
  <2>8. h \o queue' = Append(h \o queue, p)  BY <2>3, <2>6, <2>7, AppendIsConcat
  <2>9. (From(hand, written + 1) \o queue)' = Append(From(hand, written + 1) \o queue, p)
    BY <2>2, <2>8 DEF h
  <2>10. Host2Chip!Give(p)  BY <1>1, <2>9 DEF Host2Chip!Give
  <2>11. Host2Chip!Next  BY <2>3, <2>10 DEF Host2Chip!Next
  <2> QED  BY <2>11 DEF TxStep
<1> QED  BY <1>6, <1>7, <1>8, <1>9 DEF TxInv

\* The oldest packets expire, and a burst of the rest is taken.
LEMMA TxDequeue ==
  ASSUME TxInv, NEW aged \in 0 .. MaxPkts, Dequeue(aged)
  PROVE  TxInv' /\ TxStep
<1> DEFINE n == Min2(Len(queue) - aged, TxMax)
<1>1. /\ txPc = "idle" /\ aged \in 0 .. Len(queue) /\ (aged = 0 \/ Ages)
      /\ hand' = SubSeq(queue, aged + 1, aged + n) /\ queue' = From(queue, aged + n + 1)
      /\ txPc' = "status" /\ txRet' = "ok"
      /\ txLens' = txLens /\ pages' = pages /\ places' = places /\ batch' = batch
      /\ load' = load /\ count' = count /\ vacant' = vacant
      /\ chipQ' = chipQ /\ processed' = processed /\ written' = written /\ arrived' = arrived
  BY DEF Dequeue, account, building, txChip, atChip, From
<1>2. Len(queue) \in Nat /\ queue \in Seq(Given)  BY LenProperties DEF TxInv, TxTyped
<1>3. n \in Nat /\ aged + n <= Len(queue)
  <2>1. TxMax \in Nat  BY YapsWriteAssumption
  <2>2. Len(queue) - aged \in Nat  BY <1>1, <1>2
  <2> QED  BY <1>2, <2>1, <2>2 DEF Min2
<1> HIDE DEF n
<1>4. /\ hand' \in Seq(Given) /\ queue' \in Seq(Given)
      /\ From(queue, aged + 1) = hand' \o queue'
  <2> DEFINE k == aged + n
  <2>1. aged \in Nat /\ k \in Nat /\ aged <= k /\ k <= Len(queue)  BY <1>1, <1>2, <1>3
  <2>2. hand' = SubSeq(queue, aged + 1, k) /\ queue' = From(queue, k + 1)  BY <1>1
  <2> HIDE DEF k
  <2>3. /\ SubSeq(queue, aged + 1, k) \in Seq(Given) /\ From(queue, k + 1) \in Seq(Given)
        /\ From(queue, aged + 1) = SubSeq(queue, aged + 1, k) \o From(queue, k + 1)
    BY <1>2, <2>1, CutFrom
  <2> QED  BY <2>2, <2>3
<1>5. hand = <<>> /\ written = 0 /\ batch = <<>> /\ load = 0
  BY <1>1 DEF TxInv, InHand
<1>6. TxTyped'  BY <1>1, <1>4 DEF TxInv, TxTyped, Given
<1>7. RoomKept' /\ RoomLeft' /\ InHand'
  BY <1>1, <1>5 DEF TxInv, RoomKept, RoomLeft, InHand
<1>8. Waits = queue
  <2>1. <<>> \in Seq(Given) /\ Len(<<>>) = 0  BY EmptySeq
  <2>2. SubSeq(<<>>, 0 + 1, 0) = <<>>  BY SubSeqEmpty
  <2>3. <<>> \o queue = queue  BY <1>2, ConcatEmptySeq
  <2> QED  BY <1>5, <2>1, <2>2, <2>3 DEF Waits, From
<1>9. Waits' = From(queue, aged + 1)
  <2>1. SubSeq(hand', 1, Len(hand')) = hand'  BY <1>4, SubSeqFull
  <2>2. written' + 1 = 1  BY <1>1, <1>5
  <2> QED  BY <1>4, <2>1, <2>2 DEF Waits, From
<1>10. CASE aged = 0
  <2>1. From(queue, 0 + 1) = queue  BY <1>2, SubSeqFull DEF From
  <2>2. Waits' = Waits  BY <1>8, <1>9, <1>10, <2>1
  <2>3. TxStep  BY <1>1, <1>2, <1>8, <2>2, TxSame
  <2> QED  BY <1>6, <1>7, <2>3 DEF TxInv
<1>11. CASE aged # 0
  <2>1. aged \in 1 .. Len(Waits) /\ Waits' = SubSeq(Waits, aged + 1, Len(Waits)) /\ Ages
    BY <1>1, <1>8, <1>9, <1>11 DEF From
  <2>2. Host2Chip!Expire(aged)
    BY <1>1, <2>1 DEF Host2Chip!Expire, Waits
  <2>3. Host2Chip!Next  BY <2>1, <2>2 DEF Host2Chip!Next, Waits
  <2> QED  BY <1>6, <1>7, <2>3 DEF TxInv, TxStep
<1> QED  BY <1>10, <1>11

\* The driver is told of no more pages than hold no words.
LEMMA StatusRead ==
  ASSUME TxTyped
  PROVE  LET n == IF FreePages > 0 THEN FreePages ELSE 0 IN n \in Nat /\ n <= vacant
<1>1. vacant \in Nat /\ processed \in Nat  BY DEF TxTyped
<1> QED  BY <1>1 DEF FreePages

LEMMA TxUpdateStatusKept ==
  ASSUME TxInv, TxUpdateStatus
  PROVE  TxInv' /\ TxStep
<1>1. /\ txPc = "status" /\ txLens' = txLens /\ queue' = queue /\ batch' = batch
      /\ load' = load /\ count' = count /\ vacant' = vacant
      /\ chipQ' = chipQ /\ processed' = processed /\ written' = written /\ arrived' = arrived
  BY DEF TxUpdateStatus, building, txChip, atChip
<1>2. batch = <<>> /\ load = 0 /\ written = 0 /\ txRet = "ok"
  BY <1>1 DEF TxInv, InHand
<1>3. /\ vacant \in Nat /\ QSize \in Nat /\ Len(chipQ) \in Nat /\ Len(chipQ) <= QSize
      /\ hand \in Seq(Given) /\ Len(hand) \in Nat /\ queue \in Seq(Given)
  BY LenProperties, YapsWriteAssumption DEF TxInv, TxTyped, RoomKept
<1>4. CASE /\ pages' = (IF FreePages > 0 THEN FreePages ELSE 0)
           /\ places' = QSize - Len(chipQ) /\ txPc' = "check"
           /\ hand' = hand /\ txRet' = txRet
  <2>0. pages' \in Nat /\ pages' <= vacant  BY <1>4, StatusRead DEF TxInv
  <2>1. places' \in Nat /\ places' + Len(chipQ) <= QSize  BY <1>3, <1>4
  <2>2. TxTyped'
    <3>1. PICK n \in Nat : pages' = n  BY <2>0
    <3> QED  BY <1>1, <1>3, <1>4, <2>1, <3>1 DEF TxInv, TxTyped, Given
  <2>3. RoomLeft' /\ RoomKept' /\ InHand'
    <3>1. RoomLeft'  BY <1>1, <1>4, <2>0, <2>1 DEF RoomLeft
    <3> QED  BY <1>1, <1>2, <1>4, <3>1 DEF TxInv, RoomKept, InHand
  <2>4. Waits' = Waits  BY <1>1, <1>4 DEF Waits, From
  <2>5. TxStep  BY <1>1, <1>2, <1>3, <2>4, HandWaits DEF TxInv
  <2> QED  BY <2>2, <2>3, <2>5 DEF TxInv
<1>5. CASE /\ hand' = <<>> /\ txRet' = "eio" /\ txPc' = "idle"
           /\ pages' = pages /\ places' = places
  <2>1. <<>> \in Seq(Given) /\ Len(<<>>) = 0  BY EmptySeq
  <2>2. TxTyped'  BY <1>1, <1>5, <2>1 DEF TxInv, TxTyped, Given
  <2>3. RoomLeft' /\ RoomKept' /\ InHand'
    BY <1>1, <1>2, <1>5 DEF TxInv, RoomKept, RoomLeft, InHand
  <2>4. Waits = hand \o queue
    <3>1. SubSeq(hand, 1, Len(hand)) = hand  BY <1>3, SubSeqFull
    <3>2. written + 1 = 1  BY <1>2
    <3> QED  BY <3>1, <3>2 DEF Waits, From
  <2>5. Waits' = queue
    <3>1. SubSeq(<<>>, 0 + 1, 0) = <<>>  BY SubSeqEmpty
    <3>2. <<>> \o queue = queue  BY <1>3, ConcatEmptySeq
    <3> QED  BY <1>1, <1>2, <1>5, <2>1, <3>1, <3>2 DEF Waits, From
  <2>6. arrived \in Seq(Given)  BY DEF TxInv, TxTyped
  <2>7. TxStep  BY <1>1, <1>3, <1>5, <2>4, <2>5, <2>6, TxFirst
  <2> QED  BY <2>2, <2>3, <2>7 DEF TxInv
<1> QED  BY <1>4, <1>5 DEF TxUpdateStatus, account

\* What fits is taken off the account, two pages more than its words need.
LEMMA Charged ==
  ASSUME TxTyped, NEW p \in Given, Charge(p)
  PROVE  /\ PagesOf(txLens, p) \in Nat /\ pages' \in Nat /\ places' \in Nat
         /\ WillFit(p) => /\ pages' + PagesOf(txLens, p) + 1 < pages
                             /\ pages' + PagesOf(txLens, p) + 2 = pages
                             /\ places' + 1 = places
         /\ ~WillFit(p) => pages' = pages /\ places' = places
<1>1. PagesOf(txLens, p) \in Nat  BY PagesOfType DEF TxTyped, Given
<1>2. PagesRequired(p) = PagesOf(txLens, p) + 2
  BY DEF PagesRequired, Needs, PagesOf
<1>3. pages \in Nat /\ places \in Nat  BY DEF TxTyped
<1> HIDE DEF PagesOf
<1>4. CASE WillFit(p)
  <2>1. PagesOf(txLens, p) + 2 <= pages /\ places # 0  BY <1>2, <1>4 DEF WillFit
  <2>2. pages' = pages - (PagesOf(txLens, p) + 2) /\ places' = places - 1
    BY <1>2, <1>4 DEF Charge
  <2> QED  BY <1>1, <1>3, <1>4, <2>1, <2>2
<1>5. CASE ~WillFit(p)
  <2>1. pages' = pages /\ places' = places  BY <1>5 DEF Charge, account
  <2> QED  BY <1>1, <1>3, <1>5, <2>1
<1> QED  BY <1>4, <1>5

LEMMA TxCheckFirst ==
  ASSUME TxInv, CheckFirst
  PROVE  TxInv' /\ TxStep
<1>1. /\ txPc = "check" /\ count' = 0 /\ txLens' = txLens /\ queue' = queue /\ hand' = hand
      /\ batch' = batch /\ load' = load /\ vacant' = vacant
      /\ chipQ' = chipQ /\ processed' = processed /\ written' = written /\ arrived' = arrived
      /\ txPc' = IF txRet' = "ok" /\ hand # <<>> THEN "fill" ELSE "exit"
  BY DEF CheckFirst, building, txChip, atChip
<1>2. /\ batch = <<>> /\ load = 0 /\ written = 0 /\ txRet = "ok"
      /\ pages <= vacant /\ places + Len(chipQ) <= QSize
  BY <1>1 DEF TxInv, InHand, RoomLeft
<1>3. /\ pages \in Nat /\ places \in Nat /\ vacant \in Nat /\ QSize \in Nat
      /\ Len(chipQ) \in Nat /\ hand \in Seq(Given) /\ Len(hand) \in Nat
      /\ Len(batch) = 0 /\ SubSeq(hand, 0 + 1, 0 + Len(batch)) = <<>>
  BY <1>2, LenProperties, EmptySeq, SubSeqEmpty, YapsWriteAssumption DEF TxInv, TxTyped
<1>4. Waits' = Waits  BY <1>1 DEF Waits, From
<1>5. TxStep  BY <1>1, <1>2, <1>3, <1>4, HandWaits DEF TxInv
<1>6. /\ pages' \in Nat /\ places' \in Nat
      /\ txPc' = "fill" =>
           /\ 0 < Len(hand)
           /\ pages' + 0 + PagesOf(txLens, hand[0 + 0 + 1]) + 1 < vacant
           /\ places' + 0 + Len(chipQ) < QSize
  <2>1. CASE hand = <<>>
    BY <1>1, <1>3, <2>1 DEF CheckFirst, account
  <2>2. CASE hand # <<>>
    <3>1. 1 \in 1 .. Len(hand) /\ hand[1] \in Given
      <4>1. 1 \in 1 .. Len(hand)  BY <1>3, <2>2, EmptySeq
      <4> QED  BY <1>3, <4>1, ElementOfSeq
    <3>2. /\ Charge(hand[1])
          /\ txRet' = (IF WillFit(hand[1]) THEN "ok" ELSE "again")
      BY <2>2 DEF CheckFirst
    <3>3. /\ PagesOf(txLens, hand[1]) \in Nat /\ pages' \in Nat /\ places' \in Nat
          /\ WillFit(hand[1]) => /\ pages' + PagesOf(txLens, hand[1]) + 1 < pages
                                    /\ places' + 1 = places
      BY <3>1, <3>2, Charged DEF TxInv
    <3>4. txPc' = "fill" => WillFit(hand[1])  BY <1>1, <3>2
    <3>5. 0 + 0 + 1 = 1 /\ 0 < Len(hand)  BY <1>3, <3>1
    <3> DEFINE g == PagesOf(txLens, hand[1])
    <3>6. PagesOf(txLens, hand[0 + 0 + 1]) = g  BY <3>5
    <3>7. /\ g \in Nat
          /\ txPc' = "fill" => pages' + g + 1 < pages /\ places' + 1 = places
      BY <3>3, <3>4
    <3> HIDE DEF g
    <3>8. PICK n \in Nat : pages' = n  BY <3>3
    <3>9. PICK m \in Nat : places' = m  BY <3>3
    <3>10. txPc' = "fill" => n + 0 + g + 1 < vacant /\ m + 0 + Len(chipQ) < QSize
      BY <1>2, <1>3, <3>7, <3>8, <3>9
    <3> QED  BY <3>3, <3>5, <3>6, <3>8, <3>9, <3>10
  <2> QED  BY <2>1, <2>2
<1>7. TxTyped'  BY <1>1, <1>6 DEF TxInv, TxTyped, Given
<1>8. RoomKept'  BY <1>1 DEF TxInv, RoomKept
<1>9. RoomLeft'
  <2> HIDE DEF PagesOf
  <2> QED  BY <1>1, <1>2, <1>3, <1>6 DEF RoomLeft
<1>10. InHand'
  <2>1. txPc' = "fill" => txRet' = "ok"  BY <1>1
  <2> QED  BY <1>1, <1>2, <1>3, <2>1 DEF InHand
<1> QED  BY <1>5, <1>7, <1>8, <1>9, <1>10 DEF TxInv

\* What the chip gets finds room, and is what waits first.
LEMMA Reached ==
  ASSUME TxInv, Reach,
         txPc = "fill" \/ (txPc = "exit" /\ batch # <<>>)
  PROVE  /\ pages + 1 < vacant' /\ vacant' \in Nat
         /\ chipQ' \in Seq(Given) /\ Len(chipQ') = Len(chipQ) + Len(batch)
         /\ places + Len(chipQ') <= QSize /\ RoomKept'
         /\ arrived' \in Seq(Given) /\ arrived' = arrived \o batch
         /\ processed' \in Nat /\ processed' <= Len(chipQ')
<1>1. /\ vacant' = vacant - load /\ chipQ' = chipQ \o batch /\ arrived' = arrived \o batch
      /\ processed' = processed
  BY DEF Reach
<1>2. /\ pages \in Nat /\ places \in Nat /\ load \in Nat /\ vacant \in Nat /\ written \in Nat
      /\ batch \in Seq(Given) /\ chipQ \in Seq(Given) /\ arrived \in Seq(Given)
      /\ Len(batch) \in Nat /\ Len(chipQ) \in Nat /\ QSize \in Nat
  BY LenProperties, YapsWriteAssumption DEF TxInv, TxTyped
<1>3. pages + load + 1 < vacant /\ places + Len(batch) + Len(chipQ) <= QSize
  <2>1. CASE txPc = "fill"
    <3>1. /\ count + Len(batch) < Len(hand)
          /\ pages + load + PagesOf(txLens, hand[count + Len(batch) + 1]) + 1 < vacant
          /\ places + Len(batch) + Len(chipQ) < QSize
      BY <2>1 DEF TxInv, RoomLeft
    <3>2. PagesOf(txLens, hand[count + Len(batch) + 1]) \in Nat
      <4>1. count \in Nat /\ Len(hand) \in Nat /\ hand \in Seq(Given)
        BY LenProperties DEF TxInv, TxTyped
      <4>2. count + Len(batch) + 1 \in 1 .. Len(hand)  BY <1>2, <3>1, <4>1
      <4>3. hand[count + Len(batch) + 1] \in Given  BY <4>1, <4>2, ElementOfSeq
      <4> QED  BY <4>3, PagesOfType DEF TxInv, TxTyped, Given
    <3> HIDE DEF PagesOf
    <3> QED  BY <1>2, <3>1, <3>2
  <2>2. CASE txPc = "exit" /\ batch # <<>>
    BY <2>2 DEF TxInv, RoomLeft
  <2> QED  BY <2>1, <2>2
<1>4. /\ chipQ' \in Seq(Given) /\ Len(chipQ') = Len(chipQ) + Len(batch)
      /\ arrived' \in Seq(Given)
  BY <1>1, <1>2, ConcatProperties
<1>5. /\ vacant' \in Nat /\ pages + 1 < vacant' /\ vacant' > 1
      /\ places + Len(chipQ') <= QSize /\ Len(chipQ') <= QSize
  BY <1>1, <1>2, <1>3, <1>4
<1>6. processed' \in Nat /\ processed' <= Len(chipQ')
  BY <1>1, <1>2, <1>4 DEF TxInv, TxTyped
<1> QED  BY <1>1, <1>2, <1>4, <1>5, <1>6 DEF RoomKept

LEMMA BatchWaits ==
  ASSUME TxInv, txPc \in {"fill", "exit"}
  PROVE  /\ From(hand, written + Len(batch) + 1) \o queue \in Seq(Given)
         /\ Waits = batch \o (From(hand, written + Len(batch) + 1) \o queue)
<1>1. /\ count = written /\ count + Len(batch) <= Len(hand)
      /\ batch = SubSeq(hand, count + 1, count + Len(batch))
  BY DEF TxInv, InHand
<1>2. /\ hand \in Seq(Given) /\ queue \in Seq(Given) /\ batch \in Seq(Given)
      /\ written \in Nat /\ Len(batch) \in Nat
  BY LenProperties DEF TxInv, TxTyped
<1>3. /\ From(hand, written + Len(batch) + 1) \in Seq(Given)
      /\ From(hand, written + 1) = batch \o From(hand, written + Len(batch) + 1)
  <2> DEFINE k == written + Len(batch)
  <2>1. k \in Nat /\ written <= k /\ k <= Len(hand) /\ batch = SubSeq(hand, written + 1, k)
    BY <1>1, <1>2
  <2>2. written + Len(batch) + 1 = k + 1  OBVIOUS
  <2> HIDE DEF k
  <2>3. /\ From(hand, k + 1) \in Seq(Given)
        /\ From(hand, written + 1) = SubSeq(hand, written + 1, k) \o From(hand, k + 1)
    BY <1>2, <2>1, CutFrom
  <2> QED  BY <2>1, <2>2, <2>3
<1>4. Waits = (batch \o From(hand, written + Len(batch) + 1)) \o queue
  BY <1>3 DEF Waits, From
<1> DEFINE r == From(hand, written + Len(batch) + 1)
<1>5. r \in Seq(Given) /\ Waits = (batch \o r) \o queue  BY <1>3, <1>4
<1> HIDE DEF r
<1>6. r \o queue \in Seq(Given) /\ Waits = batch \o (r \o queue)
  BY <1>2, <1>5, ConcatProperties, ConcatAssociative
<1> QED  BY <1>6 DEF r

\* A window is written, or the transfer fails and the packets in it stay.
LEMMA TxWriteWindow ==
  ASSUME TxInv, WriteWindow
  PROVE  TxInv' /\ TxStep
<1>1. /\ txPc = "fill" /\ batch' = <<>> /\ load' = 0 /\ txLens' = txLens /\ queue' = queue
      /\ hand' = hand /\ pages' = pages /\ places' = places
  BY DEF WriteWindow, account
<1>2. /\ hand \in Seq(Given) /\ Len(hand) \in Nat /\ batch \in Seq(Given) /\ Len(batch) \in Nat
      /\ count \in Nat /\ written \in Nat /\ pages \in Nat /\ places \in Nat /\ load \in Nat
      /\ vacant \in Nat /\ Len(chipQ) \in Nat /\ QSize \in Nat /\ arrived \in Seq(Given)
      /\ <<>> \in Seq(Given) /\ Len(<<>>) = 0
  BY LenProperties, EmptySeq, YapsWriteAssumption DEF TxInv, TxTyped
<1>3. /\ count = written /\ count + Len(batch) < Len(hand) /\ txRet = "ok"
      /\ pages + load + PagesOf(txLens, hand[count + Len(batch) + 1]) + 1 < vacant
      /\ places + Len(batch) + Len(chipQ) < QSize
  BY <1>1 DEF TxInv, InHand, RoomLeft
<1>4. CASE Transfer /\ count' = count + Len(batch) /\ txPc' = txPc /\ txRet' = txRet
  <2>1. /\ vacant' \in Nat /\ chipQ' \in Seq(Given) /\ Len(chipQ') = Len(chipQ) + Len(batch)
        /\ RoomKept' /\ arrived' \in Seq(Given) /\ arrived' = arrived \o batch
        /\ written' = written + Len(batch) /\ written' \in Nat
        /\ processed' \in Nat /\ processed' <= Len(chipQ')
    <3>1. Reach /\ written' = written + Len(batch)  BY <1>4 DEF Transfer
    <3>2. /\ vacant' \in Nat /\ chipQ' \in Seq(Given) /\ Len(chipQ') = Len(chipQ) + Len(batch)
          /\ RoomKept' /\ arrived' \in Seq(Given) /\ arrived' = arrived \o batch
          /\ processed' \in Nat /\ processed' <= Len(chipQ')
      BY <1>1, <3>1, Reached
    <3>3. written' \in Nat  BY <1>2, <3>1
    <3> QED  BY <3>1, <3>2, <3>3
  <2>2. count' \in Nat /\ count' = written'  BY <1>2, <1>3, <1>4, <2>1
  <2>3. TxTyped'  BY <1>1, <1>2, <1>4, <2>1, <2>2 DEF TxInv, TxTyped, Given
  <2>4. RoomLeft'
    <3>1. count' + Len(batch') = count + Len(batch) /\ count' + Len(batch') + 1 = count + Len(batch) + 1
      BY <1>1, <1>2, <1>4
    <3>2. places + 0 + Len(chipQ') < QSize  BY <1>2, <1>3, <2>1
    <3>3. vacant' = vacant - load  BY <1>4 DEF Transfer, Reach
    <3>4. pages + 0 + PagesOf(txLens, hand[count + Len(batch) + 1]) + 1 < vacant'
      <4>1. PagesOf(txLens, hand[count + Len(batch) + 1]) \in Nat
        <5>1. count + Len(batch) + 1 \in 1 .. Len(hand)  BY <1>2, <1>3
        <5>2. hand[count + Len(batch) + 1] \in Given  BY <1>2, <5>1, ElementOfSeq
        <5> QED  BY <5>2, PagesOfType DEF TxInv, TxTyped, Given
      <4> HIDE DEF PagesOf
      <4> QED  BY <1>2, <1>3, <3>3, <4>1
    <3> HIDE DEF PagesOf
    <3> QED  BY <1>1, <1>2, <1>3, <1>4, <3>1, <3>2, <3>4 DEF RoomLeft
  <2>5. InHand'
    <3>1. <<>> = SubSeq(hand, count' + 1, count' + 0)
      <4>1. PICK c \in Nat : count' = c  BY <2>2
      <4>2. c + 1 \in Int /\ c + 0 \in Int /\ c + 0 < c + 1  OBVIOUS
      <4>3. SubSeq(hand, c + 1, c + 0) = <<>>  BY <4>2, SubSeqEmpty
      <4> QED  BY <4>1, <4>3
    <3>2. count' + 0 <= Len(hand)  BY <1>2, <1>3, <1>4
    <3> QED  BY <1>1, <1>2, <1>3, <1>4, <2>2, <3>1, <3>2 DEF InHand
  <2>6. TxStep
    <3> DEFINE y == From(hand, written + Len(batch) + 1) \o queue
    <3>1. y \in Seq(Given) /\ Waits = batch \o y  BY <1>1, BatchWaits
    <3>2. Waits' = y  BY <1>1, <2>1 DEF Waits, From
    <3> HIDE DEF y
    <3>3. txRet' # "eio"  BY <1>3, <1>4
    <3> QED  BY <1>2, <2>1, <3>1, <3>2, <3>3, TxFirst
  <2> QED  BY <2>1, <2>3, <2>4, <2>5, <2>6 DEF TxInv
<1>5. CASE FailedTransfer /\ txPc' = "exit" /\ count' = count
  <2>1. /\ txRet' = "eio" /\ written' = written /\ Waits' = Waits /\ written <= Len(hand)
    BY <1>1, <1>2, <1>3, <1>5 DEF FailedTransfer, Waits, From
  <2>2. RoomLeft'  BY <1>1, <1>5 DEF RoomLeft
  <2>3. InHand'
    <3>1. <<>> = SubSeq(hand, count + 1, count + 0)  BY <1>2, SubSeqEmpty
    <3>2. count + 0 <= Len(hand)  BY <1>2, <1>3
    <3> QED  BY <1>1, <1>2, <1>3, <1>5, <2>1, <3>1, <3>2 DEF InHand
  <2>4. CASE Reach
    <3>1. /\ vacant' \in Nat /\ chipQ' \in Seq(Given) /\ RoomKept' /\ arrived' \in Seq(Given)
          /\ arrived' = arrived \o batch /\ processed' \in Nat /\ processed' <= Len(chipQ')
      BY <1>1, <2>4, Reached
    <3>2. TxTyped'  BY <1>1, <1>2, <1>5, <2>1, <3>1 DEF TxInv, TxTyped, Given
    <3>3. TxStep
      <4> DEFINE y == From(hand, written + Len(batch) + 1) \o queue
      <4>1. y \in Seq(Given) /\ Waits = batch \o y  BY <1>1, BatchWaits
      <4> HIDE DEF y
      <4> QED  BY <1>2, <2>1, <3>1, <4>1, TxUnseen
    <3> QED  BY <2>2, <2>3, <3>1, <3>2, <3>3 DEF TxInv
  <2>5. CASE vacant' = vacant /\ chipQ' = chipQ /\ processed' = processed /\ arrived' = arrived
    <3>1. TxTyped'  BY <1>1, <1>2, <1>5, <2>1, <2>5 DEF TxInv, TxTyped, Given
    <3>2. RoomKept'  BY <2>5 DEF TxInv, RoomKept
    <3>3. TxStep  BY <2>1, <2>5, HandWaits DEF TxInv
    <3> QED  BY <2>2, <2>3, <3>1, <3>2, <3>3 DEF TxInv
  <2> QED  BY <1>5, <2>4, <2>5 DEF FailedTransfer, atChip
<1> QED  BY <1>4, <1>5 DEF WriteWindow, txChip, atChip

\* A packet goes into the buffer, and the next one is charged if it fits.
LEMMA TxFill ==
  ASSUME TxInv, Fill
  PROVE  TxInv' /\ TxStep
<1> DEFINE b == Len(batch)
           i == count + b + 1
<1>1. /\ txPc = "fill" /\ batch' = Append(batch, hand[i]) /\ load' = load + PagesOf(txLens, hand[i])
      /\ txLens' = txLens /\ queue' = queue /\ hand' = hand /\ count' = count
      /\ vacant' = vacant /\ chipQ' = chipQ /\ processed' = processed /\ written' = written /\ arrived' = arrived
  BY DEF Fill, At, Needs, txChip, atChip, PagesOf
<1>2. /\ hand \in Seq(Given) /\ Len(hand) \in Nat /\ batch \in Seq(Given) /\ b \in Nat
      /\ count \in Nat /\ written \in Nat /\ pages \in Nat /\ places \in Nat /\ load \in Nat
      /\ vacant \in Nat /\ Len(chipQ) \in Nat /\ QSize \in Nat
  BY LenProperties, YapsWriteAssumption DEF TxInv, TxTyped
<1>3. /\ count = written /\ count + b < Len(hand) /\ txRet = "ok"
      /\ batch = SubSeq(hand, count + 1, count + b)
      /\ pages + load + PagesOf(txLens, hand[i]) + 1 < vacant
      /\ places + b + Len(chipQ) < QSize
  BY <1>1 DEF TxInv, InHand, RoomLeft
<1>4. i \in 1 .. Len(hand) /\ hand[i] \in Given /\ PagesOf(txLens, hand[i]) \in Nat
  <2>1. i \in 1 .. Len(hand)  BY <1>2, <1>3
  <2>2. hand[i] \in Given  BY <1>2, <2>1, ElementOfSeq
  <2> QED  BY <2>1, <2>2, PagesOfType DEF TxInv, TxTyped, Given
<1>5. /\ batch' \in Seq(Given) /\ Len(batch') = b + 1 /\ batch' # <<>>
      /\ batch' = SubSeq(hand, count + 1, i)
  <2>1. batch' \in Seq(Given) /\ Len(batch') = b + 1 /\ batch' # <<>>
        /\ batch' = batch \o <<hand[i]>>
    <3> DEFINE e == hand[i]
    <3>1. e \in Given /\ batch' = Append(batch, e)  BY <1>1, <1>4
    <3> HIDE DEF e
    <3>2. /\ Append(batch, e) \in Seq(Given) /\ Len(Append(batch, e)) = Len(batch) + 1
          /\ Append(batch, e) # <<>>
      BY <1>2, <3>1, AppendProperties
    <3>3. Append(batch, e) = batch \o <<e>>  BY <1>2, <3>1, AppendIsConcat
    <3> QED  BY <3>1, <3>2, <3>3 DEF e
  <2>2. SubSeq(hand, count + 1, i) = SubSeq(hand, count + 1, i - 1) \o <<hand[i]>>
    <3>1. count + 1 \in 1 .. Len(hand) /\ i \in count + 1 .. Len(hand)  BY <1>2, <1>4
    <3> HIDE DEF i
    <3> QED  BY <1>2, <3>1, SubSeqRecursiveSecond
  <2>3. i - 1 = count + b  BY <1>2
  <2> QED  BY <1>3, <2>1, <2>2, <2>3
<1> DEFINE g == PagesOf(txLens, hand[i])
           l == load + g
<1>6. l \in Nat /\ load' = l /\ pages + l + 1 < vacant
  <2>1. g \in Nat /\ load' = load + g /\ pages + load + g + 1 < vacant  BY <1>1, <1>3, <1>4
  <2> HIDE DEF g
  <2> QED  BY <1>2, <2>1
<1> HIDE DEF b, i, g, l
<1>7. /\ pages' \in Nat /\ places' \in Nat /\ txRet' \in {"ok", "again"}
      /\ \/ txPc' = "exit" /\ pages' = pages /\ places' = places
         \/ /\ txPc' = "fill" /\ txRet' = "ok" /\ i < Len(hand)
            /\ PagesOf(txLens, hand[i + 1]) \in Nat
            /\ pages' + PagesOf(txLens, hand[i + 1]) + 2 = pages /\ places' + 1 = places
  <2>1. CASE i = Len(hand)
    <3>1. txPc' = "exit" /\ pages' = pages /\ places' = places /\ txRet' = txRet
      BY <2>1 DEF Fill, At, account, i, b
    <3> QED  BY <1>2, <1>3, <3>1
  <2>2. CASE i # Len(hand)
    <3>1. i < Len(hand) /\ i + 1 \in 1 .. Len(hand)  BY <1>2, <1>4, <2>2
    <3>2. hand[i + 1] \in Given  BY <1>2, <3>1, ElementOfSeq
    <3>3. /\ Charge(hand[i + 1])
          /\ IF WillFit(hand[i + 1]) THEN txPc' = txPc /\ txRet' = txRet
             ELSE txPc' = "exit" /\ txRet' = "again"
      BY <2>2 DEF Fill, At, i, b
    <3>4. /\ PagesOf(txLens, hand[i + 1]) \in Nat /\ pages' \in Nat /\ places' \in Nat
          /\ WillFit(hand[i + 1]) =>
               /\ pages' + PagesOf(txLens, hand[i + 1]) + 2 = pages
               /\ places' + 1 = places
          /\ ~WillFit(hand[i + 1]) => pages' = pages /\ places' = places
      BY <3>2, <3>3, Charged DEF TxInv
    <3>5. CASE WillFit(hand[i + 1])
      BY <1>1, <1>3, <3>1, <3>3, <3>4, <3>5
    <3>6. CASE ~WillFit(hand[i + 1])
      BY <3>3, <3>4, <3>6
    <3> QED  BY <3>5, <3>6
  <2> QED  BY <2>1, <2>2
<1>8. TxTyped'
  <2>1. txPc' \in {"fill", "exit"}  BY <1>7
  <2> QED  BY <1>1, <1>2, <1>5, <1>6, <1>7, <2>1 DEF TxInv, TxTyped, Given
<1>9. RoomKept'  BY <1>1 DEF TxInv, RoomKept
<1>10. RoomLeft'
  <2>1. CASE txPc' = "exit" /\ pages' = pages /\ places' = places
    <3>1. places + (b + 1) + Len(chipQ) <= QSize  BY <1>2, <1>3 DEF b
    <3> QED  BY <1>1, <1>5, <1>6, <2>1, <3>1 DEF RoomLeft
  <2>2. CASE /\ txPc' = "fill" /\ i < Len(hand) /\ PagesOf(txLens, hand[i + 1]) \in Nat
             /\ pages' + PagesOf(txLens, hand[i + 1]) + 2 = pages /\ places' + 1 = places
    <3> DEFINE h == PagesOf(txLens, hand[i + 1])
    <3>1. PICK n \in Nat : pages' = n  BY <1>7
    <3>2. PICK m \in Nat : places' = m  BY <1>7
    <3>3. n + h + 2 = pages /\ m + 1 = places /\ h \in Nat  BY <2>2, <3>1, <3>2
    <3>4. count + (b + 1) = i /\ count + (b + 1) + 1 = i + 1  BY <1>2 DEF i, b
    <3>5. m + (b + 1) + Len(chipQ) < QSize  BY <1>2, <1>3, <3>3 DEF b
    <3> HIDE DEF h
    <3>6. n + l + h + 1 < vacant  BY <1>2, <1>6, <3>3
    <3>7. /\ count' + Len(batch') < Len(hand')
          /\ pages' + load' + PagesOf(txLens', hand'[count' + Len(batch') + 1]) + 1 < vacant'
          /\ places' + Len(batch') + Len(chipQ') < QSize
      BY <1>1, <1>5, <1>6, <2>2, <3>1, <3>2, <3>4, <3>5, <3>6 DEF h
    <3> QED  BY <2>2, <3>7 DEF RoomLeft
  <2> QED  BY <1>7, <2>1, <2>2
<1>11. InHand'
  <2>1. count + (b + 1) = i  BY <1>2 DEF i, b
  <2>2. i <= Len(hand)  BY <1>2, <1>4
  <2>3. txPc' \in {"fill", "exit"} /\ (txPc' = "fill" => txRet' = "ok")  BY <1>7
  <2> QED  BY <1>1, <1>3, <1>5, <2>1, <2>2, <2>3 DEF InHand
<1>12. TxStep
  <2>1. Waits' = Waits  BY <1>1 DEF Waits, From
  <2>2. written <= Len(hand)  BY <1>2, <1>3 DEF b
  <2> QED  BY <1>1, <2>1, <2>2, HandWaits DEF TxInv
<1> QED  BY <1>8, <1>9, <1>10, <1>11, <1>12 DEF TxInv

\* What is left in the buffer is written and counted, also if that fails.
LEMMA TxWriteRest ==
  ASSUME TxInv, WriteRest
  PROVE  TxInv' /\ TxStep
<1>1. /\ txPc = "exit" /\ txPc' = "done" /\ count' = count + Len(batch) /\ txLens' = txLens
      /\ queue' = queue /\ hand' = hand /\ pages' = pages /\ places' = places
      /\ batch' = batch /\ load' = load
  BY DEF WriteRest, account, building
<1>2. /\ hand \in Seq(Given) /\ Len(hand) \in Nat /\ batch \in Seq(Given) /\ Len(batch) \in Nat
      /\ count \in Nat /\ written \in Nat /\ arrived \in Seq(Given)
  BY LenProperties DEF TxInv, TxTyped
<1>3. count = written /\ count + Len(batch) <= Len(hand)
  BY <1>1 DEF TxInv, InHand
<1>4. RoomLeft'  BY <1>1 DEF RoomLeft
<1>5. CASE batch # <<>> /\ Transfer /\ txRet' = "ok"
  <2>1. /\ vacant' \in Nat /\ chipQ' \in Seq(Given) /\ RoomKept'
        /\ arrived' \in Seq(Given) /\ arrived' = arrived \o batch
        /\ written' = written + Len(batch) /\ written' \in Nat
        /\ processed' \in Nat /\ processed' <= Len(chipQ')
    <3>1. Reach /\ written' = written + Len(batch)  BY <1>5 DEF Transfer
    <3>2. /\ vacant' \in Nat /\ chipQ' \in Seq(Given) /\ RoomKept'
          /\ arrived' \in Seq(Given) /\ arrived' = arrived \o batch
          /\ processed' \in Nat /\ processed' <= Len(chipQ')
      BY <1>1, <1>5, <3>1, Reached
    <3>3. written' \in Nat  BY <1>2, <3>1
    <3> QED  BY <3>1, <3>2, <3>3
  <2>2. count' = written'  BY <1>1, <1>3, <2>1
  <2>3. TxTyped'  BY <1>1, <2>1, <2>2 DEF TxInv, TxTyped, Given
  <2>4. InHand'
    <3>1. PICK n \in Nat : written' = n  BY <2>1
    <3>2. n <= n /\ n <= Len(hand)  BY <1>2, <1>3, <2>1, <3>1
    <3> QED  BY <1>1, <2>2, <3>1, <3>2 DEF InHand
  <2>5. TxStep
    <3> DEFINE y == From(hand, written + Len(batch) + 1) \o queue
    <3>1. y \in Seq(Given) /\ Waits = batch \o y  BY <1>1, BatchWaits
    <3>2. Waits' = y  BY <1>1, <2>1 DEF Waits, From
    <3> HIDE DEF y
    <3>3. txRet' # "eio"  BY <1>5
    <3> QED  BY <1>2, <2>1, <3>1, <3>2, <3>3, TxFirst
  <2> QED  BY <1>4, <2>1, <2>3, <2>4, <2>5 DEF TxInv
<1>6. CASE batch # <<>> /\ FailedTransfer /\ Reach
  <2>1. /\ txRet' = "eio" /\ written' = written /\ Waits' = Waits /\ written <= Len(hand)
    BY <1>1, <1>2, <1>3, <1>6 DEF FailedTransfer, Waits, From
  <2>2. /\ vacant' \in Nat /\ chipQ' \in Seq(Given) /\ RoomKept' /\ arrived' \in Seq(Given)
        /\ arrived' = arrived \o batch /\ processed' \in Nat /\ processed' <= Len(chipQ')
    BY <1>1, <1>6, Reached
  <2>3. count + Len(batch) \in Nat /\ written <= count + Len(batch)  BY <1>2, <1>3
  <2>4. TxTyped'  BY <1>1, <2>1, <2>2, <2>3 DEF TxInv, TxTyped, Given
  <2>5. InHand'  BY <1>1, <1>3, <2>1, <2>3 DEF InHand
  <2>6. TxStep
    <3> DEFINE y == From(hand, written + Len(batch) + 1) \o queue
    <3>1. y \in Seq(Given) /\ Waits = batch \o y  BY <1>1, BatchWaits
    <3> HIDE DEF y
    <3> QED  BY <1>2, <2>1, <2>2, <3>1, TxUnseen
  <2> QED  BY <1>4, <2>2, <2>4, <2>5, <2>6 DEF TxInv
<1>7. CASE /\ batch = <<>> \/ txRet' = "eio"
           /\ vacant' = vacant /\ chipQ' = chipQ /\ processed' = processed /\ written' = written
           /\ arrived' = arrived
  <2>1. count + Len(batch) \in Nat /\ written <= count + Len(batch) /\ written <= Len(hand)
        /\ (count + Len(batch) = written \/ txRet' = "eio")
    BY <1>2, <1>3, <1>7, EmptySeq
  <2>2. TxTyped'  BY <1>1, <1>7, <2>1 DEF TxInv, TxTyped, Given
  <2>3. RoomKept'  BY <1>7 DEF TxInv, RoomKept
  <2>4. InHand'  BY <1>1, <1>3, <1>7, <2>1 DEF InHand
  <2>5. Waits' = Waits  BY <1>1, <1>7 DEF Waits, From
  <2>6. TxStep  BY <1>7, <2>1, <2>5, HandWaits DEF TxInv
  <2> QED  BY <1>4, <2>2, <2>3, <2>4, <2>6 DEF TxInv
<1> QED  BY <1>5, <1>6, <1>7 DEF WriteRest, FailedTransfer, txChip, atChip

\* What was counted is complete, and the others go back to the queue: nothing
\* moves, unless a transfer failed and its packets were counted.
LEMMA TxComplete ==
  ASSUME TxInv, Complete
  PROVE  TxInv' /\ TxStep
<1>1. /\ txPc = "done" /\ queue' = From(hand, count + 1) \o queue /\ txPc' = "idle"
      /\ hand' = <<>> /\ batch' = <<>> /\ load' = 0 /\ count' = 0 /\ written' = 0
      /\ txLens' = txLens /\ pages' = pages /\ places' = places /\ txRet' = txRet
      /\ vacant' = vacant /\ chipQ' = chipQ /\ processed' = processed /\ arrived' = arrived
  BY DEF Complete, account, From, atChip
<1>2. /\ hand \in Seq(Given) /\ queue \in Seq(Given) /\ arrived \in Seq(Given)
      /\ count \in Nat /\ written \in Nat /\ Len(hand) \in Nat
      /\ <<>> \in Seq(Given) /\ Len(<<>>) = 0
  BY LenProperties, EmptySeq DEF TxInv, TxTyped
<1>3. written <= count /\ count <= Len(hand) /\ (count = written \/ txRet = "eio")
  BY <1>1 DEF TxInv, InHand
<1> DEFINE x == SubSeq(hand, written + 1, count)
           y == From(hand, count + 1)
<1>4. x \in Seq(Given) /\ y \in Seq(Given) /\ From(hand, written + 1) = x \o y
  <2>1. /\ SubSeq(hand, written + 1, count) \in Seq(Given) /\ From(hand, count + 1) \in Seq(Given)
        /\ From(hand, written + 1) = SubSeq(hand, written + 1, count) \o From(hand, count + 1)
    BY <1>2, <1>3, CutFrom
  <2> QED  BY <2>1
<1>5. x = <<>> \/ txRet = "eio"
  <2>1. CASE count = written
    <3>1. written + 1 \in Int /\ written \in Int /\ written < written + 1  BY <1>2
    <3>2. SubSeq(hand, written + 1, written) = <<>>  BY <3>1, SubSeqEmpty
    <3> QED  BY <2>1, <3>2
  <2> QED  BY <1>3, <2>1
<1>6. queue' = y \o queue  BY <1>1
<1>7. Waits = (x \o y) \o queue  BY <1>4 DEF Waits, From
<1> HIDE DEF x, y
<1>8. y \o queue \in Seq(Given)  BY <1>2, <1>4, ConcatProperties
<1>9. TxTyped'  BY <1>1, <1>2, <1>6, <1>8 DEF TxInv, TxTyped, Given
<1>10. RoomKept' /\ RoomLeft' /\ InHand'
  BY <1>1 DEF TxInv, RoomKept, RoomLeft, InHand
<1>11. Waits = x \o (y \o queue)
  <2>0. x \in Seq(Given) /\ y \in Seq(Given) /\ queue \in Seq(Given)  BY <1>2, <1>4
  <2>1. (x \o y) \o queue = x \o (y \o queue)  BY ONLY <2>0, ConcatAssociative
  <2> QED  BY <1>7, <2>1
<1>12. Waits' = y \o queue
  <2>1. SubSeq(<<>>, 0 + 1, 0) = <<>>  BY SubSeqEmpty
  <2>2. <<>> \o (y \o queue) = y \o queue  BY <1>8, ConcatEmptySeq
  <2> QED  BY <1>1, <1>2, <1>6, <2>1, <2>2 DEF Waits, From
<1>13. TxStep
  <2>1. CASE x = <<>>
    <3>1. Waits' = Waits /\ Waits \in Seq(Given)
      BY <1>8, <1>11, <1>12, <2>1, ConcatEmptySeq
    <3> QED  BY <1>1, <3>1, TxSame
  <2>2. CASE txRet = "eio"
    BY <1>1, <1>2, <1>4, <1>8, <1>11, <1>12, <2>2, TxFirst
  <2> QED  BY <1>5, <2>1, <2>2
<1> QED  BY <1>9, <1>10, <1>13 DEF TxInv

\* The chip works off a packet and has its pages again.
LEMMA TxChipTakes ==
  ASSUME TxInv, ChipTakes
  PROVE  TxInv' /\ TxStep
<1> DEFINE g == PagesOf(txLens, Head(chipQ))
<1>0. chipQ # <<>>
  BY EmptySeq DEF ChipTakes, TxInv, TxTyped
<1>1. /\ vacant' = vacant + g /\ chipQ' = Tail(chipQ) /\ processed' = processed - 1
      /\ txLens' = txLens /\ queue' = queue /\ hand' = hand /\ txPc' = txPc /\ pages' = pages
      /\ places' = places /\ batch' = batch /\ load' = load /\ count' = count /\ txRet' = txRet
      /\ written' = written /\ arrived' = arrived
  BY DEF ChipTakes, account, building, Needs, PagesOf
<1>2. /\ chipQ \in Seq(Given) /\ Len(chipQ) \in Nat /\ vacant \in Nat /\ vacant > 1
      /\ pages \in Nat /\ places \in Nat /\ load \in Nat /\ Len(batch) \in Nat /\ QSize \in Nat
      /\ Len(chipQ) <= QSize
  BY <1>0, LenProperties, YapsWriteAssumption DEF TxInv, TxTyped, RoomKept
<1>3. /\ chipQ' \in Seq(Given) /\ Len(chipQ') = Len(chipQ) - 1 /\ Head(chipQ) \in Given
  BY <1>0, <1>1, <1>2, HeadTailProperties
<1>4. g \in Nat  BY <1>3, PagesOfType DEF TxInv, TxTyped, Given
<1> HIDE DEF g
<1>5. PICK n \in Nat : vacant' = n  BY <1>1, <1>2, <1>4
<1>6. PICK m \in Int : Len(chipQ') = m  BY <1>2, <1>3
<1>7. n >= vacant /\ m < Len(chipQ)  BY <1>1, <1>2, <1>3, <1>4, <1>5, <1>6
<1>8. TxTyped'
  <2>1. processed' \in Nat /\ processed' <= Len(chipQ')
    BY <1>1, <1>2, <1>3 DEF ChipTakes, TxInv, TxTyped
  <2> QED  BY <1>1, <1>3, <1>5, <2>1 DEF TxInv, TxTyped, Given
<1>9. RoomKept'
  <2>1. n > 1 /\ m <= QSize  BY <1>2, <1>7
  <2> QED  BY <1>5, <1>6, <2>1 DEF RoomKept
<1>10. RoomLeft'
  <2>1. ASSUME txPc = "check"  PROVE pages <= n /\ places + m <= QSize
    <3>1. pages <= vacant /\ places + Len(chipQ) <= QSize  BY <2>1 DEF TxInv, RoomLeft
    <3> QED  BY <1>2, <1>7, <3>1
  <2>2. ASSUME txPc = "fill"
        PROVE  /\ count + Len(batch) < Len(hand)
               /\ pages + load + PagesOf(txLens, hand[count + Len(batch) + 1]) + 1 < n
               /\ places + Len(batch) + m < QSize
    <3> DEFINE h == PagesOf(txLens, hand[count + Len(batch) + 1])
    <3>1. /\ count + Len(batch) < Len(hand) /\ pages + load + h + 1 < vacant
          /\ places + Len(batch) + Len(chipQ) < QSize
      BY <2>2 DEF TxInv, RoomLeft
    <3>2. h \in Nat
      <4>1. count \in Nat /\ Len(hand) \in Nat /\ hand \in Seq(Given)
        BY LenProperties DEF TxInv, TxTyped
      <4>2. count + Len(batch) + 1 \in 1 .. Len(hand)  BY <1>2, <3>1, <4>1
      <4>3. hand[count + Len(batch) + 1] \in Given  BY <4>1, <4>2, ElementOfSeq
      <4> QED  BY <4>3, PagesOfType DEF TxInv, TxTyped, Given
    <3> HIDE DEF h
    <3>3. pages + load + h + 1 < n /\ places + Len(batch) + m < QSize
      BY <1>2, <1>7, <3>1, <3>2
    <3> QED  BY <3>1, <3>3 DEF h
  <2>3. ASSUME txPc = "exit" /\ batch # <<>>
        PROVE  pages + load + 1 < n /\ places + Len(batch) + m <= QSize
    <3>1. pages + load + 1 < vacant /\ places + Len(batch) + Len(chipQ) <= QSize
      BY <2>3 DEF TxInv, RoomLeft
    <3> QED  BY <1>2, <1>7, <3>1
  <2> QED  BY <1>1, <1>5, <1>6, <2>1, <2>2, <2>3 DEF RoomLeft
<1>11. InHand'  BY <1>1 DEF TxInv, InHand
<1>12. TxStep
  <2>1. (From(hand, written + 1) \o queue)' = From(hand, written + 1) \o queue
    BY <1>1 DEF From
  <2> QED  BY <1>1, <2>1 DEF TxStep, Host2Chip!svars
<1> QED  BY <1>8, <1>9, <1>10, <1>11, <1>12 DEF TxInv

\* The chip gives a packet its page of metadata.
LEMMA TxChipProcess ==
  ASSUME TxInv, ChipProcess
  PROVE  TxInv' /\ TxStep
<1>1. /\ processed < Len(chipQ) /\ processed' = processed + 1 /\ vacant' = vacant
      /\ chipQ' = chipQ /\ txLens' = txLens /\ queue' = queue /\ hand' = hand /\ txPc' = txPc
      /\ pages' = pages /\ places' = places /\ batch' = batch /\ load' = load
      /\ count' = count /\ txRet' = txRet /\ written' = written /\ arrived' = arrived
  BY DEF ChipProcess, account, building
<1>2. processed' \in Nat /\ processed' <= Len(chipQ')
  BY <1>1, LenProperties DEF TxInv, TxTyped
<1>3. TxTyped'  BY <1>1, <1>2 DEF TxInv, TxTyped, Given
<1>4. RoomKept' /\ RoomLeft' /\ InHand'
  BY <1>1 DEF TxInv, RoomKept, RoomLeft, InHand
<1>5. TxStep
  <2>1. (From(hand, written + 1) \o queue)' = From(hand, written + 1) \o queue
    BY <1>1 DEF From
  <2> QED  BY <1>1, <2>1 DEF TxStep, Host2Chip!svars
<1> QED  BY <1>3, <1>4, <1>5 DEF TxInv

LEMMA TxSteps ==
  ASSUME TxInv, [TxNext]_txVars
  PROVE  TxInv' /\ TxStep
<1>1. CASE TxNext
  BY <1>1, TxPut, TxDequeue, TxUpdateStatusKept, TxCheckFirst, TxWriteWindow, TxFill, TxWriteRest,
     TxComplete, TxChipProcess, TxChipTakes DEF TxNext, Call, Chip
<1>2. CASE UNCHANGED txVars
  <2>1. /\ txLens' = txLens /\ queue' = queue /\ hand' = hand /\ txPc' = txPc /\ pages' = pages
        /\ places' = places /\ batch' = batch /\ load' = load /\ count' = count
        /\ txRet' = txRet /\ vacant' = vacant /\ chipQ' = chipQ /\ processed' = processed /\ written' = written
        /\ arrived' = arrived
    BY <1>2 DEF txVars, account, building, txChip, atChip
  <2>2. TxInv'  BY <2>1 DEF TxInv, TxTyped, Given, RoomKept, RoomLeft, InHand
  <2>3. (From(hand, written + 1) \o queue)' = From(hand, written + 1) \o queue
    BY <2>1 DEF From
  <2>4. TxStep  BY <2>1, <2>3 DEF TxStep, Host2Chip!svars
  <2> QED  BY <2>2, <2>4
<1> QED  BY <1>1, <1>2

-----------------------------------------------------------------------------
(* The pool: free pages and those of the packets the chip has, one by one,   *)
(* make up its size, and load is the pages of the packets in the buffer.     *)

\* Adding the pages of the packets of s, one after another, to a makes b.
Adds(l, s, a, b) ==
  \E t \in [0 .. Len(s) -> {x \in Int : x <= b}] :
    /\ t[0] = a /\ t[Len(s)] = b
    /\ \A i \in 1 .. Len(s) : PagesOf(l, s[i]) = t[i] - t[i - 1]

PoolWhole ==
  /\ Adds(txLens, chipQ, vacant, PoolPages)
  /\ Adds(txLens, batch, 0, load)

\* What TxTypeOK says beyond TxInv.
CallBounded ==
  /\ Len(hand) <= TxMax
  /\ pages <= PoolPages /\ places <= QSize /\ load <= PoolPages
  /\ marked \in BOOLEAN /\ ringing \in BOOLEAN
  /\ txPc \in {"idle", "status", "check"} => count = 0
  /\ txRet \in {"ok", "again", "msgsize", "eio"}
  /\ txErrors \in 0 .. MaxErrors

LEMMA AddsNone ==
  ASSUME NEW l, NEW a \in Nat
  PROVE  Adds(l, <<>>, a, a)
<1> DEFINE t == [i \in 0 .. Len(<<>>) |-> a]
<1>1. Len(<<>>) = 0  BY EmptySeq
<1>2. t \in [0 .. Len(<<>>) -> {x \in Int : x <= a}]  OBVIOUS
<1>3. t[0] = a /\ t[Len(<<>>)] = a  BY <1>1
<1>4. \A i \in 1 .. Len(<<>>) : PagesOf(l, <<>>[i]) = t[i] - t[i - 1]  BY <1>1
<1> HIDE DEF t
<1> QED  BY <1>2, <1>3, <1>4 DEF Adds

\* The sum is of the lengths of these packets only.
LEMMA AddsSame ==
  ASSUME NEW l, NEW m, NEW P, NEW s \in Seq(P), NEW a, NEW b,
         \A p \in P : m[p] = l[p], Adds(l, s, a, b)
  PROVE  Adds(m, s, a, b)
<1>1. \A i \in 1 .. Len(s) : PagesOf(m, s[i]) = PagesOf(l, s[i])
  <2> SUFFICES ASSUME NEW i \in 1 .. Len(s)  PROVE PagesOf(m, s[i]) = PagesOf(l, s[i])
    OBVIOUS
  <2>1. s[i] \in P  BY ElementOfSeq
  <2> QED  BY <2>1 DEF PagesOf
<1> QED  BY <1>1 DEF Adds

LEMMA AddsAppend ==
  ASSUME NEW l, NEW P, NEW s \in Seq(P), NEW p \in P, NEW a \in Int, NEW b \in Int,
         PagesOf(l, p) \in Nat, Adds(l, s, a, b)
  PROVE  Adds(l, Append(s, p), a, b + PagesOf(l, p))
<1> DEFINE g == PagesOf(l, p)
           r == Append(s, p)
<1>1. PICK t \in [0 .. Len(s) -> {x \in Int : x <= b}] :
        /\ t[0] = a /\ t[Len(s)] = b
        /\ \A i \in 1 .. Len(s) : PagesOf(l, s[i]) = t[i] - t[i - 1]
  BY DEF Adds
<1>2. /\ Len(s) \in Nat /\ Len(r) = Len(s) + 1 /\ r[Len(s) + 1] = p
      /\ \A i \in 1 .. Len(s) : r[i] = s[i]
  BY LenProperties, AppendProperties
<1>3. g \in Nat /\ PagesOf(l, r[Len(s) + 1]) = g  BY <1>2
<1> HIDE DEF g, r
<1> DEFINE u == [i \in 0 .. Len(r) |-> IF i <= Len(s) THEN t[i] ELSE b + g]
<1>4. u \in [0 .. Len(r) -> {x \in Int : x <= b + g}]
  <2> SUFFICES ASSUME NEW i \in 0 .. Len(r)
               PROVE  (IF i <= Len(s) THEN t[i] ELSE b + g) \in {x \in Int : x <= b + g}
    OBVIOUS
  <2>1. CASE i <= Len(s)
    <3>1. t[i] \in Int /\ t[i] <= b  BY <1>1, <1>2, <2>1
    <3> QED  BY <1>3, <2>1, <3>1
  <2> QED  BY <1>3, <2>1
<1>5. u[0] = a /\ u[Len(r)] = b + g  BY <1>1, <1>2
<1>6. \A i \in 1 .. Len(r) : PagesOf(l, r[i]) = u[i] - u[i - 1]
  <2> SUFFICES ASSUME NEW i \in 1 .. Len(r)  PROVE PagesOf(l, r[i]) = u[i] - u[i - 1]
    OBVIOUS
  <2>1. CASE i <= Len(s)
    <3>1. i \in 1 .. Len(s) /\ i \in 0 .. Len(r) /\ i - 1 \in 0 .. Len(r) /\ i - 1 <= Len(s)
      BY <1>2, <2>1
    <3>2. u[i] = t[i] /\ u[i - 1] = t[i - 1] /\ r[i] = s[i]  BY <1>2, <3>1, <2>1
    <3> HIDE DEF u
    <3> QED  BY <1>1, <3>1, <3>2
  <2>2. CASE ~(i <= Len(s))
    <3>1. i = Len(s) + 1 /\ i - 1 = Len(s) /\ i \in 0 .. Len(r) /\ i - 1 \in 0 .. Len(r)
      BY <1>2, <2>2
    <3>2. u[i] = b + g /\ u[i - 1] = b  BY <1>1, <1>2, <3>1, <2>2
    <3> HIDE DEF u
    <3> QED  BY <1>3, <3>1, <3>2
  <2> QED  BY <2>1, <2>2
<1> HIDE DEF u
<1> QED  BY <1>4, <1>5, <1>6 DEF Adds, g, r

\* The packets of r come behind those of s, and take n pages.
LEMMA AddsConcat ==
  ASSUME NEW l, NEW P, NEW s \in Seq(P), NEW r \in Seq(P),
         NEW a \in Int, NEW b \in Int, NEW n \in Nat,
         Adds(l, s, a, b), Adds(l, r, 0, n)
  PROVE  Adds(l, s \o r, a - n, b)
<1> DEFINE c == s \o r
<1>1. PICK t \in [0 .. Len(s) -> {x \in Int : x <= b}] :
        /\ t[0] = a /\ t[Len(s)] = b
        /\ \A i \in 1 .. Len(s) : PagesOf(l, s[i]) = t[i] - t[i - 1]
  BY DEF Adds
<1>2. PICK v \in [0 .. Len(r) -> {x \in Int : x <= n}] :
        /\ v[0] = 0 /\ v[Len(r)] = n
        /\ \A i \in 1 .. Len(r) : PagesOf(l, r[i]) = v[i] - v[i - 1]
  BY DEF Adds
<1>3. /\ Len(s) \in Nat /\ Len(r) \in Nat /\ Len(c) = Len(s) + Len(r)
      /\ \A i \in 1 .. Len(s) + Len(r) :
           c[i] = IF i <= Len(s) THEN s[i] ELSE r[i - Len(s)]
  BY LenProperties, ConcatProperties
<1> HIDE DEF c
<1> DEFINE u == [i \in 0 .. Len(c) |->
                   IF i <= Len(s) THEN t[i] - n ELSE (b - n) + v[i - Len(s)]]
<1>4. \A i \in 0 .. Len(s) : t[i] \in Int /\ t[i] <= b  BY <1>1
<1>5. \A i \in 0 .. Len(r) : v[i] \in Int /\ v[i] <= n  BY <1>2
<1>6. u \in [0 .. Len(c) -> {x \in Int : x <= b}]
  <2> SUFFICES ASSUME NEW i \in 0 .. Len(c)
               PROVE  (IF i <= Len(s) THEN t[i] - n ELSE (b - n) + v[i - Len(s)])
                        \in {x \in Int : x <= b}
    OBVIOUS
  <2>1. CASE i <= Len(s)
    <3>1. t[i] \in Int /\ t[i] <= b  BY <1>3, <1>4, <2>1
    <3> QED  BY <2>1, <3>1
  <2>2. CASE ~(i <= Len(s))
    <3>1. i - Len(s) \in 0 .. Len(r)  BY <1>3, <2>2
    <3>2. v[i - Len(s)] \in Int /\ v[i - Len(s)] <= n  BY <1>5, <3>1
    <3> QED  BY <2>2, <3>2
  <2> QED  BY <2>1, <2>2
<1>7. \A i \in 0 .. Len(r) : u[Len(s) + i] = (b - n) + v[i]
  <2> SUFFICES ASSUME NEW i \in 0 .. Len(r)  PROVE u[Len(s) + i] = (b - n) + v[i]
    OBVIOUS
  <2>1. Len(s) + i \in 0 .. Len(c)  BY <1>3
  <2>2. CASE i = 0
    <3>1. u[Len(s) + i] = t[Len(s)] - n  BY <1>3, <2>1, <2>2
    <3> HIDE DEF u
    <3> QED  BY <1>1, <1>2, <2>2, <3>1
  <2>3. CASE i # 0
    <3>1. ~(Len(s) + i <= Len(s)) /\ (Len(s) + i) - Len(s) = i  BY <1>3, <2>3
    <3> QED  BY <2>1, <3>1
  <2> QED  BY <2>2, <2>3
<1>8. \A i \in 0 .. Len(s) : u[i] = t[i] - n  BY <1>3
<1> HIDE DEF u
<1>9. u[0] = a - n /\ u[Len(c)] = b
  <2>1. u[0] = t[0] - n  BY <1>3, <1>8
  <2>2. u[Len(s) + Len(r)] = (b - n) + v[Len(r)]  BY <1>3, <1>7
  <2> QED  BY <1>1, <1>2, <1>3, <2>1, <2>2
<1>10. \A i \in 1 .. Len(c) : PagesOf(l, c[i]) = u[i] - u[i - 1]
  <2> SUFFICES ASSUME NEW i \in 1 .. Len(c)  PROVE PagesOf(l, c[i]) = u[i] - u[i - 1]
    OBVIOUS
  <2>1. CASE i <= Len(s)
    <3>1. i \in 1 .. Len(s) /\ i \in 0 .. Len(s) /\ i - 1 \in 0 .. Len(s)  BY <1>3, <2>1
    <3>2. /\ u[i] = t[i] - n /\ u[i - 1] = t[i - 1] - n /\ c[i] = s[i]
          /\ PagesOf(l, s[i]) = t[i] - t[i - 1]
          /\ t[i] \in Int /\ t[i - 1] \in Int
      BY <1>1, <1>3, <1>4, <1>8, <2>1, <3>1
    <3> QED  BY <3>2
  <2>2. CASE ~(i <= Len(s))
    <3> DEFINE j == i - Len(s)
    <3>1. /\ j \in 1 .. Len(r) /\ j \in 0 .. Len(r) /\ j - 1 \in 0 .. Len(r)
          /\ i = Len(s) + j /\ i - 1 = Len(s) + (j - 1)
      BY <1>3, <2>2
    <3>2. c[i] = r[j]  BY <1>3, <2>2
    <3> HIDE DEF j
    <3>3. /\ u[i] = (b - n) + v[j] /\ u[i - 1] = (b - n) + v[j - 1]
          /\ PagesOf(l, r[j]) = v[j] - v[j - 1]
          /\ v[j] \in Int /\ v[j - 1] \in Int
      BY <1>2, <1>5, <1>7, <3>1
    <3> QED  BY <3>2, <3>3
  <2> QED  BY <2>1, <2>2
<1> QED  BY <1>6, <1>9, <1>10 DEF Adds, c

\* The first packet goes and gives its pages back.
LEMMA AddsTail ==
  ASSUME NEW l, NEW P, NEW s \in Seq(P), s # <<>>, NEW a \in Int, NEW b \in Int,
         Adds(l, s, a, b)
  PROVE  Adds(l, Tail(s), a + PagesOf(l, Head(s)), b)
<1> DEFINE r == Tail(s)
<1>1. PICK t \in [0 .. Len(s) -> {x \in Int : x <= b}] :
        /\ t[0] = a /\ t[Len(s)] = b
        /\ \A i \in 1 .. Len(s) : PagesOf(l, s[i]) = t[i] - t[i - 1]
  BY DEF Adds
<1>2. /\ Len(s) \in Nat /\ Len(s) > 0 /\ Len(r) = Len(s) - 1
      /\ \A i \in 1 .. Len(r) : r[i] = s[i + 1]
  BY LenProperties, HeadTailProperties, EmptySeq
<1>3. Head(s) = s[1]  BY <1>2
<1> HIDE DEF r
<1> DEFINE u == [i \in 0 .. Len(r) |-> t[i + 1]]
<1>4. \A i \in 0 .. Len(r) : i + 1 \in 0 .. Len(s) /\ u[i] = t[i + 1]  BY <1>2
<1>5. u \in [0 .. Len(r) -> {x \in Int : x <= b}]
  <2>1. \A i \in 0 .. Len(r) : t[i + 1] \in {x \in Int : x <= b}  BY <1>1, <1>4
  <2> QED  BY <2>1
<1> HIDE DEF u
<1>6. u[0] = a + PagesOf(l, Head(s)) /\ u[Len(r)] = b
  <2>1. u[0] = t[1] /\ u[Len(r)] = t[Len(s)]  BY <1>2, <1>4
  <2>2. 1 \in 1 .. Len(s) /\ 0 \in 0 .. Len(s) /\ 1 \in 0 .. Len(s)  BY <1>2
  <2>3. PagesOf(l, s[1]) = t[1] - t[0] /\ t[1] \in Int  BY <1>1, <2>2
  <2> QED  BY <1>1, <1>3, <2>1, <2>3
<1>7. \A i \in 1 .. Len(r) : PagesOf(l, r[i]) = u[i] - u[i - 1]
  <2> SUFFICES ASSUME NEW i \in 1 .. Len(r)  PROVE PagesOf(l, r[i]) = u[i] - u[i - 1]
    OBVIOUS
  <2>1. i + 1 \in 1 .. Len(s) /\ i \in 0 .. Len(r) /\ i - 1 \in 0 .. Len(r)
        /\ (i - 1) + 1 = i /\ (i + 1) - 1 = i
    BY <1>2
  <2>2. u[i] = t[i + 1] /\ u[i - 1] = t[i] /\ r[i] = s[i + 1]  BY <1>2, <1>4, <2>1
  <2>3. PagesOf(l, s[i + 1]) = t[i + 1] - t[i]  BY <1>1, <2>1
  <2> QED  BY <2>2, <2>3
<1> QED  BY <1>5, <1>6, <1>7 DEF Adds, r

LEMMA PoolSame ==
  ASSUME TxInv, PoolWhole, chipQ' = chipQ, vacant' = vacant, batch' = batch,
         load' = load, \A p \in Given : txLens'[p] = txLens[p]
  PROVE  PoolWhole'
<1>1. chipQ \in Seq(Given) /\ batch \in Seq(Given)  BY DEF TxInv, TxTyped
<1>2. Adds(txLens', chipQ, vacant, PoolPages)  BY <1>1, AddsSame DEF PoolWhole
<1>3. Adds(txLens', batch, 0, load)  BY <1>1, AddsSame DEF PoolWhole
<1> QED  BY <1>2, <1>3 DEF PoolWhole

\* The chip takes the pages of what is transferred, no more and no less.
LEMMA PoolTransfer ==
  ASSUME TxInv, PoolWhole, Reach
  PROVE  Adds(txLens, chipQ', vacant', PoolPages)
<1>1. chipQ \in Seq(Given) /\ batch \in Seq(Given) /\ vacant \in Int /\ load \in Nat
  BY DEF TxInv, TxTyped
<1>2. PoolPages \in Int  BY YapsWriteAssumption
<1>3. Adds(txLens, chipQ \o batch, vacant - load, PoolPages)
  BY <1>1, <1>2, AddsConcat DEF PoolWhole
<1> QED  BY <1>3 DEF Reach

LEMMA PoolBound == ASSUME PoolWhole  PROVE vacant <= PoolPages
<1>1. PICK t \in [0 .. Len(chipQ) -> {x \in Int : x <= PoolPages}] : t[0] = vacant
  BY DEF PoolWhole, Adds
<1>2. 0 \in 0 .. Len(chipQ)
  BY <1>1 DEF PoolWhole, Adds
<1> QED  BY <1>1, <1>2

LEMMA FullInit == TxInit => PoolWhole /\ CallBounded
<1> SUFFICES ASSUME TxInit  PROVE PoolWhole /\ CallBounded
  OBVIOUS
<1>1. /\ hand = <<>> /\ batch = <<>> /\ chipQ = <<>> /\ pages = 0 /\ places = 0 /\ load = 0
      /\ count = 0 /\ txRet = "ok" /\ vacant = PoolPages /\ marked = FALSE
      /\ ringing = FALSE /\ txErrors = 0
  BY DEF TxInit
<1>2. PoolPages \in Nat /\ QSize \in Nat /\ TxMax \in Nat /\ MaxErrors \in Nat /\ Len(<<>>) = 0
  BY EmptySeq, YapsWriteAssumption, YapsHwAssumption
<1>3. PoolWhole  BY <1>1, <1>2, AddsNone DEF PoolWhole
<1>4. marked \in BOOLEAN /\ ringing \in BOOLEAN  BY <1>1
<1>5. /\ Len(hand) <= TxMax /\ pages <= PoolPages /\ places <= QSize /\ load <= PoolPages
      /\ txErrors \in 0 .. MaxErrors
  BY <1>1, <1>2
<1>6. CallBounded  BY <1>1, <1>4, <1>5 DEF CallBounded
<1> QED  BY <1>3, <1>6

\* The account only shrinks by a check.
LEMMA ChargedBound ==
  ASSUME TxTyped, NEW p \in Given, Charge(p), NEW m \in Nat, pages <= m,
         NEW n \in Nat, places <= n
  PROVE  pages' <= m /\ places' <= n
<1>1. pages \in Nat /\ places \in Nat  BY DEF TxTyped
<1>2. /\ PagesOf(txLens, p) \in Nat /\ pages' \in Nat /\ places' \in Nat
      /\ WillFit(p) => pages' + PagesOf(txLens, p) < pages /\ places' + 1 = places
      /\ ~WillFit(p) => pages' = pages /\ places' = places
  BY Charged
<1>3. PICK x \in Nat : pages' = x  BY <1>2
<1>4. PICK y \in Nat : places' = y  BY <1>2
<1>5. x <= pages /\ y <= places
  <2> HIDE DEF PagesOf
  <2>1. CASE WillFit(p)  BY <1>1, <1>2, <1>3, <1>4, <2>1
  <2>2. CASE ~WillFit(p)  BY <1>1, <1>2, <1>3, <1>4, <2>2
  <2> QED  BY <2>1, <2>2
<1> QED  BY <1>1, <1>3, <1>4, <1>5

\* One step keeps both, action by action.
LEMMA FullSteps ==
  ASSUME TxInv, PoolWhole, CallBounded, [TxNext]_txVars
  PROVE  PoolWhole' /\ CallBounded'
<1>1. /\ hand \in Seq(Given) /\ queue \in Seq(Given) /\ batch \in Seq(Given)
      /\ chipQ \in Seq(Given) /\ Len(hand) \in Nat /\ Len(batch) \in Nat /\ Len(queue) \in Nat
      /\ Len(chipQ) \in Nat /\ pages \in Nat /\ places \in Nat /\ load \in Nat
      /\ vacant \in Nat /\ count \in Nat /\ txPc \in {"idle", "status", "check", "fill", "exit", "done"}
  BY LenProperties DEF TxInv, TxTyped
<1>2. /\ PoolPages \in Nat /\ QSize \in Nat /\ TxMax \in Nat /\ MaxErrors \in Nat
      /\ MaxPkts \in Nat /\ <<>> \in Seq(Given) /\ Len(<<>>) = 0
  BY EmptySeq, YapsWriteAssumption, YapsHwAssumption
<1>3. \A len \in PktLens : Put(len) => PoolWhole' /\ CallBounded'
  <2> SUFFICES ASSUME NEW len \in PktLens, Put(len)  PROVE PoolWhole' /\ CallBounded'
    OBVIOUS
  <2>1. /\ txLens' = Append(txLens, len) /\ hand' = hand /\ txPc' = txPc /\ pages' = pages
        /\ places' = places /\ batch' = batch /\ load' = load /\ marked' = marked
        /\ count' = count /\ txRet' = txRet /\ vacant' = vacant /\ chipQ' = chipQ
        /\ ringing' = ringing /\ txErrors' = txErrors
    BY DEF Put, account, building, txChip, atChip
  <2>2. \A p \in Given : txLens'[p] = txLens[p]
    BY <2>1, AppendProperties DEF TxInv, TxTyped, Given
  <2>3. PoolWhole'  BY <2>1, <2>2, PoolSame
  <2>4. CallBounded'  BY <2>1 DEF CallBounded
  <2> QED  BY <2>3, <2>4
<1>4. \A aged \in 0 .. MaxPkts : Dequeue(aged) => PoolWhole' /\ CallBounded'
  <2> SUFFICES ASSUME NEW aged \in 0 .. MaxPkts, Dequeue(aged)
               PROVE  PoolWhole' /\ CallBounded'
    OBVIOUS
  <2> DEFINE n == Min2(Len(queue) - aged, TxMax)
  <2>1. /\ txPc = "idle" /\ txPc' = "status" /\ txRet' = "ok" /\ aged \in 0 .. Len(queue)
        /\ hand' = SubSeq(queue, aged + 1, aged + n)
        /\ txLens' = txLens /\ pages' = pages /\ places' = places /\ batch' = batch
        /\ load' = load /\ marked' = marked /\ count' = count /\ vacant' = vacant
        /\ chipQ' = chipQ /\ processed' = processed /\ ringing' = ringing /\ txErrors' = txErrors
    BY DEF Dequeue, account, building, txChip, atChip
  <2>2. n \in Nat /\ n <= TxMax /\ aged + n <= Len(queue)  BY <1>1, <1>2, <2>1 DEF Min2
  <2> HIDE DEF n
  <2>3. Len(hand') <= TxMax
    <3>1. Len(SubSeq(queue, aged + 1, aged + n)) = (aged + n) - aged
      BY <1>1, <2>1, <2>2, CutFrom
    <3> QED  BY <2>1, <2>2, <3>1
  <2>4. PoolWhole'  BY <2>1, PoolSame
  <2>5. CallBounded'  BY <2>1, <2>3 DEF CallBounded
  <2> QED  BY <2>4, <2>5
<1>5. TxUpdateStatus => PoolWhole' /\ CallBounded'
  <2> SUFFICES ASSUME TxUpdateStatus  PROVE PoolWhole' /\ CallBounded'
    OBVIOUS
  <2>1. /\ txPc = "status" /\ txLens' = txLens /\ batch' = batch /\ load' = load
        /\ marked' = marked /\ count' = count /\ vacant' = vacant /\ chipQ' = chipQ
        /\ ringing' = ringing
    BY DEF TxUpdateStatus, building, txChip, atChip
  <2>2. PoolWhole'  BY <2>1, PoolSame
  <2>3. CASE /\ pages' = (IF FreePages > 0 THEN FreePages ELSE 0)
             /\ places' = QSize - Len(chipQ) /\ txPc' = "check"
             /\ hand' = hand /\ txRet' = txRet /\ txErrors' = txErrors
    <3>1. pages' <= PoolPages
      <4>1. pages' \in Nat /\ pages' <= vacant  BY <2>3, StatusRead DEF TxInv
      <4>2. PICK n \in Nat : pages' = n  BY <4>1
      <4> QED  BY <1>1, <1>2, <4>1, <4>2, PoolBound
    <3>2. places' <= QSize  BY <1>1, <1>2, <2>3
    <3>3. CallBounded'  BY <2>1, <2>3, <3>1, <3>2 DEF CallBounded
    <3> QED  BY <2>2, <3>3
  <2>4. CASE /\ txErrors < MaxErrors /\ txErrors' = txErrors + 1 /\ hand' = <<>>
             /\ txRet' = "eio" /\ txPc' = "idle" /\ pages' = pages /\ places' = places
    <3>1. txErrors' \in 0 .. MaxErrors  BY <1>2, <2>4 DEF CallBounded
    <3>2. Len(hand') <= TxMax  BY <1>2, <2>4
    <3>3. CallBounded'  BY <2>1, <2>4, <3>1, <3>2 DEF CallBounded
    <3> QED  BY <2>2, <3>3
  <2> QED  BY <2>3, <2>4 DEF TxUpdateStatus, account
<1>6. CheckFirst => PoolWhole' /\ CallBounded'
  <2> SUFFICES ASSUME CheckFirst  PROVE PoolWhole' /\ CallBounded'
    OBVIOUS
  <2>1. /\ count' = 0 /\ txLens' = txLens /\ hand' = hand /\ batch' = batch /\ load' = load
        /\ marked' = marked /\ vacant' = vacant /\ chipQ' = chipQ /\ processed' = processed /\ ringing' = ringing
        /\ txErrors' = txErrors /\ txRet' \in {"ok", "again", "msgsize"}
    BY DEF CheckFirst, building, txChip, atChip
  <2>2. PoolWhole'  BY <2>1, PoolSame
  <2>3. pages' <= PoolPages /\ places' <= QSize
    <3>1. CASE hand = <<>>  BY <3>1 DEF CheckFirst, account, CallBounded
    <3>2. CASE hand # <<>>
      <4>1. hand[1] \in Given  BY <1>1, <3>2, EmptySeq, ElementOfSeq
      <4>2. Charge(hand[1])  BY <3>2 DEF CheckFirst
      <4>3. TxTyped /\ pages <= PoolPages /\ places <= QSize  BY DEF TxInv, CallBounded
      <4> QED  BY <1>2, <4>1, <4>2, <4>3, ChargedBound
    <3> QED  BY <3>1, <3>2
  <2>4. CallBounded'  BY <2>1, <2>3 DEF CallBounded
  <2> QED  BY <2>2, <2>4
<1>7. WriteWindow => PoolWhole' /\ CallBounded'
  <2> SUFFICES ASSUME WriteWindow  PROVE PoolWhole' /\ CallBounded'
    OBVIOUS
  <2>1. /\ txPc = "fill" /\ batch' = <<>> /\ load' = 0 /\ txLens' = txLens /\ hand' = hand
        /\ pages' = pages /\ places' = places /\ marked' = marked
    BY DEF WriteWindow, account
  <2>2. Adds(txLens', batch', 0, load')  BY <2>1, AddsNone
  <2>3. CASE Transfer /\ txPc' = txPc /\ txRet' = txRet /\ txErrors' = txErrors
    <3>0. Reach  BY <2>3 DEF Transfer
    <3>1. Adds(txLens', chipQ', vacant', PoolPages)  BY <2>1, <3>0, PoolTransfer
    <3>2. ringing' \in BOOLEAN  BY <3>0 DEF Reach, CallBounded
    <3>3. PoolWhole'  BY <2>2, <3>1 DEF PoolWhole
    <3>4. CallBounded'  BY <1>2, <2>1, <2>3, <3>2 DEF CallBounded
    <3> QED  BY <3>3, <3>4
  <2>4. CASE FailedTransfer /\ txPc' = "exit" /\ count' = count
    <3>0. Reach \/ (vacant' = vacant /\ chipQ' = chipQ /\ ringing' = ringing)
      BY <2>4 DEF FailedTransfer, atChip
    <3>1. txErrors' \in 0 .. MaxErrors /\ txRet' = "eio"
      BY <1>2, <2>4 DEF FailedTransfer, CallBounded
    <3>2. Adds(txLens', chipQ', vacant', PoolPages)
      BY <2>1, <3>0, PoolTransfer DEF PoolWhole
    <3>3. ringing' \in BOOLEAN  BY <3>0 DEF Reach, CallBounded
    <3>4. PoolWhole'  BY <2>2, <3>2 DEF PoolWhole
    <3>5. CallBounded'  BY <1>2, <2>1, <2>4, <3>1, <3>3 DEF CallBounded
    <3> QED  BY <3>4, <3>5
  <2> QED  BY <2>3, <2>4 DEF WriteWindow
<1>8. Fill => PoolWhole' /\ CallBounded'
  <2> SUFFICES ASSUME Fill  PROVE PoolWhole' /\ CallBounded'
    OBVIOUS
  <2> DEFINE i == count + Len(batch) + 1
             p == hand[i]
             g == PagesOf(txLens, p)
  <2>1. /\ txPc = "fill" /\ batch' = Append(batch, p) /\ load' = load + g /\ txLens' = txLens
        /\ hand' = hand /\ vacant' = vacant /\ chipQ' = chipQ /\ processed' = processed /\ ringing' = ringing
        /\ txErrors' = txErrors /\ txPc' \in {"fill", "exit"} /\ txRet' \in {txRet, "again"}
        /\ marked' \in {marked, TRUE}
    BY DEF Fill, At, Needs, PagesOf, txChip, atChip
  <2>2. /\ count + Len(batch) < Len(hand)
        /\ pages + load + g + 1 < vacant
    BY <2>1 DEF TxInv, RoomLeft
  <2>3. i \in 1 .. Len(hand)  BY <1>1, <2>2
  <2> HIDE DEF i
  <2>4. p \in Given  BY <1>1, <2>3, ElementOfSeq
  <2> HIDE DEF p
  <2>5. g \in Nat  BY <2>4, PagesOfType DEF TxInv, TxTyped, Given
  <2>6. PoolWhole'
    <3>1. Adds(txLens, Append(batch, p), 0, load + PagesOf(txLens, p))
      <4>1. Adds(txLens, batch, 0, load) /\ 0 \in Int /\ load \in Int
        BY <1>1 DEF PoolWhole
      <4> QED  BY <1>1, <2>4, <2>5, <4>1, AddsAppend
    <3>2. Adds(txLens', batch', 0, load')  BY <2>1, <3>1
    <3>3. Adds(txLens', chipQ', vacant', PoolPages)  BY <2>1 DEF PoolWhole
    <3> QED  BY <3>2, <3>3 DEF PoolWhole
  <2> HIDE DEF g
  <2>7. load' <= PoolPages  BY <1>1, <1>2, <2>1, <2>2, <2>5, PoolBound
  <2>8. pages' <= PoolPages /\ places' <= QSize
    <3>1. CASE At = Len(hand)  BY <3>1 DEF Fill, account, CallBounded
    <3>2. CASE At # Len(hand)
      <4>1. At = i  BY DEF At, i
      <4>2. i + 1 \in 1 .. Len(hand)  BY <1>1, <2>3, <3>2, <4>1
      <4>3. hand[i + 1] \in Given  BY <1>1, <4>2, ElementOfSeq
      <4>4. Charge(hand[i + 1])  BY <3>2, <4>1 DEF Fill
      <4>5. TxTyped /\ pages <= PoolPages /\ places <= QSize  BY DEF TxInv, CallBounded
      <4> QED  BY <1>2, <4>3, <4>4, <4>5, ChargedBound
    <3> QED  BY <3>1, <3>2
  <2>9. marked' \in BOOLEAN  BY <2>1 DEF CallBounded
  <2>10. CallBounded'  BY <2>1, <2>7, <2>8, <2>9 DEF CallBounded
  <2> QED  BY <2>6, <2>10
<1>9. WriteRest => PoolWhole' /\ CallBounded'
  <2> SUFFICES ASSUME WriteRest  PROVE PoolWhole' /\ CallBounded'
    OBVIOUS
  <2>1. /\ txPc' = "done" /\ txLens' = txLens /\ hand' = hand /\ pages' = pages
        /\ places' = places /\ batch' = batch /\ load' = load /\ marked' = marked
    BY DEF WriteRest, account, building
  <2>2. CASE /\ Reach /\ txRet' \in {"ok", "eio"} /\ txErrors' \in 0 .. MaxErrors
    <3>1. Adds(txLens', chipQ', vacant', PoolPages)  BY <2>1, <2>2, PoolTransfer
    <3>2. ringing' \in BOOLEAN  BY <2>2 DEF Reach, CallBounded
    <3>3. PoolWhole'  BY <2>1, <3>1 DEF PoolWhole
    <3>4. CallBounded'  BY <2>1, <2>2, <3>2 DEF CallBounded
    <3> QED  BY <3>3, <3>4
  <2>3. CASE /\ vacant' = vacant /\ chipQ' = chipQ /\ ringing' = ringing
             /\ txErrors' \in 0 .. MaxErrors /\ txRet' \in {txRet, "eio"}
    <3>1. PoolWhole'  BY <2>1, <2>3, PoolSame
    <3>2. CallBounded'  BY <2>1, <2>3 DEF CallBounded
    <3> QED  BY <3>1, <3>2
  <2>4. ASSUME FailedTransfer
        PROVE  /\ txErrors' \in 0 .. MaxErrors /\ txRet' = "eio"
               /\ Reach \/ (vacant' = vacant /\ chipQ' = chipQ /\ ringing' = ringing)
    BY <1>2, <2>4 DEF FailedTransfer, CallBounded, atChip
  <2>5. txErrors \in 0 .. MaxErrors  BY DEF CallBounded
  <2>6. CASE Transfer /\ txRet' = "ok" /\ txErrors' = txErrors
    BY <2>2, <2>5, <2>6 DEF Transfer
  <2>7. CASE FailedTransfer  BY <2>2, <2>3, <2>4, <2>7
  <2>8. CASE UNCHANGED <<txRet, txChip, txErrors>>
    BY <2>3, <2>5, <2>8 DEF txChip, atChip
  <2> QED  BY <2>6, <2>7, <2>8 DEF WriteRest
<1>10. Complete => PoolWhole' /\ CallBounded'
  <2> SUFFICES ASSUME Complete  PROVE PoolWhole' /\ CallBounded'
    OBVIOUS
  <2>1. /\ txPc' = "idle" /\ hand' = <<>> /\ batch' = <<>> /\ load' = 0 /\ marked' = FALSE
        /\ count' = 0 /\ txLens' = txLens /\ pages' = pages /\ places' = places
        /\ txRet' = txRet /\ vacant' = vacant /\ chipQ' = chipQ
        /\ ringing' = ringing /\ txErrors' = txErrors
    BY DEF Complete, account, atChip
  <2>2. Adds(txLens', batch', 0, load')  BY <2>1, AddsNone
  <2>3. PoolWhole'  BY <2>1, <2>2 DEF PoolWhole
  <2>4. Len(hand') <= TxMax /\ load' <= PoolPages  BY <1>2, <2>1
  <2>5. marked' \in BOOLEAN  BY <2>1
  <2>6. CallBounded'  BY <2>1, <2>4, <2>5 DEF CallBounded
  <2> QED  BY <2>3, <2>6
<1>11. ChipTakes => PoolWhole' /\ CallBounded'
  <2> SUFFICES ASSUME ChipTakes  PROVE PoolWhole' /\ CallBounded'
    OBVIOUS
  <2>0. chipQ # <<>>  BY EmptySeq DEF ChipTakes, TxInv, TxTyped
  <2>1. /\ chipQ' = Tail(chipQ)
        /\ vacant' = vacant + PagesOf(txLens, Head(chipQ))
        /\ txLens' = txLens /\ hand' = hand /\ txPc' = txPc /\ pages' = pages
        /\ places' = places /\ batch' = batch /\ load' = load /\ marked' = marked
        /\ count' = count /\ txRet' = txRet /\ txErrors' = txErrors
        /\ ringing' \in BOOLEAN
    BY DEF ChipTakes, account, building, Needs, PagesOf
  <2>2. Adds(txLens, Tail(chipQ), vacant + PagesOf(txLens, Head(chipQ)), PoolPages)
    <3>1. vacant \in Int /\ PoolPages \in Int  BY <1>1, <1>2
    <3> QED  BY <1>1, <2>0, <3>1, AddsTail DEF PoolWhole
  <2>3. PoolWhole'  BY <2>1, <2>2 DEF PoolWhole
  <2>4. CallBounded'  BY <2>1 DEF CallBounded
  <2> QED  BY <2>3, <2>4
<1>12. ChipProcess => PoolWhole' /\ CallBounded'
  <2> SUFFICES ASSUME ChipProcess  PROVE PoolWhole' /\ CallBounded'
    OBVIOUS
  <2>1. /\ txLens' = txLens /\ hand' = hand /\ txPc' = txPc /\ pages' = pages
        /\ places' = places /\ batch' = batch /\ load' = load /\ marked' = marked
        /\ count' = count /\ txRet' = txRet /\ vacant' = vacant /\ chipQ' = chipQ
        /\ ringing' = ringing /\ txErrors' = txErrors
    BY DEF ChipProcess, account, building
  <2>2. PoolWhole'  BY <2>1, PoolSame
  <2>3. CallBounded'  BY <2>1 DEF CallBounded
  <2> QED  BY <2>2, <2>3
<1>13. CASE UNCHANGED txVars
  <2>1. /\ txLens' = txLens /\ hand' = hand /\ txPc' = txPc /\ pages' = pages
        /\ places' = places /\ batch' = batch /\ load' = load /\ marked' = marked
        /\ count' = count /\ txRet' = txRet /\ vacant' = vacant /\ chipQ' = chipQ
        /\ ringing' = ringing /\ txErrors' = txErrors
    BY <1>13 DEF txVars, account, building, txChip, atChip
  <2>2. PoolWhole'  BY <2>1, PoolSame
  <2>3. CallBounded'  BY <2>1 DEF CallBounded
  <2> QED  BY <2>2, <2>3
<1> QED
  BY <1>3, <1>4, <1>5, <1>6, <1>7, <1>8, <1>9, <1>10, <1>11, <1>12, <1>13
  DEF TxNext, Call, Chip

\* The driver's account and the buffer stay within the sizes the chip gave, and
\* the burst in hand within the array morse_yaps_tx() has for it.
THEOREM TxTypeCorrect == TxSpec => []TxTypeOK
<1>1. TxInit => TxInv /\ PoolWhole /\ CallBounded  BY TxInitKept, FullInit
<1>2. TxInv /\ PoolWhole /\ CallBounded /\ [TxNext]_txVars => (TxInv /\ PoolWhole /\ CallBounded)'
  BY TxSteps, FullSteps
<1>3. TxInv /\ PoolWhole /\ CallBounded => TxTypeOK
  <2> SUFFICES ASSUME TxInv, PoolWhole, CallBounded  PROVE TxTypeOK
    OBVIOUS
  <2>1. DOMAIN txLens = Given  BY LenProperties DEF TxInv, TxTyped, Given
  <2>2. /\ pages \in 0 .. PoolPages /\ places \in 0 .. QSize /\ load \in 0 .. PoolPages
        /\ vacant \in 0 .. PoolPages /\ processed \in 0 .. Len(chipQ)
    BY LenProperties, PoolBound, YapsWriteAssumption DEF TxInv, TxTyped, CallBounded
  <2>3. count \in 0 .. Len(hand) /\ written \in 0 .. Len(hand)
    <3>1. Len(hand) \in Nat /\ Len(batch) \in Nat /\ count \in Nat /\ written \in Nat
      BY LenProperties DEF TxInv, TxTyped
    <3>2. count <= Len(hand) /\ written <= Len(hand)
      BY <3>1 DEF TxInv, TxTyped, InHand, CallBounded
    <3> QED  BY <3>1, <3>2
  <2>4. Len(chipQ) <= QSize  BY DEF TxInv, RoomKept
  <2> QED  BY <2>1, <2>2, <2>3, <2>4 DEF TxInv, TxTyped, CallBounded, TxTypeOK
<1> QED  BY <1>1, <1>2, <1>3, PTL DEF TxSpec

\* The pool never loses a page nor has one twice: those that hold no words and
\* those of the words of the packets in the chip make up its size.
THEOREM PoolConserved == TxSpec => [](Adds(txLens, chipQ, vacant, PoolPages))
<1>1. TxInit => TxInv /\ PoolWhole /\ CallBounded  BY TxInitKept, FullInit
<1>2. TxInv /\ PoolWhole /\ CallBounded /\ [TxNext]_txVars => (TxInv /\ PoolWhole /\ CallBounded)'
  BY TxSteps, FullSteps
<1>3. PoolWhole => Adds(txLens, chipQ, vacant, PoolPages)  BY DEF PoolWhole
<1> QED  BY <1>1, <1>2, <1>3, PTL DEF TxSpec

\* Though a status does not reflect the packets that are not processed yet, and
\* transfers that fail may have brought their packets: the account kept between
\* two reads never lets the words of packets take the pages a packet needs to be
\* processed (morse_yaps_pages_required()), nor gives the chip more packets than
\* it has places for.  It cannot keep a page for every packet that waits.
THEOREM RoomOnChip == TxSpec => []RoomKept
<1>1. TxInit => TxInv  BY TxInitKept
<1>2. TxInv /\ [TxNext]_txVars => TxInv'  BY TxSteps
<1>3. TxInv => RoomKept  BY DEF TxInv
<1> QED  BY <1>1, <1>2, <1>3, PTL DEF TxSpec

\* What morse_yaps_tx() puts back is what the chip has not got, in its place, and
\* what it completes the chip has got, once and in order, unless a transfer
\* failed: the write implements the stream of packets.
THEOREM WrittenInOrder == TxSpec => TxImplements
<1>1. TxInit => TxInv /\ Host2Chip!Init  BY TxInitKept
<1>2. TxInv /\ [TxNext]_txVars => TxInv'  BY TxSteps
<1>3. TxInv /\ [TxNext]_txVars => TxStep  BY TxSteps
<1> QED
  BY <1>1, <1>2, <1>3, PTL
  DEF TxSpec, TxImplements, Host2Chip!Spec, TxStep
=============================================================================
