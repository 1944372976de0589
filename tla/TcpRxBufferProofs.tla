------------------------- MODULE TcpRxBufferProofs -------------------------
(***************************************************************************)
(* Proofs about TcpRxBuffer for every buffer size, stream, segmentation    *)
(* and reading pattern.                                                    *)
(***************************************************************************)
EXTENDS TcpRxBuffer, NatMinimum, SequenceTheorems, FiniteSetTheorems, TLAPS

(***************************************************************************)
(* What the reading operators return                                       *)
(***************************************************************************)
\* Packets of the stream: none reaches beyond its end.
InStream(d) == d \subseteq Packet /\ \A p \in d : End(p) <= StreamEnd

\* BeginSeq is the number of the first packet.
LEMMA BeginSeqFirst ==
    ASSUME NEW d, d \subseteq Packet, d # {}
    PROVE  /\ \E p \in d : BeginSeq(d) = p.seq
           /\ BeginSeq(d) \in Nat
           /\ \A p \in d : BeginSeq(d) <= p.seq
<1> DEFINE S == {p.seq : p \in d}
<1>1. S \subseteq Nat /\ S # {}
  BY DEF Packet
<1>2. Min(S) \in S /\ \A y \in S : Min(S) <= y
  BY <1>1, MinNat
<1> QED BY <1>1, <1>2 DEF BeginSeq

\* FirstHole stops at the first uncovered number.
LEMMA FirstHoleFirst ==
    ASSUME NEW d, InStream(d), NEW s \in 0 .. StreamEnd
    PROVE  /\ FirstHole(d, s) \in s .. StreamEnd
           /\ ~ Covered(d, FirstHole(d, s))
           /\ \A t \in s .. FirstHole(d, s) - 1 : Covered(d, t)
<1> DEFINE S == {t \in s .. StreamEnd : ~ Covered(d, t)}
<1>0. StreamEnd \in Nat
  BY RxConstants
<1>1. S \subseteq Nat
  BY <1>0
<1>2. StreamEnd \in S
  <2>1. \A p \in d : ~ (StreamEnd < End(p))
    BY <1>0 DEF InStream, End, Packet
  <2> QED BY <1>0, <2>1 DEF Covered
<1>3. Min(S) \in S /\ \A y \in S : Min(S) <= y
  BY <1>1, <1>2, MinNat
<1>4. FirstHole(d, s) = Min(S)
  BY DEF FirstHole
<1>5. \A t \in s .. Min(S) - 1 : t \notin S /\ t \in s .. StreamEnd
  BY <1>0, <1>1, <1>3
<1> QED BY <1>3, <1>4, <1>5

(***************************************************************************)
(* The sizes of packets                                                    *)
(***************************************************************************)
Disjoint(d) == \A p, q \in d : p = q \/ End(p) <= q.seq \/ End(q) <= p.seq

\* the numbers covered by the packets of d, and by those filed below number t
Bytes(d) == {s \in 0 .. StreamEnd - 1 : Covered(d, s)}

BytesBelow(d, t) ==
    {s \in 0 .. StreamEnd - 1 : \E p \in d : p.seq < t /\ p.seq <= s /\ s < End(p)}

\* What adding the range a .. b - 1 to a finite set S does to its cardinality.
RangeAdds(S, a, b) ==
    /\ IsFiniteSet(S \cup (a .. b - 1))
    /\ Cardinality(S) \in Nat
    /\ Cardinality(S \cap (a .. b - 1)) \in Nat
    /\ Cardinality(S \cup (a .. b - 1)) =
           Cardinality(S) + (b - a) - Cardinality(S \cap (a .. b - 1))

\* Adding a range to a finite set.
LEMMA RangeAdded ==
    ASSUME NEW S, IsFiniteSet(S), NEW a \in Nat, NEW b \in Nat, a <= b
    PROVE  RangeAdds(S, a, b)
<1> DEFINE R == a .. b - 1
<1>1. IsFiniteSet(R) /\ Cardinality(R) = b - a
  <2>1. /\ IsFiniteSet(R)
        /\ Cardinality(R) = IF a > b - 1 THEN 0 ELSE (b - 1) - a + 1
    <3>1. a \in Int /\ b - 1 \in Int
      OBVIOUS
    <3> QED BY <3>1, FS_Interval, Zenon
  <2> QED BY <2>1
<1> HIDE DEF R
<1>2. /\ IsFiniteSet(S \cup R)
      /\ Cardinality(S \cup R) = Cardinality(S) + Cardinality(R) - Cardinality(S \cap R)
  BY <1>1, FS_Union, Zenon
<1>3. IsFiniteSet(S \cap R)
  <2>1. S \cap R \in SUBSET S
    BY Zenon
  <2> QED BY <2>1, FS_Subset, Zenon
<1>4. Cardinality(S) \in Nat /\ Cardinality(S \cap R) \in Nat
  BY <1>3, FS_CardinalityType, Zenon
<1> QED BY <1>1, <1>2, <1>4, Zenon DEF R, RangeAdds

\* The loop that adds sizes, as a function of the number reached.
Sums(f, d, n) == f = [s \in 0 .. n |-> IF s = 0 THEN 0 ELSE f[s - 1] + LenAt(d, s - 1)]

\* The recursive function of TotalLen is one.
LEMMA SumsExist ==
    ASSUME NEW d, NEW n \in Nat
    PROVE  \E f : Sums(f, d, n)
<1> DEFINE T == {m \in Nat : \E f : Sums(f, d, m)}
<1>1. 0 \in T
  <2> DEFINE g == [s \in 0 .. 0 |-> 0]
  <2>1. g = [s \in 0 .. 0 |-> IF s = 0 THEN 0 ELSE g[s - 1] + LenAt(d, s - 1)]
    <3>1. \A s \in 0 .. 0 : s = 0
      OBVIOUS
    <3> QED BY <3>1
  <2>2. Sums(g, d, 0)
    BY <2>1 DEF Sums
  <2> QED BY <2>2
<1>2. ASSUME NEW m \in T
      PROVE  m + 1 \in T
  <2>1. PICK f : Sums(f, d, m)
    OBVIOUS
  <2> DEFINE g == [s \in 0 .. m + 1 |-> IF s = m + 1 THEN f[m] + LenAt(d, m) ELSE f[s]]
  <2>2. m \in Nat
    OBVIOUS
  <2>3. \A s \in 0 .. m + 1 : g[s] = IF s = 0 THEN 0 ELSE g[s - 1] + LenAt(d, s - 1)
    <3> SUFFICES ASSUME NEW s \in 0 .. m + 1
                 PROVE  g[s] = IF s = 0 THEN 0 ELSE g[s - 1] + LenAt(d, s - 1)
      OBVIOUS
    <3>1. CASE s = 0
      <4>1. s \in 0 .. m /\ s # m + 1
        BY <2>2, <3>1
      <4>2. f[s] = 0
        BY <2>1, <3>1, <4>1 DEF Sums
      <4> QED BY <3>1, <4>1, <4>2
    <3>2. CASE s # 0 /\ s # m + 1
      <4>1. s \in 0 .. m /\ s - 1 \in 0 .. m + 1 /\ s - 1 # m + 1
        BY <2>2, <3>2
      <4>2. f[s] = f[s - 1] + LenAt(d, s - 1)
        BY <2>1, <3>2, <4>1 DEF Sums
      <4> QED BY <3>2, <4>1, <4>2
    <3>3. CASE s = m + 1
      <4>1. s # 0 /\ s - 1 = m /\ m \in 0 .. m + 1 /\ m # m + 1
        BY <2>2, <3>3
      <4>2. g[m] = f[m] /\ g[s] = f[m] + LenAt(d, m)
        BY <3>3, <4>1
      <4> QED BY <4>1, <4>2
    <3> QED BY <3>1, <3>2, <3>3
  <2>4. g = [s \in 0 .. m + 1 |-> IF s = 0 THEN 0 ELSE g[s - 1] + LenAt(d, s - 1)]
    <3>1. g = [s \in 0 .. m + 1 |-> g[s]]
      OBVIOUS
    <3> HIDE DEF g
    <3> QED BY <2>3, <3>1
  <2>5. Sums(g, d, m + 1)
    BY <2>4 DEF Sums
  <2> QED BY <2>2, <2>5
<1>3. n \in T
  <2>1. T \subseteq Nat
    OBVIOUS
  <2> HIDE DEF T
  <2> QED BY <1>1, <1>2, <2>1, AllNat
<1> QED BY <1>3

\* The packet filed under t adds its length to the bytes of those below t.
LEMMA BytesAt ==
    ASSUME NEW d, InStream(d), Disjoint(d), NEW t \in Nat, t < StreamEnd
    PROVE  /\ IsFiniteSet(BytesBelow(d, t))
           /\ Cardinality(BytesBelow(d, t)) \in Nat
           /\ LenAt(d, t) \in Nat
           /\ Cardinality(BytesBelow(d, t + 1)) = Cardinality(BytesBelow(d, t)) + LenAt(d, t)
<1>0. StreamEnd \in Nat
  BY RxConstants
<1>1. \A p \in d : /\ p.seq \in Nat /\ p.len \in Nat /\ End(p) = p.seq + p.len
                   /\ End(p) \in Nat /\ p.seq < End(p) /\ End(p) <= StreamEnd
  BY DEF InStream, Packet, End
<1>2. IsFiniteSet(BytesBelow(d, t))
  <2>1. IsFiniteSet(0 .. StreamEnd - 1)
    <3>1. 0 \in Int /\ StreamEnd - 1 \in Int
      BY <1>0
    <3> QED BY <3>1, FS_Interval, Zenon
  <2>2. BytesBelow(d, t) \in SUBSET (0 .. StreamEnd - 1)
    BY DEF BytesBelow
  <2> QED BY <2>1, <2>2, FS_Subset, Zenon
<1>3. Cardinality(BytesBelow(d, t)) \in Nat
  BY <1>2, FS_CardinalityType, Zenon
<1>4. CASE ~ \E p \in d : p.seq = t
  <2>1. LenAt(d, t) = 0
    BY <1>4 DEF LenAt
  <2>2. \A p \in d : p.seq < t + 1 <=> p.seq < t
    BY <1>1, <1>4
  <2>3. BytesBelow(d, t + 1) = BytesBelow(d, t)
    BY <2>2, Zenon DEF BytesBelow
  <2> QED BY <1>2, <1>3, <2>1, <2>3
<1>5. ASSUME NEW p \in d, p.seq = t
      PROVE  /\ LenAt(d, t) \in Nat
             /\ Cardinality(BytesBelow(d, t + 1)) = Cardinality(BytesBelow(d, t)) + LenAt(d, t)
  <2>1. \A q \in d : q.seq = t => q = p
    BY <1>1, <1>5 DEF Disjoint
  <2>2. LenAt(d, t) = p.len
    <3>1. (CHOOSE q \in d : q.seq = t) = p
      BY <1>5, <2>1, Zenon
    <3> QED BY <1>5, <3>1 DEF LenAt
  <2>3. \A q \in d : q.seq < t => End(q) <= t
    BY <1>1, <1>5 DEF Disjoint
  <2> DEFINE S == BytesBelow(d, t)
             R == t .. End(p) - 1
  <2>4. BytesBelow(d, t + 1) = S \cup R
    <3>1. \A s \in 0 .. StreamEnd - 1 :
             (\E q \in d : q.seq < t + 1 /\ q.seq <= s /\ s < End(q))
               <=> ((\E q \in d : q.seq < t /\ q.seq <= s /\ s < End(q)) \/ s \in R)
      <4> TAKE s \in 0 .. StreamEnd - 1
      <4>1. \A q \in d : q.seq < t + 1 <=> q.seq < t \/ q = p
        BY <1>1, <1>5, <2>1
      <4>2. s \in R <=> p.seq <= s /\ s < End(p)
        BY <1>0, <1>1, <1>5
      <4> QED BY <4>1, <4>2, Zenon
    <3>2. R \subseteq 0 .. StreamEnd - 1
      BY <1>0, <1>1
    <3> HIDE DEF R
    <3> QED BY <3>1, <3>2, Zenon DEF BytesBelow
  <2>5. S \cap R = {}
    <3> SUFFICES ASSUME NEW s \in S, s \in R
                 PROVE  FALSE
      OBVIOUS
    <3>1. PICK q \in d : q.seq < t /\ s < End(q)
      BY DEF BytesBelow
    <3>2. End(q) <= t /\ End(q) \in Nat /\ s \in Int /\ t <= s
      BY <1>1, <2>3, <3>1
    <3> QED BY <3>1, <3>2
  <2>6. t \in Nat /\ End(p) \in Nat /\ t <= End(p) /\ End(p) - t = p.len
    BY <1>1, <1>5
  <2> HIDE DEF S
  <2>7. Cardinality(S \cup R) = Cardinality(S) + (End(p) - t) - Cardinality(S \cap R)
    <3>1. IsFiniteSet(S)
      BY <1>2 DEF S
    <3>2. RangeAdds(S, t, End(p))
      BY <2>6, <3>1, RangeAdded
    <3> QED BY <3>2, Zenon DEF RangeAdds
  <2>8. Cardinality(S \cap R) = 0
    BY <2>5, FS_EmptySet, Zenon
  <2> PICK c \in Nat : c = Cardinality(S)
    BY <1>3 DEF S
  <2>9. c + p.len - 0 = c + p.len
    BY <1>1
  <2>10. Cardinality(S \cup R) = c + p.len
    BY <2>6, <2>7, <2>8, <2>9, Zenon
  <2>11. LenAt(d, t) \in Nat
    BY <1>1, <2>2
  <2> QED BY <2>2, <2>4, <2>10, <2>11, Zenon DEF S
<1> QED BY <1>2, <1>3, <1>4, <1>5

\* The sizes of packets that do not overlap add up to the bytes they cover.
LEMMA TotalIsBytes ==
    ASSUME NEW d, InStream(d), Disjoint(d)
    PROVE  TotalLen(d) = Cardinality(Bytes(d))
<1> PICK n \in Nat : n = StreamEnd
  BY RxConstants
<1> DEFINE g == CHOOSE f : Sums(f, d, n)
           T == {t \in Nat : t <= n => g[t] = Cardinality(BytesBelow(d, t))}
<1>1. Sums(g, d, n)
  BY SumsExist
<1>2. g = CHOOSE f : f = [s \in 0 .. StreamEnd |->
                             IF s = 0 THEN 0 ELSE f[s - 1] + LenAt(d, s - 1)]
  BY DEF Sums
<1>3. TotalLen(d) = g[StreamEnd]
  BY <1>2 DEF TotalLen
<1> HIDE DEF g
<1>4. 0 \in T
  <2>1. g[0] = 0
    BY <1>1 DEF Sums
  <2>2. BytesBelow(d, 0) = {}
    BY DEF BytesBelow, InStream, Packet
  <2>3. Cardinality(BytesBelow(d, 0)) = 0
    BY <2>2, FS_EmptySet, Zenon
  <2> QED BY <2>1, <2>3
<1>5. ASSUME NEW t \in T
      PROVE  t + 1 \in T
  <2> SUFFICES ASSUME t + 1 <= n
               PROVE  g[t + 1] = Cardinality(BytesBelow(d, t + 1))
    OBVIOUS
  <2>1. t \in Nat /\ t < n /\ t <= n /\ t + 1 \in 0 .. n /\ t + 1 # 0 /\ (t + 1) - 1 = t
    OBVIOUS
  <2>2. g[t + 1] = g[t] + LenAt(d, t)
    BY <1>1, <2>1 DEF Sums
  <2>3. g[t] = Cardinality(BytesBelow(d, t))
    BY <2>1
  <2>4. Cardinality(BytesBelow(d, t + 1)) = Cardinality(BytesBelow(d, t)) + LenAt(d, t)
    BY <2>1, BytesAt
  <2> QED BY <2>2, <2>3, <2>4
<1>6. n \in T
  <2>1. T \subseteq Nat
    OBVIOUS
  <2> HIDE DEF T
  <2> QED BY <1>4, <1>5, <2>1, AllNat
<1>7. BytesBelow(d, n) = Bytes(d)
  <2>1. \A p \in d : p.seq < n
    BY DEF InStream, Packet, End
  <2> QED BY <2>1, Zenon DEF BytesBelow, Bytes, Covered
<1> QED BY <1>3, <1>6, <1>7

\* There are finitely many numbers to cover.
LEMMA BytesFinite ==
    ASSUME NEW d
    PROVE  IsFiniteSet(Bytes(d)) /\ Cardinality(Bytes(d)) \in Nat
<1>1. IsFiniteSet(0 .. StreamEnd - 1)
  <2>1. 0 \in Int /\ StreamEnd - 1 \in Int
    BY RxConstants
  <2> QED BY <2>1, FS_Interval, Zenon
<1>2. Bytes(d) \in SUBSET (0 .. StreamEnd - 1)
  BY DEF Bytes
<1> QED BY <1>1, <1>2, FS_Subset, FS_CardinalityType, Zenon

(***************************************************************************)
(* The SACK list                                                           *)
(***************************************************************************)
Blocks == Nat \X Nat

\* blocks of bytes of d, all of them beyond the next number expected
Honest(d, next) ==
    {b \in Blocks : b[1] < b[2] /\ next < b[1] /\ \A s \in b[1] .. b[2] - 1 : Covered(d, s)}

\* As long as the edge stays and nothing beyond it is dropped, blocks stay honest.
LEMMA HonestGrows ==
    ASSUME NEW d, NEW e, NEW next \in Nat,
           \A s \in Nat : next < s /\ Covered(d, s) => Covered(e, s)
    PROVE  Honest(d, next) \subseteq Honest(e, next)
<1> SUFFICES ASSUME NEW b \in Honest(d, next)
             PROVE  b \in Honest(e, next)
  OBVIOUS
<1>1. b \in Nat \X Nat /\ b[1] < b[2] /\ next < b[1]
  BY DEF Honest, Blocks
<1>2. \A s \in b[1] .. b[2] - 1 : Covered(d, s)
  BY DEF Honest, Blocks
<1>3. \A s \in b[1] .. b[2] - 1 : Covered(e, s)
  BY <1>1, <1>2
<1> QED BY <1>1, <1>3, SMT DEF Honest, Blocks

\* A part of a list of members of H is one.
LEMMA SubSeqIn ==
    ASSUME NEW H, NEW l \in Seq(H), NEW m \in 1 .. Len(l) + 1, NEW n \in m - 1 .. Len(l)
    PROVE  SubSeq(l, m, n) \in Seq(H) /\ Len(SubSeq(l, m, n)) = n - m + 1
<1>1. \A k \in m .. n : l[k] \in H
  <2>1. Len(l) \in Nat /\ \A k \in 1 .. Len(l) : l[k] \in H
    OBVIOUS
  <2> QED BY <2>1
<1>2. m \in Int /\ n \in Int /\ (m <= n \/ n - m + 1 = 0)
  <2>1. Len(l) \in Nat
    OBVIOUS
  <2> QED BY <2>1
<1>3. /\ SubSeq(l, m, n) \in Seq(H)
      /\ Len(SubSeq(l, m, n)) = IF m <= n THEN n - m + 1 ELSE 0
  BY <1>1, <1>2, SubSeqProperties, Zenon
<1> QED BY <1>2, <1>3, Zenon

\* A block of list l has number s; list q tells of all that l tells of.
Told(l, s) == \E i \in 1 .. Len(l) : l[i][1] <= s /\ s < l[i][2]

Tells(q, l) == \A s \in Nat : Told(l, s) => Told(q, s)

\* List q tells of all that l tells of, but the numbers received in order by now.
Keeps(q, l, next) == \A s \in Nat : Told(l, s) => s < next \/ Told(q, s)

\* The numbers that the blocks of list l cover.
BlockBytes(l) == UNION {l[i][1] .. l[i][2] - 1 : i \in 1 .. Len(l)}

LEMMA BlockBytesTold ==
    ASSUME NEW d, NEW next, NEW l \in Seq(Honest(d, next))
    PROVE  \A s : s \in BlockBytes(l) <=> s \in Nat /\ Told(l, s)
<1>1. \A i \in 1 .. Len(l) : l[i][1] \in Nat /\ l[i][2] \in Nat
  <2> TAKE i \in 1 .. Len(l)
  <2>1. l[i] \in Honest(d, next)
    OBVIOUS
  <2> QED BY <2>1 DEF Honest, Blocks
<1> PICK n : n = Len(l)
  OBVIOUS
<1>2. \A i \in 1 .. n : \A s : s \in l[i][1] .. l[i][2] - 1
                                 <=> s \in Nat /\ l[i][1] <= s /\ s < l[i][2]
  BY <1>1
<1>3. \A s : s \in BlockBytes(l) <=> \E i \in 1 .. n : s \in l[i][1] .. l[i][2] - 1
  BY Zenon DEF BlockBytes
<1> QED BY <1>2, <1>3, Zenon DEF Told

\* The members of two lists in a row.
LEMMA ConcatAt ==
    ASSUME NEW H, NEW k \in Seq(H), NEW l \in Seq(H)
    PROVE  /\ \A j \in 1 .. Len(k) : (k \o l)[j] = k[j]
           /\ \A j \in 1 .. Len(l) : (k \o l)[Len(k) + j] = l[j]
OBVIOUS

\* The members of a list with one more.
LEMMA AppendAt ==
    ASSUME NEW H, NEW l \in Seq(H), NEW b \in H
    PROVE  /\ \A i \in 1 .. Len(l) : Append(l, b)[i] = l[i]
           /\ Append(l, b)[Len(l) + 1] = b
           /\ Len(Append(l, b)) = Len(l) + 1
OBVIOUS

\* Two blocks without a common byte, and a list in which any two are.
Separate(b, c) == b[2] <= c[1] \/ c[2] <= b[1]

ApartTo(l, n) == \A i, j \in 1 .. n : i # j => Separate(l[i], l[j])

Apart(l) == ApartTo(l, Len(l))

\* What is separate from two blocks that touch is separate from the block they make.
LEMMA MergedSeparate ==
    ASSUME NEW a \in Nat \X Nat, NEW b \in Nat \X Nat, NEW c \in Nat \X Nat,
           a[1] < a[2], b[1] < b[2], c[1] < c[2], Separate(a, c), Separate(b, c)
    PROVE  /\ a[1] = b[2] => Separate(<<b[1], a[2]>>, c)
           /\ a[2] = b[1] => Separate(<<a[1], b[2]>>, c)
BY DEF Separate

\* List q has m instead of the first block and of block i of l, and all the others in
\* their order.
Merged(q, H, l, n, i, m) ==
    /\ q \in Seq(H) /\ Len(q) = n - 1
    /\ q[1] = m
    /\ \A j \in 2 .. n : j # i => \E k \in 2 .. n - 1 : q[k] = l[j]
    /\ \A k \in 2 .. n - 1 : (k < i => q[k] = l[k]) /\ (k >= i => q[k] = l[k + 1])

LEMMA Spliced ==
    ASSUME NEW H, NEW l \in Seq(H), NEW n \in Nat, n = Len(l), NEW i \in 2 .. n, NEW m \in H
    PROVE  Merged(<<m>> \o SubSeq(l, 2, i - 1) \o SubSeq(l, i + 1, n), H, l, n, i, m)
<1> DEFINE before == SubSeq(l, 2, i - 1)
           after  == SubSeq(l, i + 1, n)
<1>1. i \in 2 .. n
  OBVIOUS
<1>2. /\ before \in Seq(H) /\ Len(before) = i - 2
      /\ \A j \in 2 .. i - 1 : before[j - 1] = l[j]
  <2> PICK two : two = 2
    OBVIOUS
  <2>1. /\ two \in 1 .. n + 1 /\ i - 1 \in two - 1 .. n
        /\ (i - 1) - two + 1 = i - 2
    OBVIOUS
  <2>2. SubSeq(l, two, i - 1) \in Seq(H) /\ Len(SubSeq(l, two, i - 1)) = (i - 1) - two + 1
    BY <2>1, SubSeqIn, ZenonT(60)
  <2>3. ASSUME NEW j \in 2 .. i - 1
        PROVE  before[j - 1] = l[j]
    BY <2>1
  <2> QED BY <2>1, <2>2, <2>3
<1>3. /\ after \in Seq(H) /\ Len(after) = n - i
      /\ \A j \in i + 1 .. n : after[j - i] = l[j]
  <2>1. i + 1 \in 1 .. n + 1 /\ n \in (i + 1) - 1 .. n /\ n - (i + 1) + 1 = n - i
    OBVIOUS
  <2>2. SubSeq(l, i + 1, n) \in Seq(H) /\ Len(SubSeq(l, i + 1, n)) = n - (i + 1) + 1
    BY <2>1, SubSeqIn, ZenonT(60)
  <2>3. ASSUME NEW j \in i + 1 .. n
        PROVE  after[j - i] = l[j]
    BY <2>1
  <2> QED BY <2>1, <2>2, <2>3
<1> HIDE DEF before, after
<1>4. <<m>> \in Seq(H) /\ Len(<<m>>) = 1 /\ <<m>>[1] = m
  OBVIOUS
<1> DEFINE x == <<m>> \o before
<1>5. /\ x \in Seq(H) /\ Len(x) = i - 1
      /\ x[1] = m
      /\ \A j \in 2 .. i - 1 : x[j] = l[j]
  <2>1. x \in Seq(H) /\ Len(x) = Len(<<m>>) + Len(before)
    BY <1>2, <1>4, ConcatProperties, Zenon
  <2>2. Len(x) = i - 1
    BY <1>2, <1>4, <2>1
  <2>3. x[1] = m
    BY <1>2, <1>4
  <2>4. ASSUME NEW j \in 2 .. i - 1
        PROVE  x[j] = l[j]
    <3>1. j - 1 \in 1 .. Len(before) /\ Len(<<m>>) + (j - 1) = j
      BY <1>2, <1>4
    <3>2. x[Len(<<m>>) + (j - 1)] = before[j - 1]
      BY <1>2, <1>4, <3>1, ConcatAt
    <3> QED BY <1>2, <3>1, <3>2
  <2> QED BY <2>1, <2>2, <2>3, <2>4
<1> HIDE DEF x
<1> DEFINE q == x \o after
<1>6. /\ q \in Seq(H) /\ Len(q) = n - 1
      /\ \A j \in 1 .. i - 1 : q[j] = x[j]
      /\ \A j \in i + 1 .. n : q[j - 1] = l[j]
  <2>1. q \in Seq(H) /\ Len(q) = Len(x) + Len(after)
    BY <1>3, <1>5, ConcatProperties, Zenon
  <2>2. Len(q) = n - 1
    BY <1>3, <1>5, <2>1
  <2>3. \A j \in 1 .. i - 1 : q[j] = x[j]
    BY <1>3, <1>5, ConcatAt
  <2>4. ASSUME NEW j \in i + 1 .. n
        PROVE  q[j - 1] = l[j]
    <3>1. j - i \in 1 .. Len(after) /\ Len(x) + (j - i) = j - 1
      BY <1>3, <1>5
    <3>2. q[Len(x) + (j - i)] = after[j - i]
      <4>1. x \in Seq(H) /\ after \in Seq(H)
        BY <1>3, <1>5
      <4> PICK a : a = j - i
        OBVIOUS
      <4>2. (x \o after)[Len(x) + a] = after[a]
        BY <3>1, <4>1, ConcatAt
      <4> QED BY <4>2
    <3> QED BY <1>3, <3>1, <3>2
  <2> QED BY <2>1, <2>2, <2>3, <2>4
<1> HIDE DEF q
<1>7. q[1] = m
  BY <1>5, <1>6
<1>8. ASSUME NEW j \in 2 .. n, j # i
      PROVE  \E k \in 2 .. n - 1 : q[k] = l[j]
  <2>1. CASE j < i
    <3>1. j \in 2 .. n - 1 /\ j \in 1 .. i - 1 /\ j \in 2 .. i - 1
      BY <2>1
    <3> QED BY <1>5, <1>6, <3>1, Zenon
  <2>2. CASE j > i
    <3>1. j - 1 \in 2 .. n - 1 /\ j \in i + 1 .. n
      BY <2>2
    <3> QED BY <1>6, <3>1, Zenon
  <2> QED BY <1>8, <2>1, <2>2
<1>8a. ASSUME NEW k \in 2 .. n - 1
       PROVE  (k < i => q[k] = l[k]) /\ (k >= i => q[k] = l[k + 1])
  <2>1. CASE k < i
    <3>1. k \in 1 .. i - 1 /\ k \in 2 .. i - 1 /\ ~ (k >= i)
      BY <2>1
    <3> QED BY <1>5, <1>6, <3>1, Zenon
  <2>2. CASE k >= i
    <3>1. k + 1 \in i + 1 .. n /\ (k + 1) - 1 = k /\ ~ (k < i)
      BY <2>2
    <3> QED BY <1>6, <3>1, Zenon
  <2> QED BY <2>1, <2>2
<1>9. q = <<m>> \o SubSeq(l, 2, i - 1) \o SubSeq(l, i + 1, n)
  BY DEF q, x, before, after
<1>10. Merged(q, H, l, n, i, m)
  BY <1>6, <1>7, <1>8, <1>8a, Zenon DEF Merged
<1> QED BY <1>9, <1>10, Zenon

\* The blocks of such a list are apart if those of l are and m is apart from the others.
LEMMA MergedApart ==
    ASSUME NEW q, NEW H, NEW l, NEW n \in Nat, n = Len(l), NEW i \in 2 .. n, NEW m,
           Merged(q, H, l, n, i, m), Apart(l),
           \A j \in 2 .. n : j # i => Separate(m, l[j])
    PROVE  Apart(q)
<1>1. /\ Len(q) = n - 1 /\ q[1] = m
      /\ \A k \in 2 .. n - 1 : (k < i => q[k] = l[k]) /\ (k >= i => q[k] = l[k + 1])
  BY Zenon DEF Merged
<1>2. \A k \in 2 .. n - 1 :
         \E j \in 2 .. n : j # i /\ q[k] = l[j] /\ (k < i => j = k) /\ (k >= i => j = k + 1)
  <2> TAKE k \in 2 .. n - 1
  <2>1. CASE k < i
    <3>1. k \in 2 .. n /\ k # i /\ ~ (k >= i) /\ q[k] = l[k]
      BY <1>1, <2>1
    <3> QED BY <2>1, <3>1, Zenon
  <2>2. CASE k >= i
    <3>1. k + 1 \in 2 .. n /\ k + 1 # i /\ ~ (k < i) /\ q[k] = l[k + 1]
      BY <1>1, <2>2
    <3> QED BY <2>2, <3>1, Zenon
  <2> QED BY <2>1, <2>2
<1>3. \A k \in 2 .. n - 1 : Separate(q[1], q[k]) /\ Separate(q[k], q[1])
  <2>1. \A b, c : Separate(b, c) => Separate(c, b)
    BY Zenon DEF Separate
  <2> QED BY <1>1, <1>2, <2>1, Zenon
<1>4. ASSUME NEW a \in 2 .. n - 1, NEW b \in 2 .. n - 1, a # b
      PROVE  Separate(q[a], q[b])
  <2>1. PICK j \in 2 .. n : q[a] = l[j] /\ (a < i => j = a) /\ (a >= i => j = a + 1)
    BY <1>2, Zenon
  <2>2. PICK k \in 2 .. n : q[b] = l[k] /\ (b < i => k = b) /\ (b >= i => k = b + 1)
    BY <1>2, Zenon
  <2>3. j # k /\ j \in 1 .. n /\ k \in 1 .. n
    BY <1>4, <2>1, <2>2
  <2> QED BY <2>1, <2>2, <2>3, Zenon DEF Apart, ApartTo
<1>5. \A a \in 1 .. n - 1 : a = 1 \/ a \in 2 .. n - 1
  OBVIOUS
<1>6. ApartTo(q, n - 1)
  BY <1>3, <1>4, <1>5, Zenon DEF ApartTo
<1> QED BY <1>1, <1>6, Zenon DEF Apart

\* A merge keeps the list honest and its blocks apart, does not lengthen it and forgets
\* nothing.
LEMMA MergeOnceKeeps ==
    ASSUME NEW d, NEW next \in Nat, NEW l \in Seq(Honest(d, next)), Len(l) > 0
    PROVE  /\ MergeOnce[l] \in Seq(Honest(d, next))
           /\ Len(MergeOnce[l]) \in 1 .. Len(l)
           /\ Tells(MergeOnce[l], l)
           /\ Apart(l) => Apart(MergeOnce[l])
<1> DEFINE touching == {i \in 2 .. Len(l) : Adjacent(l[1], l[i])}
           H == Honest(d, next)
<1>1. /\ Len(l) \in Nat /\ l \in Seq(H)
      /\ \A i \in 1 .. Len(l) : l[i] \in H
  OBVIOUS
<1>2. l \in Seq(Blocks)
  <2>1. \A i \in 1 .. Len(l) : l[i] \in Blocks
    BY <1>1 DEF Honest
  <2> QED BY <2>1
<1>3. CASE touching = {}
  <2>1. MergeOnce[l] = l
    BY <1>2, <1>3 DEF MergeOnce, Blocks
  <2> QED BY <1>1, <2>1 DEF Tells
<1>4. CASE touching # {}
  <2> DEFINE i == Min(touching)
             merged == IF l[1][1] = l[i][2] THEN <<l[i][1], l[1][2]>> ELSE <<l[1][1], l[i][2]>>
             q == <<merged>> \o SubSeq(l, 2, i - 1) \o SubSeq(l, i + 1, Len(l))
  <2>1. i \in 2 .. Len(l) /\ Adjacent(l[1], l[i])
    <3>1. touching \subseteq Nat
      OBVIOUS
    <3>2. i \in touching
      <4> HIDE DEF touching
      <4> QED BY <1>4, <3>1, MinNat
    <3> QED BY <3>2
  <2>2. MergeOnce[l] = q
    BY <1>2, <1>4 DEF MergeOnce, Blocks
  <2> HIDE DEF i, touching
  <2>3. /\ merged \in H
        /\ \A j \in {1, i} : merged[1] <= l[j][1] /\ l[j][2] <= merged[2]
    <3> PICK a \in H : a = l[1]
      BY <1>1, <2>1
    <3> PICK b \in H : b = l[i]
      BY <1>1, <2>1
    <3>1. /\ a[1] \in Nat /\ a[2] \in Nat /\ a[1] < a[2] /\ next < a[1]
          /\ \A s \in a[1] .. a[2] - 1 : Covered(d, s)
          /\ b[1] \in Nat /\ b[2] \in Nat /\ b[1] < b[2] /\ next < b[1]
          /\ \A s \in b[1] .. b[2] - 1 : Covered(d, s)
      BY DEF Honest, Blocks
    <3>2. CASE a[1] = b[2]
      <4>1. merged = <<b[1], a[2]>>
        BY <3>2
      <4>2. \A s \in b[1] .. a[2] - 1 : Covered(d, s)
        BY <3>1, <3>2
      <4>3. merged \in H
        BY <3>1, <3>2, <4>1, <4>2 DEF Honest, Blocks
      <4>4. /\ merged[1] <= a[1] /\ a[2] <= merged[2]
            /\ merged[1] <= b[1] /\ b[2] <= merged[2]
        BY <3>1, <3>2, <4>1
      <4> QED BY <4>3, <4>4, Zenon
    <3>3. CASE a[1] # b[2] /\ a[2] = b[1]
      <4>1. merged = <<a[1], b[2]>>
        BY <3>3
      <4>2. \A s \in a[1] .. b[2] - 1 : Covered(d, s)
        BY <3>1, <3>3
      <4>3. merged \in H
        BY <3>1, <3>3, <4>1, <4>2 DEF Honest, Blocks
      <4>4. /\ merged[1] <= a[1] /\ a[2] <= merged[2]
            /\ merged[1] <= b[1] /\ b[2] <= merged[2]
        BY <3>1, <3>3, <4>1
      <4> QED BY <4>3, <4>4, Zenon
    <3> QED BY <2>1, <3>2, <3>3 DEF Adjacent
  <2> PICK m : m = merged
    OBVIOUS
  <2> PICK n \in Nat : n = Len(l)
    BY <1>1
  <2>3a. Merged(q, H, l, n, i, m)
    <3>1. i \in 2 .. n /\ m \in H
      BY <2>1, <2>3
    <3>2. q = <<m>> \o SubSeq(l, 2, i - 1) \o SubSeq(l, i + 1, n)
      BY Zenon
    <3> HIDE DEF merged, H, q
    <3> QED BY <1>1, <3>1, <3>2, Spliced, ZenonT(60)
  <2> HIDE DEF merged, q
  <2>4. /\ q \in Seq(H) /\ Len(q) = n - 1 /\ q[1] = m
        /\ \A j \in 2 .. n : j # i => \E k \in 2 .. n - 1 : q[k] = l[j]
    BY <2>3a, Zenon DEF Merged
  <2>4a. Apart(l) => Apart(q)
    <3> SUFFICES ASSUME Apart(l)
                 PROVE  Apart(q)
      OBVIOUS
    <3>1. ASSUME NEW j \in 2 .. n, j # i
          PROVE  Separate(m, l[j])
      <4>1. 1 \in 1 .. n /\ i \in 1 .. n /\ j \in 1 .. n /\ 1 # j /\ i # j
        BY <2>1, <3>1
      <4> PICK a \in H : a = l[1]
        BY <1>1, <4>1
      <4> PICK b \in H : b = l[i]
        BY <1>1, <4>1
      <4> PICK c \in H : c = l[j]
        BY <1>1, <4>1
      <4>2. /\ a \in Nat \X Nat /\ b \in Nat \X Nat /\ c \in Nat \X Nat
            /\ a[1] < a[2] /\ b[1] < b[2] /\ c[1] < c[2]
        BY DEF Honest, Blocks
      <4>3. Separate(a, c) /\ Separate(b, c)
        BY <4>1, Zenon DEF Apart, ApartTo
      <4>4. /\ a[1] = b[2] => Separate(<<b[1], a[2]>>, c)
            /\ a[2] = b[1] => Separate(<<a[1], b[2]>>, c)
        BY <4>2, <4>3, MergedSeparate
      <4>5. m = (IF a[1] = b[2] THEN <<b[1], a[2]>> ELSE <<a[1], b[2]>>)
        BY Zenon DEF merged
      <4>6. a[1] = b[2] \/ a[2] = b[1]
        BY <2>1, Zenon DEF Adjacent
      <4> QED BY <4>4, <4>5, <4>6, Zenon
    <3>2. i \in 2 .. n
      BY <2>1
    <3> QED BY <2>3a, <3>1, <3>2, MergedApart, Zenon
  <2>5. Tells(q, l)
    <3> SUFFICES ASSUME NEW s \in Nat, NEW j \in 1 .. n, l[j][1] <= s, s < l[j][2]
                 PROVE  \E k \in 1 .. n - 1 : q[k][1] <= s /\ s < q[k][2]
      BY <2>4, Zenon DEF Tells, Told
    <3>1. l[j] \in Blocks /\ m \in Blocks
      BY <1>1, <2>3 DEF Honest
    <3>2. CASE j \in {1, i}
      <4>1. m[1] <= l[j][1] /\ l[j][2] <= m[2]
        BY <2>3, <3>2
      <4>2. m[1] <= s /\ s < m[2]
        BY <3>1, <4>1 DEF Blocks
      <4>3. 1 \in 1 .. n - 1
        BY <2>1
      <4> QED BY <2>4, <4>2, <4>3, Zenon
    <3>3. CASE j \notin {1, i}
      <4>1. j \in 2 .. n /\ j # i
        BY <3>3
      <4>2. PICK k \in 2 .. n - 1 : q[k] = l[j]
        BY <2>4, <4>1, Zenon
      <4>3. k \in 1 .. n - 1
        OBVIOUS
      <4> QED BY <4>2, <4>3, Zenon
    <3> QED BY <3>2, <3>3
  <2>6. n - 1 \in 1 .. n
    BY <2>1
  <2> QED BY <2>2, <2>4, <2>4a, <2>5, <2>6, Zenon
<1> QED BY <1>3, <1>4

\* The loop of MergeFront, as a function of the number of turns.
Merges(f, l, n) == f = [k \in 0 .. n |-> IF k = 0 THEN l ELSE MergeOnce[f[k - 1]]]

\* The recursive function of MergeFront is one.
LEMMA MergesExist ==
    ASSUME NEW l, NEW n \in Nat
    PROVE  \E f : Merges(f, l, n)
<1> DEFINE T == {m \in Nat : \E f : Merges(f, l, m)}
<1>1. 0 \in T
  <2> DEFINE g == [k \in 0 .. 0 |-> l]
  <2>1. g = [k \in 0 .. 0 |-> IF k = 0 THEN l ELSE MergeOnce[g[k - 1]]]
    <3>1. \A k \in 0 .. 0 : k = 0
      OBVIOUS
    <3> QED BY <3>1
  <2>2. Merges(g, l, 0)
    BY <2>1 DEF Merges
  <2> QED BY <2>2
<1>2. ASSUME NEW m \in T
      PROVE  m + 1 \in T
  <2>1. PICK f : Merges(f, l, m)
    OBVIOUS
  <2> DEFINE g == [k \in 0 .. m + 1 |-> IF k = m + 1 THEN MergeOnce[f[m]] ELSE f[k]]
  <2>2. m \in Nat
    OBVIOUS
  <2>3. \A k \in 0 .. m + 1 : g[k] = IF k = 0 THEN l ELSE MergeOnce[g[k - 1]]
    <3> SUFFICES ASSUME NEW k \in 0 .. m + 1
                 PROVE  g[k] = IF k = 0 THEN l ELSE MergeOnce[g[k - 1]]
      OBVIOUS
    <3>1. CASE k = 0
      <4>1. k \in 0 .. m /\ k # m + 1
        BY <2>2, <3>1
      <4>2. f[k] = l
        BY <2>1, <3>1, <4>1 DEF Merges
      <4> QED BY <3>1, <4>1, <4>2
    <3>2. CASE k # 0 /\ k # m + 1
      <4>1. k \in 0 .. m /\ k - 1 \in 0 .. m + 1 /\ k - 1 # m + 1
        BY <2>2, <3>2
      <4>2. f[k] = MergeOnce[f[k - 1]]
        BY <2>1, <3>2, <4>1 DEF Merges
      <4> QED BY <3>2, <4>1, <4>2
    <3>3. CASE k = m + 1
      <4>1. k # 0 /\ k - 1 = m /\ m \in 0 .. m + 1 /\ m # m + 1
        BY <2>2, <3>3
      <4>2. g[m] = f[m] /\ g[k] = MergeOnce[f[m]]
        BY <3>3, <4>1
      <4> QED BY <4>1, <4>2
    <3> QED BY <3>1, <3>2, <3>3
  <2>4. g = [k \in 0 .. m + 1 |-> IF k = 0 THEN l ELSE MergeOnce[g[k - 1]]]
    <3>1. g = [k \in 0 .. m + 1 |-> g[k]]
      OBVIOUS
    <3> HIDE DEF g
    <3> QED BY <2>3, <3>1
  <2>5. Merges(g, l, m + 1)
    BY <2>4 DEF Merges
  <2> QED BY <2>2, <2>5
<1>3. n \in T
  <2>1. T \subseteq Nat
    OBVIOUS
  <2> HIDE DEF T
  <2> QED BY <1>1, <1>2, <2>1, AllNat
<1> QED BY <1>3

\* However many blocks touch the new one, and touch what it became.
LEMMA MergeFrontKeeps ==
    ASSUME NEW d, NEW next \in Nat, NEW l \in Seq(Honest(d, next)), Len(l) > 0
    PROVE  /\ MergeFront(l) \in Seq(Honest(d, next))
           /\ Len(MergeFront(l)) \in 1 .. Len(l)
           /\ Tells(MergeFront(l), l)
           /\ Apart(l) => Apart(MergeFront(l))
<1> PICK n \in Nat : n = Len(l)
  OBVIOUS
<1> DEFINE g == CHOOSE f : Merges(f, l, n)
           T == {m \in Nat : m <= n => /\ g[m] \in Seq(Honest(d, next))
                                       /\ Len(g[m]) \in 1 .. n
                                       /\ Tells(g[m], l)
                                       /\ Apart(l) => Apart(g[m])}
<1>1. Merges(g, l, n)
  BY MergesExist
<1>2. g = CHOOSE f : f = [k \in 0 .. Len(l) |-> IF k = 0 THEN l ELSE MergeOnce[f[k - 1]]]
  BY DEF Merges
<1>3. MergeFront(l) = g[Len(l)]
  BY <1>2 DEF MergeFront
<1> HIDE DEF g
<1>4. 0 \in T
  <2>1. g[0] = l
    BY <1>1 DEF Merges
  <2>2. Tells(l, l)
    BY DEF Tells
  <2> QED BY <2>1, <2>2
<1>5. ASSUME NEW m \in T
      PROVE  m + 1 \in T
  <2> SUFFICES ASSUME m + 1 <= n
               PROVE  /\ g[m + 1] \in Seq(Honest(d, next))
                      /\ Len(g[m + 1]) \in 1 .. n
                      /\ Tells(g[m + 1], l)
                      /\ Apart(l) => Apart(g[m + 1])
    OBVIOUS
  <2>1. m \in Nat /\ m <= n /\ m + 1 \in 0 .. n /\ m + 1 # 0 /\ (m + 1) - 1 = m
    OBVIOUS
  <2>2. g[m + 1] = MergeOnce[g[m]]
    BY <1>1, <2>1 DEF Merges
  <2>3. /\ g[m] \in Seq(Honest(d, next)) /\ Len(g[m]) \in 1 .. n /\ Tells(g[m], l)
        /\ Apart(l) => Apart(g[m])
    BY <2>1
  <2> PICK x : x = g[m]
    OBVIOUS
  <2>4. /\ MergeOnce[x] \in Seq(Honest(d, next)) /\ Len(MergeOnce[x]) \in 1 .. Len(x)
        /\ Tells(MergeOnce[x], x)
        /\ Apart(x) => Apart(MergeOnce[x])
    BY <2>3, MergeOnceKeeps
  <2>5. Tells(MergeOnce[x], l)
    BY <2>3, <2>4, Zenon DEF Tells
  <2> QED BY <2>2, <2>3, <2>4, <2>5
<1>6. n \in T
  <2>1. T \subseteq Nat
    OBVIOUS
  <2> HIDE DEF T
  <2> QED BY <1>4, <1>5, <2>1, AllNat
<1> QED BY <1>3, <1>6

\* UpdateSackList drops a fifth block.
LEMMA AtMostFour ==
    ASSUME NEW H, NEW q \in Seq(H), Len(q) \in 1 .. 5
    PROVE  /\ (IF Len(q) > 4 THEN SubSeq(q, 1, Len(q) - 1) ELSE q) \in Seq(H)
           /\ Len(IF Len(q) > 4 THEN SubSeq(q, 1, Len(q) - 1) ELSE q) <= 4
<1>1. CASE Len(q) > 4
  <2> PICK n : n = Len(q)
    OBVIOUS
  <2> PICK one : one = 1
    OBVIOUS
  <2>1. one \in 1 .. n + 1 /\ n - 1 \in one - 1 .. n /\ (n - 1) - one + 1 <= 4
    OBVIOUS
  <2>2. SubSeq(q, one, n - 1) \in Seq(H) /\ Len(SubSeq(q, one, n - 1)) = (n - 1) - one + 1
    BY <2>1, SubSeqIn, Zenon
  <2> QED BY <1>1, <2>1, <2>2, Zenon
<1>2. CASE ~ (Len(q) > 4)
  <2>1. Len(q) <= 4
    BY <1>2
  <2> QED BY <1>2, <2>1, Zenon
<1> QED BY <1>1, <1>2, Zenon

\* The list after the new block was put in front of it.
LEMMA MergedAtMostFour ==
    ASSUME NEW d, NEW next \in Nat, NEW l \in Seq(Honest(d, next)), Len(l) \in 1 .. 5,
           NEW q, q = MergeFront(l)
    PROVE  /\ q \in Seq(Honest(d, next)) /\ Len(q) \in 1 .. 5
           /\ Len(q) <= Len(l) /\ Tells(q, l)
<1>1. Len(l) > 0
  OBVIOUS
<1>2. /\ MergeFront(l) \in Seq(Honest(d, next)) /\ Len(MergeFront(l)) \in 1 .. Len(l)
      /\ Tells(MergeFront(l), l)
  BY <1>1, MergeFrontKeeps, Zenon
<1> PICK n : n = Len(q)
  OBVIOUS
<1> PICK m \in 1 .. 5 : m = Len(l)
  OBVIOUS
<1>3. n \in 1 .. m
  BY <1>2, Zenon
<1>4. n \in 1 .. 5 /\ n <= m
  BY <1>3, SMTT(30)
<1> QED BY <1>2, <1>4, Zenon

\* A new block of stored bytes beyond the edge leaves an honest list, and pushes none out
\* of a list of less than four.
LEMMA UpdateKeeps ==
    ASSUME NEW d, NEW next \in Nat, NEW head \in Nat, NEW tail \in Nat,
           <<head, tail>> \in Honest(d, next),
           sackList \in Seq(Honest(d, next)), Len(sackList) <= 4
    PROVE  /\ UpdateSackList(head, tail) \in Seq(Honest(d, next))
           /\ Len(UpdateSackList(head, tail)) <= 4
           /\ Len(sackList) < 4 => Tells(UpdateSackList(head, tail), sackList)
<1> PICK k : k = Len(sackList)
  OBVIOUS
<1>0. k \in 0 .. 4
  <2>1. k \in Nat
    OBVIOUS
  <2>2. k <= 4
    BY Zenon
  <2> QED BY <2>1, <2>2
<1> DEFINE H == Honest(d, next)
           l == <<<<head, tail>>>> \o sackList
           q == MergeFront(l)
<1>1. <<<<head, tail>>>> \in Seq(H) /\ Len(<<<<head, tail>>>>) = 1
  <2> PICK b \in H : b = <<head, tail>>
    OBVIOUS
  <2>1. <<b>> \in Seq(H) /\ Len(<<b>>) = 1
    OBVIOUS
  <2> QED BY <2>1, Zenon
<1>2. l \in Seq(H) /\ Len(l) = 1 + k
  <2>1. l \in Seq(H) /\ Len(l) = Len(<<<<head, tail>>>>) + Len(sackList)
    BY <1>1, ConcatProperties, Zenon
  <2> QED BY <1>1, <2>1, Zenon
<1>3. 1 + k \in 1 .. 5
  BY <1>0
<1>4. q \in Seq(H) /\ Len(q) \in 1 .. 5 /\ Len(q) <= Len(l) /\ Tells(q, l)
  BY <1>2, <1>3, MergedAtMostFour, Zenon
<1>4a. Tells(l, sackList)
  <2>1. \A j \in 1 .. k : l[1 + j] = sackList[j]
    <3> PICK e \in Seq(H) : e = <<<<head, tail>>>> /\ Len(e) = 1
      BY <1>1, Zenon
    <3>1. \A j \in 1 .. Len(sackList) : (e \o sackList)[Len(e) + j] = sackList[j]
      <4> HIDE DEF H
      <4> PICK r \in Seq(H) : r = sackList
        BY Zenon DEF H
      <4>1. \A j \in 1 .. Len(r) : (e \o r)[Len(e) + j] = r[j]
        OBVIOUS
      <4> QED BY <4>1, Zenon
    <3> QED BY <3>1, Zenon
  <2>2. ASSUME NEW s \in Nat, NEW j \in 1 .. k, sackList[j][1] <= s, s < sackList[j][2]
        PROVE  Told(l, s)
    <3>1. 1 + j \in 1 .. 1 + k
      BY <1>0
    <3> HIDE DEF l
    <3> QED BY <1>2, <2>1, <2>2, <3>1, Zenon DEF Told
  <2> HIDE DEF l
  <2> QED BY <2>2, Zenon DEF Tells, Told
<1>5. UpdateSackList(head, tail) = IF Len(q) > 4 THEN SubSeq(q, 1, Len(q) - 1) ELSE q
  BY Zenon DEF UpdateSackList
<1> HIDE DEF q, H
<1>6. /\ (IF Len(q) > 4 THEN SubSeq(q, 1, Len(q) - 1) ELSE q) \in Seq(H)
      /\ Len(IF Len(q) > 4 THEN SubSeq(q, 1, Len(q) - 1) ELSE q) <= 4
  BY <1>4, AtMostFour, Zenon
<1>7. ASSUME k < 4
      PROVE  Tells(UpdateSackList(head, tail), sackList)
  <2> PICK n : n = Len(q)
    OBVIOUS
  <2>1. n \in 1 .. 5 /\ n <= 1 + k
    BY <1>2, <1>4, Zenon
  <2>2. ~ (n > 4)
    BY <1>0, <1>7, <2>1
  <2>3. UpdateSackList(head, tail) = q
    BY <1>5, <2>2, Zenon
  <2> QED BY <1>4, <1>4a, <2>3, Zenon DEF Tells
<1> QED BY <1>5, <1>6, <1>7, Zenon DEF H

\* One more block, at the end or at the front, apart from all the others.
LEMMA ApartAfter ==
    ASSUME NEW k \in Nat, NEW x, ApartTo(x, k), NEW q, NEW b, q[k + 1] = b,
           \A i \in 1 .. k : q[i] = x[i] /\ Separate(b, x[i])
    PROVE  ApartTo(q, k + 1)
<1>1. \A i \in 1 .. k + 1 : i \in 1 .. k \/ i = k + 1
  OBVIOUS
<1>2. \A i \in 1 .. k : Separate(q[k + 1], q[i]) /\ Separate(q[i], q[k + 1])
  BY Zenon DEF Separate
<1>3. \A i, j \in 1 .. k : i # j => Separate(q[i], q[j])
  BY Zenon DEF ApartTo
<1> QED BY <1>1, <1>2, <1>3, Zenon DEF ApartTo

\* A block put in front of blocks that are apart, and apart from each, keeps them apart.
LEMMA ApartBefore ==
    ASSUME NEW k \in Nat, NEW x, ApartTo(x, k), NEW q, NEW b, q[1] = b,
           \A i \in 1 .. k : q[1 + i] = x[i] /\ Separate(b, x[i])
    PROVE  ApartTo(q, 1 + k)
<1>1. \A i \in 1 .. 1 + k : i = 1 \/ (i - 1 \in 1 .. k /\ 1 + (i - 1) = i)
  OBVIOUS
<1>2. \A i \in 1 .. k : Separate(q[1], q[1 + i]) /\ Separate(q[1 + i], q[1])
  BY Zenon DEF Separate
<1>3. \A i, j \in 1 .. k : i # j => Separate(q[1 + i], q[1 + j])
  BY Zenon DEF ApartTo
<1>4. ASSUME NEW i \in 1 .. 1 + k, NEW j \in 1 .. 1 + k, i # j
      PROVE  Separate(q[i], q[j])
  <2>1. CASE i = 1
    <3>1. j - 1 \in 1 .. k /\ 1 + (j - 1) = j
      BY <1>4, <2>1
    <3> QED BY <1>2, <2>1, <3>1, Zenon
  <2>2. CASE j = 1
    <3>1. i - 1 \in 1 .. k /\ 1 + (i - 1) = i
      BY <1>4, <2>2
    <3> QED BY <1>2, <2>2, <3>1, Zenon
  <2>3. CASE i # 1 /\ j # 1
    <3>1. /\ i - 1 \in 1 .. k /\ 1 + (i - 1) = i
          /\ j - 1 \in 1 .. k /\ 1 + (j - 1) = j /\ i - 1 # j - 1
      BY <1>4, <2>3
    <3>2. Separate(q[1 + (i - 1)], q[1 + (j - 1)])
      BY <1>3, <3>1, Zenon
    <3> QED BY <3>1, <3>2, Zenon
  <2> QED BY <2>1, <2>2, <2>3
<1> QED BY <1>4, Zenon DEF ApartTo

\* A list from which the last block is dropped stays apart.
LEMMA FrontApart ==
    ASSUME NEW H, NEW q \in Seq(H), Len(q) > 0, Apart(q)
    PROVE  Apart(SubSeq(q, 1, Len(q) - 1))
<1> PICK n \in Nat : n = Len(q)
  OBVIOUS
<1> PICK one : one = 1
  OBVIOUS
<1> PICK r : r = SubSeq(q, one, n - 1)
  OBVIOUS
<1>1. one \in 1 .. n + 1 /\ n - 1 \in one - 1 .. n /\ (n - 1) - one + 1 = n - 1
  OBVIOUS
<1>2. Len(r) = n - 1
  <2>1. SubSeq(q, one, n - 1) \in Seq(H) /\ Len(SubSeq(q, one, n - 1)) = (n - 1) - one + 1
    BY <1>1, SubSeqIn, ZenonT(60)
  <2> QED BY <1>1, <2>1, Zenon
<1>3. \A k \in 1 .. n - 1 : r[k] = q[k]
  BY SMTT(30)
<1>4. \A k \in 1 .. n - 1 : k \in 1 .. n
  OBVIOUS
<1>5. ApartTo(q, n)
  BY Zenon DEF Apart
<1>6. ApartTo(r, n - 1)
  BY <1>3, <1>4, <1>5, Zenon DEF ApartTo
<1>7. Apart(r)
  BY <1>2, <1>6, Zenon DEF Apart
<1> QED BY <1>7, Zenon

\* A new block apart from those of the list leaves them apart, whatever it merges with.
LEMMA UpdateApart ==
    ASSUME NEW d, NEW next \in Nat, NEW head \in Nat, NEW tail \in Nat,
           <<head, tail>> \in Honest(d, next),
           sackList \in Seq(Honest(d, next)), Apart(sackList),
           \A i \in 1 .. Len(sackList) : Separate(<<head, tail>>, sackList[i])
    PROVE  Apart(UpdateSackList(head, tail))
<1> DEFINE H == Honest(d, next)
<1> PICK b \in H : b = <<head, tail>>
  OBVIOUS
<1> PICK r \in Seq(H) : r = sackList
  OBVIOUS
<1> PICK k \in Nat : k = Len(r)
  OBVIOUS
<1>0. PICK l : l = <<b>> \o r
  OBVIOUS
<1>1. /\ l \in Seq(H) /\ Len(l) = 1 + k /\ l[1] = b
      /\ \A j \in 1 .. k : l[1 + j] = r[j]
  <2> HIDE DEF H
  <2>0. <<b>> \in Seq(H) /\ Len(<<b>>) = 1 /\ <<b>>[1] = b
    OBVIOUS
  <2> PICK e \in Seq(H) : e = <<b>> /\ Len(e) = 1 /\ e[1] = b
    BY <2>0, Zenon
  <2>1. e \o r \in Seq(H) /\ Len(e \o r) = Len(e) + Len(r)
    BY ConcatProperties, Zenon
  <2>2. \A j \in 1 .. Len(e) : (e \o r)[j] = e[j]
    OBVIOUS
  <2>3. \A j \in 1 .. Len(r) : (e \o r)[Len(e) + j] = r[j]
    OBVIOUS
  <2>4. 1 \in 1 .. 1
    OBVIOUS
  <2> QED BY <1>0, <2>1, <2>2, <2>3, <2>4, Zenon
<1>2. Apart(l)
  <2>1. ApartTo(r, k)
    BY Zenon DEF Apart
  <2>2. \A j \in 1 .. k : l[1 + j] = r[j] /\ Separate(b, r[j])
    BY <1>1, Zenon
  <2>3. ApartTo(l, 1 + k)
    BY <1>1, <2>1, <2>2, ApartBefore, ZenonT(60)
  <2> QED BY <1>1, <2>3, Zenon DEF Apart
<1> PICK q : q = MergeFront(l)
  OBVIOUS
<1>3. q \in Seq(H) /\ Len(q) \in 1 .. Len(l) /\ Apart(q)
  <2>1. Len(l) > 0
    BY <1>1
  <2> QED BY <1>1, <1>2, <2>1, MergeFrontKeeps, Zenon
<1>4. UpdateSackList(head, tail) = IF Len(q) > 4 THEN SubSeq(q, 1, Len(q) - 1) ELSE q
  BY <1>0, Zenon DEF UpdateSackList
<1>5. Apart(SubSeq(q, 1, Len(q) - 1))
  <2> PICK m : m = Len(q)
    OBVIOUS
  <2>1. m \in 1 .. 1 + k
    BY <1>1, <1>3, Zenon
  <2>2. m > 0
    BY <2>1
  <2> QED BY <1>3, <2>2, FrontApart, Zenon
<1> QED BY <1>3, <1>4, <1>5, Zenon

\* The loop of ClearSackList over list l, as a function of the number of turns.
KeptBlock(f, l, s, i) == IF Beyond(l[i], s) THEN Append(f[i - 1], l[i]) ELSE f[i - 1]

Clears(f, l, s, n) == f = [i \in 0 .. n |-> IF i = 0 THEN <<>> ELSE KeptBlock(f, l, s, i)]

\* The recursive function of ClearSackList is one.
LEMMA ClearsExist ==
    ASSUME NEW l, NEW s, NEW n \in Nat
    PROVE  \E f : Clears(f, l, s, n)
<1> DEFINE T == {m \in Nat : \E f : Clears(f, l, s, m)}
<1>1. 0 \in T
  <2> DEFINE g == [i \in 0 .. 0 |-> <<>>]
  <2>1. g = [i \in 0 .. 0 |-> IF i = 0 THEN <<>> ELSE KeptBlock(g, l, s, i)]
    <3>1. \A i \in 0 .. 0 : i = 0
      OBVIOUS
    <3> QED BY <3>1
  <2>2. Clears(g, l, s, 0)
    BY <2>1 DEF Clears
  <2> QED BY <2>2
<1>2. ASSUME NEW m \in T
      PROVE  m + 1 \in T
  <2>1. PICK f : Clears(f, l, s, m)
    OBVIOUS
  <2> DEFINE g == [i \in 0 .. m + 1 |-> IF i = m + 1 THEN KeptBlock(f, l, s, i) ELSE f[i]]
  <2>2. m \in Nat
    OBVIOUS
  <2>3. \A i \in 0 .. m + 1 : g[i] = IF i = 0 THEN <<>> ELSE KeptBlock(g, l, s, i)
    <3> SUFFICES ASSUME NEW i \in 0 .. m + 1
                 PROVE  g[i] = IF i = 0 THEN <<>> ELSE KeptBlock(g, l, s, i)
      OBVIOUS
    <3>1. CASE i = 0
      <4>1. i \in 0 .. m /\ i # m + 1
        BY <2>2, <3>1
      <4>2. f[i] = <<>>
        BY <2>1, <3>1, <4>1 DEF Clears
      <4> QED BY <3>1, <4>1, <4>2
    <3>2. CASE i # 0
      <4>1. i - 1 \in 0 .. m + 1 /\ i - 1 # m + 1
        BY <2>2, <3>2
      <4>2. g[i - 1] = f[i - 1]
        BY <4>1
      <4>3. KeptBlock(g, l, s, i) = KeptBlock(f, l, s, i)
        <5> HIDE DEF g
        <5> QED BY <4>2, Zenon DEF KeptBlock
      <4>4. CASE i = m + 1
        BY <3>2, <4>3, <4>4, Zenon
      <4>5. CASE i # m + 1
        <5>1. i \in 0 .. m
          BY <2>2, <4>5
        <5>2. f[i] = KeptBlock(f, l, s, i)
          BY <2>1, <3>2, <5>1 DEF Clears
        <5>3. g[i] = f[i]
          BY <4>5
        <5> QED BY <3>2, <4>3, <5>2, <5>3, Zenon
      <4> QED BY <4>4, <4>5
    <3> QED BY <3>1, <3>2
  <2>4. g = [i \in 0 .. m + 1 |-> IF i = 0 THEN <<>> ELSE KeptBlock(g, l, s, i)]
    <3>1. g = [i \in 0 .. m + 1 |-> g[i]]
      OBVIOUS
    <3> HIDE DEF g
    <3> QED BY <2>3, <3>1
  <2>5. Clears(g, l, s, m + 1)
    BY <2>4 DEF Clears
  <2> QED BY <2>2, <2>5
<1>3. n \in T
  <2>1. T \subseteq Nat
    OBVIOUS
  <2> HIDE DEF T
  <2> QED BY <1>1, <1>2, <2>1, AllNat
<1> QED BY <1>3

Has(q, b) == \E i \in 1 .. Len(q) : q[i] = b

\* What ClearSackList keeps are the blocks of the list that end beyond s.
LEMMA ClearKeeps ==
    ASSUME NEW s, NEW B, NEW H, sackList \in Seq(B),
           \A b \in B : Beyond(b, s) => b \in H
    PROVE  /\ ClearSackList(s) \in Seq(H)
           /\ Len(ClearSackList(s)) <= Len(sackList)
           /\ \A i \in 1 .. Len(sackList) :
                 Beyond(sackList[i], s) => Has(ClearSackList(s), sackList[i])
<1> PICK l \in Seq(B) : l = sackList
  OBVIOUS
<1> PICK n \in Nat : n = Len(l)
  OBVIOUS
<1> DEFINE g == CHOOSE f : Clears(f, l, s, n)
           Kept(q, m) == \A i \in 1 .. m : Beyond(l[i], s) => Has(q, l[i])
           T == {m \in Nat : m <= n => g[m] \in Seq(H) /\ Len(g[m]) <= m /\ Kept(g[m], m)}
<1>1. Clears(g, l, s, n)
  BY ClearsExist
<1>2. g = CHOOSE f : f = [i \in 0 .. Len(sackList) |->
              IF i = 0 THEN <<>>
              ELSE IF Beyond(sackList[i], s) THEN Append(f[i - 1], sackList[i]) ELSE f[i - 1]]
  BY Zenon DEF Clears, KeptBlock
<1>3. ClearSackList(s) = g[Len(sackList)]
  BY <1>2, Zenon DEF ClearSackList
<1> HIDE DEF g
<1>4. 0 \in T
  <2>1. g[0] = <<>>
    BY <1>1 DEF Clears
  <2>2. <<>> \in Seq(H) /\ Len(<<>>) = 0
    BY EmptySeq, Zenon
  <2>3. g[0] \in Seq(H) /\ Len(g[0]) = 0
    BY <2>1, <2>2, Zenon
  <2>4. Kept(g[0], 0)
    OBVIOUS
  <2> HIDE DEF Kept
  <2> QED BY <2>3, <2>4
<1>5. ASSUME NEW m \in T
      PROVE  m + 1 \in T
  <2> SUFFICES ASSUME m + 1 <= n
               PROVE  g[m + 1] \in Seq(H) /\ Len(g[m + 1]) <= m + 1 /\ Kept(g[m + 1], m + 1)
    OBVIOUS
  <2>1. /\ m \in Nat /\ m <= n /\ m + 1 \in 0 .. n /\ m + 1 # 0 /\ (m + 1) - 1 = m
        /\ m + 1 \in 1 .. Len(l)
    OBVIOUS
  <2>2. g[m + 1] = IF Beyond(l[m + 1], s) THEN Append(g[m], l[m + 1]) ELSE g[m]
    BY <1>1, <2>1 DEF Clears, KeptBlock
  <2>3. g[m] \in Seq(H) /\ Len(g[m]) <= m /\ Kept(g[m], m)
    BY <2>1
  <2>4. l[m + 1] \in B
    BY <2>1
  <2> PICK x \in Seq(H) : x = g[m]
    BY <2>3
  <2> PICK k \in Nat : k = Len(x)
    OBVIOUS
  <2>5. CASE Beyond(l[m + 1], s)
    <3>1. l[m + 1] \in H
      BY <2>4, <2>5, Zenon
    <3>2. Append(x, l[m + 1]) \in Seq(H) /\ Len(Append(x, l[m + 1])) = Len(x) + 1
      BY <3>1, AppendProperties, ZenonT(60)
    <3>3. k + 1 <= m + 1
      BY <2>1, <2>3
    <3> PICK q : q = Append(x, l[m + 1])
      OBVIOUS
    <3>4. /\ \A i \in 1 .. k : q[i] = x[i] /\ i \in 1 .. k + 1
          /\ q[k + 1] = l[m + 1] /\ k + 1 \in 1 .. k + 1 /\ Len(q) = k + 1
      <4> PICK a \in H : a = l[m + 1]
        BY <3>1, Zenon
      <4> HIDE DEF Kept, T
      <4>1. \A i \in 1 .. Len(x) : Append(x, a)[i] = x[i]
        OBVIOUS
      <4>2. Append(x, a)[Len(x) + 1] = a /\ Len(Append(x, a)) = Len(x) + 1
        OBVIOUS
      <4>3. (\A i \in 1 .. k : i \in 1 .. k + 1) /\ k + 1 \in 1 .. k + 1
        OBVIOUS
      <4>4. \A i \in 1 .. k : q[i] = x[i]
        BY <4>1, Zenon
      <4>5. q[k + 1] = l[m + 1] /\ Len(q) = k + 1
        BY <4>2, Zenon
      <4> QED BY <4>3, <4>4, <4>5, Zenon
    <3>5. ASSUME NEW i \in 1 .. m + 1, Beyond(l[i], s)
          PROVE  Has(q, l[i])
      <4>1. CASE i = m + 1
        BY <3>4, <4>1, Zenon DEF Has
      <4>2. CASE i # m + 1
        <5>1. i \in 1 .. m
          BY <2>1, <4>2
        <5>2. Has(x, l[i])
          BY <2>3, <3>5, <5>1, Zenon
        <5> QED BY <3>4, <5>2, Zenon DEF Has
      <4> QED BY <4>1, <4>2
    <3> QED BY <2>2, <2>5, <3>2, <3>3, <3>5, Zenon
  <2>6. CASE ~ Beyond(l[m + 1], s)
    <3>1. k <= m + 1
      BY <2>1, <2>3
    <3>2. \A i \in 1 .. m + 1 : i \in 1 .. m \/ i = m + 1
      BY <2>1
    <3>3. Kept(x, m + 1)
      BY <2>3, <2>6, <3>2, Zenon
    <3> HIDE DEF Kept
    <3> QED BY <2>2, <2>3, <2>6, <3>1, <3>3, Zenon
  <2> QED BY <2>5, <2>6
<1>6. n \in T
  <2>1. T \subseteq Nat
    OBVIOUS
  <2> HIDE DEF T
  <2> QED BY <1>4, <1>5, <2>1, AllNat
<1> QED BY <1>3, <1>6

\* The blocks that ClearSackList keeps stay apart.
LEMMA ClearApart ==
    ASSUME NEW s, NEW B, sackList \in Seq(B), Apart(sackList)
    PROVE  Apart(ClearSackList(s))
<1> PICK l \in Seq(B) : l = sackList
  OBVIOUS
<1> PICK n \in Nat : n = Len(l)
  OBVIOUS
<1> DEFINE g == CHOOSE f : Clears(f, l, s, n)
           From(q, k, m) == \A i \in 1 .. k : \E j \in 1 .. m : q[i] = l[j]
           T == {m \in Nat : m <= n => g[m] \in Seq(B) /\ From(g[m], Len(g[m]), m) /\ Apart(g[m])}
<1>1. Clears(g, l, s, n)
  BY ClearsExist
<1>2. g = CHOOSE f : f = [i \in 0 .. Len(sackList) |->
              IF i = 0 THEN <<>>
              ELSE IF Beyond(sackList[i], s) THEN Append(f[i - 1], sackList[i]) ELSE f[i - 1]]
  BY Zenon DEF Clears, KeptBlock
<1>3. ClearSackList(s) = g[Len(sackList)]
  BY <1>2, Zenon DEF ClearSackList
<1> HIDE DEF g
<1>4. 0 \in T
  <2>1. g[0] = <<>>
    BY <1>1 DEF Clears
  <2>2. <<>> \in Seq(B) /\ Len(<<>>) = 0
    BY EmptySeq, Zenon
  <2>3. g[0] \in Seq(B) /\ Len(g[0]) = 0
    BY <2>1, <2>2, Zenon
  <2>4. From(g[0], Len(g[0]), 0) /\ Apart(g[0])
    BY <2>3 DEF Apart, ApartTo
  <2> HIDE DEF From
  <2> QED BY <2>3, <2>4
<1>5. ASSUME NEW m \in T
      PROVE  m + 1 \in T
  <2> HIDE DEF From
  <2> SUFFICES ASSUME m + 1 <= n
               PROVE  /\ g[m + 1] \in Seq(B) /\ Apart(g[m + 1])
                      /\ From(g[m + 1], Len(g[m + 1]), m + 1)
    OBVIOUS
  <2>1. /\ m \in Nat /\ m <= n /\ m + 1 \in 0 .. n /\ m + 1 # 0 /\ (m + 1) - 1 = m
        /\ m + 1 \in 1 .. Len(l) /\ \A j \in 1 .. m : j \in 1 .. m + 1 /\ j \in 1 .. n /\ j # m + 1
    OBVIOUS
  <2>2. g[m + 1] = IF Beyond(l[m + 1], s) THEN Append(g[m], l[m + 1]) ELSE g[m]
    BY <1>1, <2>1 DEF Clears, KeptBlock
  <2>3. g[m] \in Seq(B) /\ From(g[m], Len(g[m]), m) /\ Apart(g[m])
    BY <2>1
  <2> PICK x \in Seq(B) : x = g[m]
    BY <2>3
  <2> PICK k \in Nat : k = Len(x)
    OBVIOUS
  <2>3a. From(x, k, m) /\ ApartTo(x, k)
    BY <2>3, Zenon DEF Apart
  <2>4. From(x, k, m + 1)
    BY <2>1, <2>3a, Zenon DEF From
  <2> PICK b \in B : b = l[m + 1]
    BY <2>1
  <2>4a. PICK q : q = Append(x, b)
    OBVIOUS
  <2>5. /\ q \in Seq(B) /\ Len(q) = k + 1 /\ q[k + 1] = b
        /\ \A i \in 1 .. k : q[i] = x[i]
    <3> HIDE DEF T
    <3>1. \A i \in 1 .. Len(x) : Append(x, b)[i] = x[i]
      OBVIOUS
    <3>2. Append(x, b)[Len(x) + 1] = b /\ Len(Append(x, b)) = Len(x) + 1
      OBVIOUS
    <3>3. Append(x, b) \in Seq(B)
      BY AppendProperties, ZenonT(60)
    <3> QED BY <2>4a, <3>1, <3>2, <3>3, Zenon
  <2>6. \A i \in 1 .. k + 1 : i \in 1 .. k \/ i = k + 1
    OBVIOUS
  <2>7. From(q, k + 1, m + 1)
    <3>1. m + 1 \in 1 .. m + 1
      BY <2>1
    <3>2. ASSUME NEW i \in 1 .. k + 1
          PROVE  \E j \in 1 .. m + 1 : q[i] = l[j]
      <4>1. CASE i \in 1 .. k
        <5>1. \E j \in 1 .. m + 1 : x[i] = l[j]
          BY <2>4, <4>1, Zenon DEF From
        <5>2. q[i] = x[i]
          BY <2>5, <4>1, Zenon
        <5> QED BY <5>1, <5>2, Zenon
      <4>2. CASE i = k + 1
        <5>1. q[i] = l[m + 1]
          BY <2>5, <4>2, Zenon
        <5> QED BY <3>1, <5>1, Zenon
      <4> QED BY <2>6, <4>1, <4>2
    <3> QED BY <3>2, Zenon DEF From
  <2>8. \A i \in 1 .. k : Separate(b, x[i])
    <3> TAKE i \in 1 .. k
    <3>1. PICK j \in 1 .. m : x[i] = l[j]
      BY <2>3a, Zenon DEF From
    <3>2. j \in 1 .. n /\ m + 1 \in 1 .. n /\ j # m + 1
      BY <2>1, <3>1, Zenon
    <3>3. Separate(l[m + 1], l[j])
      BY <3>2, Zenon DEF Apart, ApartTo
    <3> QED BY <3>1, <3>3, Zenon
  <2>9. Apart(q)
    <3>1. ApartTo(q, k + 1)
      BY <2>3a, <2>5, <2>8, ApartAfter, ZenonT(60)
    <3> QED BY <2>5, <3>1, Zenon DEF Apart
  <2>10. CASE Beyond(l[m + 1], s)
    BY <2>2, <2>4a, <2>5, <2>7, <2>9, <2>10, Zenon
  <2>11. CASE ~ Beyond(l[m + 1], s)
    BY <2>2, <2>3, <2>4, <2>11, Zenon
  <2> QED BY <2>10, <2>11
<1>6. n \in T
  <2>1. T \subseteq Nat
    OBVIOUS
  <2> HIDE DEF T
  <2> QED BY <1>4, <1>5, <2>1, AllNat
<1>7. Apart(g[n])
  BY <1>6
<1> QED BY <1>3, <1>7, Zenon

(***************************************************************************)
(* The loops as they are written                                           *)
(***************************************************************************)
\* n turns of a loop that starts with a and stays within A, turn s from x being G[<<s, x>>]
Turns(f, A, a, n, G) ==
    /\ f \in [0 .. n -> A]
    /\ f = [s \in 0 .. n |-> IF s = 0 THEN a ELSE G[<<s, f[s - 1]>>]]

LEMMA TurnsExist ==
    ASSUME NEW A, NEW a \in A, NEW n \in Nat, NEW G \in [(1 .. n) \X A -> A]
    PROVE  \E f : Turns(f, A, a, n, G)
<1> DEFINE T == {m \in Nat : m <= n =>
                    \E f \in [0 .. m -> A] :
                       f[0] = a /\ \A s \in 1 .. m : f[s] = G[<<s, f[s - 1]>>]}
<1>1. 0 \in T
  <2> DEFINE g == [s \in 0 .. 0 |-> a]
  <2>1. g \in [0 .. 0 -> A] /\ g[0] = a /\ \A s \in 1 .. 0 : g[s] = G[<<s, g[s - 1]>>]
    OBVIOUS
  <2> QED BY <2>1
<1>2. ASSUME NEW m \in T
      PROVE  m + 1 \in T
  <2>0. m \in Nat
    OBVIOUS
  <2> SUFFICES ASSUME m + 1 <= n
               PROVE  \E f \in [0 .. m + 1 -> A] :
                         f[0] = a /\ \A s \in 1 .. m + 1 : f[s] = G[<<s, f[s - 1]>>]
    OBVIOUS
  <2>1. PICK f \in [0 .. m -> A] : f[0] = a /\ \A s \in 1 .. m : f[s] = G[<<s, f[s - 1]>>]
    OBVIOUS
  <2> PICK b : b = G[<<m + 1, f[m]>>]
    OBVIOUS
  <2>2. b \in A
    <3>1. m + 1 \in 1 .. n /\ f[m] \in A
      BY <2>0, <2>1
    <3> QED BY <3>1
  <2> DEFINE g == [s \in 0 .. m + 1 |-> IF s = m + 1 THEN b ELSE f[s]]
  <2>3. g \in [0 .. m + 1 -> A]
    BY <2>0, <2>1, <2>2
  <2>4. g[0] = a
    BY <2>0, <2>1
  <2>5. ASSUME NEW s \in 1 .. m + 1
        PROVE  g[s] = G[<<s, g[s - 1]>>]
    <3>1. g[s - 1] = f[s - 1]
      BY <2>0
    <3>2. CASE s = m + 1
      <4>1. g[s] = b /\ s - 1 = m
        BY <2>0, <3>2
      <4> HIDE DEF g
      <4> QED BY <3>1, <3>2, <4>1
    <3>3. CASE s # m + 1
      <4>1. s \in 1 .. m /\ g[s] = f[s]
        BY <2>0, <3>3
      <4> HIDE DEF g
      <4> QED BY <2>1, <3>1, <4>1
    <3> QED BY <3>2, <3>3
  <2> HIDE DEF g
  <2> QED BY <2>3, <2>4, <2>5
<1>3. n \in T
  <2>1. T \subseteq Nat
    OBVIOUS
  <2> HIDE DEF T
  <2> QED BY <1>1, <1>2, <2>1, AllNat
<1>4. PICK f \in [0 .. n -> A] : f[0] = a /\ \A s \in 1 .. n : f[s] = G[<<s, f[s - 1]>>]
  BY <1>3
<1>5. \A s \in 0 .. n : f[s] = IF s = 0 THEN a ELSE G[<<s, f[s - 1]>>]
  BY <1>4
<1>6. f = [s \in 0 .. n |-> IF s = 0 THEN a ELSE G[<<s, f[s - 1]>>]]
  <2>1. f = [s \in 0 .. n |-> f[s]]
    OBVIOUS
  <2> QED BY <1>5, <2>1
<1> QED BY <1>6, Zenon DEF Turns

\* What the head and the tail that Add computes satisfy, from the range head0 .. tail0.
Ends(head0, tail0, head, tail) ==
    /\ head0 \in Nat /\ tail0 \in Nat /\ head \in Nat /\ tail \in Nat
    /\ head0 <= head /\ tail <= tail0
    /\ ~ Covered(data, head)
    /\ \A t \in head0 .. head - 1 : Covered(data, t)
    /\ \A p \in data : p.seq < tail0 /\ tail0 <= End(p) => tail = p.seq
    /\ tail = tail0 \/ \E q \in data : tail = q.seq /\ q.seq < tail0 /\ tail0 <= End(q)

\* What the head h and the tail t of the loop satisfy before the packet filed under s:
\* the head is past the run it began in, the tail before the packet that holds the last
\* byte, as far as these were met; once they cross, nothing is left to store.
Crossing(h, t, s, head0, tail0, head, tail) ==
    /\ h \in Nat /\ t \in Nat
    /\ h >= t => head >= tail
    /\ h < t => /\ head0 <= h /\ h <= head
                /\ \A p \in data : p.seq < s => ~ (p.seq <= h /\ h < End(p))
                /\ \/ t = tail0 /\ \A p \in data : p.seq < s => ~ (p.seq < tail0 /\ tail0 <= End(p))
                   \/ \E p \in data : p.seq < s /\ p.seq < tail0 /\ tail0 <= End(p) /\ t = p.seq

\* the packets embedded in the new one among those before s
Dropped(s, head, tail0) == {p \in Embedded(head, tail0) : p.seq < s}

OverlapAt(acc, s, head0, tail0, head, tail) ==
    \E h, t : /\ acc = [head |-> h, tail |-> t, kept |-> data \ Dropped(s, head, tail0)]
              /\ Crossing(h, t, s, head0, tail0, head, tail)

\* A packet that is embedded leaves something to store.
LEMMA EmbeddedMeansNew ==
    ASSUME InStream(data), Disjoint(data), NEW head0, NEW tail0, NEW head, NEW tail,
           Ends(head0, tail0, head, tail), NEW p \in Embedded(head, tail0)
    PROVE  End(p) <= tail /\ head < tail
<1>1. /\ p \in data /\ p.seq > head /\ End(p) < tail0
      /\ \A q \in data : q.seq \in Nat /\ End(q) \in Nat /\ q.seq < End(q)
  BY DEF Embedded, InStream, Packet, End
<1>2. CASE tail = tail0
  BY <1>1, <1>2 DEF Ends
<1>3. ASSUME NEW q \in data, tail = q.seq, q.seq < tail0, tail0 <= End(q)
      PROVE  End(p) <= tail /\ head < tail
  <2>1. p = q \/ End(p) <= q.seq \/ End(q) <= p.seq
    BY <1>1 DEF Disjoint
  <2> QED BY <1>1, <1>3, <2>1 DEF Ends
<1> QED BY <1>2, <1>3 DEF Ends

\* One turn of the overlap loop.
LEMMA OverlapTurn ==
    ASSUME InStream(data), Disjoint(data), NEW head0, NEW tail0, NEW head, NEW tail,
           Ends(head0, tail0, head, tail),
           NEW s \in Nat, NEW p \in data, p.seq = s, NEW acc,
           OverlapAt(acc, s, head0, tail0, head, tail)
    PROVE  OverlapAt(OverlapStep(acc, p), s + 1, head0, tail0, head, tail)
<1> PICK h, t : /\ acc = [head |-> h, tail |-> t, kept |-> data \ Dropped(s, head, tail0)]
                /\ Crossing(h, t, s, head0, tail0, head, tail)
  BY DEF OverlapAt
<1> PICK e : e = End(p)
  OBVIOUS
<1>0. /\ head0 \in Nat /\ tail0 \in Nat /\ head \in Nat /\ tail \in Nat
      /\ h \in Nat /\ t \in Nat /\ e \in Nat /\ s < e
  BY DEF Ends, Crossing, InStream, Packet, End
<1>1. \A q \in data : q.seq \in Nat /\ End(q) \in Nat /\ q.seq < End(q)
  BY DEF InStream, Packet, End
<1>2. \A q \in data : q = p \/ End(q) <= s \/ e <= q.seq
  BY DEF Disjoint
<1>3. \A q \in data : q.seq < s + 1 <=> q.seq < s \/ q = p
  BY <1>0, <1>1, <1>2
<1>3a. \A q \in data : q.seq < s => End(q) <= s
  BY <1>0, <1>1, <1>2
<1>4. /\ p \notin Embedded(head, tail0) => Dropped(s + 1, head, tail0) = Dropped(s, head, tail0)
      /\ p \in Embedded(head, tail0) =>
            data \ Dropped(s + 1, head, tail0) = (data \ Dropped(s, head, tail0)) \ {p}
  BY <1>3 DEF Dropped, Embedded
<1>5. h >= t => head >= tail /\ p \notin Embedded(head, tail0)
  BY <1>0, EmbeddedMeansNew DEF Crossing
<1>6. ASSUME h < t
      PROVE  /\ head0 <= h /\ h <= head
             /\ \A q \in data : q.seq < s => ~ (q.seq <= h /\ h < End(q))
             /\ \/ t = tail0 /\ \A q \in data : q.seq < s => ~ (q.seq < tail0 /\ tail0 <= End(q))
                \/ /\ \E q \in data : q.seq < s /\ q.seq < tail0 /\ tail0 <= End(q) /\ t = q.seq
                   /\ t < tail0 /\ tail0 <= s
  BY <1>0, <1>1, <1>3a, <1>6 DEF Crossing
<1>7. CASE s > t \/ e <= h
  <2>1. OverlapStep(acc, p) = acc
    BY <1>7 DEF OverlapStep
  <2>2. p \notin Embedded(head, tail0)
    BY <1>0, <1>5, <1>6, <1>7 DEF Embedded
  <2>3. Crossing(h, t, s + 1, head0, tail0, head, tail)
    <3>1. CASE h >= t
      BY <1>0, <1>5, <3>1 DEF Crossing
    <3>2. CASE h < t
      <4>1. ~ (s <= h /\ h < e)
        BY <1>0, <1>7, <3>2
      <4>2. t = tail0 => ~ (s < tail0 /\ tail0 <= e)
        BY <1>0, <1>7, <3>2
      <4> QED BY <1>0, <1>3, <1>6, <3>2, <4>1, <4>2 DEF Crossing
    <3> QED BY <1>0, <3>1, <3>2
  <2> QED BY <1>4, <2>1, <2>2, <2>3, Zenon DEF OverlapAt
<1>8. CASE ~ (s > t \/ e <= h) /\ s > h /\ e < t
  <2>1. h < t
    BY <1>0, <1>8
  <2>2. t = tail0
    BY <1>0, <1>6, <1>8, <2>1
  <2>3. h = head
    <3>1. ~ Covered(data, h)
      BY <1>0, <1>1, <1>6, <1>8, <2>1 DEF Covered
    <3> QED BY <1>0, <1>6, <2>1, <3>1 DEF Ends
  <2>4. p \in Embedded(head, tail0)
    BY <1>8, <2>2, <2>3 DEF Embedded
  <2>5. OverlapStep(acc, p) = [head |-> acc.head, tail |-> acc.tail, kept |-> acc.kept \ {p}]
    BY <1>8 DEF OverlapStep
  <2>6. OverlapStep(acc, p) = [head |-> h, tail |-> t, kept |-> data \ Dropped(s + 1, head, tail0)]
    BY <1>4, <2>4, <2>5
  <2>7. Crossing(h, t, s + 1, head0, tail0, head, tail)
    <3>1. ~ (s <= h /\ h < e) /\ ~ (s < tail0 /\ tail0 <= e)
      BY <1>0, <1>8, <2>2
    <3> QED BY <1>0, <1>3, <1>6, <2>1, <3>1 DEF Crossing
  <2> QED BY <2>6, <2>7, Zenon DEF OverlapAt
<1>9. CASE ~ (s > t \/ e <= h) /\ ~ (s > h /\ e < t)
  <2> PICK h1 : h1 = IF s <= h THEN e ELSE h
    OBVIOUS
  <2> PICK t1 : t1 = IF e >= t THEN s ELSE t
    OBVIOUS
  <2>0. h1 \in Nat /\ t1 \in Nat /\ h <= h1 /\ t1 <= t
    BY <1>0, <1>9
  <2>1. p \notin Embedded(head, tail0)
    <3>1. CASE h >= t
      BY <1>5, <3>1
    <3>2. CASE h < t
      BY <1>0, <1>6, <1>9, <3>2 DEF Embedded
    <3> QED BY <1>0, <3>1, <3>2
  <2>2. OverlapStep(acc, p) = [head |-> h1, tail |-> t1, kept |-> data \ Dropped(s + 1, head, tail0)]
    <3>1. OverlapStep(acc, p) = [head |-> IF p.seq <= acc.head THEN End(p) ELSE acc.head,
                                 tail |-> IF End(p) >= acc.tail THEN p.seq ELSE acc.tail,
                                 kept |-> acc.kept]
      BY <1>9 DEF OverlapStep
    <3>2. /\ acc.head = h /\ acc.tail = t /\ acc.kept = data \ Dropped(s, head, tail0)
          /\ data \ Dropped(s + 1, head, tail0) = data \ Dropped(s, head, tail0)
      BY <1>4, <2>1
    <3> QED BY <3>1, <3>2, Zenon
  <2>3. h < t /\ s <= h => e <= head
    BY <1>0, <1>6 DEF Ends, Covered
  <2>4. h < t => h1 <= head
    BY <1>0, <1>6, <2>3
  <2>5. h < t => tail <= t1
    BY <1>0, <1>6, <1>9 DEF Ends
  <2>6. Crossing(h1, t1, s + 1, head0, tail0, head, tail)
    <3>1. h1 >= t1 => head >= tail
      BY <1>0, <1>5, <2>0, <2>4, <2>5
    <3>2. ASSUME h1 < t1
          PROVE  /\ h < t /\ head0 <= h1
                 /\ \A q \in data : q.seq < s + 1 => ~ (q.seq <= h1 /\ h1 < End(q))
      <4>1. h < t
        BY <1>0, <2>0, <3>2
      <4>2. ~ (s <= h1 /\ h1 < e)
        BY <1>0
      <4>3. \A q \in data : q.seq < s => ~ (q.seq <= h1 /\ h1 < End(q))
        BY <1>0, <1>1, <1>3a, <1>6, <4>1
      <4> QED BY <1>0, <1>3, <1>6, <2>0, <4>1, <4>2, <4>3
    <3>3. ASSUME h < t
          PROVE  \/ /\ t1 = tail0
                    /\ \A q \in data : q.seq < s + 1 => ~ (q.seq < tail0 /\ tail0 <= End(q))
                 \/ \E q \in data : q.seq < s + 1 /\ q.seq < tail0 /\ tail0 <= End(q) /\ t1 = q.seq
      <4>1. t = tail0 /\ \A q \in data : q.seq < s => ~ (q.seq < tail0 /\ tail0 <= End(q))
        BY <1>0, <1>6, <1>9, <3>3
      <4>2. CASE e >= t /\ s < tail0
        BY <1>0, <1>3, <4>1, <4>2
      <4>3. CASE ~ (e >= t /\ s < tail0)
        <5>1. t1 = tail0
          BY <1>0, <1>9, <4>1, <4>3
        <5> QED BY <1>0, <1>3, <4>1, <4>3, <5>1
      <4> QED BY <4>2, <4>3
    <3> QED BY <2>0, <2>4, <3>1, <3>2, <3>3 DEF Crossing
  <2> QED BY <2>2, <2>6, Zenon DEF OverlapAt
<1> QED BY <1>7, <1>8, <1>9

\* The packet filed under a number that has one.
LEMMA PacketAtIs ==
    ASSUME NEW d, NEW s, \E p \in d : p.seq = s
    PROVE  PacketAt(d, s) \in d /\ PacketAt(d, s).seq = s
BY DEF PacketAt

\* the loop of OverlapLoop, one turn for each number
OverlapNext(acc, s) ==
    IF \E p \in data : p.seq = s - 1 THEN OverlapStep(acc, PacketAt(data, s - 1)) ELSE acc

Overlaps(f, head0, tail0) ==
    f = [s \in 0 .. StreamEnd |-> IF s = 0 THEN [head |-> head0, tail |-> tail0, kept |-> data]
                                  ELSE OverlapNext(f[s - 1], s)]

\* The recursive function of OverlapLoop is one.
LEMMA OverlapsExist ==
    ASSUME InStream(data), NEW head0 \in Nat, NEW tail0 \in Nat
    PROVE  \E f : Overlaps(f, head0, tail0)
<1> DEFINE A == [head : Nat, tail : Nat, kept : SUBSET data]
           a == [head |-> head0, tail |-> tail0, kept |-> data]
           G == [x \in (1 .. StreamEnd) \X A |-> OverlapNext(x[2], x[1])]
<1>0. StreamEnd \in Nat
  BY RxConstants
<1>1. a \in A
  OBVIOUS
<1>2. ASSUME NEW s \in 1 .. StreamEnd, NEW acc \in A
      PROVE  OverlapNext(acc, s) \in A
  <2>1. CASE \E p \in data : p.seq = s - 1
    <3> PICK p \in data : p = PacketAt(data, s - 1)
      BY <2>1, PacketAtIs
    <3>1. p.seq \in Nat /\ End(p) \in Nat
      BY DEF InStream, Packet, End
    <3>2. acc.head \in Nat /\ acc.tail \in Nat /\ acc.kept \in SUBSET data
      BY <1>2
    <3>3. OverlapStep(acc, p) \in A
      BY <3>1, <3>2 DEF OverlapStep
    <3> QED BY <2>1, <3>3, Zenon DEF OverlapNext
  <2>2. CASE ~ \E p \in data : p.seq = s - 1
    BY <2>2, Zenon DEF OverlapNext
  <2> QED BY <2>1, <2>2
<1>3. G \in [(1 .. StreamEnd) \X A -> A]
  <2> HIDE DEF A
  <2> QED BY <1>2
<1>4. PICK f : Turns(f, A, a, StreamEnd, G)
  <2> HIDE DEF A, a, G
  <2> QED BY <1>0, <1>1, <1>3, TurnsExist, Zenon
<1>4a. f \in [0 .. StreamEnd -> A]
  BY <1>4, Zenon DEF Turns
<1>4b. f = [s \in 0 .. StreamEnd |-> IF s = 0 THEN a ELSE G[<<s, f[s - 1]>>]]
  BY <1>4, Zenon DEF Turns
<1>5. \A s \in 1 .. StreamEnd : G[<<s, f[s - 1]>>] = OverlapNext(f[s - 1], s)
  <2> TAKE s \in 1 .. StreamEnd
  <2>1. s - 1 \in 0 .. StreamEnd
    BY <1>0
  <2> HIDE DEF A
  <2>2. f[s - 1] \in A
    BY <1>4a, <2>1
  <2> QED BY <2>2
<1> HIDE DEF A, a, G
<1>6. \A s \in 0 .. StreamEnd : (IF s = 0 THEN a ELSE G[<<s, f[s - 1]>>])
                                = (IF s = 0 THEN a ELSE OverlapNext(f[s - 1], s))
  BY <1>0, <1>5
<1>7. f = [s \in 0 .. StreamEnd |-> IF s = 0 THEN a ELSE OverlapNext(f[s - 1], s)]
  BY <1>4b, <1>6
<1> QED BY <1>7, Zenon DEF Overlaps, a

\* What the overlap loop leaves: the range and the packets that Add stores and keeps.
OverlapLeaves(loop, tail0, head, tail) ==
    /\ loop.head >= loop.tail <=> head >= tail
    /\ head < tail => loop = [head |-> head, tail |-> tail,
                              kept |-> data \ Embedded(head, tail0)]
    /\ head >= tail => loop.kept = data

\* The overlap loop of Add leaves them.
LEMMA OverlapLoopIs ==
    ASSUME InStream(data), Disjoint(data), NEW head0, NEW tail0, NEW head, NEW tail,
           Ends(head0, tail0, head, tail),
           NEW loop, loop = OverlapLoop(head0, tail0)
    PROVE  OverlapLeaves(loop, tail0, head, tail)
<1> DEFINE g == CHOOSE f : Overlaps(f, head0, tail0)
           T == {s \in Nat : s <= StreamEnd => OverlapAt(g[s], s, head0, tail0, head, tail)}
<1>0. /\ StreamEnd \in Nat
      /\ head0 \in Nat /\ tail0 \in Nat /\ head \in Nat /\ tail \in Nat
      /\ head0 <= head /\ tail <= tail0
      /\ \A p \in data : p.seq \in Nat /\ End(p) \in Nat /\ p.seq < End(p) /\ p.seq < StreamEnd
  BY RxConstants DEF Ends, InStream, Packet, End
<1>1. Overlaps(g, head0, tail0)
  BY <1>0, OverlapsExist
<1>2. loop = g[StreamEnd]
  <2>1. g = CHOOSE f : f = [s \in 0 .. StreamEnd |->
               IF s = 0 THEN [head |-> head0, tail |-> tail0, kept |-> data]
               ELSE IF \E p \in data : p.seq = s - 1
                    THEN OverlapStep(f[s - 1], PacketAt(data, s - 1)) ELSE f[s - 1]]
    BY Zenon DEF Overlaps, OverlapNext
  <2> QED BY <2>1, Zenon DEF OverlapLoop
<1> HIDE DEF g
<1>3. 0 \in T
  <2>1. g[0] = [head |-> head0, tail |-> tail0, kept |-> data]
    BY <1>0, <1>1 DEF Overlaps
  <2>2. data \ Dropped(0, head, tail0) = data
    BY <1>0 DEF Dropped, Embedded
  <2>3. Crossing(head0, tail0, 0, head0, tail0, head, tail)
    BY <1>0 DEF Crossing
  <2>4. OverlapAt(g[0], 0, head0, tail0, head, tail)
    BY <2>1, <2>2, <2>3, Zenon DEF OverlapAt
  <2> QED BY <2>4
<1>4. ASSUME NEW s \in T
      PROVE  s + 1 \in T
  <2> SUFFICES ASSUME s + 1 <= StreamEnd
               PROVE  OverlapAt(g[s + 1], s + 1, head0, tail0, head, tail)
    OBVIOUS
  <2>1. s \in Nat /\ s <= StreamEnd /\ s + 1 \in 0 .. StreamEnd /\ s + 1 # 0 /\ (s + 1) - 1 = s
    BY <1>0
  <2>2. OverlapAt(g[s], s, head0, tail0, head, tail)
    BY <2>1
  <2>3. g[s + 1] = OverlapNext(g[s], s + 1)
    BY <1>1, <2>1 DEF Overlaps
  <2>4. CASE \E p \in data : p.seq = s
    <3> PICK p \in data : p = PacketAt(data, s) /\ p.seq = s
      BY <2>4, PacketAtIs
    <3>1. g[s + 1] = OverlapStep(g[s], p)
      BY <2>1, <2>3, <2>4 DEF OverlapNext
    <3>2. OverlapAt(OverlapStep(g[s], p), s + 1, head0, tail0, head, tail)
      BY <2>1, <2>2, OverlapTurn, Zenon
    <3> QED BY <3>1, <3>2, Zenon
  <2>5. CASE ~ \E p \in data : p.seq = s
    <3>1. g[s + 1] = g[s]
      BY <2>1, <2>3, <2>5 DEF OverlapNext
    <3>2. \A p \in data : p.seq < s + 1 <=> p.seq < s
      BY <1>0, <2>1, <2>5
    <3>3. Dropped(s + 1, head, tail0) = Dropped(s, head, tail0)
      BY <3>2 DEF Dropped, Embedded
    <3>4. \A h, t : Crossing(h, t, s, head0, tail0, head, tail)
                       => Crossing(h, t, s + 1, head0, tail0, head, tail)
      BY <3>2, Zenon DEF Crossing
    <3> QED BY <2>2, <3>1, <3>3, <3>4, Zenon DEF OverlapAt
  <2> QED BY <2>4, <2>5
<1>5. StreamEnd \in T
  <2>1. T \subseteq Nat
    OBVIOUS
  <2> HIDE DEF T
  <2> QED BY <1>0, <1>3, <1>4, <2>1, AllNat
<1>6. PICK h, t : /\ loop = [head |-> h, tail |-> t, kept |-> data \ Dropped(StreamEnd, head, tail0)]
                  /\ Crossing(h, t, StreamEnd, head0, tail0, head, tail)
  <2>1. OverlapAt(g[StreamEnd], StreamEnd, head0, tail0, head, tail)
    BY <1>0, <1>5
  <2> QED BY <1>2, <2>1, Zenon DEF OverlapAt
<1>7. Dropped(StreamEnd, head, tail0) = Embedded(head, tail0)
  BY <1>0 DEF Dropped, Embedded
<1>8. loop.head = h /\ loop.tail = t /\ loop.kept = data \ Embedded(head, tail0)
  BY <1>6, <1>7
<1>9. CASE h >= t
  <2>1. head >= tail
    BY <1>6, <1>9 DEF Crossing
  <2>2. Embedded(head, tail0) = {}
    BY <1>0, <2>1, EmbeddedMeansNew
  <2> QED BY <1>0, <1>8, <1>9, <2>1, <2>2 DEF OverlapLeaves
<1>10. CASE h < t
  <2>1. h = head
    <3>1. ~ Covered(data, h)
      BY <1>0, <1>6, <1>10 DEF Crossing, Covered
    <3> QED BY <1>0, <1>6, <1>10, <3>1 DEF Crossing, Ends
  <2>2. t = tail
    BY <1>0, <1>6, <1>10 DEF Crossing, Ends
  <2> QED BY <1>0, <1>6, <1>7, <1>8, <1>10, <2>1, <2>2 DEF OverlapLeaves
<1> QED BY <1>0, <1>6, <1>9, <1>10 DEF Crossing

\* the loop of AdvanceLoop, one turn for each number
AdvanceNext(x, d, s) ==
    IF \E p \in d : p.seq = s - 1 THEN AdvanceStep(x, PacketAt(d, s - 1)) ELSE x

Advances(f, d) ==
    f = [s \in 0 .. StreamEnd |-> IF s = 0 THEN nextRxSeq ELSE AdvanceNext(f[s - 1], d, s)]

\* The recursive function of AdvanceLoop is one.
LEMMA AdvancesExist ==
    ASSUME NEW d, InStream(d), nextRxSeq \in Nat
    PROVE  \E f : Advances(f, d)
<1> DEFINE G == [x \in (1 .. StreamEnd) \X Nat |-> AdvanceNext(x[2], d, x[1])]
<1>0. StreamEnd \in Nat
  BY RxConstants
<1>1. ASSUME NEW s \in 1 .. StreamEnd, NEW x \in Nat
      PROVE  AdvanceNext(x, d, s) \in Nat
  <2>1. CASE \E p \in d : p.seq = s - 1
    <3> PICK p \in d : p = PacketAt(d, s - 1)
      BY <2>1, PacketAtIs
    <3>1. AdvanceStep(x, p) \in Nat
      BY DEF InStream, Packet, End, AdvanceStep
    <3> QED BY <2>1, <3>1, Zenon DEF AdvanceNext
  <2>2. CASE ~ \E p \in d : p.seq = s - 1
    BY <2>2, Zenon DEF AdvanceNext
  <2> QED BY <2>1, <2>2
<1>2. G \in [(1 .. StreamEnd) \X Nat -> Nat]
  BY <1>1
<1>3. PICK f : Turns(f, Nat, nextRxSeq, StreamEnd, G)
  <2> HIDE DEF G
  <2> QED BY <1>0, <1>2, TurnsExist, Zenon
<1>4. f \in [0 .. StreamEnd -> Nat]
  BY <1>3, Zenon DEF Turns
<1>5. f = [s \in 0 .. StreamEnd |-> IF s = 0 THEN nextRxSeq ELSE G[<<s, f[s - 1]>>]]
  BY <1>3, Zenon DEF Turns
<1>6. \A s \in 1 .. StreamEnd : G[<<s, f[s - 1]>>] = AdvanceNext(f[s - 1], d, s)
  <2> TAKE s \in 1 .. StreamEnd
  <2>1. s - 1 \in 0 .. StreamEnd
    BY <1>0
  <2>2. f[s - 1] \in Nat
    BY <1>4, <2>1
  <2> QED BY <2>2
<1> HIDE DEF G
<1>7. \A s \in 0 .. StreamEnd : (IF s = 0 THEN nextRxSeq ELSE G[<<s, f[s - 1]>>])
                                = (IF s = 0 THEN nextRxSeq ELSE AdvanceNext(f[s - 1], d, s))
  BY <1>0, <1>6
<1>8. f = [s \in 0 .. StreamEnd |-> IF s = 0 THEN nextRxSeq ELSE AdvanceNext(f[s - 1], d, s)]
  BY <1>5, <1>7
<1> QED BY <1>8, Zenon DEF Advances

\* What the number x reached before the packet filed under s satisfies.
Reached(x, d, s) ==
    /\ x \in Nat /\ nextRxSeq <= x /\ x <= StreamEnd
    /\ \A t \in nextRxSeq .. x - 1 : Covered(d, t)
    /\ \A p \in d : p.seq < x => End(p) <= x
    /\ \A p \in d : p.seq < s => p.seq # x

\* The second loop of Add moves m_nextRxSeq to the first number missing.
LEMMA AdvanceLoopIs ==
    ASSUME NEW d, InStream(d), Disjoint(d), nextRxSeq \in 0 .. StreamEnd,
           \A p \in d : p.seq < nextRxSeq => End(p) <= nextRxSeq
    PROVE  AdvanceLoop(d) = FirstHole(d, nextRxSeq)
<1> DEFINE g == CHOOSE f : Advances(f, d)
           T == {s \in Nat : s <= StreamEnd => Reached(g[s], d, s)}
<1>0. /\ StreamEnd \in Nat /\ nextRxSeq \in Nat /\ nextRxSeq <= StreamEnd
      /\ \A p \in d : /\ p.seq \in Nat /\ End(p) \in Nat /\ p.seq < End(p)
                      /\ p.seq < StreamEnd /\ End(p) <= StreamEnd
  BY RxConstants DEF InStream, Packet, End
<1>1. Advances(g, d)
  BY <1>0, AdvancesExist
<1>2. AdvanceLoop(d) = g[StreamEnd]
  <2>1. g = CHOOSE f : f = [s \in 0 .. StreamEnd |->
               IF s = 0 THEN nextRxSeq
               ELSE IF \E p \in d : p.seq = s - 1
                    THEN AdvanceStep(f[s - 1], PacketAt(d, s - 1)) ELSE f[s - 1]]
    BY Zenon DEF Advances, AdvanceNext
  <2> QED BY <2>1, Zenon DEF AdvanceLoop
<1> HIDE DEF g
<1>3. 0 \in T
  <2>1. g[0] = nextRxSeq
    BY <1>0, <1>1 DEF Advances
  <2>2. Reached(nextRxSeq, d, 0)
    BY <1>0 DEF Reached
  <2>3. Reached(g[0], d, 0)
    BY <2>1, <2>2
  <2> QED BY <2>3
<1>4. ASSUME NEW s \in T
      PROVE  s + 1 \in T
  <2> SUFFICES ASSUME s + 1 <= StreamEnd
               PROVE  Reached(g[s + 1], d, s + 1)
    OBVIOUS
  <2>1. s \in Nat /\ s <= StreamEnd /\ s + 1 \in 0 .. StreamEnd /\ s + 1 # 0 /\ (s + 1) - 1 = s
    BY <1>0
  <2> PICK x : x = g[s]
    OBVIOUS
  <2>2. Reached(x, d, s)
    BY <2>1
  <2>3. g[s + 1] = AdvanceNext(x, d, s + 1)
    BY <1>1, <2>1 DEF Advances
  <2>4. CASE \E p \in d : p.seq = s
    <3> PICK p \in d : p = PacketAt(d, s) /\ p.seq = s
      BY <2>4, PacketAtIs
    <3>1. g[s + 1] = AdvanceStep(x, p)
      BY <2>1, <2>3, <2>4 DEF AdvanceNext
    <3>2. \A q \in d : q.seq < s + 1 <=> q.seq < s \/ q = p
      BY <1>0, <2>1 DEF Disjoint
    <3>3. CASE s = x
      <4>1. g[s + 1] = End(p)
        BY <3>1, <3>3 DEF AdvanceStep
      <4>2. \A t \in nextRxSeq .. End(p) - 1 : Covered(d, t)
        BY <1>0, <2>2, <3>3 DEF Reached, Covered
      <4>3. \A q \in d : q.seq < End(p) => End(q) <= End(p)
        BY <1>0, <2>2, <3>3 DEF Reached, Disjoint
      <4>4. \A q \in d : q.seq < s + 1 => q.seq # End(p)
        BY <1>0, <2>1
      <4>5. End(p) \in Nat /\ nextRxSeq <= End(p) /\ End(p) <= StreamEnd
        BY <1>0, <2>2, <3>3 DEF Reached
      <4> PICK e : e = End(p)
        OBVIOUS
      <4>6. Reached(e, d, s + 1)
        BY <4>2, <4>3, <4>4, <4>5, Zenon DEF Reached
      <4> QED BY <4>1, <4>6, Zenon
    <3>4. CASE s # x
      <4>1. g[s + 1] = x
        BY <3>1, <3>4 DEF AdvanceStep
      <4> QED BY <2>2, <3>2, <3>4, <4>1 DEF Reached
    <3> QED BY <3>3, <3>4
  <2>5. CASE ~ \E p \in d : p.seq = s
    <3>1. g[s + 1] = x
      BY <2>1, <2>3, <2>5 DEF AdvanceNext
    <3>2. \A p \in d : p.seq < s + 1 <=> p.seq < s
      BY <1>0, <2>1, <2>5
    <3> QED BY <2>2, <3>1, <3>2, Zenon DEF Reached
  <2> QED BY <2>4, <2>5
<1>5. StreamEnd \in T
  <2>1. T \subseteq Nat
    OBVIOUS
  <2> HIDE DEF T
  <2> QED BY <1>0, <1>3, <1>4, <2>1, AllNat
<1> PICK x : x = g[StreamEnd]
  OBVIOUS
<1>6. Reached(x, d, StreamEnd)
  BY <1>0, <1>5
<1>7. ~ Covered(d, x)
  BY <1>0, <1>6 DEF Reached, Covered
<1> PICK h : h = FirstHole(d, nextRxSeq)
  OBVIOUS
<1>8. h \in nextRxSeq .. StreamEnd /\ ~ Covered(d, h) /\ \A t \in nextRxSeq .. h - 1 : Covered(d, t)
  BY FirstHoleFirst
<1>9. x = h
  BY <1>0, <1>6, <1>7, <1>8 DEF Reached
<1> QED BY <1>2, <1>9

\* m bytes of the stream from byte b on
Run(b, m) == [k \in 1 .. m |-> b + (k - 1)]

\* Run(b, m) has m bytes.
LEMMA RunIs ==
    ASSUME NEW b \in Nat, NEW m \in Nat
    PROVE  Run(b, m) \in Seq(Nat) /\ Len(Run(b, m)) = m
BY DEF Run

\* z is list x continued by list y.
Continued(x, y, z) ==
    /\ Len(z) = Len(x) + Len(y)
    /\ \A i \in 1 .. Len(x) : z[i] = x[i]
    /\ \A i \in 1 .. Len(y) : z[Len(x) + i] = y[i]

\* Then it is their concatenation.
LEMMA ConcatIs ==
    ASSUME NEW x \in Seq(Nat), NEW y \in Seq(Nat), NEW z \in Seq(Nat), Continued(x, y, z)
    PROVE  z = x \o y
<1>0. \A i \in 1 .. Len(x) : (x \o y)[i] = x[i]
  OBVIOUS
<1>1. \A i \in 1 .. Len(y) : (x \o y)[Len(x) + i] = y[i]
  OBVIOUS
<1>2. x \o y \in Seq(Nat) /\ Len(x \o y) = Len(x) + Len(y)
  BY ConcatProperties, Zenon
<1> PICK q \in Seq(Nat) : q = x \o y
  BY <1>2
<1> PICK m \in Nat, j \in Nat : m = Len(x) /\ j = Len(y)
  OBVIOUS
<1>3. \A i \in 1 .. m : q[i] = z[i]
  BY <1>0, Zenon DEF Continued
<1>4. \A i \in 1 .. j : q[m + i] = z[m + i]
  BY <1>1, Zenon DEF Continued
<1>5. \A i \in 1 .. m + j : i \in 1 .. m \/ (i - m \in 1 .. j /\ m + (i - m) = i)
  OBVIOUS
<1>6. \A i \in 1 .. m + j : q[i] = z[i]
  BY <1>3, <1>4, <1>5, Zenon
<1>7. Len(q) = m + j /\ Len(z) = m + j
  BY <1>2, Zenon DEF Continued
<1>8. q = z
  BY <1>6, <1>7, SeqEqual, Zenon
<1> QED BY <1>8, Zenon

\* A run read on from where it stopped is one run.
LEMMA RunOn ==
    \A b, m, j \in Nat : Run(b, m) \o Run(b + m, j) = Run(b, m + j)
<1> TAKE b, m, j \in Nat
<1>0. b + m \in Nat /\ m + j \in Nat
  OBVIOUS
<1>1. /\ Run(b, m) \in Seq(Nat) /\ Len(Run(b, m)) = m
      /\ Run(b + m, j) \in Seq(Nat) /\ Len(Run(b + m, j)) = j
      /\ Run(b, m + j) \in Seq(Nat) /\ Len(Run(b, m + j)) = m + j
  BY <1>0, RunIs, Zenon
<1>2. \A i \in 1 .. m : Run(b, m + j)[i] = Run(b, m)[i]
  BY DEF Run
<1>3. \A i \in 1 .. j : Run(b, m + j)[m + i] = Run(b + m, j)[i]
  BY DEF Run
<1> PICK x \in Seq(Nat), y \in Seq(Nat), z \in Seq(Nat) :
          x = Run(b, m) /\ y = Run(b + m, j) /\ z = Run(b, m + j)
  BY <1>1
<1>4. Continued(x, y, z)
  BY <1>1, <1>2, <1>3, Zenon DEF Continued
<1>5. z = x \o y
  BY <1>4, ConcatIs, Zenon
<1> QED BY <1>5, Zenon

\* the loop of TakeLoop, one turn for each number
TakeNext(acc, s) ==
    IF \E p \in data : p.seq = s - 1 THEN TakeStep(acc, PacketAt(data, s - 1)) ELSE acc

Takes(f, n) ==
    f = [s \in 0 .. StreamEnd |-> IF s = 0 THEN [kept |-> data, left |-> n, got |-> <<>>]
                                  ELSE TakeNext(f[s - 1], s)]

\* The recursive function of TakeLoop is one.
LEMMA TakesExist ==
    ASSUME InStream(data), NEW n \in Nat
    PROVE  \E f : Takes(f, n)
<1> DEFINE A == [kept : SUBSET Packet, left : Nat, got : Seq(Nat)]
           a == [kept |-> data, left |-> n, got |-> <<>>]
           G == [x \in (1 .. StreamEnd) \X A |-> TakeNext(x[2], x[1])]
<1>0. StreamEnd \in Nat
  BY RxConstants
<1>1. a \in A
  BY DEF InStream
<1>2. ASSUME NEW s \in 1 .. StreamEnd, NEW acc \in A
      PROVE  TakeNext(acc, s) \in A
  <2>1. CASE \E p \in data : p.seq = s - 1
    <3> PICK p \in data : p = PacketAt(data, s - 1)
      BY <2>1, PacketAtIs
    <3>1. p \in Packet /\ p.seq \in Nat /\ p.src \in Nat /\ p.len \in Nat
      BY DEF InStream, Packet
    <3>2. acc.kept \in SUBSET Packet /\ acc.left \in Nat /\ acc.got \in Seq(Nat)
      BY <1>2
    <3>3. \A j \in Nat : acc.got \o Payload(p, j) \in Seq(Nat)
      <4> TAKE j \in Nat
      <4>1. Payload(p, j) \in Seq(Nat)
        BY <3>1, RunIs DEF Payload, Run
      <4> QED BY <3>2, <4>1, ConcatProperties, Zenon
    <3> HIDE DEF A
    <3>4. TakeStep(acc, p) \in A
      <4>1. CASE acc.left = 0
        BY <1>2, <4>1, Zenon DEF TakeStep
      <4>2. CASE acc.left # 0 /\ p.len <= acc.left
        <5>1. acc.kept \ {p} \in SUBSET Packet /\ acc.left - p.len \in Nat
          BY <3>1, <3>2, <4>2
        <5>2. [kept |-> acc.kept \ {p}, left |-> acc.left - p.len,
               got |-> acc.got \o Payload(p, p.len)] \in A
          BY <3>1, <3>3, <5>1, Zenon DEF A
        <5> QED BY <4>2, <5>2, Zenon DEF TakeStep
      <4>3. CASE acc.left # 0 /\ ~ (p.len <= acc.left)
        <5>1. [seq |-> p.seq + acc.left, src |-> p.src + acc.left, len |-> p.len - acc.left] \in Packet
          BY <3>1, <3>2, <4>3 DEF Packet
        <5>2. (acc.kept \ {p}) \cup {[seq |-> p.seq + acc.left, src |-> p.src + acc.left,
                                      len |-> p.len - acc.left]} \in SUBSET Packet
          BY <3>2, <5>1
        <5>3. [kept |-> (acc.kept \ {p}) \cup {[seq |-> p.seq + acc.left, src |-> p.src + acc.left,
                                                 len |-> p.len - acc.left]},
               left |-> 0, got |-> acc.got \o Payload(p, acc.left)] \in A
          <6>1. 0 \in Nat
            OBVIOUS
          <6> QED BY <3>2, <3>3, <5>2, <6>1, Zenon DEF A
        <5> QED BY <4>3, <5>3, Zenon DEF TakeStep
      <4> QED BY <4>1, <4>2, <4>3, Zenon
    <3> QED BY <2>1, <3>4, Zenon DEF TakeNext
  <2>2. CASE ~ \E p \in data : p.seq = s - 1
    BY <2>2, Zenon DEF TakeNext
  <2> QED BY <2>1, <2>2, Zenon
<1>3. G \in [(1 .. StreamEnd) \X A -> A]
  <2> HIDE DEF A
  <2> QED BY <1>2
<1>4. PICK f : Turns(f, A, a, StreamEnd, G)
  <2> HIDE DEF A, a, G
  <2> QED BY <1>0, <1>1, <1>3, TurnsExist, Zenon
<1>5. f \in [0 .. StreamEnd -> A]
  BY <1>4, Zenon DEF Turns
<1>6. f = [s \in 0 .. StreamEnd |-> IF s = 0 THEN a ELSE G[<<s, f[s - 1]>>]]
  BY <1>4, Zenon DEF Turns
<1>7. \A s \in 1 .. StreamEnd : G[<<s, f[s - 1]>>] = TakeNext(f[s - 1], s)
  <2> TAKE s \in 1 .. StreamEnd
  <2>1. s - 1 \in 0 .. StreamEnd
    BY <1>0
  <2> HIDE DEF A
  <2>2. f[s - 1] \in A
    BY <1>5, <2>1
  <2> QED BY <2>2
<1> HIDE DEF A, a, G
<1>8. \A s \in 0 .. StreamEnd : (IF s = 0 THEN a ELSE G[<<s, f[s - 1]>>])
                                = (IF s = 0 THEN a ELSE TakeNext(f[s - 1], s))
  BY <1>0, <1>7
<1>9. f = [s \in 0 .. StreamEnd |-> IF s = 0 THEN a ELSE TakeNext(f[s - 1], s)]
  BY <1>6, <1>8
<1> QED BY <1>9, Zenon DEF Takes, a

\* The bytes from b to cut can be read: they lie in packets filed under their own numbers.
Readable(b, cut) ==
    /\ InStream(data) /\ Disjoint(data)
    /\ b \in Nat /\ cut \in Nat /\ b < cut /\ cut <= StreamEnd
    /\ \A p \in data : p.src = p.seq /\ b <= p.seq
    /\ \A s \in b .. cut - 1 : Covered(data, s)

\* the packets with the bytes below cut taken away, and those at c on the way to cut
Left(cut) ==
    LET whole == {p \in data : End(p) <= cut}
        part  == {p \in data : p.seq < cut /\ cut < End(p)}
    IN  (data \ (whole \cup part)) \cup Rest(part, cut)

Taken(c, cut) == IF c < cut THEN data \ {p \in data : p.seq < c} ELSE Left(cut)

\* What the position c of the loop satisfies before the packet filed under s: it is the
\* end of the packets met, until it reaches cut.
ReadTo(c, s, b, cut) ==
    /\ c \in Nat /\ b <= c /\ c <= cut
    /\ c < cut => \A p \in data : /\ p.seq < s <=> p.seq < c
                                  /\ p.seq < c => End(p) <= c

TakeAt(acc, s, b, cut) ==
    \E c : /\ acc = [kept |-> Taken(c, cut), left |-> cut - c, got |-> Run(b, c - b)]
           /\ ReadTo(c, s, b, cut)

\* The packet met before cut is the one at the position.
LEMMA TakeFirst ==
    ASSUME NEW b, NEW cut, Readable(b, cut), NEW c, NEW s \in Nat, ReadTo(c, s, b, cut),
           c < cut
    PROVE  /\ \E q \in data : q.seq = c /\ s <= c
           /\ \A p \in data : p.seq = s => s = c
<1>1. /\ c \in Nat /\ b \in Nat /\ cut \in Nat /\ c \in b .. cut - 1
      /\ \A p \in data : p.seq \in Nat /\ End(p) \in Nat
      /\ \A p \in data : /\ p.seq < s <=> p.seq < c
                         /\ p.seq < c => End(p) <= c
  BY DEF Readable, ReadTo, InStream, Packet, End
<1>2. PICK q \in data : q.seq <= c /\ c < End(q)
  BY <1>1 DEF Readable, Covered
<1>3. q.seq = c /\ s <= c
  BY <1>1, <1>2
<1>4. \A p \in data : p.seq = s => s = c
  BY <1>1, <1>3
<1> QED BY <1>3, <1>4

\* One turn of the loop that takes packets.
LEMMA TakeTurn ==
    ASSUME NEW b, NEW cut, Readable(b, cut), NEW c, NEW s \in Nat, ReadTo(c, s, b, cut),
           NEW p \in data, p.seq = s,
           NEW acc, acc = [kept |-> Taken(c, cut), left |-> cut - c, got |-> Run(b, c - b)]
    PROVE  TakeAt(TakeStep(acc, p), s + 1, b, cut)
<1>0. /\ c \in Nat /\ b \in Nat /\ cut \in Nat /\ b <= c /\ c <= cut /\ c - b \in Nat
      /\ \A q \in data : q.seq \in Nat /\ q.len \in Nat \ {0} /\ End(q) = q.seq + q.len
      /\ \A q \in data : q = p \/ End(q) <= p.seq \/ End(p) <= q.seq
      /\ p.src = p.seq
  BY DEF Readable, ReadTo, InStream, Disjoint, Packet, End
<1>1. acc.kept = Taken(c, cut) /\ acc.left = cut - c /\ acc.got = Run(b, c - b)
  BY Zenon
<1>2. CASE c = cut
  <2>1. cut - c = 0
    BY <1>0, <1>2
  <2>2. TakeStep(acc, p) = acc
    BY <1>1, <2>1, Zenon DEF TakeStep
  <2>3. ReadTo(c, s + 1, b, cut)
    BY <1>0, <1>2 DEF ReadTo
  <2> QED BY <2>2, <2>3, Zenon DEF TakeAt
<1>3. CASE c < cut
  <2>1. s = c
    BY <1>3, TakeFirst
  <2>2. /\ \A q \in data : /\ q.seq < s <=> q.seq < c
                           /\ q.seq < c => End(q) <= c
        /\ cut - c \in Nat /\ cut - c # 0 /\ c + (cut - c) = cut
    BY <1>0, <1>3 DEF ReadTo
  <2>3. Taken(c, cut) = data \ {q \in data : q.seq < c}
    BY <1>3, Zenon DEF Taken
  <2>4. \A j \in Nat : Run(b, c - b) \o Payload(p, j) = Run(b, (c - b) + j)
    <3> TAKE j \in Nat
    <3>1. b + (c - b) = c
      BY <1>0
    <3>2. p.src = c
      BY <1>0, <2>1, Zenon
    <3>3. Payload(p, j) = Run(c, j)
      BY <3>2, Zenon DEF Payload, Run
    <3>4. b \in Nat /\ c - b \in Nat
      BY <1>0, Zenon
    <3>5. \A m \in Nat : Run(b, m) \o Run(b + m, j) = Run(b, m + j)
      BY <3>4, RunOn, ZenonT(60)
    <3>6. Run(b, c - b) \o Run(b + (c - b), j) = Run(b, (c - b) + j)
      BY <3>4, <3>5, Zenon
    <3> QED BY <1>1, <3>1, <3>3, <3>6, Zenon
  <2>5. CASE p.len <= cut - c
    <3> PICK e \in Nat : e = End(p)
      BY <1>0
    <3>1. c < e /\ e <= cut /\ (cut - c) - p.len = cut - e /\ (c - b) + p.len = e - b
      BY <1>0, <2>1, <2>2, <2>5
    <3>2. Taken(c, cut) \ {p} = Taken(e, cut)
      <4>1. CASE e < cut
        <5>1. Taken(e, cut) = data \ {q \in data : q.seq < e}
          BY <4>1, Zenon DEF Taken
        <5>2. \A q \in data : q.seq < e <=> q.seq < c \/ q = p
          BY <1>0, <2>1, <3>1
        <5> QED BY <2>3, <5>1, <5>2
      <4>2. CASE e = cut
        <5>1. Taken(e, cut) = Left(cut)
          BY <3>1, <4>2 DEF Taken
        <5>2. \A q \in data : End(q) <= cut <=> q.seq < c \/ q = p
          <6> TAKE q \in data
          <6>1. /\ q.seq \in Nat /\ q.len \in Nat \ {0} /\ End(q) = q.seq + q.len
                /\ q = p \/ End(q) <= p.seq \/ End(p) <= q.seq
                /\ q.seq < c => End(q) <= c
                /\ p.seq = c
            BY <1>0, <2>1, <2>2
          <6>2. End(p) = cut /\ c < cut /\ c \in Nat /\ cut \in Nat
            BY <1>0, <3>1, <4>2
          <6> QED BY <6>1, <6>2
        <5>3. {q \in data : q.seq < cut /\ cut < End(q)} = {}
          BY <1>0, <2>1, <2>2, <3>1, <4>2
        <5>4. Rest({q \in data : q.seq < cut /\ cut < End(q)}, cut) = {}
          BY <5>3 DEF Rest
        <5>5. Left(cut) = data \ {q \in data : End(q) <= cut}
          BY <5>3, <5>4 DEF Left
        <5> QED BY <2>3, <5>1, <5>2, <5>5
      <4>3. e < cut \/ e = cut
        BY <1>0, <3>1
      <4> QED BY <4>1, <4>2, <4>3, Zenon
    <3>3. TakeStep(acc, p) = [kept |-> Taken(e, cut), left |-> cut - e, got |-> Run(b, e - b)]
      <4>1. acc.got \o Payload(p, p.len) = Run(b, e - b)
        <5>1. p.len \in Nat
          BY <1>0
        <5> QED BY <1>1, <2>4, <3>1, <5>1, Zenon
      <4>2. acc.kept \ {p} = Taken(e, cut) /\ acc.left - p.len = cut - e
        BY <1>1, <3>1, <3>2, Zenon
      <4>3. acc.left # 0 /\ p.len <= acc.left
        BY <1>1, <2>2, <2>5, Zenon
      <4>4. TakeStep(acc, p) = [kept |-> acc.kept \ {p}, left |-> acc.left - p.len,
                                got |-> acc.got \o Payload(p, p.len)]
        BY <4>3, Zenon DEF TakeStep
      <4> QED BY <4>1, <4>2, <4>4, Zenon
    <3>4. ReadTo(e, s + 1, b, cut)
      <4>1. \A q \in data : /\ q.seq < s + 1 <=> q.seq < e
                            /\ q.seq < e => End(q) <= e
        BY <1>0, <2>1, <2>2, <3>1
      <4>2. b <= e
        BY <1>0, <3>1
      <4> QED BY <3>1, <4>1, <4>2, Zenon DEF ReadTo
    <3> QED BY <3>3, <3>4, Zenon DEF TakeAt
  <2>6. CASE ~ (p.len <= cut - c)
    <3> DEFINE r == [seq |-> p.seq + (cut - c), src |-> p.src + (cut - c), len |-> p.len - (cut - c)]
    <3>1. cut < End(p) /\ (c - b) + (cut - c) = cut - b /\ cut - cut = 0
      BY <1>0, <2>1, <2>2, <2>6
    <3>2. (Taken(c, cut) \ {p}) \cup {r} = Taken(cut, cut)
      <4>1. Taken(cut, cut) = Left(cut)
        BY <1>0 DEF Taken
      <4>2. \A q \in data : End(q) <= cut <=> q.seq < c
        BY <1>0, <2>1, <2>2, <3>1
      <4>3. {q \in data : q.seq < cut /\ cut < End(q)} = {p}
        BY <1>0, <1>3, <2>1, <2>2, <3>1
      <4>4. Rest({p}, cut) = {[seq |-> cut, src |-> p.src + (cut - p.seq), len |-> End(p) - cut]}
        BY Zenon DEF Rest
      <4>5. p.seq + (cut - c) = cut /\ cut - c = cut - p.seq /\ p.len - (cut - c) = End(p) - cut
        BY <1>0, <2>1
      <4>6. Rest({p}, cut) = {r}
        BY <4>4, <4>5, Zenon
      <4>7. Left(cut) = (data \ ({q \in data : End(q) <= cut} \cup {p})) \cup {r}
        BY <4>3, <4>6, Zenon DEF Left
      <4> HIDE DEF r
      <4> QED BY <2>3, <4>1, <4>2, <4>7
    <3>3. TakeStep(acc, p) = [kept |-> Taken(cut, cut), left |-> cut - cut, got |-> Run(b, cut - b)]
      <4>1. acc.got \o Payload(p, acc.left) = Run(b, cut - b)
        BY <1>1, <2>2, <2>4, <3>1, Zenon
      <4>2. (acc.kept \ {p}) \cup {r} = Taken(cut, cut)
        BY <1>1, <3>2, Zenon
      <4>3. acc.left # 0 /\ ~ (p.len <= acc.left)
        BY <1>1, <2>2, <2>6, Zenon
      <4>4. r = [seq |-> p.seq + acc.left, src |-> p.src + acc.left, len |-> p.len - acc.left]
        BY <1>1, Zenon
      <4> HIDE DEF r
      <4>5. TakeStep(acc, p) = [kept |-> (acc.kept \ {p}) \cup {r}, left |-> 0,
                                got |-> acc.got \o Payload(p, acc.left)]
        BY <4>3, <4>4, Zenon DEF TakeStep
      <4> QED BY <3>1, <4>1, <4>2, <4>5, Zenon
    <3>4. ReadTo(cut, s + 1, b, cut)
      BY <1>0 DEF ReadTo
    <3> QED BY <3>3, <3>4, Zenon DEF TakeAt
  <2> QED BY <2>5, <2>6
<1> QED BY <1>0, <1>2, <1>3

\* The loop of Extract takes the bytes below cut, in order, and leaves the others.
LEMMA TakeLoopIs ==
    ASSUME NEW b, NEW n \in Nat, NEW cut, cut = b + n, Readable(b, cut)
    PROVE  TakeLoop(n) = [kept |-> Left(cut), left |-> 0, got |-> Run(b, n)]
<1> DEFINE g == CHOOSE f : Takes(f, n)
           T == {s \in Nat : s <= StreamEnd => TakeAt(g[s], s, b, cut)}
<1>0. /\ StreamEnd \in Nat /\ b \in Nat /\ cut \in Nat /\ b < cut /\ cut <= StreamEnd
      /\ cut - b = n /\ b - b = 0 /\ cut - cut = 0
      /\ \A p \in data : p.seq \in Nat /\ p.seq < StreamEnd /\ b <= p.seq
  BY RxConstants DEF Readable, InStream, Packet, End
<1>1. Takes(g, n)
  BY TakesExist DEF Readable
<1>2. TakeLoop(n) = g[StreamEnd]
  <2>1. g = CHOOSE f : f = [s \in 0 .. StreamEnd |->
               IF s = 0 THEN [kept |-> data, left |-> n, got |-> <<>>]
               ELSE IF \E p \in data : p.seq = s - 1
                    THEN TakeStep(f[s - 1], PacketAt(data, s - 1)) ELSE f[s - 1]]
    BY Zenon DEF Takes, TakeNext
  <2> QED BY <2>1, Zenon DEF TakeLoop
<1> HIDE DEF g
<1>3. 0 \in T
  <2>1. g[0] = [kept |-> data, left |-> n, got |-> <<>>]
    BY <1>0, <1>1 DEF Takes
  <2>2. Taken(b, cut) = data
    <3>1. {p \in data : p.seq < b} = {}
      BY <1>0
    <3> QED BY <1>0, <3>1 DEF Taken
  <2>3. Run(b, b - b) = <<>>
    <3>1. Run(b, 0) = <<>>
      BY DEF Run
    <3> QED BY <1>0, <3>1, Zenon
  <2>4. g[0] = [kept |-> Taken(b, cut), left |-> cut - b, got |-> Run(b, b - b)]
    BY <1>0, <2>1, <2>2, <2>3, Zenon
  <2>5. ReadTo(b, 0, b, cut)
    BY <1>0 DEF ReadTo
  <2>6. TakeAt(g[0], 0, b, cut)
    BY <2>4, <2>5, Zenon DEF TakeAt
  <2> QED BY <2>6
<1>4. ASSUME NEW s \in T
      PROVE  s + 1 \in T
  <2> SUFFICES ASSUME s + 1 <= StreamEnd
               PROVE  TakeAt(g[s + 1], s + 1, b, cut)
    OBVIOUS
  <2>1. s \in Nat /\ s <= StreamEnd /\ s + 1 \in 0 .. StreamEnd /\ s + 1 # 0 /\ (s + 1) - 1 = s
    BY <1>0
  <2> PICK acc : acc = g[s]
    OBVIOUS
  <2>2. TakeAt(acc, s, b, cut)
    BY <2>1
  <2>3. PICK c : /\ acc = [kept |-> Taken(c, cut), left |-> cut - c, got |-> Run(b, c - b)]
                 /\ ReadTo(c, s, b, cut)
    BY <2>2, Zenon DEF TakeAt
  <2>4. g[s + 1] = TakeNext(acc, s + 1)
    BY <1>1, <2>1 DEF Takes
  <2>5. CASE \E p \in data : p.seq = s
    <3> PICK p \in data : p = PacketAt(data, s) /\ p.seq = s
      BY <2>5, PacketAtIs
    <3>1. g[s + 1] = TakeStep(acc, p)
      BY <2>1, <2>4, <2>5, Zenon DEF TakeNext
    <3>2. TakeAt(TakeStep(acc, p), s + 1, b, cut)
      BY <2>1, <2>3, TakeTurn, Zenon
    <3> QED BY <3>1, <3>2, Zenon
  <2>6. CASE ~ \E p \in data : p.seq = s
    <3>1. g[s + 1] = acc
      BY <2>1, <2>4, <2>6, Zenon DEF TakeNext
    <3>2. \A p \in data : p.seq < s + 1 <=> p.seq < s
      BY <1>0, <2>1, <2>6
    <3>3. ReadTo(c, s + 1, b, cut)
      BY <2>3, <3>2, Zenon DEF ReadTo
    <3> QED BY <2>3, <3>1, <3>3, Zenon DEF TakeAt
  <2> QED BY <2>5, <2>6
<1>5. StreamEnd \in T
  <2>1. T \subseteq Nat
    OBVIOUS
  <2> HIDE DEF T
  <2> QED BY <1>0, <1>3, <1>4, <2>1, AllNat
<1>6. TakeAt(g[StreamEnd], StreamEnd, b, cut)
  BY <1>0, <1>5
<1>7. PICK c : /\ g[StreamEnd] = [kept |-> Taken(c, cut), left |-> cut - c, got |-> Run(b, c - b)]
               /\ ReadTo(c, StreamEnd, b, cut)
  BY <1>6, Zenon DEF TakeAt
<1>8. c = cut
  <2>1. c \in Nat /\ c <= cut
    BY <1>7 DEF ReadTo
  <2>2. ~ (c < cut)
    <3> SUFFICES ASSUME c < cut PROVE FALSE
      OBVIOUS
    <3>1. PICK q \in data : q.seq = c /\ StreamEnd <= c
      BY <1>0, <1>7, TakeFirst
    <3> QED BY <1>0, <3>1
  <2> QED BY <1>0, <2>1, <2>2
<1>9. Taken(cut, cut) = Left(cut)
  BY <1>0 DEF Taken
<1>10. g[StreamEnd] = [kept |-> Left(cut), left |-> 0, got |-> Run(b, n)]
  BY <1>0, <1>7, <1>8, <1>9, Zenon
<1> QED BY <1>2, <1>10, Zenon

(***************************************************************************)
(* The inductive invariant                                                 *)
(***************************************************************************)
Types ==
    /\ data \subseteq Packet
    /\ nextRxSeq \in Nat
    /\ gotFin \in BOOLEAN
    /\ finSeq \in Nat
    /\ availBytes \in Int
    /\ out \in Seq(Nat)

\* the FIN is the end of the stream and is passed as soon as it is next
FinInv ==
    /\ gotFin => finSeq = StreamEnd
    /\ nextRxSeq <= StreamEnd + 1
    /\ nextRxSeq = StreamEnd + 1 => gotFin
    /\ gotFin => nextRxSeq # StreamEnd

\* packets hold the right bytes, do not overlap and were not delivered yet
DataInv ==
    /\ \A p \in data : p.src = p.seq /\ Len(out) <= p.seq /\ End(p) <= StreamEnd
    /\ \A p, q \in data : p = q \/ End(p) <= q.seq \/ End(q) <= p.seq

\* exactly the bytes up to Acked are contiguous
PrefixInv ==
    /\ Len(out) <= Acked
    /\ \A s \in Len(out) .. Acked - 1 : Covered(data, s)
    /\ ~ Covered(data, Acked)
    /\ availBytes = Acked - Len(out)

\* the window is MaxBuffer numbers from the first unread one
WindowInv ==
    /\ \A p \in data : End(p) <= Len(out) + MaxBuffer
    /\ gotFin => StreamEnd <= Len(out) + MaxBuffer

\* what is reported is stored, beyond the next number expected, in at most 4 blocks
SackInv == sackList \in Seq(Honest(data, nextRxSeq)) /\ Len(sackList) <= 4

\* the occupancy counts every byte held once
SizeInv == size = Cardinality(Bytes(data))

IInv ==
    /\ Types
    /\ FinInv
    /\ DataInv
    /\ PrefixInv
    /\ WindowInv
    /\ SizeInv
    /\ SackInv
    /\ InOrderDelivery

\* Consequences of the invariant used by every step.
LEMMA Position ==
    ASSUME IInv
    PROVE  /\ StreamEnd \in Nat /\ MaxBuffer \in Nat \ {0}
           /\ Len(out) \in Nat
           /\ Acked \in Nat /\ Acked <= StreamEnd
           /\ InStream(data)
           /\ ~ Finished => Acked = nextRxSeq
           /\ Finished => nextRxSeq = StreamEnd + 1
<1>1. StreamEnd \in Nat /\ MaxBuffer \in Nat \ {0}
  BY RxConstants
<1>2. Len(out) \in Nat
  BY DEF IInv, Types
<1>3. InStream(data)
  BY DEF IInv, Types, DataInv, InStream
<1> QED BY <1>1, <1>2, <1>3 DEF IInv, Types, FinInv, Acked, Finished

\* The first byte to be read is the first byte held, if any is contiguous.
LEMMA UnreadFirst ==
    ASSUME IInv
    PROVE  /\ Len(out) < Acked => data # {} /\ BeginSeq(data) = Len(out)
           /\ data # {} /\ BeginSeq(data) < Acked => BeginSeq(data) = Len(out)
           /\ data # {} => BeginSeq(data) \in Nat /\ Len(out) <= BeginSeq(data)
<1>0. Len(out) \in Nat /\ Acked \in Nat
  BY Position
<1>1. ASSUME Len(out) < Acked
      PROVE  \E p \in data : p.seq = Len(out)
  <2>1. Covered(data, Len(out))
    BY <1>0, <1>1 DEF IInv, PrefixInv
  <2>2. PICK p \in data : p.seq <= Len(out) /\ Len(out) < End(p)
    BY <2>1 DEF Covered
  <2>3. p.seq \in Nat /\ Len(out) <= p.seq
    BY DEF IInv, Types, DataInv, Packet
  <2> QED BY <1>0, <2>2, <2>3
<1>2. ASSUME data # {}
      PROVE  /\ \E p \in data : BeginSeq(data) = p.seq
             /\ BeginSeq(data) \in Nat
             /\ \A p \in data : BeginSeq(data) <= p.seq
  BY <1>2, BeginSeqFirst DEF IInv, Types
<1>3. data # {} => Len(out) <= BeginSeq(data)
  BY <1>2 DEF IInv, DataInv
<1> QED BY <1>0, <1>1, <1>2, <1>3

\* Before the FIN the right edge lies MaxBuffer beyond the first unread byte.
LEMMA EdgeIsUnreadPlusBuffer ==
    ASSUME IInv, ~ gotFin
    PROVE  MaxRxSequence = Len(out) + MaxBuffer
<1>1. nextRxSeq = Acked
  BY DEF Acked, Finished
<1>2. Len(out) \in Nat /\ Acked \in Nat /\ Len(out) <= Acked
  BY Position DEF IInv, PrefixInv
<1> QED BY <1>1, <1>2, UnreadFirst DEF MaxRxSequence

\* A segment the peer may send ends within the stream and within the window.
LEMMA OfferedInWindow ==
    ASSUME IInv, NEW seg \in Segments, Offered(seg)
    PROVE  /\ seg[1] \in Nat /\ seg[2] \in Nat
           /\ seg[1] <= seg[2] /\ seg[2] <= StreamEnd
           /\ seg[2] <= Len(out) + MaxBuffer
<1>1. seg[1] \in Nat /\ seg[2] \in Nat /\ seg[1] <= seg[2] /\ seg[2] <= StreamEnd
  BY RxConstants
<1>2. Len(out) \in Nat /\ StreamEnd \in Nat /\ MaxBuffer \in Nat
  BY Position
<1>3. CASE gotFin
  BY <1>1, <1>2, <1>3 DEF Offered, MaxRxSequence, IInv, WindowInv, FinInv
<1>4. CASE ~ gotFin
  BY <1>1, <1>2, <1>4, EdgeIsUnreadPlusBuffer DEF Offered
<1> QED BY <1>1, <1>3, <1>4 DEF IInv, Types

(***************************************************************************)
(* Add                                                                     *)
(***************************************************************************)
\* What the range computed by Add satisfies when something is left to store:
\* it starts at an uncovered number not below the next one expected, ends no
\* later than the segment, and meets no packet that stays.
LEMMA AddRange ==
    ASSUME IInv, ~ Finished,
           NEW first \in Nat, NEW last \in Nat, last <= StreamEnd, first <= last,
           NEW tail0, tail0 = TrimTail(last),
           NEW head, head = HeadPastStored(TrimHead(first, tail0)),
           NEW tail, tail = TailBeforeStored(tail0)
    PROVE  /\ head \in Nat /\ tail \in Nat /\ tail0 \in Nat
           /\ head < tail => nextRxSeq <= head
           /\ tail <= tail0 /\ tail0 <= last
           /\ ~ Covered(data, head)
           /\ \A p \in data : p.seq < tail0 /\ tail0 <= End(p) => tail = p.seq
           /\ tail = tail0 \/ \E q \in data : tail = q.seq /\ q.seq < tail0 /\ tail0 <= End(q)
<1> DEFINE head0  == TrimHead(first, tail0)
           holder == {p \in data : p.seq < tail0 /\ tail0 <= End(p)}
<1>0. /\ StreamEnd \in Nat /\ MaxBuffer \in Nat \ {0} /\ Len(out) \in Nat
      /\ InStream(data) /\ nextRxSeq \in Nat /\ nextRxSeq <= StreamEnd
  BY Position DEF IInv, Types
<1>1. tail0 \in Nat /\ tail0 <= last
  BY <1>0, UnreadFirst DEF TrimTail, Smaller
<1>2. head0 \in Nat /\ head0 <= StreamEnd /\ (nextRxSeq <= head0 \/ head0 = tail0)
  BY <1>0, <1>1 DEF TrimHead, Larger
<1>3. head \in head0 .. StreamEnd /\ ~ Covered(data, head)
  BY <1>0, <1>2, FirstHoleFirst DEF HeadPastStored
<1>4. /\ \A p \in data : p.seq \in Nat /\ End(p) \in Nat /\ p.seq < End(p)
  BY <1>0 DEF InStream, Packet, End
<1>5. \A p, q \in holder : p.seq = q.seq
  BY <1>1, <1>4 DEF IInv, DataInv
<1>6. holder = {} => tail = tail0
  BY DEF TailBeforeStored
<1>7. ASSUME holder # {}
      PROVE  \E q \in holder : tail = q.seq
  <2>1. holder \subseteq Packet
    BY <1>0 DEF InStream
  <2>2. \E q \in holder : BeginSeq(holder) = q.seq
    BY <1>7, <2>1, BeginSeqFirst
  <2> QED BY <1>7, <2>2 DEF TailBeforeStored
<1>8. tail \in Nat /\ tail <= tail0
  BY <1>1, <1>4, <1>6, <1>7
<1>9. head < tail => nextRxSeq <= head
  BY <1>0, <1>1, <1>2, <1>3, <1>8
<1>10. \A p \in data : p.seq < tail0 /\ tail0 <= End(p) => tail = p.seq
  BY <1>5, <1>7
<1>11. tail = tail0 \/ \E q \in data : tail = q.seq /\ q.seq < tail0 /\ tail0 <= End(q)
  BY <1>6, <1>7
<1> QED BY <1>1, <1>3, <1>8, <1>9, <1>10, <1>11, <1>2, <1>0

\* A packet that Add keeps does not meet the range it stores.
LEMMA KeptApart ==
    ASSUME InStream(data), NEW head \in Nat, NEW tail \in Nat, NEW tail0 \in Nat, tail <= tail0,
           ~ Covered(data, head),
           \A p \in data : p.seq < tail0 /\ tail0 <= End(p) => tail = p.seq,
           NEW p \in data \ Embedded(head, tail0)
    PROVE  End(p) <= head \/ tail <= p.seq
<1>1. p.seq \in Nat /\ End(p) \in Nat /\ p.seq < End(p)
  BY DEF InStream, Packet, End
<1>2. p.seq <= head \/ tail0 <= End(p)
  BY <1>1 DEF Embedded
<1>3. CASE p.seq <= head
  BY <1>1, <1>3 DEF Covered
<1>4. CASE tail0 <= End(p)
  BY <1>1, <1>4
<1> QED BY <1>2, <1>3, <1>4

\* What holds of packets d once the bytes head .. tail - 1 were added to data in place
\* of the packets inner: they are disjoint, correct and within bounds, nothing else was
\* covered or uncovered, and inner had the bytes of the range that were held.
Stored(d, inner, head, tail) ==
    /\ InStream(d)
    /\ \A p \in d : p.src = p.seq /\ Len(out) <= p.seq
    /\ \A p \in d : End(p) <= Len(out) + MaxBuffer
    /\ \A p, q \in d : p = q \/ End(p) <= q.seq \/ End(q) <= p.seq
    /\ \A s \in Nat : Covered(data, s) => Covered(d, s)
    /\ \A s \in head .. tail - 1 : Covered(d, s)
    /\ \A s \in Nat : Covered(d, s) => Covered(data, s) \/ s \in head .. tail - 1
    /\ Bytes(d) = Bytes(data) \cup (head .. tail - 1)
    /\ Bytes(inner) = Bytes(data) \cap (head .. tail - 1)

\* Storing the range keeps the packets disjoint, correct and within bounds,
\* and uncovers nothing.
LEMMA AddData ==
    ASSUME IInv,
           NEW head \in Nat, NEW tail \in Nat, NEW tail0 \in Nat, head < tail,
           tail0 <= StreamEnd, tail0 <= Len(out) + MaxBuffer,
           nextRxSeq <= head, tail <= tail0,
           ~ Finished,
           ~ Covered(data, head),
           \A p \in data : p.seq < tail0 /\ tail0 <= End(p) => tail = p.seq,
           tail = tail0 \/ \E q \in data : tail = q.seq /\ q.seq < tail0 /\ tail0 <= End(q),
           NEW d, d = (data \ Embedded(head, tail0))
                          \cup {[seq |-> head, src |-> head, len |-> tail - head]}
    PROVE  Stored(d, Embedded(head, tail0), head, tail)
<1> DEFINE new == [seq |-> head, src |-> head, len |-> tail - head]
<1>0. /\ StreamEnd \in Nat /\ MaxBuffer \in Nat \ {0} /\ Len(out) \in Nat
      /\ InStream(data) /\ nextRxSeq \in Nat /\ Len(out) <= nextRxSeq
  BY Position DEF IInv, Types, PrefixInv
<1>1. new \in Packet /\ new.seq = head /\ new.src = head /\ End(new) = tail
  BY DEF Packet, End
<1>2. \A p \in data : p.seq \in Nat /\ End(p) \in Nat /\ p.seq < End(p)
  BY <1>0 DEF InStream, Packet, End
<1>3. InStream(d)
  BY <1>0, <1>1 DEF InStream
<1>4. \A p \in d : p.src = p.seq /\ Len(out) <= p.seq
  BY <1>0, <1>1 DEF IInv, DataInv
<1>5. \A p \in d : End(p) <= Len(out) + MaxBuffer
  BY <1>0, <1>1 DEF IInv, WindowInv
<1>6. \A p \in data \ Embedded(head, tail0) : End(p) <= head \/ tail <= p.seq
  BY <1>0, KeptApart
<1>7. \A p, q \in d : p = q \/ End(p) <= q.seq \/ End(q) <= p.seq
  BY <1>1, <1>6 DEF IInv, DataInv
<1>8. \A p \in Embedded(head, tail0) : head <= p.seq /\ End(p) <= tail
  <2> TAKE p \in Embedded(head, tail0)
  <2>1. p \in data /\ p.seq > head /\ End(p) < tail0
    BY DEF Embedded
  <2>2. CASE tail = tail0
    BY <1>2, <2>1, <2>2
  <2>3. ASSUME NEW q \in data, tail = q.seq, q.seq < tail0, tail0 <= End(q)
        PROVE  End(p) <= tail
    <3>1. p = q \/ End(p) <= q.seq \/ End(q) <= p.seq
      BY <2>1 DEF IInv, DataInv
    <3> QED BY <1>2, <2>1, <2>3, <3>1
  <2> QED BY <1>2, <2>1, <2>2, <2>3
<1>9. \A s \in Nat : Covered(data, s) => Covered(d, s)
  <2> TAKE s \in Nat
  <2> HAVE Covered(data, s)
  <2>1. PICK p \in data : p.seq <= s /\ s < End(p)
    BY DEF Covered
  <2>2. CASE p \in Embedded(head, tail0)
    <3>1. new.seq <= s /\ s < End(new)
      BY <1>1, <1>2, <1>8, <2>1, <2>2
    <3> QED BY <3>1 DEF Covered
  <2>3. CASE p \notin Embedded(head, tail0)
    BY <2>1, <2>3 DEF Covered
  <2> QED BY <2>2, <2>3
<1>10. \A s \in head .. tail - 1 : Covered(d, s)
  BY <1>1 DEF Covered
<1>11. \A s \in Nat : Covered(d, s) => Covered(data, s) \/ s \in head .. tail - 1
  BY <1>1 DEF Covered
<1>12. Bytes(d) = Bytes(data) \cup (head .. tail - 1)
  <2>1. head .. tail - 1 \subseteq 0 .. StreamEnd - 1 /\ 0 .. StreamEnd - 1 \subseteq Nat
    BY <1>0
  <2>2. \A s \in 0 .. StreamEnd - 1 : Covered(d, s) <=> Covered(data, s) \/ s \in head .. tail - 1
    BY <1>9, <1>10, <1>11, <2>1, Zenon
  <2> PICK R : R = head .. tail - 1
    OBVIOUS
  <2> QED BY <2>1, <2>2, Zenon DEF Bytes
<1>13. \A s \in Nat : Covered(Embedded(head, tail0), s)
                          <=> Covered(data, s) /\ s \in head .. tail - 1
  <2> TAKE s \in Nat
  <2>1. ASSUME NEW p \in Embedded(head, tail0), p.seq <= s, s < End(p)
        PROVE  p \in data /\ s \in head .. tail - 1
    BY <1>2, <1>8, <2>1 DEF Embedded
  <2>2. ASSUME NEW p \in data, p.seq <= s, s < End(p), s \in head .. tail - 1
        PROVE  p \in Embedded(head, tail0)
    BY <1>2, <1>6, <2>2
  <2> QED BY <2>1, <2>2, Zenon DEF Covered
<1>14. Bytes(Embedded(head, tail0)) = Bytes(data) \cap (head .. tail - 1)
  <2>1. 0 .. StreamEnd - 1 \subseteq Nat
    BY <1>0
  <2> QED BY <1>13, <2>1, Zenon DEF Bytes
<1> QED BY <1>3, <1>4, <1>5, <1>7, <1>9, <1>10, <1>11, <1>12, <1>14, Zenon DEF Stored

\* Add preserves the invariant, whatever the socket has just noted of a FIN, and takes
\* nothing back from a list of less than four blocks.
LEMMA AddStep ==
    ASSUME IInv, ~ Finished,
           NEW first \in Nat, NEW last \in Nat, first <= last,
           last <= StreamEnd, last <= Len(out) + MaxBuffer,
           Types', gotFin => gotFin', gotFin' => finSeq' = StreamEnd,
           gotFin' => StreamEnd <= Len(out) + MaxBuffer,
           gotFin' => nextRxSeq # StreamEnd,
           out' = out,
           Add(first, last)
    PROVE  /\ IInv' /\ Acked <= Acked'
           /\ Len(sackList) < 4 => Keeps(sackList', sackList, nextRxSeq')
<1> DEFINE tail0 == TrimTail(last)
           head  == HeadPastStored(TrimHead(first, tail0))
           tail  == TailBeforeStored(tail0)
           new   == [seq |-> head, src |-> head, len |-> tail - head]
           next  == FirstHole(data', nextRxSeq)
<1>0. /\ StreamEnd \in Nat /\ MaxBuffer \in Nat \ {0} /\ Len(out) \in Nat
      /\ nextRxSeq \in Nat /\ nextRxSeq <= StreamEnd /\ Acked = nextRxSeq
  BY Position DEF IInv, Types
<1>1. CASE NothingToBuffer(head, tail)
  <2>1. UNCHANGED <<data, nextRxSeq, size, availBytes, sackList>>
    BY <1>1 DEF Add
  <2>2. ~ Finished' /\ Acked' = Acked
    BY <1>0, <2>1 DEF Finished, Acked
  <2>3. DataInv' /\ PrefixInv' /\ WindowInv' /\ InOrderDelivery'
    BY <2>1, <2>2 DEF IInv, DataInv, PrefixInv, WindowInv, InOrderDelivery, Covered
  <2>4. FinInv'
    BY <1>0, <2>1 DEF FinInv, IInv
  <2>5. SackInv'
    BY <2>1, Zenon DEF IInv, SackInv, Honest, Covered, End
  <2>6. SizeInv'
    BY <2>1, Zenon DEF IInv, SizeInv, Bytes, Covered, End
  <2>7. Keeps(sackList', sackList, nextRxSeq')
    BY <2>1, Zenon DEF Keeps, Told
  <2> QED BY <1>0, <2>2, <2>3, <2>4, <2>5, <2>6, <2>7 DEF IInv
<1>2. CASE ~ NothingToBuffer(head, tail)
  <2>0. /\ data' = (data \ Embedded(head, tail0)) \cup {CreateFragment(first, head, tail)}
        /\ size' = SizeAfter(Embedded(head, tail0), CreateFragment(first, head, tail))
        /\ availBytes' = availBytes + (next - nextRxSeq)
        /\ nextRxSeq' = IF gotFin' /\ next = finSeq' THEN next + 1 ELSE next
        /\ sackList' = IF head > nextRxSeq THEN UpdateSackList(head, tail)
                                           ELSE ClearSackList(next)
    BY <1>2 DEF Add
  <2>1. /\ head \in Nat /\ tail \in Nat /\ tail0 \in Nat
        /\ head < tail => nextRxSeq <= head
        /\ tail <= tail0 /\ tail0 <= last
        /\ ~ Covered(data, head)
        /\ \A p \in data : p.seq < tail0 /\ tail0 <= End(p) => tail = p.seq
        /\ tail = tail0 \/ \E q \in data : tail = q.seq /\ q.seq < tail0 /\ tail0 <= End(q)
    BY AddRange
  <2>2. head < tail
    BY <1>2, <2>1 DEF NothingToBuffer
  <2>3. CreateFragment(first, head, tail) = new
    BY <2>1 DEF CreateFragment
  <2>3a. Stored(data', Embedded(head, tail0), head, tail)
    <3>1. data' = (data \ Embedded(head, tail0)) \cup {new}
      BY <2>0, <2>3
    <3> HIDE DEF tail0, head, tail
    <3>2. nextRxSeq <= head /\ tail0 <= StreamEnd /\ tail0 <= Len(out) + MaxBuffer
      BY <1>0, <2>1, <2>2
    <3> PICK d : d = data'
      OBVIOUS
    <3>3. Stored(d, Embedded(head, tail0), head, tail)
      BY <2>1, <2>2, <3>1, <3>2, AddData, Zenon
    <3> QED BY <3>3
  <2>4. /\ InStream(data')
        /\ \A p \in data' : p.src = p.seq /\ Len(out) <= p.seq
        /\ \A p \in data' : End(p) <= Len(out) + MaxBuffer
        /\ \A p, q \in data' : p = q \/ End(p) <= q.seq \/ End(q) <= p.seq
        /\ \A s \in Nat : Covered(data, s) => Covered(data', s)
        /\ \A s \in head .. tail - 1 : Covered(data', s)
        /\ \A s \in Nat : Covered(data', s) => Covered(data, s) \/ s \in head .. tail - 1
    BY <2>3a, Zenon DEF Stored
  <2>4a. SizeInv'
    <3> PICK d : d = data'
      OBVIOUS
    <3> PICK inner : inner = Embedded(head, tail0)
      OBVIOUS
    <3>1. /\ Bytes(d) = Bytes(data) \cup (head .. tail - 1)
          /\ Bytes(inner) = Bytes(data) \cap (head .. tail - 1)
      BY <2>3a, Zenon DEF Stored
    <3>2. TotalLen(inner) = Cardinality(Bytes(inner))
      <4>1. inner \subseteq data
        BY DEF Embedded
      <4>2. InStream(inner) /\ Disjoint(inner)
        BY <4>1, Position DEF InStream, Disjoint, IInv, DataInv
      <4> QED BY <4>2, TotalIsBytes, Zenon
    <3>3. size' = size - TotalLen(inner) + (tail - head)
      BY <2>0, <2>3 DEF SizeAfter
    <3> HIDE DEF head, tail, tail0
    <3>4. RangeAdds(Bytes(data), head, tail)
      BY <2>1, <2>2, BytesFinite, RangeAdded
    <3> PICK a : a = Cardinality(Bytes(data))
      OBVIOUS
    <3> PICK b : b = TotalLen(inner)
      OBVIOUS
    <3>5. Cardinality(Bytes(d)) = a + (tail - head) - b /\ a \in Nat /\ b \in Nat
      BY <3>1, <3>2, <3>4, Zenon DEF RangeAdds
    <3>6. size = a
      BY Zenon DEF IInv, SizeInv
    <3>7. size' = Cardinality(Bytes(d))
      BY <2>1, <3>3, <3>5, <3>6
    <3> QED BY <3>7 DEF SizeInv, Bytes, Covered, End
  <2>5. /\ next \in nextRxSeq .. StreamEnd
        /\ ~ Covered(data', next)
        /\ \A t \in nextRxSeq .. next - 1 : Covered(data', t)
    <3>1. InStream(data') /\ nextRxSeq \in 0 .. StreamEnd
      BY <1>0, <2>4
    <3> QED BY <3>1, FirstHoleFirst
  <2> HIDE DEF tail0, head, tail, new, next
  <2>6. Acked' = next
    BY <1>0, <2>0, <2>5 DEF Acked, Finished
  <2>7. FinInv'
    BY <1>0, <2>0, <2>5 DEF FinInv
  <2>8. DataInv'
    BY <2>4 DEF DataInv, InStream, End
  <2>9. PrefixInv'
    <3>1. Len(out) <= nextRxSeq /\ availBytes = nextRxSeq - Len(out)
      BY <1>0 DEF IInv, PrefixInv
    <3>2. \A s \in Len(out) .. nextRxSeq - 1 : Covered(data', s)
      BY <1>0, <2>4 DEF IInv, PrefixInv
    <3>3. \A s \in Len(out) .. next - 1 : Covered(data', s)
      BY <1>0, <2>5, <3>1, <3>2
    <3>4. availBytes' = next - Len(out) /\ Len(out) <= next
      BY <1>0, <2>0, <2>5, <3>1
    <3> QED BY <2>5, <2>6, <3>3, <3>4 DEF PrefixInv, Covered, End
  <2>10. WindowInv'
    BY <2>4 DEF WindowInv, End
  <2>11. InOrderDelivery'
    BY DEF IInv, InOrderDelivery
  <2>12. Acked <= Acked'
    BY <1>0, <2>5, <2>6
  <2>13. SackInv' /\ (Len(sackList) < 4 => Keeps(sackList', sackList, nextRxSeq'))
    <3> PICK d : d = data'
      OBVIOUS
    <3> PICK B : B = Honest(data, nextRxSeq)
      OBVIOUS
    <3> PICK H : H = Honest(d, nextRxSeq')
      OBVIOUS
    <3>1. sackList \in Seq(B) /\ Len(sackList) <= 4
      BY DEF IInv, SackInv
    <3>2. SackInv' <=> sackList' \in Seq(H) /\ Len(sackList') <= 4
      BY DEF SackInv, Honest, Covered, End
    <3> PICK n : n = nextRxSeq'
      OBVIOUS
    <3>3. CASE head > nextRxSeq
      <4>1. next = nextRxSeq
        <5>1. ~ Covered(data, nextRxSeq)
          BY <1>0 DEF IInv, PrefixInv
        <5>2. ~ Covered(data', nextRxSeq)
          BY <1>0, <2>1, <2>4, <3>3, <5>1
        <5> QED BY <1>0, <2>5, <5>2
      <4>2. n = nextRxSeq
        BY <1>0, <2>0, <4>1
      <4>3. B \subseteq H
        <5>1. \A s \in Nat : nextRxSeq < s /\ Covered(data, s) => Covered(d, s)
          BY <2>4
        <5> QED BY <1>0, <4>2, <5>1, HonestGrows, Zenon
      <4>4. sackList \in Seq(H)
        BY <3>1, <4>3, SeqMonotonic, Zenon
      <4>5. <<head, tail>> \in H
        <5>1. \A s \in head .. tail - 1 : Covered(d, s)
          BY <2>4
        <5> QED BY <2>1, <2>2, <3>3, <4>2, <5>1 DEF Honest, Blocks
      <4>6. sackList' = UpdateSackList(head, tail)
        BY <2>0, <3>3
      <4>7. n \in Nat
        BY <1>0, <4>2
      <4>8. /\ UpdateSackList(head, tail) \in Seq(H)
            /\ Len(UpdateSackList(head, tail)) <= 4
            /\ Len(sackList) < 4 => Tells(UpdateSackList(head, tail), sackList)
        BY <2>1, <3>1, <4>4, <4>5, <4>7, UpdateKeeps, Zenon
      <4>9. Len(sackList) < 4 => Keeps(sackList', sackList, nextRxSeq')
        BY <4>6, <4>8, Zenon DEF Tells, Keeps
      <4> QED BY <3>2, <4>6, <4>8, <4>9, Zenon
    <3>4. CASE ~ (head > nextRxSeq)
      <4>1. n = next \/ (n = next + 1 /\ next = StreamEnd)
        BY <2>0
      <4>2. ASSUME NEW b \in B, Beyond(b, next)
            PROVE  b \in H
        <5>1. /\ b[1] \in Nat /\ b[2] \in Nat /\ b[1] < b[2] /\ b[2] > next /\ b \in Blocks
              /\ \A s \in b[1] .. b[2] - 1 : Covered(data, s)
          BY <4>2 DEF Beyond, Honest, Blocks
        <5>2. \A s \in b[1] .. b[2] - 1 : Covered(d, s)
          BY <2>4, <5>1
        <5>3. next < b[1]
          <6>1. ~ Covered(d, next) /\ next \in Nat
            BY <1>0, <2>5
          <6> QED BY <5>1, <5>2, <6>1
        <5>4. n < b[1]
          <6>1. CASE n = next
            BY <5>3, <6>1
          <6>2. CASE next = StreamEnd
            <7>1. \E p \in d : b[1] < End(p)
              BY <5>1, <5>2 DEF Covered
            <7>2. \A p \in d : End(p) <= StreamEnd /\ End(p) \in Nat
              BY <2>4 DEF InStream, Packet, End
            <7> QED BY <1>0, <5>1, <5>3, <6>2, <7>1, <7>2
          <6> QED BY <4>1, <6>1, <6>2
        <5> QED BY <5>1, <5>2, <5>4 DEF Honest
      <4>3. sackList' = ClearSackList(next)
        BY <2>0, <3>4
      <4>4. /\ ClearSackList(next) \in Seq(H)
            /\ Len(ClearSackList(next)) <= Len(sackList)
            /\ \A i \in 1 .. Len(sackList) :
                  Beyond(sackList[i], next) => Has(ClearSackList(next), sackList[i])
        BY <3>1, <4>2, ClearKeeps, Zenon
      <4> PICK m : m = Len(sackList)
        OBVIOUS
      <4> PICK k : k = Len(ClearSackList(next))
        OBVIOUS
      <4>5. k \in Nat /\ m \in Nat
        BY <3>1, <4>4, LenProperties, Zenon
      <4>6. k <= m /\ m <= 4
        BY <3>1, <4>4, Zenon
      <4>7. k <= 4
        BY <4>5, <4>6
      <4>8. Keeps(sackList', sackList, nextRxSeq')
        <5> PICK q : q = sackList'
          OBVIOUS
        <5> SUFFICES ASSUME NEW s \in Nat, NEW i \in 1 .. Len(sackList),
                            sackList[i][1] <= s, s < sackList[i][2]
                     PROVE  s < n \/ Told(q, s)
          BY Zenon DEF Keeps, Told
        <5> PICK b \in B : b = sackList[i]
          BY <3>1
        <5>1. CASE Beyond(b, next)
          <6>1. Has(q, b)
            BY <4>3, <4>4, <5>1, Zenon
          <6> QED BY <6>1, Zenon DEF Has, Told
        <5>2. CASE ~ Beyond(b, next)
          <6>1. b[2] \in Nat
            BY DEF Honest, Blocks
          <6>2. s < n
            BY <1>0, <2>5, <4>1, <5>2, <6>1 DEF Beyond
          <6> QED BY <6>2, Zenon
        <5> QED BY <5>1, <5>2
      <4> QED BY <3>2, <4>3, <4>4, <4>7, <4>8, Zenon
    <3> QED BY <3>3, <3>4
  <2> QED BY <2>4a, <2>7, <2>8, <2>9, <2>10, <2>11, <2>12, <2>13 DEF IInv
<1> QED BY <1>1, <1>2

(***************************************************************************)
(* The steps                                                               *)
(***************************************************************************)
\* The fields Add assigns keep their types.
LEMMA AddTypes ==
    ASSUME IInv, ~ Finished,
           NEW first \in Nat, NEW last \in Nat, first <= last,
           last <= StreamEnd, last <= Len(out) + MaxBuffer,
           gotFin' \in BOOLEAN, finSeq' \in Nat, out' = out,
           Add(first, last)
    PROVE  Types'
<1> DEFINE tail0 == TrimTail(last)
           head  == HeadPastStored(TrimHead(first, tail0))
           tail  == TailBeforeStored(tail0)
           next  == FirstHole(data', nextRxSeq)
<1>0. /\ StreamEnd \in Nat /\ nextRxSeq \in Nat /\ nextRxSeq <= StreamEnd
      /\ InStream(data) /\ availBytes \in Int /\ out \in Seq(Nat)
  BY Position DEF IInv, Types
<1>1. CASE NothingToBuffer(head, tail)
  <2>1. UNCHANGED <<data, nextRxSeq, availBytes>>
    BY <1>1 DEF Add
  <2> QED BY <1>0, <2>1 DEF Types, InStream
<1>2. CASE ~ NothingToBuffer(head, tail)
  <2>0. /\ data' = (data \ Embedded(head, tail0)) \cup {CreateFragment(first, head, tail)}
        /\ availBytes' = availBytes + (next - nextRxSeq)
        /\ nextRxSeq' = IF gotFin' /\ next = finSeq' THEN next + 1 ELSE next
    BY <1>2 DEF Add
  <2>1. head \in Nat /\ tail \in Nat /\ tail <= last
    BY AddRange
  <2>2. head < tail
    BY <1>2, <2>1 DEF NothingToBuffer
  <2> HIDE DEF tail0, head, tail, next
  <2>3. CreateFragment(first, head, tail) = [seq |-> head, src |-> head, len |-> tail - head]
    BY <2>1 DEF CreateFragment
  <2>4. InStream(data')
    <3>1. CreateFragment(first, head, tail) \in Packet /\ End(CreateFragment(first, head, tail)) = tail
      BY <2>1, <2>2, <2>3 DEF Packet, End
    <3> QED BY <1>0, <2>0, <2>1, <3>1 DEF InStream
  <2>5. next \in nextRxSeq .. StreamEnd
    <3>1. nextRxSeq \in 0 .. StreamEnd
      BY <1>0
    <3> QED BY <2>4, <3>1, FirstHoleFirst DEF next
  <2>6. nextRxSeq' \in Nat /\ availBytes' \in Int
    BY <1>0, <2>0, <2>5
  <2> QED BY <1>0, <2>4, <2>6 DEF Types, InStream
<1> QED BY <1>1, <1>2

\* A socket that has seen the whole stream accepts no data segment.
LEMMA ReceiveDataStep ==
    ASSUME IInv, NEW seg \in Segments, ReceiveData(seg)
    PROVE  /\ IInv' /\ ~ Finished /\ Acked <= Acked'
           /\ Len(sackList) < 4 => Keeps(sackList', sackList, nextRxSeq')
<1>1. /\ Offered(seg) /\ seg[1] < seg[2] /\ ~ OutOfRange(seg[1], seg[2])
      /\ UNCHANGED <<gotFin, finSeq, out>> /\ Add(seg[1], seg[2])
  BY DEF ReceiveData
<1>2. /\ seg[1] \in Nat /\ seg[2] \in Nat /\ seg[1] <= seg[2]
      /\ seg[2] <= StreamEnd /\ seg[2] <= Len(out) + MaxBuffer
  BY <1>1, OfferedInWindow
<1>3. ~ Finished
  BY <1>1, <1>2, Position DEF OutOfRange
<1>4. gotFin' \in BOOLEAN /\ finSeq' \in Nat /\ out' = out
  BY <1>1 DEF IInv, Types
<1>5. Types'
  BY <1>1, <1>2, <1>3, <1>4, AddTypes
<1>6. /\ gotFin => gotFin'
      /\ gotFin' => finSeq' = StreamEnd
      /\ gotFin' => StreamEnd <= Len(out) + MaxBuffer
      /\ gotFin' => nextRxSeq # StreamEnd
  BY <1>1 DEF IInv, FinInv, WindowInv
<1> QED BY <1>1, <1>2, <1>3, <1>4, <1>5, <1>6, AddStep

\* The FIN, with the data it carries.
LEMMA PeerCloseStep ==
    ASSUME IInv, NEW seg \in Segments, PeerClose(seg)
    PROVE  /\ IInv' /\ ~ Finished /\ Acked <= Acked'
           /\ Len(sackList) < 4 => Keeps(sackList', sackList, nextRxSeq')
<1>1. /\ Offered(seg) /\ seg[2] = StreamEnd
      /\ nextRxSeq <= seg[1]
      /\ gotFin' = TRUE /\ finSeq' = StreamEnd /\ out' = out
  BY DEF PeerClose, FinSequence
<1>2. /\ seg[1] \in Nat /\ seg[2] \in Nat /\ seg[1] <= seg[2]
      /\ seg[2] <= StreamEnd /\ seg[2] <= Len(out) + MaxBuffer
  BY <1>1, OfferedInWindow
<1>3. StreamEnd \in Nat /\ nextRxSeq \in Nat /\ Len(out) \in Nat
  BY Position DEF IInv, Types
<1>4. ~ Finished /\ Acked = nextRxSeq
  BY <1>1, <1>2, <1>3, Position
<1>5. CASE seg[1] < seg[2] /\ Add(seg[1], seg[2])
  <2>1. gotFin' \in BOOLEAN /\ finSeq' \in Nat
    BY <1>1, <1>3
  <2>2. Types'
    BY <1>1, <1>2, <1>4, <1>5, <2>1, AddTypes
  <2>3. nextRxSeq # StreamEnd /\ StreamEnd <= Len(out) + MaxBuffer
    BY <1>1, <1>2, <1>3, <1>5
  <2> QED BY <1>1, <1>2, <1>4, <1>5, <2>2, <2>3, AddStep
<1>6. CASE /\ seg[1] = seg[2]
           /\ nextRxSeq' = IF nextRxSeq = seg[2] THEN nextRxSeq + 1 ELSE nextRxSeq
           /\ UNCHANGED <<data, size, availBytes, sackList>>
  <2>1. Types'
    BY <1>1, <1>3, <1>6 DEF IInv, Types
  <2>2. FinInv'
    BY <1>1, <1>2, <1>3, <1>6 DEF FinInv
  <2>3. Acked' = Acked
    BY <1>1, <1>2, <1>3, <1>4, <1>6 DEF Acked, Finished
  <2>4. DataInv' /\ PrefixInv'
    BY <1>1, <1>6, <2>3 DEF IInv, DataInv, PrefixInv, Covered, End
  <2>5. WindowInv'
    BY <1>1, <1>2, <1>6 DEF IInv, WindowInv, End
  <2>6. InOrderDelivery'
    BY <1>1 DEF IInv, InOrderDelivery
  <2>7. SackInv'
    <3>1. \A b \in Honest(data, nextRxSeq) : b[1] < StreamEnd
      <4> TAKE b \in Honest(data, nextRxSeq)
      <4>1. b[1] \in Nat /\ \E p \in data : b[1] < End(p)
        BY DEF Honest, Blocks, Covered
      <4>2. \A p \in data : End(p) <= StreamEnd /\ End(p) \in Nat
        BY DEF IInv, Types, DataInv, Packet, End
      <4> QED BY <1>3, <4>1, <4>2
    <3>2. Honest(data, nextRxSeq) \subseteq Honest(data, nextRxSeq')
      BY <1>1, <1>3, <1>6, <3>1 DEF Honest, Blocks
    <3>3. sackList \in Seq(Honest(data, nextRxSeq')) /\ Len(sackList) <= 4
      BY <3>2, SeqMonotonic, Zenon DEF IInv, SackInv
    <3> QED BY <1>6, <3>3, Zenon DEF SackInv, Honest, Covered, End
  <2>8. SizeInv'
    BY <1>6, Zenon DEF IInv, SizeInv, Bytes, Covered, End
  <2>9. Keeps(sackList', sackList, nextRxSeq')
    BY <1>6, Zenon DEF Keeps, Told
  <2> QED BY <1>3, <1>4, <2>1, <2>2, <2>3, <2>4, <2>5, <2>6, <2>7, <2>8, <2>9 DEF IInv
<1> QED BY <1>4, <1>5, <1>6 DEF PeerClose

\* What is left after reading up to cut: the packets beyond it, and the rest of
\* the one it falls into.
LEMMA ExtractData ==
    ASSUME IInv, NEW cut \in Nat, Len(out) <= cut,
           NEW whole, whole = {p \in data : End(p) <= cut},
           NEW part, part = {p \in data : p.seq < cut /\ cut < End(p)},
           NEW d, d = (data \ (whole \cup part)) \cup Rest(part, cut)
    PROVE  /\ d \subseteq Packet
           /\ \A r \in d : r.src = r.seq /\ cut <= r.seq
           /\ \A r \in d : \E p \in data : End(r) = End(p)
           /\ \A p, q \in d : p = q \/ End(p) <= q.seq \/ End(q) <= p.seq
           /\ \A s \in Nat : cut <= s => (Covered(d, s) <=> Covered(data, s))
<1>1. \A p \in data : /\ p \in Packet /\ p.seq \in Nat /\ p.src = p.seq
                     /\ End(p) \in Nat /\ p.seq < End(p)
  BY DEF IInv, Types, DataInv, Packet, End
<1>2. \A r \in Rest(part, cut) :
         /\ r \in Packet /\ r.seq = cut /\ r.src = cut
         /\ \E p \in part : End(r) = End(p) /\ r = [seq |-> cut, src |-> cut, len |-> End(p) - cut]
  <2> TAKE r \in Rest(part, cut)
  <2>1. PICK p \in part : r = [seq |-> cut, src |-> p.src + (cut - p.seq), len |-> End(p) - cut]
    BY DEF Rest
  <2>2. /\ p.src + (cut - p.seq) = cut /\ End(p) - cut \in Nat \ {0}
    BY <1>1
  <2>3. r.seq = cut /\ r.src = cut /\ r.len = End(p) - cut /\ End(r) = End(p)
    BY <1>1, <2>1, <2>2 DEF End
  <2>4. r \in Packet
    BY <2>1, <2>2 DEF Packet
  <2> QED BY <2>1, <2>2, <2>3, <2>4
<1>3. \A p \in data \ (whole \cup part) : cut <= p.seq /\ cut < End(p)
  BY <1>1
<1>4. \A p, q \in data : p = q \/ End(p) <= q.seq \/ End(q) <= p.seq
  BY DEF IInv, DataInv
<1>5. \A p, q \in part : p = q
  BY <1>1, <1>4
<1>6. ASSUME NEW r \in Rest(part, cut), NEW q \in data \ (whole \cup part)
      PROVE  End(r) <= q.seq
  <2>1. PICK p \in part : End(r) = End(p)
    BY <1>2
  <2>2. p # q /\ p \in data
    OBVIOUS
  <2>3. End(p) <= q.seq \/ End(q) <= p.seq
    BY <1>4, <2>2
  <2> QED BY <1>1, <1>3, <2>1, <2>2, <2>3
<1>7. \A p, q \in Rest(part, cut) : p = q
  BY <1>2, <1>5
<1>8. \A p, q \in d : p = q \/ End(p) <= q.seq \/ End(q) <= p.seq
  BY <1>4, <1>6, <1>7
<1>9. ASSUME NEW s \in Nat, cut <= s, Covered(data, s)
      PROVE  Covered(d, s)
  <2>1. PICK p \in data : p.seq <= s /\ s < End(p)
    BY <1>9 DEF Covered
  <2>2. CASE p \in part
    <3> DEFINE r == [seq |-> cut, src |-> p.src + (cut - p.seq), len |-> End(p) - cut]
    <3>1. r \in Rest(part, cut)
      BY <2>2 DEF Rest
    <3>2. r.seq = cut /\ End(r) = End(p)
      BY <1>1 DEF End
    <3> QED BY <1>9, <2>1, <3>1, <3>2 DEF Covered
  <2>3. CASE p \notin part
    <3>1. p \notin whole
      BY <1>1, <1>9, <2>1
    <3> QED BY <2>1, <2>3, <3>1 DEF Covered
  <2> QED BY <2>2, <2>3
<1>10. ASSUME NEW s \in Nat, cut <= s, Covered(d, s)
       PROVE  Covered(data, s)
  <2>1. PICK r \in d : r.seq <= s /\ s < End(r)
    BY <1>10 DEF Covered
  <2>2. CASE r \in Rest(part, cut)
    <3>1. PICK p \in part : End(r) = End(p)
      BY <1>2, <2>2
    <3> QED BY <1>1, <1>10, <2>1, <3>1 DEF Covered
  <2> QED BY <2>1, <2>2 DEF Covered
<1>11. d \subseteq Packet
  BY <1>1, <1>2
<1>12. \A r \in d : r.src = r.seq /\ cut <= r.seq
  BY <1>1, <1>2, <1>3
<1>13. \A r \in d : \E p \in data : End(r) = End(p)
  BY <1>2
<1> HIDE DEF Rest
<1> QED BY <1>8, <1>9, <1>10, <1>11, <1>12, <1>13

\* A byte that can be read is the stream's byte of its number.
LEMMA ByteAtIs ==
    ASSUME IInv, NEW s \in Len(out) .. Acked - 1
    PROVE  ByteAt(data, s) = s
<1>1. s \in Nat
  BY Position
<1>2. \E p \in data : p.seq <= s /\ s < End(p)
  BY DEF IInv, PrefixInv, Covered
<1> DEFINE q == CHOOSE p \in data : p.seq <= s /\ s < End(p)
<1>3. q \in data
  BY <1>2
<1>4. q.src = q.seq /\ q.seq \in Nat
  BY <1>3 DEF IInv, DataInv, Types, Packet
<1> HIDE DEF q
<1>5. q.src + (s - q.seq) = s
  BY <1>1, <1>4
<1> QED BY <1>5 DEF ByteAt, q

\* Recv returns the next bytes of the stream.
LEMMA ExtractStep ==
    ASSUME IInv, NEW maxSize \in RecvSizes, Extract(maxSize)
    PROVE  /\ IInv' /\ Len(out) <= Len(out')
           /\ Acked' = Acked /\ Finished' = Finished
           /\ \E m \in 1 .. StreamEnd :
                 /\ m <= Acked - Len(out)
                 /\ out' = out \o [k \in 1 .. m |-> Len(out) + (k - 1)]
<1> DEFINE n     == Smaller(maxSize, availBytes)
           begin == BeginSeq(data)
           cut   == begin + n
           whole == {p \in data : End(p) <= cut}
           part  == {p \in data : p.seq < cut /\ cut < End(p)}
           read  == [k \in 1 .. n |-> ByteAt(data, begin + (k - 1))]
<1>0. /\ n > 0
      /\ data' = (data \ (whole \cup part)) \cup Rest(part, cut)
      /\ size' = size - n
      /\ availBytes' = availBytes - n
      /\ out' = out \o read
      /\ UNCHANGED <<nextRxSeq, gotFin, finSeq, sackList>>
  BY DEF Extract
<1>1. /\ StreamEnd \in Nat /\ MaxBuffer \in Nat \ {0} /\ Len(out) \in Nat
      /\ Acked \in Nat /\ Acked <= StreamEnd /\ out \in Seq(Nat)
      /\ availBytes = Acked - Len(out) /\ Len(out) <= Acked
  BY Position DEF IInv, PrefixInv, Types
<1>2. n \in Nat \ {0} /\ n <= availBytes
  <2>1. maxSize \in Nat \ {0}
    BY RxConstants
  <2> QED BY <1>0, <1>1, <2>1 DEF Smaller
<1>3. begin = Len(out)
  <2>1. Len(out) < Acked
    BY <1>1, <1>2
  <2> QED BY <2>1, UnreadFirst
<1>4. cut \in Nat /\ Len(out) <= cut /\ cut <= Acked /\ cut = Len(out) + n
  BY <1>1, <1>2, <1>3
<1>5. \A k \in 1 .. n : ByteAt(data, begin + (k - 1)) = begin + (k - 1)
  <2> TAKE k \in 1 .. n
  <2>1. begin + (k - 1) \in Len(out) .. Acked - 1
    BY <1>1, <1>2, <1>3, <1>4
  <2> HIDE DEF begin
  <2> QED BY <2>1, ByteAtIs
<1>6. /\ data' \subseteq Packet
      /\ \A r \in data' : r.src = r.seq /\ cut <= r.seq
      /\ \A r \in data' : \E p \in data : End(r) = End(p)
      /\ \A p, q \in data' : p = q \/ End(p) <= q.seq \/ End(q) <= p.seq
      /\ \A s \in Nat : cut <= s => (Covered(data', s) <=> Covered(data, s))
  <2> DEFINE d == (data \ (whole \cup part)) \cup Rest(part, cut)
  <2>1. data' = d
    BY <1>0
  <2>2. /\ d \subseteq Packet
        /\ \A r \in d : r.src = r.seq /\ cut <= r.seq
        /\ \A r \in d : \E p \in data : End(r) = End(p)
        /\ \A p, q \in d : p = q \/ End(p) <= q.seq \/ End(q) <= p.seq
        /\ \A s \in Nat : cut <= s => (Covered(d, s) <=> Covered(data, s))
    <3> HIDE DEF cut
    <3> QED BY <1>4, ExtractData
  <2> HIDE DEF d
  <2> QED BY <2>1, <2>2
<1>7. read \in Seq(Nat) /\ Len(read) = n
  <2>1. \A k \in 1 .. n : ByteAt(data, begin + (k - 1)) \in Nat
    BY <1>1, <1>2, <1>3, <1>5
  <2> HIDE DEF n, begin
  <2> QED BY <1>2, <2>1
<1> HIDE DEF n, cut, read
<1>8. /\ out' \in Seq(Nat) /\ Len(out') = cut
      /\ \A k \in 1 .. Len(out) : out'[k] = out[k]
      /\ \A k \in 1 .. n : out'[Len(out) + k] = read[k]
  <2>1. out' = out \o read
    BY <1>0
  <2>2. out \o read \in Seq(Nat) /\ Len(out \o read) = Len(out) + Len(read)
    BY <1>1, <1>7, ConcatProperties
  <2>3. \A k \in 1 .. Len(out) : (out \o read)[k] = out[k]
    BY <1>1, <1>7
  <2>4. \A k \in 1 .. n : (out \o read)[Len(out) + k] = read[k]
    BY <1>1, <1>2, <1>7
  <2> QED BY <1>4, <1>7, <2>1, <2>2, <2>3, <2>4
<1>9. \A k \in 1 .. n : read[k] = Len(out) + (k - 1)
  BY <1>3, <1>5 DEF read
<1>10. InOrderDelivery'
  <2> SUFFICES ASSUME NEW k \in 1 .. cut
               PROVE  out'[k] = k - 1
    BY <1>8 DEF InOrderDelivery
  <2>1. CASE k <= Len(out)
    BY <1>1, <1>8, <2>1 DEF IInv, InOrderDelivery
  <2>2. CASE k > Len(out)
    <3>1. k - Len(out) \in 1 .. n /\ k = Len(out) + (k - Len(out))
      BY <1>1, <1>2, <1>4, <2>2
    <3>2. out'[k] = Len(out) + ((k - Len(out)) - 1)
      BY <1>8, <1>9, <3>1
    <3> QED BY <1>1, <3>2
  <2> QED BY <1>1, <1>4, <2>1, <2>2
<1>11. Types' /\ FinInv'
  BY <1>0, <1>1, <1>2, <1>6, <1>8 DEF IInv, Types, FinInv
<1>12. Acked' = Acked
  BY <1>0 DEF Acked, Finished
<1>13. DataInv'
  BY <1>6, <1>8 DEF IInv, DataInv, End
<1>14. PrefixInv'
  <2>1. \A s \in cut .. Acked - 1 : Covered(data', s)
    BY <1>1, <1>4, <1>6 DEF IInv, PrefixInv
  <2>2. ~ Covered(data', Acked)
    BY <1>1, <1>4, <1>6 DEF IInv, PrefixInv
  <2>3. availBytes' = Acked - cut
    BY <1>0, <1>1, <1>2, <1>4
  <2> QED BY <1>4, <1>8, <1>12, <2>1, <2>2, <2>3 DEF PrefixInv, Covered, End
<1>15. WindowInv'
  <2>1. \A r \in data' : End(r) <= cut + MaxBuffer
    <3> SUFFICES ASSUME NEW r \in data'
                 PROVE  End(r) <= cut + MaxBuffer
      OBVIOUS
    <3>1. PICK p \in data : End(r) = End(p)
      BY <1>6
    <3>2. End(p) <= Len(out) + MaxBuffer /\ End(p) \in Int
      BY DEF IInv, WindowInv, Types, Packet, End
    <3> QED BY <1>1, <1>4, <3>1, <3>2
  <2>2. gotFin' => StreamEnd <= cut + MaxBuffer
    BY <1>0, <1>1, <1>4 DEF IInv, WindowInv
  <2> QED BY <1>8, <2>1, <2>2 DEF WindowInv, End
<1>16. /\ n \in 1 .. StreamEnd /\ n <= Acked - Len(out)
       /\ out' = out \o [k \in 1 .. n |-> Len(out) + (k - 1)]
  <2>1. read = [k \in 1 .. n |-> Len(out) + (k - 1)]
    BY <1>3, <1>5 DEF read
  <2> QED BY <1>0, <1>1, <1>2, <2>1
<1>17. Finished' = Finished
  BY <1>0 DEF Finished
<1>18. SackInv'
  <2> PICK d : d = data'
    OBVIOUS
  <2>1. nextRxSeq \in Nat /\ Acked <= nextRxSeq
    BY <1>1 DEF IInv, Types, Acked
  <2>2. \A s \in Nat : nextRxSeq < s /\ Covered(data, s) => Covered(d, s)
    BY <1>1, <1>4, <1>6, <2>1
  <2>3. Honest(data, nextRxSeq) \subseteq Honest(d, nextRxSeq)
    BY <2>1, <2>2, HonestGrows, Zenon
  <2>4. sackList \in Seq(Honest(d, nextRxSeq)) /\ Len(sackList) <= 4
    BY <2>3, SeqMonotonic, Zenon DEF IInv, SackInv
  <2>5. nextRxSeq' = nextRxSeq /\ sackList' = sackList
    BY <1>0
  <2> QED BY <2>4, <2>5, Zenon DEF SackInv, Honest, Covered, End
<1>19. SizeInv'
  <2> PICK d : d = data'
    OBVIOUS
  <2>1. \A s \in Nat : Covered(d, s) => cut <= s
    BY <1>4, <1>6 DEF Covered, Packet
  <2>2. Bytes(data) = Bytes(d) \cup (Len(out) .. cut - 1)
    <3>1. \A s \in 0 .. StreamEnd - 1 :
             Covered(data, s) <=> Covered(d, s) \/ s \in Len(out) .. cut - 1
      <4> TAKE s \in 0 .. StreamEnd - 1
      <4>1. CASE cut <= s
        BY <1>1, <1>4, <1>6, <4>1
      <4>2. CASE s \in Len(out) .. cut - 1
        BY <1>1, <1>4, <4>2 DEF IInv, PrefixInv
      <4>3. CASE s < Len(out)
        <5>1. ~ Covered(data, s)
          BY <1>1, <4>3 DEF Covered, IInv, DataInv, Types, Packet
        <5> QED BY <1>1, <1>4, <2>1, <4>3, <5>1
      <4> QED BY <1>1, <1>4, <4>1, <4>2, <4>3
    <3>2. Len(out) .. cut - 1 \subseteq 0 .. StreamEnd - 1
      BY <1>1, <1>4
    <3> PICK R : R = Len(out) .. cut - 1
      OBVIOUS
    <3> QED BY <3>1, <3>2, Zenon DEF Bytes
  <2>3. Bytes(d) \cap (Len(out) .. cut - 1) = {}
    BY <1>1, <1>4, <2>1 DEF Bytes
  <2>4. RangeAdds(Bytes(d), Len(out), cut)
    BY <1>1, <1>4, BytesFinite, RangeAdded
  <2> PICK a : a = Cardinality(Bytes(d))
    OBVIOUS
  <2> PICK m : m = Len(out)
    OBVIOUS
  <2>5. Cardinality(Bytes(data)) = a + (cut - m) - 0 /\ a \in Nat
    BY <2>2, <2>3, <2>4, FS_EmptySet, Zenon DEF RangeAdds
  <2>6. size = Cardinality(Bytes(data))
    BY Zenon DEF IInv, SizeInv
  <2>7. size' = size - n /\ cut = m + n /\ m \in Nat
    BY <1>0, <1>1, <1>4
  <2> PICK c : c = Cardinality(Bytes(data))
    OBVIOUS
  <2>8. c = a + (cut - m) - 0 /\ size' = c - n
    BY <2>5, <2>6, <2>7, Zenon
  <2>9. size' = a
    BY <1>2, <2>5, <2>7, <2>8
  <2>10. size' = Cardinality(Bytes(d))
    BY <2>9, Zenon
  <2> QED BY <2>10 DEF SizeInv, Bytes, Covered, End
<1> QED BY <1>4, <1>8, <1>10, <1>11, <1>12, <1>13, <1>14, <1>15, <1>16, <1>17, <1>18, <1>19 DEF IInv

\* What was received in order and not read fits the window.
LEMMA AckedInWindow ==
    ASSUME IInv
    PROVE  /\ Acked \in Nat /\ Acked <= StreamEnd
           /\ Finished => Acked = StreamEnd
           /\ Acked <= Len(out) + MaxBuffer
<1>1. /\ StreamEnd \in Nat /\ MaxBuffer \in Nat /\ Len(out) \in Nat
      /\ Acked \in Nat /\ Acked <= StreamEnd
      /\ Finished => nextRxSeq = StreamEnd + 1
  BY Position
<1>2. Finished => Acked = StreamEnd
  BY <1>1 DEF Acked
<1>3. ASSUME Len(out) < Acked
      PROVE  Acked <= Len(out) + MaxBuffer
  <2>1. Covered(data, Acked - 1)
    BY <1>1, <1>3 DEF IInv, PrefixInv
  <2>2. PICK p \in data : Acked - 1 < End(p)
    BY <2>1 DEF Covered
  <2>3. End(p) \in Nat /\ End(p) <= Len(out) + MaxBuffer
    BY DEF IInv, WindowInv, Types, Packet, End
  <2> QED BY <1>1, <2>2, <2>3
<1>4. Len(out) <= Acked
  BY DEF IInv, PrefixInv
<1> QED BY <1>1, <1>2, <1>3, <1>4

\* The invariant holds initially and is kept by every step.
THEOREM Inductive == Spec => []IInv
<1>1. Init => IInv
  <2> SUFFICES ASSUME Init PROVE IInv
    OBVIOUS
  <2>1. StreamEnd \in Nat /\ MaxBuffer \in Nat
    BY RxConstants
  <2>2. Len(out) = 0 /\ out \in Seq(Nat)
    BY DEF Init
  <2>3. data = {} /\ ~ gotFin /\ nextRxSeq = 0 /\ availBytes = 0
    BY DEF Init
  <2>4. Acked = 0
    BY <2>3 DEF Acked, Finished
  <2>5. gotFin \in BOOLEAN /\ finSeq \in Nat
    BY DEF Init
  <2>6. Types
    BY <2>2, <2>3, <2>5 DEF Types
  <2>7. FinInv
    BY <2>1, <2>3 DEF FinInv
  <2>8. DataInv /\ PrefixInv /\ WindowInv /\ InOrderDelivery
    BY <2>2, <2>3, <2>4 DEF DataInv, PrefixInv, WindowInv, InOrderDelivery, Covered
  <2>9. SackInv
    <3>1. sackList = <<>>
      BY DEF Init
    <3>2. <<>> \in Seq(Honest(data, nextRxSeq)) /\ Len(<<>>) = 0
      BY EmptySeq, Zenon
    <3>3. 0 <= 4
      OBVIOUS
    <3> QED BY <3>1, <3>2, <3>3, Zenon DEF SackInv
  <2>10. SizeInv
    <3>1. Bytes(data) = {}
      BY <2>3 DEF Bytes, Covered
    <3>2. size = 0
      BY DEF Init
    <3> QED BY <3>1, <3>2, FS_EmptySet, Zenon DEF SizeInv
  <2> QED BY <2>6, <2>7, <2>8, <2>9, <2>10 DEF IInv
<1>2. IInv /\ [Next]_vars => IInv'
  <2> SUFFICES ASSUME IInv, [Next]_vars PROVE IInv'
    OBVIOUS
  <2>1. ASSUME NEW seg \in Segments, ReceiveData(seg) PROVE IInv'
    BY <2>1, ReceiveDataStep
  <2>2. ASSUME NEW seg \in Segments, PeerClose(seg) PROVE IInv'
    BY <2>2, PeerCloseStep
  <2>3. ASSUME NEW n \in RecvSizes, Extract(n) PROVE IInv'
    BY <2>3, ExtractStep
  <2>4. CASE UNCHANGED vars
    BY <2>4 DEF vars, IInv, Types, FinInv, DataInv, PrefixInv, WindowInv,
                InOrderDelivery, SackInv, SizeInv, Bytes, Honest, Covered, End, Acked, Finished
  <2> QED BY <2>1, <2>2, <2>3, <2>4 DEF Next
<1> QED BY <1>1, <1>2, PTL DEF Spec

\* The fields of TcpRxBuffer keep their ranges, m_availBytes, which Extract
\* decrements, among them.
THEOREM TypeCorrect == Spec => []TypeOK
<1>1. IInv => TypeOK
  <2> SUFFICES ASSUME IInv PROVE TypeOK
    OBVIOUS
  <2>1. Len(out) \in Nat /\ Acked \in Nat /\ StreamEnd \in Nat
    BY Position
  <2>2. availBytes \in Nat
    BY <2>1 DEF IInv, PrefixInv
  <2>3. nextRxSeq \in 0 .. StreamEnd + 1
    BY <2>1 DEF IInv, Types, FinInv
  <2> QED BY <2>2, <2>3 DEF IInv, Types, TypeOK
<1> QED BY <1>1, Inductive, PTL

\* Recv returns the peer's stream, in order and each byte once, for every
\* buffer size, every cut of the stream into segments and every read size.
THEOREM DeliversInOrder == Spec => []InOrderDelivery
<1>1. IInv => InOrderDelivery
  BY DEF IInv
<1> QED BY <1>1, Inductive, PTL

\* What TcpRxBuffer has acknowledged it hands over or still holds.
THEOREM KeepsAcked == Spec => []AckedIsKept
<1>1. IInv => AckedIsKept
  <2> SUFFICES ASSUME IInv PROVE AckedIsKept
    OBVIOUS
  <2>0. Len(out) \in Nat /\ Acked \in Nat
    BY Position
  <2>1. \A p \in data : p.seq \in Nat /\ End(p) \in Nat /\ Len(out) <= p.seq
    BY DEF IInv, Types, DataInv, Packet, End
  <2>2. \A s \in Nat : s \in Held <=> Covered(data, s)
    BY <2>1 DEF Held, Covered
  <2>3. \A s \in Held : s \in Nat /\ s >= Len(out)
    BY <2>0, <2>1 DEF Held
  <2>4. Acked \notin Held
    BY <2>0, <2>2 DEF IInv, PrefixInv
  <2>5. \A s \in 0 .. Acked - 1 : s < Len(out) <=> s \notin Held
    BY <2>0, <2>2, <2>3 DEF IInv, PrefixInv
  <2> QED BY <2>3, <2>4, <2>5 DEF AckedIsKept
<1> QED BY <1>1, Inductive, PTL

\* Every block of GetSackList is stored beyond the next number expected, however the
\* blocks were merged, cleared and pushed out, and there are at most four.
THEOREM SackIsHonest == Spec => []SackHonest
<1>1. IInv => SackHonest
  <2> SUFFICES ASSUME IInv PROVE SackHonest
    OBVIOUS
  <2>1. sackList \in Seq(Honest(data, nextRxSeq)) /\ Len(sackList) <= 4
    BY DEF IInv, SackInv
  <2>2. \A s \in Nat : s \in Held <=> Covered(data, s)
    <3>1. \A p \in data : p.seq \in Nat /\ End(p) \in Nat
      BY DEF IInv, Types, Packet, End
    <3> QED BY <3>1 DEF Held, Covered
  <2>3. ASSUME NEW i \in 1 .. Len(sackList), NEW b, b = sackList[i]
        PROVE  b[1] < b[2] /\ b[1] > nextRxSeq /\ b[1] .. b[2] - 1 \subseteq Held
    <3>1. b \in Honest(data, nextRxSeq)
      BY <2>1, <2>3, ElementOfSeq, Zenon
    <3>2. /\ b[1] \in Nat /\ b[2] \in Nat /\ b[1] < b[2] /\ nextRxSeq < b[1]
          /\ \A s \in b[1] .. b[2] - 1 : Covered(data, s)
      BY <3>1 DEF Honest, Blocks
    <3> QED BY <2>2, <3>2
  <2> QED BY <2>1, <2>3 DEF SackHonest
<1> QED BY <1>1, Inductive, PTL

\* Through merges, re-cut retransmissions and ClearSackList, a byte reported to the
\* peer stays reported until it is received in order or a fifth block pushes it out.
THEOREM NothingWithdrawn == Spec => SackNotWithdrawn
<1> DEFINE Kept == Len(sackList) < 4 => \A s \in Reported : s < nextRxSeq' \/ s \in Reported'
<1>1. ASSUME IInv, IInv', [Next]_vars
      PROVE  Kept
  <2>1. Len(sackList) < 4 => Keeps(sackList', sackList, nextRxSeq')
    <3>1. ASSUME NEW seg \in Segments, ReceiveData(seg)
          PROVE  Len(sackList) < 4 => Keeps(sackList', sackList, nextRxSeq')
      BY <1>1, <3>1, ReceiveDataStep, Zenon
    <3>2. ASSUME NEW seg \in Segments, PeerClose(seg)
          PROVE  Len(sackList) < 4 => Keeps(sackList', sackList, nextRxSeq')
      BY <1>1, <3>2, PeerCloseStep, Zenon
    <3>3. ASSUME NEW n \in RecvSizes, Extract(n)
          PROVE  Keeps(sackList', sackList, nextRxSeq')
      <4>1. UNCHANGED sackList
        BY <3>3 DEF Extract
      <4> QED BY <4>1, Zenon DEF Keeps, Told
    <3>4. CASE UNCHANGED vars
      <4>1. UNCHANGED sackList
        BY <3>4 DEF vars
      <4> QED BY <4>1, Zenon DEF Keeps, Told
    <3> QED BY <1>1, <3>1, <3>2, <3>3, <3>4 DEF Next
  <2>2. \A s : s \in Reported <=> s \in Nat /\ Told(sackList, s)
    <3> PICK l \in Seq(Honest(data, nextRxSeq)) : l = sackList
      BY <1>1 DEF IInv, SackInv
    <3>1. Reported = BlockBytes(l)
      BY Zenon DEF Reported, BlockBytes
    <3> QED BY <3>1, BlockBytesTold, Zenon
  <2>3. \A s : s \in Reported' <=> s \in Nat /\ Told(sackList', s)
    <3> PICK l \in Seq(Honest(data', nextRxSeq')) : l = sackList'
      BY <1>1 DEF IInv, SackInv, Honest, Covered, End
    <3>1. Reported' = BlockBytes(l)
      BY Zenon DEF Reported, BlockBytes
    <3> QED BY <3>1, BlockBytesTold, Zenon
  <2> HIDE DEF IInv
  <2> QED BY <2>1, <2>2, <2>3, Zenon DEF Keeps
<1>2. IInv /\ IInv' /\ [Next]_vars => [Kept]_vars
  <2> HIDE DEF Kept
  <2> QED BY <1>1
<1> QED BY <1>2, Inductive, PTL DEF Spec, SackNotWithdrawn

\* m_size and m_availBytes, which Add and Extract keep up by increments, agree with the
\* packets stored, whatever was trimmed, dropped, replaced and read in part: m_size is
\* what their sizes add up to and counts each byte held once.
THEOREM AccountsAgree == Spec => []Accounting
<1>1. IInv => Accounting
  <2> SUFFICES ASSUME IInv PROVE Accounting
    OBVIOUS
  <2>1. Held = Bytes(data)
    <3>1. StreamEnd \in Nat /\ \A p \in data : p.seq \in Nat /\ End(p) \in Nat /\ End(p) <= StreamEnd
      BY RxConstants DEF IInv, Types, DataInv, Packet, End
    <3> QED BY <3>1 DEF Held, Bytes, Covered
  <2>2. TotalLen(data) = Cardinality(Bytes(data))
    <3>1. InStream(data) /\ Disjoint(data)
      BY Position DEF IInv, DataInv, Disjoint
    <3> QED BY <3>1, TotalIsBytes, Zenon
  <2>3. size = Cardinality(Bytes(data))
    BY Zenon DEF IInv, SizeInv
  <2>4. availBytes = Acked - Len(out)
    BY DEF IInv, PrefixInv
  <2> QED BY <2>1, <2>2, <2>3, <2>4, Zenon DEF Accounting
<1> QED BY <1>1, Inductive, PTL

\* The range Add computes for a segment that is not out of range has the ends the two
\* loops look for.
LEMMA AddEnds ==
    ASSUME IInv, ~ Finished,
           NEW first \in Nat, NEW last \in Nat, last <= StreamEnd, first <= last,
           NEW tail0, tail0 = TrimTail(last),
           NEW head0, head0 = TrimHead(first, tail0),
           NEW head, head = HeadPastStored(head0),
           NEW tail, tail = TailBeforeStored(tail0)
    PROVE  /\ Ends(head0, tail0, head, tail)
           /\ head < tail => nextRxSeq <= head
           /\ tail0 <= StreamEnd
<1>0. StreamEnd \in Nat /\ InStream(data) /\ nextRxSeq \in Nat /\ nextRxSeq <= StreamEnd
  BY Position DEF IInv, Types
<1>1. /\ head \in Nat /\ tail \in Nat /\ tail0 \in Nat
      /\ head < tail => nextRxSeq <= head
      /\ tail <= tail0 /\ tail0 <= last
      /\ ~ Covered(data, head)
      /\ \A p \in data : p.seq < tail0 /\ tail0 <= End(p) => tail = p.seq
      /\ tail = tail0 \/ \E q \in data : tail = q.seq /\ q.seq < tail0 /\ tail0 <= End(q)
  <2>1. head = HeadPastStored(TrimHead(first, tail0))
    BY Zenon
  <2> QED BY <2>1, AddRange
<1>2. head0 \in 0 .. StreamEnd
  BY <1>0, <1>1 DEF TrimHead, Larger
<1>3. head \in head0 .. StreamEnd /\ \A t \in head0 .. head - 1 : Covered(data, t)
  BY <1>0, <1>2, FirstHoleFirst DEF HeadPastStored
<1>4. Ends(head0, tail0, head, tail)
  BY <1>1, <1>2, <1>3 DEF Ends
<1> QED BY <1>0, <1>1, <1>4

\* What Add stores and keeps is disjoint, and none of it straddles m_nextRxSeq.
LEMMA AddApart ==
    ASSUME IInv, ~ Finished, NEW first \in Nat, NEW head0, NEW tail0, NEW head, NEW tail,
           Ends(head0, tail0, head, tail), head < tail, nextRxSeq <= head, tail0 <= StreamEnd,
           NEW d, d = (data \ Embedded(head, tail0)) \cup {CreateFragment(first, head, tail)}
    PROVE  /\ InStream(d) /\ Disjoint(d)
           /\ \A p \in d : p.seq < nextRxSeq => End(p) <= nextRxSeq
<1>0. /\ StreamEnd \in Nat /\ InStream(data) /\ nextRxSeq \in Nat /\ Acked = nextRxSeq
      /\ head \in Nat /\ tail \in Nat /\ tail0 \in Nat /\ tail <= tail0
  BY Position DEF IInv, Types, Ends
<1> PICK new : new = CreateFragment(first, head, tail)
  OBVIOUS
<1>1. new \in Packet /\ new.seq = head /\ End(new) = tail
  BY <1>0 DEF CreateFragment, Packet, End
<1>2. \A p \in data : p.seq \in Nat /\ End(p) \in Nat /\ p.seq < End(p)
  BY <1>0 DEF InStream, Packet, End
<1>3. InStream(d)
  BY <1>0, <1>1 DEF InStream
<1>4. \A p \in data \ Embedded(head, tail0) : End(p) <= head \/ tail <= p.seq
  BY <1>0, KeptApart DEF Ends
<1>5. Disjoint(d)
  BY <1>1, <1>4 DEF IInv, DataInv, Disjoint
<1>6. \A p \in data : p.seq < nextRxSeq => End(p) <= nextRxSeq
  BY <1>0, <1>2 DEF IInv, PrefixInv, Covered
<1>7. \A p \in d : p.seq < nextRxSeq => End(p) <= nextRxSeq
  BY <1>0, <1>1, <1>6
<1> QED BY <1>3, <1>5, <1>7

\* The two loops of TcpRxBuffer::Add and the loop of TcpRxBuffer::Extract, turn by turn
\* over m_data, leave what the actions say, however the packets held overlap the segment
\* and wherever the read stops.
THEOREM LoopsAreAsWritten == Spec => []LoopsAgree
<1>1. IInv => AddIsTheLoop
  <2> SUFFICES ASSUME IInv, NEW seg \in Segments, seg[1] < seg[2], ~ OutOfRange(seg[1], seg[2])
               PROVE  LET tail0 == TrimTail(seg[2])
                          head0 == TrimHead(seg[1], tail0)
                          loop  == OverlapLoop(head0, tail0)
                          head  == HeadPastStored(head0)
                          tail  == TailBeforeStored(tail0)
                          d     == loop.kept \cup {CreateFragment(seg[1], head, tail)}
                      IN  /\ loop.head >= loop.tail <=> head >= tail
                          /\ head < tail => /\ loop = [head |-> head, tail |-> tail,
                                                       kept |-> data \ Embedded(head, tail0)]
                                            /\ AdvanceLoop(d) = FirstHole(d, nextRxSeq)
                          /\ head >= tail => loop.kept = data
    BY Zenon DEF AddIsTheLoop
  <2> DEFINE tail0 == TrimTail(seg[2])
             head0 == TrimHead(seg[1], tail0)
             loop  == OverlapLoop(head0, tail0)
             head  == HeadPastStored(head0)
             tail  == TailBeforeStored(tail0)
             d     == loop.kept \cup {CreateFragment(seg[1], head, tail)}
  <2>0. /\ tail0 = TrimTail(seg[2]) /\ head0 = TrimHead(seg[1], tail0)
        /\ loop = OverlapLoop(head0, tail0)
        /\ head = HeadPastStored(head0) /\ tail = TailBeforeStored(tail0)
        /\ d = loop.kept \cup {CreateFragment(seg[1], head, tail)}
    BY Zenon
  <2> SUFFICES /\ OverlapLeaves(loop, tail0, head, tail)
               /\ head < tail => AdvanceLoop(d) = FirstHole(d, nextRxSeq)
    BY Zenon DEF OverlapLeaves
  <2> HIDE DEF tail0, head0, loop, head, tail, d
  <2>1. /\ seg[1] \in Nat /\ seg[2] \in Nat /\ seg[1] <= seg[2] /\ seg[2] <= StreamEnd
        /\ StreamEnd \in Nat
    BY RxConstants
  <2>2. ~ Finished /\ nextRxSeq \in 0 .. StreamEnd
    <3>1. Finished => nextRxSeq = StreamEnd + 1 /\ OutOfRange(seg[1], seg[2])
      BY <2>1, Position DEF OutOfRange
    <3> QED BY <2>1, <3>1, Position DEF IInv, Types
  <2>3. InStream(data) /\ Disjoint(data)
    BY Position DEF IInv, DataInv, Disjoint
  <2>4. Ends(head0, tail0, head, tail) /\ (head < tail => nextRxSeq <= head) /\ tail0 <= StreamEnd
    BY <2>0, <2>1, <2>2, AddEnds
  <2>5. OverlapLeaves(loop, tail0, head, tail)
    BY <2>0, <2>3, <2>4, OverlapLoopIs, Zenon
  <2>6. head < tail => AdvanceLoop(d) = FirstHole(d, nextRxSeq)
    <3> SUFFICES ASSUME head < tail
                 PROVE  AdvanceLoop(d) = FirstHole(d, nextRxSeq)
      OBVIOUS
    <3>1. d = (data \ Embedded(head, tail0)) \cup {CreateFragment(seg[1], head, tail)}
      <4>1. loop = [head |-> head, tail |-> tail, kept |-> data \ Embedded(head, tail0)]
        BY <2>5, Zenon DEF OverlapLeaves
      <4>2. loop.kept = data \ Embedded(head, tail0)
        BY <4>1
      <4> QED BY <2>0, <4>2, Zenon
    <3>2. /\ InStream(d) /\ Disjoint(d)
          /\ \A p \in d : p.seq < nextRxSeq => End(p) <= nextRxSeq
      BY <2>1, <2>2, <2>4, <3>1, AddApart, Zenon
    <3> QED BY <2>2, <3>2, AdvanceLoopIs, Zenon
  <2> QED BY <2>5, <2>6, Zenon
<1>2. IInv => ExtractIsTheLoop
  <2> SUFFICES ASSUME IInv, NEW m \in RecvSizes, availBytes > 0
               PROVE  LET n     == Smaller(m, availBytes)
                          begin == BeginSeq(data)
                          cut   == begin + n
                          loop  == TakeLoop(n)
                          whole == {p \in data : End(p) <= cut}
                          part  == {p \in data : p.seq < cut /\ cut < End(p)}
                      IN  /\ loop.left = 0
                          /\ loop.kept = (data \ (whole \cup part)) \cup Rest(part, cut)
                          /\ loop.got = [k \in 1 .. n |-> ByteAt(data, begin + (k - 1))]
    BY Zenon DEF ExtractIsTheLoop
  <2> DEFINE n     == Smaller(m, availBytes)
             begin == BeginSeq(data)
             cut   == begin + n
             loop  == TakeLoop(n)
  <2>0. n = Smaller(m, availBytes) /\ begin = BeginSeq(data) /\ cut = begin + n /\ loop = TakeLoop(n)
    BY Zenon
  <2> SUFFICES /\ loop.left = 0 /\ loop.kept = Left(cut)
               /\ loop.got = [k \in 1 .. n |-> ByteAt(data, begin + (k - 1))]
    BY Zenon DEF Left
  <2> HIDE DEF n, begin, cut, loop
  <2>1. /\ StreamEnd \in Nat /\ Len(out) \in Nat /\ Acked \in Nat /\ Acked <= StreamEnd
        /\ InStream(data) /\ availBytes = Acked - Len(out) /\ Len(out) <= Acked
    BY Position DEF IInv, PrefixInv
  <2>2. n \in Nat \ {0} /\ n <= availBytes
    <3>1. m \in Nat \ {0}
      BY RxConstants
    <3> QED BY <2>0, <2>1, <3>1 DEF Smaller
  <2>3. begin = Len(out)
    BY <2>0, <2>1, UnreadFirst
  <2>4. cut \in Nat /\ begin < cut /\ cut <= Acked
    BY <2>0, <2>1, <2>2, <2>3
  <2>5. Readable(begin, cut)
    <3>1. Disjoint(data) /\ \A p \in data : p.src = p.seq /\ begin <= p.seq
      BY <2>3 DEF IInv, DataInv, Disjoint
    <3>2. \A s \in begin .. cut - 1 : Covered(data, s)
      BY <2>1, <2>3, <2>4 DEF IInv, PrefixInv
    <3> QED BY <2>1, <2>3, <2>4, <3>1, <3>2 DEF Readable
  <2>6. TakeLoop(n) = [kept |-> Left(cut), left |-> 0, got |-> Run(begin, n)]
    <3>1. n \in Nat
      BY <2>2
    <3> QED BY <2>0, <2>5, <3>1, TakeLoopIs, Zenon
  <2>7. Run(begin, n) = [k \in 1 .. n |-> ByteAt(data, begin + (k - 1))]
    <3>1. \A k \in 1 .. n : ByteAt(data, begin + (k - 1)) = begin + (k - 1)
      <4> TAKE k \in 1 .. n
      <4>1. begin + (k - 1) \in Len(out) .. Acked - 1
        BY <2>1, <2>2, <2>3
      <4> QED BY <4>1, ByteAtIs
    <3> QED BY <3>1, Zenon DEF Run
  <2>8. loop.left = 0 /\ loop.kept = Left(cut) /\ loop.got = Run(begin, n)
    <3> PICK k, r : k = Left(cut) /\ r = Run(begin, n)
      BY Zenon
    <3>1. loop = [kept |-> k, left |-> 0, got |-> r]
      BY <2>0, <2>6, Zenon
    <3>2. loop.left = 0 /\ loop.kept = k /\ loop.got = r
      BY <3>1
    <3> QED BY <3>2, Zenon
  <2> QED BY <2>7, <2>8, Zenon
<1> QED BY <1>1, <1>2, Inductive, PTL DEF LoopsAgree

\* Finished holds only once the stream has been received to its end.
THEOREM EofIsLast == Spec => []EofAfterData
<1>1. IInv => EofAfterData
  BY Position DEF IInv, FinInv, EofAfterData, Finished
<1> QED BY <1>1, Inductive, PTL

\* MaxRxSequence, the right edge of the window, never moves back: neither the
\* reception of data, in order or not, nor a read takes an offer back.
THEOREM EdgeMonotone == Spec => WindowNeverShrinks
<1>0. IInv /\ ~ gotFin => MaxRxSequence = Len(out) + MaxBuffer
  BY EdgeIsUnreadPlusBuffer
<1>1. IInv /\ IInv' /\ [Next]_vars => [~ gotFin' => MaxRxSequence' >= MaxRxSequence]_vars
  <2> SUFFICES ASSUME IInv, IInv', Next, ~ gotFin'
               PROVE  MaxRxSequence' >= MaxRxSequence
    OBVIOUS
  <2>1. ~ gotFin
    BY DEF Next, ReceiveData, PeerClose, Extract
  <2>2. MaxRxSequence = Len(out) + MaxBuffer
    BY <1>0, <2>1
  <2>3. MaxRxSequence' = Len(out') + MaxBuffer
    <3>1. (IInv /\ ~ gotFin => MaxRxSequence = Len(out) + MaxBuffer)'
      BY <1>0, PTL
    <3> QED BY <3>1
  <2>4. Len(out) <= Len(out')
    BY ExtractStep DEF Next, ReceiveData, PeerClose, IInv, Types
  <2>5. Len(out) \in Nat /\ Len(out') \in Nat /\ MaxBuffer \in Nat
    BY RxConstants DEF IInv, Types
  <2> QED BY <2>2, <2>3, <2>4, <2>5
<1> QED BY <1>1, Inductive, PTL DEF Spec, WindowNeverShrinks

\* Everything the buffer does is a step of the byte stream of ByteStream or none:
\* Add and PeerClose lengthen the prefix received within the window, Extract reads
\* on from where the last read ended.
THEOREM Refinement == Spec => ImplementsStream
<1>0. IInv => /\ Acked \in Nat /\ Acked <= StreamEnd
              /\ Finished => Acked = StreamEnd
              /\ Acked <= Len(out) + MaxBuffer
  BY AckedInWindow
<1>1. Init => Stream!Init
  <2> SUFFICES ASSUME Init PROVE Stream!Init
    OBVIOUS
  <2>1. ~ Finished /\ Acked = 0
    BY DEF Init, Acked, Finished
  <2> QED BY <2>1 DEF Init, Stream!Init
<1>2. IInv /\ IInv' /\ [Next]_vars => [Stream!Next]_(Stream!vars)
  <2> SUFFICES ASSUME IInv, IInv', [Next]_vars
               PROVE  [Stream!Next]_(Stream!vars)
    OBVIOUS
  <2>1. /\ StreamEnd \in Nat /\ MaxBuffer \in Nat /\ Len(out) \in Nat
        /\ Acked \in Nat /\ Acked <= StreamEnd
    BY Position
  <2>2. /\ Acked' \in Nat /\ Acked' <= StreamEnd
        /\ Finished' => Acked' = StreamEnd
        /\ Acked' <= Len(out') + MaxBuffer
    <3>1. (IInv => /\ Acked \in Nat /\ Acked <= StreamEnd
                   /\ Finished => Acked = StreamEnd
                   /\ Acked <= Len(out) + MaxBuffer)'
      BY <1>0, PTL
    <3> QED BY <3>1
  <2>3. ASSUME ~ Finished, Acked <= Acked', out' = out
        PROVE  Stream!Receive
    <3>1. Acked' \in Acked .. StreamEnd
      BY <2>1, <2>2, <2>3
    <3>2. Finished' \in {FALSE, Acked' = StreamEnd}
      BY <2>2 DEF Finished
    <3> QED BY <2>2, <2>3, <3>1, <3>2 DEF Stream!Receive
  <2>4. ASSUME NEW seg \in Segments, ReceiveData(seg)
        PROVE  Stream!Receive
    BY <2>3, <2>4, ReceiveDataStep DEF ReceiveData
  <2>5. ASSUME NEW seg \in Segments, PeerClose(seg)
        PROVE  Stream!Receive
    BY <2>3, <2>5, PeerCloseStep DEF PeerClose
  <2>6. ASSUME NEW n \in RecvSizes, Extract(n)
        PROVE  \E m \in 1 .. StreamEnd : Stream!Read(m)
    BY <2>6, ExtractStep DEF Stream!Read
  <2>7. CASE UNCHANGED vars
    BY <2>7 DEF vars, Stream!vars, Acked, Finished
  <2> QED BY <2>4, <2>5, <2>6, <2>7 DEF Next, Stream!Next
<1> QED BY <1>1, <1>2, Inductive, PTL DEF Spec, ImplementsStream, Stream!Spec

(***************************************************************************)
(* A peer that always cuts its stream at the same places                   *)
(***************************************************************************)
\* Any two segments with data are the same or do not overlap, as when the items of the
\* peer's send buffer are neither split nor merged.
OneCut ==
    \A s, t \in Segments : s[1] < s[2] /\ t[1] < t[2] => s = t \/ s[2] <= t[1] \/ t[2] <= s[1]

\* Then what waits beyond the edge is whole segments, the edge is never inside one, and
\* the blocks reported are apart.
CutInv ==
    /\ \A p \in data : nextRxSeq <= p.seq => \E t \in Segments : t[1] = p.seq /\ t[2] = End(p)
    /\ \A t \in Segments : t[1] < t[2] => t[2] <= nextRxSeq \/ nextRxSeq <= t[1]
    /\ Apart(sackList)

\* The range Add keeps of a segment the peer may send.
LEMMA SegmentRange ==
    ASSUME IInv, ~ Finished,
           NEW seg \in Segments,
           NEW tail0, tail0 = TrimTail(seg[2]),
           NEW head, head = HeadPastStored(TrimHead(seg[1], tail0)),
           NEW tail, tail = TailBeforeStored(tail0)
    PROVE  /\ head \in Nat /\ tail \in Nat /\ tail0 \in Nat
           /\ head < tail => nextRxSeq <= head
           /\ tail <= tail0 /\ tail0 <= seg[2]
           /\ ~ Covered(data, head)
           /\ tail = tail0 \/ \E q \in data : tail = q.seq /\ q.seq < tail0 /\ tail0 <= End(q)
<1>1. PICK first, last : first = seg[1] /\ last = seg[2]
  OBVIOUS
<1>2. first \in Nat /\ last \in Nat /\ last <= StreamEnd /\ first <= last
  BY <1>1, RxConstants
<1>3. tail0 = TrimTail(last) /\ head = HeadPastStored(TrimHead(first, tail0))
  BY <1>1, Zenon
<1>4. /\ head \in Nat /\ tail \in Nat /\ tail0 \in Nat
      /\ head < tail => nextRxSeq <= head
      /\ tail <= tail0 /\ tail0 <= last
      /\ ~ Covered(data, head)
      /\ tail = tail0 \/ \E q \in data : tail = q.seq /\ q.seq < tail0 /\ tail0 <= End(q)
  BY <1>2, <1>3, AddRange
<1> QED BY <1>1, <1>4, Zenon

\* A segment that leaves something to store meets no packet and is stored whole.
LEMMA StoredWhole ==
    ASSUME OneCut, IInv, CutInv, ~ Finished,
           NEW seg \in Segments, seg[1] < seg[2], seg[2] <= Len(out) + MaxBuffer,
           NEW tail0, tail0 = TrimTail(seg[2]),
           NEW head, head = HeadPastStored(TrimHead(seg[1], tail0)),
           NEW tail, tail = TailBeforeStored(tail0),
           ~ NothingToBuffer(head, tail)
    PROVE  /\ head = seg[1] /\ tail = seg[2] /\ nextRxSeq <= head
           /\ \A p \in data : End(p) <= head \/ tail <= p.seq
           /\ Embedded(head, tail0) = {}
<1>0. /\ StreamEnd \in Nat /\ MaxBuffer \in Nat \ {0} /\ Len(out) \in Nat /\ InStream(data)
      /\ nextRxSeq \in Nat /\ nextRxSeq <= StreamEnd /\ Acked = nextRxSeq
      /\ seg[1] \in Nat /\ seg[2] \in Nat /\ seg[2] <= StreamEnd
      /\ \A t \in Segments : t[1] \in Nat /\ t[2] \in Nat
  BY RxConstants, Position DEF IInv, Types
<1>1. \A p \in data : p.seq \in Nat /\ End(p) \in Nat /\ p.seq < End(p)
  BY <1>0 DEF InStream, Packet, End
<1>2. /\ head \in Nat /\ tail \in Nat /\ tail0 \in Nat
      /\ head < tail => nextRxSeq <= head
      /\ tail <= tail0 /\ tail0 <= seg[2]
      /\ ~ Covered(data, head)
      /\ tail = tail0 \/ \E q \in data : tail = q.seq /\ q.seq < tail0 /\ tail0 <= End(q)
  BY SegmentRange
<1>3. head < tail /\ nextRxSeq <= head
  BY <1>2 DEF NothingToBuffer
<1>4. tail0 = seg[2]
  BY <1>0, UnreadFirst DEF TrimTail, Smaller
<1>5. nextRxSeq <= seg[1]
  <2>1. seg[2] <= nextRxSeq \/ nextRxSeq <= seg[1]
    BY DEF CutInv
  <2> QED BY <1>0, <1>2, <1>3, <1>4, <2>1
<1>6. TrimHead(seg[1], tail0) = seg[1]
  BY <1>0, <1>4, <1>5 DEF TrimHead, Larger
<1>7. head \in seg[1] .. StreamEnd /\ \A t \in seg[1] .. head - 1 : Covered(data, t)
  <2>1. head = FirstHole(data, seg[1]) /\ seg[1] \in 0 .. StreamEnd
    BY <1>0, <1>6 DEF HeadPastStored
  <2> QED BY <1>0, <2>1, FirstHoleFirst
<1>8. ASSUME NEW p \in data
      PROVE  End(p) <= seg[1] \/ seg[2] <= p.seq
  <2>1. CASE p.seq < nextRxSeq
    <3>1. ~ Covered(data, nextRxSeq)
      BY <1>0 DEF IInv, PrefixInv
    <3>2. End(p) <= nextRxSeq
      BY <1>0, <1>1, <2>1, <3>1 DEF Covered
    <3> QED BY <1>0, <1>1, <1>5, <3>2
  <2>2. CASE nextRxSeq <= p.seq
    <3>1. PICK t \in Segments : t[1] = p.seq /\ t[2] = End(p)
      BY <2>2 DEF CutInv
    <3>2. t = seg \/ t[2] <= seg[1] \/ seg[2] <= t[1]
      BY <1>1, <3>1 DEF OneCut
    <3>3. t # seg
      <4> SUFFICES ASSUME t = seg PROVE FALSE
        OBVIOUS
      <4>1. p.seq = seg[1] /\ End(p) = seg[2]
        BY <3>1
      <4>2. p.seq <= head /\ head < End(p)
        BY <1>0, <1>2, <1>3, <1>4, <1>7, <4>1
      <4> QED BY <1>2, <4>2 DEF Covered
    <3> QED BY <3>1, <3>2, <3>3
  <2> QED BY <1>0, <1>1, <2>1, <2>2
<1>9. head = seg[1]
  <2>1. ~ Covered(data, seg[1])
    BY <1>0, <1>1, <1>8 DEF Covered
  <2> QED BY <1>0, <1>7, <2>1
<1>10. tail = seg[2]
  BY <1>0, <1>1, <1>2, <1>4, <1>8
<1>11. Embedded(head, tail0) = {}
  BY <1>0, <1>1, <1>4, <1>8, <1>9 DEF Embedded
<1> QED BY <1>5, <1>8, <1>9, <1>10, <1>11

\* A read touches no packet beyond the edge.
LEMMA BeyondKept ==
    ASSUME IInv, NEW maxSize \in RecvSizes, Extract(maxSize)
    PROVE  \A p \in data' : nextRxSeq <= p.seq => p \in data
<1> PICK n : n = Smaller(maxSize, availBytes)
  OBVIOUS
<1> PICK cut : cut = BeginSeq(data) + n
  OBVIOUS
<1> PICK d : d = data'
  OBVIOUS
<1> PICK part : part = {p \in data : p.seq < cut /\ cut < End(p)}
  OBVIOUS
<1>1. n > 0 /\ d \subseteq data \cup Rest(part, cut)
  BY Zenon DEF Extract
<1>2. /\ Len(out) \in Nat /\ Acked \in Nat /\ availBytes = Acked - Len(out) /\ Len(out) <= Acked
      /\ nextRxSeq \in Nat /\ Acked <= nextRxSeq /\ ~ Covered(data, Acked)
  BY Position DEF IInv, PrefixInv, Types, Acked
<1>3. n \in Nat /\ n <= availBytes
  <2>1. maxSize \in Nat
    BY RxConstants
  <2> QED BY <1>2, <2>1 DEF Smaller
<1>4. cut \in Nat /\ cut <= Acked
  <2>1. Len(out) < Acked
    BY <1>1, <1>2, <1>3
  <2>2. BeginSeq(data) = Len(out)
    BY <2>1, UnreadFirst
  <2> QED BY <1>2, <1>3, <2>2
<1>5. part # {} => cut < Acked
  <2>1. \A p \in data : p.seq \in Nat /\ End(p) \in Nat
    BY DEF IInv, Types, Packet, End
  <2>2. ASSUME cut = Acked, NEW p \in part PROVE FALSE
    <3>1. p \in data /\ p.seq < Acked /\ Acked < End(p)
      BY <2>2
    <3> QED BY <1>2, <2>1, <3>1 DEF Covered
  <2> QED BY <1>2, <1>4, <2>2
<1>6. \A r \in Rest(part, cut) : part # {} /\ r.seq = cut
  BY DEF Rest
<1>7. \A r \in Rest(part, cut) : ~ (nextRxSeq <= r.seq)
  BY <1>2, <1>4, <1>5, <1>6
<1> QED BY <1>1, <1>7, Zenon

\* Add keeps that.
LEMMA AddCut ==
    ASSUME OneCut, IInv, CutInv, ~ Finished,
           NEW seg \in Segments, seg[1] < seg[2], seg[2] <= Len(out) + MaxBuffer,
           gotFin' => finSeq' = StreamEnd,
           Add(seg[1], seg[2])
    PROVE  CutInv'
<1> DEFINE tail0 == TrimTail(seg[2])
           head  == HeadPastStored(TrimHead(seg[1], tail0))
           tail  == TailBeforeStored(tail0)
           next  == FirstHole(data', nextRxSeq)
<1>0. /\ StreamEnd \in Nat /\ InStream(data)
      /\ nextRxSeq \in Nat /\ nextRxSeq <= StreamEnd /\ Acked = nextRxSeq
      /\ seg[1] \in Nat /\ seg[2] \in Nat /\ seg[2] <= StreamEnd
      /\ \A t \in Segments : t[1] \in Nat /\ t[2] \in Nat /\ t[2] <= StreamEnd
  BY RxConstants, Position DEF IInv, Types
<1>1. CASE NothingToBuffer(head, tail)
  <2>1. UNCHANGED <<data, nextRxSeq, sackList>>
    BY <1>1 DEF Add
  <2> QED BY <2>1, Zenon DEF CutInv, Apart, ApartTo, End
<1>2. CASE ~ NothingToBuffer(head, tail)
  <2>0. /\ data' = (data \ Embedded(head, tail0)) \cup {CreateFragment(seg[1], head, tail)}
        /\ nextRxSeq' = IF gotFin' /\ next = finSeq' THEN next + 1 ELSE next
        /\ sackList' = IF head > nextRxSeq THEN UpdateSackList(head, tail)
                                           ELSE ClearSackList(next)
    BY <1>2 DEF Add
  <2>1. /\ head = seg[1] /\ tail = seg[2] /\ nextRxSeq <= head
        /\ \A p \in data : End(p) <= head \/ tail <= p.seq
        /\ Embedded(head, tail0) = {}
    BY <1>2, StoredWhole
  <2> HIDE DEF tail0, head, tail, next
  <2> PICK d : d = data'
    OBVIOUS
  <2> PICK new : new = CreateFragment(seg[1], head, tail)
    OBVIOUS
  <2>2. d = data \cup {new} /\ new \in Packet /\ new.seq = seg[1] /\ End(new) = seg[2]
    <3>1. d = data \cup {new}
      BY <2>0, <2>1
    <3> QED BY <1>0, <2>1, <3>1 DEF CreateFragment, Packet, End
  <2>3. /\ \A p \in data : p.seq \in Nat /\ End(p) \in Nat /\ p.seq < End(p)
        /\ \A p \in d : p.seq \in Nat /\ End(p) \in Nat /\ p.seq < End(p)
    <3>1. \A p \in Packet : p.seq \in Nat /\ End(p) \in Nat /\ p.seq < End(p)
      BY DEF Packet, End
    <3>2. data \subseteq Packet /\ d \subseteq Packet
      BY <1>0, <2>2 DEF InStream
    <3> QED BY <3>1, <3>2
  <2>4. InStream(d)
    BY <1>0, <2>2 DEF InStream
  <2>5. \A p \in d : nextRxSeq <= p.seq => \E t \in Segments : t[1] = p.seq /\ t[2] = End(p)
    BY <2>2, Zenon DEF CutInv
  <2>6. \A p \in d : p.seq < nextRxSeq => End(p) <= nextRxSeq
    <3>1. ~ Covered(data, nextRxSeq)
      BY <1>0 DEF IInv, PrefixInv
    <3> QED BY <1>0, <2>1, <2>2, <2>3, <3>1 DEF Covered
  <2>7. /\ next \in nextRxSeq .. StreamEnd /\ ~ Covered(d, next)
        /\ \A t \in nextRxSeq .. next - 1 : Covered(d, t)
    <3>1. nextRxSeq \in 0 .. StreamEnd /\ next = FirstHole(d, nextRxSeq)
      BY <1>0 DEF next
    <3> QED BY <2>4, <3>1, FirstHoleFirst
  <2>8. ASSUME NEW t \in Segments, t[1] < t[2]
        PROVE  t[2] <= next \/ next <= t[1]
    <3>1. CASE next = nextRxSeq
      BY <2>8, <3>1 DEF CutInv
    <3>2. CASE next # nextRxSeq
      <4>1. Covered(d, next - 1)
        BY <1>0, <2>7, <3>2
      <4>2. PICK p \in d : p.seq <= next - 1 /\ next - 1 < End(p)
        BY <4>1 DEF Covered
      <4>3. End(p) = next
        BY <1>0, <2>3, <2>7, <4>2 DEF Covered
      <4>4. nextRxSeq <= p.seq
        BY <1>0, <2>3, <2>6, <2>7, <3>2, <4>3
      <4>5. PICK u \in Segments : u[1] = p.seq /\ u[2] = End(p)
        BY <2>5, <4>4
      <4>6. t = u \/ t[2] <= u[1] \/ u[2] <= t[1]
        BY <2>3, <2>8, <4>5 DEF OneCut
      <4>7. u[1] < next /\ u[2] = next
        BY <2>3, <4>3, <4>5
      <4>8. t[1] \in Nat /\ t[2] \in Nat /\ u[1] \in Nat /\ next \in Nat
        BY <1>0, <2>7
      <4> QED BY <4>6, <4>7, <4>8
    <3> QED BY <3>1, <3>2
  <2> PICK n : n = nextRxSeq'
    OBVIOUS
  <2>9. n \in Nat /\ next \in Nat /\ nextRxSeq <= next /\ (n = next \/ (n = next + 1 /\ next = StreamEnd))
    BY <1>0, <2>0, <2>7
  <2>10. \A t \in Segments : t[1] < t[2] => t[2] <= n \/ n <= t[1]
    <3> TAKE t \in Segments
    <3> HAVE t[1] < t[2]
    <3>1. t[2] <= next \/ next <= t[1]
      BY <2>8
    <3> QED BY <1>0, <2>9, <3>1
  <2>11. \A p \in d : n <= p.seq => \E t \in Segments : t[1] = p.seq /\ t[2] = End(p)
    <3> TAKE p \in d
    <3> HAVE n <= p.seq
    <3>1. nextRxSeq <= p.seq
      BY <1>0, <2>3, <2>9
    <3> QED BY <2>5, <3>1
  <2>12. Apart(sackList')
    <3>1. sackList \in Seq(Honest(data, nextRxSeq)) /\ Apart(sackList)
      BY Zenon DEF IInv, SackInv, CutInv
    <3>2. CASE head > nextRxSeq
      <4> PICK H : H = Honest(d, nextRxSeq)
        OBVIOUS
      <4>1. Honest(data, nextRxSeq) \subseteq H
        <5>1. \A s \in Nat : nextRxSeq < s /\ Covered(data, s) => Covered(d, s)
          BY <2>2 DEF Covered
        <5> QED BY <1>0, <5>1, HonestGrows, Zenon
      <4>2. sackList \in Seq(H)
        BY <3>1, <4>1, SeqMonotonic, Zenon
      <4>3. <<head, tail>> \in H
        <5>1. \A s \in head .. tail - 1 : Covered(d, s)
          BY <1>0, <2>1, <2>2 DEF Covered
        <5> QED BY <1>0, <2>1, <3>2, <5>1 DEF Honest, Blocks
      <4>4. ASSUME NEW i \in 1 .. Len(sackList)
            PROVE  Separate(<<head, tail>>, sackList[i])
        <5> PICK b : b = sackList[i]
          OBVIOUS
        <5>1. b \in Honest(data, nextRxSeq)
          BY <3>1, ElementOfSeq, Zenon
        <5>2. /\ b[1] \in Nat /\ b[2] \in Nat /\ b[1] < b[2]
              /\ \A s \in b[1] .. b[2] - 1 : Covered(data, s)
          BY <5>1 DEF Honest, Blocks
        <5>3. \A s \in head .. tail - 1 : ~ Covered(data, s)
          BY <1>0, <2>1, <2>3 DEF Covered
        <5>4. tail <= b[1] \/ b[2] <= head
          <6> SUFFICES ASSUME b[1] < tail, head < b[2] PROVE FALSE
            BY <1>0, <2>1, <5>2
          <6> PICK s : s = (IF head < b[1] THEN b[1] ELSE head)
            OBVIOUS
          <6>1. s \in head .. tail - 1 /\ s \in b[1] .. b[2] - 1
            BY <1>0, <2>1, <5>2
          <6> QED BY <5>2, <5>3, <6>1
        <5> QED BY <5>4 DEF Separate
      <4>5. head \in Nat /\ tail \in Nat
        BY <1>0, <2>1
      <4>6. Apart(UpdateSackList(head, tail))
        BY <1>0, <3>1, <4>2, <4>3, <4>4, <4>5, UpdateApart, Zenon
      <4> QED BY <2>0, <3>2, <4>6, Zenon
    <3>3. CASE ~ (head > nextRxSeq)
      <4>1. Apart(ClearSackList(next))
        BY <3>1, ClearApart, Zenon
      <4> QED BY <2>0, <3>3, <4>1, Zenon
    <3> QED BY <3>2, <3>3
  <2> QED BY <2>10, <2>11, <2>12, Zenon DEF CutInv, Apart, ApartTo, End
<1> QED BY <1>1, <1>2

\* No byte is in two blocks of GetSackList when the peer never cuts its stream anew:
\* the overlapping blocks of RxBufferResegment come from a resegmented retransmission,
\* and from nothing else in Add, the merges and ClearSackList.
THEOREM BlocksAreApart ==
    ASSUME OneCut
    PROVE  Spec => []SackDisjoint
<1>1. Init => CutInv
  <2> SUFFICES ASSUME Init PROVE CutInv
    OBVIOUS
  <2>1. data = {} /\ nextRxSeq = 0 /\ sackList = <<>>
    BY DEF Init
  <2>2. \A t \in Segments : 0 <= t[1]
    BY RxConstants
  <2>3. Apart(sackList)
    BY <2>1 DEF Apart, ApartTo
  <2> QED BY <2>1, <2>2, <2>3 DEF CutInv
<1>2. IInv /\ CutInv /\ [Next]_vars => CutInv'
  <2> SUFFICES ASSUME IInv, CutInv, [Next]_vars PROVE CutInv'
    OBVIOUS
  <2>1. ASSUME NEW seg \in Segments, ReceiveData(seg) PROVE CutInv'
    <3>1. /\ Offered(seg) /\ seg[1] < seg[2] /\ UNCHANGED <<gotFin, finSeq>>
          /\ Add(seg[1], seg[2])
      BY <2>1 DEF ReceiveData
    <3>2. seg[2] <= Len(out) + MaxBuffer
      BY <3>1, OfferedInWindow
    <3>3. ~ Finished
      BY <2>1, ReceiveDataStep
    <3>4. gotFin' => finSeq' = StreamEnd
      BY <3>1 DEF IInv, FinInv
    <3> QED BY <3>1, <3>2, <3>3, <3>4, AddCut
  <2>2. ASSUME NEW seg \in Segments, PeerClose(seg) PROVE CutInv'
    <3>1. Offered(seg) /\ seg[2] = StreamEnd /\ gotFin' = TRUE /\ finSeq' = StreamEnd
      BY <2>2 DEF PeerClose, FinSequence
    <3>2. seg[2] <= Len(out) + MaxBuffer
      BY <3>1, OfferedInWindow
    <3>3. ~ Finished
      BY <2>2, PeerCloseStep
    <3>4. CASE seg[1] < seg[2] /\ Add(seg[1], seg[2])
      BY <3>1, <3>2, <3>3, <3>4, AddCut
    <3>5. CASE /\ nextRxSeq' = IF nextRxSeq = seg[2] THEN nextRxSeq + 1 ELSE nextRxSeq
               /\ UNCHANGED <<data, size, availBytes, sackList>>
      <4>1. nextRxSeq \in Nat /\ StreamEnd \in Nat
        BY Position DEF IInv, Types
      <4> PICK n : n = nextRxSeq'
        OBVIOUS
      <4>2. n = nextRxSeq \/ (n = nextRxSeq + 1 /\ nextRxSeq = StreamEnd)
        BY <3>1, <3>5
      <4>3. \A t \in Segments : t[1] < t[2] => t[2] <= n \/ n <= t[1]
        <5> TAKE t \in Segments
        <5> HAVE t[1] < t[2]
        <5>1. t[2] <= nextRxSeq \/ nextRxSeq <= t[1]
          BY DEF CutInv
        <5>2. t[1] \in Nat /\ t[2] \in Nat /\ t[2] <= StreamEnd
          BY RxConstants
        <5> QED BY <4>1, <4>2, <5>1, <5>2
      <4>4. \A p \in data : n <= p.seq => \E t \in Segments : t[1] = p.seq /\ t[2] = End(p)
        <5> TAKE p \in data
        <5> HAVE n <= p.seq
        <5>1. nextRxSeq <= p.seq
          <6>1. p.seq \in Nat
            BY DEF IInv, Types, Packet
          <6> QED BY <4>1, <4>2, <6>1
        <5> QED BY <5>1 DEF CutInv
      <4>5. UNCHANGED <<data, sackList>> /\ Apart(sackList)
        BY <3>5 DEF CutInv
      <4> QED BY <4>3, <4>4, <4>5, Zenon DEF CutInv, Apart, ApartTo, End
    <3> QED BY <2>2, <3>4, <3>5 DEF PeerClose
  <2>3. ASSUME NEW n \in RecvSizes, Extract(n) PROVE CutInv'
    <3>1. UNCHANGED <<nextRxSeq, sackList>>
      BY <2>3 DEF Extract
    <3> PICK d : d = data'
      OBVIOUS
    <3>2. \A p \in d : nextRxSeq <= p.seq => p \in data
      BY <2>3, BeyondKept
    <3> QED BY <3>1, <3>2, Zenon DEF CutInv, Apart, ApartTo, End
  <2>4. CASE UNCHANGED vars
    <3>1. UNCHANGED <<data, nextRxSeq, sackList>>
      BY <2>4 DEF vars
    <3> QED BY <3>1, Zenon DEF CutInv, Apart, ApartTo, End
  <2> QED BY <2>1, <2>2, <2>3, <2>4 DEF Next
<1>3. CutInv => SackDisjoint
  BY Zenon DEF CutInv, Apart, ApartTo, Separate, SackDisjoint
<1> QED BY <1>1, <1>2, <1>3, Inductive, PTL DEF Spec
============================================================================
