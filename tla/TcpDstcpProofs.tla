--------------------------- MODULE TcpDstcpProofs ---------------------------
(***************************************************************************)
(* Proofs about TcpDstcp for every number of segments, segment size, gain, *)
(* resolution of the estimates and pattern of ACKs and writes.             *)
(***************************************************************************)
EXTENDS TcpDstcp, TLAPS

(***************************************************************************)
(* Arithmetic                                                              *)
(***************************************************************************)
LEMMA Positive ==
    /\ Seg \in Nat \ {0} /\ WrapAt \in Nat \ {0} /\ DataEnd \in Nat \ {0}
    /\ Scale \in Nat \ {0} /\ Gain \in Nat \ {0}
    /\ InitCwnd \in Nat \ {0} /\ InitSsThresh \in Nat \ {0} /\ InitMinRtt \in Nat \ {0}
BY WindowConstants, DstcpConstants

LEMMA PairMin ==
    ASSUME NEW a \in Int, NEW b \in Int
    PROVE  /\ Min({a, b}) \in {a, b} /\ Min({a, b}) \in Int
           /\ Min({a, b}) <= a /\ Min({a, b}) <= b
BY DEF Min

LEMMA PairMax ==
    ASSUME NEW a \in Int, NEW b \in Int
    PROVE  /\ Max({a, b}) \in {a, b} /\ Max({a, b}) \in Int
           /\ Max({a, b}) >= a /\ Max({a, b}) >= b
BY DEF Max

LEMMA Product ==
    ASSUME NEW a \in Nat, NEW b \in Nat
    PROVE  a * b \in Nat
OBVIOUS

LEMMA Monotone ==
    ASSUME NEW a \in Nat, NEW b \in Nat, NEW c \in Nat, a <= b
    PROVE  a * c <= b * c
OBVIOUS

\* a quotient of naturals, and its bound
LEMMA Quotient ==
    ASSUME NEW a \in Nat, NEW b \in Nat \ {0}
    PROVE  a \div b \in Nat
OBVIOUS

LEMMA QuotientBound ==
    ASSUME NEW a \in Nat, NEW b \in Nat \ {0}, NEW c \in Nat, a <= c * b
    PROVE  a \div b <= c
OBVIOUS

LEMMA SegBytes ==
    ASSUME NEW n \in Nat
    PROVE  n * Seg \in Nat /\ (n > 0 => n * Seg > 0)
BY Positive

\* The new estimate is a weighted mean of the old one and a fraction.
LEMMA EwmaRange ==
    ASSUME NEW estimate \in 0 .. Scale, NEW total \in Nat \ {0}, NEW part \in 0 .. total
    PROVE  Ewma(estimate, part, total) \in 0 .. Scale
<1> DEFINE a == (Gain - 1) * estimate
           b == (Gain - 1) * Scale
<1>1. Gain \in Nat /\ Gain > 0 /\ Scale \in Nat /\ Scale > 0 /\ Gain - 1 \in Nat
  BY Positive
<1>2. a \in Nat /\ b \in Nat /\ a <= b
  BY <1>1
<1>3. a * total \in Nat /\ b * total \in Nat /\ a * total <= b * total
  BY <1>2, Monotone, Product
<1>4. Scale * part \in Nat /\ Scale * total \in Nat /\ Scale * part <= Scale * total
  BY <1>1
<1>5. b * total + Scale * total = Scale * (Gain * total)
  BY <1>1
<1>6. Gain * total \in Nat \ {0}
  BY <1>1
<1>7. a * total + Scale * part \in Nat /\ a * total + Scale * part <= Scale * (Gain * total)
  BY <1>3, <1>4, <1>5
<1>8. (a * total + Scale * part) \div (Gain * total) \in Nat
  BY <1>6, <1>7, Quotient
<1>9. (a * total + Scale * part) \div (Gain * total) <= Scale
  BY <1>1, <1>6, <1>7, QuotientBound
<1> QED BY <1>1, <1>8, <1>9 DEF Ewma

LEMMA ReducedRange ==
    ASSUME NEW cWnd \in Nat, NEW estimate \in 0 .. Scale
    PROVE  Reduced(cWnd, estimate) \in Nat
<1>1. 2 * Scale \in Nat \ {0} /\ 2 * Scale - estimate \in Nat
  BY Positive
<1>2. cWnd * (2 * Scale - estimate) \in Nat
  BY <1>1, Product
<1> QED BY <1>1, <1>2, Quotient DEF Reduced

(***************************************************************************)
(* The socket record, in groups of fields                                  *)
(***************************************************************************)
Fields == {"una", "nxt", "end", "cWnd", "ssThresh", "cWndCnt", "cong", "recover", "ecn",
           "echoSeq", "cwrSeq", "prrDelivered", "prrOut", "prrFlight", "ackedTotal",
           "ackedEcn", "ackedRtt", "nextSeq", "alpha", "beta", "minRtt", "lastRtt", "tdcv",
           "event", "cuts"}

IsTcb(r) == r = [f \in Fields |-> r[f]]

SeqTypes(r) ==
    /\ {r.una, r.nxt, r.end} \subseteq 1 .. DataEnd + 1
    /\ {r.recover, r.echoSeq, r.cwrSeq, r.nextSeq} \subseteq 0 .. DataEnd + 1
    /\ r.una <= r.nxt /\ r.nxt <= r.end

ModeTypes(r) ==
    /\ r.cong \in {"OPEN", "CWR"}
    /\ r.ecn \in {"IDLE", "ECE_RCVD", "CWR_SENT"}
    /\ r.cuts \in {0, 1}

WinTypes(r) ==
    {r.cWnd, r.ssThresh, r.cWndCnt, r.prrDelivered, r.prrOut, r.prrFlight} \subseteq Nat

EstTypes(r) ==
    /\ {r.ackedTotal, r.ackedEcn, r.ackedRtt, r.minRtt, r.lastRtt, r.tdcv} \subseteq Nat
    /\ {r.alpha, r.beta} \subseteq 0 .. Scale
    /\ r.ackedEcn <= r.ackedTotal /\ r.ackedRtt <= r.ackedTotal

\* What two sockets have in common.
SameMode(q, r) ==
    /\ q.una = r.una /\ q.end = r.end /\ q.cong = r.cong /\ q.recover = r.recover
    /\ q.echoSeq = r.echoSeq /\ q.prrFlight = r.prrFlight /\ q.lastRtt = r.lastRtt
    /\ q.tdcv = r.tdcv /\ q.event = r.event /\ q.cuts = r.cuts

SameSent(q, r) == q.nxt = r.nxt /\ q.ecn = r.ecn /\ q.cwrSeq = r.cwrSeq

SameCounts(q, r) ==
    /\ q.ackedTotal = r.ackedTotal /\ q.ackedEcn = r.ackedEcn /\ q.ackedRtt = r.ackedRtt
    /\ q.nextSeq = r.nextSeq /\ q.alpha = r.alpha /\ q.beta = r.beta /\ q.minRtt = r.minRtt

(***************************************************************************)
(* The window                                                              *)
(***************************************************************************)
LEMMA WantedInt ==
    ASSUME NEW r, WinTypes(r), NEW flight \in Nat, NEW delivered \in Nat,
           flight > r.ssThresh => r.prrFlight > 0
    PROVE  Wanted(r, flight, delivered, FALSE) \in Int
<1>0. r.prrDelivered \in Nat /\ r.ssThresh \in Nat /\ r.prrFlight \in Nat /\ r.prrOut \in Nat
  BY DEF WinTypes
<1>1. CASE flight > r.ssThresh
  <2> DEFINE p == (r.prrDelivered * r.ssThresh) % WrapAt
  <2>1. r.prrDelivered * r.ssThresh \in Nat
    BY <1>0, Product
  <2>2. p \in Nat
    BY <2>1, Positive
  <2>3. p + r.prrFlight - 1 \in Nat /\ r.prrFlight \in Nat \ {0}
    BY <1>0, <1>1, <2>2
  <2>4. Ceil(p, r.prrFlight) \in Nat
    BY <2>3, Quotient DEF Ceil
  <2> QED BY <1>0, <1>1, <2>4 DEF Wanted
<1>2. CASE ~ flight > r.ssThresh
  <2>1. delivered \in Int /\ r.ssThresh - flight \in Int
    BY <1>0
  <2>2. Min({delivered, r.ssThresh - flight}) \in Int
    BY <2>1, PairMin
  <2> QED BY <1>2, <2>2 DEF Wanted
<1> QED BY <1>1, <1>2

LEMMA DoRecoveryFrame ==
    ASSUME NEW r, IsTcb(r), WinTypes(r), NEW flight \in Nat, NEW delivered \in Nat,
           flight > r.ssThresh => r.prrFlight > 0
    PROVE  LET q == DoRecovery(r, flight, delivered, FALSE) IN
           /\ IsTcb(q) /\ WinTypes(q) /\ q.ssThresh = r.ssThresh
           /\ SameMode(q, r) /\ SameSent(q, r) /\ SameCounts(q, r)
<1> DEFINE q0 == [r EXCEPT !.prrDelivered = @ + delivered]
           count == SendCount(q0, flight, delivered, FALSE)
           q == [q0 EXCEPT !.cWnd = flight + count]
<1>1. q0.prrDelivered = r.prrDelivered + delivered
  BY DEF IsTcb, Fields
<1>2. /\ q0.cWnd = r.cWnd /\ q0.ssThresh = r.ssThresh /\ q0.cWndCnt = r.cWndCnt
      /\ q0.prrOut = r.prrOut /\ q0.prrFlight = r.prrFlight
  BY DEF IsTcb, Fields
<1>3. WinTypes(q0)
  BY <1>1, <1>2 DEF WinTypes
<1>4. Wanted(q0, flight, delivered, FALSE) \in Int
  BY <1>2, <1>3, WantedInt
<1>5. count \in Nat
  <2> DEFINE wanted == Wanted(q0, flight, delivered, FALSE)
             least == IF q0.prrOut > 0 THEN 0 ELSE Seg
  <2>1. least \in Nat
    BY Positive
  <2>2. count = Max({wanted, least})
    BY DEF SendCount
  <2> HIDE DEF wanted, least, count
  <2>3. wanted \in Int
    BY <1>4 DEF wanted
  <2>4. least \in Int
    BY <2>1
  <2>5. Max({wanted, least}) \in Int /\ Max({wanted, least}) >= least
    BY <2>3, <2>4, PairMax, Zenon
  <2> QED BY <2>1, <2>2, <2>5
<1>6. IsTcb(q) /\ q.cWnd = flight + count
  BY DEF IsTcb, Fields
<1>7. /\ q.ssThresh = r.ssThresh /\ q.cWndCnt = r.cWndCnt
      /\ q.prrDelivered = r.prrDelivered + delivered
      /\ q.prrOut = r.prrOut /\ q.prrFlight = r.prrFlight
  BY DEF IsTcb, Fields
<1>8. WinTypes(q)
  <2> HIDE DEF q, q0, count
  <2> QED BY <1>5, <1>6, <1>7 DEF WinTypes
<1>9. SameMode(q, r)
  BY DEF SameMode, IsTcb, Fields
<1>10. SameSent(q, r) /\ SameCounts(q, r)
  BY DEF SameSent, SameCounts, IsTcb, Fields
<1>11. DoRecovery(r, flight, delivered, FALSE) = q
  BY DEF DoRecovery
<1> QED BY <1>6, <1>7, <1>8, <1>9, <1>10, <1>11

LEMMA IncreaseFrame ==
    ASSUME NEW r, IsTcb(r), WinTypes(r), NEW segs \in Nat
    PROVE  LET q == IncreaseWindow(r, segs) IN
           /\ IsTcb(q) /\ WinTypes(q) /\ q.ssThresh = r.ssThresh
           /\ SameMode(q, r) /\ SameSent(q, r) /\ SameCounts(q, r)
<1>0. r.cWnd \in Nat /\ r.ssThresh \in Nat /\ r.cWndCnt \in Nat
  BY DEF WinTypes
<1>1. \E w, c \in Nat : IncreaseWindow(r, segs) = [r EXCEPT !.cWnd = w, !.cWndCnt = c]
  <2>1. CASE r.cWnd < r.ssThresh
    <3> DEFINE w == IF segs = 0 THEN r.cWnd ELSE Min({r.cWnd + segs * Seg, r.ssThresh})
    <3>1. r.cWnd + segs * Seg \in Nat
      BY <1>0, SegBytes
    <3>2. r.cWnd + segs * Seg \in Int /\ r.ssThresh \in Int
      BY <1>0, <3>1
    <3>3. Min({r.cWnd + segs * Seg, r.ssThresh}) \in {r.cWnd + segs * Seg, r.ssThresh}
      BY <3>2, PairMin, Zenon
    <3>4. w \in Nat
      BY <1>0, <3>1, <3>3
    <3>5. SlowStart(r, segs) = [r EXCEPT !.cWnd = w, !.cWndCnt = r.cWndCnt]
      BY DEF SlowStart, IsTcb, Fields
    <3> QED BY <1>0, <2>1, <3>4, <3>5 DEF IncreaseWindow
  <2>2. CASE ~ r.cWnd < r.ssThresh
    <3> DEFINE w == Max({r.cWnd \div Seg, 1})
               full == r.cWndCnt >= w
               cnt == (IF full THEN 0 ELSE r.cWndCnt) + segs
               cWnd == r.cWnd + ((IF full THEN 1 ELSE 0) + cnt \div w) * Seg
    <3>1. r.cWnd \div Seg \in Nat
      BY <1>0, Positive, Quotient
    <3>2. w \in Nat \ {0}
      <4>1. r.cWnd \div Seg \in Int /\ 1 \in Int
        BY <3>1
      <4>2. w \in Int /\ w >= 1
        BY <4>1, PairMax, Zenon
      <4> QED BY <4>2
    <3>3. cnt \in Nat
      BY <1>0
    <3> HIDE DEF w, cnt
    <3>4. cnt \div w \in Nat /\ cnt % w \in Nat
      BY <3>2, <3>3, Quotient
    <3>5. (IF full THEN 1 ELSE 0) + cnt \div w \in Nat
      BY <3>4
    <3>6. cWnd \in Nat
      BY <1>0, <3>5, SegBytes
    <3>7. IncreaseWindow(r, segs) = [r EXCEPT !.cWnd = cWnd, !.cWndCnt = cnt % w]
      BY <2>2 DEF IncreaseWindow, CongestionAvoidance, w, cnt, IsTcb, Fields
    <3> QED BY <3>4, <3>6, <3>7
  <2> QED BY <2>1, <2>2
<1>2. PICK w, c \in Nat : IncreaseWindow(r, segs) = [r EXCEPT !.cWnd = w, !.cWndCnt = c]
  BY <1>1
<1> DEFINE q == [r EXCEPT !.cWnd = w, !.cWndCnt = c]
<1>3. IsTcb(q) /\ q.cWnd = w /\ q.cWndCnt = c
  BY DEF IsTcb, Fields
<1>4. /\ q.ssThresh = r.ssThresh /\ q.prrDelivered = r.prrDelivered
      /\ q.prrOut = r.prrOut /\ q.prrFlight = r.prrFlight
  BY DEF IsTcb, Fields
<1>5. WinTypes(q)
  BY <1>3, <1>4 DEF WinTypes
<1>6. SameMode(q, r)
  BY DEF SameMode, IsTcb, Fields
<1>7. SameSent(q, r) /\ SameCounts(q, r)
  BY DEF SameSent, SameCounts, IsTcb, Fields
<1> QED BY <1>2, <1>3, <1>4, <1>5, <1>6, <1>7

(***************************************************************************)
(* The estimates                                                           *)
(***************************************************************************)
\* A queue is seen only if the last round trip took longer than the fastest.
LEMMA QueueSeen ==
    ASSUME NEW r, WinTypes(r), r.lastRtt \in Nat \ {0}, r.minRtt \in Nat, r.tdcv \in Nat \ {0},
           r.minRtt <= r.lastRtt, QueueLength(r) >= r.tdcv
    PROVE  r.minRtt < r.lastRtt
<1> DEFINE w == r.cWnd \div Seg
<1>1. r.cWnd \in Nat
  BY DEF WinTypes
<1>2. w \in Nat
  BY <1>1, Positive, Quotient
<1> HIDE DEF w
<1>3. SUFFICES ASSUME r.minRtt = r.lastRtt PROVE FALSE
  OBVIOUS
<1>4. (w * r.lastRtt) \div r.lastRtt = w
  BY <1>2
<1>5. QueueLength(r) = 0
  BY <1>2, <1>3, <1>4 DEF QueueLength, w
<1> QED BY <1>5

Counted(r, bytes, rtt, min) ==
    [r EXCEPT !.ackedTotal = @ + bytes,
              !.ackedRtt = rtt,
              !.minRtt = min,
              !.ackedEcn = IF r.ecn = "ECE_RCVD" THEN @ + bytes ELSE @,
              !.nextSeq = IF @ = 0 THEN r.nxt ELSE @]

LEMMA CountIs ==
    ASSUME NEW r, IsTcb(r), WinTypes(r), EstTypes(r), NEW bytes \in Nat
    PROVE  \E rtt, min \in Nat :
              /\ Count(r, bytes) = Counted(r, bytes, rtt, min)
              /\ \/ rtt = r.ackedRtt
                 \/ /\ rtt = r.ackedRtt + bytes
                    /\ r.lastRtt # 0
                    /\ r.tdcv # 0 => min < r.lastRtt
<1>0. r.ackedRtt \in Nat /\ r.minRtt \in Nat /\ r.lastRtt \in Nat /\ r.tdcv \in Nat
  BY DEF EstTypes
<1> DEFINE r0 == [r EXCEPT !.ackedTotal = @ + bytes]
<1>1. CASE r.lastRtt = 0
  <2>1. CountRtt(r0, bytes) = r0
    BY <1>1 DEF CountRtt, IsTcb, Fields
  <2>2. Count(r, bytes) = Counted(r, bytes, r.ackedRtt, r.minRtt)
    BY <2>1 DEF Count, Counted, IsTcb, Fields
  <2> QED BY <1>0, <2>2
<1>2. CASE r.lastRtt # 0
  <2> DEFINE m == Min({r.minRtt, r.lastRtt})
             q == [r0 EXCEPT !.minRtt = m]
  <2>0. r.minRtt \in Int /\ r.lastRtt \in Int
    BY <1>0
  <2>1. m \in Int /\ m \in {r.minRtt, r.lastRtt} /\ m <= r.lastRtt
    BY <2>0, PairMin, Zenon
  <2>2. m \in Nat
    BY <1>0, <2>1
  <2> HIDE DEF m
  <2>3. CountRtt(r0, bytes) = IF QueueLength(q) >= q.tdcv
                              THEN [q EXCEPT !.ackedRtt = @ + bytes] ELSE q
    BY <1>2 DEF CountRtt, m, IsTcb, Fields
  <2>4. CASE QueueLength(q) >= q.tdcv
    <3>1. Count(r, bytes) = Counted(r, bytes, r.ackedRtt + bytes, m)
      BY <2>3, <2>4, ZenonT(60) DEF Count, Counted, IsTcb, Fields
    <3>2. q.tdcv = r.tdcv /\ q.minRtt = m /\ q.lastRtt = r.lastRtt
      BY DEF IsTcb, Fields
    <3>3. WinTypes(q)
      BY DEF WinTypes, IsTcb, Fields
    <3>4. r.tdcv # 0 => m < r.lastRtt
      <4> HIDE DEF q
      <4> QED BY <1>0, <1>2, <2>1, <2>2, <2>4, <3>2, <3>3, QueueSeen
    <3>5. r.ackedRtt + bytes \in Nat
      BY <1>0
    <3> QED BY <1>2, <2>2, <3>1, <3>4, <3>5
  <2>5. CASE ~ QueueLength(q) >= q.tdcv
    <3>1. Count(r, bytes) = Counted(r, bytes, r.ackedRtt, m)
      BY <2>3, <2>5, ZenonT(60) DEF Count, Counted, IsTcb, Fields
    <3> QED BY <1>0, <2>2, <3>1
  <2> QED BY <2>4, <2>5
<1> QED BY <1>1, <1>2

Ended(r, a, b, w, ss) ==
    [r EXCEPT !.alpha = a, !.beta = b, !.cWnd = w, !.ssThresh = ss, !.nextSeq = r.nxt,
              !.ackedEcn = 0, !.ackedRtt = 0, !.ackedTotal = 0]

LEMMA EndOfWindowIs ==
    ASSUME NEW r, IsTcb(r), WinTypes(r), EstTypes(r), r.ackedTotal > 0
    PROVE  \E a, b \in 0 .. Scale, w, ss \in Nat :
              /\ EndOfWindow(r) = Ended(r, a, b, w, ss)
              /\ r.ackedRtt = 0 \/ r.ackedEcn > 0 => ss = r.ssThresh
<1> DEFINE a == Ewma(r.alpha, r.ackedEcn, r.ackedTotal)
           b == Ewma(r.beta, r.ackedRtt, r.ackedTotal)
           q == [r EXCEPT !.alpha = a, !.beta = b]
           cut == Max({Reduced(r.cWnd, b), 2 * Seg})
<1>0. /\ r.ackedTotal \in Nat \ {0}
      /\ r.ackedEcn \in 0 .. r.ackedTotal /\ r.ackedRtt \in 0 .. r.ackedTotal
      /\ r.alpha \in 0 .. Scale /\ r.beta \in 0 .. Scale
  BY DEF EstTypes
<1>1. a \in 0 .. Scale /\ b \in 0 .. Scale
  BY <1>0, EwmaRange
<1>2. r.cWnd \in Nat /\ r.ssThresh \in Nat
  BY DEF WinTypes
<1>3. cut \in Nat
  <2>1. Reduced(r.cWnd, b) \in Int /\ 2 * Seg \in Int /\ 2 * Seg >= 0
    BY <1>1, <1>2, ReducedRange, Positive
  <2>2. cut \in Int /\ cut >= 2 * Seg
    BY <2>1, PairMax, Zenon
  <2> QED BY <2>1, <2>2
<1> HIDE DEF a, b
<1>4. CASE r.ackedEcn = 0 /\ r.ackedRtt > 0
  <2>1. EndOfWindow(r) = Ended(r, a, b, cut, cut)
    <3>1. RttCut(q) = [q EXCEPT !.cWnd = cut, !.ssThresh = cut]
      BY DEF RttCut, IsTcb, Fields
    <3>2. EndOfWindow(r) = Reset(RttCut(q))
      BY <1>4 DEF EndOfWindow, a, b
    <3> HIDE DEF cut
    <3> QED BY <3>1, <3>2, ZenonT(60) DEF Reset, Ended, IsTcb, Fields
  <2> QED BY <1>0, <1>1, <1>3, <1>4, <2>1
<1>5. CASE ~ (r.ackedEcn = 0 /\ r.ackedRtt > 0)
  <2>1. EndOfWindow(r) = Reset(q)
    BY <1>5 DEF EndOfWindow, a, b
  <2>2. EndOfWindow(r) = Ended(r, a, b, r.cWnd, r.ssThresh)
    BY <2>1 DEF Reset, Ended, IsTcb, Fields
  <2> QED BY <1>1, <1>2, <2>2
<1> QED BY <1>4, <1>5

\* What an ACK does to the counters of the observation window: it ends the window
\* or adds to it; the threshold is cut for slow round trips at most.
Observed(q, r, bytes) ==
    /\ \/ q.ackedTotal = 0 /\ q.ackedEcn = 0 /\ q.ackedRtt = 0
       \/ /\ q.ackedTotal = r.ackedTotal + bytes
          /\ q.ackedEcn = IF r.ecn = "ECE_RCVD" THEN r.ackedEcn + bytes ELSE r.ackedEcn
          /\ q.ssThresh = r.ssThresh
    /\ q.ssThresh # r.ssThresh \/ q.ackedRtt > 0 =>
          r.ackedRtt > 0 \/ (r.lastRtt # 0 /\ (r.tdcv # 0 => q.minRtt < r.lastRtt))

\* Where the observation window ends: not before m_nextSeq is acknowledged, and then
\* the next one ends at m_nextTxSequence; with an echo the threshold stays.
Windows(q, r) ==
    \/ /\ r.una >= r.nextSeq /\ q.nextSeq = r.nxt
       /\ q.ssThresh # r.ssThresh => r.ackedEcn = 0 /\ r.ecn # "ECE_RCVD"
    \/ /\ q.nextSeq >= r.nextSeq /\ q.ssThresh = r.ssThresh
       /\ q.ackedEcn >= r.ackedEcn /\ (r.ecn = "ECE_RCVD" => q.ackedEcn > 0)

LEMMA PktsAckedStep ==
    ASSUME NEW r, IsTcb(r), SeqTypes(r), WinTypes(r), EstTypes(r), NEW segs \in Nat \ {0}
    PROVE  LET q == PktsAcked(r, segs) IN
           /\ IsTcb(q) /\ SeqTypes(q) /\ WinTypes(q) /\ EstTypes(q)
           /\ SameMode(q, r) /\ SameSent(q, r)
           /\ Observed(q, r, segs * Seg) /\ Windows(q, r)
<1> DEFINE bytes == segs * Seg
<1>0. bytes \in Nat /\ bytes > 0
  BY SegBytes
<1> HIDE DEF bytes
<1>1. PICK rtt, min \in Nat :
         /\ Count(r, bytes) = Counted(r, bytes, rtt, min)
         /\ \/ rtt = r.ackedRtt
            \/ /\ rtt = r.ackedRtt + bytes
               /\ r.lastRtt # 0
               /\ r.tdcv # 0 => min < r.lastRtt
  BY <1>0, CountIs
<1> DEFINE c == Counted(r, bytes, rtt, min)
<1>2. /\ IsTcb(c) /\ SameMode(c, r) /\ SameSent(c, r)
      /\ c.cWnd = r.cWnd /\ c.ssThresh = r.ssThresh /\ c.cWndCnt = r.cWndCnt
      /\ c.prrDelivered = r.prrDelivered /\ c.prrOut = r.prrOut
  BY ZenonT(60) DEF Counted, SameMode, SameSent, IsTcb, Fields
<1>3. /\ c.ackedTotal = r.ackedTotal + bytes
      /\ c.ackedEcn = IF r.ecn = "ECE_RCVD" THEN r.ackedEcn + bytes ELSE r.ackedEcn
      /\ c.ackedRtt = rtt /\ c.minRtt = min
      /\ c.alpha = r.alpha /\ c.beta = r.beta
      /\ c.nextSeq = IF r.nextSeq = 0 THEN r.nxt ELSE r.nextSeq
  BY DEF Counted, IsTcb, Fields
<1> HIDE DEF c
<1>4. SeqTypes(c)
  BY <1>2, <1>3 DEF SeqTypes, SameMode, SameSent
<1>5. WinTypes(c)
  BY <1>2 DEF WinTypes, SameMode
<1>6. EstTypes(c)
  BY <1>0, <1>1, <1>2, <1>3 DEF EstTypes, SameMode
<1>7. PktsAcked(r, segs) = IF c.una >= c.nextSeq THEN EndOfWindow(c) ELSE c
  BY <1>1 DEF PktsAcked, c, bytes
<1>8. CASE c.una >= c.nextSeq
  <2>1. c.ackedTotal > 0
    BY <1>0, <1>3 DEF EstTypes
  <2>2. PICK a, b \in 0 .. Scale, w, ss \in Nat :
           /\ EndOfWindow(c) = Ended(c, a, b, w, ss)
           /\ c.ackedRtt = 0 \/ c.ackedEcn > 0 => ss = c.ssThresh
    BY <1>2, <1>5, <1>6, <2>1, EndOfWindowIs
  <2> DEFINE q == Ended(c, a, b, w, ss)
  <2>3. /\ IsTcb(q) /\ SameMode(q, c) /\ SameSent(q, c)
        /\ q.cWnd = w /\ q.ssThresh = ss /\ q.cWndCnt = c.cWndCnt
        /\ q.prrDelivered = c.prrDelivered /\ q.prrOut = c.prrOut
    BY <1>2, ZenonT(60) DEF Ended, SameMode, SameSent, IsTcb, Fields
  <2>4. /\ q.ackedTotal = 0 /\ q.ackedEcn = 0 /\ q.ackedRtt = 0 /\ q.minRtt = min
        /\ q.alpha = a /\ q.beta = b /\ q.nextSeq = c.nxt
    BY <1>2, <1>3 DEF Ended, IsTcb, Fields
  <2> HIDE DEF q
  <2>5. SeqTypes(q)
    BY <1>4, <2>3, <2>4 DEF SeqTypes, SameMode, SameSent
  <2>6. WinTypes(q)
    BY <1>5, <2>3 DEF WinTypes, SameMode
  <2>7. EstTypes(q)
    BY <1>6, <2>3, <2>4 DEF EstTypes, SameMode
  <2>8. SameMode(q, r) /\ SameSent(q, r)
    BY <1>2, <2>3 DEF SameMode, SameSent
  <2>9. ss # r.ssThresh => rtt # 0
    BY <1>2, <1>3, <2>2
  <2>10. Observed(q, r, bytes)
    BY <1>1, <2>3, <2>4, <2>9 DEF Observed, EstTypes
  <2>11. PktsAcked(r, segs) = q
    BY <1>7, <1>8, <2>2 DEF q
  <2>12. Windows(q, r)
    <3>1. q.nextSeq = r.nxt
      BY <1>2, <2>4 DEF SameSent
    <3>2. c.una = r.una /\ r.una >= r.nextSeq
      BY <1>2, <1>3, <1>8 DEF SameMode, SeqTypes
    <3>3. ss # r.ssThresh => r.ackedEcn = 0 /\ r.ecn # "ECE_RCVD"
      BY <1>0, <1>2, <1>3, <2>2 DEF EstTypes
    <3> QED BY <2>3, <3>1, <3>2, <3>3 DEF Windows
  <2> QED BY <2>3, <2>5, <2>6, <2>7, <2>8, <2>10, <2>11, <2>12 DEF bytes
<1>9. CASE ~ c.una >= c.nextSeq
  <2>1. Observed(c, r, bytes)
    BY <1>1, <1>2, <1>3 DEF Observed, EstTypes
  <2>2. PktsAcked(r, segs) = c
    BY <1>7, <1>9
  <2>3. Windows(c, r)
    BY <1>0, <1>2, <1>3, Positive DEF Windows, SeqTypes, EstTypes
  <2> QED BY <1>2, <1>4, <1>5, <1>6, <2>1, <2>2, <2>3 DEF bytes
<1> QED BY <1>8, <1>9

(***************************************************************************)
(* Sending                                                                 *)
(***************************************************************************)
LEMMA SendStep ==
    ASSUME NEW r, IsTcb(r), SeqTypes(r), WinTypes(r), ModeTypes(r)
    PROVE  LET q == SendPendingData(r) IN
           /\ IsTcb(q) /\ SeqTypes(q) /\ WinTypes(q) /\ ModeTypes(q)
           /\ SameMode(q, r) /\ SameCounts(q, r) /\ q.ssThresh = r.ssThresh
           /\ q.nxt >= r.nxt
<1> DEFINE n == Sendable(r)
<1>0. /\ r.nxt \in Nat /\ r.end \in Nat /\ r.una \in Nat /\ r.cWnd \in Nat
      /\ r.una <= r.nxt /\ r.nxt <= r.end /\ r.end <= DataEnd + 1 /\ r.nxt >= 1
      /\ r.prrOut \in Nat
  BY Positive DEF SeqTypes, WinTypes
<1>1. n \in 0 .. r.end - r.nxt
  <2> DEFINE room == r.cWnd - BytesInFlight(r)
  <2>1. BytesInFlight(r) \in Nat
    BY <1>0, SegBytes DEF BytesInFlight
  <2>2. room \in Int
    BY <1>0, <2>1
  <2> HIDE DEF room
  <2>3. CASE room < Seg
    BY <1>0, <2>3 DEF Sendable, room
  <2>4. CASE ~ room < Seg
    <3>1. room \in Nat
      BY <2>2, <2>4, Positive
    <3>2. room \div Seg \in Nat
      BY <3>1, Positive, Quotient
    <3>3. r.end - r.nxt \in Int /\ room \div Seg \in Int
      BY <1>0, <3>2
    <3>4. /\ Min({r.end - r.nxt, room \div Seg}) \in {r.end - r.nxt, room \div Seg}
          /\ Min({r.end - r.nxt, room \div Seg}) \in Int
          /\ Min({r.end - r.nxt, room \div Seg}) <= r.end - r.nxt
      BY <3>3, PairMin, Zenon
    <3>5. n = Min({r.end - r.nxt, room \div Seg})
      BY <2>4 DEF Sendable, room
    <3> QED BY <1>0, <3>2, <3>4, <3>5
  <2> QED BY <2>3, <2>4
<1> HIDE DEF n
<1>2. CASE n = 0
  BY <1>0, <1>2 DEF SendPendingData, SameMode, SameCounts, n
<1>3. CASE n # 0
  <2> DEFINE cwr == r.ecn = "ECE_RCVD" /\ r.echoSeq > r.cwrSeq
             q == [r EXCEPT !.nxt = @ + n,
                            !.prrOut = IF r.cong = "CWR" THEN @ + n * Seg ELSE @,
                            !.ecn = IF cwr THEN "CWR_SENT" ELSE @,
                            !.cwrSeq = IF cwr THEN r.nxt ELSE @]
  <2>1. SendPendingData(r) = q
    BY <1>3 DEF SendPendingData, SendDataPacket, n
  <2>2. /\ IsTcb(q) /\ SameMode(q, r) /\ SameCounts(q, r) /\ q.ssThresh = r.ssThresh
        /\ q.cWnd = r.cWnd /\ q.cWndCnt = r.cWndCnt /\ q.prrDelivered = r.prrDelivered
    BY ZenonT(60) DEF SameMode, SameCounts, IsTcb, Fields
  <2>3. /\ q.nxt = r.nxt + n
        /\ q.prrOut = IF r.cong = "CWR" THEN r.prrOut + n * Seg ELSE r.prrOut
    BY DEF IsTcb, Fields
  <2>4. q.ecn \in {r.ecn, "CWR_SENT"} /\ q.cwrSeq \in {r.cwrSeq, r.nxt}
    BY DEF IsTcb, Fields
  <2> HIDE DEF q
  <2>5. n * Seg \in Nat
    BY <1>1, <1>0, SegBytes
  <2>6. SeqTypes(q)
    <3>1. q.nxt \in Nat /\ q.nxt <= r.end /\ r.nxt <= q.nxt
      BY <1>0, <1>1, <2>3
    <3>2. q.una = r.una /\ q.end = r.end /\ q.recover = r.recover /\ q.echoSeq = r.echoSeq
          /\ q.nextSeq = r.nextSeq
      BY <2>2 DEF SameMode, SameCounts
    <3> QED BY <1>0, <2>4, <3>1, <3>2, Positive DEF SeqTypes
  <2>7. WinTypes(q)
    BY <1>0, <2>2, <2>3, <2>5 DEF WinTypes, SameMode
  <2>8. ModeTypes(q)
    BY <2>2, <2>4 DEF ModeTypes, SameMode
  <2>9. q.nxt >= r.nxt
    BY <1>0, <1>1, <2>3
  <2> QED BY <2>1, <2>2, <2>6, <2>7, <2>8, <2>9
<1> QED BY <1>2, <1>3

(***************************************************************************)
(* The flags of an ACK                                                     *)
(***************************************************************************)
SocketTypes(r) ==
    IsTcb(r) /\ SeqTypes(r) /\ ModeTypes(r) /\ WinTypes(r) /\ EstTypes(r)

LEMMA EnterCwrStep ==
    ASSUME NEW r, SocketTypes(r), NEW delivered \in Nat
    PROVE  LET q == EnterCwr(r, delivered) IN
           /\ SocketTypes(q) /\ SameSent(q, r) /\ SameCounts(q, r)
           /\ q.una = r.una /\ q.end = r.end /\ q.echoSeq = r.echoSeq
           /\ q.lastRtt = r.lastRtt /\ q.tdcv = r.tdcv /\ q.event = r.event
           /\ q.cong = "CWR" /\ q.recover = r.nxt /\ q.cuts = 1 - r.cuts
           /\ q.prrFlight = BytesInFlight(r)
<1> DEFINE flight == BytesInFlight(r)
           ss == GetSsThresh(r)
           e == [r EXCEPT !.ssThresh = ss, !.cong = "CWR", !.recover = r.nxt, !.cuts = 1 - @,
                          !.prrOut = 0, !.prrDelivered = 0, !.prrFlight = flight]
           q == DoRecovery(e, flight, delivered, FALSE)
<1>0. IsTcb(r) /\ SeqTypes(r) /\ ModeTypes(r) /\ WinTypes(r) /\ EstTypes(r)
  BY DEF SocketTypes
<1>1. flight \in Nat
  <2>1. r.nxt - r.una \in Nat
    BY <1>0, Positive DEF SeqTypes
  <2> QED BY <2>1, SegBytes DEF BytesInFlight
<1>2. ss \in Nat
  BY <1>0, ReducedRange DEF GetSsThresh, WinTypes, EstTypes
<1>3. EnterCwr(r, delivered) = q
  <2>1. EnterCwr(r, delivered) =
           PrrEnterRecovery([r EXCEPT !.ssThresh = ss, !.cong = "CWR", !.recover = r.nxt,
                                      !.cuts = 1 - @],
                            flight, flight, delivered, FALSE)
    BY DEF EnterCwr
  <2> HIDE DEF ss, flight
  <2>2. [[r EXCEPT !.ssThresh = ss, !.cong = "CWR", !.recover = r.nxt, !.cuts = 1 - @]
            EXCEPT !.prrOut = 0, !.prrDelivered = 0, !.prrFlight = flight] = e
    BY <1>0 DEF IsTcb, Fields
  <2> HIDE DEF e
  <2> QED BY <2>1, <2>2 DEF PrrEnterRecovery
<1> HIDE DEF flight, ss, q
<1>4. /\ IsTcb(e) /\ SameSent(e, r) /\ SameCounts(e, r)
      /\ e.una = r.una /\ e.end = r.end /\ e.echoSeq = r.echoSeq
      /\ e.lastRtt = r.lastRtt /\ e.tdcv = r.tdcv /\ e.event = r.event
  BY <1>0, ZenonT(60) DEF SameSent, SameCounts, IsTcb, Fields
<1>5. /\ e.cong = "CWR" /\ e.recover = r.nxt /\ e.cuts = 1 - r.cuts
      /\ e.ssThresh = ss /\ e.prrOut = 0 /\ e.prrDelivered = 0 /\ e.prrFlight = flight
      /\ e.cWnd = r.cWnd /\ e.cWndCnt = r.cWndCnt
  BY <1>0 DEF IsTcb, Fields
<1> HIDE DEF e
<1>6. WinTypes(e)
  BY <1>0, <1>1, <1>2, <1>5 DEF WinTypes
<1>7. flight > e.ssThresh => e.prrFlight > 0
  BY <1>1, <1>2, <1>5
<1>8. /\ IsTcb(q) /\ WinTypes(q)
      /\ SameMode(q, e) /\ SameSent(q, e) /\ SameCounts(q, e)
  BY <1>1, <1>4, <1>6, <1>7, DoRecoveryFrame DEF q
<1>9. SameSent(q, r) /\ SameCounts(q, r)
  BY <1>4, <1>8 DEF SameSent, SameCounts
<1>10. /\ q.una = r.una /\ q.end = r.end /\ q.echoSeq = r.echoSeq
       /\ q.lastRtt = r.lastRtt /\ q.tdcv = r.tdcv /\ q.event = r.event
       /\ q.cong = "CWR" /\ q.recover = r.nxt /\ q.cuts = 1 - r.cuts
       /\ q.prrFlight = flight
  BY <1>4, <1>5, <1>8 DEF SameMode
<1>11. SeqTypes(q)
  <2>1. r.nxt \in 0 .. DataEnd + 1
    BY <1>0, Positive DEF SeqTypes
  <2> QED BY <1>0, <1>9, <1>10, <2>1 DEF SeqTypes, SameSent, SameCounts
<1>12. ModeTypes(q)
  BY <1>0, <1>9, <1>10 DEF ModeTypes, SameSent
<1>13. EstTypes(q)
  BY <1>0, <1>9, <1>10 DEF EstTypes, SameCounts
<1> QED BY <1>3, <1>8, <1>9, <1>10, <1>11, <1>12, <1>13 DEF SocketTypes, flight

\* what the flags of an ACK do when they do not begin a CWR phase
NoCut(q, r, ack) ==
    /\ q.cuts = r.cuts /\ q.recover = r.recover /\ q.prrFlight = r.prrFlight
    /\ q.ssThresh = r.ssThresh
    /\ q.cong = IF r.cong = "CWR" /\ ack > r.recover THEN "OPEN" ELSE r.cong
    /\ q.echoSeq # r.echoSeq => q.cong = "CWR"

\* and when they do
CutBegins(q, r, ack) ==
    /\ q.cuts = 1 - r.cuts /\ q.cong = "CWR" /\ q.recover = r.nxt
    /\ q.prrFlight = (r.nxt - ack) * Seg
    /\ q.echoSeq # r.echoSeq /\ q.ecn = "ECE_RCVD"
    /\ r.cong = "CWR" => ack > r.recover
    /\ ack > r.una

LEMMA FlagsReadStep ==
    ASSUME NEW r, SocketTypes(r), r.echoSeq <= r.una,
           NEW ack \in r.una .. r.nxt, NEW ece \in BOOLEAN
    PROVE  LET q == FlagsRead(r, ack, ece) IN
           /\ SocketTypes(q) /\ SameCounts(q, r)
           /\ q.una = ack /\ q.nxt = r.nxt /\ q.end = r.end
           /\ q.lastRtt = r.lastRtt /\ q.tdcv = r.tdcv /\ q.event = r.event
           /\ q.echoSeq <= ack
           /\ ece /\ ack > r.una => q.ecn = "ECE_RCVD"
           /\ NoCut(q, r, ack) \/ CutBegins(q, r, ack)
<1> DEFINE a == [r EXCEPT !.una = ack]
           x == ExitCwr(a)
           delivered == (ack - r.una) * Seg
           q == EceFlag(x, delivered, ece)
<1>0. IsTcb(r) /\ SeqTypes(r) /\ ModeTypes(r) /\ WinTypes(r) /\ EstTypes(r)
  BY DEF SocketTypes
<1>1. /\ ack \in Nat /\ r.una \in Nat /\ r.nxt \in Nat /\ r.una <= ack /\ ack <= r.nxt
      /\ r.una >= 1 /\ r.nxt <= DataEnd + 1
      /\ r.recover \in Nat /\ r.echoSeq \in Nat
  BY <1>0, Positive DEF SeqTypes
<1>2. delivered \in Nat /\ (delivered > 0 <=> ack > r.una)
  <2>1. ack - r.una \in Nat
    BY <1>1
  <2>2. ack = r.una => delivered = 0
    BY <1>1, Positive
  <2> QED BY <1>1, <2>1, <2>2, SegBytes
<1> HIDE DEF delivered
<1>3. /\ IsTcb(a) /\ a.una = ack /\ a.recover = r.recover /\ a.cong = r.cong
      /\ a.ssThresh = r.ssThresh
  BY <1>0 DEF IsTcb, Fields
<1>4. /\ IsTcb(x) /\ SameCounts(x, r) /\ SameSent(x, r)
      /\ x.una = ack /\ x.end = r.end /\ x.recover = r.recover /\ x.echoSeq = r.echoSeq
      /\ x.prrFlight = r.prrFlight /\ x.lastRtt = r.lastRtt /\ x.tdcv = r.tdcv
      /\ x.event = r.event /\ x.cuts = r.cuts /\ x.ssThresh = r.ssThresh
      /\ x.cWnd \in {r.cWnd, r.ssThresh}
      /\ x.cWndCnt = r.cWndCnt /\ x.prrDelivered = r.prrDelivered /\ x.prrOut = r.prrOut
      /\ x.cong = IF r.cong = "CWR" /\ ack > r.recover THEN "OPEN" ELSE r.cong
  <2>1. CASE r.cong = "CWR" /\ ack > r.recover
    <3>1. x = [r EXCEPT !.una = ack, !.cong = "OPEN", !.cWnd = r.ssThresh]
      BY <1>0, <1>3, <2>1 DEF ExitCwr, IsTcb, Fields
    <3> HIDE DEF x
    <3>2. IsTcb(x) /\ SameCounts(x, r) /\ SameSent(x, r)
      BY <1>0, <3>1 DEF SameCounts, SameSent, IsTcb, Fields
    <3>3. /\ x.una = ack /\ x.end = r.end /\ x.recover = r.recover /\ x.echoSeq = r.echoSeq
          /\ x.prrFlight = r.prrFlight /\ x.lastRtt = r.lastRtt /\ x.tdcv = r.tdcv
          /\ x.event = r.event /\ x.cuts = r.cuts /\ x.ssThresh = r.ssThresh
      BY <1>0, <3>1 DEF IsTcb, Fields
    <3>4. /\ x.cWnd = r.ssThresh /\ x.cong = "OPEN"
          /\ x.cWndCnt = r.cWndCnt /\ x.prrDelivered = r.prrDelivered /\ x.prrOut = r.prrOut
      BY <1>0, <3>1 DEF IsTcb, Fields
    <3> QED BY <2>1, <3>2, <3>3, <3>4
  <2>2. CASE ~ (r.cong = "CWR" /\ ack > r.recover)
    <3>1. x = a
      BY <1>3, <2>2 DEF ExitCwr
    <3> QED BY <1>0, <2>2, <3>1 DEF SameCounts, SameSent, IsTcb, Fields
  <2> QED BY <2>1, <2>2
<1> HIDE DEF x
<1>5. SocketTypes(x)
  <2>1. SeqTypes(x)
    <3>1. ack \in 1 .. DataEnd + 1
      BY <1>1, Positive
    <3>2. /\ x.una = ack /\ x.nxt = r.nxt /\ x.end = r.end /\ x.recover = r.recover
          /\ x.echoSeq = r.echoSeq /\ x.cwrSeq = r.cwrSeq /\ x.nextSeq = r.nextSeq
      BY <1>4 DEF SameSent, SameCounts
    <3> QED BY <1>0, <1>1, <3>1, <3>2 DEF SeqTypes
  <2>2. ModeTypes(x)
    BY <1>0, <1>4 DEF ModeTypes, SameSent
  <2>3. WinTypes(x)
    BY <1>0, <1>4 DEF WinTypes
  <2>4. EstTypes(x)
    BY <1>0, <1>4 DEF EstTypes, SameCounts
  <2> QED BY <1>4, <2>1, <2>2, <2>3, <2>4 DEF SocketTypes
<1>6. CASE delivered > 0 /\ ece
  <2> DEFINE y == [x EXCEPT !.echoSeq = x.una, !.ecn = "ECE_RCVD"]
  <2>1. x.echoSeq < x.una
    BY <1>1, <1>2, <1>4, <1>6
  <2>2. q = IF y.cong # "CWR" THEN EnterCwr(y, delivered) ELSE y
    BY <1>6, <2>1 DEF EceFlag
  <2>3. /\ IsTcb(y) /\ SameCounts(y, x) /\ y.una = ack /\ y.echoSeq = ack /\ y.ecn = "ECE_RCVD"
        /\ y.nxt = x.nxt /\ y.end = x.end /\ y.recover = x.recover /\ y.cwrSeq = x.cwrSeq
        /\ y.prrFlight = x.prrFlight /\ y.lastRtt = x.lastRtt /\ y.tdcv = x.tdcv
        /\ y.event = x.event /\ y.cuts = x.cuts /\ y.ssThresh = x.ssThresh /\ y.cong = x.cong
        /\ y.cWnd = x.cWnd /\ y.cWndCnt = x.cWndCnt /\ y.prrDelivered = x.prrDelivered
        /\ y.prrOut = x.prrOut
    BY <1>4 DEF SameCounts, IsTcb, Fields
  <2> HIDE DEF y
  <2>4. SocketTypes(y)
    <3>1. SeqTypes(y)
      <4>1. ack \in 0 .. DataEnd + 1 /\ y.nextSeq = x.nextSeq /\ y.una = x.una
        BY <1>1, <1>4, <2>3, Positive DEF SameCounts
      <4> QED BY <1>5, <2>3, <4>1 DEF SocketTypes, SeqTypes
    <3>2. ModeTypes(y)
      BY <1>5, <2>3 DEF SocketTypes, ModeTypes
    <3>3. WinTypes(y)
      BY <1>5, <2>3 DEF SocketTypes, WinTypes
    <3>4. EstTypes(y)
      BY <1>5, <2>3 DEF SocketTypes, EstTypes, SameCounts
    <3> QED BY <2>3, <3>1, <3>2, <3>3, <3>4 DEF SocketTypes
  <2>5. CASE y.cong = "CWR"
    <3>1. q = y
      BY <2>2, <2>5
    <3> HIDE DEF q
    <3>2. NoCut(q, r, ack)
      BY <1>4, <2>3, <2>5, <3>1 DEF NoCut
    <3>3. SameCounts(q, r)
      BY <1>4, <2>3, <3>1 DEF SameCounts
    <3> QED BY <1>1, <1>4, <2>3, <2>4, <3>1, <3>2, <3>3 DEF FlagsRead, SameSent, delivered, x, q
  <2>6. CASE y.cong # "CWR"
    <3>1. q = EnterCwr(y, delivered)
      BY <2>2, <2>6
    <3>2. /\ SocketTypes(q) /\ SameSent(q, y) /\ SameCounts(q, y)
          /\ q.una = y.una /\ q.end = y.end /\ q.echoSeq = y.echoSeq
          /\ q.lastRtt = y.lastRtt /\ q.tdcv = y.tdcv /\ q.event = y.event
          /\ q.cong = "CWR" /\ q.recover = y.nxt /\ q.cuts = 1 - y.cuts
          /\ q.prrFlight = (y.nxt - y.una) * Seg
      BY <1>2, <2>4, <3>1, EnterCwrStep DEF BytesInFlight
    <3> HIDE DEF q
    <3>3. SameCounts(q, r)
      BY <1>4, <2>3, <3>2 DEF SameCounts
    <3>4. q.nxt = r.nxt /\ q.ecn = "ECE_RCVD"
      BY <1>4, <2>3, <3>2 DEF SameSent
    <3>5. q.echoSeq # r.echoSeq
      BY <1>1, <1>4, <2>1, <2>3, <3>2
    <3>6. r.cong = "CWR" => ack > r.recover
      BY <1>4, <2>3, <2>6
    <3>7. CutBegins(q, r, ack)
      BY <1>2, <1>4, <1>6, <2>3, <3>2, <3>4, <3>5, <3>6 DEF CutBegins, SameSent
    <3> QED BY <1>1, <1>4, <2>3, <3>2, <3>3, <3>4, <3>7 DEF FlagsRead, delivered, x, q
  <2> QED BY <2>5, <2>6
<1>7. CASE ~ (delivered > 0 /\ ece)
  <2>1. q = IF x.ecn = "ECE_RCVD" /\ ~ ece THEN [x EXCEPT !.ecn = "IDLE"] ELSE x
    BY <1>7 DEF EceFlag
  <2>2. /\ IsTcb(q) /\ SameCounts(q, x) /\ q.ecn \in {x.ecn, "IDLE"}
        /\ q.una = x.una /\ q.echoSeq = x.echoSeq
        /\ q.nxt = x.nxt /\ q.end = x.end /\ q.recover = x.recover /\ q.cwrSeq = x.cwrSeq
        /\ q.prrFlight = x.prrFlight /\ q.lastRtt = x.lastRtt /\ q.tdcv = x.tdcv
        /\ q.event = x.event /\ q.cuts = x.cuts /\ q.ssThresh = x.ssThresh /\ q.cong = x.cong
        /\ q.cWnd = x.cWnd /\ q.cWndCnt = x.cWndCnt /\ q.prrDelivered = x.prrDelivered
        /\ q.prrOut = x.prrOut
    BY <1>4, <2>1 DEF SameCounts, IsTcb, Fields
  <2> HIDE DEF q
  <2>3. SocketTypes(q)
    <3>1. SeqTypes(q)
      BY <1>5, <2>2 DEF SocketTypes, SeqTypes, SameCounts
    <3>2. ModeTypes(q)
      BY <1>5, <2>2 DEF SocketTypes, ModeTypes
    <3>3. WinTypes(q)
      BY <1>5, <2>2 DEF SocketTypes, WinTypes
    <3>4. EstTypes(q)
      BY <1>5, <2>2 DEF SocketTypes, EstTypes, SameCounts
    <3> QED BY <2>2, <3>1, <3>2, <3>3, <3>4 DEF SocketTypes
  <2>4. NoCut(q, r, ack)
    BY <1>4, <2>2 DEF NoCut
  <2>5. SameCounts(q, r)
    BY <1>4, <2>2 DEF SameCounts
  <2> QED BY <1>1, <1>2, <1>4, <1>7, <2>2, <2>3, <2>4, <2>5
          DEF FlagsRead, SameSent, delivered, x, q
<1> QED BY <1>6, <1>7

(***************************************************************************)
(* The processing of an ACK                                                *)
(***************************************************************************)
\* the segments an ACK counts: one if it acknowledges nothing new
CountedSegs(segs) == IF segs = 0 THEN 1 ELSE segs

LEMMA ProcessAckStep ==
    ASSUME NEW r, SocketTypes(r), NEW segs \in Nat,
           r.cong = "CWR" /\ segs > 0 /\ r.una < r.nxt => r.prrFlight > 0
    PROVE  LET q == ProcessAck(r, segs) IN
           /\ SocketTypes(q) /\ SameMode(q, r) /\ SameSent(q, r)
           /\ IF segs = 0 /\ r.una = r.nxt THEN q = r
              ELSE Observed(q, r, CountedSegs(segs) * Seg) /\ Windows(q, r)
<1> DEFINE c == PktsAcked(r, CountedSegs(segs))
           q == ProcessAck(r, segs)
<1>0. IsTcb(r) /\ SeqTypes(r) /\ ModeTypes(r) /\ WinTypes(r) /\ EstTypes(r)
  BY DEF SocketTypes
<1>1. CountedSegs(segs) \in Nat \ {0}
  BY DEF CountedSegs
<1>2. /\ IsTcb(c) /\ SeqTypes(c) /\ WinTypes(c) /\ EstTypes(c)
      /\ SameMode(c, r) /\ SameSent(c, r)
      /\ Observed(c, r, CountedSegs(segs) * Seg) /\ Windows(c, r)
  BY <1>0, <1>1, PktsAckedStep
<1> HIDE DEF c
<1>3. ModeTypes(c)
  BY <1>0, <1>2 DEF ModeTypes, SameMode, SameSent
<1>4. ASSUME NEW d, IsTcb(d), WinTypes(d), d.ssThresh = c.ssThresh,
             SameMode(d, c), SameSent(d, c), SameCounts(d, c)
      PROVE  /\ SocketTypes(d) /\ SameMode(d, r) /\ SameSent(d, r)
             /\ Observed(d, r, CountedSegs(segs) * Seg) /\ Windows(d, r)
  <2>1. SeqTypes(d)
    BY <1>2, <1>4 DEF SeqTypes, SameMode, SameSent, SameCounts
  <2>2. ModeTypes(d)
    BY <1>3, <1>4 DEF ModeTypes, SameMode, SameSent
  <2>3. EstTypes(d)
    BY <1>2, <1>4 DEF EstTypes, SameMode, SameCounts
  <2>4. SameMode(d, r) /\ SameSent(d, r)
    BY <1>2, <1>4 DEF SameMode, SameSent
  <2>5. Observed(d, r, CountedSegs(segs) * Seg)
    BY <1>2, <1>4 DEF Observed, SameCounts
  <2>6. Windows(d, r)
    BY <1>2, <1>4 DEF Windows, SameCounts
  <2> QED BY <1>4, <2>1, <2>2, <2>3, <2>4, <2>5, <2>6 DEF SocketTypes
<1>5. CASE segs = 0 /\ r.una = r.nxt
  BY <1>5 DEF ProcessAck, SameMode, SameSent
<1>6. CASE segs = 0 /\ r.una # r.nxt
  <2>1. q = c
    BY <1>6 DEF ProcessAck, CountedSegs, c
  <2> QED BY <1>2, <1>3, <1>6, <2>1 DEF SocketTypes
<1>7. CASE segs > 0 /\ r.cong = "CWR"
  <2> DEFINE flight == BytesInFlight(r)
  <2>1. /\ r.nxt - r.una \in Nat /\ r.una \in Nat /\ r.nxt \in Nat
    BY <1>0, Positive DEF SeqTypes
  <2>2. flight \in Nat /\ (flight > 0 => r.una < r.nxt)
    <3>1. r.una = r.nxt => flight = 0
      BY <2>1, Positive DEF BytesInFlight
    <3> QED BY <2>1, <3>1, SegBytes DEF BytesInFlight
  <2>3. segs * Seg \in Nat
    BY SegBytes
  <2>4. c.ssThresh \in Nat /\ c.prrFlight = r.prrFlight
    BY <1>2 DEF WinTypes, SameMode
  <2> HIDE DEF flight
  <2>5. flight > c.ssThresh => c.prrFlight > 0
    BY <1>7, <2>2, <2>4
  <2>6. q = DoRecovery(c, flight, segs * Seg, FALSE)
    <3>1. c = PktsAcked(r, segs)
      BY <1>7 DEF CountedSegs, c
    <3>2. segs # 0
      BY <1>7
    <3>3. q = DoRecovery(PktsAcked(r, segs), BytesInFlight(r), segs * Seg, FALSE)
      BY <1>7, <3>2, Zenon DEF ProcessAck
    <3> HIDE DEF q
    <3> QED BY <3>1, <3>3 DEF flight
  <2> HIDE DEF q
  <2>7. /\ IsTcb(q) /\ WinTypes(q) /\ q.ssThresh = c.ssThresh
        /\ SameMode(q, c) /\ SameSent(q, c) /\ SameCounts(q, c)
    BY <1>2, <2>2, <2>3, <2>5, <2>6, DoRecoveryFrame
  <2>8. /\ SocketTypes(q) /\ SameMode(q, r) /\ SameSent(q, r)
        /\ Observed(q, r, CountedSegs(segs) * Seg) /\ Windows(q, r)
    BY <1>4, <2>7
  <2> QED BY <1>7, <2>8 DEF q
<1>8. CASE segs > 0 /\ r.cong # "CWR"
  <2>1. q = IncreaseWindow(c, segs)
    BY <1>8 DEF ProcessAck, CountedSegs, c
  <2>2. /\ IsTcb(q) /\ WinTypes(q) /\ q.ssThresh = c.ssThresh
        /\ SameMode(q, c) /\ SameSent(q, c) /\ SameCounts(q, c)
    BY <1>2, <2>1, IncreaseFrame
  <2> HIDE DEF q
  <2>3. /\ SocketTypes(q) /\ SameMode(q, r) /\ SameSent(q, r)
        /\ Observed(q, r, CountedSegs(segs) * Seg) /\ Windows(q, r)
    BY <1>4, <2>2
  <2> QED BY <1>8, <2>3 DEF q
<1> QED BY <1>5, <1>6, <1>7, <1>8

(***************************************************************************)
(* The inductive invariant                                                 *)
(***************************************************************************)
\* A CWR phase lasts until what was sent at its beginning is acknowledged.
CwrInv(r, h) ==
    /\ h.cutAt \in Nat
    /\ r.cong = "CWR" => r.recover = h.cutAt /\ (r.una < r.recover => r.prrFlight > 0)
    /\ r.cong = "OPEN" => r.una > h.cutAt

\* What the observation window has counted since it began.
CountInv(r, h) ==
    /\ h.echo => r.ackedEcn > 0
    /\ h.base \in Nat
    /\ h.base > 0 => r.ackedTotal >= (r.una - h.base) * Seg

\* Without a round trip time no byte is slow; a slow byte was seen in this window.
RttInv(r, h) ==
    /\ r.lastRtt = 0 => r.ackedRtt = 0
    /\ r.tdcv # 0 /\ r.ackedRtt > 0 => h.slow

\* Until what was in flight when a CWR phase began is acknowledged, either the
\* observation window has counted the echo or it ends no earlier than that flight:
\* no window ends with a cut for slow round trips.
HeldInv(r, h) ==
    /\ r.cong = "CWR" => r.recover <= r.nxt
    /\ r.cong = "CWR" /\ r.una < r.recover =>
          r.ssThresh = h.target /\ (r.ackedEcn > 0 \/ r.nextSeq >= r.recover)

IInv ==
    /\ SocketTypes(tcb) /\ tcb.event \in BOOLEAN /\ tcb.tdcv \in InitTdcv
    /\ tcb.echoSeq <= tcb.una
    /\ CwrInv(tcb, hist) /\ CountInv(tcb, hist) /\ RttInv(tcb, hist)
    /\ HeldInv(tcb, hist)

\* what an ACK does to the threshold and to the number of reductions
AckEffect ==
    /\ tcb'.cuts # tcb.cuts <=> tcb'.echoSeq # tcb.echoSeq /\ tcb'.una > hist.cutAt
    /\ tcb.tdcv # 0 /\ tcb'.ssThresh < tcb.ssThresh =>
          tcb'.cuts # tcb.cuts \/ hist.slow \/ tcb'.lastRtt > tcb'.minRtt

LEMMA AckStep ==
    ASSUME IInv, NEW ack \in 1 .. DataEnd + 1, NEW ece \in BOOLEAN,
           NEW rtt \in Rtts \cup {tcb.lastRtt}, Ack(ack, ece, rtt)
    PROVE  IInv' /\ AckEffect
<1> DEFINE r == [tcb EXCEPT !.lastRtt = rtt]
           segs == ack - tcb.una
           f == FlagsRead(r, ack, ece)
           p == ProcessAck(f, segs)
<1>0. IsTcb(tcb) /\ SeqTypes(tcb) /\ ModeTypes(tcb) /\ WinTypes(tcb) /\ EstTypes(tcb)
  BY DEF IInv, SocketTypes
<1>1. /\ tcb.una \in Nat /\ tcb.nxt \in Nat /\ tcb.recover \in Nat /\ tcb.echoSeq \in Nat
      /\ tcb.cuts \in {0, 1} /\ tcb.cong \in {"OPEN", "CWR"} /\ tcb.lastRtt \in Nat
      /\ hist.cutAt \in Nat /\ tcb.una <= tcb.nxt /\ tcb.echoSeq <= tcb.una
  BY <1>0, Positive DEF IInv, SeqTypes, ModeTypes, EstTypes, CwrInv
<1>2. ack \in tcb.una .. tcb.nxt /\ segs \in Nat /\ (segs > 0 <=> ack > tcb.una)
  BY <1>1, Positive DEF Ack
<1>3. rtt \in Nat /\ (rtt = 0 => tcb.lastRtt = 0)
  BY <1>1, DstcpConstants
<1>4. /\ IsTcb(r) /\ SameSent(r, tcb) /\ SameCounts(r, tcb)
      /\ r.una = tcb.una /\ r.end = tcb.end /\ r.cong = tcb.cong /\ r.recover = tcb.recover
      /\ r.echoSeq = tcb.echoSeq /\ r.prrFlight = tcb.prrFlight /\ r.lastRtt = rtt
      /\ r.tdcv = tcb.tdcv /\ r.event = tcb.event /\ r.cuts = tcb.cuts
      /\ r.cWnd = tcb.cWnd /\ r.ssThresh = tcb.ssThresh /\ r.cWndCnt = tcb.cWndCnt
      /\ r.prrDelivered = tcb.prrDelivered /\ r.prrOut = tcb.prrOut
  BY <1>0 DEF SameSent, SameCounts, IsTcb, Fields
<1>5. rtt = tcb.lastRtt => r = tcb
  BY <1>0 DEF IsTcb, Fields
<1> HIDE DEF r, segs
<1>6. SocketTypes(r)
  <2>1. SeqTypes(r) /\ ModeTypes(r)
    BY <1>0, <1>4 DEF SeqTypes, ModeTypes, SameSent, SameCounts
  <2>2. WinTypes(r)
    BY <1>0, <1>4 DEF WinTypes
  <2>3. EstTypes(r)
    BY <1>0, <1>3, <1>4 DEF EstTypes, SameCounts
  <2> QED BY <1>4, <2>1, <2>2, <2>3 DEF SocketTypes
<1>7. /\ SocketTypes(f) /\ SameCounts(f, r)
      /\ f.una = ack /\ f.nxt = r.nxt /\ f.end = r.end
      /\ f.lastRtt = r.lastRtt /\ f.tdcv = r.tdcv /\ f.event = r.event
      /\ f.echoSeq <= ack
      /\ ece /\ ack > r.una => f.ecn = "ECE_RCVD"
      /\ NoCut(f, r, ack) \/ CutBegins(f, r, ack)
  <2>1. r.echoSeq <= r.una /\ ack \in r.una .. r.nxt
    BY <1>1, <1>2, <1>4 DEF SameSent
  <2> QED BY <1>6, <2>1, FlagsReadStep
<1> HIDE DEF f
<1>8. f.cong = "CWR" /\ segs > 0 /\ f.una < f.nxt => f.prrFlight > 0
  <2>1. CASE NoCut(f, r, ack)
    BY <1>1, <1>2, <1>4, <1>7, <2>1 DEF NoCut, IInv, CwrInv, SameSent
  <2>2. CASE CutBegins(f, r, ack)
    <3>1. f.una < f.nxt => tcb.nxt - ack \in Nat /\ tcb.nxt - ack > 0
      BY <1>1, <1>2, <1>4, <1>7 DEF SameSent
    <3>2. f.prrFlight = (tcb.nxt - ack) * Seg
      BY <1>4, <2>2 DEF CutBegins, SameSent
    <3> QED BY <3>1, <3>2, SegBytes
  <2> QED BY <1>7, <2>1, <2>2
<1>9. /\ SocketTypes(p) /\ SameMode(p, f) /\ SameSent(p, f)
      /\ IF segs = 0 /\ f.una = f.nxt THEN p = f
         ELSE Observed(p, f, CountedSegs(segs) * Seg) /\ Windows(p, f)
  BY <1>2, <1>7, <1>8, ProcessAckStep
<1> HIDE DEF p
<1>10. /\ SocketTypes(tcb') /\ SameMode(tcb', p) /\ SameCounts(tcb', p)
       /\ tcb'.ssThresh = p.ssThresh /\ tcb'.nxt >= p.nxt
  <2>1. tcb' = SendPendingData(p)
    BY DEF Ack, ReceivedAck, p, f, segs, r
  <2>2. /\ IsTcb(tcb') /\ SeqTypes(tcb') /\ WinTypes(tcb') /\ ModeTypes(tcb')
        /\ SameMode(tcb', p) /\ SameCounts(tcb', p) /\ tcb'.ssThresh = p.ssThresh
        /\ tcb'.nxt >= p.nxt
    BY <1>9, <2>1, SendStep DEF SocketTypes
  <2>3. EstTypes(tcb')
    BY <1>9, <2>2 DEF SocketTypes, EstTypes, SameCounts, SameMode
  <2> QED BY <2>2, <2>3 DEF SocketTypes
<1>11. SameMode(tcb', f)
  BY <1>9, <1>10 DEF SameMode
<1>12. /\ tcb'.una = ack /\ tcb'.lastRtt = rtt /\ tcb'.tdcv = tcb.tdcv
       /\ tcb'.event = tcb.event /\ tcb'.echoSeq = f.echoSeq /\ tcb'.echoSeq <= ack
       /\ tcb'.cong = f.cong /\ tcb'.recover = f.recover /\ tcb'.prrFlight = f.prrFlight
       /\ tcb'.cuts = f.cuts
  BY <1>4, <1>7, <1>11 DEF SameMode
<1>12a. tcb'.nxt \in Nat /\ tcb'.nxt >= tcb.nxt
  BY <1>1, <1>4, <1>7, <1>9, <1>10, Positive DEF SameSent, SocketTypes, SeqTypes
<1>13. NoCut(f, tcb, ack) \/ CutBegins(f, tcb, ack)
  BY <1>4, <1>7 DEF NoCut, CutBegins, SameSent
<1>14. hist' = Noted(tcb', ack, ece, tcb.una < tcb.nxt)
  BY DEF Ack
<1> DEFINE updated == tcb.una < tcb.nxt /\ tcb'.ackedTotal = 0
<1>15. /\ hist'.echo = (~ updated /\ (hist.echo \/ (ece /\ ack > tcb.una)))
       /\ hist'.slow = (~ updated /\ (hist.slow \/ tcb'.lastRtt > tcb'.minRtt))
       /\ hist'.base = IF updated THEN ack ELSE hist.base
       /\ hist'.cutAt = IF tcb'.cuts # tcb.cuts THEN tcb.nxt ELSE hist.cutAt
       /\ hist'.target = IF tcb'.cuts # tcb.cuts THEN f.ssThresh ELSE hist.target
  <2>1. f = FlagsRead([tcb EXCEPT !.lastRtt = tcb'.lastRtt], ack, ece)
    BY <1>12 DEF f, r
  <2> QED BY <1>14, <2>1 DEF Noted
<1> HIDE DEF updated
<1>15a. /\ hist'.echo => ~ updated /\ (hist.echo \/ (ece /\ ack > tcb.una))
        /\ ~ updated /\ (hist.slow \/ tcb'.lastRtt > tcb'.minRtt) => hist'.slow
  BY <1>15, Zenon
<1> USE DEF updated
<1>16. CwrInv(tcb', hist')
  <2>1. CASE NoCut(f, tcb, ack)
    BY <1>1, <1>2, <1>12, <1>15, <2>1 DEF NoCut, IInv, CwrInv
  <2>2. CASE CutBegins(f, tcb, ack)
    <3>1. ack < tcb.nxt => (tcb.nxt - ack) * Seg > 0
      BY <1>1, <1>2, SegBytes
    <3>2. /\ tcb'.cuts # tcb.cuts /\ hist'.cutAt = tcb.nxt
      BY <1>1, <1>12, <1>15, <2>2 DEF CutBegins
    <3> QED BY <1>1, <1>12, <2>2, <3>1, <3>2 DEF CutBegins, CwrInv
  <2> QED BY <1>13, <2>1, <2>2
<1>17. \/ /\ segs = 0 /\ ~ (tcb.una < tcb.nxt) /\ SameCounts(tcb', tcb)
          /\ tcb'.ssThresh = f.ssThresh
       \/ /\ tcb.una < tcb.nxt
          /\ Observed(tcb', f, CountedSegs(segs) * Seg) /\ Windows(tcb', f)
  <2>1. CASE segs = 0 /\ f.una = f.nxt
    <3>1. p = f /\ ~ (tcb.una < tcb.nxt)
      BY <1>1, <1>2, <1>4, <1>7, <1>9, <2>1 DEF SameSent
    <3>2. SameCounts(tcb', tcb) /\ tcb'.ssThresh = f.ssThresh
      BY <1>4, <1>7, <1>10, <3>1 DEF SameCounts
    <3> QED BY <2>1, <3>1, <3>2
  <2>2. CASE ~ (segs = 0 /\ f.una = f.nxt)
    <3>1. tcb.una < tcb.nxt
      BY <1>1, <1>2, <1>4, <1>7, <2>2 DEF SameSent
    <3>2. Observed(tcb', f, CountedSegs(segs) * Seg)
      BY <1>9, <1>10, <2>2 DEF Observed, SameCounts
    <3>3. Windows(tcb', f)
      BY <1>9, <1>10, <2>2 DEF Windows, SameCounts
    <3> QED BY <3>1, <3>2, <3>3
  <2> QED BY <2>1, <2>2
<1>18. /\ f.ackedTotal = tcb.ackedTotal /\ f.ackedEcn = tcb.ackedEcn
       /\ f.ackedRtt = tcb.ackedRtt /\ f.lastRtt = rtt /\ f.tdcv = tcb.tdcv
  BY <1>4, <1>7 DEF SameCounts
<1>19. /\ tcb.ackedTotal \in Nat /\ tcb.ackedEcn \in Nat /\ tcb.ackedRtt \in Nat
       /\ tcb'.ackedTotal \in Nat /\ tcb'.ackedEcn \in Nat /\ tcb'.ackedRtt \in Nat
       /\ tcb'.ackedRtt <= tcb'.ackedTotal
       /\ tcb'.minRtt \in Nat /\ tcb'.ssThresh \in Nat /\ tcb.ssThresh \in Nat
       /\ tcb.tdcv \in Nat
  BY <1>0, <1>10 DEF SocketTypes, EstTypes, WinTypes
<1>20. /\ CountedSegs(segs) * Seg \in Nat /\ CountedSegs(segs) * Seg > 0
       /\ CountedSegs(segs) * Seg >= segs * Seg /\ segs * Seg \in Nat
  <2>1. CountedSegs(segs) \in Nat \ {0}
    BY <1>2 DEF CountedSegs
  <2>2. segs = 0 => segs * Seg = 0
    BY Positive
  <2>3. segs > 0 => CountedSegs(segs) = segs
    BY <1>2 DEF CountedSegs
  <2> QED BY <1>2, <2>1, <2>2, <2>3, SegBytes
<1>21. CountInv(tcb', hist')
  <2>1. hist'.echo => tcb'.ackedEcn > 0
    <3> SUFFICES ASSUME hist'.echo PROVE tcb'.ackedEcn > 0
      OBVIOUS
    <3>1. ~ updated /\ (hist.echo \/ (ece /\ ack > tcb.una))
      BY <1>15a
    <3>2. hist.echo => tcb.ackedEcn > 0
      BY DEF IInv, CountInv
    <3>3. CASE segs = 0 /\ ~ (tcb.una < tcb.nxt) /\ SameCounts(tcb', tcb)
      BY <1>2, <3>1, <3>2, <3>3 DEF SameCounts
    <3>4. CASE tcb.una < tcb.nxt /\ Observed(tcb', f, CountedSegs(segs) * Seg)
      <4>1. tcb'.ackedEcn = IF f.ecn = "ECE_RCVD" THEN tcb.ackedEcn + CountedSegs(segs) * Seg
                                                  ELSE tcb.ackedEcn
        BY <1>18, <3>1, <3>4 DEF Observed
      <4>2. CASE hist.echo
        BY <1>19, <1>20, <3>2, <4>1, <4>2
      <4>3. CASE ece /\ ack > tcb.una
        BY <1>4, <1>7, <1>19, <1>20, <4>1, <4>3
      <4> QED BY <3>1, <4>2, <4>3
    <3> QED BY <1>17, <3>3, <3>4
  <2>2. hist.base \in Nat /\ hist'.base \in Nat
    BY <1>2, <1>15, Positive DEF IInv, CountInv
  <2>3. hist'.base > 0 => tcb'.ackedTotal >= (tcb'.una - hist'.base) * Seg
    <3>1. CASE updated
      <4>1. tcb'.una - hist'.base = 0
        BY <1>12, <1>15, <2>2, <3>1
      <4>2. (tcb'.una - hist'.base) * Seg = 0
        BY <4>1, Positive
      <4> QED BY <1>19, <4>2
    <3>2. CASE ~ updated
      <4>1. tcb'.ackedTotal >= tcb.ackedTotal + segs * Seg
        <5>1. segs = 0 => segs * Seg = 0
          BY Positive
        <5> QED BY <1>17, <1>18, <1>19, <1>20, <3>2, <5>1 DEF Observed, SameCounts
      <4>2. (tcb'.una - hist.base) * Seg = (tcb.una - hist.base) * Seg + segs * Seg
        BY <1>1, <1>2, <1>12, <2>2, Positive DEF segs
      <4>3. (tcb.una - hist.base) * Seg \in Int
        BY <1>1, <2>2, Positive
      <4> QED BY <1>15, <1>19, <1>20, <3>2, <4>1, <4>2, <4>3 DEF IInv, CountInv
    <3> QED BY <3>1, <3>2
  <2> QED BY <2>1, <2>2, <2>3 DEF CountInv
<1>22. tcb'.ssThresh # f.ssThresh \/ tcb'.ackedRtt > 0 =>
          \/ tcb.ackedRtt > 0
          \/ rtt # 0 /\ (tcb.tdcv # 0 => tcb'.minRtt < rtt)
  BY <1>17, <1>18, <1>19 DEF Observed, SameCounts
<1>23. RttInv(tcb', hist')
  <2>1. tcb'.tdcv # 0 /\ tcb'.ackedRtt > 0 => hist'.slow
    <3> SUFFICES ASSUME tcb'.tdcv # 0, tcb'.ackedRtt > 0 PROVE hist'.slow
      OBVIOUS
    <3>1. ~ updated
      BY <1>19
    <3>2. hist.slow \/ tcb'.lastRtt > tcb'.minRtt
      BY <1>3, <1>12, <1>19, <1>22 DEF IInv, RttInv
    <3> QED BY <1>15a, <3>1, <3>2
  <2>2. ASSUME rtt = 0
        PROVE  tcb'.ackedRtt = 0
    BY <1>3, <1>19, <1>22, <2>2 DEF IInv, RttInv
  <2> QED BY <1>12, <2>1, <2>2 DEF RttInv
<1>24. AckEffect
  <2>1. tcb'.cuts # tcb.cuts <=> tcb'.echoSeq # tcb.echoSeq /\ tcb'.una > hist.cutAt
    <3>1. CASE NoCut(f, tcb, ack)
      BY <1>1, <1>2, <1>12, <3>1 DEF NoCut, IInv, CwrInv
    <3>2. CASE CutBegins(f, tcb, ack)
      BY <1>1, <1>2, <1>12, <3>2 DEF CutBegins, IInv, CwrInv
    <3> QED BY <1>13, <3>1, <3>2
  <2>2. tcb.tdcv # 0 /\ tcb'.ssThresh < tcb.ssThresh =>
           tcb'.cuts # tcb.cuts \/ hist.slow \/ tcb'.lastRtt > tcb'.minRtt
    <3>1. CASE NoCut(f, tcb, ack)
      BY <1>3, <1>12, <1>19, <1>22, <3>1 DEF NoCut, IInv, RttInv
    <3>2. CASE CutBegins(f, tcb, ack)
      BY <1>1, <1>12, <3>2 DEF CutBegins
    <3> QED BY <1>13, <3>1, <3>2
  <2> QED BY <2>1, <2>2 DEF AckEffect
<1>25. HeldInv(tcb', hist')
  <2>1. /\ f.nextSeq = tcb.nextSeq /\ f.nxt = tcb.nxt /\ tcb.nextSeq \in Nat
        /\ f.ackedEcn = tcb.ackedEcn /\ tcb'.una = ack
    BY <1>0, <1>4, <1>7, <1>12, Positive DEF SameCounts, SameSent, SeqTypes
  <2>2. CASE NoCut(f, tcb, ack)
    <3>1. /\ tcb'.recover = tcb.recover /\ hist'.target = hist.target
          /\ f.ssThresh = tcb.ssThresh
          /\ tcb'.cong = "CWR" => tcb.cong = "CWR"
      BY <1>12, <1>15, <2>2 DEF NoCut
    <3>2. tcb'.cong = "CWR" => tcb'.recover <= tcb'.nxt
      BY <1>1, <1>12a, <3>1 DEF IInv, HeldInv
    <3> SUFFICES ASSUME tcb'.cong = "CWR", ack < tcb.recover
                 PROVE  /\ tcb'.ssThresh = hist.target
                        /\ tcb'.ackedEcn > 0 \/ tcb'.nextSeq >= tcb.recover
      BY <2>1, <3>1, <3>2 DEF HeldInv
    <3>3. /\ tcb.recover <= tcb.nxt /\ tcb.ssThresh = hist.target
          /\ tcb.ackedEcn > 0 \/ tcb.nextSeq >= tcb.recover
      BY <1>1, <1>2, <3>1 DEF IInv, HeldInv
    <3>4. CASE SameCounts(tcb', tcb) /\ tcb'.ssThresh = f.ssThresh
      BY <3>1, <3>3, <3>4 DEF SameCounts
    <3>5. CASE Windows(tcb', f)
      <4>1. /\ f.una = ack /\ ack \in Nat /\ tcb.nxt \in Nat /\ tcb.recover \in Nat
            /\ tcb.ackedEcn \in Nat /\ tcb'.ackedEcn \in Nat /\ tcb'.nextSeq \in Nat
        BY <1>1, <1>2, <1>7, <1>10, <1>19, Positive DEF SocketTypes, SeqTypes
      <4>2. tcb.ackedEcn = 0 => ~ ack >= f.nextSeq
        BY <2>1, <3>3, <4>1
      <4> QED BY <2>1, <3>1, <3>3, <3>5, <4>1, <4>2 DEF Windows
    <3> QED BY <1>17, <3>4, <3>5
  <2>3. CASE CutBegins(f, tcb, ack)
    <3>1. /\ tcb'.cuts # tcb.cuts /\ tcb'.recover = tcb.nxt /\ f.ecn = "ECE_RCVD"
          /\ segs > 0
      BY <1>1, <1>2, <1>12, <2>3 DEF CutBegins
    <3>2. hist'.target = f.ssThresh
      BY <1>15, <3>1
    <3>3. Windows(tcb', f)
      BY <1>2, <1>17, <3>1
    <3> QED BY <1>1, <1>12a, <2>1, <3>1, <3>2, <3>3 DEF Windows, HeldInv
  <2> QED BY <1>13, <2>2, <2>3
<1> QED BY <1>10, <1>12, <1>16, <1>21, <1>23, <1>24, <1>25 DEF IInv

LEMMA SendKeeps ==
    ASSUME IInv, (\E n \in Writes : Send(n)) \/ SendEvent
    PROVE  /\ IInv' /\ hist' = hist
           /\ tcb'.cuts = tcb.cuts /\ tcb'.echoSeq = tcb.echoSeq /\ tcb'.ssThresh = tcb.ssThresh
<1>0. IsTcb(tcb) /\ SeqTypes(tcb) /\ ModeTypes(tcb) /\ WinTypes(tcb) /\ EstTypes(tcb)
  BY DEF IInv, SocketTypes
<1>1. /\ SocketTypes(tcb') /\ tcb'.event \in BOOLEAN /\ hist' = hist
      /\ tcb'.una = tcb.una /\ tcb'.cong = tcb.cong /\ tcb'.recover = tcb.recover
      /\ tcb'.echoSeq = tcb.echoSeq /\ tcb'.prrFlight = tcb.prrFlight
      /\ tcb'.lastRtt = tcb.lastRtt /\ tcb'.tdcv = tcb.tdcv /\ tcb'.cuts = tcb.cuts
      /\ SameCounts(tcb', tcb) /\ tcb'.ssThresh = tcb.ssThresh /\ tcb'.nxt >= tcb.nxt
  <2>1. ASSUME NEW n \in Writes, Send(n) PROVE <1>1!:
    <3> DEFINE end == tcb.end + n
               event == tcb.event \/ tcb.cWnd > BytesInFlight(tcb)
    <3>1. tcb' = [tcb EXCEPT !.end = end, !.event = event] /\ hist' = hist
      BY <1>0, <2>1 DEF Send, IsTcb, Fields
    <3>2. event \in BOOLEAN
      OBVIOUS
    <3>3. tcb.end \in Nat /\ n \in Nat /\ end <= DataEnd + 1
      <4>1. end <= DataEnd + 1
        BY <2>1, Zenon DEF Send
      <4>2. tcb.end \in Nat
        BY <1>0, Positive DEF SeqTypes
      <4> QED BY <4>1, <4>2, DstcpConstants
    <3>4. end \in 1 .. DataEnd + 1 /\ tcb.end <= end
      BY <1>0, <3>3, Positive DEF SeqTypes
    <3> HIDE DEF end, event
    <3>5. /\ IsTcb(tcb') /\ SameCounts(tcb', tcb) /\ SameSent(tcb', tcb)
          /\ tcb'.end = end /\ tcb'.event = event
      BY <1>0, <3>1 DEF SameCounts, SameSent, IsTcb, Fields
    <3>6. /\ tcb'.una = tcb.una /\ tcb'.cong = tcb.cong /\ tcb'.recover = tcb.recover
          /\ tcb'.echoSeq = tcb.echoSeq /\ tcb'.prrFlight = tcb.prrFlight
          /\ tcb'.lastRtt = tcb.lastRtt /\ tcb'.tdcv = tcb.tdcv /\ tcb'.cuts = tcb.cuts
          /\ tcb'.ssThresh = tcb.ssThresh
      BY <1>0, <3>1 DEF IsTcb, Fields
    <3>7. /\ tcb'.cWnd = tcb.cWnd /\ tcb'.cWndCnt = tcb.cWndCnt
          /\ tcb'.prrDelivered = tcb.prrDelivered /\ tcb'.prrOut = tcb.prrOut
      BY <1>0, <3>1 DEF IsTcb, Fields
    <3>8. SeqTypes(tcb')
      <4>1. tcb'.nxt = tcb.nxt /\ tcb'.cwrSeq = tcb.cwrSeq /\ tcb'.nextSeq = tcb.nextSeq
        BY <3>5 DEF SameSent, SameCounts
      <4>2. tcb.nxt <= end
        BY <1>0, <3>3, <3>4, Positive DEF SeqTypes
      <4> QED BY <1>0, <3>4, <3>5, <3>6, <4>1, <4>2 DEF SeqTypes
    <3>9. ModeTypes(tcb')
      BY <1>0, <3>5, <3>6 DEF ModeTypes, SameSent
    <3>10. WinTypes(tcb')
      BY <1>0, <3>6, <3>7 DEF WinTypes
    <3>11. EstTypes(tcb')
      BY <1>0, <3>5, <3>6 DEF EstTypes, SameCounts
    <3>12. SocketTypes(tcb')
      BY <3>5, <3>8, <3>9, <3>10, <3>11 DEF SocketTypes
    <3>13. tcb'.event \in BOOLEAN
      BY <3>2, <3>5
    <3>14. tcb'.nxt >= tcb.nxt
      BY <1>0, <3>5, Positive DEF SameSent, SeqTypes
    <3> QED BY <3>1, <3>5, <3>6, <3>12, <3>13, <3>14
  <2>2. CASE SendEvent
    <3> DEFINE r == [tcb EXCEPT !.event = FALSE]
    <3>1. /\ IsTcb(r) /\ SameCounts(r, tcb) /\ SameSent(r, tcb) /\ r.event = FALSE
          /\ r.end = tcb.end
      BY <1>0 DEF SameCounts, SameSent, IsTcb, Fields
    <3>2. /\ r.una = tcb.una /\ r.cong = tcb.cong /\ r.recover = tcb.recover
          /\ r.echoSeq = tcb.echoSeq /\ r.prrFlight = tcb.prrFlight
          /\ r.lastRtt = tcb.lastRtt /\ r.tdcv = tcb.tdcv /\ r.cuts = tcb.cuts
          /\ r.ssThresh = tcb.ssThresh
      BY <1>0 DEF IsTcb, Fields
    <3>3. /\ r.cWnd = tcb.cWnd /\ r.cWndCnt = tcb.cWndCnt
          /\ r.prrDelivered = tcb.prrDelivered /\ r.prrOut = tcb.prrOut
      BY <1>0 DEF IsTcb, Fields
    <3>4. tcb' = SendPendingData(r) /\ hist' = hist
      BY <2>2 DEF SendEvent
    <3> HIDE DEF r
    <3>5. SeqTypes(r) /\ ModeTypes(r)
      BY <1>0, <3>1, <3>2 DEF SeqTypes, ModeTypes, SameCounts, SameSent
    <3>6. WinTypes(r)
      BY <1>0, <3>2, <3>3 DEF WinTypes
    <3>7. EstTypes(r)
      BY <1>0, <3>1, <3>2 DEF EstTypes, SameCounts
    <3>8. /\ IsTcb(tcb') /\ SeqTypes(tcb') /\ WinTypes(tcb') /\ ModeTypes(tcb')
          /\ SameMode(tcb', r) /\ SameCounts(tcb', r) /\ tcb'.ssThresh = r.ssThresh
          /\ tcb'.nxt >= r.nxt
      BY <3>1, <3>4, <3>5, <3>6, SendStep
    <3>9. SameCounts(tcb', tcb)
      BY <3>1, <3>8 DEF SameCounts
    <3>10. EstTypes(tcb')
      BY <3>7, <3>8 DEF EstTypes, SameCounts, SameMode
    <3>11. SocketTypes(tcb')
      BY <3>8, <3>10 DEF SocketTypes
    <3>12. tcb'.event \in BOOLEAN
      BY <3>1, <3>8 DEF SameMode
    <3>13. /\ tcb'.una = tcb.una /\ tcb'.cong = tcb.cong /\ tcb'.recover = tcb.recover
           /\ tcb'.echoSeq = tcb.echoSeq /\ tcb'.prrFlight = tcb.prrFlight
           /\ tcb'.lastRtt = tcb.lastRtt /\ tcb'.tdcv = tcb.tdcv /\ tcb'.cuts = tcb.cuts
           /\ tcb'.ssThresh = tcb.ssThresh
      BY <3>2, <3>8 DEF SameMode
    <3>14. tcb'.nxt >= tcb.nxt
      BY <3>1, <3>8 DEF SameSent
    <3> QED BY <3>4, <3>9, <3>11, <3>12, <3>13, <3>14
  <2> QED BY <2>1, <2>2
<1>2. CwrInv(tcb', hist')
  BY <1>1 DEF IInv, CwrInv
<1>3. CountInv(tcb', hist')
  BY <1>1 DEF IInv, CountInv, SameCounts
<1>4. RttInv(tcb', hist')
  BY <1>1 DEF IInv, RttInv, SameCounts
<1>5. HeldInv(tcb', hist')
  BY <1>0, <1>1, Positive DEF IInv, HeldInv, SameCounts, SocketTypes, SeqTypes
<1> QED BY <1>1, <1>2, <1>3, <1>4, <1>5 DEF IInv

LEMMA InitIInv ==
    ASSUME InitAckedRtt \subseteq {0}, Init
    PROVE  IInv
<1>1. PICK ackedRtt \in InitAckedRtt, tdcv \in InitTdcv, rtt \in Rtts \cup {0} :
         tcb = [una |-> 1, nxt |-> 1, end |-> 1,
                cWnd |-> InitCwnd * Seg, ssThresh |-> InitSsThresh, cWndCnt |-> 0,
                cong |-> "OPEN", recover |-> 0, ecn |-> "IDLE", echoSeq |-> 0, cwrSeq |-> 0,
                prrDelivered |-> 0, prrOut |-> 0, prrFlight |-> 0,
                ackedTotal |-> 0, ackedEcn |-> 0, ackedRtt |-> ackedRtt, nextSeq |-> 0,
                alpha |-> Scale, beta |-> Scale, minRtt |-> InitMinRtt, lastRtt |-> rtt,
                tdcv |-> tdcv, event |-> FALSE, cuts |-> 0]
  BY DEF Init
<1>2. /\ ackedRtt = 0 /\ tdcv \in Nat /\ rtt \in Nat /\ tdcv \in InitTdcv
      /\ InitCwnd * Seg \in Nat
  BY Positive, DstcpConstants, SegBytes
<1>3. IsTcb(tcb)
  BY <1>1 DEF IsTcb, Fields
<1>4. SeqTypes(tcb) /\ ModeTypes(tcb) /\ tcb.event \in BOOLEAN
  BY <1>1, Positive DEF SeqTypes, ModeTypes
<1>5. WinTypes(tcb)
  BY <1>1, <1>2, Positive DEF WinTypes
<1>6. EstTypes(tcb)
  BY <1>1, <1>2, Positive DEF EstTypes
<1>7. /\ tcb.echoSeq <= tcb.una /\ tcb.tdcv \in InitTdcv
      /\ tcb.cong = "OPEN" /\ tcb.una = 1 /\ tcb.ackedRtt = 0
  BY <1>1, <1>2
<1>8. hist.cutAt = 0 /\ hist.base = 0 /\ ~ hist.echo
  BY DEF Init
<1>9. CwrInv(tcb, hist) /\ CountInv(tcb, hist) /\ RttInv(tcb, hist) /\ HeldInv(tcb, hist)
  BY <1>7, <1>8 DEF CwrInv, CountInv, RttInv, HeldInv
<1> QED BY <1>3, <1>4, <1>5, <1>6, <1>7, <1>9 DEF IInv, SocketTypes

\* Every step keeps the invariant and changes the threshold as AckEffect says.
LEMMA NextStep ==
    ASSUME IInv, [Next]_vars
    PROVE  IInv' /\ (AckEffect \/ UNCHANGED <<tcb.cuts, tcb.echoSeq, tcb.ssThresh>>)
<1>1. ASSUME NEW ack \in 1 .. DataEnd + 1, NEW ece \in BOOLEAN,
             NEW rtt \in Rtts \cup {tcb.lastRtt}, Ack(ack, ece, rtt)
      PROVE  IInv' /\ AckEffect
  BY <1>1, AckStep
<1>2. CASE (\E n \in Writes : Send(n)) \/ SendEvent
  BY <1>2, SendKeeps
<1>3. CASE UNCHANGED vars
  <2>1. tcb' = tcb /\ hist' = hist
    BY <1>3 DEF vars
  <2> QED BY <2>1 DEF IInv
<1> QED BY <1>1, <1>2, <1>3 DEF Next

\* The invariant holds if the counter of slow bytes, which the constructor leaves
\* uninitialised, happens to start at 0.
THEOREM Inductive ==
    ASSUME InitAckedRtt \subseteq {0}
    PROVE  Spec => []IInv
<1>1. Init => IInv
  BY InitIInv
<1>2. IInv /\ [Next]_vars => IInv'
  BY NextStep
<1> QED BY <1>1, <1>2, PTL DEF Spec

\* Every field of the sender keeps its range: alpha and beta stay between 0 and 1, no
\* window underflows, and what is acknowledged was sent and what is sent was written.
THEOREM TypeCorrect ==
    ASSUME InitAckedRtt \subseteq {0}
    PROVE  Spec => []TypeOK
<1>1. IInv => TypeOK
  <2> SUFFICES ASSUME IInv PROVE TypeOK
    OBVIOUS
  <2>1. /\ IsTcb(tcb) /\ SeqTypes(tcb) /\ ModeTypes(tcb) /\ WinTypes(tcb) /\ EstTypes(tcb)
        /\ tcb.event \in BOOLEAN
    BY DEF IInv, SocketTypes
  <2>2. tcb \in Socket
    BY <2>1 DEF Socket, IsTcb, Fields, SeqTypes, ModeTypes, WinTypes, EstTypes
  <2> QED BY <2>1, <2>2 DEF TypeOK, SeqTypes
<1> QED BY <1>1, Inductive, PTL

\* "Only once per window": TcpSocketBase enters CWR for a valid echo exactly if it
\* acknowledges data sent after the reduction before it.
THEOREM OncePerWindow ==
    ASSUME InitAckedRtt \subseteq {0}
    PROVE  Spec => OneCutPerWindow
<1>1. IInv /\ [Next]_vars =>
         [tcb'.cuts # tcb.cuts <=> tcb'.echoSeq # tcb.echoSeq /\ tcb'.una > hist.cutAt]_vars
  BY NextStep DEF AckEffect
<1> QED BY <1>1, Inductive, PTL DEF Spec, OneCutPerWindow

\* PktsAcked counts every acknowledged byte once in its observation window, marked
\* and slow bytes as a part of them.
THEOREM EstimateIsFraction ==
    ASSUME InitAckedRtt \subseteq {0}
    PROVE  Spec => []Fractions
<1>1. IInv => Fractions
  BY DEF IInv, SocketTypes, EstTypes, CountInv, Fractions
<1> QED BY <1>1, Inductive, PTL

\* A window with an echo never takes the cut for slow round trips, although the CWR
\* sent in answer ends ECN_ECE_RCVD before the window does.
THEOREM EchoIsCounted ==
    ASSUME InitAckedRtt \subseteq {0}
    PROVE  Spec => []EchoCounted
<1>1. IInv => EchoCounted
  BY DEF IInv, CountInv, EchoCounted
<1> QED BY <1>1, Inductive, PTL

\* TcpPrrRecovery divides by the flight at the beginning of the phase only while
\* that was not empty.
THEOREM PrrDivides ==
    ASSUME InitAckedRtt \subseteq {0}
    PROVE  Spec => []PrrFlightPositive
<1>1. IInv => PrrFlightPositive
  BY DEF IInv, CwrInv, PrrFlightPositive
<1> QED BY <1>1, Inductive, PTL

\* The threshold GetSsThresh returned when a CWR phase began stands until what was in
\* flight then is acknowledged, whatever round trip times are measured meanwhile: no
\* observation window that ends by then takes the cut for slow round trips.
THEOREM ThresholdIsHeld ==
    ASSUME InitAckedRtt \subseteq {0}
    PROVE  Spec => []ThresholdHeld
<1>1. IInv => ThresholdHeld
  BY DEF IInv, HeldInv, ThresholdHeld
<1> QED BY <1>1, Inductive, PTL

\* With a positive threshold m_tdcv no cut comes without a signal: an echo, or a round
\* trip slower than the fastest in the observation window it ends.
THEOREM CutHasSignal ==
    ASSUME InitAckedRtt \subseteq {0}, 0 \notin InitTdcv
    PROVE  Spec => CutNeedsSignal
<1>1. IInv /\ [Next]_vars =>
         [tcb'.ssThresh < tcb.ssThresh =>
             tcb'.cuts # tcb.cuts \/ hist.slow \/ tcb'.lastRtt > tcb'.minRtt]_vars
  <2> SUFFICES ASSUME IInv, [Next]_vars, tcb'.ssThresh < tcb.ssThresh
               PROVE  tcb'.cuts # tcb.cuts \/ hist.slow \/ tcb'.lastRtt > tcb'.minRtt
    OBVIOUS
  <2>1. tcb.tdcv # 0 /\ tcb.ssThresh \in Nat
    BY DEF IInv, SocketTypes, WinTypes
  <2> QED BY <2>1, NextStep DEF AckEffect
<1> QED BY <1>1, Inductive, PTL DEF Spec, CutNeedsSignal
=============================================================================
