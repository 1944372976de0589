----------------------- MODULE TcpLossRecoveryProofs ------------------------
(***************************************************************************)
(* Proofs about TcpLossRecovery, for every number of segments and every    *)
(* number of losses, ECEs and early timeouts: the scoreboard, the timer,   *)
(* the retries and the recovery points.                                    *)
(*                                                                         *)
(* A handler is a chain of functions from socket to socket.  There is one  *)
(* lemma per function, of what it needs of the socket it is given and what *)
(* holds of the one it returns; the lemmas of ReceivedAck and ReTxTimeout  *)
(* put them together, and IInv relates the socket to the receiver and to   *)
(* the ACKs on their way.                                                  *)
(***************************************************************************)
EXTENDS TcpLossRecovery, NatMinimum, FiniteSetTheorems, SequenceTheorems, TLAPS

(***************************************************************************)
(* Arithmetic                                                              *)
(***************************************************************************)
\* The larger and the smaller of two integers.
LEMMA MaxOfTwo ==
    ASSUME NEW a \in Int, NEW b \in Int
    PROVE  Max({a, b}) = IF a >= b THEN a ELSE b
BY DEF Max

LEMMA MinOfTwo ==
    ASSUME NEW a \in Int, NEW b \in Int
    PROVE  Min({a, b}) = IF a <= b THEN a ELSE b
BY DEF Min

\* Quotients and remainders of naturals are naturals.
LEMMA DivNat ==
    ASSUME NEW a \in Nat, NEW b \in Nat \ {0}
    PROVE  /\ a \div b \in Nat
           /\ a % b \in Nat
OBVIOUS

LEMMA DivInt ==
    ASSUME NEW a \in Int, NEW b \in Nat \ {0}
    PROVE  a \div b \in Int
OBVIOUS

LEMMA TimesNat ==
    ASSUME NEW a \in Nat, NEW b \in Nat
    PROVE  a * b \in Nat
OBVIOUS

(***************************************************************************)
(* The window operators                                                    *)
(***************************************************************************)
\* What PRR computes is an integer, unless it divides by an empty flight.
LEMMA SendCountNat ==
    ASSUME NEW r \in Socket, NEW flight \in Nat, NEW delivered \in Nat, NEW ra \in BOOLEAN,
           r.prrFlight > 0 \/ flight = 0
    PROVE  SendCount(r, flight, delivered, ra) \in Nat
<1>1. Seg \in Nat /\ Seg > 0 /\ WrapAt \in Nat \ {0}
  BY WindowConstants
<1>2. /\ r.prrDelivered \in Nat /\ r.prrOut \in Nat /\ r.ssThresh \in Nat /\ r.prrFlight \in Nat
  BY DEF Socket
<1>3. Wanted(r, flight, delivered, ra) \in Int
  <2>1. CASE flight > r.ssThresh
    <3>1. r.prrFlight \in Nat \ {0}
      BY <2>1, <1>2
    <3>2. r.prrDelivered * r.ssThresh \in Nat
      BY <1>2, TimesNat
    <3>3. (r.prrDelivered * r.ssThresh) % WrapAt \in Nat
      BY <3>2, <1>1, DivNat
    <3> DEFINE p == (r.prrDelivered * r.ssThresh) % WrapAt
    <3>4. p + r.prrFlight - 1 \in Int
      BY <3>1, <3>3
    <3>5. (p + r.prrFlight - 1) \div r.prrFlight \in Int
      BY <3>1, <3>4, DivInt
    <3>6. Wanted(r, flight, delivered, ra) = ((p + r.prrFlight - 1) \div r.prrFlight) - r.prrOut
      BY <2>1 DEF Wanted, Ceil
    <3> QED BY <3>5, <3>6, <1>2
  <2>2. CASE ~ (flight > r.ssThresh)
    <3> DEFINE ahead == r.prrDelivered - r.prrOut
               limit == IF ra THEN (IF ahead < 0 THEN ahead ELSE Max({ahead, delivered})) + Seg
                        ELSE delivered
    <3>1. limit \in Int
      BY <1>1, <1>2, MaxOfTwo
    <3>2. Min({limit, r.ssThresh - flight}) \in Int
      <4> HIDE DEF limit
      <4> QED BY <3>1, <1>2, MinOfTwo
    <3>3. Wanted(r, flight, delivered, ra) = Min({limit, r.ssThresh - flight})
      BY <2>2 DEF Wanted
    <3> QED BY <3>2, <3>3
  <2> QED BY <2>1, <2>2
<1>4. SendCount(r, flight, delivered, ra)
         = Max({Wanted(r, flight, delivered, ra), IF r.prrOut > 0 THEN 0 ELSE Seg})
  BY DEF SendCount
<1> QED BY <1>1, <1>3, <1>4, MaxOfTwo

(***************************************************************************)
(* The socket                                                              *)
(***************************************************************************)
\* The fields that the invariants are about; the others are windows, counters
\* and flags, of which only the types matter.
Skeleton(r) == <<r.sackOn, r.una, r.nxt, r.sacked, r.lost, r.retrans, r.highSack, r.cong,
                 r.recover, r.prrFlight, r.rto, r.retries, r.closed, r.wire>>

\* PRR sets the window and its own count of delivered bytes.
LEMMA DoRecoveryKeeps ==
    ASSUME NEW r \in Socket, NEW flight \in Nat, NEW delivered \in Nat, NEW ra \in BOOLEAN,
           r.prrFlight > 0 \/ flight = 0
    PROVE  LET q == DoRecovery(r, flight, delivered, ra)
           IN  q \in Socket /\ Skeleton(q) = Skeleton(r)
<1> DEFINE d == r.prrDelivered + delivered
           q == [r EXCEPT !.prrDelivered = d]
<1>1. d \in Nat /\ q \in Socket /\ q.prrFlight = r.prrFlight
  BY DEF Socket
<1>2. SendCount(q, flight, delivered, ra) \in Nat
  BY <1>1, SendCountNat
<1> DEFINE w == flight + SendCount(q, flight, delivered, ra)
<1>3. w \in Nat
  BY <1>2
<1>4. DoRecovery(r, flight, delivered, ra) = [q EXCEPT !.cWnd = w]
  BY DEF DoRecovery
<1> HIDE DEF w
<1>5. /\ [q EXCEPT !.cWnd = w] \in Socket
      /\ Skeleton([q EXCEPT !.cWnd = w]) = Skeleton(q) /\ Skeleton(q) = Skeleton(r)
  BY <1>1, <1>3 DEF Socket, Skeleton
<1> HIDE DEF q
<1> QED BY <1>4, <1>5

\* Window growth is about the window and its count of ACKs.
LEMMA IncreaseWindowKeeps ==
    ASSUME NEW r \in Socket, NEW segs \in Nat
    PROVE  LET q == IncreaseWindow(r, segs)
           IN  q \in Socket /\ Skeleton(q) = Skeleton(r)
<1>1. Seg \in Nat /\ Seg > 0
  BY WindowConstants
<1>2. r.cWnd \in Nat /\ r.cWndCnt \in Nat /\ r.ssThresh \in Nat
  BY DEF Socket
<1>3. CASE r.cWnd < r.ssThresh /\ segs = 0
  <2>1. IncreaseWindow(r, segs) = r
    BY <1>3 DEF IncreaseWindow, SlowStart
  <2> QED BY <2>1
<1>4. CASE r.cWnd < r.ssThresh /\ segs # 0
  <2> DEFINE w == Min({r.cWnd + segs * Seg, r.ssThresh})
  <2>1. segs * Seg \in Nat
    BY <1>1, TimesNat
  <2>2. w \in Nat
    BY <1>2, <2>1, MinOfTwo
  <2>3. IncreaseWindow(r, segs) = [r EXCEPT !.cWnd = w]
    BY <1>4 DEF IncreaseWindow, SlowStart
  <2> HIDE DEF w
  <2> QED BY <2>2, <2>3 DEF Socket, Skeleton
<1>5. CASE ~ (r.cWnd < r.ssThresh)
  <2> DEFINE w == Max({r.cWnd \div Seg, 1})
             full == r.cWndCnt >= w
             cnt == (IF full THEN 0 ELSE r.cWndCnt) + segs
             grow == ((IF full THEN 1 ELSE 0) + cnt \div w) * Seg
  <2>1. r.cWnd \div Seg \in Nat
    BY <1>1, <1>2, DivNat
  <2>2. w \in Nat \ {0}
    BY <2>1, MaxOfTwo
  <2>3. cnt \in Nat
    BY <1>2
  <2>4. cnt \div w \in Nat /\ cnt % w \in Nat
    <3> HIDE DEF w, cnt
    <3> QED BY <2>2, <2>3, DivNat
  <2>5. grow \in Nat
    <3> HIDE DEF w, cnt, full
    <3>1. (IF full THEN 1 ELSE 0) + cnt \div w \in Nat
      BY <2>4
    <3> QED BY <1>1, <3>1, TimesNat
  <2>6. IncreaseWindow(r, segs) = [r EXCEPT !.cWnd = r.cWnd + grow, !.cWndCnt = cnt % w]
    BY <1>5 DEF IncreaseWindow, CongestionAvoidance
  <2>7. r.cWnd + grow \in Nat
    <3> HIDE DEF grow
    <3> QED BY <1>2, <2>5
  <2> HIDE DEF w, full, cnt, grow
  <2> QED BY <2>4, <2>6, <2>7, ZenonT(60) DEF Socket, Skeleton
<1> QED BY <1>3, <1>4, <1>5

\* The scoreboard lists what is outstanding, nothing in it is both SACKed and
\* lost, and only what was sent is in the network.
Board(r) ==
    /\ r.una <= r.nxt
    /\ r.sacked \subseteq Sent(r)
    /\ r.lost \subseteq Sent(r)
    /\ r.retrans \subseteq Sent(r)
    /\ r.highSack < r.nxt
    /\ r.sacked \cap r.lost = {}
    /\ r.una \notin r.sacked
    /\ r.recover <= r.nxt
    /\ \A i \in Segments : r.wire[i] > 0 => i < r.nxt

\* Without SACK a duplicate ACK never marks a segment that is lost: either only
\* the head is, or a timeout has emptied the guesses and its window is not over.
Guesses(r) ==
    \/ r.sackOn
    \/ r.lost \subseteq {r.una}
    \/ /\ r.sacked = {}
       /\ r.cong \in {"LOSS", "CWR"}
       /\ \A i \in r.lost : i < r.recover

\* PRR never divides by an empty flight.
Prr(r) ==
    /\ r.cong = "RECOVERY" => r.prrFlight > 0
    /\ r.cong = "CWR" /\ r.una < r.recover => r.prrFlight > 0

InCwr(r) == r.cong = "CWR" => r.una <= r.recover

Armed(r) == r.una < r.nxt /\ ~ r.closed => r.rto

Good(r) == r \in Socket /\ Board(r) /\ Guesses(r) /\ Prr(r)

\* Functions that leave the skeleton alone keep a socket good.
LEMMA SkeletonGood ==
    ASSUME NEW r, NEW q \in Socket, Good(r), Skeleton(q) = Skeleton(r)
    PROVE  Good(q)
BY DEF Skeleton, Good, Board, Guesses, Prr, Sent

LEMMA SkeletonFields ==
    ASSUME NEW r, NEW q, Skeleton(q) = Skeleton(r)
    PROVE  /\ q.sackOn = r.sackOn /\ q.una = r.una /\ q.nxt = r.nxt /\ q.sacked = r.sacked
           /\ q.lost = r.lost /\ q.retrans = r.retrans /\ q.highSack = r.highSack
           /\ q.cong = r.cong /\ q.recover = r.recover /\ q.prrFlight = r.prrFlight
           /\ q.rto = r.rto /\ q.retries = r.retries /\ q.closed = r.closed /\ q.wire = r.wire
BY DEF Skeleton

\* m_sentList is finite, and as long as the marks say.
LEMMA SentFinite ==
    ASSUME NEW r \in Socket
    PROVE  /\ IsFiniteSet(Sent(r))
           /\ r.una <= r.nxt => Cardinality(Sent(r)) = r.nxt - r.una
<1>1. r.una \in Int /\ r.nxt - 1 \in Int /\ r.nxt \in Int
  BY LossConstants DEF Socket
<1>2. /\ IsFiniteSet(r.una .. r.nxt - 1)
      /\ Cardinality(r.una .. r.nxt - 1) = IF r.una > r.nxt - 1 THEN 0 ELSE r.nxt - 1 - r.una + 1
  BY <1>1, FS_Interval
<1>3. r.una <= r.nxt => (IF r.una > r.nxt - 1 THEN 0 ELSE r.nxt - 1 - r.una + 1) = r.nxt - r.una
  BY <1>1
<1> QED BY <1>2, <1>3 DEF Sent

\* What is outstanding and not marked is at least nothing, and at most all.
LEMMA FlightNat ==
    ASSUME NEW r \in Socket, Board(r)
    PROVE  /\ BytesInFlight(r) \in Nat
           /\ r.una = r.nxt => BytesInFlight(r) = 0
           /\ r.sacked \cup r.lost = Sent(r) /\ r.retrans = {} => BytesInFlight(r) = 0
<1>1. /\ IsFiniteSet(Sent(r))
      /\ Cardinality(Sent(r)) = r.nxt - r.una
      /\ r.una \in Nat /\ r.nxt \in Nat /\ r.una <= r.nxt
  <2>1. r.una \in Nat /\ r.nxt \in Nat /\ r.una <= r.nxt
    BY LossConstants DEF Socket, Board
  <2> QED BY <2>1, SentFinite
<1>2. /\ r.sacked \subseteq Sent(r) /\ r.lost \subseteq Sent(r) /\ r.retrans \subseteq Sent(r)
      /\ r.sacked \cap r.lost = {}
  BY DEF Board
<1>3. /\ IsFiniteSet(r.sacked) /\ IsFiniteSet(r.lost) /\ IsFiniteSet(r.retrans)
      /\ IsFiniteSet(r.sacked \cup r.lost)
      /\ Cardinality(r.sacked \cup r.lost) <= Cardinality(Sent(r))
  <2>1. r.sacked \cup r.lost \subseteq Sent(r)
    BY <1>2
  <2> QED BY <1>1, <1>2, <2>1, FS_Subset
<1>4. /\ Cardinality(r.sacked) \in Nat /\ Cardinality(r.lost) \in Nat /\ Cardinality(r.retrans) \in Nat
      /\ Cardinality(r.sacked \cap r.lost) = 0
      /\ Cardinality(r.sacked \cup r.lost) \in Nat
  BY <1>2, <1>3, FS_CardinalityType, FS_EmptySet
<1>5. Cardinality(r.sacked \cup r.lost)
         = Cardinality(r.sacked) + Cardinality(r.lost) - Cardinality(r.sacked \cap r.lost)
  BY <1>3, FS_Union
<1> DEFINE n == r.nxt - r.una - Cardinality(r.sacked) - Cardinality(r.lost) + Cardinality(r.retrans)
<1>6. n \in Nat
  BY <1>1, <1>3, <1>4, <1>5
<1>7. BytesInFlight(r) = n * Seg /\ Seg \in Nat
  BY WindowConstants DEF BytesInFlight
<1>8. n = 0 => BytesInFlight(r) = 0
  <2> HIDE DEF n
  <2> QED BY <1>7
<1>9. BytesInFlight(r) \in Nat
  <2> HIDE DEF n
  <2> QED BY <1>6, <1>7, TimesNat
<1>10. ASSUME r.una = r.nxt PROVE n = 0
  <2>1. Sent(r) = {}
    BY <1>1, <1>10 DEF Sent
  <2>2. r.sacked = {} /\ r.lost = {} /\ r.retrans = {}
    BY <1>2, <2>1
  <2>3. Cardinality(r.sacked) = 0 /\ Cardinality(r.lost) = 0 /\ Cardinality(r.retrans) = 0
    BY <2>2, FS_EmptySet
  <2> QED BY <1>1, <1>10, <2>3
<1>11. ASSUME r.sacked \cup r.lost = Sent(r), r.retrans = {} PROVE n = 0
  <2>1. Cardinality(r.retrans) = 0
    BY <1>11, FS_EmptySet
  <2>2. Cardinality(r.sacked \cup r.lost) = Cardinality(Sent(r))
    BY <1>11, Zenon
  <2> QED BY <1>1, <1>4, <1>5, <2>1, <2>2
<1> QED BY <1>8, <1>9, <1>10, <1>11


(***************************************************************************)
(* Sending                                                                 *)
(***************************************************************************)
\* From r to q segments may have been sent; the scoreboard keeps its marks, and
\* the timer is pending if anything new was sent.
Sends(q, r) ==
    /\ q.sackOn = r.sackOn /\ q.una = r.una /\ q.sacked = r.sacked /\ q.lost = r.lost
    /\ q.cong = r.cong /\ q.recover = r.recover /\ q.prrFlight = r.prrFlight
    /\ q.retries = r.retries /\ q.closed = r.closed
    /\ q.nxt >= r.nxt
    /\ (r.rto \/ q.nxt > r.nxt => q.rto)

LEMMA SendsArmed ==
    ASSUME NEW r \in Socket, NEW q \in Socket, Sends(q, r), Armed(r)
    PROVE  Armed(q)
BY DEF Sends, Armed, Socket

\* What NextSeg returns is outstanding, or the next new segment; with something
\* to repair it is to be repaired.
LEMMA NextSegIn ==
    ASSUME NEW r \in Socket, Board(r), NEW rule3 \in BOOLEAN
    PROVE  LET seq == NextSeg(r, rule3)
           IN  /\ seq = 0 \/ (seq \in Segments /\ seq \in r.una .. r.nxt)
               /\ Repairs(r) # {} => seq \in Repairs(r)
<1> DEFINE others == Sent(r) \ (r.lost \cup r.sacked \cup r.retrans)
<1>1. /\ Sent(r) \subseteq Nat /\ Sent(r) \subseteq Segments /\ Sent(r) \subseteq r.una .. r.nxt
      /\ Repairs(r) \subseteq Sent(r) /\ others \subseteq Sent(r)
      /\ r.nxt \in 1 .. DataEnd + 1 /\ r.una \in 1 .. DataEnd + 1 /\ r.una <= r.nxt /\ DataEnd \in Nat
  <2>1. DataEnd \in Nat
    BY LossConstants
  <2>2. r.nxt \in 1 .. DataEnd + 1 /\ r.una \in 1 .. DataEnd + 1
    BY DEF Socket
  <2>3. r.una <= r.nxt /\ Repairs(r) \subseteq Sent(r)
    BY DEF Board, Repairs
  <2>4. Sent(r) \subseteq Nat /\ Sent(r) \subseteq Segments /\ Sent(r) \subseteq r.una .. r.nxt
    BY <2>1, <2>2, <2>3 DEF Sent, Segments
  <2> QED BY <2>1, <2>2, <2>3, <2>4
<1>2. CASE Repairs(r) # {}
  <2>1. NextSeg(r, rule3) = Min(Repairs(r))
    BY <1>2 DEF NextSeg
  <2>2. Min(Repairs(r)) \in Repairs(r)
    BY <1>1, <1>2, MinNat
  <2> QED BY <1>1, <2>1, <2>2
<1>3. CASE Repairs(r) = {} /\ r.nxt <= DataEnd
  <2>1. NextSeg(r, rule3) = r.nxt
    BY <1>3 DEF NextSeg
  <2> QED BY <1>1, <1>3, <2>1 DEF Segments
<1>4. CASE Repairs(r) = {} /\ ~ (r.nxt <= DataEnd) /\ rule3 /\ others # {}
  <2>1. NextSeg(r, rule3) = Min(others)
    BY <1>4 DEF NextSeg
  <2>2. others \subseteq Nat
    BY <1>1
  <2>3. Min(others) \in others
    <3> HIDE DEF others
    <3> QED BY <1>4, <2>2, MinNat
  <2>4. NextSeg(r, rule3) \in Sent(r)
    BY <1>1, <2>1, <2>3
  <2> QED BY <1>1, <1>4, <2>4
<1>5. CASE Repairs(r) = {} /\ ~ (r.nxt <= DataEnd) /\ ~ (rule3 /\ others # {})
  BY <1>5 DEF NextSeg
<1> QED BY <1>2, <1>3, <1>4, <1>5

\* Sending an outstanding segment, or the next new one, keeps the marks, starts the
\* timer and puts at most one more segment in flight.
LEMMA SendDataPacketKeeps ==
    ASSUME NEW r, Good(r), NEW seq \in Segments, seq \in r.una .. r.nxt
    PROVE  LET q == SendDataPacket(r, seq)
           IN  /\ Good(q) /\ Sends(q, r)
               /\ q.rto
               /\ BytesInFlight(q) <= BytesInFlight(r) + Seg
<1> DEFINE q == SendDataPacket(r, seq)
<1>1. r \in Socket /\ Board(r)
  BY DEF Good
<1>2. /\ r.una \in Nat /\ r.una > 0 /\ r.nxt \in Nat /\ r.una <= r.nxt
      /\ r.nxt <= DataEnd + 1 /\ DataEnd \in Nat
      /\ r.wire \in [Segments -> Nat] /\ r.retrans \subseteq Sent(r) /\ r.prrOut \in Nat
      /\ seq \in Nat /\ seq <= DataEnd /\ r.una <= seq /\ seq <= r.nxt
      /\ Seg \in Nat /\ Seg > 0
  <2>1. DataEnd \in Nat /\ Seg \in Nat /\ Seg > 0
    BY LossConstants, WindowConstants
  <2>2. /\ r.una \in 1 .. DataEnd + 1 /\ r.nxt \in 1 .. DataEnd + 1
        /\ r.wire \in [Segments -> Nat] /\ r.prrOut \in Nat
    BY <1>1 DEF Socket
  <2>3. r.una <= r.nxt /\ r.retrans \subseteq Sent(r)
    BY <1>1 DEF Board
  <2> QED BY <2>1, <2>2, <2>3 DEF Segments
<1>3. BytesInFlight(r) \in Nat
  BY <1>1, FlightNat
<1> DEFINE nxt == IF seq = r.nxt THEN r.nxt + 1 ELSE r.nxt
           retrans == IF seq < r.nxt THEN r.retrans \cup {seq} ELSE r.retrans
           out == IF r.cong \in {"RECOVERY", "CWR"} THEN r.prrOut + Seg ELSE r.prrOut
           wire == [r.wire EXCEPT ![seq] = @ + 1]
           fl == BytesInFlight(r)
<1>4. /\ nxt \in 1 .. DataEnd + 1 /\ nxt >= r.nxt
      /\ retrans \subseteq r.una .. nxt - 1 /\ retrans \in SUBSET Segments
      /\ out \in Nat
      /\ wire \in [Segments -> Nat]
  <2>1. nxt \in 1 .. DataEnd + 1 /\ nxt >= r.nxt /\ (seq < r.nxt => nxt = r.nxt)
    BY <1>2
  <2>2. r.una .. nxt - 1 \subseteq Segments
    BY <1>2, <2>1 DEF Segments
  <2>3. retrans \subseteq r.una .. nxt - 1
    <3>1. r.una .. r.nxt - 1 \subseteq r.una .. nxt - 1
      BY <1>2, <2>1
    <3>2. seq < r.nxt => seq \in r.una .. nxt - 1
      BY <1>2, <2>1
    <3> QED BY <1>2, <3>1, <3>2 DEF Sent
  <2>4. out \in Nat /\ wire \in [Segments -> Nat]
    BY <1>2
  <2> QED BY <2>1, <2>2, <2>3, <2>4
<1>5. \A i \in Segments : wire[i] > 0 => i < nxt
  <2> SUFFICES ASSUME NEW i \in Segments, wire[i] > 0 PROVE i < nxt
    OBVIOUS
  <2>1. CASE i = seq
    BY <1>2, <2>1
  <2>2. CASE i # seq
    <3>1. r.wire[i] > 0
      BY <1>2, <2>2
    <3>2. i < r.nxt
      BY <1>1, <3>1 DEF Board
    <3> QED BY <1>2, <3>2, <1>4 DEF Segments
  <2> QED BY <2>1, <2>2
<1>6. q = [r EXCEPT !.flight = fl, !.nxt = nxt, !.retrans = retrans, !.rto = TRUE,
                    !.prrOut = out, !.wire = wire]
  BY DEF SendDataPacket
<1>7. /\ q \in Socket /\ q.nxt = nxt /\ q.retrans = retrans /\ q.rto = TRUE /\ q.wire = wire
      /\ q.sackOn = r.sackOn /\ q.una = r.una /\ q.sacked = r.sacked /\ q.lost = r.lost
      /\ q.cong = r.cong /\ q.recover = r.recover /\ q.prrFlight = r.prrFlight
      /\ q.retries = r.retries /\ q.closed = r.closed /\ q.highSack = r.highSack
  <2> HIDE DEF nxt, retrans, out, wire, fl, q
  <2> QED BY <1>1, <1>3, <1>4, <1>6 DEF Socket, fl
<1> HIDE DEF q
<1>8. Sends(q, r)
  BY <1>2, <1>4, <1>7 DEF Sends
<1>9. Board(q)
  <2> HIDE DEF nxt, retrans, out, wire, fl
  <2>1. Sent(r) \subseteq Sent(q)
    BY <1>2, <1>4, <1>7 DEF Sent
  <2>2. q.retrans \subseteq Sent(q)
    BY <1>4, <1>7 DEF Sent
  <2>3. q.una <= q.nxt /\ q.highSack < q.nxt /\ q.recover <= q.nxt
    BY <1>1, <1>2, <1>4, <1>7 DEF Board, Socket
  <2>4. \A i \in Segments : q.wire[i] > 0 => i < q.nxt
    BY <1>5, <1>7
  <2> QED BY <1>1, <1>7, <2>1, <2>2, <2>3, <2>4 DEF Board
<1>10. Good(q)
  BY <1>7, <1>9 DEF Good, Guesses, Prr
<1>11. BytesInFlight(q) <= BytesInFlight(r) + Seg
  <2>1. /\ IsFiniteSet(r.retrans) /\ Cardinality(r.retrans) \in Nat
    <3>1. IsFiniteSet(Sent(r))
      BY <1>1, SentFinite
    <3> QED BY <1>2, <3>1, FS_Subset, FS_CardinalityType
  <2>2. \/ q.nxt = r.nxt + 1 /\ Cardinality(q.retrans) = Cardinality(r.retrans)
        \/ q.nxt = r.nxt /\ Cardinality(q.retrans) \in {Cardinality(r.retrans), Cardinality(r.retrans) + 1}
    <3>1. CASE seq = r.nxt
      BY <1>7, <3>1, <1>2
    <3>2. CASE seq < r.nxt
      <4>1. q.nxt = r.nxt /\ q.retrans = r.retrans \cup {seq}
        BY <1>7, <3>2, <1>2
      <4>2. Cardinality(r.retrans \cup {seq}) = IF seq \in r.retrans THEN Cardinality(r.retrans)
                                                ELSE Cardinality(r.retrans) + 1
        BY <2>1, FS_AddElement
      <4> QED BY <4>1, <4>2
    <3> QED BY <1>2, <3>1, <3>2
  <2>3. /\ Cardinality(r.sacked) \in Nat /\ Cardinality(r.lost) \in Nat
    <3>1. IsFiniteSet(Sent(r))
      BY <1>1, SentFinite
    <3>2. IsFiniteSet(r.sacked) /\ IsFiniteSet(r.lost)
      BY <1>1, <3>1, FS_Subset DEF Board
    <3> QED BY <3>2, FS_CardinalityType
  <2> DEFINE n == r.nxt - r.una - Cardinality(r.sacked) - Cardinality(r.lost) + Cardinality(r.retrans)
             m == q.nxt - q.una - Cardinality(q.sacked) - Cardinality(q.lost) + Cardinality(q.retrans)
  <2>4. n \in Int /\ m \in Int /\ m <= n + 1
    BY <1>2, <1>7, <2>1, <2>2, <2>3
  <2>5. BytesInFlight(r) = n * Seg /\ BytesInFlight(q) = m * Seg
    BY DEF BytesInFlight
  <2>6. m * Seg <= n * Seg + Seg
    <3> HIDE DEF n, m
    <3> QED BY <1>2, <2>4
  <2> QED BY <2>5, <2>6
<1> QED BY <1>7, <1>8, <1>10, <1>11 DEF q

\* The loop of SendPendingData, as a function of the segments sent, exists.
Loop(f, r, rule3, n) == f = [k \in 0 .. n |-> IF k = 0 THEN r ELSE SendNext(f[k - 1], rule3)]

\* The recursive function of SendPendingData is one: it has a value at every step.
LEMMA LoopExists ==
    ASSUME NEW r, NEW rule3, NEW n \in Nat
    PROVE  \E f : Loop(f, r, rule3, n)
<1> DEFINE T == {m \in Nat : ~ \E f : Loop(f, r, rule3, m)}
<1>1. SUFFICES ASSUME T # {} PROVE FALSE
  OBVIOUS
<1>2. PICK m \in T : \A y \in T : m <= y
  <2>1. T \subseteq Nat
    OBVIOUS
  <2> HIDE DEF T
  <2> QED BY <1>1, <2>1, MinNat
<1>3. m \in Nat /\ ~ \E f : Loop(f, r, rule3, m)
  OBVIOUS
<1>4. m # 0
  <2> SUFFICES ASSUME m = 0 PROVE FALSE
    OBVIOUS
  <2> DEFINE g == [k \in 0 .. 0 |-> r]
  <2>1. g = [k \in 0 .. 0 |-> IF k = 0 THEN r ELSE SendNext(g[k - 1], rule3)]
    <3>1. \A k \in 0 .. 0 : k = 0
      OBVIOUS
    <3> QED BY <3>1
  <2>2. Loop(g, r, rule3, 0)
    BY <2>1 DEF Loop
  <2> QED BY <1>3, <2>2
<1>5. PICK f : Loop(f, r, rule3, m - 1)
  <2>1. m - 1 \in Nat /\ ~ (m <= m - 1)
    BY <1>3, <1>4
  <2>2. m - 1 \notin T
    <3> HIDE DEF T
    <3> QED BY <1>2, <2>1
  <2> QED BY <2>1, <2>2
<1> DEFINE g == [k \in 0 .. m |-> IF k = m THEN SendNext(f[m - 1], rule3) ELSE f[k]]
<1>6. \A k \in 0 .. m : g[k] = IF k = 0 THEN r ELSE SendNext(g[k - 1], rule3)
  <2> SUFFICES ASSUME NEW k \in 0 .. m
               PROVE  g[k] = IF k = 0 THEN r ELSE SendNext(g[k - 1], rule3)
    OBVIOUS
  <2>1. CASE k = 0
    <3>1. k \in 0 .. m - 1 /\ k # m
      BY <1>3, <1>4, <2>1
    <3>2. f[k] = r
      BY <1>5, <2>1, <3>1 DEF Loop
    <3> QED BY <2>1, <3>1, <3>2
  <2>2. CASE k # 0 /\ k # m
    <3>1. k \in 0 .. m - 1 /\ k - 1 \in 0 .. m /\ k - 1 # m
      BY <1>3, <2>2
    <3>2. f[k] = SendNext(f[k - 1], rule3)
      BY <1>5, <2>2, <3>1 DEF Loop
    <3> QED BY <2>2, <3>1, <3>2
  <2>3. CASE k # 0 /\ k = m
    <3>1. m - 1 \in 0 .. m /\ m - 1 # m
      BY <1>3, <2>3
    <3>2. g[m - 1] = f[m - 1]
      BY <3>1
    <3>3. g[k] = SendNext(f[m - 1], rule3)
      BY <2>3
    <3> QED BY <2>3, <3>2, <3>3
  <2> QED BY <2>1, <2>2, <2>3
<1>7. g = [k \in 0 .. m |-> IF k = 0 THEN r ELSE SendNext(g[k - 1], rule3)]
  <2>1. g = [k \in 0 .. m |-> g[k]]
    OBVIOUS
  <2> HIDE DEF g
  <2> QED BY <1>6, <2>1
<1>8. Loop(g, r, rule3, m)
  BY <1>7 DEF Loop
<1> QED BY <1>3, <1>8

Rule3(r) == r.sackOn /\ r.cong = "RECOVERY"

Room(r) == Max({r.cWnd - BytesInFlight(r), 0}) \div Seg

\* The loop of SendPendingData, as a function of the number of turns.
LEMMA SendPendingDataLoop ==
    ASSUME NEW r, Room(r) \in Nat
    PROVE  \E f : /\ f[0] = r
                  /\ \A k \in 1 .. Room(r) : f[k] = SendNext(f[k - 1], Rule3(r))
                  /\ SendPendingData(r) = Measured(f[Room(r)])
<1> DEFINE g == CHOOSE f : Loop(f, r, Rule3(r), Room(r))
<1>1. Loop(g, r, Rule3(r), Room(r))
  BY LoopExists
<1>2. g = CHOOSE f : f = [k \in 0 .. Room(r) |-> IF k = 0 THEN r ELSE SendNext(f[k - 1], Rule3(r))]
  BY DEF Loop
<1>3. SendPendingData(r) = Measured(g[Room(r)])
  BY <1>2 DEF SendPendingData, Rule3, Room
<1> HIDE DEF g
<1>4. /\ g[0] = r
      /\ \A k \in 1 .. Room(r) : g[k] = SendNext(g[k - 1], Rule3(r))
  <2>1. \A k \in 0 .. Room(r) : g[k] = IF k = 0 THEN r ELSE SendNext(g[k - 1], Rule3(r))
    BY <1>1 DEF Loop
  <2> QED BY <2>1
<1> QED BY <1>3, <1>4

\* One turn of the loop.
LEMMA SendNextKeeps ==
    ASSUME NEW r, Good(r), NEW rule3 \in BOOLEAN
    PROVE  LET q == SendNext(r, rule3)
           IN  /\ Good(q) /\ Sends(q, r)
               /\ Repairs(r) # {} => q.rto
               /\ BytesInFlight(q) <= BytesInFlight(r) + Seg
<1>1. r \in Socket /\ Board(r) /\ BytesInFlight(r) \in Nat /\ Seg \in Nat
  BY FlightNat, WindowConstants DEF Good
<1> DEFINE seq == NextSeg(r, rule3)
<1>2. /\ seq = 0 \/ (seq \in Segments /\ seq \in r.una .. r.nxt)
      /\ Repairs(r) # {} => seq \in Repairs(r)
  BY <1>1, NextSegIn
<1>3. 0 \notin Repairs(r)
  BY <1>1 DEF Repairs, Socket, Segments
<1>4. CASE seq = 0
  <2>1. SendNext(r, rule3) = r
    BY <1>4 DEF SendNext
  <2>2. Sends(r, r)
    BY <1>1 DEF Sends, Socket
  <2> QED BY <1>1, <1>2, <1>3, <1>4, <2>1, <2>2
<1>5. CASE seq # 0
  <2>1. SendNext(r, rule3) = SendDataPacket(r, seq)
    BY <1>5 DEF SendNext
  <2> HIDE DEF seq
  <2> QED BY <1>2, <1>5, <2>1, SendDataPacketKeeps
<1> QED BY <1>4, <1>5

LEMMA SendsTrans ==
    ASSUME NEW r \in Socket, NEW q \in Socket, NEW p \in Socket, Sends(q, r), Sends(p, q)
    PROVE  Sends(p, r)
<1>1. r.nxt \in Int /\ q.nxt \in Int /\ p.nxt \in Int
  BY LossConstants DEF Socket
<1> QED BY <1>1 DEF Sends

\* Sending what the window allows keeps the marks, and starts with what is to be
\* repaired if there is room for a segment.
LEMMA SendPendingDataKeeps ==
    ASSUME NEW r, Good(r)
    PROVE  LET q == SendPendingData(r)
           IN  /\ Good(q) /\ Sends(q, r)
               /\ Room(r) > 0 /\ Repairs(r) # {} => q.rto
               /\ Room(r) = 1 => BytesInFlight(q) <= BytesInFlight(r) + Seg
<1>1. r \in Socket /\ Board(r) /\ BytesInFlight(r) \in Nat /\ Seg \in Nat \ {0} /\ r.cWnd \in Nat
  BY FlightNat, WindowConstants DEF Good, Socket
<1>2. Room(r) \in Nat
  <2>1. Max({r.cWnd - BytesInFlight(r), 0}) \in Nat
    BY <1>1, MaxOfTwo
  <2> QED BY <1>1, <2>1, DivNat DEF Room
<1>3. PICK f : /\ f[0] = r
               /\ \A k \in 1 .. Room(r) : f[k] = SendNext(f[k - 1], Rule3(r))
               /\ SendPendingData(r) = Measured(f[Room(r)])
  BY <1>2, SendPendingDataLoop
<1>4. Rule3(r) \in BOOLEAN
  BY <1>1 DEF Rule3, Socket
<1>5. Sends(r, r)
  BY <1>1 DEF Sends, Socket
<1> DEFINE P(k) == Good(f[k]) /\ Sends(f[k], r)
           T == {k \in 0 .. Room(r) : ~ P(k)}
<1>6. \A k \in 0 .. Room(r) : P(k)
  <2> SUFFICES ASSUME T # {} PROVE FALSE
    OBVIOUS
  <2>1. T \subseteq Nat
    BY <1>2
  <2>2. PICK m \in T : \A y \in T : m <= y
    <3> HIDE DEF T
    <3> QED BY <2>1, MinNat
  <2>3. m \in 0 .. Room(r) /\ ~ P(m)
    OBVIOUS
  <2>4. m # 0
    BY <1>3, <1>5, <2>3
  <2>5. m \in 1 .. Room(r) /\ m - 1 \in 0 .. Room(r) /\ ~ (m <= m - 1)
    BY <1>2, <2>3, <2>4
  <2>6. P(m - 1)
    <3>1. m - 1 \notin T
      <4> HIDE DEF T
      <4> QED BY <2>2, <2>5
    <3> QED BY <2>5, <3>1
  <2>7. f[m] = SendNext(f[m - 1], Rule3(r))
    BY <1>3, <2>5
  <2>8. Good(f[m]) /\ Sends(f[m], f[m - 1])
    BY <1>4, <2>6, <2>7, SendNextKeeps
  <2>9. f[m] \in Socket /\ f[m - 1] \in Socket
    BY <2>6, <2>8 DEF Good
  <2> QED BY <1>1, <2>3, <2>6, <2>8, <2>9, SendsTrans
<1> DEFINE p == f[Room(r)]
           q == Measured(p)
<1>7. Good(p) /\ Sends(p, r)
  BY <1>2, <1>6
<1>8. /\ q \in Socket /\ Skeleton(q) = Skeleton(p)
      /\ BytesInFlight(q) = BytesInFlight(p)
  <2> HIDE DEF p
  <2>1. BytesInFlight(p) \in Nat /\ p \in Socket
    BY <1>7, FlightNat DEF Good
  <2>2. q \in Socket /\ Skeleton(q) = Skeleton(p)
    BY <2>1 DEF Measured, Socket, Skeleton
  <2> HIDE DEF q
  <2> QED BY <2>2, SkeletonFields DEF BytesInFlight
<1>9. Good(q) /\ Sends(q, r)
  <2> HIDE DEF p, q
  <2>1. Good(q)
    BY <1>7, <1>8, SkeletonGood
  <2> QED BY <1>7, <1>8, <2>1, SkeletonFields DEF Sends
<1>10. ASSUME Room(r) > 0
       PROVE  /\ Repairs(r) # {} => q.rto
              /\ Room(r) = 1 => BytesInFlight(q) <= BytesInFlight(r) + Seg
  <2>1. f[1] = SendNext(r, Rule3(r)) /\ 1 \in 1 .. Room(r)
    <3>1. 1 \in 1 .. Room(r) /\ 1 - 1 = 0
      BY <1>2, <1>10
    <3> QED BY <1>3, <3>1
  <2>2. /\ Repairs(r) # {} => f[1].rto
        /\ BytesInFlight(f[1]) <= BytesInFlight(r) + Seg
    BY <1>4, <2>1, SendNextKeeps
  <2> DEFINE U == {k \in 1 .. Room(r) : ~ f[k].rto}
  <2>3. Repairs(r) # {} => \A k \in 1 .. Room(r) : f[k].rto
    <3> SUFFICES ASSUME Repairs(r) # {}, U # {} PROVE FALSE
      OBVIOUS
    <3>1. U \subseteq Nat
      BY <1>2
    <3>2. PICK m \in U : \A y \in U : m <= y
      <4> HIDE DEF U
      <4> QED BY <3>1, MinNat
    <3>3. m \in 1 .. Room(r) /\ ~ f[m].rto
      OBVIOUS
    <3>4. m # 1
      BY <2>2, <3>3
    <3>5. m - 1 \in 1 .. Room(r) /\ m - 1 \in 0 .. Room(r) /\ ~ (m <= m - 1)
      BY <1>2, <3>3, <3>4
    <3>6. f[m - 1].rto
      <4>1. m - 1 \notin U
        <5> HIDE DEF U
        <5> QED BY <3>2, <3>5
      <4> QED BY <3>5, <4>1
    <3>7. Good(f[m - 1]) /\ f[m] = SendNext(f[m - 1], Rule3(r))
      BY <1>3, <1>6, <3>3, <3>5
    <3>8. Sends(f[m], f[m - 1])
      BY <1>4, <3>7, SendNextKeeps
    <3> QED BY <3>3, <3>6, <3>8 DEF Sends
  <2>4. Repairs(r) # {} => p.rto
    BY <1>2, <1>10, <2>3
  <2>5. q.rto = p.rto
    <3> HIDE DEF p, q
    <3> QED BY <1>8, SkeletonFields
  <2> QED BY <1>8, <2>2, <2>4, <2>5
<1>11. SendPendingData(r) = q
  BY <1>3
<1>12. /\ Room(r) > 0 /\ Repairs(r) # {} => q.rto
       /\ Room(r) = 1 => BytesInFlight(q) <= BytesInFlight(r) + Seg
  <2> HIDE DEF q
  <2>1. Room(r) = 1 => Room(r) > 0
    OBVIOUS
  <2> QED BY <1>10, <2>1
<1> HIDE DEF q, p
<1> QED BY <1>9, <1>11, <1>12, Zenon

\* Sending a lost segment, a new one, or the head again.
LEMMA DoRetransmitKeeps ==
    ASSUME NEW r, Good(r), r.una < r.nxt
    PROVE  Good(DoRetransmit(r)) /\ Sends(DoRetransmit(r), r) /\ DoRetransmit(r).rto
<1>1. r \in Socket /\ Board(r)
  BY DEF Good
<1> DEFINE seq == NextSeg(r, FALSE)
           s == IF seq = 0 THEN r.una ELSE seq
<1>2. seq = 0 \/ (seq \in Segments /\ seq \in r.una .. r.nxt)
  BY <1>1, NextSegIn
<1>3. r.una \in Segments /\ r.una \in r.una .. r.nxt
  <2>1. r.una \in 1 .. DataEnd + 1 /\ r.nxt \in 1 .. DataEnd + 1 /\ DataEnd \in Nat
    BY <1>1, LossConstants DEF Socket
  <2> QED BY <2>1 DEF Segments
<1>4. s \in Segments /\ s \in r.una .. r.nxt
  BY <1>2, <1>3
<1>5. DoRetransmit(r) = SendDataPacket(r, s)
  BY DEF DoRetransmit
<1> HIDE DEF s
<1> QED BY <1>4, <1>5, SendDataPacketKeeps

(***************************************************************************)
(* The scoreboard                                                          *)
(***************************************************************************)
\* From r to q only marks of the scoreboard have changed.
Marks(q, r) ==
    /\ q.sackOn = r.sackOn /\ q.una = r.una /\ q.nxt = r.nxt
    /\ q.cong = r.cong /\ q.recover = r.recover /\ q.prrFlight = r.prrFlight
    /\ q.rto = r.rto /\ q.retries = r.retries /\ q.closed = r.closed

\* Without SACK only the head is lost.
OnlyHeadLost(r) == r.sackOn \/ r.lost \subseteq {r.una}

\* The sequence numbers of a socket are naturals, up to the end of the data.
LEMMA SocketRanges ==
    ASSUME NEW r \in Socket
    PROVE  /\ r.una \in Nat /\ r.una > 0 /\ r.una <= DataEnd + 1
           /\ r.nxt \in Nat /\ r.nxt > 0 /\ r.nxt <= DataEnd + 1
           /\ r.highSack \in Nat /\ r.highSack <= DataEnd
           /\ r.recover \in Nat /\ r.recover <= DataEnd + 1
           /\ DataEnd \in Nat
           /\ Sent(r) \subseteq Nat
<1>1. DataEnd \in Nat
  BY LossConstants
<1>2. /\ r.una \in 1 .. DataEnd + 1 /\ r.nxt \in 1 .. DataEnd + 1
      /\ r.highSack \in 0 .. DataEnd /\ r.recover \in 0 .. DataEnd + 1
  BY DEF Socket
<1> QED BY <1>1, <1>2 DEF Sent

\* A non-empty set of naturals up to a bound has a maximum, which Max denotes.
LEMMA MaxBounded ==
    ASSUME NEW S, NEW b \in Nat, S \subseteq 0 .. b, S # {}
    PROVE  Max(S) \in S /\ \A y \in S : Max(S) >= y
<1> DEFINE T == {b - x : x \in S}
<1>1. T \subseteq Nat /\ T # {}
  <2>1. \A x \in S : x \in Nat /\ b - x \in Nat
    OBVIOUS
  <2> QED BY <2>1
<1>2. Min(T) \in T /\ \A y \in T : Min(T) <= y
  <2> HIDE DEF T
  <2> QED BY <1>1, MinNat
<1>3. PICK x \in S : Min(T) = b - x
  BY <1>2
<1>4. \A y \in S : x >= y
  <2> SUFFICES ASSUME NEW y \in S PROVE x >= y
    OBVIOUS
  <2>1. b - y \in T /\ x \in Int /\ y \in Int
    OBVIOUS
  <2>2. b - x <= b - y
    <3> HIDE DEF T
    <3> QED BY <1>2, <1>3, <2>1
  <2> QED BY <2>1, <2>2
<1> QED BY <1>4 DEF Max

\* SACKs only add losses, none of them SACKed.
LEMMA UpdateLostCountKeeps ==
    ASSUME NEW r \in Socket, Board(r), r.sackOn
    PROVE  LET q == UpdateLostCount(r)
           IN  /\ q \in Socket /\ Board(q) /\ Marks(q, r)
               /\ q.sacked = r.sacked /\ q.retrans = r.retrans
<1> DEFINE above(i) == Cardinality({j \in r.sacked : i <= j /\ j <= r.highSack})
           more == {i \in (r.una .. r.highSack) \ r.sacked : above(i) >= ReTxThresh}
           lost == r.lost \cup more
<1>1. UpdateLostCount(r) = [r EXCEPT !.lost = lost]
  BY DEF UpdateLostCount
<1>2. more \subseteq Sent(r) /\ more \cap r.sacked = {}
  <2>1. r.una \in Nat /\ r.highSack \in Nat /\ r.nxt \in Nat /\ r.highSack < r.nxt
    BY SocketRanges DEF Board
  <2>2. r.una .. r.highSack \subseteq r.una .. r.nxt - 1
    BY <2>1
  <2> QED BY <2>2 DEF Sent
<1>3. Sent(r) \subseteq Segments
  BY SocketRanges DEF Sent, Segments
<1>4. lost \subseteq Sent(r) /\ lost \cap r.sacked = {} /\ lost \in SUBSET Segments
  <2> HIDE DEF more
  <2> QED BY <1>2, <1>3 DEF Board
<1> HIDE DEF lost
<1>5. LET q == [r EXCEPT !.lost = lost]
      IN  /\ q \in Socket /\ q.lost = lost /\ Marks(q, r) /\ q.highSack = r.highSack
          /\ q.sacked = r.sacked /\ q.retrans = r.retrans /\ q.wire = r.wire
  BY <1>4 DEF Socket, Marks
<1> QED BY <1>1, <1>4, <1>5 DEF Board, Marks, Sent

\* The SACK blocks of an ACK are added to the marks.
LEMMA UpdateKeeps ==
    ASSUME NEW r \in Socket, Board(r), NEW blocks, r.una \notin blocks, r.sackOn \/ blocks = {}
    PROVE  LET q == Update(r, blocks)
           IN  /\ q \in Socket /\ Board(q) /\ Marks(q, r)
               /\ q.sacked = r.sacked \cup NewlySacked(r, blocks)
               /\ q.sackOn \/ q = r
<1> DEFINE new == NewlySacked(r, blocks)
<1>1. CASE new = {}
  BY <1>1 DEF Update, Marks
<1>2. CASE new # {}
  <2> DEFINE sacked == r.sacked \cup new
             lost == r.lost \ new
             high == HighestSack(r, new)
             p == [r EXCEPT !.sacked = sacked, !.lost = lost, !.highSack = high]
  <2>1. r.sackOn
    BY <1>2 DEF NewlySacked
  <2>2. new \subseteq Sent(r) /\ r.una \notin new
    BY DEF NewlySacked
  <2> HIDE DEF new
  <2>3. /\ Sent(r) \subseteq Segments /\ Sent(r) \subseteq 0 .. r.nxt - 1 /\ r.nxt - 1 \in Nat
    BY SocketRanges DEF Sent, Segments
  <2>4. Max(new) \in new
    BY <1>2, <2>2, <2>3, MaxBounded
  <2>5. high \in 0 .. r.nxt - 1
    <3>1. high \in {Max(new), r.highSack}
      BY DEF HighestSack
    <3>2. r.highSack \in 0 .. r.nxt - 1
      BY SocketRanges DEF Board
    <3> QED BY <2>2, <2>3, <2>4, <3>1, <3>2
  <2>6. high \in 0 .. DataEnd /\ high < r.nxt
    BY <2>5, SocketRanges
  <2>7. /\ sacked \subseteq Sent(r) /\ lost \subseteq Sent(r) /\ sacked \cap lost = {}
        /\ r.una \notin sacked
    BY <2>2 DEF Board
  <2>8. sacked \in SUBSET Segments /\ lost \in SUBSET Segments
    BY <2>3, <2>7
  <2> HIDE DEF sacked, lost, high
  <2>9. /\ p \in Socket /\ Marks(p, r) /\ p.sacked = sacked /\ p.lost = lost /\ p.highSack = high
        /\ p.retrans = r.retrans /\ p.wire = r.wire
    BY <2>6, <2>8 DEF Socket, Marks
  <2> HIDE DEF p
  <2>10. Board(p) /\ p.sackOn
    BY <2>1, <2>6, <2>7, <2>9 DEF Board, Marks, Sent
  <2>11. /\ UpdateLostCount(p) \in Socket /\ Board(UpdateLostCount(p))
         /\ Marks(UpdateLostCount(p), p) /\ UpdateLostCount(p).sacked = p.sacked
    BY <2>9, <2>10, UpdateLostCountKeeps
  <2>12. Update(r, blocks) = UpdateLostCount(p)
    BY <1>2 DEF Update, new, p, sacked, lost, high
  <2> QED BY <2>1, <2>9, <2>11, <2>12 DEF Marks, sacked, new
<1> QED BY <1>1, <1>2

\* MarkHeadAsLost takes the mark of SACKed off the head.
LEMMA MarkHeadKeeps ==
    ASSUME NEW r \in Socket, Board(r), OnlyHeadLost(r)
    PROVE  LET q == MarkHeadAsLost(r)
           IN  /\ q \in Socket /\ Board(q) /\ OnlyHeadLost(q) /\ Marks(q, r)
               /\ q.sacked = r.sacked
<1>1. CASE r.una = r.nxt
  BY <1>1 DEF MarkHeadAsLost, Marks
<1>2. CASE r.una # r.nxt
  <2> DEFINE sacked == r.sacked \ {r.una}
             lost == r.lost \cup {r.una}
             retrans == r.retrans \ {r.una}
             q == [r EXCEPT !.sacked = sacked, !.retrans = retrans, !.lost = lost]
  <2>1. MarkHeadAsLost(r) = q
    BY <1>2 DEF MarkHeadAsLost
  <2>2. r.una \in Sent(r) /\ Sent(r) \subseteq Segments
    <3>1. r.una <= r.nxt - 1
      BY <1>2, SocketRanges DEF Board
    <3> QED BY <3>1, SocketRanges DEF Sent, Segments
  <2>3. /\ q \in Socket /\ Marks(q, r) /\ q.sacked = r.sacked /\ q.lost = r.lost \cup {r.una}
        /\ q.retrans \subseteq r.retrans /\ q.highSack = r.highSack /\ q.wire = r.wire
    <3>1. sacked = r.sacked /\ retrans \subseteq r.retrans
      BY DEF Board
    <3>2. /\ sacked \in SUBSET Segments /\ lost \in SUBSET Segments /\ retrans \in SUBSET Segments
      BY <2>2 DEF Socket
    <3> HIDE DEF sacked, retrans, lost
    <3>3. /\ q \in Socket /\ Marks(q, r) /\ q.sacked = sacked /\ q.lost = lost
          /\ q.retrans = retrans /\ q.highSack = r.highSack /\ q.wire = r.wire
      BY <3>2 DEF Socket, Marks
    <3> QED BY <3>1, <3>3 DEF lost
  <2> HIDE DEF q
  <2>4. Board(q) /\ OnlyHeadLost(q)
    BY <2>2, <2>3 DEF Board, Marks, Sent, OnlyHeadLost
  <2> QED BY <2>1, <2>3, <2>4
<1> QED BY <1>1, <1>2

\* AddRenoSack marks a segment above the head, which is not lost.
LEMMA AddRenoKeeps ==
    ASSUME NEW r \in Socket, Board(r), r.lost \subseteq {r.una}
    PROVE  LET q == AddRenoSack(r)
           IN  q \in Socket /\ Board(q) /\ Marks(q, r) /\ q.lost = r.lost
<1> DEFINE free == (r.una + 1 .. r.nxt - 1) \ r.sacked
<1>1. CASE free = {}
  BY <1>1 DEF AddRenoSack, Marks
<1>2. CASE free # {}
  <2> DEFINE i == Min(free)
             q == [r EXCEPT !.sacked = @ \cup {i}, !.highSack = i]
  <2>1. AddRenoSack(r) = q
    BY <1>2 DEF AddRenoSack
  <2>2. i \in free
    <3>1. free \subseteq Nat
      BY SocketRanges
    <3> HIDE DEF free
    <3> QED BY <1>2, <3>1, MinNat
  <2>3. i \in Sent(r) /\ i # r.una /\ i \in Segments /\ i \in 0 .. DataEnd /\ i < r.nxt
    <3> HIDE DEF i
    <3> QED BY <2>2, SocketRanges DEF Sent, Segments
  <2> HIDE DEF i
  <2>4. /\ q \in Socket /\ Marks(q, r) /\ q.sacked = r.sacked \cup {i} /\ q.lost = r.lost
        /\ q.retrans = r.retrans /\ q.highSack = i /\ q.wire = r.wire
    BY <2>3 DEF Socket, Marks
  <2> HIDE DEF q
  <2>5. Board(q)
    BY <2>3, <2>4 DEF Board, Marks, Sent
  <2> QED BY <2>1, <2>4, <2>5
<1> QED BY <1>1, <1>2

\* A cumulative ACK moves the head; without SACK, a guess at the new head is
\* taken back and the new head is lost.
LEMMA DiscardUpToKeeps ==
    ASSUME NEW r \in Socket, Board(r), Guesses(r), NEW ack \in Nat,
           r.una <= ack, ack <= r.nxt, r.sackOn => ack \notin r.sacked
    PROVE  LET q == DiscardUpTo(r, ack)
           IN  /\ q \in Socket /\ Board(q) /\ Guesses(q)
               /\ Marks(q, [r EXCEPT !.una = ack])
               /\ q.sackOn => q.sacked \subseteq r.sacked
<1> DEFINE moved == [r EXCEPT !.una = ack]
<1>0. /\ ack \in 1 .. DataEnd + 1
      /\ moved \in Socket /\ moved.una = ack /\ moved.sackOn = r.sackOn /\ moved.nxt = r.nxt
      /\ moved.cong = r.cong /\ moved.recover = r.recover /\ moved.prrFlight = r.prrFlight
      /\ moved.rto = r.rto /\ moved.retries = r.retries /\ moved.closed = r.closed
  <2>1. ack \in 1 .. DataEnd + 1
    BY SocketRanges
  <2> QED BY <2>1 DEF Socket
<1>1. CASE ack <= r.una
  <2>1. DiscardUpTo(r, ack) = r /\ ack = r.una
    BY <1>1, SocketRanges DEF DiscardUpTo
  <2> HIDE DEF moved
  <2>2. Marks(r, moved)
    BY <1>0, <2>1 DEF Marks
  <2> QED BY <2>1, <2>2 DEF moved
<1>2. CASE ~ (ack <= r.una)
  <2> DEFINE rest(S) == {i \in S : i >= ack}
             q == [r EXCEPT !.una = ack, !.sacked = rest(@), !.lost = rest(@), !.retrans = rest(@)]
             q1 == [q EXCEPT !.sacked = @ \ {ack}]
             p == IF ack \in q.sacked THEN MarkHeadAsLost(AddRenoSack(q1)) ELSE q
             high == IF p.highSack <= ack THEN 0 ELSE p.highSack
             d == [p EXCEPT !.highSack = high]
  <2>1. DiscardUpTo(r, ack) = d
    BY <1>2 DEF DiscardUpTo
  <2>2. /\ q \in Socket /\ Marks(q, moved) /\ q.una = ack /\ q.nxt = r.nxt
        /\ q.sacked = rest(r.sacked) /\ q.lost = rest(r.lost) /\ q.retrans = rest(r.retrans)
        /\ q.highSack = r.highSack /\ q.wire = r.wire /\ q.recover = r.recover
        /\ q.sackOn = r.sackOn /\ q.cong = r.cong
    <3>1. rest(r.sacked) \in SUBSET Segments /\ rest(r.lost) \in SUBSET Segments
          /\ rest(r.retrans) \in SUBSET Segments
      BY DEF Socket
    <3> HIDE DEF rest
    <3> QED BY <1>0, <3>1 DEF Socket, Marks
  <2>3. /\ q1 \in Socket /\ Marks(q1, moved) /\ q1.una = ack /\ q1.nxt = r.nxt
        /\ q1.sacked = q.sacked \ {ack} /\ q1.lost = q.lost /\ q1.retrans = q.retrans
        /\ q1.highSack = r.highSack /\ q1.wire = r.wire /\ q1.recover = r.recover
        /\ q1.sackOn = r.sackOn /\ q1.cong = r.cong
    <3>1. q.sacked \ {ack} \in SUBSET Segments
      BY <2>2 DEF Socket
    <3> HIDE DEF q, moved
    <3> QED BY <2>2, <3>1 DEF Socket, Marks
  <2>4. /\ q.sacked \subseteq r.sacked /\ q.lost \subseteq r.lost
        /\ q.sacked \subseteq Sent(q) /\ q.lost \subseteq Sent(q) /\ q.retrans \subseteq Sent(q)
        /\ Sent(q1) = Sent(q)
    <3>1. r.una \in Nat /\ r.nxt \in Nat /\ r.una <= ack
      BY SocketRanges
    <3>2. \A i \in Sent(r) : i >= ack => i \in Sent(q)
      BY <2>2, <3>1 DEF Sent
    <3> QED BY <2>2, <2>3, <3>2 DEF Board, Sent
  <2> HIDE DEF q, q1, moved, rest
  <2>5. p \in Socket /\ Board(p) /\ Guesses(p) /\ Marks(p, moved) /\ (p.sackOn => p.sacked \subseteq r.sacked)
    <3>1. CASE ack \notin q.sacked
      <4>1. p = q
        BY <3>1
      <4>2. Board(q)
        BY <2>2, <2>4, <3>1, SocketRanges DEF Board
      <4>3. Guesses(q)
        <5>1. CASE r.lost \subseteq {r.una}
          <6>1. q.lost = {}
            BY <1>2, <2>2, <5>1, SocketRanges DEF rest
          <6> QED BY <6>1 DEF Guesses
        <5>2. CASE ~ (r.lost \subseteq {r.una})
          BY <2>2, <2>4, <5>2 DEF Guesses
        <5> QED BY <5>1, <5>2
      <4> HIDE DEF p
      <4> QED BY <2>2, <2>4, <4>1, <4>2, <4>3
    <3>2. CASE ack \in q.sacked
      <4>1. ~ r.sackOn /\ r.sacked # {}
        BY <2>4, <3>2
      <4>2. r.lost \subseteq {r.una}
        BY <4>1 DEF Guesses
      <4>3. q1.lost = {}
        BY <1>2, <2>2, <2>3, <4>2, SocketRanges DEF rest
      <4>4. Board(q1)
        BY <2>2, <2>3, <2>4, <4>3 DEF Board
      <4> DEFINE a == AddRenoSack(q1)
                 m == MarkHeadAsLost(a)
      <4>5. a \in Socket /\ Board(a) /\ Marks(a, q1) /\ a.lost = q1.lost
        BY <2>3, <4>3, <4>4, AddRenoKeeps
      <4>6. OnlyHeadLost(a)
        BY <4>3, <4>5 DEF OnlyHeadLost
      <4> HIDE DEF a
      <4>7. m \in Socket /\ Board(m) /\ OnlyHeadLost(m) /\ Marks(m, a)
        BY <4>5, <4>6, MarkHeadKeeps
      <4> HIDE DEF m
      <4>8. p = m
        BY <3>2 DEF m, a
      <4>9. Marks(m, moved) /\ ~ m.sackOn
        BY <2>3, <4>1, <4>5, <4>7 DEF Marks
      <4>10. Guesses(m)
        BY <4>7 DEF Guesses, OnlyHeadLost
      <4> HIDE DEF p
      <4> QED BY <4>7, <4>8, <4>9, <4>10
    <3> QED BY <3>1, <3>2
  <2> HIDE DEF p
  <2>6. high \in 0 .. DataEnd /\ high < p.nxt
    BY <2>5, SocketRanges DEF Board
  <2> HIDE DEF high
  <2>7. /\ d \in Socket /\ Marks(d, p) /\ d.sacked = p.sacked /\ d.lost = p.lost
        /\ d.retrans = p.retrans /\ d.highSack = high /\ d.wire = p.wire
    BY <2>5, <2>6 DEF Socket, Marks
  <2> HIDE DEF d
  <2>8. Board(d) /\ Guesses(d) /\ Marks(d, moved) /\ (d.sackOn => d.sacked \subseteq r.sacked)
    <3>1. Board(d)
      BY <2>5, <2>6, <2>7 DEF Board, Marks, Sent
    <3>2. Guesses(d)
      BY <2>5, <2>7 DEF Guesses, Marks
    <3> QED BY <2>5, <2>7, <3>1, <3>2 DEF Marks
  <2> QED BY <2>1, <2>7, <2>8 DEF moved
<1> QED BY <1>1, <1>2

\* After a timeout all that is outstanding and not SACKed is to be repaired.
LEMMA SetSentListLostKeeps ==
    ASSUME NEW r \in Socket, Board(r)
    PROVE  LET q == SetSentListLost(r)
           IN  /\ q \in Socket /\ Board(q) /\ Marks(q, r)
               /\ q.sacked \cup q.lost = Sent(q) /\ q.retrans = {}
               /\ q.sackOn \/ q.sacked = {}
               /\ q.sackOn => q.sacked = r.sacked
               /\ r.una < r.nxt => Repairs(q) # {}
<1> DEFINE q == SetSentListLost(r)
<1>1. Sent(r) \subseteq Segments /\ (r.una < r.nxt => r.una \in Sent(r)) /\ r.nxt > 0
  BY SocketRanges DEF Sent, Segments
<1>2. CASE r.sackOn
  <2> DEFINE lost == r.lost \cup (Sent(r) \ r.sacked)
  <2>1. lost \in SUBSET Segments /\ lost \subseteq Sent(r) /\ r.sacked \cup lost = Sent(r)
        /\ r.sacked \cap lost = {}
    BY <1>1 DEF Board
  <2>2. q = [r EXCEPT !.lost = lost, !.retrans = {}]
    BY <1>2 DEF SetSentListLost
  <2> HIDE DEF lost, q
  <2>3. /\ q \in Socket /\ Marks(q, r) /\ q.lost = lost /\ q.retrans = {} /\ q.sacked = r.sacked
        /\ q.highSack = r.highSack /\ q.wire = r.wire
    BY <2>1, <2>2 DEF Socket, Marks
  <2>4. Board(q) /\ Sent(q) = Sent(r)
    BY <2>1, <2>3 DEF Board, Marks, Sent
  <2>5. r.una < r.nxt => r.una \in Repairs(q)
    BY <1>1, <2>1, <2>3 DEF Repairs, Board
  <2> QED BY <1>2, <2>1, <2>3, <2>4, <2>5 DEF q, Marks
<1>3. CASE ~ r.sackOn
  <2>2. q = [r EXCEPT !.lost = Sent(r), !.retrans = {}, !.sacked = {}, !.highSack = 0]
    BY <1>3 DEF SetSentListLost
  <2> HIDE DEF q
  <2>3. /\ q \in Socket /\ Marks(q, r) /\ q.lost = Sent(r) /\ q.retrans = {} /\ q.sacked = {}
        /\ q.highSack = 0 /\ q.wire = r.wire
    <3>1. 0 \in 0 .. DataEnd
      BY SocketRanges
    <3> QED BY <1>1, <2>2, <3>1 DEF Socket, Marks
  <2>4. Board(q) /\ Sent(q) = Sent(r)
    BY <1>1, <2>3 DEF Board, Marks, Sent
  <2>5. r.una < r.nxt => r.una \in Repairs(q)
    BY <1>1, <2>3 DEF Repairs
  <2> QED BY <1>3, <2>3, <2>4, <2>5 DEF q, Marks
<1> QED BY <1>2, <1>3

(***************************************************************************)
(* The congestion states                                                   *)
(***************************************************************************)
\* From r to q, within one ACK: what the invariants say of q and of r at once.
Follows(q, r) ==
    /\ q.sackOn = r.sackOn /\ q.una = r.una /\ q.closed = r.closed
    /\ q.nxt >= r.nxt
    /\ q.sackOn => q.sacked \subseteq r.sacked
    /\ Armed(r) => Armed(q)

\* No recovery point of the past, pt is the highest, is beyond the present one.
Passed(r, pt) ==
    IF r.cong \in {"OPEN", "DISORDER"} THEN pt <= r.una ELSE pt <= r.recover

\* A socket between two steps of the processing of an ACK.
Fit(r, pt) == Good(r) /\ InCwr(r) /\ Passed(r, pt)

\* The steps of the processing of an ACK add up.
LEMMA FollowsTrans ==
    ASSUME NEW r \in Socket, NEW q \in Socket, NEW p \in Socket, Follows(q, r), Follows(p, q)
    PROVE  Follows(p, r)
<1>1. r.nxt \in Int /\ q.nxt \in Int /\ p.nxt \in Int
  BY SocketRanges
<1> QED BY <1>1 DEF Follows

LEMMA SkeletonFollows ==
    ASSUME NEW r \in Socket, NEW q, Skeleton(q) = Skeleton(r)
    PROVE  Follows(q, r) /\ Sends(q, r) /\ Marks(q, r)
BY SkeletonFields, SocketRanges DEF Follows, Sends, Marks, Armed

LEMMA SkeletonFit ==
    ASSUME NEW r, NEW q \in Socket, NEW pt, Fit(r, pt), Skeleton(q) = Skeleton(r)
    PROVE  Fit(q, pt)
<1>1. Good(q)
  BY SkeletonGood DEF Fit
<1> QED BY <1>1, SkeletonFields DEF Fit, InCwr, Passed

LEMMA SendsFollows ==
    ASSUME NEW r \in Socket, NEW q \in Socket, Sends(q, r)
    PROVE  Follows(q, r)
BY SendsArmed DEF Sends, Follows

LEMMA SendsFit ==
    ASSUME NEW r, NEW q, NEW pt, Fit(r, pt), Good(q), Sends(q, r)
    PROVE  Fit(q, pt)
BY DEF Fit, Sends, InCwr, Passed

\* The start of a CWR or recovery phase: what is outstanding is its base.
LEMMA EnterPrrKeeps ==
    ASSUME NEW r \in Socket, r.una <= r.nxt, NEW delivered \in Nat, r.una < r.nxt \/ r.flight = 0
    PROVE  LET q == EnterPrr(r, delivered)
           IN  /\ q \in Socket /\ Marks(q, [r EXCEPT !.prrFlight = UnAckDataCount(r)])
               /\ q.sacked = r.sacked /\ q.lost = r.lost /\ q.retrans = r.retrans
               /\ q.highSack = r.highSack /\ q.wire = r.wire
               /\ r.una < r.nxt => q.prrFlight > 0
<1> DEFINE u == UnAckDataCount(r)
           p == [r EXCEPT !.prrOut = 0, !.prrDelivered = 0, !.prrFlight = u]
<1>1. u \in Nat /\ (r.una < r.nxt => u > 0)
  <2>1. r.nxt - r.una \in Nat /\ (r.una < r.nxt => r.nxt - r.una > 0) /\ Seg \in Nat /\ Seg > 0
    BY SocketRanges, WindowConstants
  <2>2. \A n \in Nat : n * Seg \in Nat /\ (n > 0 => n * Seg > 0)
    BY <2>1
  <2> QED BY <2>1, <2>2 DEF UnAckDataCount
<1> HIDE DEF u
<1>2. /\ p \in Socket /\ p.prrFlight = u /\ p.sackOn = r.sackOn /\ p.una = r.una /\ p.nxt = r.nxt
      /\ p.cong = r.cong /\ p.recover = r.recover /\ p.rto = r.rto /\ p.retries = r.retries
      /\ p.closed = r.closed /\ p.sacked = r.sacked /\ p.lost = r.lost /\ p.retrans = r.retrans
      /\ p.highSack = r.highSack /\ p.wire = r.wire
  BY <1>1 DEF Socket
<1>3. /\ r.flight \in Nat /\ r.retransAcked \in BOOLEAN
      /\ p.prrFlight > 0 \/ r.flight = 0
  <2>1. r.una < r.nxt \/ r.flight = 0
    OBVIOUS
  <2> HIDE DEF p
  <2> QED BY <1>1, <1>2, <2>1 DEF Socket
<1> HIDE DEF p
<1> DEFINE q == DoRecovery(p, r.flight, delivered, r.retransAcked)
<1>4. q \in Socket /\ Skeleton(q) = Skeleton(p)
  BY <1>2, <1>3, DoRecoveryKeeps
<1>5. EnterPrr(r, delivered) = q
  BY DEF EnterPrr, PrrEnterRecovery, p, u
<1> HIDE DEF q
<1>6. /\ Marks(q, p) /\ q.sacked = p.sacked /\ q.lost = p.lost
      /\ q.retrans = p.retrans /\ q.highSack = p.highSack /\ q.wire = p.wire
  BY <1>4, SkeletonFields DEF Marks
<1>7. Marks(q, [r EXCEPT !.prrFlight = u])
  BY <1>2, <1>6 DEF Marks, Socket
<1> QED BY <1>1, <1>2, <1>4, <1>5, <1>6, <1>7 DEF u, Marks

\* Half a window is a window.
LEMMA GetSsThreshNat ==
    ASSUME NEW r \in Socket
    PROVE  GetSsThresh(r) \in Nat
BY DEF GetSsThresh, Socket

\* An echo starts a CWR phase that ends with all that is outstanding.
LEMMA EnterCwrKeeps ==
    ASSUME NEW r, Good(r), NEW delivered \in Nat
    PROVE  LET q == EnterCwr(r, delivered)
           IN  /\ Good(q) /\ InCwr(q) /\ Follows(q, r)
               /\ q.cong = "CWR" /\ q.recover = r.nxt /\ q.nxt = r.nxt /\ q.sacked = r.sacked
               /\ q.una < q.nxt => q.prrFlight > 0
<1>1. r \in Socket /\ Board(r) /\ BytesInFlight(r) \in Nat /\ GetSsThresh(r) \in Nat
  BY FlightNat, GetSsThreshNat DEF Good
<1> DEFINE fl == BytesInFlight(r)
           th == GetSsThresh(r)
           p == [r EXCEPT !.flight = fl, !.ssThresh = th, !.cong = "CWR", !.recover = r.nxt]
           q == EnterPrr(p, delivered)
<1>2. q = EnterCwr(r, delivered)
  <2>1. [Measured(r) EXCEPT !.ssThresh = GetSsThresh(r), !.cong = "CWR", !.recover = r.nxt] = p
    BY <1>1 DEF Measured, Socket
  <2> HIDE DEF p
  <2> QED BY <2>1 DEF EnterCwr
<1>3. r.nxt \in 0 .. DataEnd + 1
  BY <1>1, SocketRanges
<1>4. /\ p \in Socket /\ p.flight = fl /\ p.cong = "CWR" /\ p.recover = r.nxt /\ p.nxt = r.nxt
      /\ p.una = r.una /\ p.sackOn = r.sackOn /\ p.sacked = r.sacked /\ p.lost = r.lost
      /\ p.retrans = r.retrans /\ p.highSack = r.highSack /\ p.wire = r.wire /\ p.rto = r.rto
      /\ p.retries = r.retries /\ p.closed = r.closed
  <2> HIDE DEF fl, th
  <2> QED BY <1>1, <1>3 DEF Socket, fl, th
<1>5. p.una <= p.nxt /\ (p.una < p.nxt \/ p.flight = 0)
  <2>1. r.una <= r.nxt /\ (r.una = r.nxt => fl = 0)
    BY <1>1, FlightNat DEF Board
  <2> HIDE DEF fl, p
  <2> QED BY <1>1, <1>4, <2>1, SocketRanges
<1> HIDE DEF p
<1>6. /\ q \in Socket /\ Marks(q, [p EXCEPT !.prrFlight = UnAckDataCount(p)])
      /\ q.sacked = p.sacked /\ q.lost = p.lost /\ q.retrans = p.retrans
      /\ q.highSack = p.highSack /\ q.wire = p.wire
      /\ p.una < p.nxt => q.prrFlight > 0
  BY <1>4, <1>5, EnterPrrKeeps
<1> HIDE DEF q
<1>7. /\ q.sackOn = r.sackOn /\ q.una = r.una /\ q.nxt = r.nxt /\ q.cong = "CWR" /\ q.recover = r.nxt
      /\ q.rto = r.rto /\ q.retries = r.retries /\ q.closed = r.closed
  BY <1>4, <1>6 DEF Marks, Socket
<1>8. Board(q)
  BY <1>1, <1>4, <1>6, <1>7, SocketRanges DEF Board, Sent
<1>9. Guesses(q)
  <2>1. \A i \in r.lost : i < r.nxt
    BY <1>1, SocketRanges DEF Board, Sent
  <2> QED BY <1>4, <1>6, <1>7, <2>1 DEF Good, Guesses
<1>10. Prr(q) /\ InCwr(q)
  BY <1>1, <1>4, <1>6, <1>7 DEF Prr, InCwr, Board
<1>11. Follows(q, r)
  BY <1>1, <1>4, <1>6, <1>7, SocketRanges DEF Follows, Armed
<1> QED BY <1>2, <1>4, <1>6, <1>7, <1>8, <1>9, <1>10, <1>11 DEF Good

\* The head is lost, the recovery point is all that was sent, and the timer runs.
LEMMA EnterRecoveryKeeps ==
    ASSUME NEW r, Good(r), OnlyHeadLost(r), r.una < r.nxt, NEW delivered \in Nat
    PROVE  LET q == EnterRecovery(r, delivered)
           IN  /\ Good(q) /\ Follows(q, r)
               /\ q.cong = "RECOVERY" /\ q.recover = r.nxt /\ q.retries = r.retries
<1>1. r \in Socket /\ Board(r) /\ GetSsThresh(r) \in Nat
  BY GetSsThreshNat DEF Good
<1> DEFINE marked == IF ~ r.sackOn THEN MarkHeadAsLost(AddRenoSack(r))
                     ELSE IF IsLost(r, r.una) THEN r ELSE MarkHeadAsLost(r)
<1>2. /\ marked \in Socket /\ Board(marked) /\ OnlyHeadLost(marked) /\ Marks(marked, r)
      /\ r.sackOn => marked.sacked = r.sacked
  <2>1. CASE ~ r.sackOn
    <3> DEFINE a == AddRenoSack(r)
    <3>1. a \in Socket /\ Board(a) /\ Marks(a, r) /\ a.lost = r.lost
      BY <1>1, <2>1, AddRenoKeeps DEF OnlyHeadLost
    <3> HIDE DEF a
    <3>2. OnlyHeadLost(a)
      BY <2>1, <3>1 DEF OnlyHeadLost, Marks
    <3> DEFINE m == MarkHeadAsLost(a)
    <3>3. m \in Socket /\ Board(m) /\ OnlyHeadLost(m) /\ Marks(m, a)
      BY <3>1, <3>2, MarkHeadKeeps
    <3> HIDE DEF m
    <3>4. marked = m
      BY <2>1 DEF m, a
    <3> HIDE DEF marked
    <3> QED BY <2>1, <3>1, <3>3, <3>4 DEF Marks
  <2>2. CASE r.sackOn /\ IsLost(r, r.una)
    <3>1. marked = r
      BY <2>2
    <3> HIDE DEF marked
    <3> QED BY <1>1, <3>1 DEF Marks
  <2>3. CASE r.sackOn /\ ~ IsLost(r, r.una)
    <3>1. marked = MarkHeadAsLost(r)
      BY <2>3
    <3> HIDE DEF marked
    <3> QED BY <1>1, <3>1, MarkHeadKeeps
  <2> QED BY <2>1, <2>2, <2>3
<1> DEFINE fl == BytesInFlight(marked)
           th == GetSsThresh(r)
           p == [Measured(marked) EXCEPT !.recover = r.nxt, !.active = TRUE, !.cong = "RECOVERY",
                                         !.ssThresh = th]
           e == EnterPrr(p, delivered)
<1>3. EnterRecovery(r, delivered) = DoRetransmit(e)
  BY DEF EnterRecovery
<1> HIDE DEF marked
<1>4. fl \in Nat /\ r.nxt \in 0 .. DataEnd + 1
  BY <1>1, <1>2, FlightNat, SocketRanges
<1>5. /\ p \in Socket /\ p.cong = "RECOVERY" /\ p.recover = r.nxt /\ p.nxt = r.nxt
      /\ p.una = r.una /\ p.sackOn = r.sackOn /\ p.sacked = marked.sacked /\ p.lost = marked.lost
      /\ p.retrans = marked.retrans /\ p.highSack = marked.highSack /\ p.wire = marked.wire
      /\ p.rto = r.rto /\ p.retries = r.retries /\ p.closed = r.closed
  <2>1. p = [marked EXCEPT !.flight = fl, !.recover = r.nxt, !.active = TRUE, !.cong = "RECOVERY",
                           !.ssThresh = th]
    BY <1>2 DEF Measured, Socket
  <2> HIDE DEF p, fl, th
  <2> QED BY <1>1, <1>2, <1>4, <2>1 DEF Socket, Marks, th
<1> HIDE DEF p
<1>6. p.una < p.nxt /\ p.una <= p.nxt
  BY <1>1, <1>5, SocketRanges
<1>7. /\ e \in Socket /\ Marks(e, [p EXCEPT !.prrFlight = UnAckDataCount(p)])
      /\ e.sacked = p.sacked /\ e.lost = p.lost /\ e.retrans = p.retrans
      /\ e.highSack = p.highSack /\ e.wire = p.wire /\ e.prrFlight > 0
  BY <1>5, <1>6, EnterPrrKeeps
<1> HIDE DEF e
<1>8. /\ e.sackOn = r.sackOn /\ e.una = r.una /\ e.nxt = r.nxt /\ e.cong = "RECOVERY"
      /\ e.recover = r.nxt /\ e.rto = r.rto /\ e.retries = r.retries /\ e.closed = r.closed
  BY <1>5, <1>7 DEF Marks, Socket
<1>9. Board(e)
  BY <1>1, <1>2, <1>5, <1>7, <1>8, SocketRanges DEF Board, Sent, Marks
<1>10. Good(e)
  BY <1>2, <1>5, <1>7, <1>8, <1>9 DEF Good, Guesses, Prr, OnlyHeadLost, Marks
<1>11. Follows(e, r)
  BY <1>1, <1>2, <1>5, <1>7, <1>8, SocketRanges DEF Follows, Armed
<1> DEFINE d == DoRetransmit(e)
<1>12. Good(d) /\ Sends(d, e)
  BY <1>8, <1>10, DoRetransmitKeeps
<1> HIDE DEF d
<1>13. d \in Socket
  BY <1>12 DEF Good
<1>14. Follows(d, r)
  BY <1>1, <1>7, <1>11, <1>12, <1>13, SendsFollows, FollowsTrans
<1> QED BY <1>3, <1>8, <1>12, <1>14 DEF d, Sends

\* Outside CA_LOSS and CA_CWR only the head is lost, without SACK.
LEMMA GuessesHead ==
    ASSUME NEW r, Guesses(r), r.cong \notin {"LOSS", "CWR"}
    PROVE  OnlyHeadLost(r)
BY DEF Guesses, OnlyHeadLost

\* A duplicate ACK is counted, guessed from, or starts a recovery.
LEMMA DupAckKeeps ==
    ASSUME NEW r, NEW pt \in Nat, Fit(r, pt), r.una < r.nxt, NEW delivered \in Nat
    PROVE  LET q == DupAck(r, delivered)
           IN  /\ Fit(q, pt) /\ Follows(q, r) /\ q.retries = r.retries
               /\ r.cong \in {"OPEN", "DISORDER"} => q.cong \in {"DISORDER", "RECOVERY"}
               /\ r.cong \in {"RECOVERY", "CWR", "LOSS"} => q.cong = r.cong /\ q.recover = r.recover
               /\ r.cong = "CWR" => q.prrFlight = r.prrFlight /\ q.flight = r.flight
<1>1. r \in Socket /\ Board(r) /\ Good(r)
  BY DEF Fit, Good
<1> DEFINE n == IF r.cong # "RECOVERY" THEN r.dupAcks + 1 ELSE r.dupAcks
           c == IF r.cong = "OPEN" THEN "DISORDER" ELSE r.cong
           q == [r EXCEPT !.dupAcks = n, !.cong = c]
           guessed == IF r.sackOn THEN q ELSE AddRenoSack(q)
           x == DupAck(r, delivered)
<1>2. /\ n \in Nat /\ c \in {"DISORDER", "CWR", "RECOVERY", "LOSS"}
      /\ r.cong \in {"OPEN", "DISORDER", "CWR", "RECOVERY", "LOSS"}
  BY <1>1 DEF Socket
<1> HIDE DEF n
<1>3. /\ q \in Socket /\ q.cong = c /\ q.sackOn = r.sackOn /\ q.una = r.una /\ q.nxt = r.nxt
      /\ q.sacked = r.sacked /\ q.lost = r.lost /\ q.retrans = r.retrans /\ q.highSack = r.highSack
      /\ q.recover = r.recover /\ q.prrFlight = r.prrFlight /\ q.rto = r.rto
      /\ q.retries = r.retries /\ q.closed = r.closed /\ q.wire = r.wire
      /\ q.flight = r.flight /\ q.retransAcked = r.retransAcked
  BY <1>1, <1>2 DEF Socket
<1>4. x = CASE q.cong = "LOSS" -> r
            [] q.cong = "CWR" -> q
            [] q.cong = "RECOVERY" -> DoRecovery(guessed, q.flight, delivered, q.retransAcked)
            [] q.cong = "DISORDER" -> IF MustRecover(q) THEN EnterRecovery(q, delivered) ELSE guessed
  <2>1. q.sackOn = r.sackOn
    BY <1>3
  <2> QED BY DEF DupAck, n
<1> HIDE DEF q, x
<1>5. Good(q)
  BY <1>1, <1>2, <1>3 DEF Good, Board, Sent, Guesses, Prr
<1>6. Fit(q, pt) /\ Follows(q, r)
  BY <1>1, <1>2, <1>3, <1>5, SocketRanges DEF Fit, InCwr, Passed, Follows, Armed
<1>7. CASE r.cong = "LOSS"
  <2>1. x = r
    BY <1>3, <1>4, <1>7
  <2>2. Follows(r, r)
    BY <1>1, SkeletonFollows
  <2> QED BY <1>7, <2>1, <2>2 DEF x
<1>8. CASE r.cong = "CWR"
  <2>1. x = q
    BY <1>3, <1>4, <1>8
  <2> QED BY <1>3, <1>6, <1>8, <2>1 DEF x
<1>9. CASE r.cong \in {"RECOVERY", "OPEN", "DISORDER"}
  <2>1. q.cong \notin {"LOSS", "CWR"} /\ OnlyHeadLost(q)
    BY <1>3, <1>5, <1>9, GuessesHead DEF Good
  <2>2. /\ guessed \in Socket /\ Board(guessed) /\ Marks(guessed, q) /\ guessed.lost = q.lost
        /\ q.sackOn => guessed.sacked = q.sacked
    <3>1. CASE r.sackOn
      <4>1. guessed = q
        BY <3>1
      <4> HIDE DEF guessed
      <4> QED BY <1>5, <4>1 DEF Good, Marks
    <3>2. CASE ~ r.sackOn
      <4>1. guessed = AddRenoSack(q) /\ q.lost \subseteq {q.una}
        BY <1>3, <2>1, <3>2 DEF OnlyHeadLost
      <4> HIDE DEF guessed
      <4> QED BY <1>3, <1>5, <3>2, <4>1, AddRenoKeeps DEF Good
    <3> QED BY <3>1, <3>2
  <2> HIDE DEF guessed
  <2>3. Good(guessed)
    BY <1>5, <2>1, <2>2 DEF Good, Guesses, Prr, OnlyHeadLost, Marks
  <2>4. Fit(guessed, pt) /\ Follows(guessed, r)
    <3>1. Fit(guessed, pt)
      BY <1>6, <2>2, <2>3 DEF Fit, InCwr, Passed, Marks
    <3>2. Follows(guessed, q)
      BY <1>3, <2>2, SocketRanges DEF Follows, Marks, Armed
    <3> QED BY <1>1, <1>3, <1>6, <2>2, <3>1, <3>2, FollowsTrans
  <2>5. CASE r.cong = "RECOVERY"
    <3>1. x = DoRecovery(guessed, q.flight, delivered, q.retransAcked)
      BY <1>3, <1>4, <2>5
    <3>2. q.flight \in Nat /\ q.retransAcked \in BOOLEAN /\ guessed.prrFlight > 0
      BY <1>3, <1>5, <2>2, <2>5 DEF Socket, Good, Prr, Marks
    <3>3. x \in Socket /\ Skeleton(x) = Skeleton(guessed)
      BY <2>2, <3>1, <3>2, DoRecoveryKeeps
    <3>4. Fit(x, pt) /\ Follows(x, guessed)
      BY <2>2, <2>4, <3>3, SkeletonFit, SkeletonFollows
    <3>5. Follows(x, r)
      BY <1>1, <2>2, <2>4, <3>3, <3>4, FollowsTrans
    <3>6. x.cong = r.cong /\ x.recover = r.recover /\ x.retries = r.retries
      BY <1>3, <2>2, <2>5, <3>3, SkeletonFields DEF Marks
    <3> QED BY <2>5, <3>4, <3>5, <3>6 DEF x
  <2>6. CASE r.cong \in {"OPEN", "DISORDER"}
    <3>1. x = IF MustRecover(q) THEN EnterRecovery(q, delivered) ELSE guessed
      BY <1>3, <1>4, <2>6
    <3>2. CASE ~ MustRecover(q)
      <4>1. x = guessed
        BY <3>1, <3>2
      <4> QED BY <1>3, <2>2, <2>4, <2>6, <4>1 DEF x, Marks
    <3>3. CASE MustRecover(q)
      <4>1. x = EnterRecovery(q, delivered)
        BY <3>1, <3>3
      <4>2. q.una < q.nxt
        BY <1>3
      <4>3. /\ Good(x) /\ Follows(x, q) /\ x.cong = "RECOVERY" /\ x.recover = q.nxt
            /\ x.retries = q.retries
        BY <1>5, <2>1, <4>1, <4>2, EnterRecoveryKeeps
      <4>4. Passed(x, pt) /\ InCwr(x)
        <5>1. pt <= q.una /\ q.una <= q.nxt
          BY <1>1, <1>3, <2>6 DEF Fit, Passed, Board
        <5>2. pt <= q.nxt
          BY <1>3, <5>1, SocketRanges
        <5> QED BY <4>3, <5>2 DEF Passed, InCwr
      <4>5. Follows(x, r)
        BY <1>1, <1>3, <1>6, <4>3, FollowsTrans DEF Good
      <4> QED BY <1>3, <2>6, <4>3, <4>4, <4>5 DEF Fit, x
    <3> QED BY <3>2, <3>3
  <2> QED BY <1>9, <2>5, <2>6
<1> QED BY <1>2, <1>7, <1>8, <1>9

\* New data acknowledged restores the retries; the timer stays while it is needed.
LEMMA NewAckKeeps ==
    ASSUME NEW r, NEW pt, Fit(r, pt), NEW reset \in BOOLEAN
    PROVE  LET q == NewAck(r, reset)
           IN  /\ Fit(q, pt) /\ Follows(q, r) /\ q.retries = DataRetries
               /\ q.cong = r.cong /\ q.recover = r.recover
<1>1. r \in Socket /\ Good(r) /\ DataRetries \in 0 .. DataRetries
  BY LossConstants DEF Fit, Good
<1> DEFINE rto == (r.rto \/ reset) /\ r.una <= DataEnd
           q == [r EXCEPT !.retries = DataRetries, !.rto = rto]
<1>2. NewAck(r, reset) = q
  BY DEF NewAck
<1>3. rto \in BOOLEAN /\ (r.rto /\ r.una < r.nxt => rto)
  BY <1>1, SocketRanges
<1> HIDE DEF rto
<1>4. /\ q \in Socket /\ q.sackOn = r.sackOn /\ q.una = r.una /\ q.nxt = r.nxt
      /\ q.sacked = r.sacked /\ q.lost = r.lost /\ q.retrans = r.retrans /\ q.highSack = r.highSack
      /\ q.cong = r.cong /\ q.recover = r.recover /\ q.prrFlight = r.prrFlight /\ q.rto = rto
      /\ q.retries = DataRetries /\ q.closed = r.closed /\ q.wire = r.wire
  BY <1>1, <1>3 DEF Socket
<1> HIDE DEF q
<1>5. Good(q)
  BY <1>1, <1>4 DEF Good, Board, Sent, Guesses, Prr
<1>6. Fit(q, pt) /\ Follows(q, r)
  BY <1>1, <1>3, <1>4, <1>5, SocketRanges DEF Fit, InCwr, Passed, Follows, Armed
<1> QED BY <1>2, <1>4, <1>6

\* An ACK within a recovery repairs the new head.
LEMMA PartialAckKeeps ==
    ASSUME NEW r, NEW pt, Fit(r, pt), r.cong = "RECOVERY", r.una < r.recover, NEW delivered \in Nat
    PROVE  LET q == PartialAck(r, delivered)
           IN  /\ Fit(q, pt) /\ Follows(q, r) /\ q.retries = DataRetries
               /\ q.cong = r.cong /\ q.recover = r.recover
<1>1. r \in Socket /\ Good(r) /\ Board(r) /\ OnlyHeadLost(r) /\ r.prrFlight > 0
      /\ r.flight \in Nat /\ r.retransAcked \in BOOLEAN /\ r.first \in BOOLEAN
  BY GuessesHead DEF Fit, Good, Prr, Socket
<1>2. r.una < r.nxt
  BY <1>1, SocketRanges DEF Board
<1> DEFINE marked == IF r.sackOn THEN r ELSE MarkHeadAsLost(r)
           q == DoRecovery(marked, r.flight, delivered, r.retransAcked)
           p == IF q.una \in q.retrans \ q.sacked THEN q ELSE DoRetransmit(q)
           n == NewAck(p, r.first)
           x == [n EXCEPT !.first = FALSE]
<1>3. PartialAck(r, delivered) = x
  BY DEF PartialAck
<1>4. /\ marked \in Socket /\ Board(marked) /\ OnlyHeadLost(marked) /\ Marks(marked, r)
      /\ marked.sacked = r.sacked
  <2>1. CASE r.sackOn
    BY <1>1, <2>1 DEF Marks
  <2>2. CASE ~ r.sackOn
    BY <1>1, <2>2, MarkHeadKeeps
  <2> QED BY <2>1, <2>2
<1> HIDE DEF marked
<1>5. Fit(marked, pt) /\ Follows(marked, r)
  <2>1. Good(marked)
    BY <1>1, <1>4 DEF Good, Guesses, OnlyHeadLost, Prr, Marks
  <2>2. Fit(marked, pt)
    BY <1>4, <2>1 DEF Fit, InCwr, Passed, Marks
  <2> QED BY <1>1, <1>4, <2>2, SocketRanges DEF Follows, Marks, Armed
<1>6. q \in Socket /\ Skeleton(q) = Skeleton(marked)
  <2>1. marked.prrFlight > 0
    BY <1>1, <1>4 DEF Marks
  <2> QED BY <1>1, <1>4, <2>1, DoRecoveryKeeps
<1> HIDE DEF q
<1>7. Fit(q, pt) /\ Follows(q, marked) /\ q.una < q.nxt /\ q.cong = r.cong /\ q.recover = r.recover
  <2>1. Fit(q, pt) /\ Follows(q, marked)
    BY <1>4, <1>5, <1>6, SkeletonFit, SkeletonFollows
  <2>2. Marks(q, marked)
    BY <1>4, <1>6, SkeletonFollows
  <2> QED BY <1>2, <1>4, <2>1, <2>2 DEF Marks
<1>8. p \in Socket /\ Fit(p, pt) /\ Follows(p, q) /\ p.cong = q.cong /\ p.recover = q.recover
  <2>1. CASE q.una \in q.retrans \ q.sacked
    <3>1. p = q
      BY <2>1
    <3>2. Follows(q, q)
      BY <1>6, SkeletonFollows
    <3> HIDE DEF p
    <3> QED BY <1>6, <1>7, <3>1, <3>2
  <2>2. CASE ~ (q.una \in q.retrans \ q.sacked)
    <3>1. p = DoRetransmit(q)
      BY <2>2
    <3> HIDE DEF p
    <3>2. Good(p) /\ Sends(p, q)
      BY <1>7, <3>1, DoRetransmitKeeps DEF Fit
    <3>3. p \in Socket
      BY <3>2 DEF Good
    <3> QED BY <1>6, <1>7, <3>2, <3>3, SendsFollows, SendsFit DEF Sends
  <2> QED BY <2>1, <2>2
<1> HIDE DEF p
<1>9. /\ Fit(n, pt) /\ Follows(n, p) /\ n.retries = DataRetries
      /\ n.cong = p.cong /\ n.recover = p.recover
  BY <1>1, <1>8, NewAckKeeps
<1> HIDE DEF n
<1>10. n \in Socket
  BY <1>9 DEF Fit, Good
<1>11. x \in Socket /\ Skeleton(x) = Skeleton(n)
  BY <1>10 DEF Socket, Skeleton
<1> HIDE DEF x
<1>12. Fit(x, pt) /\ Follows(x, n) /\ Marks(x, n)
  BY <1>9, <1>10, <1>11, SkeletonFit, SkeletonFollows
<1>13. Follows(x, r)
  <2>1. Follows(q, r)
    BY <1>1, <1>4, <1>5, <1>6, <1>7, FollowsTrans
  <2>2. Follows(p, r)
    BY <1>1, <1>6, <1>8, <2>1, FollowsTrans
  <2>3. Follows(n, r)
    BY <1>1, <1>8, <1>9, <1>10, <2>2, FollowsTrans
  <2> QED BY <1>1, <1>10, <1>11, <1>12, <2>3, FollowsTrans
<1> QED BY <1>3, <1>7, <1>8, <1>9, <1>12, <1>13 DEF Marks

\* The end of a recovery or of CA_LOSS, or an ACK in CA_OPEN or CA_DISORDER.
LEMMA OtherAckKeeps ==
    ASSUME NEW r, NEW pt \in Nat, Fit(r, pt), r.cong # "CWR",
           r.cong \in {"RECOVERY", "LOSS"} => r.una >= r.recover,
           NEW isDup \in BOOLEAN, NEW segs \in Nat
    PROVE  LET q == OtherAck(r, isDup, segs)
           IN  /\ Fit(q, pt) /\ Follows(q, r)
               /\ q.cong \in {"OPEN", "DISORDER"}
               /\ q.retries = DataRetries \/ (q.retries = r.retries /\ r.cong = "DISORDER")
<1>1. r \in Socket /\ Good(r) /\ Board(r)
  BY DEF Fit, Good
<1> DEFINE grow == IF r.cong = "LOSS" THEN r.una - r.recover ELSE segs
           active == r.active /\ r.una < r.recover
           dup == IF r.cong = "RECOVERY" THEN 0 ELSE r.dupAcks
           w == IF r.cong = "RECOVERY" THEN r.ssThresh ELSE r.cWnd
           first == r.first \/ r.cong \in {"RECOVERY", "LOSS"}
           q == [r EXCEPT !.active = active, !.dupAcks = dup, !.cWnd = w, !.first = first,
                          !.cong = "OPEN"]
           x == OtherAck(r, isDup, segs)
<1>2. x = IF r.cong = "DISORDER" /\ isDup THEN [q EXCEPT !.cong = "DISORDER"]
          ELSE NewAck(IncreaseWindow(q, grow), TRUE)
  BY DEF OtherAck
<1>3. /\ active \in BOOLEAN /\ dup \in Nat /\ w \in Nat /\ first \in BOOLEAN
      /\ r.cong \in {"OPEN", "DISORDER", "CWR", "RECOVERY", "LOSS"}
  BY <1>1 DEF Socket
<1>4. grow \in Nat
  BY <1>1, SocketRanges
<1> HIDE DEF active, dup, w, first, grow, x
<1>5. /\ q \in Socket /\ q.sackOn = r.sackOn /\ q.una = r.una /\ q.nxt = r.nxt
      /\ q.sacked = r.sacked /\ q.lost = r.lost /\ q.retrans = r.retrans /\ q.highSack = r.highSack
      /\ q.cong = "OPEN" /\ q.recover = r.recover /\ q.prrFlight = r.prrFlight /\ q.rto = r.rto
      /\ q.retries = r.retries /\ q.closed = r.closed /\ q.wire = r.wire
  BY <1>1, <1>3, ZenonT(60) DEF Socket
<1> HIDE DEF q
<1>6. OnlyHeadLost(r)
  <2>1. CASE r.cong \in {"OPEN", "DISORDER", "RECOVERY"}
    BY <1>1, <2>1, GuessesHead DEF Good
  <2>2. CASE r.cong = "LOSS"
    <3>1. (\A i \in r.lost : i < r.recover) => r.lost = {}
      <4>1. \A i \in r.lost : i \in Nat /\ i >= r.una
        BY <1>1, SocketRanges DEF Board, Sent
      <4> QED BY <1>1, <2>2, <4>1, SocketRanges
    <3> QED BY <1>1, <3>1 DEF Good, Guesses, OnlyHeadLost
  <2> QED BY <1>3, <2>1, <2>2
<1>7. Fit(q, pt) /\ Follows(q, r)
  <2>1. Good(q)
    BY <1>1, <1>5, <1>6 DEF Good, Board, Sent, Guesses, Prr, OnlyHeadLost
  <2>2. pt <= r.una
    <3>1. CASE r.cong \in {"OPEN", "DISORDER"}
      BY <3>1 DEF Fit, Passed
    <3>2. CASE r.cong \in {"RECOVERY", "LOSS"}
      <4>1. pt <= r.recover /\ r.recover <= r.una
        BY <3>2 DEF Fit, Passed
      <4> QED BY <1>1, <4>1, SocketRanges
    <3> QED BY <1>3, <3>1, <3>2
  <2> QED BY <1>1, <1>5, <2>1, <2>2, SocketRanges DEF Fit, InCwr, Passed, Follows, Armed
<1>8. CASE r.cong = "DISORDER" /\ isDup
  <2> DEFINE d == [q EXCEPT !.cong = "DISORDER"]
  <2>1. x = d
    BY <1>2, <1>8
  <2>2. /\ d \in Socket /\ d.sackOn = q.sackOn /\ d.una = q.una /\ d.nxt = q.nxt
        /\ d.sacked = q.sacked /\ d.lost = q.lost /\ d.retrans = q.retrans /\ d.highSack = q.highSack
        /\ d.cong = "DISORDER" /\ d.recover = q.recover /\ d.prrFlight = q.prrFlight /\ d.rto = q.rto
        /\ d.retries = q.retries /\ d.closed = q.closed /\ d.wire = q.wire
    BY <1>5 DEF Socket
  <2> HIDE DEF d
  <2>3. Good(d)
    BY <1>5, <1>7, <2>2 DEF Fit, Good, Board, Sent, Guesses, Prr
  <2>4. Fit(d, pt) /\ Follows(d, q)
    BY <1>5, <1>7, <2>2, <2>3, SocketRanges DEF Fit, InCwr, Passed, Follows, Armed
  <2>5. Follows(d, r)
    BY <1>1, <1>5, <1>7, <2>2, <2>4, FollowsTrans
  <2> QED BY <1>5, <1>8, <2>1, <2>2, <2>4, <2>5 DEF x
<1>9. CASE ~ (r.cong = "DISORDER" /\ isDup)
  <2> DEFINE g == IncreaseWindow(q, grow)
             n == NewAck(g, TRUE)
  <2>1. x = n
    BY <1>2, <1>9
  <2>2. g \in Socket /\ Skeleton(g) = Skeleton(q)
    BY <1>4, <1>5, IncreaseWindowKeeps
  <2> HIDE DEF g
  <2>3. Fit(g, pt) /\ Follows(g, q) /\ Marks(g, q)
    BY <1>5, <1>7, <2>2, SkeletonFit, SkeletonFollows
  <2>4. Fit(n, pt) /\ Follows(n, g) /\ n.retries = DataRetries /\ n.cong = g.cong
    BY <2>3, NewAckKeeps
  <2> HIDE DEF n
  <2>5. Follows(n, r)
    <3>1. n \in Socket
      BY <2>4 DEF Fit, Good
    <3>2. Follows(g, r)
      BY <1>1, <1>5, <1>7, <2>2, <2>3, FollowsTrans
    <3> QED BY <1>1, <2>2, <2>4, <3>1, <3>2, FollowsTrans
  <2> QED BY <1>5, <2>1, <2>3, <2>4, <2>5 DEF x, Marks
<1> QED BY <1>8, <1>9

\* Growing the window and restarting the timer.
LEMMA GrowKeeps ==
    ASSUME NEW r, NEW pt, Fit(r, pt), NEW g \in Socket, Skeleton(g) = Skeleton(r)
    PROVE  LET q == NewAck(g, TRUE)
           IN  /\ Fit(q, pt) /\ Follows(q, r) /\ q.retries = DataRetries
               /\ q.cong = r.cong /\ q.recover = r.recover
<1> DEFINE q == NewAck(g, TRUE)
<1>1. r \in Socket
  BY DEF Fit, Good
<1>2. Fit(g, pt) /\ Follows(g, r) /\ Marks(g, r)
  BY <1>1, SkeletonFit, SkeletonFollows
<1>3. Fit(q, pt) /\ Follows(q, g) /\ q.retries = DataRetries /\ q.cong = g.cong /\ q.recover = g.recover
  BY <1>2, NewAckKeeps
<1> HIDE DEF q
<1>4. q \in Socket
  BY <1>3 DEF Fit, Good
<1>5. Follows(q, r)
  BY <1>1, <1>2, <1>3, <1>4, FollowsTrans
<1> QED BY <1>2, <1>3, <1>5 DEF q, Marks

\* segs segments are acknowledged, possibly by a duplicate.  The retries come back
\* with new data; a recovery begins only past the recovery points of before.
LEMMA ProcessAckKeeps ==
    ASSUME NEW r, NEW pt \in Nat, Fit(r, pt), NEW segs \in Nat, NEW isDup \in BOOLEAN,
           NEW delivered \in Nat,
           isDup => r.una < r.nxt,
           r.cong = "CWR" /\ segs > 0 => r.prrFlight > 0 \/ r.flight = 0,
           r.cong # "LOSS" /\ ~ (r.cong = "CWR" /\ segs > 0) => r.retries = DataRetries
    PROVE  LET q == ProcessAck(r, segs, isDup, delivered)
           IN  /\ Fit(q, pt) /\ Follows(q, r)
               /\ q.cong # "LOSS" => q.retries = DataRetries
               /\ q.cong = "LOSS" => /\ r.cong = "LOSS"
                                     /\ q.retries = IF segs > 0 THEN DataRetries ELSE r.retries
               /\ q.cong = "RECOVERY" /\ r.cong # "RECOVERY" => pt <= q.una
<1> DEFINE d == IF isDup THEN DupAck(r, delivered) ELSE r
           q == IF isDup THEN d ELSE [d EXCEPT !.dupAcks = 0]
           x == ProcessAck(r, segs, isDup, delivered)
<1>0. r \in Socket /\ Good(r)
  BY DEF Fit, Good
<1>1. /\ Fit(d, pt) /\ Follows(d, r) /\ d.retries = r.retries
      /\ r.cong \in {"OPEN", "DISORDER"} => d.cong \in {"OPEN", "DISORDER", "RECOVERY"}
      /\ r.cong \in {"RECOVERY", "CWR", "LOSS"} => d.cong = r.cong /\ d.recover = r.recover
      /\ r.cong = "CWR" => d.prrFlight = r.prrFlight /\ d.flight = r.flight
  <2>1. CASE isDup
    BY <2>1, DupAckKeeps
  <2>2. CASE ~ isDup
    <3>1. Follows(r, r)
      BY <1>0, SkeletonFollows
    <3> QED BY <2>2, <3>1
  <2> QED BY <2>1, <2>2
<1>2. x = CASE segs = 0 -> d
            [] segs > 0 /\ q.una < q.recover /\ q.cong = "RECOVERY" -> PartialAck(q, delivered)
            [] segs > 0 /\ StaysInLoss(q) -> NewAck(IncreaseWindow(q, segs), TRUE)
            [] segs > 0 /\ q.cong = "CWR" ->
                  NewAck(DoRecovery(q, q.flight, delivered, q.retransAcked), TRUE)
            [] OTHER -> OtherAck(q, isDup, segs)
  BY DEF ProcessAck
<1> HIDE DEF d, x
<1>3. d \in Socket
  BY <1>1 DEF Fit, Good
<1>4. q \in Socket /\ Skeleton(q) = Skeleton(d) /\ q.flight = d.flight
  BY <1>3 DEF Socket, Skeleton
<1> HIDE DEF q
<1>5. Fit(q, pt) /\ Follows(q, d) /\ Marks(q, d)
  BY <1>1, <1>3, <1>4, SkeletonFit, SkeletonFollows
<1>6. Follows(q, r) /\ q.cong = d.cong /\ q.recover = d.recover /\ q.una = r.una /\ q.retries = r.retries
  BY <1>0, <1>1, <1>3, <1>4, <1>5, FollowsTrans DEF Marks, Follows
<1>7. r.cong \in {"OPEN", "DISORDER", "RECOVERY", "CWR", "LOSS"}
  BY <1>0 DEF Socket
<1>8. d.cong = "RECOVERY" /\ r.cong # "RECOVERY" => pt <= d.una
  <2>1. r.cong \in {"OPEN", "DISORDER"} => pt <= r.una
    BY DEF Fit, Passed
  <2> QED BY <1>1, <1>7, <2>1 DEF Follows
<1>9. CASE segs = 0
  <2>1. x = d
    BY <1>2, <1>9
  <2> QED BY <1>1, <1>7, <1>8, <1>9, <2>1 DEF x
<1>10. CASE segs > 0 /\ q.una < q.recover /\ q.cong = "RECOVERY"
  <2>1. x = PartialAck(q, delivered)
    BY <1>2, <1>10 DEF StaysInLoss
  <2>2. /\ Fit(x, pt) /\ Follows(x, q) /\ x.retries = DataRetries
        /\ x.cong = q.cong /\ x.recover = q.recover
    BY <1>5, <1>10, <2>1, PartialAckKeeps
  <2>3. Follows(x, r)
    <3>1. x \in Socket
      BY <2>2 DEF Fit, Good
    <3> QED BY <1>0, <1>4, <1>6, <2>2, <3>1, FollowsTrans
  <2>4. x.una = d.una
    BY <1>5, <2>2 DEF Follows
  <2> QED BY <1>6, <1>8, <1>10, <2>2, <2>3, <2>4 DEF x
<1>11. CASE segs > 0 /\ StaysInLoss(q)
  <2>1. x = NewAck(IncreaseWindow(q, segs), TRUE) /\ q.cong = "LOSS"
    <3>1. segs # 0 /\ q.cong = "LOSS"
      BY <1>11 DEF StaysInLoss
    <3> QED BY <1>2, <1>11, <3>1
  <2> DEFINE g == IncreaseWindow(q, segs)
  <2>2. g \in Socket /\ Skeleton(g) = Skeleton(q)
    BY <1>4, IncreaseWindowKeeps
  <2> HIDE DEF g
  <2>3. Fit(x, pt) /\ Follows(x, q) /\ x.retries = DataRetries /\ x.cong = q.cong
    BY <1>5, <2>1, <2>2, GrowKeeps DEF g
  <2>4. Follows(x, r)
    <3>1. x \in Socket
      BY <2>3 DEF Fit, Good
    <3> QED BY <1>0, <1>4, <1>6, <2>3, <3>1, FollowsTrans
  <2>5. r.cong = "LOSS"
    BY <1>1, <1>6, <1>7, <2>1
  <2> QED BY <1>11, <2>1, <2>3, <2>4, <2>5 DEF x
<1>12. CASE segs > 0 /\ q.cong = "CWR"
  <2> DEFINE g == DoRecovery(q, q.flight, delivered, q.retransAcked)
  <2>1. x = NewAck(g, TRUE)
    BY <1>2, <1>12 DEF StaysInLoss
  <2>2. r.cong = "CWR"
    BY <1>1, <1>6, <1>7, <1>12
  <2>3. /\ q.flight \in Nat /\ q.retransAcked \in BOOLEAN
        /\ q.prrFlight > 0 \/ q.flight = 0
    <3>1. q.prrFlight = r.prrFlight /\ q.flight = r.flight
      BY <1>1, <1>4, <1>5, <2>2 DEF Marks
    <3>2. r.prrFlight > 0 \/ r.flight = 0
      BY <1>12, <2>2
    <3> QED BY <1>4, <3>1, <3>2 DEF Socket
  <2>4. g \in Socket /\ Skeleton(g) = Skeleton(q)
    BY <1>4, <2>3, DoRecoveryKeeps
  <2> HIDE DEF g
  <2>5. Fit(x, pt) /\ Follows(x, q) /\ x.retries = DataRetries /\ x.cong = q.cong
    BY <1>5, <2>1, <2>4, GrowKeeps
  <2>6. Follows(x, r)
    <3>1. x \in Socket
      BY <2>5 DEF Fit, Good
    <3> QED BY <1>0, <1>4, <1>6, <2>5, <3>1, FollowsTrans
  <2> QED BY <1>12, <2>5, <2>6 DEF x
<1>13. CASE ~ (segs = 0) /\ ~ (q.una < q.recover /\ q.cong = "RECOVERY") /\ ~ StaysInLoss(q)
            /\ q.cong # "CWR"
  <2>1. x = OtherAck(q, isDup, segs)
    BY <1>2, <1>13
  <2>2. q.cong \in {"RECOVERY", "LOSS"} => q.una >= q.recover
    BY <1>4, <1>13, SocketRanges DEF StaysInLoss
  <2>3. /\ Fit(x, pt) /\ Follows(x, q) /\ x.cong \in {"OPEN", "DISORDER"}
        /\ x.retries = DataRetries \/ (x.retries = q.retries /\ q.cong = "DISORDER")
    BY <1>5, <1>13, <2>1, <2>2, OtherAckKeeps
  <2>4. Follows(x, r)
    <3>1. x \in Socket
      BY <2>3 DEF Fit, Good
    <3> QED BY <1>0, <1>4, <1>6, <2>3, <3>1, FollowsTrans
  <2>5. q.cong = "DISORDER" => q.retries = DataRetries
    BY <1>1, <1>6, <1>7
  <2> QED BY <2>3, <2>4, <2>5 DEF x
<1>14. segs = 0 \/ segs > 0
  OBVIOUS
<1> QED BY <1>9, <1>10, <1>11, <1>12, <1>13, <1>14

(***************************************************************************)
(* An ACK                                                                  *)
(***************************************************************************)
\* What an ACK says, given what the receiver has: everything below ack, and the
\* blocks, above it.  Its ack is not a segment that the sender knows is SACKed.
AckOK(r, got, a) ==
    /\ a.ack \in Nat \ {0} /\ r.una <= a.ack /\ a.ack <= r.nxt
    /\ a.ece \in BOOLEAN
    /\ a.sack \subseteq got
    /\ a.ack \notin a.sack /\ \A i \in a.sack : i > a.ack
    /\ r.sackOn => a.ack \notin r.sacked
    /\ ~ r.sackOn => a.sack = {}

\* What an ACK delivers is a number of bytes.
LEMMA DeliveredNat ==
    ASSUME NEW r \in Socket, NEW got, NEW a, AckOK(r, got, a)
    PROVE  Delivered(r, a) \in Nat
<1> DEFINE known == IF r.sackOn THEN r.sacked ELSE {}
           S == ((r.una .. a.ack - 1) \cup NewlySacked(r, a.sack)) \ known
<1>1. IsFiniteSet(r.una .. a.ack - 1)
  <2>1. r.una \in Int /\ a.ack - 1 \in Int
    BY SocketRanges DEF AckOK
  <2> QED BY <2>1, FS_Interval
<1>2. IsFiniteSet(NewlySacked(r, a.sack))
  <2>1. NewlySacked(r, a.sack) \subseteq Sent(r)
    BY DEF NewlySacked
  <2> QED BY <2>1, SentFinite, FS_Subset
<1>3. IsFiniteSet((r.una .. a.ack - 1) \cup NewlySacked(r, a.sack))
  BY <1>1, <1>2, FS_Union
<1>4. IsFiniteSet(S)
  <2>1. S \subseteq (r.una .. a.ack - 1) \cup NewlySacked(r, a.sack)
    OBVIOUS
  <2> HIDE DEF S
  <2> QED BY <1>3, <2>1, FS_Subset
<1>5. Cardinality(S) \in Nat
  <2> HIDE DEF S
  <2> QED BY <1>4, FS_CardinalityType
<1>6. Delivered(r, a) = Seg * Cardinality(S) /\ Seg \in Nat
  BY WindowConstants DEF Delivered
<1> HIDE DEF S
<1> QED BY <1>5, <1>6, TimesNat

\* What ReceivedAck has before it processes the ACK: the scoreboard is up to date,
\* and a CWR phase that the ACK ends is over.
Cleaned(r, a) ==
    ExitCwr(DiscardUpTo([Update(r, a.sack) EXCEPT
        !.retransAcked = RetransDataAcked(Update(r, a.sack), a)], a.ack))

\* The scoreboard after the ACK, before the congestion states look at it.
LEMMA CleanedKeeps ==
    ASSUME NEW r, NEW pt \in Nat, Fit(r, pt), NEW got, NEW a, AckOK(r, got, a)
    PROVE  LET q == Cleaned(r, a)
           IN  /\ Fit(q, pt)
               /\ q.una = a.ack /\ q.nxt = r.nxt /\ q.sackOn = r.sackOn /\ q.closed = r.closed
               /\ q.retries = r.retries
               /\ q.sackOn => q.sacked \subseteq r.sacked \cup a.sack
               /\ Armed(r) => Armed(q)
               /\ q.cong = r.cong \/ (r.cong = "CWR" /\ q.cong = "OPEN")
               /\ q.cong = "CWR" /\ r.una < a.ack => q.prrFlight > 0
<1>1. r \in Socket /\ Board(r) /\ Guesses(r) /\ Prr(r) /\ InCwr(r) /\ Passed(r, pt)
  BY DEF Fit, Good
<1>2. /\ a.ack \in Nat /\ r.una <= a.ack /\ a.ack <= r.nxt
      /\ r.una \notin a.sack /\ a.ack \notin a.sack
      /\ r.sackOn => a.ack \notin r.sacked
      /\ r.sackOn \/ a.sack = {}
  BY <1>1, SocketRanges DEF AckOK
<1> DEFINE u == Update(r, a.sack)
           ra == RetransDataAcked(u, a)
           v == [u EXCEPT !.retransAcked = ra]
           d == DiscardUpTo(v, a.ack)
           q == ExitCwr(d)
<1>3. Cleaned(r, a) = q
  BY DEF Cleaned
<1>4. /\ u \in Socket /\ Board(u) /\ Marks(u, r) /\ u.sacked = r.sacked \cup NewlySacked(r, a.sack)
      /\ u.sackOn \/ u = r
  BY <1>1, <1>2, UpdateKeeps
<1>5. ra \in BOOLEAN
  BY DEF RetransDataAcked
<1> HIDE DEF u, ra
<1>6. v \in Socket /\ Skeleton(v) = Skeleton(u)
  BY <1>4, <1>5 DEF Socket, Skeleton
<1> HIDE DEF v
<1>7. /\ Board(v) /\ Guesses(v) /\ Marks(v, r)
      /\ v.sacked = r.sacked \cup NewlySacked(r, a.sack)
  <2>1. Board(v)
    BY <1>4, <1>6, SkeletonFields DEF Board, Sent
  <2>2. Guesses(v)
    BY <1>1, <1>4, <1>6, SkeletonFields DEF Guesses
  <2>3. Marks(v, r) /\ v.sacked = r.sacked \cup NewlySacked(r, a.sack)
    BY <1>4, <1>6, SkeletonFields DEF Marks
  <2> QED BY <2>1, <2>2, <2>3
<1>8. v.una <= a.ack /\ a.ack <= v.nxt /\ (v.sackOn => a.ack \notin v.sacked)
  BY <1>2, <1>7 DEF Marks, NewlySacked
<1>9. /\ d \in Socket /\ Board(d) /\ Guesses(d) /\ Marks(d, [v EXCEPT !.una = a.ack])
      /\ d.sackOn => d.sacked \subseteq v.sacked
  BY <1>2, <1>6, <1>7, <1>8, DiscardUpToKeeps
<1> HIDE DEF d
<1>10. /\ d.sackOn = r.sackOn /\ d.una = a.ack /\ d.nxt = r.nxt /\ d.cong = r.cong
       /\ d.recover = r.recover /\ d.prrFlight = r.prrFlight /\ d.rto = r.rto
       /\ d.retries = r.retries /\ d.closed = r.closed
  BY <1>6, <1>7, <1>9 DEF Marks, Socket
<1>11. d.sackOn => d.sacked \subseteq r.sacked \cup a.sack
  BY <1>7, <1>9 DEF NewlySacked
<1>12. r.una \in Nat /\ r.nxt \in Nat /\ r.recover \in Nat
  BY <1>1, SocketRanges
<1>13. Good(d)
  <2>1. Prr(d)
    BY <1>1, <1>2, <1>10, <1>12 DEF Prr
  <2> QED BY <1>9, <2>1 DEF Good
<1>14. Armed(r) => Armed(d)
  BY <1>2, <1>10, <1>12 DEF Armed
<1>15. r.cong = "CWR" /\ r.una < a.ack /\ a.ack <= r.recover => d.prrFlight > 0
  BY <1>1, <1>2, <1>10, <1>12 DEF Prr
<1>16. CASE d.cong = "CWR" /\ d.una > d.recover
  <2> DEFINE w == d.ssThresh
             x == [d EXCEPT !.cong = "OPEN", !.cWnd = w]
  <2>1. q = x
    BY <1>16 DEF ExitCwr
  <2>2. w \in Nat
    BY <1>9 DEF Socket
  <2> HIDE DEF w
  <2>3. /\ x \in Socket /\ x.sackOn = d.sackOn /\ x.una = d.una /\ x.nxt = d.nxt
        /\ x.sacked = d.sacked /\ x.lost = d.lost /\ x.retrans = d.retrans /\ x.highSack = d.highSack
        /\ x.cong = "OPEN" /\ x.recover = d.recover /\ x.prrFlight = d.prrFlight /\ x.rto = d.rto
        /\ x.retries = d.retries /\ x.closed = d.closed /\ x.wire = d.wire
    BY <1>9, <2>2 DEF Socket
  <2> HIDE DEF x, q
  <2>4. d.sackOn \/ d.lost \subseteq {d.una}
    <3>1. (\A i \in d.lost : i < d.recover) => d.lost = {}
      <4>1. \A i \in d.lost : i \in Nat /\ i >= d.una
        BY <1>9, SocketRanges DEF Board, Sent
      <4> QED BY <1>9, <1>16, <4>1, SocketRanges
    <3> QED BY <1>9, <3>1 DEF Guesses
  <2>5. Good(x)
    BY <1>9, <2>3, <2>4 DEF Good, Board, Sent, Guesses, Prr
  <2>6. pt <= x.una
    BY <1>1, <1>2, <1>10, <1>12, <1>16, <2>3 DEF Passed
  <2>7. Fit(x, pt)
    BY <2>3, <2>5, <2>6 DEF Fit, InCwr, Passed
  <2>8. Armed(r) => Armed(x)
    BY <1>14, <2>3 DEF Armed
  <2> QED BY <1>3, <1>10, <1>11, <1>16, <2>1, <2>3, <2>7, <2>8
<1>17. CASE ~ (d.cong = "CWR" /\ d.una > d.recover)
  <2>1. q = d
    BY <1>17 DEF ExitCwr
  <2> HIDE DEF q
  <2>2. InCwr(d) /\ Passed(d, pt)
    BY <1>1, <1>2, <1>10, <1>12, <1>17 DEF InCwr, Passed
  <2>3. d.cong = "CWR" => a.ack <= r.recover
    BY <1>2, <1>10, <1>12, <1>17
  <2> QED BY <1>3, <1>10, <1>11, <1>13, <1>14, <1>15, <2>1, <2>2, <2>3 DEF Fit
<1> QED BY <1>16, <1>17

\* The processing of an ACK keeps the socket fit; the window moves to the ACK.
LEMMA ReceivedAckKeeps ==
    ASSUME NEW r, NEW pt \in Nat, Fit(r, pt), Armed(r), NEW got, NEW a, AckOK(r, got, a),
           r.cong # "LOSS" => r.retries = DataRetries
    PROVE  LET q == ReceivedAck(r, a)
           IN  /\ Fit(q, pt) /\ Armed(q)
               /\ q.una = a.ack /\ q.nxt >= r.nxt /\ q.sackOn = r.sackOn /\ q.closed = r.closed
               /\ q.sackOn => q.sacked \subseteq r.sacked \cup a.sack
               /\ q.cong # "LOSS" => q.retries = DataRetries
               /\ q.cong = "LOSS" => /\ r.cong = "LOSS"
                                     /\ q.retries = IF a.ack > r.una THEN DataRetries ELSE r.retries
               /\ q.cong = "RECOVERY" /\ r.cong # "RECOVERY" => pt <= q.una
<1> DEFINE u == Update(r, a.sack)
           segs == a.ack - r.una
           isDup == IF r.sackOn THEN u.sacked # r.sacked ELSE segs = 0 /\ r.una < r.nxt
           c == Cleaned(r, a)
           echoed == segs > 0 /\ a.ece /\ c.cong # "CWR"
           dl == Delivered(r, a)
           e == IF echoed THEN EnterCwr(c, dl) ELSE c
           m == Measured(e)
           p == ProcessAck(m, segs, isDup, dl)
           f == [p EXCEPT !.retransAcked = FALSE]
           q == SendPendingData(f)
<1>1. ReceivedAck(r, a) = q
  BY DEF ReceivedAck, Cleaned
<1>2. r \in Socket /\ Board(r)
  BY DEF Fit, Good
<1>3. /\ segs \in Nat /\ isDup \in BOOLEAN /\ dl \in Nat
      /\ a.ack \in Nat /\ r.una \in Nat /\ r.nxt \in Nat /\ r.una <= a.ack /\ a.ack <= r.nxt
  <2>1. /\ a.ack \in Nat /\ r.una \in Nat /\ r.nxt \in Nat /\ r.una <= a.ack /\ a.ack <= r.nxt
    BY <1>2, SocketRanges DEF AckOK
  <2>2. isDup \in BOOLEAN
    BY <1>2 DEF Socket
  <2>3. dl \in Nat
    BY <1>2, DeliveredNat
  <2> QED BY <2>1, <2>2, <2>3
<1>4. isDup => a.ack < r.nxt
  <2>1. CASE r.sackOn
    <3> SUFFICES ASSUME u.sacked # r.sacked PROVE a.ack < r.nxt
      BY <2>1
    <3>1. u.sacked = r.sacked \cup NewlySacked(r, a.sack)
      BY <1>2, <2>1, UpdateKeeps, SocketRanges DEF AckOK
    <3>2. PICK i \in NewlySacked(r, a.sack) : TRUE
      BY <3>1
    <3>3. i \in Nat /\ i > a.ack /\ i < r.nxt
      BY <1>2, SocketRanges DEF NewlySacked, Sent, AckOK
    <3> QED BY <1>3, <3>3
  <2>2. CASE ~ r.sackOn
    BY <1>3, <2>2
  <2> QED BY <2>1, <2>2
<1>5. /\ Fit(c, pt)
      /\ c.una = a.ack /\ c.nxt = r.nxt /\ c.sackOn = r.sackOn /\ c.closed = r.closed
      /\ c.retries = r.retries
      /\ c.sackOn => c.sacked \subseteq r.sacked \cup a.sack
      /\ Armed(c)
      /\ c.cong = r.cong \/ (r.cong = "CWR" /\ c.cong = "OPEN")
      /\ c.cong = "CWR" /\ r.una < a.ack => c.prrFlight > 0
  BY CleanedKeeps
<1> HIDE DEF u, isDup, c, dl
<1>6. c \in Socket /\ Good(c) /\ Board(c)
  BY <1>5 DEF Fit, Good
<1>7. /\ Fit(e, pt) /\ Follows(e, c) /\ e.nxt = r.nxt
      /\ e.cong = "CWR" /\ segs > 0 => e.prrFlight > 0 \/ e.una = e.nxt
      /\ e.cong # "LOSS" /\ ~ (e.cong = "CWR" /\ segs > 0) => e.retries = DataRetries
      /\ e.cong = "LOSS" => r.cong = "LOSS" /\ e.retries = r.retries
      /\ e.cong = "RECOVERY" => r.cong = "RECOVERY"
  <2>1. CASE echoed
    <3>1. /\ Good(e) /\ InCwr(e) /\ Follows(e, c) /\ e.cong = "CWR" /\ e.recover = c.nxt
          /\ e.nxt = c.nxt /\ (e.una < e.nxt => e.prrFlight > 0)
      BY <1>3, <1>6, <2>1, EnterCwrKeeps
    <3> DEFINE ee == e
    <3> HIDE DEF ee
    <3>2. e \in Socket /\ e.una <= e.nxt /\ segs > 0
      BY <2>1, <3>1 DEF Good, Board
    <3>3. pt <= c.nxt
      BY <1>5, <1>6, SocketRanges DEF Fit, Passed, Board
    <3>4. Passed(e, pt)
      BY <3>1, <3>3 DEF Passed
    <3>5. e.prrFlight > 0 \/ e.una = e.nxt
      BY <3>1, <3>2, SocketRanges
    <3> HIDE DEF e
    <3> QED BY <1>5, <3>1, <3>2, <3>4, <3>5 DEF Fit
  <2>2. CASE ~ echoed
    <3>1. e = c
      BY <2>2
    <3>2. Follows(c, c)
      BY <1>6, SkeletonFollows
    <3> HIDE DEF e
    <3> QED BY <1>3, <1>5, <3>1, <3>2
  <2> HIDE DEF e, echoed
  <2> QED BY <2>1, <2>2
<1> HIDE DEF e
<1>8. e \in Socket /\ Board(e)
  BY <1>7 DEF Fit, Good
<1>9. /\ m \in Socket /\ Skeleton(m) = Skeleton(e)
      /\ e.una = e.nxt => m.flight = 0
  <2>1. BytesInFlight(e) \in Nat /\ (e.una = e.nxt => BytesInFlight(e) = 0)
    BY <1>8, FlightNat
  <2> QED BY <1>8, <2>1 DEF Measured, Socket, Skeleton
<1> HIDE DEF m
<1>10. Fit(m, pt) /\ Follows(m, e) /\ Marks(m, e) /\ m.prrFlight = e.prrFlight
  BY <1>7, <1>8, <1>9, SkeletonFit, SkeletonFollows DEF Marks
<1>11. /\ isDup => m.una < m.nxt
       /\ m.cong = "CWR" /\ segs > 0 => m.prrFlight > 0 \/ m.flight = 0
       /\ m.cong # "LOSS" /\ ~ (m.cong = "CWR" /\ segs > 0) => m.retries = DataRetries
  <2>1. m.una = a.ack /\ m.nxt = r.nxt
    BY <1>5, <1>7, <1>10 DEF Marks, Follows
  <2> HIDE DEF segs
  <2> QED BY <1>4, <1>7, <1>9, <1>10, <2>1 DEF Marks
<1>12. /\ Fit(p, pt) /\ Follows(p, m)
       /\ p.cong # "LOSS" => p.retries = DataRetries
       /\ p.cong = "LOSS" => /\ m.cong = "LOSS"
                             /\ p.retries = IF segs > 0 THEN DataRetries ELSE m.retries
       /\ p.cong = "RECOVERY" /\ m.cong # "RECOVERY" => pt <= p.una
  <2> HIDE DEF segs
  <2> QED BY <1>3, <1>10, <1>11, ProcessAckKeeps
<1> HIDE DEF p
<1>13. p \in Socket
  BY <1>12 DEF Fit, Good
<1>14. f \in Socket /\ Skeleton(f) = Skeleton(p)
  BY <1>13 DEF Socket, Skeleton
<1> HIDE DEF f
<1>15. Fit(f, pt) /\ Follows(f, p) /\ Marks(f, p)
  BY <1>12, <1>13, <1>14, SkeletonFit, SkeletonFollows
<1>16. Good(q) /\ Sends(q, f)
  BY <1>15, SendPendingDataKeeps DEF Fit
<1> HIDE DEF q
<1>17. q \in Socket
  BY <1>16 DEF Good
<1>18. Fit(q, pt) /\ Follows(q, f)
  BY <1>14, <1>15, <1>16, <1>17, SendsFit, SendsFollows
<1>19. Follows(q, c)
  <2>1. Follows(m, c)
    BY <1>6, <1>7, <1>8, <1>9, <1>10, FollowsTrans
  <2>2. Follows(p, c)
    BY <1>6, <1>9, <1>12, <1>13, <2>1, FollowsTrans
  <2>3. Follows(f, c)
    BY <1>6, <1>13, <1>14, <1>15, <2>2, FollowsTrans
  <2> QED BY <1>6, <1>14, <1>17, <1>18, <2>3, FollowsTrans
<1>20. /\ Armed(q) /\ q.una = a.ack /\ q.nxt >= r.nxt /\ q.sackOn = r.sackOn /\ q.closed = r.closed
       /\ q.sackOn => q.sacked \subseteq r.sacked \cup a.sack
  BY <1>5, <1>19 DEF Follows
<1>21. q.cong = p.cong /\ q.retries = p.retries /\ p.una = q.una
  BY <1>15, <1>16 DEF Marks, Sends
<1>22. m.cong = e.cong /\ m.retries = e.retries
  BY <1>10 DEF Marks
<1>23. segs > 0 <=> a.ack > r.una
  BY <1>3
<1> HIDE DEF segs
<1>24. /\ q.cong # "LOSS" => q.retries = DataRetries
       /\ q.cong = "LOSS" => /\ r.cong = "LOSS"
                             /\ q.retries = IF a.ack > r.una THEN DataRetries ELSE r.retries
       /\ q.cong = "RECOVERY" /\ r.cong # "RECOVERY" => pt <= q.una
  BY <1>7, <1>12, <1>21, <1>22, <1>23
<1> QED BY <1>1, <1>18, <1>20, <1>24

(***************************************************************************)
(* A timeout                                                               *)
(***************************************************************************)
\* Everything is to be repaired, from the head on: the window has room for one
\* segment, which is sent, and starts the timer.
LEMMA ReTxTimeoutKeeps ==
    ASSUME NEW r, NEW pt \in Nat, Fit(r, pt), r.retries # 0
    PROVE  LET q == ReTxTimeout(r)
           IN  /\ Fit(q, pt) /\ Armed(q)
               /\ q.una = r.una /\ q.nxt >= r.nxt /\ q.sackOn = r.sackOn /\ q.closed = r.closed
               /\ q.sackOn => q.sacked \subseteq r.sacked
               /\ q.cong = "LOSS" /\ q.retries = r.retries - 1
               /\ BytesInFlight(q) <= Seg
<1>1. r \in Socket /\ Board(r)
  BY DEF Fit, Good
<1> DEFINE s == SetSentListLost(r)
<1>2. /\ s \in Socket /\ Board(s) /\ Marks(s, r) /\ s.sacked \cup s.lost = Sent(s) /\ s.retrans = {}
      /\ s.sackOn \/ s.sacked = {}
      /\ s.sackOn => s.sacked = r.sacked
      /\ r.una < r.nxt => Repairs(s) # {}
  BY <1>1, SetSentListLostKeeps
<1> DEFINE left == s.retries - 1
           th == IF r.cong # "LOSS" \/ s.una \notin s.retrans THEN GetSsThresh(s) ELSE s.ssThresh
           t == [s EXCEPT !.rto = FALSE, !.retries = left, !.dupAcks = 0, !.recover = r.nxt,
                          !.active = TRUE, !.ssThresh = th, !.cong = "LOSS", !.cWnd = Seg]
           q == SendPendingData(t)
<1>3. ReTxTimeout(r) = q
  BY DEF ReTxTimeout
<1>4. /\ left \in 0 .. DataRetries /\ left = r.retries - 1 /\ th \in Nat
      /\ r.nxt \in 0 .. DataEnd + 1 /\ Seg \in Nat \ {0}
  <2>1. r.retries \in 0 .. DataRetries /\ DataRetries \in Nat /\ s.retries = r.retries
    BY <1>1, <1>2, LossConstants DEF Socket, Marks
  <2>2. th \in Nat
    BY <1>2, GetSsThreshNat DEF Socket
  <2>3. left \in 0 .. DataRetries /\ left = r.retries - 1
    <3> HIDE DEF s
    <3> QED BY <2>1
  <2> QED BY <1>1, <2>2, <2>3, SocketRanges, WindowConstants
<1> HIDE DEF left, th, s
<1>5. /\ t \in Socket /\ t.sackOn = s.sackOn /\ t.una = s.una /\ t.nxt = s.nxt
      /\ t.sacked = s.sacked /\ t.lost = s.lost /\ t.retrans = s.retrans /\ t.highSack = s.highSack
      /\ t.cong = "LOSS" /\ t.recover = r.nxt /\ t.rto = FALSE
      /\ t.retries = left /\ t.closed = s.closed /\ t.wire = s.wire /\ t.cWnd = Seg
  BY <1>2, <1>4, ZenonT(60) DEF Socket
<1> HIDE DEF t
<1>6. /\ t.sackOn = r.sackOn /\ t.una = r.una /\ t.nxt = r.nxt /\ t.closed = r.closed
  BY <1>2, <1>5 DEF Marks
<1>7. Board(t) /\ Sent(t) = Sent(s)
  <2>1. t.recover <= t.nxt
    BY <1>1, <1>5, <1>6, SocketRanges
  <2> QED BY <1>2, <1>5, <2>1 DEF Board, Sent
<1>8. Good(t)
  <2>1. \A i \in t.lost : i < t.recover
    BY <1>5, <1>6, <1>7, SocketRanges DEF Board, Sent
  <2> QED BY <1>2, <1>5, <1>7, <2>1 DEF Good, Guesses, Prr
<1>9. Fit(t, pt)
  <2>1. pt <= r.nxt
    BY <1>1, SocketRanges DEF Fit, Passed, Board
  <2> QED BY <1>5, <1>8, <2>1 DEF Fit, InCwr, Passed
<1>10. BytesInFlight(t) = 0
  BY <1>2, <1>5, <1>7, FlightNat
<1>11. Room(t) = 1
  <2>1. Max({t.cWnd - BytesInFlight(t), 0}) = Seg
    BY <1>4, <1>5, <1>10, MaxOfTwo
  <2>2. Seg \div Seg = 1
    BY <1>4
  <2> QED BY <2>1, <2>2 DEF Room
<1>12. r.una < r.nxt => Repairs(t) # {}
  BY <1>2, <1>5 DEF Repairs
<1>13. /\ Good(q) /\ Sends(q, t)
       /\ Repairs(t) # {} => q.rto
       /\ BytesInFlight(q) <= Seg
  <2>1. /\ Good(q) /\ Sends(q, t)
        /\ Repairs(t) # {} => q.rto
        /\ BytesInFlight(q) <= BytesInFlight(t) + Seg
    BY <1>8, <1>11, SendPendingDataKeeps
  <2>2. BytesInFlight(t) + Seg = Seg
    BY <1>4, <1>10
  <2> QED BY <2>1, <2>2
<1> HIDE DEF q
<1>14. Fit(q, pt)
  BY <1>9, <1>13, SendsFit
<1>15. Armed(q)
  BY <1>1, <1>5, <1>6, <1>12, <1>13, SocketRanges DEF Armed, Sends, Good
<1> QED BY <1>2, <1>3, <1>4, <1>5, <1>6, <1>13, <1>14, <1>15 DEF Sends

(***************************************************************************)
(* The ACKs on their way                                                   *)
(***************************************************************************)
AckRecords == [ack : Nat, ece : BOOLEAN, sack : SUBSET Nat]

\* They are in order: none takes back what an earlier one said.
AcksOK(r, got, acked) ==
    /\ acked \in Seq(AckRecords)
    /\ \A k \in 1 .. Len(acked) : AckOK(r, got, acked[k]) /\ 1 .. acked[k].ack - 1 \subseteq got
    /\ \A k \in 1 .. Len(acked) : \A j \in 1 .. k :
          acked[j].ack <= acked[k].ack /\ acked[k].ack \notin acked[j].sack

\* What Tail and Append do to a sequence.
LEMMA TailOf ==
    ASSUME NEW S, NEW q \in Seq(S), q # <<>>
    PROVE  /\ Head(q) = q[1] /\ Len(q) \in Nat \ {0}
           /\ Tail(q) \in Seq(S)
           /\ Len(Tail(q)) = Len(q) - 1
           /\ \A k \in 1 .. Len(q) - 1 : Tail(q)[k] = q[k + 1]
<1>1. Len(q) \in Nat \ {0}
  BY EmptySeq, Zenon
<1>2. /\ Tail(q) \in Seq(S) /\ Len(Tail(q)) = Len(q) - 1
      /\ \A i \in 1 .. Len(Tail(q)) : Tail(q)[i] = q[i + 1]
  BY HeadTailProperties, Zenon
<1>3. \A k \in 1 .. Len(q) - 1 : Tail(q)[k] = q[k + 1]
  BY <1>2, Zenon
<1>4. Head(q) = q[1]
  BY HeadTailProperties DEF Head
<1> QED BY <1>1, <1>2, <1>3, <1>4

LEMMA AppendOf ==
    ASSUME NEW S, NEW q \in Seq(S), NEW a \in S
    PROVE  /\ Append(q, a) \in Seq(S) /\ Len(q) \in Nat
           /\ Len(Append(q, a)) = Len(q) + 1
           /\ Append(q, a)[Len(q) + 1] = a
           /\ \A k \in 1 .. Len(q) : Append(q, a)[k] = q[k]
<1>1. /\ Append(q, a) \in Seq(S) /\ Len(Append(q, a)) = Len(q) + 1
      /\ Append(q, a)[Len(q) + 1] = a
  BY AppendProperties, Zenon
<1>2. Len(q) \in Nat
  BY LenProperties, Zenon
<1>3. \A k \in 1 .. Len(q) : Append(q, a)[k] = q[k]
  OBVIOUS
<1> QED BY <1>1, <1>2, <1>3, Zenon

\* An ACK is lost.
LEMMA AcksTail ==
    ASSUME NEW r, NEW got, NEW acked, AcksOK(r, got, acked), acked # <<>>
    PROVE  AcksOK(r, got, Tail(acked))
<1> DEFINE t == Tail(acked)
<1>1. acked \in Seq(AckRecords)
  BY DEF AcksOK
<1>0. PICK n \in Nat : n = Len(acked)
  BY <1>1, LenProperties
<1>2. /\ t \in Seq(AckRecords) /\ Len(t) = n - 1
      /\ \A k \in 1 .. n - 1 : t[k] = acked[k + 1]
  BY <1>0, <1>1, TailOf
<1>3. /\ \A k \in 1 .. n : AckOK(r, got, acked[k]) /\ 1 .. acked[k].ack - 1 \subseteq got
      /\ \A k \in 1 .. n : \A j \in 1 .. k : acked[j].ack <= acked[k].ack /\ acked[k].ack \notin acked[j].sack
  BY <1>0 DEF AcksOK
<1> HIDE DEF t
<1>4. \A k \in 1 .. n - 1 : t[k] = acked[k + 1] /\ k + 1 \in 1 .. n
  <2>1. \A k \in 1 .. n - 1 : k + 1 \in 1 .. n
    OBVIOUS
  <2> QED BY <1>2, <2>1, Zenon
<1>5. \A k \in 1 .. n - 1 : AckOK(r, got, t[k]) /\ 1 .. t[k].ack - 1 \subseteq got
  <2> SUFFICES ASSUME NEW k \in 1 .. n - 1
               PROVE  AckOK(r, got, t[k]) /\ 1 .. t[k].ack - 1 \subseteq got
    OBVIOUS
  <2>1. t[k] = acked[k + 1] /\ k + 1 \in 1 .. n
    BY <1>4
  <2>2. AckOK(r, got, acked[k + 1]) /\ 1 .. acked[k + 1].ack - 1 \subseteq got
    BY <1>3, <2>1
  <2> QED BY <2>1, <2>2
<1>6. \A k \in 1 .. n - 1 : \A j \in 1 .. k : t[j].ack <= t[k].ack /\ t[k].ack \notin t[j].sack
  <2> SUFFICES ASSUME NEW k \in 1 .. n - 1, NEW j \in 1 .. k
               PROVE  t[j].ack <= t[k].ack /\ t[k].ack \notin t[j].sack
    OBVIOUS
  <2>1. j \in 1 .. n - 1 /\ j + 1 \in 1 .. k + 1
    OBVIOUS
  <2>2. t[j] = acked[j + 1] /\ t[k] = acked[k + 1] /\ k + 1 \in 1 .. n
    BY <1>4, <2>1
  <2>3. acked[j + 1].ack <= acked[k + 1].ack /\ acked[k + 1].ack \notin acked[j + 1].sack
    BY <1>3, <2>1, <2>2
  <2> QED BY <2>2, <2>3
<1> QED BY <1>2, <1>5, <1>6 DEF AcksOK, t

\* The sender moves to q, at most as far as the ACKs on their way.
LEMMA AcksMoved ==
    ASSUME NEW r, NEW q, NEW got, NEW acked, AcksOK(r, got, acked), NEW sack,
           r.nxt \in Nat, q.nxt \in Nat, q.nxt >= r.nxt, q.sackOn = r.sackOn,
           \A k \in 1 .. Len(acked) : q.una <= acked[k].ack /\ acked[k].ack \notin sack,
           q.sackOn => q.sacked \subseteq r.sacked \cup sack
    PROVE  AcksOK(q, got, acked)
<1>1. \A k \in 1 .. Len(acked) : AckOK(q, got, acked[k])
  <2> SUFFICES ASSUME NEW k \in 1 .. Len(acked) PROVE AckOK(q, got, acked[k])
    OBVIOUS
  <2>1. AckOK(r, got, acked[k]) /\ q.una <= acked[k].ack /\ acked[k].ack \notin sack
    BY DEF AcksOK
  <2> DEFINE a == acked[k]
  <2> HIDE DEF a
  <2>2. AckOK(r, got, a) /\ q.una <= a.ack /\ a.ack \notin sack
    BY <2>1 DEF a
  <2>3. AckOK(q, got, a)
    BY <2>2 DEF AckOK
  <2> QED BY <2>3 DEF a
<1> QED BY <1>1 DEF AcksOK

\* The receiver has got instead, and acknowledges it.
LEMMA AcksAppend ==
    ASSUME NEW r, NEW old, NEW got, NEW acked, AcksOK(r, old, acked), old \subseteq got,
           NEW a \in AckRecords, AckOK(r, got, a), a.ack \notin got,
           1 .. a.ack - 1 \subseteq got
    PROVE  AcksOK(r, got, Append(acked, a))
<1> DEFINE b == Append(acked, a)
<1>1. acked \in Seq(AckRecords)
  BY DEF AcksOK
<1>0. PICK n \in Nat : n = Len(acked)
  BY <1>1, LenProperties
<1>2. /\ b \in Seq(AckRecords) /\ Len(b) = n + 1 /\ b[n + 1] = a
      /\ \A k \in 1 .. n : b[k] = acked[k]
  <2>1. b \in Seq(AckRecords) /\ Len(b) = Len(acked) + 1 /\ b[Len(acked) + 1] = a
    BY <1>1, AppendOf, ZenonT(60)
  <2>2. \A k \in 1 .. Len(acked) : b[k] = acked[k]
    BY <1>1
  <2> QED BY <1>0, <2>1, <2>2, Zenon
<1>3. \A k \in 1 .. n : AckOK(r, got, acked[k]) /\ 1 .. acked[k].ack - 1 \subseteq got
  <2> SUFFICES ASSUME NEW k \in 1 .. n PROVE AckOK(r, got, acked[k]) /\ 1 .. acked[k].ack - 1 \subseteq got
    OBVIOUS
  <2> DEFINE c == acked[k]
  <2>1. AckOK(r, old, c) /\ 1 .. c.ack - 1 \subseteq old
    BY <1>0 DEF AcksOK
  <2> HIDE DEF c
  <2>2. AckOK(r, got, c) /\ 1 .. c.ack - 1 \subseteq got
    BY <2>1 DEF AckOK
  <2> QED BY <2>2 DEF c
<1>4. \A k \in 1 .. n : acked[k].ack <= a.ack /\ a.ack \notin acked[k].sack
  <2> SUFFICES ASSUME NEW k \in 1 .. n PROVE acked[k].ack <= a.ack /\ a.ack \notin acked[k].sack
    OBVIOUS
  <2> DEFINE c == acked[k]
  <2>1. AckOK(r, got, c) /\ 1 .. c.ack - 1 \subseteq got
    BY <1>3
  <2> HIDE DEF c
  <2>2. c.ack \in Nat /\ c.sack \subseteq got /\ a.ack \in Nat /\ a.ack \notin got
    BY <2>1 DEF AckOK
  <2>3. a.ack # 0
    BY DEF AckOK
  <2>4. ~ (a.ack \in 1 .. c.ack - 1)
    BY <2>1
  <2>5. c.ack <= a.ack
    BY <2>2, <2>3, <2>4
  <2> QED BY <2>2, <2>5 DEF c
<1>5. b[n + 1] = a /\ \A k \in 1 .. n : b[k] = acked[k]
  BY <1>2
<1>6. \A k \in 1 .. n + 1 : AckOK(r, got, b[k]) /\ 1 .. b[k].ack - 1 \subseteq got
  <2> SUFFICES ASSUME NEW k \in 1 .. n + 1
               PROVE  AckOK(r, got, b[k]) /\ 1 .. b[k].ack - 1 \subseteq got
    OBVIOUS
  <2>1. CASE k \in 1 .. n
    BY <1>3, <1>5, <2>1
  <2>2. CASE k = n + 1
    BY <1>5, <2>2
  <2>3. k \in 1 .. n \/ k = n + 1
    OBVIOUS
  <2> QED BY <2>1, <2>2, <2>3
<1>7. \A k \in 1 .. n : \A j \in 1 .. k : acked[j].ack <= acked[k].ack /\ acked[k].ack \notin acked[j].sack
  BY <1>0 DEF AcksOK
<1>8. \A k \in 1 .. n + 1 : \A j \in 1 .. k : b[j].ack <= b[k].ack /\ b[k].ack \notin b[j].sack
  <2> SUFFICES ASSUME NEW k \in 1 .. n + 1, NEW j \in 1 .. k
               PROVE  b[j].ack <= b[k].ack /\ b[k].ack \notin b[j].sack
    OBVIOUS
  <2>1. CASE k \in 1 .. n
    <3>1. j \in 1 .. n
      BY <2>1
    <3>2. b[j] = acked[j] /\ b[k] = acked[k]
      BY <1>5, <2>1, <3>1
    <3> QED BY <1>7, <2>1, <3>2
  <2>2. CASE k = n + 1 /\ j \in 1 .. n
    <3>1. b[j] = acked[j] /\ b[k] = a
      BY <1>5, <2>2
    <3> QED BY <1>4, <2>2, <3>1
  <2>3. CASE k = n + 1 /\ j = n + 1
    <3>1. b[j] = a /\ b[k] = a
      BY <1>5, <2>3
    <3>2. a.ack <= a.ack /\ a.ack \notin a.sack
      BY DEF AckOK
    <3> QED BY <3>1, <3>2
  <2>4. k \in 1 .. n \/ (k = n + 1 /\ (j \in 1 .. n \/ j = n + 1))
    OBVIOUS
  <2> QED BY <2>1, <2>2, <2>3, <2>4
<1> QED BY <1>2, <1>6, <1>8 DEF AcksOK, b

(***************************************************************************)
(* The inductive invariant                                                 *)
(***************************************************************************)
\* What the receiver has was sent, and holds everything below the head and all
\* that the sender knows to be SACKed.
Received(r, got) ==
    /\ got \subseteq 1 .. r.nxt - 1
    /\ 1 .. r.una - 1 \subseteq got
    /\ r.sackOn => r.sacked \subseteq got

\* Only timeouts use up retries, and only in CA_LOSS are some used up.
Tries(r, count) ==
    /\ r.cong # "LOSS" /\ ~ r.closed => r.retries = DataRetries
    /\ r.cong = "LOSS" /\ ~ r.closed => r.retries + count >= DataRetries
    /\ r.closed => count > DataRetries /\ ~ r.rto

Sound(r, got, acked, count, pt) ==
    /\ pt \in Nat /\ count \in Nat
    /\ Fit(r, pt) /\ Armed(r)
    /\ Received(r, got) /\ AcksOK(r, got, acked) /\ Tries(r, count)

IInv == Sound(tcb, rcvd, acks, timeouts, point)

\* The receiver acknowledges the first segment it misses, which the sender has
\* not SACKed and, at the most, is about to send.
LEMMA AckForOK ==
    ASSUME tcb \in Socket, Board(tcb), NEW got, Received(tcb, got), NEW ece \in BOOLEAN,
           NEW a, a = AckFor(got, ece)
    PROVE  /\ a \in AckRecords /\ AckOK(tcb, got, a)
           /\ a.ack \notin got /\ 1 .. a.ack - 1 \subseteq got
<1> DEFINE S == (1 .. DataEnd + 1) \ got
           next == Min(S)
<1>1. /\ DataEnd \in Nat /\ tcb.nxt \in Nat /\ tcb.nxt > 0 /\ tcb.nxt <= DataEnd + 1
      /\ tcb.una \in Nat /\ tcb.una > 0
  BY SocketRanges
<1>2. tcb.nxt \in S /\ S \subseteq Nat
  BY <1>1 DEF Received
<1>3. next \in S /\ \A y \in S : next <= y
  <2> HIDE DEF S
  <2> QED BY <1>2, MinNat
<1>4. /\ a = [ack |-> next, ece |-> ece, sack |-> IF tcb.sackOn THEN {i \in got : i > next} ELSE {}]
  BY DEF AckFor
<1> HIDE DEF next
<1>5. next \in Nat \ {0} /\ next \notin got /\ next <= tcb.nxt
  BY <1>1, <1>2, <1>3
<1>6. 1 .. next - 1 \subseteq got
  <2> SUFFICES ASSUME NEW j \in 1 .. next - 1, j \notin got PROVE FALSE
    OBVIOUS
  <2>1. next \in 1 .. DataEnd + 1
    BY <1>3
  <2>2. j \in S /\ j < next /\ j \in Int
    BY <1>1, <2>1
  <2> QED BY <1>3, <1>5, <2>2
<1>7. tcb.una <= next
  <2>1. ~ (next \in 1 .. tcb.una - 1)
    BY <1>5 DEF Received
  <2> QED BY <1>1, <1>5, <2>1
<1>8. got \subseteq Nat
  BY DEF Received
<1>9. /\ a.ack = next /\ a.ece = ece
      /\ a.sack \subseteq got /\ \A i \in a.sack : i > next
      /\ ~ tcb.sackOn => a.sack = {}
      /\ a \in AckRecords
  <2> DEFINE blocks == IF tcb.sackOn THEN {i \in got : i > next} ELSE {}
  <2>1. /\ blocks \subseteq got /\ \A i \in blocks : i > next
        /\ ~ tcb.sackOn => blocks = {}
    OBVIOUS
  <2>2. blocks \in SUBSET Nat
    BY <1>8, <2>1
  <2>3. a = [ack |-> next, ece |-> ece, sack |-> blocks]
    BY <1>4
  <2> HIDE DEF blocks
  <2>4. a.ack = next /\ a.ece = ece /\ a.sack = blocks
    BY <2>3
  <2>5. a \in AckRecords
    BY <1>5, <2>2, <2>3 DEF AckRecords
  <2> QED BY <2>1, <2>4, <2>5
<1>10. AckOK(tcb, got, a)
  <2>1. next \notin a.sack
    BY <1>5, <1>9
  <2>2. tcb.sackOn => next \notin tcb.sacked
    BY <1>5 DEF Received
  <2> QED BY <1>5, <1>7, <1>9, <2>1, <2>2 DEF AckOK
<1> QED BY <1>5, <1>6, <1>9, <1>10

\* A segment leaves the network: arrived or lost.
LEMMA WireKeeps ==
    ASSUME NEW r, NEW pt, Fit(r, pt), NEW i \in Segments, r.wire[i] > 0, NEW q,
           q = [r EXCEPT !.wire[i] = @ - 1]
    PROVE  /\ Fit(q, pt) /\ i \in 1 .. r.nxt - 1
           /\ q.sackOn = r.sackOn /\ q.una = r.una /\ q.nxt = r.nxt /\ q.sacked = r.sacked
           /\ q.cong = r.cong /\ q.rto = r.rto /\ q.retries = r.retries /\ q.closed = r.closed
<1>1. r \in Socket /\ Board(r) /\ r.wire \in [Segments -> Nat]
  BY DEF Fit, Good, Socket
<1> DEFINE w == [r.wire EXCEPT ![i] = @ - 1]
<1>2. w \in [Segments -> Nat] /\ \A j \in Segments : w[j] > 0 => r.wire[j] > 0
  BY <1>1
<1>3. q = [r EXCEPT !.wire = w]
  BY <1>1 DEF Socket
<1> HIDE DEF w
<1>4. /\ q \in Socket
      /\ q.sackOn = r.sackOn /\ q.una = r.una /\ q.nxt = r.nxt /\ q.sacked = r.sacked
      /\ q.lost = r.lost /\ q.retrans = r.retrans /\ q.highSack = r.highSack
      /\ q.cong = r.cong /\ q.recover = r.recover /\ q.prrFlight = r.prrFlight
      /\ q.rto = r.rto /\ q.retries = r.retries /\ q.closed = r.closed /\ q.wire = w
  BY <1>1, <1>2, <1>3 DEF Socket
<1>5. Board(q)
  BY <1>1, <1>2, <1>4 DEF Board, Sent
<1>6. Good(q)
  BY <1>4, <1>5 DEF Fit, Good, Guesses, Prr
<1>7. Fit(q, pt)
  BY <1>4, <1>6 DEF Fit, InCwr, Passed
<1>8. i \in 1 .. r.nxt - 1
  <2>1. i < r.nxt
    BY <1>1 DEF Board
  <2>2. i \in Nat \ {0} /\ r.nxt \in Nat
    BY <1>1, SocketRanges DEF Segments
  <2> QED BY <2>1, <2>2
<1> QED BY <1>4, <1>7, <1>8

\* What the other parts say depends on the fields that a delivery leaves alone.
LEMMA SameAcks ==
    ASSUME NEW r, NEW q, NEW got, NEW acked, AcksOK(r, got, acked),
           q.sackOn = r.sackOn, q.una = r.una, q.nxt = r.nxt, q.sacked = r.sacked
    PROVE  AcksOK(q, got, acked)
<1>1. ASSUME NEW a, AckOK(r, got, a) PROVE AckOK(q, got, a)
  BY <1>1 DEF AckOK
<1> QED BY <1>1 DEF AcksOK

\* A segment arrives, and its ACK sets off behind the others.
LEMMA DeliverStep ==
    ASSUME IInv, NEW i \in Segments, NEW ece \in BOOLEAN, Deliver(i, ece)
    PROVE  IInv'
<1> PICK r : r = tcb
  OBVIOUS
<1> PICK q : q = tcb'
  OBVIOUS
<1> PICK old : old = rcvd
  OBVIOUS
<1> PICK got : got = rcvd'
  OBVIOUS
<1>1. /\ r.wire[i] > 0 /\ q = [r EXCEPT !.wire[i] = @ - 1]
      /\ got = old \cup {i} /\ acks' = Append(acks, AckFor(got, ece))
      /\ timeouts' = timeouts /\ point' = point
  BY DEF Deliver
<1>2. /\ point \in Nat /\ timeouts \in Nat
      /\ Fit(r, point) /\ Armed(r)
      /\ Received(r, old) /\ AcksOK(r, old, acks) /\ Tries(r, timeouts)
  BY DEF IInv, Sound
<1>3. /\ Fit(q, point) /\ i \in 1 .. r.nxt - 1
      /\ q.sackOn = r.sackOn /\ q.una = r.una /\ q.nxt = r.nxt /\ q.sacked = r.sacked
      /\ q.cong = r.cong /\ q.rto = r.rto /\ q.retries = r.retries /\ q.closed = r.closed
  BY <1>1, <1>2, WireKeeps
<1>4. Armed(q) /\ Tries(q, timeouts)
  BY <1>2, <1>3 DEF Armed, Tries
<1>5. Received(r, got) /\ Received(q, got)
  BY <1>1, <1>2, <1>3 DEF Received
<1> PICK a : a = AckFor(got, ece)
  OBVIOUS
<1>6. /\ a \in AckRecords /\ AckOK(r, got, a)
      /\ a.ack \notin got /\ 1 .. a.ack - 1 \subseteq got
  <2>1. tcb \in Socket /\ Board(tcb) /\ Received(tcb, got)
    BY <1>2, <1>5 DEF Fit, Good
  <2> QED BY <2>1, AckForOK
<1>7. AcksOK(r, got, Append(acks, a))
  BY <1>1, <1>2, <1>6, AcksAppend
<1>8. AcksOK(q, got, Append(acks, a))
  BY <1>3, <1>7, SameAcks
<1>9. acks' = Append(acks, a)
  BY <1>1
<1>10. AcksOK(q, got, acks')
  BY <1>8, <1>9, Zenon
<1>11. Sound(q, got, acks', timeouts, point)
  BY <1>2, <1>3, <1>4, <1>5, <1>10 DEF Sound
<1> QED BY <1>1, <1>11 DEF IInv

\* A segment or the first ACK is lost.
LEMMA LoseStep ==
    ASSUME IInv, Lose
    PROVE  IInv'
<1> PICK r : r = tcb
  OBVIOUS
<1> PICK q : q = tcb'
  OBVIOUS
<1>1. /\ point \in Nat /\ timeouts \in Nat
      /\ Fit(r, point) /\ Armed(r)
      /\ Received(r, rcvd) /\ AcksOK(r, rcvd, acks) /\ Tries(r, timeouts)
  BY DEF IInv, Sound
<1>2. rcvd' = rcvd /\ timeouts' = timeouts /\ point' = point
  BY DEF Lose
<1>3. CASE \E i \in Segments : r.wire[i] > 0 /\ q = [r EXCEPT !.wire[i] = @ - 1] /\ acks' = acks
  <2>1. PICK i \in Segments : r.wire[i] > 0 /\ q = [r EXCEPT !.wire[i] = @ - 1]
    BY <1>3
  <2>2. /\ Fit(q, point)
        /\ q.sackOn = r.sackOn /\ q.una = r.una /\ q.nxt = r.nxt /\ q.sacked = r.sacked
        /\ q.cong = r.cong /\ q.rto = r.rto /\ q.retries = r.retries /\ q.closed = r.closed
    BY <1>1, <2>1, WireKeeps
  <2>3. Armed(q) /\ Tries(q, timeouts) /\ Received(q, rcvd)
    BY <1>1, <2>2 DEF Armed, Tries, Received
  <2>4. AcksOK(q, rcvd, acks)
    BY <1>1, <2>2, SameAcks
  <2>5. Sound(q, rcvd, acks, timeouts, point)
    BY <1>1, <2>2, <2>3, <2>4 DEF Sound
  <2>6. acks' = acks
    BY <1>3
  <2> QED BY <1>2, <2>5, <2>6 DEF IInv
<1>4. CASE acks # <<>> /\ acks' = Tail(acks) /\ q = r
  <2>1. AcksOK(r, rcvd, acks')
    BY <1>1, <1>4, AcksTail, Zenon
  <2>2. Sound(q, rcvd, acks', timeouts, point)
    BY <1>1, <1>4, <2>1 DEF Sound
  <2> QED BY <1>2, <2>2 DEF IInv
<1> QED BY <1>3, <1>4 DEF Lose

\* The highest recovery point never passes the present one.
LEMMA RecoveryPointPassed ==
    ASSUME NEW r, point \in Nat, Fit(r, point)
    PROVE  RecoveryPoint(r) \in Nat /\ Fit(r, RecoveryPoint(r))
<1>1. r \in Socket /\ r.recover \in Nat
  BY SocketRanges DEF Fit, Good
<1>2. CASE r.cong \in {"RECOVERY", "LOSS"}
  <2>1. point <= r.recover
    BY <1>2 DEF Fit, Passed
  <2>2. RecoveryPoint(r) = r.recover
    BY <1>1, <1>2, <2>1, MaxOfTwo DEF RecoveryPoint
  <2> QED BY <1>1, <1>2, <2>2 DEF Fit, Passed
<1>3. CASE r.cong \notin {"RECOVERY", "LOSS"}
  BY <1>3 DEF RecoveryPoint
<1> QED BY <1>2, <1>3

\* The first ACK arrives; those behind it still fit the sender.
LEMMA AckStep ==
    ASSUME IInv, Ack
    PROVE  IInv'
<1> PICK r : r = tcb
  OBVIOUS
<1> PICK q : q = tcb'
  OBVIOUS
<1> PICK a : a = Head(acks)
  OBVIOUS
<1>1. /\ point \in Nat /\ timeouts \in Nat
      /\ Fit(r, point) /\ Armed(r)
      /\ Received(r, rcvd) /\ AcksOK(r, rcvd, acks) /\ Tries(r, timeouts)
  BY DEF IInv, Sound
<1>2. /\ acks # <<>> /\ ~ r.closed /\ q = ReceivedAck(r, a) /\ acks' = Tail(acks)
      /\ timeouts' = IF q.una > r.una THEN 0 ELSE timeouts
      /\ point' = RecoveryPoint(q) /\ rcvd' = rcvd
  BY DEF Ack
<1>3. acks \in Seq(AckRecords)
  BY <1>1 DEF AcksOK
<1>0. PICK n \in Nat : n = Len(acks)
  BY <1>3, LenProperties
<1>4. /\ a = acks[1] /\ n > 0 /\ Len(Tail(acks)) = n - 1
      /\ \A k \in 1 .. n - 1 : Tail(acks)[k] = acks[k + 1]
  BY <1>0, <1>2, <1>3, TailOf
<1>5. /\ \A k \in 1 .. n : AckOK(r, rcvd, acks[k]) /\ 1 .. acks[k].ack - 1 \subseteq rcvd
      /\ \A k \in 1 .. n : \A j \in 1 .. k : acks[j].ack <= acks[k].ack /\ acks[k].ack \notin acks[j].sack
  BY <1>0, <1>1 DEF AcksOK
<1>6. AckOK(r, rcvd, a) /\ 1 .. a.ack - 1 \subseteq rcvd
  BY <1>4, <1>5
<1>7. /\ Fit(q, point) /\ Armed(q)
      /\ q.una = a.ack /\ q.nxt >= r.nxt /\ q.sackOn = r.sackOn /\ q.closed = r.closed
      /\ q.sackOn => q.sacked \subseteq r.sacked \cup a.sack
      /\ q.cong # "LOSS" => q.retries = DataRetries
      /\ q.cong = "LOSS" => /\ r.cong = "LOSS"
                            /\ q.retries = IF a.ack > r.una THEN DataRetries ELSE r.retries
  <2>1. r.cong # "LOSS" => r.retries = DataRetries
    BY <1>1, <1>2 DEF Tries
  <2> QED BY <1>1, <1>2, <1>6, <2>1, ReceivedAckKeeps
<1>8. r \in Socket /\ q \in Socket /\ r.nxt \in Nat /\ q.nxt \in Nat
  BY <1>1, <1>7, SocketRanges DEF Fit, Good
<1>9. Received(q, rcvd)
  <2>1. rcvd \subseteq 1 .. q.nxt - 1
    BY <1>1, <1>7, <1>8 DEF Received
  <2>2. 1 .. q.una - 1 \subseteq rcvd
    BY <1>6, <1>7
  <2>3. q.sackOn => q.sacked \subseteq rcvd
    BY <1>1, <1>6, <1>7 DEF Received, AckOK
  <2> QED BY <2>1, <2>2, <2>3 DEF Received
<1>10. AcksOK(q, rcvd, Tail(acks))
  <2>1. AcksOK(r, rcvd, Tail(acks))
    BY <1>1, <1>2, AcksTail
  <2> DEFINE t == Tail(acks)
  <2> HIDE DEF t
  <2>2. \A k \in 1 .. Len(t) : q.una <= t[k].ack /\ t[k].ack \notin a.sack
    <3>1. Len(t) = n - 1 /\ \A k \in 1 .. n - 1 : t[k] = acks[k + 1]
      BY <1>4 DEF t
    <3> SUFFICES ASSUME NEW k \in 1 .. n - 1 PROVE q.una <= t[k].ack /\ t[k].ack \notin a.sack
      BY <3>1
    <3>2. t[k] = acks[k + 1]
      BY <3>1
    <3>3. k + 1 \in 1 .. n /\ 1 \in 1 .. k + 1
      OBVIOUS
    <3>4. acks[1].ack <= acks[k + 1].ack /\ acks[k + 1].ack \notin acks[1].sack
      BY <1>5, <3>3
    <3> QED BY <1>4, <1>7, <3>2, <3>4
  <2>3. AcksOK(r, rcvd, t)
    BY <2>1 DEF t
  <2>4. AcksOK(q, rcvd, t)
    BY <1>7, <1>8, <2>2, <2>3, AcksMoved
  <2> QED BY <2>4 DEF t
<1> PICK count : count = IF q.una > r.una THEN 0 ELSE timeouts
  OBVIOUS
<1>11. count \in Nat /\ Tries(q, count)
  <2>1. DataRetries \in Nat /\ r.retries \in Nat /\ r.una \in Nat /\ a.ack \in Nat
    BY <1>6, <1>8, LossConstants, SocketRanges DEF Socket, AckOK
  <2>2. q.cong = "LOSS" => q.retries + count >= DataRetries
    <3>1. CASE a.ack > r.una
      BY <1>7, <2>1, <3>1
    <3>2. CASE ~ (a.ack > r.una)
      BY <1>1, <1>2, <1>7, <2>1, <3>2 DEF Tries
    <3> QED BY <3>1, <3>2
  <2> QED BY <1>1, <1>2, <1>7, <2>2 DEF Tries
<1>12. RecoveryPoint(q) \in Nat /\ Fit(q, RecoveryPoint(q))
  BY <1>1, <1>7, RecoveryPointPassed
<1>13. Sound(q, rcvd, Tail(acks), count, RecoveryPoint(q))
  BY <1>7, <1>9, <1>10, <1>11, <1>12 DEF Sound
<1>14. acks' = Tail(acks) /\ timeouts' = count /\ point' = RecoveryPoint(q) /\ rcvd' = rcvd
  BY <1>2
<1>15. Sound(q, rcvd', acks', timeouts', point')
  BY <1>13, <1>14, Zenon
<1> QED BY <1>15 DEF IInv

\* The timer expires, and may do so for the last time.
LEMMA TimeoutStep ==
    ASSUME IInv, Timeout
    PROVE  IInv'
<1> PICK r : r = tcb
  OBVIOUS
<1> PICK q : q = tcb'
  OBVIOUS
<1>1. /\ point \in Nat /\ timeouts \in Nat
      /\ Fit(r, point) /\ Armed(r)
      /\ Received(r, rcvd) /\ AcksOK(r, rcvd, acks) /\ Tries(r, timeouts)
  BY DEF IInv, Sound
<1>2. /\ r.rto /\ q = ReTxTimeout(r) /\ timeouts' = timeouts + 1
      /\ point' = RecoveryPoint(q) /\ rcvd' = rcvd /\ acks' = acks
  BY DEF Timeout, Expires
<1>3. r \in Socket /\ r.retries \in Nat /\ DataRetries \in Nat \ {0}
  BY <1>1, LossConstants DEF Fit, Good, Socket
<1>4. ~ r.closed
  BY <1>1, <1>2 DEF Tries
<1>5. /\ Fit(q, point) /\ Armed(q) /\ Tries(q, timeouts + 1)
      /\ q.una = r.una /\ q.nxt >= r.nxt /\ q.sackOn = r.sackOn
      /\ q.sackOn => q.sacked \subseteq r.sacked
  <2>1. CASE r.retries = 0
    <3>1. q = [r EXCEPT !.closed = TRUE, !.rto = FALSE]
      BY <1>2, <2>1 DEF ReTxTimeout
    <3>2. /\ q \in Socket
          /\ q.sackOn = r.sackOn /\ q.una = r.una /\ q.nxt = r.nxt /\ q.sacked = r.sacked
          /\ q.lost = r.lost /\ q.retrans = r.retrans /\ q.highSack = r.highSack
          /\ q.cong = r.cong /\ q.recover = r.recover /\ q.prrFlight = r.prrFlight
          /\ q.wire = r.wire /\ q.closed = TRUE /\ q.rto = FALSE
      BY <1>3, <3>1, ZenonT(60) DEF Socket
    <3>3. Fit(q, point)
      BY <1>1, <3>2 DEF Fit, Good, Board, Sent, Guesses, Prr, InCwr, Passed
    <3>4. timeouts >= DataRetries
      BY <1>1, <1>3, <1>4, <2>1 DEF Tries
    <3>5. Tries(q, timeouts + 1) /\ Armed(q)
      BY <1>1, <1>3, <3>2, <3>4 DEF Tries, Armed
    <3> QED BY <1>3, <3>2, <3>3, <3>5, SocketRanges
  <2>2. CASE r.retries # 0
    <3>1. /\ Fit(q, point) /\ Armed(q)
          /\ q.una = r.una /\ q.nxt >= r.nxt /\ q.sackOn = r.sackOn /\ q.closed = r.closed
          /\ q.sackOn => q.sacked \subseteq r.sacked
          /\ q.cong = "LOSS" /\ q.retries = r.retries - 1
      BY <1>1, <1>2, <2>2, ReTxTimeoutKeeps
    <3>2. r.retries + timeouts >= DataRetries
      BY <1>1, <1>3, <1>4 DEF Tries
    <3>3. Tries(q, timeouts + 1)
      BY <1>1, <1>3, <1>4, <3>1, <3>2 DEF Tries
    <3> QED BY <3>1, <3>3
  <2> QED BY <2>1, <2>2
<1>6. q \in Socket /\ r.nxt \in Nat /\ q.nxt \in Nat
  BY <1>3, <1>5, SocketRanges DEF Fit, Good
<1>7. Received(q, rcvd)
  BY <1>1, <1>5, <1>6 DEF Received
<1>8. AcksOK(q, rcvd, acks)
  <2> PICK none : none = {}
    OBVIOUS
  <2>1. \A k \in 1 .. Len(acks) : q.una <= acks[k].ack /\ acks[k].ack \notin none
    BY <1>1, <1>5 DEF AcksOK, AckOK
  <2>2. q.sackOn => q.sacked \subseteq r.sacked \cup none
    BY <1>5
  <2> QED BY <1>1, <1>5, <1>6, <2>1, <2>2, AcksMoved
<1>9. RecoveryPoint(q) \in Nat /\ Fit(q, RecoveryPoint(q))
  BY <1>1, <1>5, RecoveryPointPassed
<1>10. Sound(q, rcvd, acks, timeouts + 1, RecoveryPoint(q))
  BY <1>1, <1>5, <1>7, <1>8, <1>9 DEF Sound
<1> QED BY <1>2, <1>10 DEF IInv

\* At the start the first window is out, from an empty scoreboard.
LEMMA InitSound ==
    ASSUME Init
    PROVE  IInv
<1> PICK q : q = tcb
  OBVIOUS
<1>1. PICK sack \in Sacks : q = SendPendingData(
                [sackOn |-> sack, una |-> 1, nxt |-> 1, sacked |-> {}, lost |-> {}, retrans |-> {},
                 highSack |-> 0, flight |-> 0, dupAcks |-> 0, cong |-> "OPEN", recover |-> 0,
                 active |-> FALSE, first |-> TRUE, retransAcked |-> FALSE, cWnd |-> InitCwnd * Seg,
                 ssThresh |-> InitSsThresh, cWndCnt |-> 0, prrDelivered |-> 0, prrOut |-> 0,
                 prrFlight |-> 0, rto |-> FALSE, retries |-> DataRetries, closed |-> FALSE,
                 wire |-> [i \in Segments |-> 0]])
  BY DEF Init
<1> DEFINE cw == InitCwnd * Seg
           w == [i \in Segments |-> 0]
           r == [sackOn |-> sack, una |-> 1, nxt |-> 1, sacked |-> {}, lost |-> {}, retrans |-> {},
                 highSack |-> 0, flight |-> 0, dupAcks |-> 0, cong |-> "OPEN", recover |-> 0,
                 active |-> FALSE, first |-> TRUE, retransAcked |-> FALSE, cWnd |-> cw,
                 ssThresh |-> InitSsThresh, cWndCnt |-> 0, prrDelivered |-> 0, prrOut |-> 0,
                 prrFlight |-> 0, rto |-> FALSE, retries |-> DataRetries, closed |-> FALSE,
                 wire |-> w]
<1>2. /\ rcvd = {} /\ acks = <<>> /\ timeouts = 0 /\ point = 0
  BY DEF Init
<1>3. q = SendPendingData(r)
  BY <1>1
<1>4. /\ DataEnd \in Nat \ {0} /\ DataRetries \in Nat /\ InitSsThresh \in Nat /\ sack \in BOOLEAN
      /\ cw \in Nat /\ w \in [Segments -> Nat] /\ \A i \in Segments : w[i] = 0
  <2>1. InitCwnd \in Nat /\ Seg \in Nat
    BY LossConstants, WindowConstants
  <2>2. cw \in Nat
    BY <2>1, TimesNat
  <2> QED BY <2>2, LossConstants
<1>5. \A i \in Segments : ~ (w[i] > 0)
  BY <1>4
<1> HIDE DEF cw, w
<1>6. /\ r \in Socket
      /\ r.sackOn = sack /\ r.una = 1 /\ r.nxt = 1 /\ r.sacked = {} /\ r.lost = {}
      /\ r.retrans = {} /\ r.highSack = 0 /\ r.cong = "OPEN" /\ r.recover = 0
      /\ r.retries = DataRetries /\ r.closed = FALSE /\ r.wire = w
  BY <1>4 DEF Socket
<1> HIDE DEF r
<1>7. Board(r) /\ Guesses(r) /\ Prr(r) /\ InCwr(r) /\ Armed(r) /\ Passed(r, 0)
  BY <1>5, <1>6 DEF Board, Sent, Guesses, Prr, InCwr, Armed, Passed
<1>8. Fit(r, 0) /\ Good(r)
  BY <1>6, <1>7 DEF Fit, Good
<1>9. Good(q) /\ Sends(q, r)
  BY <1>3, <1>8, SendPendingDataKeeps
<1>10. Fit(q, 0) /\ Armed(q)
  BY <1>6, <1>7, <1>8, <1>9, SendsFit, SendsArmed DEF Good
<1>11. /\ q.una = 1 /\ q.sacked = {} /\ q.cong = "OPEN" /\ q.retries = DataRetries
       /\ q.closed = FALSE
  BY <1>6, <1>9 DEF Sends
<1>12. Received(q, {}) /\ Tries(q, 0)
  BY <1>11 DEF Received, Tries
<1>13. AcksOK(q, {}, <<>>)
  <2>1. <<>> \in Seq(AckRecords) /\ Len(<<>>) = 0
    BY EmptySeq, Zenon
  <2>2. 1 .. Len(<<>>) = {}
    BY <2>1
  <2> QED BY <2>1, <2>2, Zenon DEF AcksOK
<1>14. Sound(q, {}, <<>>, 0, 0)
  BY <1>10, <1>12, <1>13 DEF Sound
<1> QED BY <1>2, <1>14, Zenon DEF IInv

\* Every step keeps the invariant.
LEMMA NextSound ==
    ASSUME IInv, [Next]_vars
    PROVE  IInv'
<1>1. CASE \E i \in Segments, ece \in BOOLEAN : Deliver(i, ece)
  BY <1>1, DeliverStep
<1>2. CASE Lose
  BY <1>2, LoseStep
<1>3. CASE Ack
  BY <1>3, AckStep
<1>4. CASE Timeout
  BY <1>4, TimeoutStep
<1>5. CASE UNCHANGED vars
  BY <1>5 DEF vars, IInv
<1> QED BY <1>1, <1>2, <1>3, <1>4, <1>5 DEF Next

\* The socket, the receiver and the ACKs on their way fit together in every state.
THEOREM Soundness == Spec => []IInv
<1>1. Init => IInv
  BY InitSound
<1>2. IInv /\ [Next]_vars => IInv'
  BY NextSound
<1> QED BY <1>1, <1>2, PTL DEF Spec

(***************************************************************************)
(* The invariants                                                          *)
(***************************************************************************)
LEMMA SoundProperties ==
    ASSUME IInv
    PROVE  TypeOK /\ Scoreboard /\ TimerArmed /\ GivesUpLate
<1>1. /\ tcb \in Socket /\ Board(tcb) /\ Armed(tcb)
      /\ Received(tcb, rcvd) /\ Tries(tcb, timeouts)
  BY DEF IInv, Sound, Fit, Good
<1>2. TypeOK
  <2>1. rcvd \subseteq Segments
    BY <1>1, SocketRanges DEF Received, Segments
  <2> QED BY <1>1, <2>1 DEF TypeOK, Board
<1>3. Scoreboard
  BY <1>1 DEF Scoreboard, Board, Received
<1>4. TimerArmed
  BY <1>1 DEF TimerArmed, Armed
<1>5. GivesUpLate
  BY <1>1 DEF GivesUpLate, Tries
<1> QED BY <1>2, <1>3, <1>4, <1>5

\* The fields keep their ranges, and the marks stay within what is outstanding.
THEOREM TypeCorrect == Spec => []TypeOK
BY Soundness, SoundProperties, PTL

\* The scoreboard of TcpTxBuffer never contradicts itself or the receiver, whatever
\* Update, AddRenoSack, MarkHeadAsLost and DiscardUpTo did to it in which order.
THEOREM ScoreboardSound == Spec => []Scoreboard
BY Soundness, SoundProperties, PTL

\* Whatever the congestion state, m_retxEvent is pending while data is outstanding.
THEOREM TimerPending == Spec => []TimerArmed
BY Soundness, SoundProperties, PTL

\* ReTxTimeout gives the connection up only after DataRetries timeouts in a row.
THEOREM NoEarlySurrender == Spec => []GivesUpLate
BY Soundness, SoundProperties, PTL

(***************************************************************************)
(* The action properties                                                   *)
(***************************************************************************)
LEMMA RecoveryStep ==
    ASSUME IInv, [Next]_vars
    PROVE  [tcb'.cong = "RECOVERY" /\ tcb.cong # "RECOVERY" => tcb'.una >= point]_vars
<1> SUFFICES ASSUME Next, tcb'.cong = "RECOVERY", tcb.cong # "RECOVERY"
             PROVE  tcb'.una >= point
  BY DEF vars
<1> PICK r : r = tcb
  OBVIOUS
<1> PICK q : q = tcb'
  OBVIOUS
<1>1. /\ point \in Nat /\ Fit(r, point) /\ Armed(r)
      /\ AcksOK(r, rcvd, acks) /\ Tries(r, timeouts)
  BY DEF IInv, Sound
<1>2. ASSUME NEW i \in Segments, NEW ece \in BOOLEAN, Deliver(i, ece) PROVE q.cong = r.cong
  <2>1. r.wire[i] > 0 /\ q = [r EXCEPT !.wire[i] = @ - 1]
    BY <1>2 DEF Deliver
  <2> QED BY <1>1, <2>1, WireKeeps
<1>3. ASSUME Lose PROVE q.cong = r.cong
  <2>1. q = r \/ \E i \in Segments : r.wire[i] > 0 /\ q = [r EXCEPT !.wire[i] = @ - 1]
    BY <1>3 DEF Lose
  <2> QED BY <1>1, <2>1, WireKeeps
<1>4. ASSUME Timeout PROVE q.cong \in {r.cong, "LOSS"}
  <2>1. q = ReTxTimeout(r)
    BY <1>4 DEF Timeout
  <2>2. CASE r.retries = 0
    <3>1. q = [r EXCEPT !.closed = TRUE, !.rto = FALSE]
      BY <2>1, <2>2 DEF ReTxTimeout
    <3> QED BY <1>1, <3>1 DEF Fit, Good, Socket
  <2>3. CASE r.retries # 0
    BY <1>1, <2>1, <2>3, ReTxTimeoutKeeps
  <2> QED BY <2>2, <2>3
<1>5. ASSUME Ack PROVE q.una >= point
  <2> PICK a : a = Head(acks)
    OBVIOUS
  <2>1. acks # <<>> /\ ~ r.closed /\ q = ReceivedAck(r, a)
    BY <1>5 DEF Ack
  <2>2. AckOK(r, rcvd, a)
    <3>1. acks \in Seq(AckRecords)
      BY <1>1 DEF AcksOK
    <3>2. a = acks[1] /\ Len(acks) \in Nat \ {0}
      BY <2>1, <3>1, TailOf
    <3>3. 1 \in 1 .. Len(acks)
      BY <3>2
    <3> QED BY <1>1, <3>2, <3>3 DEF AcksOK
  <2>3. r.cong # "LOSS" => r.retries = DataRetries
    BY <1>1, <2>1 DEF Tries
  <2>4. point <= q.una /\ Fit(q, point)
    BY <1>1, <2>1, <2>2, <2>3, ReceivedAckKeeps
  <2>5. q.una \in Nat
    BY <2>4, SocketRanges DEF Fit, Good
  <2> QED BY <1>1, <2>4, <2>5
<1> QED BY <1>2, <1>3, <1>4, <1>5 DEF Next

\* EnterRecovery never starts a phase below the recovery point of an earlier one, or
\* of a timeout, by duplicate ACKs or by SACKs.
THEOREM RecoversOncePerWindow == Spec => OneRecoveryPerWindow
<1>1. IInv /\ [Next]_vars => [tcb'.cong = "RECOVERY" /\ tcb.cong # "RECOVERY" => tcb'.una >= point]_vars
  BY RecoveryStep
<1> QED BY <1>1, Soundness, PTL DEF Spec, OneRecoveryPerWindow

\* Only a timeout uses up a retry, and it leaves a flight of one segment.
LEMMA TimeoutFlight ==
    ASSUME IInv, [Next]_vars
    PROVE  [tcb'.retries < tcb.retries => BytesInFlight(tcb') <= Seg]_vars
<1> SUFFICES ASSUME Next, tcb'.retries < tcb.retries
             PROVE  BytesInFlight(tcb') <= Seg
  BY DEF vars
<1> PICK r : r = tcb
  OBVIOUS
<1> PICK q : q = tcb'
  OBVIOUS
<1>1. /\ point \in Nat /\ Fit(r, point) /\ Armed(r)
      /\ AcksOK(r, rcvd, acks) /\ Tries(r, timeouts)
  BY DEF IInv, Sound
<1>2. r \in Socket /\ r.retries \in 0 .. DataRetries /\ DataRetries \in Nat
  BY <1>1, LossConstants DEF Fit, Good, Socket
<1>3. ASSUME NEW i \in Segments, NEW ece \in BOOLEAN, Deliver(i, ece) PROVE q.retries = r.retries
  <2>1. r.wire[i] > 0 /\ q = [r EXCEPT !.wire[i] = @ - 1]
    BY <1>3 DEF Deliver
  <2> QED BY <1>1, <2>1, WireKeeps
<1>4. ASSUME Lose PROVE q.retries = r.retries
  <2>1. q = r \/ \E i \in Segments : r.wire[i] > 0 /\ q = [r EXCEPT !.wire[i] = @ - 1]
    BY <1>4 DEF Lose
  <2> QED BY <1>1, <2>1, WireKeeps
<1>5. ASSUME Ack PROVE q.retries = DataRetries \/ q.retries = r.retries
  <2> PICK a : a = Head(acks)
    OBVIOUS
  <2>1. acks # <<>> /\ ~ r.closed /\ q = ReceivedAck(r, a)
    BY <1>5 DEF Ack
  <2>2. AckOK(r, rcvd, a)
    <3>1. acks \in Seq(AckRecords)
      BY <1>1 DEF AcksOK
    <3>2. a = acks[1] /\ Len(acks) \in Nat \ {0}
      BY <2>1, <3>1, TailOf
    <3>3. 1 \in 1 .. Len(acks)
      BY <3>2
    <3> QED BY <1>1, <3>2, <3>3 DEF AcksOK
  <2>3. r.cong # "LOSS" => r.retries = DataRetries
    BY <1>1, <2>1 DEF Tries
  <2> QED BY <1>1, <2>1, <2>2, <2>3, ReceivedAckKeeps
<1>6. ASSUME Timeout PROVE BytesInFlight(q) <= Seg
  <2>1. q = ReTxTimeout(r)
    BY <1>6 DEF Timeout
  <2>2. CASE r.retries = 0
    <3>1. q = [r EXCEPT !.closed = TRUE, !.rto = FALSE]
      BY <2>1, <2>2 DEF ReTxTimeout
    <3>2. q.retries = r.retries
      BY <1>2, <3>1 DEF Socket
    <3> QED BY <1>2, <3>2
  <2>3. CASE r.retries # 0
    BY <1>1, <2>1, <2>3, ReTxTimeoutKeeps
  <2> QED BY <2>2, <2>3
<1>7. q.retries < r.retries
  OBVIOUS
<1>8. q.retries # DataRetries /\ q.retries # r.retries
  BY <1>2, <1>7
<1>9. Timeout
  BY <1>3, <1>4, <1>5, <1>8 DEF Next
<1> QED BY <1>6, <1>9

\* After ReTxTimeout at most one segment counts as in flight.
THEOREM TimeoutStartsOver == Spec => TimeoutEmptiesFlight
<1>1. IInv /\ [Next]_vars => [tcb'.retries < tcb.retries => BytesInFlight(tcb') <= Seg]_vars
  BY TimeoutFlight
<1> QED BY <1>1, Soundness, PTL DEF Spec, TimeoutEmptiesFlight

=============================================================================
