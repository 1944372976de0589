------------------------- MODULE TcpEcnEchoProofs --------------------------
(***************************************************************************)
(* Proofs about TcpEcnEcho for every number of segments.                   *)
(***************************************************************************)
EXTENDS TcpEcnEcho, NatMinimum, SequenceTheorems, TLAPS

(***************************************************************************)
(* A socket between two calls of a handler                                 *)
(***************************************************************************)
Good(r) ==
    /\ delAckMaxCount \in 1 .. DelAckMax
    /\ r \in Socket
    /\ r.count <= delAckMaxCount
    /\ r.prior <= r.rcvNxt
    /\ r.priorFlag => 1 <= r.prior
    /\ r.highTxAck <= r.rcvNxt
    /\ \A k \in r.ooo : r.rcvNxt < k
    /\ \A i \in 1 .. Len(r.acks) : r.acks[i].ack <= r.rcvNxt

\* What appending an ACK does to the ACKs sent so far.
LEMMA AppendAck ==
    ASSUME NEW acks \in Seq(Ack), NEW a \in Ack, NEW n \in Nat, a.ack <= n,
           \A i \in 1 .. Len(acks) : acks[i].ack <= n
    PROVE  /\ Append(acks, a) \in Seq(Ack)
           /\ \A i \in 1 .. Len(Append(acks, a)) : Append(acks, a)[i].ack <= n
<1>1. /\ Append(acks, a) \in Seq(Ack)
      /\ Len(Append(acks, a)) = Len(acks) + 1
      /\ \A i \in 1 .. Len(acks) : Append(acks, a)[i] = acks[i]
      /\ Append(acks, a)[Len(acks) + 1] = a
  BY AppendProperties
<1> QED BY <1>1

\* SendEmptyPacket keeps the socket good and moves nothing but what it sends.
LEMMA SendEmptyPacketGood ==
    ASSUME NEW r, Good(r), NEW ece \in BOOLEAN
    PROVE  /\ Good(SendEmptyPacket(r, ece))
           /\ SendEmptyPacket(r, ece).rcvNxt = r.rcvNxt
<1> DEFINE a == [ack |-> r.rcvNxt, ece |-> ece]
           q == SendEmptyPacket(r, ece)
<1>0. LastSeg \in Nat \ {0} /\ DelAckMax \in Nat \ {0}
  BY EchoConstants
<1>1. r \in Socket /\ r.rcvNxt \in Nat /\ r.acks \in Seq(Ack) /\ a \in Ack
  BY <1>0 DEF Good, Socket, Ack
<1>2. /\ Append(r.acks, a) \in Seq(Ack)
      /\ \A i \in 1 .. Len(Append(r.acks, a)) : Append(r.acks, a)[i].ack <= r.rcvNxt
  <2>1. a.ack <= r.rcvNxt
    BY <1>1
  <2> HIDE DEF a
  <2> QED BY <1>1, <2>1, AppendAck DEF Good
<1> HIDE DEF a
<1> DEFINE w == IF r.highTxAck < r.rcvNxt THEN r.rcvNxt ELSE r.highTxAck
<1>3. q = [r EXCEPT !.timer = FALSE, !.count = 0, !.highTxAck = w,
                    !.acks = Append(r.acks, a)]
  BY DEF SendEmptyPacket, a
<1>4. w \in 1 .. LastSeg + 1 /\ w <= r.rcvNxt /\ 0 \in 0 .. DelAckMax
  BY <1>0, <1>1 DEF Socket, Good
<1> HIDE DEF q, w
<1>5. q \in Socket
  BY <1>1, <1>2, <1>3, <1>4, Zenon DEF Socket
<1>6. /\ q.rcvNxt = r.rcvNxt /\ q.prior = r.prior /\ q.priorFlag = r.priorFlag
      /\ q.ooo = r.ooo /\ q.count = 0 /\ q.highTxAck = w
      /\ q.acks = Append(r.acks, a)
  BY <1>1, <1>3 DEF Socket
<1>7. Good(q)
  BY <1>0, <1>2, <1>4, <1>5, <1>6 DEF Good
<1> QED BY <1>6, <1>7 DEF q

\* The same for the ACK of the previous number.
LEMMA SendPriorGood ==
    ASSUME NEW r, Good(r), r.priorFlag, NEW ece \in BOOLEAN
    PROVE  /\ Good(SendPrior(r, ece))
           /\ SendPrior(r, ece).rcvNxt = r.rcvNxt
<1> DEFINE a == [ack |-> r.prior, ece |-> ece]
           w == IF r.highTxAck < r.prior THEN r.prior ELSE r.highTxAck
           b == [r EXCEPT !.rcvNxt = r.prior]
           q == SendPrior(r, ece)
<1>0. LastSeg \in Nat \ {0} /\ DelAckMax \in Nat \ {0}
  BY EchoConstants
<1>1. /\ r \in Socket /\ r.rcvNxt \in 1 .. LastSeg + 1 /\ r.prior \in 1 .. r.rcvNxt
      /\ r.acks \in Seq(Ack) /\ a \in Ack
  BY <1>0 DEF Good, Socket, Ack
<1>2. /\ Append(r.acks, a) \in Seq(Ack)
      /\ \A i \in 1 .. Len(Append(r.acks, a)) : Append(r.acks, a)[i].ack <= r.rcvNxt
  <2>1. a.ack <= r.rcvNxt /\ r.rcvNxt \in Nat
    BY <1>0, <1>1
  <2> HIDE DEF a
  <2> QED BY <1>1, <2>1, AppendAck DEF Good
<1>3. w \in 1 .. LastSeg + 1 /\ w <= r.rcvNxt /\ 0 \in 0 .. DelAckMax
  BY <1>0, <1>1 DEF Socket, Good
<1>4. r.prior \in 1 .. LastSeg + 1
  BY <1>0, <1>1
<1>5. b \in Socket /\ b.rcvNxt = r.prior /\ b.highTxAck = r.highTxAck /\ b.acks = r.acks
  BY <1>1, <1>4, Zenon DEF Socket
<1>6. q = [[b EXCEPT !.timer = FALSE, !.count = 0, !.highTxAck = w,
                     !.acks = Append(r.acks, a)] EXCEPT !.rcvNxt = r.rcvNxt]
  <2> HIDE DEF b
  <2>1. SendEmptyPacket(b, ece) = [b EXCEPT !.timer = FALSE, !.count = 0, !.highTxAck = w,
                                            !.acks = Append(r.acks, a)]
    BY <1>5 DEF SendEmptyPacket
  <2> QED BY <2>1 DEF SendPrior, b
<1> HIDE DEF a, w, q
<1>7. q \in Socket
  <2> HIDE DEF b
  <2>1. [b EXCEPT !.timer = FALSE, !.count = 0, !.highTxAck = w, !.acks = Append(r.acks, a)] \in Socket
    BY <1>2, <1>3, <1>5, Zenon DEF Socket
  <2> QED BY <1>1, <1>6, <2>1, Zenon DEF Socket
<1>8. /\ q.rcvNxt = r.rcvNxt /\ q.prior = r.prior /\ q.priorFlag = r.priorFlag
      /\ q.ooo = r.ooo /\ q.count = 0 /\ q.highTxAck = w
      /\ q.acks = Append(r.acks, a)
  BY <1>1, <1>6 DEF Socket
<1>9. Good(q)
  BY <1>0, <1>2, <1>3, <1>7, <1>8 DEF Good
<1> QED BY <1>8, <1>9 DEF q

\* Setting fields that Good does not relate to others.
LEMMA SetEcn ==
    ASSUME NEW r, Good(r), NEW e \in EcnStates
    PROVE  Good([r EXCEPT !.ecn = e]) /\ [r EXCEPT !.ecn = e].rcvNxt = r.rcvNxt
<1> DEFINE q == [r EXCEPT !.ecn = e]
<1>1. r \in Socket
  BY DEF Good
<1>2. q \in Socket
  BY <1>1, Zenon DEF Socket
<1>3. /\ q.rcvNxt = r.rcvNxt /\ q.prior = r.prior /\ q.priorFlag = r.priorFlag
      /\ q.ooo = r.ooo /\ q.count = r.count /\ q.highTxAck = r.highTxAck /\ q.acks = r.acks
  BY <1>1 DEF Socket
<1> HIDE DEF q
<1>4. Good(q)
  BY <1>2, <1>3 DEF Good
<1> QED BY <1>3, <1>4 DEF q

SetCe(r, c, e) == [NotePrior(r) EXCEPT !.ceState = c, !.ecn = e]

LEMMA SetCeState ==
    ASSUME NEW r, Good(r), NEW c \in BOOLEAN, NEW e \in EcnStates
    PROVE  Good(SetCe(r, c, e)) /\ SetCe(r, c, e).rcvNxt = r.rcvNxt
<1> DEFINE n == [r EXCEPT !.priorFlag = TRUE, !.prior = r.rcvNxt]
           q == [n EXCEPT !.ceState = c, !.ecn = e]
<1>0. LastSeg \in Nat /\ r \in Socket
  BY EchoConstants DEF Good
<1>1. r.rcvNxt \in 1 .. LastSeg + 1 /\ r.rcvNxt \in 0 .. LastSeg + 1
  BY <1>0 DEF Socket
<1>2. n \in Socket
  BY <1>0, <1>1, Zenon DEF Socket
<1>3. q \in Socket
  <2> HIDE DEF n
  <2> QED BY <1>2, Zenon DEF Socket
<1>4. /\ q.rcvNxt = r.rcvNxt /\ q.prior = r.rcvNxt /\ q.priorFlag = TRUE
      /\ q.ooo = r.ooo /\ q.count = r.count /\ q.highTxAck = r.highTxAck /\ q.acks = r.acks
  BY <1>0 DEF Socket
<1>5. q = SetCe(r, c, e)
  BY DEF NotePrior, SetCe
<1> HIDE DEF q
<1>6. Good(q)
  BY <1>0, <1>1, <1>3, <1>4 DEF Good
<1> QED BY <1>4, <1>5, <1>6

LEMMA SetDelayed ==
    ASSUME NEW r, Good(r), NEW d \in BOOLEAN, NEW t \in BOOLEAN,
           NEW c \in 0 .. DelAckMax, c < delAckMaxCount
    PROVE  LET q == UpdateAckReserved([r EXCEPT !.count = c, !.timer = t], d)
           IN  Good(q) /\ q.rcvNxt = r.rcvNxt
<1> DEFINE n == [r EXCEPT !.count = c, !.timer = t]
           q == [n EXCEPT !.reserved = d]
<1>0. r \in Socket
  BY DEF Good
<1>1. n \in Socket
  BY <1>0, Zenon DEF Socket
<1>2. q \in Socket
  <2> HIDE DEF n
  <2> QED BY <1>1, Zenon DEF Socket
<1>3. /\ q.rcvNxt = r.rcvNxt /\ q.prior = r.prior /\ q.priorFlag = r.priorFlag
      /\ q.ooo = r.ooo /\ q.count = c /\ q.highTxAck = r.highTxAck /\ q.acks = r.acks
  BY <1>0 DEF Socket
<1>4. q = UpdateAckReserved([r EXCEPT !.count = c, !.timer = t], d)
  BY DEF UpdateAckReserved
<1> HIDE DEF q
<1>5. Good(q)
  BY <1>2, <1>3 DEF Good
<1> QED BY <1>3, <1>4, <1>5

LEMMA SendAckGood ==
    ASSUME NEW r, Good(r)
    PROVE  Good(SendAck(r)) /\ SendAck(r).rcvNxt = r.rcvNxt
<1>1. CASE Echoing(r)
  <2>1. Good(SendEmptyPacket(r, TRUE)) /\ SendEmptyPacket(r, TRUE).rcvNxt = r.rcvNxt
    BY SendEmptyPacketGood
  <2>2. "SENDING_ECE" \in EcnStates
    BY DEF EcnStates
  <2> QED BY <1>1, <2>1, <2>2, SetEcn DEF SendAck
<1>2. CASE ~ Echoing(r)
  BY <1>2, SendEmptyPacketGood DEF SendAck
<1> QED BY <1>1, <1>2

\* The events of CwndEvent.
LEMMA EcnEventGood ==
    ASSUME NEW r, Good(r), NEW s \in Segs, NEW ce \in BOOLEAN
    PROVE  Good(EcnEvent(r, s, ce)) /\ EcnEvent(r, s, ce).rcvNxt = r.rcvNxt
<1>1. ASSUME NEW p, Good(p), NEW b \in BOOLEAN, NEW x \in BOOLEAN
      PROVE  LET q == IF b /\ p.reserved /\ p.priorFlag THEN SendPrior(p, x) ELSE p
             IN  Good(q) /\ q.rcvNxt = p.rcvNxt
  BY <1>1, SendPriorGood
<1>2. ASSUME NEW p, Good(p) PROVE Good(CeState0to1(p)) /\ CeState0to1(p).rcvNxt = p.rcvNxt
  <2> DEFINE q == IF ~ p.ceState /\ p.reserved /\ p.priorFlag THEN SendPrior(p, FALSE) ELSE p
  <2>1. Good(q) /\ q.rcvNxt = p.rcvNxt
    BY <1>1, <1>2
  <2>2. "CE_RCVD" \in EcnStates
    BY DEF EcnStates
  <2>3. CeState0to1(p) = SetCe(q, TRUE, "CE_RCVD")
    BY DEF CeState0to1, SetCe
  <2> HIDE DEF q
  <2>4. TRUE \in BOOLEAN
    OBVIOUS
  <2> QED BY <2>1, <2>2, <2>3, <2>4, SetCeState, Zenon
<1>3. ASSUME NEW p, Good(p) PROVE Good(CeState1to0(p)) /\ CeState1to0(p).rcvNxt = p.rcvNxt
  <2> DEFINE q == IF p.ceState /\ p.reserved /\ p.priorFlag THEN SendPrior(p, TRUE) ELSE p
             e == IF Echoing(q) THEN "IDLE" ELSE q.ecn
  <2>1. Good(q) /\ q.rcvNxt = p.rcvNxt
    <3>1. p \in Socket
      BY <1>3 DEF Good
    <3>2. p.ceState \in BOOLEAN
      BY <3>1 DEF Socket
    <3> QED BY <1>1, <1>3, <3>2
  <2> HIDE DEF q
  <2>2. q \in Socket
    BY <2>1 DEF Good
  <2>3. e \in EcnStates
    BY <2>2 DEF Socket, EcnStates
  <2>4. NotePrior(q).ecn = q.ecn
    BY <2>2 DEF NotePrior, Socket
  <2>5. CeState1to0(p) = SetCe(q, FALSE, e)
    BY <2>4 DEF CeState1to0, SetCe, q
  <2> HIDE DEF e
  <2>6. FALSE \in BOOLEAN
    OBVIOUS
  <2> QED BY <2>1, <2>3, <2>5, <2>6, SetCeState, Zenon
<1>4. CASE ce /\ r.ceSeq < s
  <2> DEFINE n == [r EXCEPT !.ceSeq = s, !.ecn = "CE_RCVD"]
  <2>0. r \in Socket /\ s \in 0 .. LastSeg /\ "CE_RCVD" \in EcnStates
    BY EchoConstants DEF Good, Segs, EcnStates
  <2>1. n \in Socket
    BY <2>0, Zenon DEF Socket
  <2>2. /\ n.rcvNxt = r.rcvNxt /\ n.prior = r.prior /\ n.priorFlag = r.priorFlag
        /\ n.ooo = r.ooo /\ n.count = r.count /\ n.highTxAck = r.highTxAck /\ n.acks = r.acks
    BY <2>0 DEF Socket
  <2>3. EcnEvent(r, s, ce) = CeState0to1(n)
    BY <1>4 DEF EcnEvent
  <2> HIDE DEF n
  <2>4. Good(n)
    BY <2>1, <2>2 DEF Good
  <2> QED BY <1>2, <2>2, <2>3, <2>4
<1>5. CASE ~ (ce /\ r.ceSeq < s)
  <2>1. EcnEvent(r, s, ce) = CeState1to0(r)
    BY <1>5 DEF EcnEvent
  <2> QED BY <1>3, <2>1
<1> QED BY <1>4, <1>5

LEMMA CwrFlagGood ==
    ASSUME NEW r, Good(r), NEW cwr \in BOOLEAN
    PROVE  Good(CwrFlag(r, cwr)) /\ CwrFlag(r, cwr).rcvNxt = r.rcvNxt
<1>1. "IDLE" \in EcnStates
  BY DEF EcnStates
<1> QED BY <1>1, SetEcn DEF CwrFlag

LEMMA SetReserved ==
    ASSUME NEW r, Good(r), NEW d \in BOOLEAN
    PROVE  Good(UpdateAckReserved(r, d)) /\ UpdateAckReserved(r, d).rcvNxt = r.rcvNxt
<1> DEFINE q == [r EXCEPT !.reserved = d]
<1>1. r \in Socket
  BY DEF Good
<1>2. q \in Socket
  BY <1>1, Zenon DEF Socket
<1>3. /\ q.rcvNxt = r.rcvNxt /\ q.prior = r.prior /\ q.priorFlag = r.priorFlag
      /\ q.ooo = r.ooo /\ q.count = r.count /\ q.highTxAck = r.highTxAck /\ q.acks = r.acks
  BY <1>1 DEF Socket
<1>4. q = UpdateAckReserved(r, d)
  BY DEF UpdateAckReserved
<1> HIDE DEF q
<1>5. Good(q)
  BY <1>2, <1>3 DEF Good
<1> QED BY <1>3, <1>4, <1>5

\* Storing a segment moves the next number forward and keeps the rest beyond it.
LEMMA StoreGood ==
    ASSUME NEW r, Good(r), NEW s \in Segs, ~ Stored(r, s)
    PROVE  /\ Good(Store(r, s))
           /\ Store(r, s).rcvNxt >= r.rcvNxt
           /\ s = r.rcvNxt => Store(r, s).rcvNxt > r.rcvNxt
<1> DEFINE held == r.ooo \cup {s}
           holes == {n \in r.rcvNxt .. LastSeg + 1 : n \notin held}
           next == Min(holes)
           rest == {k \in held : k > next}
           q == [r EXCEPT !.rcvNxt = next, !.ooo = rest]
<1>0. /\ LastSeg \in Nat \ {0} /\ r \in Socket /\ r.rcvNxt \in 1 .. LastSeg + 1
      /\ r.ooo \subseteq Segs
  BY EchoConstants DEF Good, Socket
<1>1. holes \subseteq Nat /\ LastSeg + 1 \in holes
  BY <1>0 DEF Segs
<1>2. next \in holes
  BY <1>1, MinNat
<1> HIDE DEF next
<1>3. next \in r.rcvNxt .. LastSeg + 1 /\ next \notin held /\ next \in 1 .. LastSeg + 1
  BY <1>0, <1>2
<1>4. rest \in SUBSET Segs
  BY <1>0
<1> HIDE DEF rest
<1>5. q \in Socket
  BY <1>0, <1>3, <1>4, Zenon DEF Socket
<1>6. /\ q.rcvNxt = next /\ q.prior = r.prior /\ q.priorFlag = r.priorFlag
      /\ q.ooo = rest /\ q.count = r.count /\ q.highTxAck = r.highTxAck /\ q.acks = r.acks
  BY <1>0 DEF Socket
<1>7. q = Store(r, s)
  BY DEF Store, next, rest
<1> HIDE DEF q
<1>8. q.prior <= q.rcvNxt /\ q.highTxAck <= q.rcvNxt
  BY <1>0, <1>3, <1>6 DEF Good, Socket
<1>9. \A i \in 1 .. Len(q.acks) : q.acks[i].ack <= q.rcvNxt
  <2> SUFFICES ASSUME NEW i \in 1 .. Len(r.acks)
               PROVE  r.acks[i].ack <= next
    BY <1>6
  <2>1. r.acks[i] \in Ack
    BY <1>0 DEF Socket
  <2>2. r.acks[i].ack \in Nat /\ r.acks[i].ack <= r.rcvNxt
    BY <2>1 DEF Good, Ack
  <2> QED BY <1>0, <1>3, <2>2
<1>10. Good(q)
  BY <1>5, <1>6, <1>8, <1>9 DEF Good, rest
<1>11. q.rcvNxt >= r.rcvNxt /\ (s = r.rcvNxt => q.rcvNxt > r.rcvNxt)
  BY <1>0, <1>3, <1>6
<1> QED BY <1>7, <1>10, <1>11

LEMMA ReceivedDataGood ==
    ASSUME NEW r, Good(r), NEW s \in Segs
    PROVE  Good(ReceivedData(r, s)) /\ ReceivedData(r, s).rcvNxt >= r.rcvNxt
<1> DEFINE q == Store(r, s)
<1>0. /\ DelAckMax \in Nat \ {0} /\ delAckMaxCount \in 1 .. DelAckMax
      /\ r \in Socket /\ r.rcvNxt \in Int
  BY EchoConstants DEF Good, Socket
<1>1. CASE Stored(r, s)
  BY <1>0, <1>1, SendAckGood DEF ReceivedData
<1>2. CASE ~ Stored(r, s)
  <2>1. Good(q) /\ q.rcvNxt >= r.rcvNxt
    BY <1>2, StoreGood
  <2>2. q.count \in 0 .. DelAckMax
    BY <2>1 DEF Good, Socket
  <2> HIDE DEF q
  <2>3. CASE q.ooo # {} \/ q.rcvNxt > r.rcvNxt + 1
    <3>1. ReceivedData(r, s) = SendAck(UpdateAckReserved(q, FALSE))
      BY <1>2, <2>3 DEF ReceivedData, q
    <3>2. Good(UpdateAckReserved(q, FALSE)) /\ UpdateAckReserved(q, FALSE).rcvNxt = q.rcvNxt
      BY <2>1, SetReserved
    <3> QED BY <2>1, <3>1, <3>2, SendAckGood
  <2>4. CASE ~ (q.ooo # {} \/ q.rcvNxt > r.rcvNxt + 1) /\ q.count + 1 >= delAckMaxCount
    <3> DEFINE p == UpdateAckReserved([q EXCEPT !.count = 0, !.timer = FALSE], FALSE)
    <3>1. ReceivedData(r, s) = SendAck(p)
      BY <1>2, <2>4 DEF ReceivedData, q
    <3>2. 0 \in 0 .. DelAckMax /\ 0 < delAckMaxCount /\ FALSE \in BOOLEAN
      BY <1>0
    <3>3. Good(p) /\ p.rcvNxt = q.rcvNxt
      BY <2>1, <3>2, SetDelayed, Zenon
    <3> HIDE DEF p
    <3> QED BY <2>1, <3>1, <3>3, SendAckGood
  <2>5. CASE ~ (q.ooo # {} \/ q.rcvNxt > r.rcvNxt + 1) /\ ~ (q.count + 1 >= delAckMaxCount)
    <3> DEFINE c == q.count + 1
               p == UpdateAckReserved([q EXCEPT !.count = c, !.timer = TRUE], TRUE)
    <3>1. ReceivedData(r, s) = p
      BY <1>2, <2>5 DEF ReceivedData, DelayAck, q
    <3>2. c \in 0 .. DelAckMax /\ c < delAckMaxCount
      BY <1>0, <2>2, <2>5
    <3> HIDE DEF c
    <3>3. Good(p) /\ p.rcvNxt = q.rcvNxt
      <4>1. TRUE \in BOOLEAN
        OBVIOUS
      <4> QED BY <2>1, <3>2, <4>1, SetDelayed, Zenon
    <3> HIDE DEF p
    <3> QED BY <2>1, <3>1, <3>3
  <2> QED BY <2>3, <2>4, <2>5
<1> QED BY <1>1, <1>2

LEMMA ForwardUpGood ==
    ASSUME NEW r, Good(r), NEW s \in Segs, NEW ce \in BOOLEAN, NEW cwr \in BOOLEAN
    PROVE  Good(ForwardUp(r, s, ce, cwr)) /\ ForwardUp(r, s, ce, cwr).rcvNxt >= r.rcvNxt
<1>0. r \in Socket /\ r.rcvNxt \in Int
  BY EchoConstants DEF Good, Socket
<1>1. CASE OutOfRange(r, s)
  <2>1. ForwardUp(r, s, ce, cwr) = SendEmptyPacket(r, FALSE)
    BY <1>1 DEF ForwardUp
  <2>2. /\ Good(SendEmptyPacket(r, FALSE))
        /\ SendEmptyPacket(r, FALSE).rcvNxt = r.rcvNxt
    BY SendEmptyPacketGood
  <2>3. /\ Good(ForwardUp(r, s, ce, cwr))
        /\ ForwardUp(r, s, ce, cwr).rcvNxt = r.rcvNxt
    BY <2>1, <2>2, Zenon
  <2> QED BY <1>0, <2>3
<1>2. CASE ~ OutOfRange(r, s)
  <2> DEFINE e == EcnEvent(r, s, ce)
             w == CwrFlag(e, cwr)
  <2>1. ForwardUp(r, s, ce, cwr) = ReceivedData(w, s)
    BY <1>2 DEF ForwardUp
  <2>2. Good(e) /\ e.rcvNxt = r.rcvNxt
    BY EcnEventGood
  <2> HIDE DEF e
  <2>3. Good(w) /\ w.rcvNxt = r.rcvNxt
    BY <2>2, CwrFlagGood
  <2> HIDE DEF w
  <2> QED BY <2>1, <2>3, ReceivedDataGood
<1> QED BY <1>1, <1>2

LEMMA IdleGood ==
    ASSUME NEW r, Good(r)
    PROVE  Good(Idle(r)) /\ Idle(r).rcvNxt = r.rcvNxt
<1> DEFINE q == [r EXCEPT !.acks = <<>>]
<1>1. r \in Socket /\ <<>> \in Seq(Ack) /\ Len(<<>>) = 0
  BY DEF Good
<1>2. q \in Socket
  BY <1>1, Zenon DEF Socket
<1>3. /\ q.rcvNxt = r.rcvNxt /\ q.prior = r.prior /\ q.priorFlag = r.priorFlag
      /\ q.ooo = r.ooo /\ q.count = r.count /\ q.highTxAck = r.highTxAck /\ q.acks = <<>>
  BY <1>1 DEF Socket
<1>4. q = Idle(r)
  BY DEF Idle
<1> HIDE DEF q
<1>5. Good(q)
  BY <1>1, <1>2, <1>3 DEF Good
<1> QED BY <1>3, <1>4, <1>5

\* What is good stays good as long as the socket is configured as before.
LEMMA GoodAgain ==
    ASSUME Good(sock'), UNCHANGED delAckMaxCount
    PROVE  Good(sock)'
BY DEF Good

(***************************************************************************)
(* Safety for every configuration                                          *)
(***************************************************************************)
\* A handler keeps the socket good and the next number from going back.
LEMMA ArriveStep ==
    ASSUME Good(sock), NEW s \in Segs, NEW ce \in BOOLEAN, NEW cwr \in BOOLEAN,
           Arrive(s, ce, cwr)
    PROVE  Good(sock') /\ sock'.rcvNxt >= sock.rcvNxt
<1> DEFINE i == Idle(sock)
<1>1. sock' = ForwardUp(i, s, ce, cwr)
  BY DEF Arrive
<1>2. Good(i) /\ i.rcvNxt = sock.rcvNxt
  BY IdleGood
<1> HIDE DEF i
<1>3. Good(ForwardUp(i, s, ce, cwr)) /\ ForwardUp(i, s, ce, cwr).rcvNxt >= i.rcvNxt
  BY <1>2, ForwardUpGood
<1> QED BY <1>1, <1>2, <1>3

LEMMA TimeoutStep ==
    ASSUME Good(sock), DelAckTimeout
    PROVE  Good(sock') /\ sock'.rcvNxt >= sock.rcvNxt
<1> DEFINE i == Idle(sock)
           d == UpdateAckReserved([i EXCEPT !.count = 0, !.timer = FALSE], TRUE)
<1>1. sock' = SendAck(d)
  BY DEF DelAckTimeout
<1>2. Good(i) /\ i.rcvNxt = sock.rcvNxt
  BY IdleGood
<1> HIDE DEF i
<1>3. 0 \in 0 .. DelAckMax /\ 0 < delAckMaxCount
  BY EchoConstants DEF Good
<1>4. Good(d) /\ d.rcvNxt = i.rcvNxt
  <2>1. TRUE \in BOOLEAN /\ FALSE \in BOOLEAN
    OBVIOUS
  <2> QED BY <1>2, <1>3, <2>1, SetDelayed, Zenon
<1> HIDE DEF d
<1>5. Good(SendAck(d)) /\ SendAck(d).rcvNxt = d.rcvNxt
  BY <1>4, SendAckGood
<1>6. sock \in Socket
  BY DEF Good
<1>7. sock.rcvNxt \in Int
  BY <1>6, EchoConstants DEF Socket
<1> QED BY <1>1, <1>2, <1>4, <1>5, <1>7

\* The initial socket is good.
LEMMA InitGood == Init => Good(sock)
<1> SUFFICES ASSUME Init PROVE Good(sock)
  OBVIOUS
<1>00. PICK seen \in BOOLEAN, count \in {0, delAckMaxCount} :
         sock = [rcvNxt |-> 1, ooo |-> {}, ecn |-> "IDLE", ceSeq |-> 0,
                 ceState |-> FALSE, prior |-> IF seen THEN 1 ELSE 0,
                 priorFlag |-> seen, reserved |-> FALSE, count |-> count,
                 timer |-> FALSE, highTxAck |-> 1, acks |-> <<>>]
  BY DEF Init
<1> DEFINE p == IF seen THEN 1 ELSE 0
<1>0. /\ LastSeg \in Nat \ {0} /\ DelAckMax \in Nat \ {0}
      /\ delAckMaxCount \in 1 .. DelAckMax
  BY EchoConstants DEF Init
<1>1. /\ 1 \in 1 .. LastSeg + 1 /\ {} \in SUBSET Segs /\ "IDLE" \in EcnStates
      /\ 0 \in 0 .. LastSeg /\ p \in 0 .. LastSeg + 1 /\ count \in 0 .. DelAckMax
      /\ <<>> \in Seq(Ack)
  BY <1>0 DEF EcnStates
<1>2. /\ p <= 1
      /\ seen => 1 <= p
      /\ count <= delAckMaxCount
  BY <1>0
<1> HIDE DEF p
<1>3. PICK no \in BOOLEAN : no = FALSE
  OBVIOUS
<1>4. /\ sock \in Socket
      /\ sock.rcvNxt = 1 /\ sock.ooo = {} /\ sock.prior = p /\ sock.priorFlag = seen
      /\ sock.count = count /\ sock.highTxAck = 1 /\ sock.acks = <<>>
  <2>1. sock = [rcvNxt |-> 1, ooo |-> {}, ecn |-> "IDLE", ceSeq |-> 0, ceState |-> no,
                prior |-> p, priorFlag |-> seen, reserved |-> no, count |-> count,
                timer |-> no, highTxAck |-> 1, acks |-> <<>>]
    BY <1>00, <1>3 DEF p
  <2>2. sock \in Socket
    BY <1>1, <2>1 DEF Socket
  <2> QED BY <2>1, <2>2
<1>5. Len(sock.acks) = 0
  BY <1>4
<1> QED BY <1>0, <1>2, <1>4, <1>5 DEF Good

\* The socket stays good under every arrival pattern.
THEOREM SocketStaysGood == Spec => []Good(sock)
<1>1. Init => Good(sock)
  BY InitGood
<1>2. Good(sock) /\ [Next]_vars => Good(sock)'
  <2> SUFFICES ASSUME Good(sock), [Next]_vars PROVE Good(sock)'
    OBVIOUS
  <2>1. ASSUME NEW s \in Segs, NEW ce \in BOOLEAN, NEW cwr \in BOOLEAN, Arrive(s, ce, cwr)
        PROVE  Good(sock)'
    <3>1. Good(sock')
      BY <2>1, ArriveStep
    <3>2. UNCHANGED delAckMaxCount
      BY <2>1 DEF Arrive
    <3> QED BY <3>1, <3>2, GoodAgain
  <2>2. CASE DelAckTimeout
    <3>1. Good(sock')
      BY <2>2, TimeoutStep
    <3>2. UNCHANGED delAckMaxCount
      BY <2>2 DEF DelAckTimeout
    <3> QED BY <3>1, <3>2, GoodAgain
  <2>3. CASE UNCHANGED vars
    BY <2>3, GoodAgain DEF vars
  <2> QED BY <2>1, <2>2, <2>3 DEF Next
<1> QED BY <1>1, <1>2, PTL DEF Spec

\* what the properties remember of the arrivals keeps its type as well
HistoryTypes ==
    /\ mark \in [Segs -> BOOLEAN]
    /\ echo \in [Segs -> {"none", "plain", "ece"}]
    /\ owed \in BOOLEAN
    /\ recent \in BOOLEAN \X BOOLEAN
    /\ inOrder \in BOOLEAN

\* Every field of the socket keeps its range under every arrival pattern, and
\* m_delAckCount never exceeds the number at which an ACK is sent.
THEOREM TypeCorrect == Spec => []TypeOK
<1>1. Init => HistoryTypes
  <2> SUFFICES ASSUME Init PROVE HistoryTypes
    OBVIOUS
  <2>1. mark = [s \in Segs |-> FALSE] /\ echo = [s \in Segs |-> "none"]
    BY DEF Init
  <2>2. owed = FALSE /\ recent = <<FALSE, FALSE>> /\ inOrder = TRUE
    BY DEF Init
  <2> QED BY <2>1, <2>2 DEF HistoryTypes
<1>2. HistoryTypes /\ [Next]_vars => HistoryTypes'
  <2> SUFFICES ASSUME HistoryTypes, [Next]_vars PROVE HistoryTypes'
    OBVIOUS
  <2>1. ASSUME NEW acks PROVE Echoes(acks) \in [Segs -> {"none", "plain", "ece"}]
    BY DEF Echoes, FirstEcho, HistoryTypes
  <2>2. ASSUME NEW s \in Segs, NEW ce \in BOOLEAN, NEW cwr \in BOOLEAN, Arrive(s, ce, cwr)
        PROVE  HistoryTypes'
    BY <2>1, <2>2 DEF Arrive, HistoryTypes
  <2>3. CASE DelAckTimeout
    BY <2>1, <2>3 DEF DelAckTimeout, HistoryTypes
  <2>4. CASE UNCHANGED vars
    BY <2>4 DEF vars, HistoryTypes
  <2> QED BY <2>2, <2>3, <2>4 DEF Next
<1>3. Good(sock) /\ HistoryTypes => TypeOK
  BY DEF Good, HistoryTypes, TypeOK
<1> QED BY <1>1, <1>2, <1>3, SocketStaysGood, PTL DEF Spec

\* No ACK, not even one sent with the receive buffer set back, claims a segment
\* that was not received, whatever the loss, the reordering and DelAckCount.
THEOREM AcksAreHonest == Spec => []AckHonest
<1>1. Good(sock) => AckHonest
  BY EchoConstants DEF Good, AckHonest, Socket
<1> QED BY <1>1, SocketStaysGood, PTL

\* Every handler that sets the receive buffer back sets it forward again.
THEOREM NeverBack == Spec => NextNeverBack
<1>1. Good(sock) /\ [Next]_vars => [sock'.rcvNxt >= sock.rcvNxt]_vars
  BY ArriveStep, TimeoutStep DEF Next
<1> QED BY <1>1, SocketStaysGood, PTL DEF Spec, NextNeverBack

(***************************************************************************)
(* The echo stops by itself, for every configuration                       *)
(***************************************************************************)
\* an ACK of the handler carried ECE
Tells(r) == \E i \in 1 .. Len(r.acks) : r.acks[i].ece

\* From r to q nothing that decides about ECE has changed.
SameEcho(q, r) == q.ecn = r.ecn /\ q.ceState = r.ceState /\ q.acks = r.acks

\* Appending an ACK tells what it says itself.
LEMMA AppendTells ==
    ASSUME NEW acks \in Seq(Ack), NEW a \in Ack,
           \E i \in 1 .. Len(Append(acks, a)) : Append(acks, a)[i].ece
    PROVE  (\E i \in 1 .. Len(acks) : acks[i].ece) \/ a.ece
<1>1. /\ Len(Append(acks, a)) = Len(acks) + 1
      /\ \A i \in 1 .. Len(acks) : Append(acks, a)[i] = acks[i]
      /\ Append(acks, a)[Len(acks) + 1] = a
  BY AppendProperties
<1> QED BY <1>1

\* SendEmptyPacket and SendPrior send ECE if they are told to.
LEMMA EmptyTells ==
    ASSUME NEW r, Good(r), NEW ece \in BOOLEAN
    PROVE  LET q == SendEmptyPacket(r, ece)
           IN  /\ q.ecn = r.ecn /\ q.ceState = r.ceState
               /\ Tells(q) => Tells(r) \/ ece
<1> DEFINE a == [ack |-> r.rcvNxt, ece |-> ece]
           q == SendEmptyPacket(r, ece)
<1>1. r \in Socket /\ r.acks \in Seq(Ack) /\ a \in Ack
  BY EchoConstants DEF Good, Socket, Ack
<1>2. q.ecn = r.ecn /\ q.ceState = r.ceState /\ q.acks = Append(r.acks, a)
  BY <1>1 DEF SendEmptyPacket, Socket
<1>3. a.ece = ece
  OBVIOUS
<1> HIDE DEF a, q
<1>4. Tells(q) => Tells(r) \/ ece
  BY <1>1, <1>2, <1>3, AppendTells DEF Tells
<1> QED BY <1>2, <1>4 DEF q

LEMMA PriorTells ==
    ASSUME NEW r, Good(r), r.priorFlag, NEW ece \in BOOLEAN
    PROVE  LET q == SendPrior(r, ece)
           IN  /\ q.ecn = r.ecn /\ q.ceState = r.ceState
               /\ Tells(q) => Tells(r) \/ ece
<1> DEFINE a == [ack |-> r.prior, ece |-> ece]
           b == [r EXCEPT !.rcvNxt = r.prior]
           q == SendPrior(r, ece)
<1>1. r \in Socket /\ r.acks \in Seq(Ack) /\ a \in Ack
  BY EchoConstants DEF Good, Socket, Ack
<1>2. b.rcvNxt = r.prior /\ b.acks = r.acks /\ b.ecn = r.ecn /\ b.ceState = r.ceState
  BY <1>1 DEF Socket
<1>3. q.ecn = r.ecn /\ q.ceState = r.ceState /\ q.acks = Append(r.acks, a)
  BY <1>1, <1>2 DEF SendPrior, SendEmptyPacket, Socket
<1>4. a.ece = ece
  OBVIOUS
<1> HIDE DEF a, q
<1>5. Tells(q) => Tells(r) \/ ece
  BY <1>1, <1>3, <1>4, AppendTells DEF Tells
<1> QED BY <1>3, <1>5 DEF q

\* The ACK of data and of the timer carries ECE only in the states that echo.
LEMMA SendAckTells ==
    ASSUME NEW r, Good(r)
    PROVE  LET q == SendAck(r)
           IN  /\ q.ceState = r.ceState
               /\ Echoing(q) => Echoing(r)
               /\ Tells(q) => Tells(r) \/ Echoing(r)
<1>1. CASE Echoing(r)
  <2> DEFINE p == SendEmptyPacket(r, TRUE)
             q == [p EXCEPT !.ecn = "SENDING_ECE"]
  <2>1. p.ceState = r.ceState /\ p \in Socket
    BY EmptyTells, SendEmptyPacketGood DEF Good
  <2>2. q.ceState = p.ceState
    <3> HIDE DEF p
    <3> QED BY <2>1 DEF Socket
  <2>3. SendAck(r) = q
    BY <1>1 DEF SendAck
  <2> HIDE DEF q, p
  <2> QED BY <1>1, <2>1, <2>2, <2>3
<1>2. CASE ~ Echoing(r)
  <2> DEFINE p == SendEmptyPacket(r, FALSE)
  <2>1. SendAck(r) = p
    BY <1>2 DEF SendAck
  <2>2. p.ecn = r.ecn /\ p.ceState = r.ceState /\ (Tells(p) => Tells(r) \/ FALSE)
    BY EmptyTells, Zenon
  <2> HIDE DEF p
  <2> QED BY <1>2, <2>1, <2>2 DEF Echoing
<1> QED BY <1>1, <1>2

\* The end of a run of marks is told for the segment before, the start for none;
\* afterwards the socket echoes only if the segment at hand is marked.
LEMMA EcnEventTells ==
    ASSUME NEW r, Good(r), NEW s \in Segs, NEW ce \in BOOLEAN
    PROVE  LET q == EcnEvent(r, s, ce)
           IN  /\ q.ceState => ce
               /\ Echoing(q) => ce
               /\ Tells(q) => Tells(r) \/ r.ceState
               /\ Echoing(q) => q.ceState
<1>0. r \in Socket /\ s \in 0 .. LastSeg /\ "CE_RCVD" \in EcnStates
  BY EchoConstants DEF Good, Segs, EcnStates
<1>1. ASSUME NEW p \in Socket, NEW c \in BOOLEAN, NEW e \in EcnStates
      PROVE  /\ SetCe(p, c, e).ecn = e /\ SetCe(p, c, e).ceState = c
             /\ SetCe(p, c, e).acks = p.acks
  BY <1>1 DEF SetCe, NotePrior, Socket
<1>2. CASE ce /\ r.ceSeq < s
  <2> DEFINE n == [r EXCEPT !.ceSeq = s, !.ecn = "CE_RCVD"]
             p == IF ~ n.ceState /\ n.reserved /\ n.priorFlag THEN SendPrior(n, FALSE) ELSE n
             q == SetCe(p, TRUE, "CE_RCVD")
  <2>1. n \in Socket
    BY <1>0, Zenon DEF Socket
  <2>2. /\ n.rcvNxt = r.rcvNxt /\ n.prior = r.prior /\ n.priorFlag = r.priorFlag
        /\ n.ooo = r.ooo /\ n.count = r.count /\ n.highTxAck = r.highTxAck /\ n.acks = r.acks
    BY <1>0 DEF Socket
  <2>3. EcnEvent(r, s, ce) = CeState0to1(n)
    BY <1>2 DEF EcnEvent
  <2> HIDE DEF n
  <2>4. Good(n) /\ (Tells(n) => Tells(r))
    BY <2>1, <2>2 DEF Good, Tells
  <2>5. p \in Socket /\ (Tells(p) => Tells(n))
    <3>1. CASE ~ n.ceState /\ n.reserved /\ n.priorFlag
      <4>1. p = SendPrior(n, FALSE)
        BY <3>1
      <4>2. Good(SendPrior(n, FALSE)) /\ (Tells(SendPrior(n, FALSE)) => Tells(n) \/ FALSE)
        BY <2>4, <3>1, SendPriorGood, PriorTells, Zenon
      <4> HIDE DEF p
      <4> QED BY <4>1, <4>2 DEF Good
    <3>2. CASE ~ (~ n.ceState /\ n.reserved /\ n.priorFlag)
      BY <2>1, <3>2
    <3> QED BY <3>1, <3>2
  <2>6. EcnEvent(r, s, ce) = q
    BY <2>3 DEF CeState0to1, SetCe
  <2> HIDE DEF p
  <2>7. q.ecn = "CE_RCVD" /\ q.ceState = TRUE /\ q.acks = p.acks
    BY <1>0, <1>1, <2>5
  <2> HIDE DEF q
  <2>8. Tells(q) => Tells(r)
    BY <2>4, <2>5, <2>7 DEF Tells
  <2> QED BY <1>2, <2>6, <2>7, <2>8
<1>3. CASE ~ (ce /\ r.ceSeq < s)
  <2> DEFINE p == IF r.ceState /\ r.reserved /\ r.priorFlag THEN SendPrior(r, TRUE) ELSE r
             e == IF Echoing(p) THEN "IDLE" ELSE p.ecn
             q == SetCe(p, FALSE, e)
  <2>1. p \in Socket /\ (Tells(p) => Tells(r) \/ r.ceState)
    <3>1. CASE r.ceState /\ r.reserved /\ r.priorFlag
      BY <3>1, SendPriorGood DEF Good
    <3>2. CASE ~ (r.ceState /\ r.reserved /\ r.priorFlag)
      BY <1>0, <3>2
    <3> QED BY <3>1, <3>2
  <2> HIDE DEF p
  <2>2. e = "IDLE" /\ e \in EcnStates
    BY <2>1 DEF Echoing, Socket, EcnStates
  <2>3. EcnEvent(r, s, ce) = q
    <3>1. EcnEvent(r, s, ce) = CeState1to0(r)
      BY <1>3 DEF EcnEvent
    <3>2. NotePrior(p).ecn = p.ecn
      BY <2>1 DEF NotePrior, Socket
    <3> QED BY <3>1, <3>2 DEF CeState1to0, SetCe, p
  <2> HIDE DEF e
  <2>4. q.ecn = e /\ q.ceState = FALSE /\ q.acks = p.acks
    BY <1>1, <2>1, <2>2
  <2> HIDE DEF q
  <2>5. ~ Echoing(q)
    BY <2>2, <2>4 DEF Echoing
  <2>6. Tells(q) => Tells(r) \/ r.ceState
    BY <2>1, <2>4 DEF Tells
  <2> QED BY <2>3, <2>4, <2>5, <2>6
<1> QED BY <1>2, <1>3

LEMMA ReceivedDataTells ==
    ASSUME NEW r, Good(r), NEW s \in Segs
    PROVE  LET q == ReceivedData(r, s)
           IN  /\ q.ceState = r.ceState
               /\ Echoing(q) => Echoing(r)
               /\ Tells(q) => Tells(r) \/ Echoing(r)
<1> DEFINE t == Store(r, s)
<1>0. DelAckMax \in Nat \ {0} /\ delAckMaxCount \in 1 .. DelAckMax /\ r \in Socket
  BY EchoConstants DEF Good
<1>1. ASSUME NEW q, Good(q), SameEcho(q, r)
      PROVE  /\ SendAck(q).ceState = r.ceState
             /\ Echoing(SendAck(q)) => Echoing(r)
             /\ Tells(SendAck(q)) => Tells(r) \/ Echoing(r)
  <2>1. /\ SendAck(q).ceState = q.ceState
        /\ Echoing(SendAck(q)) => Echoing(q)
        /\ Tells(SendAck(q)) => Tells(q) \/ Echoing(q)
    BY <1>1, SendAckTells
  <2>2. /\ q.ceState = r.ceState
        /\ Echoing(q) <=> Echoing(r)
        /\ Tells(q) <=> Tells(r)
    BY <1>1 DEF SameEcho, Echoing, Tells
  <2> QED BY <2>1, <2>2
<1>2. CASE Stored(r, s)
  BY <1>1, <1>2 DEF ReceivedData, SameEcho
<1>3. CASE ~ Stored(r, s)
  <2>1. Good(t) /\ SameEcho(t, r)
    <3>1. Good(t)
      BY <1>3, StoreGood
    <3>2. SameEcho(t, r)
      BY <1>0 DEF Store, SameEcho, Socket
    <3> QED BY <3>1, <3>2
  <2> HIDE DEF t
  <2>2. t \in Socket /\ t.count \in 0 .. DelAckMax
    BY <2>1 DEF Good, Socket
  <2>3. CASE t.ooo # {} \/ t.rcvNxt > r.rcvNxt + 1
    <3> DEFINE p == UpdateAckReserved(t, FALSE)
    <3>1. ReceivedData(r, s) = SendAck(p)
      BY <1>3, <2>3 DEF ReceivedData, t
    <3>2. Good(p)
      BY <2>1, SetReserved
    <3>3. SameEcho(p, r)
      BY <2>1, <2>2 DEF SameEcho, UpdateAckReserved, Socket
    <3> HIDE DEF p
    <3> QED BY <1>1, <3>1, <3>2, <3>3
  <2>4. CASE ~ (t.ooo # {} \/ t.rcvNxt > r.rcvNxt + 1) /\ t.count + 1 >= delAckMaxCount
    <3> DEFINE p == UpdateAckReserved([t EXCEPT !.count = 0, !.timer = FALSE], FALSE)
    <3>1. ReceivedData(r, s) = SendAck(p)
      BY <1>3, <2>4 DEF ReceivedData, t
    <3>2. 0 \in 0 .. DelAckMax /\ 0 < delAckMaxCount /\ FALSE \in BOOLEAN
      BY <1>0
    <3>3. Good(p)
      BY <2>1, <3>2, SetDelayed, Zenon
    <3>4. SameEcho(p, r)
      BY <2>1, <2>2 DEF SameEcho, UpdateAckReserved, Socket
    <3> HIDE DEF p
    <3> QED BY <1>1, <3>1, <3>3, <3>4
  <2>5. CASE ~ (t.ooo # {} \/ t.rcvNxt > r.rcvNxt + 1) /\ ~ (t.count + 1 >= delAckMaxCount)
    <3> DEFINE p == UpdateAckReserved([t EXCEPT !.count = @ + 1, !.timer = TRUE], TRUE)
    <3>1. ReceivedData(r, s) = p
      BY <1>3, <2>5 DEF ReceivedData, DelayAck, t
    <3>2. SameEcho(p, r)
      BY <2>1, <2>2 DEF SameEcho, UpdateAckReserved, Socket
    <3> HIDE DEF p
    <3> QED BY <3>1, <3>2 DEF SameEcho, Echoing, Tells
  <2> QED BY <2>3, <2>4, <2>5
<1> QED BY <1>2, <1>3

\* A segment let through: ECE only if it, or what the CE state stands for, the
\* segment before it, was marked.
LEMMA ForwardUpTells ==
    ASSUME NEW r, Good(r), ~ Tells(r), NEW s \in Segs, NEW ce \in BOOLEAN, NEW cwr \in BOOLEAN,
           ~ OutOfRange(r, s)
    PROVE  LET q == ForwardUp(r, s, ce, cwr)
           IN  /\ q.ceState => ce
               /\ Echoing(q) => q.ceState
               /\ Tells(q) => r.ceState \/ ce
<1> DEFINE e == EcnEvent(r, s, ce)
           w == CwrFlag(e, cwr)
<1>1. ForwardUp(r, s, ce, cwr) = ReceivedData(w, s)
  BY DEF ForwardUp
<1>2. Good(e)
  BY EcnEventGood
<1>3. /\ e.ceState => ce
      /\ Echoing(e) => ce
      /\ Tells(e) => r.ceState
      /\ Echoing(e) => e.ceState
  BY EcnEventTells
<1> HIDE DEF e
<1>4. Good(w)
  BY <1>2, CwrFlagGood
<1>5. /\ w.ceState = e.ceState
      /\ Echoing(w) => Echoing(e)
      /\ Tells(w) => Tells(e)
  <2>1. e \in Socket
    BY <1>2 DEF Good
  <2>2. CASE cwr /\ e.ecn # "CE_RCVD"
    BY <2>1, <2>2 DEF CwrFlag, Echoing, Tells, Socket
  <2>3. CASE ~ (cwr /\ e.ecn # "CE_RCVD")
    BY <2>3 DEF CwrFlag
  <2> QED BY <2>2, <2>3
<1> HIDE DEF w
<1>6. /\ ReceivedData(w, s).ceState = w.ceState
      /\ Echoing(ReceivedData(w, s)) => Echoing(w)
      /\ Tells(ReceivedData(w, s)) => Tells(w) \/ Echoing(w)
  BY <1>4, ReceivedDataTells
<1> QED BY <1>1, <1>3, <1>5, <1>6

\* The CE state stands for the mark of the last segment let through, and only
\* with it set does the socket echo.
EchoInv ==
    /\ Good(sock)
    /\ recent \in BOOLEAN \X BOOLEAN
    /\ Echoing(sock) => sock.ceState
    /\ sock.ceState => recent[2]
    /\ EceOnlyOnCe

LEMMA IdleTells ==
    ASSUME NEW r, Good(r)
    PROVE  /\ ~ Tells(Idle(r)) /\ Idle(r).ecn = r.ecn /\ Idle(r).ceState = r.ceState
           /\ \A s : OutOfRange(Idle(r), s) <=> OutOfRange(r, s)
<1>1. r \in Socket /\ Len(<<>>) = 0
  BY DEF Good
<1>2. /\ Idle(r).acks = <<>> /\ Idle(r).ecn = r.ecn /\ Idle(r).ceState = r.ceState
      /\ Idle(r).rcvNxt = r.rcvNxt
  BY <1>1 DEF Idle, Socket
<1> QED BY <1>1, <1>2 DEF Tells, OutOfRange

LEMMA EchoArrive ==
    ASSUME EchoInv, NEW s \in Segs, NEW ce \in BOOLEAN, NEW cwr \in BOOLEAN, Arrive(s, ce, cwr)
    PROVE  EchoInv'
<1> DEFINE i == Idle(sock)
<1>1. PICK q : q = sock'
  OBVIOUS
<1>2. /\ q = ForwardUp(i, s, ce, cwr)
      /\ recent' = IF OutOfRange(sock, s) THEN recent ELSE <<recent[2], ce>>
  BY <1>1 DEF Arrive
<1>3. Good(i) /\ ~ Tells(i) /\ i.ecn = sock.ecn /\ i.ceState = sock.ceState
      /\ (OutOfRange(i, s) <=> OutOfRange(sock, s))
  BY IdleGood, IdleTells DEF EchoInv
<1> HIDE DEF i
<1>4. Good(q)
  BY <1>2, <1>3, ForwardUpGood
<1>8. Good(sock)'
  <2>1. UNCHANGED delAckMaxCount
    BY DEF Arrive
  <2> QED BY <1>1, <1>4, <2>1, GoodAgain
<1>5. /\ Echoing(i) <=> Echoing(sock)
      /\ Echoing(i) => i.ceState
  BY <1>3 DEF EchoInv, Echoing
<1>6. CASE OutOfRange(sock, s)
  <2>1. q = SendEmptyPacket(i, FALSE)
    BY <1>2, <1>3, <1>6 DEF ForwardUp
  <2>2. q.ecn = i.ecn /\ q.ceState = i.ceState /\ (Tells(q) => Tells(i) \/ FALSE)
    BY <1>3, <2>1, EmptyTells, Zenon
  <2>3. recent' = recent
    BY <1>2, <1>6
  <2>4. ~ Tells(q)
    BY <1>3, <2>2
  <2> QED BY <1>1, <1>3, <1>5, <1>8, <2>2, <2>3, <2>4 DEF EchoInv, Echoing, EceOnlyOnCe, Tells
<1>7. CASE ~ OutOfRange(sock, s)
  <2>1. /\ q.ceState => ce
        /\ Echoing(q) => q.ceState
        /\ Tells(q) => i.ceState \/ ce
    BY <1>2, <1>3, <1>7, ForwardUpTells
  <2>2. recent' = <<recent[2], ce>>
    BY <1>2, <1>7
  <2>3. recent' \in BOOLEAN \X BOOLEAN /\ recent'[1] = recent[2] /\ recent'[2] = ce
    BY <2>2 DEF EchoInv
  <2>4. Tells(q) => recent'[1] \/ recent'[2]
    BY <1>3, <2>1, <2>3 DEF EchoInv
  <2> QED BY <1>1, <1>8, <2>1, <2>3, <2>4 DEF EchoInv, EceOnlyOnCe, Tells
<1> QED BY <1>6, <1>7

LEMMA EchoTimeout ==
    ASSUME EchoInv, DelAckTimeout
    PROVE  EchoInv'
<1> DEFINE i == Idle(sock)
           d == UpdateAckReserved([i EXCEPT !.count = 0, !.timer = FALSE], TRUE)
<1>1. PICK q : q = sock'
  OBVIOUS
<1>2. q = SendAck(d) /\ recent' = recent
  BY <1>1 DEF DelAckTimeout
<1>3. Good(i) /\ ~ Tells(i) /\ i.ecn = sock.ecn /\ i.ceState = sock.ceState
  BY IdleGood, IdleTells DEF EchoInv
<1> HIDE DEF i
<1>4. Good(d)
  <2>1. 0 \in 0 .. DelAckMax /\ 0 < delAckMaxCount /\ TRUE \in BOOLEAN /\ FALSE \in BOOLEAN
    BY EchoConstants DEF EchoInv, Good
  <2> QED BY <1>3, <2>1, SetDelayed, Zenon
<1>5. SameEcho(d, i)
  <2>1. i \in Socket
    BY <1>3 DEF Good
  <2> QED BY <2>1 DEF SameEcho, UpdateAckReserved, Socket
<1> HIDE DEF d
<1>6. /\ q.ceState = d.ceState
      /\ Echoing(q) => Echoing(d)
      /\ Tells(q) => Tells(d) \/ Echoing(d)
  BY <1>2, <1>4, SendAckTells
<1>7. Good(sock)'
  <2>1. Good(q)
    BY <1>2, <1>4, SendAckGood
  <2>2. UNCHANGED delAckMaxCount
    BY DEF DelAckTimeout
  <2> QED BY <1>1, <2>1, <2>2, GoodAgain
<1>8. /\ Echoing(d) => Echoing(sock)
      /\ d.ceState = sock.ceState
      /\ ~ Tells(d)
  BY <1>3, <1>5 DEF SameEcho, Echoing, Tells
<1> QED BY <1>1, <1>2, <1>6, <1>7, <1>8 DEF EchoInv, EceOnlyOnCe, Tells

\* No ACK carries ECE unless the segment at hand or the one before it was marked,
\* for every DelAckCount and however segments are lost, reordered or repeated:
\* CeState1to0 ends the echo without a CWR from the sender.
THEOREM EchoStopsByItself == Spec => []EceOnlyOnCe
<1>1. Init => EchoInv
  <2> SUFFICES ASSUME Init PROVE EchoInv
    OBVIOUS
  <2>1. sock.ecn = "IDLE" /\ sock.ceState = FALSE /\ sock.acks = <<>>
    BY DEF Init
  <2>2. Len(sock.acks) = 0 /\ recent = <<FALSE, FALSE>>
    BY <2>1 DEF Init
  <2>3. EceOnlyOnCe
    BY <2>2 DEF EceOnlyOnCe
  <2>4. ~ Echoing(sock) /\ ~ sock.ceState /\ recent \in BOOLEAN \X BOOLEAN
    BY <2>1, <2>2 DEF Echoing
  <2>5. Good(sock)
    BY InitGood
  <2> QED BY <2>3, <2>4, <2>5, Zenon DEF EchoInv
<1>2. EchoInv /\ [Next]_vars => EchoInv'
  <2> SUFFICES ASSUME EchoInv, [Next]_vars PROVE EchoInv'
    OBVIOUS
  <2>1. CASE UNCHANGED vars
    <3>1. Good(sock)'
      BY <2>1, GoodAgain DEF vars, EchoInv
    <3> QED BY <2>1, <3>1 DEF vars, EchoInv, EceOnlyOnCe, Echoing
  <2> QED BY <2>1, EchoArrive, EchoTimeout DEF Next
<1>3. EchoInv => EceOnlyOnCe
  BY DEF EchoInv
<1> QED BY <1>1, <1>2, <1>3, PTL DEF Spec

(***************************************************************************)
(* The echo is exact when every segment is acknowledged by itself          *)
(***************************************************************************)
\* what every step leaves behind when DelAckCount is 1 and nothing is reordered
Quiet(r) ==
    /\ r \in Socket
    /\ ~ r.reserved
    /\ r.ooo = {}
    /\ r.ceSeq < r.rcvNxt
    /\ r.highTxAck = r.rcvNxt
    /\ ~ r.timer

\* Without a reserved ACK the CE events send nothing, and afterwards the socket
\* echoes exactly if the segment is marked beyond the last mark.
LEMMA QuietEvent ==
    ASSUME NEW r, Quiet(r), NEW s \in Segs, NEW ce \in BOOLEAN, NEW cwr \in BOOLEAN
    PROVE  LET q == CwrFlag(EcnEvent(r, s, ce), cwr) IN
           /\ q \in Socket
           /\ ~ q.reserved /\ q.ooo = r.ooo /\ q.rcvNxt = r.rcvNxt
           /\ q.highTxAck = r.highTxAck /\ q.acks = r.acks
           /\ q.ceSeq = IF ce /\ r.ceSeq < s THEN s ELSE r.ceSeq
           /\ Echoing(q) <=> ce /\ r.ceSeq < s
<1> DEFINE e == EcnEvent(r, s, ce)
           q == CwrFlag(e, cwr)
<1>0. r \in Socket /\ LastSeg \in Nat \ {0} /\ s \in 0 .. LastSeg
  BY EchoConstants DEF Quiet, Segs
<1>1. /\ "IDLE" \in EcnStates /\ "CE_RCVD" \in EcnStates /\ "SENDING_ECE" \in EcnStates
      /\ r.rcvNxt \in 0 .. LastSeg + 1
  BY <1>0 DEF EcnStates, Socket
<1>2. /\ e \in Socket
      /\ ~ e.reserved /\ e.ooo = r.ooo /\ e.rcvNxt = r.rcvNxt
      /\ e.highTxAck = r.highTxAck /\ e.acks = r.acks
      /\ e.ceSeq = IF ce /\ r.ceSeq < s THEN s ELSE r.ceSeq
      /\ e.ecn = "CE_RCVD" <=> ce /\ r.ceSeq < s
      /\ Echoing(e) <=> ce /\ r.ceSeq < s
  <2>1. CASE ce /\ r.ceSeq < s
    <3> DEFINE n == [r EXCEPT !.ceSeq = s, !.ecn = "CE_RCVD"]
               p == [n EXCEPT !.priorFlag = TRUE, !.prior = n.rcvNxt]
    <3>1. n \in Socket
      BY <1>0, <1>1, Zenon DEF Socket
    <3>2. ~ n.reserved /\ n.rcvNxt = r.rcvNxt
      BY <1>0 DEF Socket, Quiet
    <3>3. e = [p EXCEPT !.ceState = TRUE, !.ecn = "CE_RCVD"]
      <4>1. e = CeState0to1(n)
        BY <2>1 DEF EcnEvent
      <4> HIDE DEF n, e
      <4> QED BY <3>2, <4>1 DEF CeState0to1, NotePrior
    <3>4. p \in Socket
      <4> HIDE DEF n
      <4> QED BY <1>1, <3>1, <3>2, Zenon DEF Socket
    <3>5. [p EXCEPT !.ceState = TRUE, !.ecn = "CE_RCVD"] \in Socket
      <4> HIDE DEF p
      <4> QED BY <1>1, <3>4, Zenon DEF Socket
    <3> HIDE DEF e
    <3>6. /\ e.ooo = r.ooo /\ e.rcvNxt = r.rcvNxt /\ e.highTxAck = r.highTxAck
          /\ e.acks = r.acks /\ e.ceSeq = s /\ e.ecn = "CE_RCVD" /\ ~ e.reserved
      BY <1>0, <3>3 DEF Socket, Quiet
    <3> QED BY <2>1, <3>3, <3>5, <3>6 DEF Echoing
  <2>2. CASE ~ (ce /\ r.ceSeq < s)
    <3> DEFINE p == [r EXCEPT !.priorFlag = TRUE, !.prior = r.rcvNxt]
               c == IF Echoing(r) THEN "IDLE" ELSE r.ecn
    <3>1. p \in Socket /\ p.ecn = r.ecn
      BY <1>0, <1>1, Zenon DEF Socket
    <3>2. e = [p EXCEPT !.ceState = FALSE, !.ecn = c]
      <4>1. e = CeState1to0(r)
        BY <2>2 DEF EcnEvent
      <4> HIDE DEF e
      <4> QED BY <1>0, <3>1, <4>1 DEF CeState1to0, NotePrior, Quiet
    <3>3. c \in EcnStates /\ c = "IDLE"
      BY <1>0, <1>1 DEF Echoing, Socket, EcnStates
    <3>4. [p EXCEPT !.ceState = FALSE, !.ecn = c] \in Socket
      <4> HIDE DEF p, c
      <4> QED BY <3>1, <3>3, Zenon DEF Socket
    <3> HIDE DEF e, c
    <3>5. /\ e.ooo = r.ooo /\ e.rcvNxt = r.rcvNxt /\ e.highTxAck = r.highTxAck
          /\ e.acks = r.acks /\ e.ceSeq = r.ceSeq /\ e.ecn = "IDLE" /\ ~ e.reserved
      BY <1>0, <3>2, <3>3 DEF Socket, Quiet
    <3> QED BY <2>2, <3>2, <3>4, <3>5 DEF Echoing
  <2> QED BY <2>1, <2>2
<1> HIDE DEF e
<1>3. CASE cwr /\ e.ecn # "CE_RCVD"
  <2>1. q = [e EXCEPT !.ecn = "IDLE"]
    BY <1>3 DEF CwrFlag
  <2>2. [e EXCEPT !.ecn = "IDLE"] \in Socket
    BY <1>1, <1>2, Zenon DEF Socket
  <2> HIDE DEF q
  <2>3. /\ q.ooo = e.ooo /\ q.rcvNxt = e.rcvNxt /\ q.highTxAck = e.highTxAck
        /\ q.acks = e.acks /\ q.ceSeq = e.ceSeq /\ q.ecn = "IDLE" /\ ~ q.reserved
    BY <1>2, <2>1 DEF Socket
  <2> QED BY <1>2, <1>3, <2>1, <2>2, <2>3 DEF Echoing, q, e
<1>4. CASE ~ (cwr /\ e.ecn # "CE_RCVD")
  <2>1. q = e
    BY <1>4 DEF CwrFlag
  <2> QED BY <1>2, <2>1 DEF e
<1> QED BY <1>3, <1>4

\* The one ACK of a handler that has sent none before.
LEMMA OneAck ==
    ASSUME NEW r \in Socket, ~ r.reserved, r.ooo = {}, r.ceSeq < r.rcvNxt,
           r.highTxAck <= r.rcvNxt, r.acks = <<>>, NEW ece \in BOOLEAN
    PROVE  LET q == SendEmptyPacket(r, ece) IN
           /\ Quiet(q)
           /\ q.rcvNxt = r.rcvNxt
           /\ q.acks = <<[ack |-> r.rcvNxt, ece |-> ece]>>
<1> DEFINE a == [ack |-> r.rcvNxt, ece |-> ece]
           w == IF r.highTxAck < r.rcvNxt THEN r.rcvNxt ELSE r.highTxAck
           q == SendEmptyPacket(r, ece)
<1>0. LastSeg \in Nat \ {0} /\ DelAckMax \in Nat \ {0} /\ r.rcvNxt \in 1 .. LastSeg + 1
  BY EchoConstants DEF Socket
<1>1. w = r.rcvNxt /\ 0 \in 0 .. DelAckMax
  BY <1>0 DEF Socket
<1>2. a \in Ack /\ Append(<<>>, a) = <<a>> /\ <<a>> \in Seq(Ack)
  <2>1. a \in Ack
    BY <1>0 DEF Ack
  <2> HIDE DEF a
  <2> QED BY <2>1
<1>3. q = [r EXCEPT !.timer = FALSE, !.count = 0, !.highTxAck = r.rcvNxt, !.acks = <<a>>]
  BY <1>1, <1>2 DEF SendEmptyPacket
<1> HIDE DEF a
<1>4. [r EXCEPT !.timer = FALSE, !.count = 0, !.highTxAck = r.rcvNxt, !.acks = <<a>>] \in Socket
  BY <1>0, <1>1, <1>2, Zenon DEF Socket
<1> HIDE DEF q
<1>5. /\ q.rcvNxt = r.rcvNxt /\ q.highTxAck = r.rcvNxt /\ q.acks = <<a>>
      /\ q.ooo = r.ooo /\ q.ceSeq = r.ceSeq /\ ~ q.reserved /\ ~ q.timer
  BY <1>3 DEF Socket
<1> QED BY <1>3, <1>4, <1>5 DEF Quiet, q, a

LEMMA OneSendAck ==
    ASSUME NEW r \in Socket, ~ r.reserved, r.ooo = {}, r.ceSeq < r.rcvNxt,
           r.highTxAck <= r.rcvNxt, r.acks = <<>>, NEW ece \in BOOLEAN,
           Echoing(r) <=> ece
    PROVE  /\ Quiet(SendAck(r))
           /\ SendAck(r).rcvNxt = r.rcvNxt
           /\ SendAck(r).acks = <<[ack |-> r.rcvNxt, ece |-> ece]>>
<1> DEFINE p == SendEmptyPacket(r, ece)
<1>1. /\ Quiet(p) /\ p.rcvNxt = r.rcvNxt
      /\ p.acks = <<[ack |-> r.rcvNxt, ece |-> ece]>>
  BY OneAck
<1>2. CASE ece
  <2> DEFINE q == [p EXCEPT !.ecn = "SENDING_ECE"]
  <2>1. ece = TRUE
    BY <1>2
  <2>2. SendAck(r) = q
    BY <1>2, <2>1 DEF SendAck
  <2> HIDE DEF p
  <2>3. p \in Socket /\ "SENDING_ECE" \in EcnStates
    BY <1>1 DEF Quiet, EcnStates
  <2>4. q \in Socket
    BY <2>3, Zenon DEF Socket
  <2>5. /\ q.rcvNxt = p.rcvNxt /\ q.highTxAck = p.highTxAck /\ q.acks = p.acks
        /\ q.ooo = p.ooo /\ q.ceSeq = p.ceSeq /\ q.reserved = p.reserved
        /\ q.timer = p.timer
    BY <2>3 DEF Socket
  <2> HIDE DEF q
  <2>6. Quiet(q)
    BY <1>1, <2>4, <2>5 DEF Quiet
  <2> QED BY <1>1, <2>2, <2>5, <2>6
<1>3. CASE ~ ece
  <2>1. ece = FALSE
    BY <1>3
  <2>2. SendAck(r) = p
    BY <1>3, <2>1, Zenon DEF SendAck
  <2> HIDE DEF p
  <2> QED BY <1>1, <2>2
<1> QED BY <1>2, <1>3

OneEcho(q, x) == q.acks = <<[ack |-> q.rcvNxt, ece |-> x]>>

Advances(q, r, s) == q.rcvNxt = IF s = r.rcvNxt THEN r.rcvNxt + 1 ELSE r.rcvNxt

\* The whole handler: one ACK for all that was received, with ECE on a new
\* segment exactly if the segment is marked.
LEMMA QuietForwardUp ==
    ASSUME delAckMaxCount = 1, NEW r, Quiet(r), r.acks = <<>>,
           NEW s \in Segs, s <= r.rcvNxt, NEW ce \in BOOLEAN, NEW cwr \in BOOLEAN,
           NEW q, q = ForwardUp(r, s, ce, cwr)
    PROVE  /\ Quiet(q)
           /\ Advances(q, r, s)
           /\ \E x \in BOOLEAN : OneEcho(q, x) /\ (s = r.rcvNxt => (x <=> ce))
<1> DEFINE e == CwrFlag(EcnEvent(r, s, ce), cwr)
           x == (ce /\ r.ceSeq < s)
<1>0. /\ LastSeg \in Nat \ {0} /\ r \in Socket /\ r.rcvNxt \in 1 .. LastSeg + 1
      /\ r.ceSeq \in 0 .. LastSeg /\ s \in 1 .. LastSeg /\ r.ceSeq < r.rcvNxt
  BY EchoConstants DEF Quiet, Socket, Segs
<1>1. CASE OutOfRange(r, s)
  <2>1. q = SendEmptyPacket(r, FALSE) /\ s # r.rcvNxt
    BY <1>0, <1>1 DEF ForwardUp, OutOfRange
  <2>2. ~ r.reserved /\ r.ooo = {} /\ r.highTxAck <= r.rcvNxt /\ FALSE \in BOOLEAN
    BY <1>0 DEF Quiet
  <2>3. /\ Quiet(SendEmptyPacket(r, FALSE)) /\ SendEmptyPacket(r, FALSE).rcvNxt = r.rcvNxt
        /\ SendEmptyPacket(r, FALSE).acks = <<[ack |-> r.rcvNxt, ece |-> FALSE]>>
    BY <1>0, <2>2, OneAck
  <2>4. /\ Quiet(q) /\ q.rcvNxt = r.rcvNxt
        /\ q.acks = <<[ack |-> q.rcvNxt, ece |-> FALSE]>>
    BY <2>1, <2>3, Zenon
  <2>5. \E y \in BOOLEAN : OneEcho(q, y)
    BY <2>4, Zenon DEF OneEcho
  <2> QED BY <2>1, <2>4, <2>5 DEF Advances
<1>2. CASE ~ OutOfRange(r, s)
  <2>1. q = ReceivedData(e, s)
    BY <1>2 DEF ForwardUp
  <2>2. /\ e \in Socket
        /\ ~ e.reserved /\ e.ooo = r.ooo /\ e.rcvNxt = r.rcvNxt
        /\ e.highTxAck = r.highTxAck /\ e.acks = r.acks
        /\ e.ceSeq = IF ce /\ r.ceSeq < s THEN s ELSE r.ceSeq
        /\ Echoing(e) <=> x
    BY QuietEvent
  <2>3. x \in BOOLEAN /\ (s = r.rcvNxt => (x <=> ce))
    BY <1>0
  <2> HIDE DEF e, x
  <2>4. e.highTxAck = e.rcvNxt /\ e.ooo = {} /\ e.acks = <<>>
    BY <2>2 DEF Quiet
  <2>5. CASE s = r.rcvNxt
    <3> DEFINE t == Store(e, s)
               c == [t EXCEPT !.count = 0, !.timer = FALSE]
               u == [c EXCEPT !.reserved = FALSE]
    <3>1. t = [e EXCEPT !.rcvNxt = s + 1, !.ooo = {}]
      <4> DEFINE held == e.ooo \cup {s}
                 holes == {n \in e.rcvNxt .. LastSeg + 1 : n \notin held}
      <4>1. held = {s} /\ e.rcvNxt = s
        BY <2>2, <2>4, <2>5
      <4>2. holes \subseteq Nat /\ s + 1 \in holes /\ s \notin holes
        BY <1>0, <4>1
      <4>3. Min(holes) \in holes /\ \A y \in holes : Min(holes) <= y
        BY <4>2, MinNat
      <4>4. Min(holes) = s + 1
        <5> DEFINE m == Min(holes)
        <5>1. m \in s .. LastSeg + 1 /\ m # s /\ m <= s + 1
          <6> HIDE DEF m
          <6> QED BY <4>1, <4>2, <4>3 DEF m
        <5> HIDE DEF m
        <5>2. m = s + 1
          BY <1>0, <5>1
        <5> QED BY <5>2 DEF m
      <4>5. {k \in held : k > s + 1} = {}
        BY <1>0, <4>1
      <4> QED BY <4>4, <4>5 DEF Store
    <3>2. t \in Socket
      <4>1. s + 1 \in 1 .. LastSeg + 1 /\ {} \in SUBSET Segs
        BY <1>0
      <4> QED BY <2>2, <3>1, <4>1, Zenon DEF Socket
    <3>3. /\ t.rcvNxt = s + 1 /\ t.ooo = {} /\ t.acks = <<>> /\ ~ t.reserved
          /\ t.ceSeq = e.ceSeq /\ t.highTxAck = s /\ t.ecn = e.ecn
      BY <2>2, <2>4, <2>5, <3>1 DEF Socket
    <3>4. t.count \in 0 .. DelAckMax
      BY <3>2 DEF Socket
    <3>5. q = SendAck(u)
      <4>1. ~ Stored(e, s)
        BY <1>0, <2>2, <2>4, <2>5 DEF Stored
      <4>2. ~ (t.ooo # {} \/ t.rcvNxt > e.rcvNxt + 1) /\ t.count + 1 >= delAckMaxCount
        BY <1>0, <2>2, <2>5, <3>3, <3>4
      <4> QED BY <2>1, <4>1, <4>2 DEF ReceivedData, UpdateAckReserved
    <3> HIDE DEF t
    <3>6. c \in Socket
      <4>1. 0 \in 0 .. DelAckMax
        BY EchoConstants
      <4> QED BY <3>2, <4>1, Zenon DEF Socket
    <3>7. u \in Socket
      <4> HIDE DEF c
      <4> QED BY <3>6, Zenon DEF Socket
    <3>8. /\ u.rcvNxt = s + 1 /\ u.ooo = {} /\ u.acks = <<>> /\ ~ u.reserved
          /\ u.ceSeq = e.ceSeq /\ u.highTxAck = s /\ u.ecn = e.ecn
      BY <3>2, <3>3 DEF Socket
    <3> HIDE DEF u
    <3>9. /\ u.ceSeq < u.rcvNxt /\ u.highTxAck <= u.rcvNxt
          /\ Echoing(u) <=> x
      BY <1>0, <2>2, <2>5, <3>8 DEF Echoing
    <3>10. /\ Quiet(SendAck(u)) /\ SendAck(u).rcvNxt = u.rcvNxt
           /\ SendAck(u).acks = <<[ack |-> u.rcvNxt, ece |-> x]>>
      BY <2>3, <3>7, <3>8, <3>9, OneSendAck
    <3>11. Quiet(q) /\ q.rcvNxt = r.rcvNxt + 1
      BY <2>5, <3>5, <3>8, <3>10
    <3>12. OneEcho(q, x)
      BY <3>5, <3>10, Zenon DEF OneEcho
    <3> QED BY <2>3, <2>5, <3>11, <3>12 DEF Advances
  <2>6. CASE s # r.rcvNxt
    <3>1. s < e.rcvNxt /\ Stored(e, s)
      BY <1>0, <2>2, <2>6 DEF Stored
    <3>2. q = SendAck(e)
      BY <2>1, <3>1 DEF ReceivedData
    <3>3. e.ceSeq < e.rcvNxt /\ e.highTxAck <= e.rcvNxt
      BY <1>0, <2>2, <2>4, <3>1 DEF Quiet
    <3>4. /\ Quiet(SendAck(e)) /\ SendAck(e).rcvNxt = e.rcvNxt
          /\ SendAck(e).acks = <<[ack |-> e.rcvNxt, ece |-> x]>>
      BY <2>2, <2>3, <2>4, <3>3, OneSendAck
    <3>5. OneEcho(q, x)
      BY <3>2, <3>4, Zenon DEF OneEcho
    <3> QED BY <2>2, <2>3, <2>6, <3>2, <3>4, <3>5 DEF Advances
  <2> QED BY <2>5, <2>6
<1> QED BY <1>1, <1>2

\* as long as every segment is acknowledged by itself
Exact ==
    /\ Quiet(sock)
    /\ mark \in [Segs -> BOOLEAN]
    /\ DOMAIN echo = Segs
    /\ \A t \in Segs : echo[t] # "none" <=> t < sock.rcvNxt
    /\ \A t \in Segs : echo[t] # "none" => (echo[t] = "ece") = mark[t]
    /\ owed = FALSE

ExactInv == OneByOne => Exact

LEMMA ExactStep ==
    ASSUME delAckMaxCount = 1, Exact,
           NEW s \in Segs, NEW ce \in BOOLEAN, NEW cwr \in BOOLEAN, Arrive(s, ce, cwr),
           s <= sock.rcvNxt
    PROVE  Exact'
<1> DEFINE r == [sock EXCEPT !.acks = <<>>]
           new == s = sock.rcvNxt
<1>0. /\ LastSeg \in Nat \ {0} /\ sock \in Socket /\ sock.rcvNxt \in 1 .. LastSeg + 1
      /\ s \in 1 .. LastSeg /\ <<>> \in Seq(Ack)
  BY EchoConstants DEF Exact, Quiet, Socket, Segs
<1>1. s <= sock.rcvNxt
  OBVIOUS
<1>2. Quiet(r) /\ r.acks = <<>> /\ r.rcvNxt = sock.rcvNxt
  <2>1. r \in Socket
    BY <1>0, Zenon DEF Socket
  <2>2. /\ r.rcvNxt = sock.rcvNxt /\ r.highTxAck = sock.highTxAck /\ r.acks = <<>>
        /\ r.ooo = sock.ooo /\ r.ceSeq = sock.ceSeq /\ r.reserved = sock.reserved
        /\ r.timer = sock.timer
    BY <1>0 DEF Socket
  <2> HIDE DEF r
  <2> QED BY <2>1, <2>2 DEF Exact, Quiet
<1>3. sock' = ForwardUp(r, s, ce, cwr)
  BY DEF Arrive, Idle
<1> HIDE DEF r
<1>4. /\ Quiet(sock')
      /\ sock'.rcvNxt = IF new THEN sock.rcvNxt + 1 ELSE sock.rcvNxt
      /\ \E x \in BOOLEAN : OneEcho(sock', x) /\ (new => (x <=> ce))
  <2> DEFINE q == ForwardUp(r, s, ce, cwr)
  <2>1. /\ Quiet(q)
        /\ q.rcvNxt = IF s = r.rcvNxt THEN r.rcvNxt + 1 ELSE r.rcvNxt
        /\ \E x \in BOOLEAN : OneEcho(q, x) /\ (s = r.rcvNxt => (x <=> ce))
    <3>1. s <= r.rcvNxt
      BY <1>1, <1>2
    <3>2. q = ForwardUp(r, s, ce, cwr)
      OBVIOUS
    <3> HIDE DEF q
    <3>3. Quiet(r) /\ r.acks = <<>>
      BY <1>2
    <3>4. Quiet(q)
      BY <3>1, <3>2, <3>3, QuietForwardUp
    <3>5. q.rcvNxt = IF s = r.rcvNxt THEN r.rcvNxt + 1 ELSE r.rcvNxt
      <4>1. Advances(q, r, s)
        BY <3>1, <3>2, <3>3, QuietForwardUp
      <4> QED BY <4>1 DEF Advances
    <3>6. \E x \in BOOLEAN : OneEcho(q, x) /\ (s = r.rcvNxt => (x <=> ce))
      BY <3>1, <3>2, <3>3, QuietForwardUp
    <3> QED BY <3>4, <3>5, <3>6
  <2> HIDE DEF q
  <2> QED BY <1>2, <1>3, <2>1 DEF q
<1>5. PICK x \in BOOLEAN : OneEcho(sock', x) /\ (new => (x <=> ce))
  BY <1>4
<1>6. ~ Stored(sock, s) <=> new
  BY <1>0, <1>1 DEF Stored, Exact, Quiet
<1>7. \A t \in Segs : FirstEcho(sock'.acks, t) =
           IF t < sock'.rcvNxt THEN (IF x THEN "ece" ELSE "plain") ELSE "none"
  <2> TAKE t \in Segs
  <2> DEFINE acks == sock'.acks
             covering == {i \in 1 .. Len(acks) : t < acks[i].ack}
             a == [ack |-> sock'.rcvNxt, ece |-> x]
  <2>1. Len(acks) = 1 /\ acks[1].ack = sock'.rcvNxt /\ acks[1].ece = x
    <3>1. a.ack = sock'.rcvNxt /\ a.ece = x
      BY Zenon
    <3>2. acks = <<a>>
      BY <1>5 DEF OneEcho
    <3> HIDE DEF a, acks
    <3>3. Len(acks) = 1 /\ acks[1] = a
      BY <3>2
    <3> QED BY <3>1, <3>3, Zenon
  <2>2. covering = IF t < sock'.rcvNxt THEN {1} ELSE {}
    BY <2>1
  <2>3. t < sock'.rcvNxt => (CHOOSE i \in covering : \A j \in covering : i <= j) = 1
    BY <2>2
  <2> QED BY <2>1, <2>2, <2>3 DEF FirstEcho
<1>8. /\ DOMAIN echo' = Segs
      /\ \A t \in Segs : echo'[t] = IF echo[t] # "none" THEN echo[t] ELSE FirstEcho(sock'.acks, t)
  BY DEF Arrive, Echoes
<1>9. /\ mark' \in [Segs -> BOOLEAN]
      /\ \A t \in Segs : mark'[t] = IF new /\ t = s THEN ce ELSE mark[t]
  BY <1>6 DEF Arrive, Exact
<1>10. \A t \in Segs : echo'[t] # "none" <=> t < sock'.rcvNxt
  BY <1>0, <1>4, <1>7, <1>8 DEF Exact, Segs
<1>11. \A t \in Segs : echo'[t] # "none" => (echo'[t] = "ece") = mark'[t]
  <2> SUFFICES ASSUME NEW t \in Segs, echo'[t] # "none"
               PROVE  (echo'[t] = "ece") = mark'[t]
    OBVIOUS
  <2>1. CASE t < sock.rcvNxt
    <3>1. echo'[t] = echo[t] /\ echo[t] # "none"
      BY <1>8, <2>1 DEF Exact
    <3>2. mark'[t] = mark[t]
      BY <1>0, <1>9, <2>1
    <3> QED BY <3>1, <3>2 DEF Exact
  <2>2. CASE ~ (t < sock.rcvNxt)
    <3>1. t < sock'.rcvNxt
      BY <1>10
    <3>2. new /\ t = s
      BY <1>0, <1>4, <2>2, <3>1 DEF Segs
    <3>3. echo'[t] = IF x THEN "ece" ELSE "plain"
      BY <1>7, <1>8, <2>2, <3>1 DEF Exact
    <3>4. (x <=> ce) /\ mark'[t] = ce
      BY <1>5, <1>9, <3>2
    <3> QED BY <3>3, <3>4
  <2> QED BY <2>1, <2>2
<1>12. owed' = FALSE
  <2>1. owed' = ((owed \/ (~ Stored(sock, s) /\ ce)) /\ ~ ValidEcho(sock'.acks, sock.highTxAck))
    BY DEF Arrive
  <2>2. CASE ~ (new /\ ce)
    BY <1>6, <2>1, <2>2 DEF Exact
  <2>3. CASE new /\ ce
    <3>1. Len(sock'.acks) = 1 /\ sock'.acks[1].ack = sock.rcvNxt + 1 /\ sock'.acks[1].ece
      BY <1>4, <1>5, <2>3 DEF OneEcho
    <3>2. sock.highTxAck = sock.rcvNxt
      BY DEF Exact, Quiet
    <3>3. ValidEcho(sock'.acks, sock.highTxAck)
      BY <1>0, <3>1, <3>2 DEF ValidEcho
    <3> QED BY <2>1, <3>3
  <2> QED BY <2>2, <2>3
<1> QED BY <1>4, <1>8, <1>9, <1>10, <1>11, <1>12 DEF Exact

\* With DelAckCount 1, and for as long as segments come in order, duplicated or not,
\* the ACKs tell the sender of every mark and of no other: each segment is first
\* covered by an ACK whose ECE flag is the segment's CE mark.
THEOREM EchoIsExact == Spec => [](EchoExact /\ MarkEchoedAtOnce)
<1>1. Init => ExactInv
  <2> SUFFICES ASSUME Init PROVE Exact
    BY DEF ExactInv
  <2>1. Good(sock) => sock \in Socket
    BY DEF Good
  <2>2. sock \in Socket
    BY <2>1, InitGood
  <2>3. /\ sock.rcvNxt = 1 /\ sock.ooo = {} /\ sock.ceSeq = 0 /\ sock.highTxAck = 1
        /\ ~ sock.reserved /\ ~ sock.timer
    BY DEF Init
  <2>4. Quiet(sock)
    BY <2>2, <2>3 DEF Quiet
  <2>5. /\ mark \in [Segs -> BOOLEAN] /\ DOMAIN echo = Segs
        /\ \A t \in Segs : echo[t] = "none"
        /\ owed = FALSE
    BY DEF Init
  <2>6. \A t \in Segs : ~ (t < sock.rcvNxt)
    BY <2>3, EchoConstants DEF Segs
  <2> QED BY <2>4, <2>5, <2>6 DEF Exact
<1>2. ExactInv /\ [Next]_vars => ExactInv'
  <2> SUFFICES ASSUME ExactInv, [Next]_vars, OneByOne' PROVE Exact'
    BY DEF ExactInv
  <2>1. ASSUME NEW s \in Segs, NEW ce \in BOOLEAN, NEW cwr \in BOOLEAN, Arrive(s, ce, cwr)
        PROVE  Exact'
    <3>1. OneByOne /\ s <= sock.rcvNxt
      BY <2>1 DEF Arrive, OneByOne
    <3>2. Exact
      BY <3>1 DEF ExactInv
    <3> QED BY <2>1, <3>1, <3>2, ExactStep DEF OneByOne
  <2>2. CASE DelAckTimeout
    <3>1. OneByOne
      BY <2>2 DEF DelAckTimeout, OneByOne
    <3>2. Exact
      BY <3>1 DEF ExactInv
    <3> QED BY <2>2, <3>2 DEF DelAckTimeout, Exact, Quiet
  <2>3. CASE UNCHANGED vars
    <3>1. Exact
      BY <2>3 DEF vars, OneByOne, ExactInv
    <3> QED BY <2>3, <3>1 DEF vars, Exact
  <2> QED BY <2>1, <2>2, <2>3 DEF Next
<1>3. ExactInv => EchoExact /\ MarkEchoedAtOnce
  BY DEF ExactInv, Exact, EchoExact, MarkEchoedAtOnce
<1> QED BY <1>1, <1>2, <1>3, PTL DEF Spec

\* In particular no mark waits: after every handler the sender has heeded an ECE
\* since the last mark.
THEOREM EveryMarkIsEchoed == Spec => []MarkEchoedAtOnce
BY EchoIsExact, PTL
============================================================================
