------------------------ MODULE TcpDstcpClockProofs ------------------------
(***************************************************************************)
(* Proof that the sender of TcpDstcp never stops its own ACK clock: written *)
(* data is in flight or about to be sent, however small a reduction makes  *)
(* the window and whatever the 32 bit product of PRR wraps to.             *)
(***************************************************************************)
EXTENDS TcpDstcpProofs

(***************************************************************************)
(* The window after each call                                              *)
(***************************************************************************)
\* PRR leaves room for the flight, and for a segment more until one was sent.
LEMMA RecoveryWindow ==
    ASSUME NEW r, IsTcb(r), WinTypes(r), NEW flight \in Nat, NEW delivered \in Nat,
           flight > r.ssThresh => r.prrFlight > 0
    PROVE  LET q == DoRecovery(r, flight, delivered, FALSE) IN
           q.prrOut = r.prrOut /\ (r.prrOut = 0 => q.cWnd >= flight + Seg)
<1> DEFINE q0 == [r EXCEPT !.prrDelivered = @ + delivered]
           wanted == Wanted(q0, flight, delivered, FALSE)
           count == SendCount(q0, flight, delivered, FALSE)
           q == [q0 EXCEPT !.cWnd = flight + count]
<1>1. q0.prrDelivered = r.prrDelivered + delivered
  BY DEF IsTcb, Fields
<1>2. /\ q0.cWnd = r.cWnd /\ q0.ssThresh = r.ssThresh /\ q0.cWndCnt = r.cWndCnt
      /\ q0.prrOut = r.prrOut /\ q0.prrFlight = r.prrFlight
  BY DEF IsTcb, Fields
<1>3. WinTypes(q0)
  BY <1>1, <1>2 DEF WinTypes
<1>4. wanted \in Int
  BY <1>2, <1>3, WantedInt
<1>5. q.prrOut = r.prrOut /\ q.cWnd = flight + count
  BY DEF IsTcb, Fields
<1>6. DoRecovery(r, flight, delivered, FALSE) = q
  BY DEF DoRecovery
<1> HIDE DEF q
<1>7. ASSUME r.prrOut = 0 PROVE q.cWnd >= flight + Seg
  <2>0. (IF q0.prrOut > 0 THEN 0 ELSE Seg) = Seg
    BY <1>2, <1>7
  <2>1. count = Max({wanted, Seg})
    <3> HIDE DEF q0
    <3> QED BY <2>0 DEF SendCount
  <2> HIDE DEF count, wanted
  <2>2. Seg \in Int
    BY Positive
  <2>3. Max({wanted, Seg}) \in Int /\ Max({wanted, Seg}) >= Seg
    BY <1>4, <2>2, PairMax, Zenon DEF wanted
  <2> QED BY <1>5, <2>1, <2>2, <2>3
<1> QED BY <1>5, <1>6, <1>7

\* The window grows to a segment at least from one that held a segment, and from
\* any that has reached its threshold.
LEMMA IncreaseWindowToSeg ==
    ASSUME NEW r, IsTcb(r), WinTypes(r), NEW segs \in Nat \ {0},
           r.cWnd >= Seg \/ r.cWnd = r.ssThresh
    PROVE  IncreaseWindow(r, segs).cWnd >= Seg
<1>0. /\ r.cWnd \in Nat /\ r.ssThresh \in Nat /\ r.cWndCnt \in Nat
      /\ Seg \in Nat \ {0} /\ segs * Seg \in Nat
  BY Positive, SegBytes DEF WinTypes
<1>1. CASE r.cWnd < r.ssThresh
  <2> DEFINE w == Min({r.cWnd + segs * Seg, r.ssThresh})
  <2>1. IncreaseWindow(r, segs).cWnd = w
    BY <1>1 DEF IncreaseWindow, SlowStart, IsTcb, Fields
  <2>2. r.cWnd + segs * Seg \in Int /\ r.ssThresh \in Int
    BY <1>0
  <2>3. w \in {r.cWnd + segs * Seg, r.ssThresh}
    BY <2>2, PairMin, Zenon
  <2> HIDE DEF w
  <2> QED BY <1>0, <1>1, <2>1, <2>3
<1>2. CASE ~ r.cWnd < r.ssThresh
  <2> DEFINE w == Max({r.cWnd \div Seg, 1})
             full == r.cWndCnt >= w
             cnt == (IF full THEN 0 ELSE r.cWndCnt) + segs
             more == (IF full THEN 1 ELSE 0) + cnt \div w
  <2>1. r.cWnd \div Seg \in Nat
    BY <1>0, Quotient
  <2>2. w \in Nat \ {0} /\ w \in {r.cWnd \div Seg, 1}
    <3>1. r.cWnd \div Seg \in Int /\ 1 \in Int
      BY <2>1
    <3>2. w \in Int /\ w >= 1 /\ w \in {r.cWnd \div Seg, 1}
      BY <3>1, PairMax, Zenon
    <3> QED BY <3>2
  <2>3. cnt \in Nat /\ cnt >= 1
    BY <1>0
  <2>4. IncreaseWindow(r, segs).cWnd = r.cWnd + more * Seg
    BY <1>2 DEF IncreaseWindow, CongestionAvoidance, IsTcb, Fields
  <2> HIDE DEF w, cnt
  <2>5. cnt \div w \in Nat
    BY <2>2, <2>3, Quotient
  <2>6. more \in Nat
    BY <2>5
  <2>7. r.cWnd < Seg => more >= 1
    <3> SUFFICES ASSUME r.cWnd < Seg PROVE more >= 1
      OBVIOUS
    <3>1. r.cWnd \div Seg = 0
      BY <1>0
    <3>2. w = 1
      BY <2>2, <3>1
    <3>3. cnt \div w = cnt
      BY <2>3, <3>2
    <3> QED BY <2>3, <3>3
  <2> HIDE DEF more
  <2>8. more * Seg \in Nat /\ (more >= 1 => more * Seg >= Seg)
    BY <1>0, <2>6
  <2> QED BY <1>0, <2>4, <2>7, <2>8
<1> QED BY <1>1, <1>2

\* The end of an observation window leaves the window alone or cuts it to two
\* segments or more.
LEMMA PktsAckedWindow ==
    ASSUME NEW r, IsTcb(r), SeqTypes(r), WinTypes(r), EstTypes(r), NEW segs \in Nat \ {0}
    PROVE  LET q == PktsAcked(r, segs) IN
           /\ q.prrOut = r.prrOut
           /\ \/ q.cWnd = r.cWnd /\ q.ssThresh = r.ssThresh
              \/ q.cWnd >= Seg
<1> DEFINE bytes == segs * Seg
<1>0. bytes \in Nat /\ bytes > 0
  BY SegBytes
<1> HIDE DEF bytes
<1>1. PICK rtt, min \in Nat : Count(r, bytes) = Counted(r, bytes, rtt, min)
  BY <1>0, CountIs
<1> DEFINE c == Counted(r, bytes, rtt, min)
<1>2. IsTcb(c) /\ c.cWnd = r.cWnd /\ c.ssThresh = r.ssThresh /\ c.prrOut = r.prrOut
  BY ZenonT(60) DEF Counted, IsTcb, Fields
<1>3. PktsAcked(r, segs) = IF c.una >= c.nextSeq THEN EndOfWindow(c) ELSE c
  BY <1>1 DEF PktsAcked, bytes
<1>4. c.beta = r.beta /\ c.ackedRtt = rtt /\ c.ackedTotal = r.ackedTotal + bytes
      /\ c.alpha = r.alpha
  BY DEF Counted, IsTcb, Fields
<1> HIDE DEF c
<1> DEFINE a == Ewma(c.alpha, c.ackedEcn, c.ackedTotal)
           b == Ewma(c.beta, c.ackedRtt, c.ackedTotal)
           q == [c EXCEPT !.alpha = a, !.beta = b]
           cut == Max({Reduced(c.cWnd, b), 2 * Seg})
<1> HIDE DEF a, b
<1>5. EndOfWindow(c) = Reset(IF c.ackedEcn = 0 /\ c.ackedRtt > 0 THEN RttCut(q) ELSE q)
  BY DEF EndOfWindow, a, b
<1>6. /\ Reset(q).prrOut = c.prrOut /\ Reset(q).cWnd = c.cWnd /\ Reset(q).ssThresh = c.ssThresh
  BY <1>2 DEF Reset, IsTcb, Fields
<1>7. RttCut(q) = [q EXCEPT !.cWnd = cut, !.ssThresh = cut]
  BY <1>2 DEF RttCut, IsTcb, Fields
<1>8. Reset(RttCut(q)).prrOut = c.prrOut /\ Reset(RttCut(q)).cWnd = cut
  <2> HIDE DEF cut
  <2> QED BY <1>2, <1>7 DEF Reset, IsTcb, Fields
<1> HIDE DEF q
<1>9. CASE c.una >= c.nextSeq /\ c.ackedEcn = 0 /\ c.ackedRtt > 0
  <2>1. EstTypes(PktsAcked(r, segs)) /\ WinTypes(PktsAcked(r, segs))
    BY PktsAckedStep
  <2>2. PktsAcked(r, segs) = Reset(RttCut(q))
    BY <1>3, <1>5, <1>9
  <2>3. r.cWnd \in Nat /\ r.beta \in 0 .. Scale
    BY DEF WinTypes, EstTypes
  <2>4. b \in 0 .. Scale
    <3>1. Reset(RttCut(q)).beta = b
      <4> HIDE DEF cut
      <4> QED BY <1>2, <1>7 DEF Reset, q, IsTcb, Fields
    <3> QED BY <2>1, <2>2, <3>1 DEF EstTypes
  <2>5. Reduced(c.cWnd, b) \in Int /\ 2 * Seg \in Int /\ 2 * Seg >= Seg /\ Seg \in Int
    BY <1>2, <2>3, <2>4, ReducedRange, Positive
  <2>6. cut \in Int /\ cut >= 2 * Seg
    BY <2>5, PairMax, Zenon
  <2> HIDE DEF cut
  <2>7. cut >= Seg
    BY <2>5, <2>6
  <2> QED BY <1>2, <1>8, <2>2, <2>7
<1>10. CASE c.una >= c.nextSeq /\ ~ (c.ackedEcn = 0 /\ c.ackedRtt > 0)
  <2>1. PktsAcked(r, segs) = Reset(q)
    BY <1>3, <1>5, <1>10
  <2> QED BY <1>2, <1>6, <2>1 DEF q
<1>11. CASE ~ (c.una >= c.nextSeq)
  BY <1>2, <1>3, <1>11
<1> QED BY <1>9, <1>10, <1>11

\* Sending leaves the window alone; a segment that fits an empty flight is sent.
LEMMA SendWindow ==
    ASSUME NEW r, IsTcb(r), SeqTypes(r), WinTypes(r), ModeTypes(r)
    PROVE  LET q == SendPendingData(r) IN
           /\ q.cWnd = r.cWnd /\ q.nxt \in Nat /\ q.nxt >= r.nxt
           /\ q.nxt = r.nxt => q.prrOut = r.prrOut
           /\ r.una = r.nxt /\ r.cWnd >= Seg /\ r.nxt < r.end => q.nxt > r.nxt
<1> DEFINE n == Sendable(r)
           room == r.cWnd - BytesInFlight(r)
           q == SendPendingData(r)
<1>0. /\ r.nxt \in Nat /\ r.end \in Nat /\ r.una \in Nat /\ r.cWnd \in Nat
      /\ r.una <= r.nxt /\ r.nxt <= r.end /\ Seg \in Nat \ {0}
  BY Positive DEF SeqTypes, WinTypes
<1>1. BytesInFlight(r) \in Nat
  BY <1>0, SegBytes DEF BytesInFlight
<1>2. room \in Int
  BY <1>0, <1>1
<1>3. r.una = r.nxt => room = r.cWnd
  <2>1. r.una = r.nxt => BytesInFlight(r) = 0
    BY <1>0 DEF BytesInFlight
  <2> QED BY <1>0, <2>1
<1>4. n \in Nat /\ (room >= Seg /\ r.nxt < r.end => n > 0)
  <2> HIDE DEF room
  <2>1. CASE room < Seg
    <3>1. n = 0
      BY <2>1 DEF Sendable, room
    <3> QED BY <1>0, <1>2, <2>1, <3>1
  <2>2. CASE ~ room < Seg
    <3>1. room \in Nat /\ room >= Seg
      BY <1>0, <1>2, <2>2
    <3>2. room \div Seg \in Nat /\ room \div Seg >= 1
      BY <1>0, <3>1
    <3>3. r.end - r.nxt \in Int /\ room \div Seg \in Int
      BY <1>0, <3>2
    <3>4. Min({r.end - r.nxt, room \div Seg}) \in {r.end - r.nxt, room \div Seg}
      BY <3>3, PairMin, Zenon
    <3>5. n = Min({r.end - r.nxt, room \div Seg})
      BY <2>2 DEF Sendable, room
    <3> HIDE DEF n
    <3> QED BY <1>0, <3>2, <3>4, <3>5
  <2> QED BY <2>1, <2>2
<1> HIDE DEF n, room
<1>5. CASE n = 0
  <2>1. q = r
    BY <1>5 DEF SendPendingData, n
  <2> HIDE DEF q
  <2> QED BY <1>0, <1>3, <1>4, <1>5, <2>1 DEF q
<1>6. CASE n # 0
  <2>1. q.cWnd = r.cWnd /\ q.nxt = r.nxt + n
    BY <1>6 DEF SendPendingData, SendDataPacket, n, IsTcb, Fields
  <2> HIDE DEF q
  <2> QED BY <1>0, <1>4, <1>6, <2>1 DEF q
<1> QED BY <1>5, <1>6

\* PRR has sent nothing in a CWR phase that begins.
LEMMA EnterCwrWindow ==
    ASSUME NEW r, IsTcb(r), NEW delivered
    PROVE  LET q == EnterCwr(r, delivered) IN
           q.prrOut = 0 /\ q.cong = "CWR" /\ q.recover = r.nxt
<1> DEFINE flight == BytesInFlight(r)
           ss == GetSsThresh(r)
           e == [r EXCEPT !.ssThresh = ss, !.cong = "CWR", !.recover = r.nxt, !.cuts = 1 - @,
                          !.prrOut = 0, !.prrDelivered = 0, !.prrFlight = flight]
<1>1. EnterCwr(r, delivered) =
         PrrEnterRecovery([r EXCEPT !.ssThresh = ss, !.cong = "CWR", !.recover = r.nxt,
                                    !.cuts = 1 - @],
                          flight, flight, delivered, FALSE)
  BY DEF EnterCwr
<1> HIDE DEF flight, ss
<1>2. [[r EXCEPT !.ssThresh = ss, !.cong = "CWR", !.recover = r.nxt, !.cuts = 1 - @]
          EXCEPT !.prrOut = 0, !.prrDelivered = 0, !.prrFlight = flight] = e
  BY DEF IsTcb, Fields
<1>3. IsTcb(e) /\ e.prrOut = 0 /\ e.cong = "CWR" /\ e.recover = r.nxt
  BY ZenonT(60) DEF IsTcb, Fields
<1> HIDE DEF e
<1>4. EnterCwr(r, delivered) = DoRecovery(e, flight, delivered, FALSE)
  BY <1>1, <1>2 DEF PrrEnterRecovery
<1> QED BY <1>3, <1>4 DEF DoRecovery, IsTcb, Fields

(***************************************************************************)
(* The invariant                                                           *)
(***************************************************************************)
\* A phase lasts at most until what was sent before it is acknowledged; while
\* nothing else was sent, PRR still owes the segment it begins with.
PhaseInv(r) ==
    r.cong = "CWR" =>
        r.una <= r.recover /\ r.recover <= r.nxt /\ (r.nxt = r.recover => r.prrOut = 0)

\* The window holds a segment outside a phase, and whenever nothing is in flight.
RoomInv(r) == (r.cong = "OPEN" \/ r.una = r.nxt) => r.cWnd >= Seg

ClockInv(r) == PhaseInv(r) /\ RoomInv(r)

\* The phase that has ended leaves its threshold, which may be less than a segment,
\* as the window; the same ACK then lets it grow.
RoomAfterFlags(r, segs) ==
    /\ r.cong = "OPEN" => r.cWnd >= Seg \/ (r.cWnd = r.ssThresh /\ segs > 0)
    /\ segs = 0 /\ r.una = r.nxt => r.cWnd >= Seg

LEMMA FlagsReadClock ==
    ASSUME NEW r, SocketTypes(r), r.echoSeq <= r.una, ClockInv(r),
           NEW ack \in r.una .. r.nxt, NEW ece \in BOOLEAN
    PROVE  LET q == FlagsRead(r, ack, ece) IN
           PhaseInv(q) /\ RoomAfterFlags(q, ack - r.una)
<1> DEFINE a == [r EXCEPT !.una = ack]
           x == ExitCwr(a)
           delivered == (ack - r.una) * Seg
           f == FlagsRead(r, ack, ece)
<1>0. IsTcb(r) /\ SeqTypes(r) /\ ModeTypes(r) /\ WinTypes(r) /\ EstTypes(r)
  BY DEF SocketTypes
<1>1. /\ ack \in Nat /\ r.una \in Nat /\ r.nxt \in Nat /\ r.una <= ack /\ ack <= r.nxt
      /\ r.recover \in Nat /\ r.cWnd \in Nat /\ r.ssThresh \in Nat /\ Seg \in Nat
      /\ r.cong \in {"OPEN", "CWR"}
  BY <1>0, Positive DEF SeqTypes, WinTypes, ModeTypes
<1>2. delivered \in Nat /\ (delivered > 0 <=> ack > r.una)
  <2>1. ack - r.una \in Nat
    BY <1>1
  <2>2. ack = r.una => delivered = 0
    BY <1>1, Positive
  <2> QED BY <1>1, <2>1, <2>2, SegBytes
<1> HIDE DEF delivered
<1>3. f = EceFlag(x, delivered, ece)
  BY DEF FlagsRead, delivered
<1>4. /\ IsTcb(a) /\ a.una = ack /\ a.recover = r.recover /\ a.cong = r.cong
      /\ a.nxt = r.nxt /\ a.cWnd = r.cWnd /\ a.ssThresh = r.ssThresh /\ a.prrOut = r.prrOut
  BY <1>0 DEF IsTcb, Fields
<1>5. /\ IsTcb(x) /\ x.una = ack /\ x.recover = r.recover /\ x.nxt = r.nxt
      /\ x.prrOut = r.prrOut /\ x.ssThresh = r.ssThresh
      /\ IF r.cong = "CWR" /\ ack > r.recover
         THEN x.cong = "OPEN" /\ x.cWnd = r.ssThresh
         ELSE x.cong = r.cong /\ x.cWnd = r.cWnd
  <2>1. CASE r.cong = "CWR" /\ ack > r.recover
    <3>1. x = [a EXCEPT !.cong = "OPEN", !.cWnd = a.ssThresh]
      BY <1>4, <2>1 DEF ExitCwr
    <3> HIDE DEF x, a
    <3> QED BY <1>4, <2>1, <3>1 DEF IsTcb, Fields
  <2>2. CASE ~ (r.cong = "CWR" /\ ack > r.recover)
    <3>1. x = a
      BY <1>4, <2>2 DEF ExitCwr
    <3> HIDE DEF x, a
    <3> QED BY <1>4, <2>2, <3>1
  <2> QED BY <2>1, <2>2
<1> HIDE DEF x, a
<1>6. PhaseInv(x) /\ RoomAfterFlags(x, ack - r.una)
  <2>1. CASE r.cong = "CWR" /\ ack > r.recover
    <3>1. ack > r.una
      BY <1>1, <2>1 DEF ClockInv, PhaseInv
    <3> QED BY <1>1, <1>5, <2>1, <3>1 DEF PhaseInv, RoomAfterFlags
  <2>2. CASE r.cong = "CWR" /\ ~ ack > r.recover
    BY <1>1, <1>5, <2>2 DEF ClockInv, PhaseInv, RoomInv, RoomAfterFlags
  <2>3. CASE r.cong = "OPEN"
    BY <1>1, <1>5, <2>3 DEF ClockInv, PhaseInv, RoomInv, RoomAfterFlags
  <2> QED BY <1>1, <2>1, <2>2, <2>3
<1> DEFINE y == [x EXCEPT !.echoSeq = x.una, !.ecn = "ECE_RCVD"]
           z == [x EXCEPT !.ecn = "IDLE"]
<1>7. /\ IsTcb(y) /\ y.cong = x.cong /\ y.una = x.una /\ y.nxt = x.nxt
      /\ y.recover = x.recover /\ y.prrOut = x.prrOut /\ y.cWnd = x.cWnd
      /\ y.ssThresh = x.ssThresh
  BY <1>5 DEF IsTcb, Fields
<1>8. /\ z.cong = x.cong /\ z.una = x.una /\ z.nxt = x.nxt
      /\ z.recover = x.recover /\ z.prrOut = x.prrOut /\ z.cWnd = x.cWnd
      /\ z.ssThresh = x.ssThresh
  BY <1>5 DEF IsTcb, Fields
<1>9. \/ f \in {x, y, z}
      \/ f = EnterCwr(y, delivered) /\ delivered > 0
  <2>1. f = x \/ f = z \/ f = y \/ (f = EnterCwr(y, delivered) /\ delivered > 0)
    <3> HIDE DEF f, y, z
    <3>1. EceFlag(x, delivered, ece) =
             IF delivered > 0 /\ ece
             THEN IF x.echoSeq < x.una THEN IF y.cong # "CWR" THEN EnterCwr(y, delivered) ELSE y
                  ELSE x
             ELSE IF x.ecn = "ECE_RCVD" /\ ~ ece THEN z ELSE x
      BY DEF EceFlag, y, z
    <3> QED BY <1>3, <3>1
  <2> QED BY <2>1
<1>10. f.una = ack /\ f.nxt = r.nxt
  BY FlagsReadStep
<1> HIDE DEF f, y, z
<1>11. ASSUME f = EnterCwr(y, delivered), delivered > 0
       PROVE  PhaseInv(f) /\ RoomAfterFlags(f, ack - r.una)
  <2>1. f.prrOut = 0 /\ f.cong = "CWR" /\ f.recover = y.nxt
    <3> DEFINE e == EnterCwr(y, delivered)
    <3>1. e.prrOut = 0 /\ e.cong = "CWR" /\ e.recover = y.nxt
      BY <1>7, EnterCwrWindow, Zenon
    <3>2. f = e
      BY <1>11
    <3> QED BY <3>1, <3>2, Zenon
  <2> QED BY <1>1, <1>2, <1>5, <1>7, <1>10, <1>11, <2>1 DEF PhaseInv, RoomAfterFlags
<1>12. ASSUME f \in {x, y, z}
       PROVE  PhaseInv(f) /\ RoomAfterFlags(f, ack - r.una)
  BY <1>6, <1>7, <1>8, <1>12 DEF PhaseInv, RoomAfterFlags
<1> QED BY <1>9, <1>11, <1>12 DEF f

LEMMA ProcessAckClock ==
    ASSUME NEW r, SocketTypes(r), NEW segs \in Nat,
           r.cong = "CWR" /\ segs > 0 /\ r.una < r.nxt => r.prrFlight > 0,
           PhaseInv(r), RoomAfterFlags(r, segs)
    PROVE  ClockInv(ProcessAck(r, segs))
<1> DEFINE c == PktsAcked(r, CountedSegs(segs))
           q == ProcessAck(r, segs)
<1>0. IsTcb(r) /\ SeqTypes(r) /\ ModeTypes(r) /\ WinTypes(r) /\ EstTypes(r)
  BY DEF SocketTypes
<1>1. /\ r.una \in Nat /\ r.nxt \in Nat /\ r.una <= r.nxt /\ r.recover \in Nat
      /\ r.cong \in {"OPEN", "CWR"} /\ r.cWnd \in Nat /\ r.ssThresh \in Nat
      /\ Seg \in Nat \ {0}
  BY <1>0, Positive DEF SeqTypes, ModeTypes, WinTypes
<1>2. CountedSegs(segs) \in Nat \ {0}
  BY DEF CountedSegs
<1>3. /\ IsTcb(c) /\ WinTypes(c) /\ c.prrOut = r.prrOut
      /\ SameMode(c, r) /\ SameSent(c, r)
      /\ \/ c.cWnd = r.cWnd /\ c.ssThresh = r.ssThresh
         \/ c.cWnd >= Seg
  BY <1>0, <1>2, PktsAckedStep, PktsAckedWindow
<1>4. /\ q.una = r.una /\ q.nxt = r.nxt /\ q.cong = r.cong /\ q.recover = r.recover
  BY ProcessAckStep DEF SameMode, SameSent
<1> HIDE DEF c
<1>5. CASE segs = 0 /\ r.una = r.nxt
  <2>1. q = r
    BY <1>5 DEF ProcessAck
  <2> HIDE DEF q
  <2> QED BY <1>1, <1>5, <2>1 DEF ClockInv, PhaseInv, RoomInv, RoomAfterFlags, q
<1>6. CASE segs = 0 /\ r.una # r.nxt
  <2>1. q = c
    BY <1>6 DEF ProcessAck, CountedSegs, c
  <2> HIDE DEF q
  <2>2. PhaseInv(q) /\ RoomInv(q)
    BY <1>1, <1>3, <1>4, <1>6, <2>1 DEF PhaseInv, RoomInv, RoomAfterFlags
  <2> QED BY <2>2 DEF ClockInv, q
<1>7. CASE segs > 0 /\ r.cong = "CWR"
  <2> DEFINE flight == BytesInFlight(r)
  <2>1. r.nxt - r.una \in Nat
    BY <1>1
  <2>2. flight \in Nat /\ (flight > 0 => r.una < r.nxt)
    <3>1. r.una = r.nxt => flight = 0
      BY <1>1 DEF BytesInFlight
    <3> QED BY <1>1, <2>1, <3>1, SegBytes DEF BytesInFlight
  <2>3. segs * Seg \in Nat
    BY SegBytes
  <2>4. c.ssThresh \in Nat /\ c.prrFlight = r.prrFlight
    BY <1>3 DEF WinTypes, SameMode
  <2> HIDE DEF flight
  <2>5. flight > c.ssThresh => c.prrFlight > 0
    BY <1>7, <2>2, <2>4
  <2>6. q = DoRecovery(c, flight, segs * Seg, FALSE)
    <3>1. c = PktsAcked(r, segs)
      BY <1>7 DEF CountedSegs, c
    <3>2. segs # 0
      BY <1>7
    <3>3. q = DoRecovery(PktsAcked(r, segs), BytesInFlight(r), segs * Seg, FALSE)
      BY <1>7, <3>2, Zenon DEF ProcessAck
    <3> HIDE DEF q
    <3> QED BY <3>1, <3>3 DEF flight
  <2> HIDE DEF q
  <2>7. WinTypes(q) /\ q.prrOut = r.prrOut /\ (r.prrOut = 0 => q.cWnd >= flight + Seg)
    BY <1>3, <2>2, <2>3, <2>5, <2>6, DoRecoveryFrame, RecoveryWindow
  <2>8. q.cWnd \in Nat
    BY <2>7 DEF WinTypes
  <2>9. PhaseInv(q)
    BY <1>4, <2>7 DEF PhaseInv
  <2>10. RoomInv(q)
    BY <1>1, <1>4, <1>7, <2>2, <2>7, <2>8 DEF PhaseInv, RoomInv
  <2> QED BY <2>9, <2>10 DEF ClockInv, q
<1>8. CASE segs > 0 /\ r.cong = "OPEN"
  <2>1. q = IncreaseWindow(c, segs)
    BY <1>8 DEF ProcessAck, CountedSegs, c
  <2> HIDE DEF q
  <2>2. c.cWnd >= Seg \/ c.cWnd = c.ssThresh
    BY <1>3, <1>8 DEF RoomAfterFlags
  <2>3. q.cWnd >= Seg
    BY <1>3, <1>8, <2>1, <2>2, IncreaseWindowToSeg
  <2>4. PhaseInv(q) /\ RoomInv(q)
    BY <1>4, <1>8, <2>3 DEF PhaseInv, RoomInv
  <2> QED BY <2>4 DEF ClockInv, q
<1> QED BY <1>1, <1>5, <1>6, <1>7, <1>8

\* After SendPendingData nothing that was written waits for an empty flight.
LEMMA SendClock ==
    ASSUME NEW r, SocketTypes(r), ClockInv(r)
    PROVE  LET q == SendPendingData(r) IN
           ClockInv(q) /\ (q.una = q.nxt => q.nxt = q.end)
<1> DEFINE q == SendPendingData(r)
<1>0. IsTcb(r) /\ SeqTypes(r) /\ ModeTypes(r) /\ WinTypes(r)
  BY DEF SocketTypes
<1>1. /\ SeqTypes(q) /\ SameMode(q, r)
      /\ q.cWnd = r.cWnd /\ q.nxt \in Nat /\ q.nxt >= r.nxt
      /\ q.nxt = r.nxt => q.prrOut = r.prrOut
      /\ r.una = r.nxt /\ r.cWnd >= Seg /\ r.nxt < r.end => q.nxt > r.nxt
  BY <1>0, SendStep, SendWindow
<1> HIDE DEF q
<1>2. /\ r.una \in Nat /\ r.nxt \in Nat /\ r.end \in Nat /\ r.una <= r.nxt
      /\ r.nxt <= r.end /\ r.recover \in Nat /\ q.nxt <= q.end
  BY <1>0, <1>1, Positive DEF SeqTypes
<1>3. q.una = r.una /\ q.end = r.end /\ q.cong = r.cong /\ q.recover = r.recover
  BY <1>1 DEF SameMode
<1>4. PhaseInv(q)
  BY <1>1, <1>2, <1>3 DEF ClockInv, PhaseInv
<1>5. RoomInv(q)
  BY <1>1, <1>2, <1>3 DEF ClockInv, RoomInv
<1>6. q.una = q.nxt => q.nxt = q.end
  BY <1>1, <1>2, <1>3 DEF ClockInv, RoomInv
<1> QED BY <1>4, <1>5, <1>6 DEF ClockInv, q

(***************************************************************************)
(* The steps                                                               *)
(***************************************************************************)
LEMMA AckClock ==
    ASSUME IInv, ClockInv(tcb), NEW ack \in 1 .. DataEnd + 1, NEW ece \in BOOLEAN,
           NEW rtt \in Rtts \cup {tcb.lastRtt}, Ack(ack, ece, rtt)
    PROVE  ClockInv(tcb') /\ NoStall'
<1> DEFINE r == [tcb EXCEPT !.lastRtt = rtt]
           segs == ack - r.una
           f == FlagsRead(r, ack, ece)
           p == ProcessAck(f, segs)
<1>0. IsTcb(tcb) /\ SeqTypes(tcb) /\ ModeTypes(tcb) /\ WinTypes(tcb) /\ EstTypes(tcb)
  BY DEF IInv, SocketTypes
<1>1. /\ tcb.una \in Nat /\ tcb.nxt \in Nat /\ tcb.una <= tcb.nxt /\ tcb.recover \in Nat
      /\ tcb.echoSeq <= tcb.una /\ rtt \in Nat
  BY <1>0, Positive, DstcpConstants DEF IInv, SeqTypes, EstTypes
<1>2. /\ IsTcb(r) /\ SameSent(r, tcb) /\ SameCounts(r, tcb)
      /\ r.una = tcb.una /\ r.end = tcb.end /\ r.cong = tcb.cong /\ r.recover = tcb.recover
      /\ r.echoSeq = tcb.echoSeq /\ r.prrFlight = tcb.prrFlight /\ r.lastRtt = rtt
      /\ r.tdcv = tcb.tdcv /\ r.cuts = tcb.cuts
      /\ r.cWnd = tcb.cWnd /\ r.ssThresh = tcb.ssThresh /\ r.cWndCnt = tcb.cWndCnt
      /\ r.prrDelivered = tcb.prrDelivered /\ r.prrOut = tcb.prrOut
  BY <1>0 DEF SameSent, SameCounts, IsTcb, Fields
<1>3. tcb' = SendPendingData(p) /\ ack \in tcb.una .. tcb.nxt
  BY DEF Ack, ReceivedAck
<1> HIDE DEF r
<1>4. SocketTypes(r)
  <2>1. SeqTypes(r) /\ ModeTypes(r)
    BY <1>0, <1>2 DEF SeqTypes, ModeTypes, SameSent, SameCounts
  <2>2. WinTypes(r)
    BY <1>0, <1>2 DEF WinTypes
  <2>3. EstTypes(r)
    BY <1>0, <1>1, <1>2 DEF EstTypes, SameCounts
  <2> QED BY <1>2, <2>1, <2>2, <2>3 DEF SocketTypes
<1>5. ClockInv(r)
  BY <1>2 DEF ClockInv, PhaseInv, RoomInv, SameSent
<1>6. r.echoSeq <= r.una /\ ack \in r.una .. r.nxt /\ segs \in Nat
  BY <1>1, <1>2, <1>3 DEF SameSent
<1>7. /\ SocketTypes(f) /\ f.una = ack /\ f.nxt = r.nxt
      /\ NoCut(f, r, ack) \/ CutBegins(f, r, ack)
      /\ PhaseInv(f) /\ RoomAfterFlags(f, segs)
  BY <1>4, <1>5, <1>6, FlagsReadStep, FlagsReadClock
<1> HIDE DEF f
<1>8. f.cong = "CWR" /\ segs > 0 /\ f.una < f.nxt => f.prrFlight > 0
  <2>1. CASE NoCut(f, r, ack)
    BY <1>1, <1>2, <1>6, <1>7, <2>1 DEF NoCut, IInv, CwrInv, SameSent
  <2>2. CASE CutBegins(f, r, ack)
    <3>1. f.una < f.nxt => r.nxt - ack \in Nat /\ r.nxt - ack > 0
      BY <1>1, <1>2, <1>3, <1>7 DEF SameSent
    <3>2. f.prrFlight = (r.nxt - ack) * Seg
      BY <2>2 DEF CutBegins
    <3> QED BY <3>1, <3>2, SegBytes
  <2> QED BY <1>7, <2>1, <2>2
<1> HIDE DEF segs
<1>9. SocketTypes(p) /\ ClockInv(p)
  BY <1>6, <1>7, <1>8, ProcessAckStep, ProcessAckClock
<1> HIDE DEF p
<1>10. ClockInv(tcb') /\ (tcb'.una = tcb'.nxt => tcb'.nxt = tcb'.end)
  BY <1>3, <1>9, SendClock
<1>11. tcb'.nxt \in Nat
  BY NextStep, Positive DEF IInv, SocketTypes, SeqTypes, Next
<1> QED BY <1>10, <1>11 DEF NoStall

\* A write finds room for an event if nothing is in flight.
LEMMA WriteClock ==
    ASSUME IInv, ClockInv(tcb), NEW n \in Writes, Send(n)
    PROVE  ClockInv(tcb') /\ NoStall'
<1>1. /\ IsTcb(tcb) /\ tcb.una \in Nat /\ tcb.nxt \in Nat /\ tcb.cWnd \in Nat
      /\ Seg \in Nat \ {0}
  BY Positive DEF IInv, SocketTypes, SeqTypes, WinTypes
<1> DEFINE event == tcb.event \/ tcb.cWnd > BytesInFlight(tcb)
           end == tcb.end + n
<1>2. tcb' = [tcb EXCEPT !.end = end, !.event = event]
  BY <1>1 DEF Send, IsTcb, Fields
<1> HIDE DEF event, end
<1>3. /\ tcb'.una = tcb.una /\ tcb'.nxt = tcb.nxt /\ tcb'.cong = tcb.cong
      /\ tcb'.recover = tcb.recover /\ tcb'.prrOut = tcb.prrOut /\ tcb'.cWnd = tcb.cWnd
      /\ tcb'.event = event
  BY <1>1, <1>2 DEF IsTcb, Fields
<1>4. ClockInv(tcb')
  BY <1>3 DEF ClockInv, PhaseInv, RoomInv
<1>5. tcb.una = tcb.nxt => event
  <2> SUFFICES ASSUME tcb.una = tcb.nxt PROVE event
    OBVIOUS
  <2>1. BytesInFlight(tcb) = 0
    BY <1>1 DEF BytesInFlight
  <2>2. tcb.cWnd > BytesInFlight(tcb)
    BY <1>1, <2>1 DEF ClockInv, RoomInv
  <2> QED BY <2>2, Zenon DEF event
<1> QED BY <1>3, <1>4, <1>5 DEF NoStall

LEMMA SendEventClock ==
    ASSUME IInv, ClockInv(tcb), SendEvent
    PROVE  ClockInv(tcb') /\ NoStall'
<1> DEFINE r == [tcb EXCEPT !.event = FALSE]
<1>0. IsTcb(tcb) /\ SeqTypes(tcb) /\ ModeTypes(tcb) /\ WinTypes(tcb) /\ EstTypes(tcb)
  BY DEF IInv, SocketTypes
<1>1. /\ IsTcb(r) /\ SameSent(r, tcb) /\ SameCounts(r, tcb)
      /\ r.una = tcb.una /\ r.end = tcb.end /\ r.cong = tcb.cong /\ r.recover = tcb.recover
      /\ r.echoSeq = tcb.echoSeq /\ r.prrFlight = tcb.prrFlight
      /\ r.lastRtt = tcb.lastRtt /\ r.tdcv = tcb.tdcv /\ r.cuts = tcb.cuts
      /\ r.cWnd = tcb.cWnd /\ r.ssThresh = tcb.ssThresh /\ r.cWndCnt = tcb.cWndCnt
      /\ r.prrDelivered = tcb.prrDelivered /\ r.prrOut = tcb.prrOut
  BY <1>0 DEF SameSent, SameCounts, IsTcb, Fields
<1>2. tcb' = SendPendingData(r)
  BY DEF SendEvent
<1> HIDE DEF r
<1>3. SocketTypes(r)
  <2>1. SeqTypes(r) /\ ModeTypes(r)
    BY <1>0, <1>1 DEF SeqTypes, ModeTypes, SameSent, SameCounts
  <2>2. WinTypes(r)
    BY <1>0, <1>1 DEF WinTypes
  <2>3. EstTypes(r)
    BY <1>0, <1>1 DEF EstTypes, SameCounts
  <2> QED BY <1>1, <2>1, <2>2, <2>3 DEF SocketTypes
<1>4. ClockInv(r)
  BY <1>1 DEF ClockInv, PhaseInv, RoomInv, SameSent
<1>5. ClockInv(tcb') /\ (tcb'.una = tcb'.nxt => tcb'.nxt = tcb'.end)
  BY <1>2, <1>3, <1>4, SendClock
<1>6. tcb'.nxt \in Nat
  BY SendKeeps, Positive DEF IInv, SocketTypes, SeqTypes
<1> QED BY <1>5, <1>6 DEF NoStall

\* The sender never waits for an ACK that cannot come: with nothing in flight, what
\* the application has written is about to be sent.  No reduction by alpha or beta, no
\* end of a CWR phase and no wrapped product of PRR leaves less than a segment then.
THEOREM NeverStalls ==
    ASSUME InitAckedRtt \subseteq {0}
    PROVE  Spec => []NoStall
<1>1. Init => ClockInv(tcb) /\ NoStall
  <2> SUFFICES ASSUME Init PROVE ClockInv(tcb) /\ NoStall
    OBVIOUS
  <2>1. /\ tcb.cong = "OPEN" /\ tcb.cWnd = InitCwnd * Seg
        /\ tcb.nxt = 1 /\ tcb.end = 1
    BY DEF Init
  <2>2. InitCwnd * Seg >= Seg
    BY Positive
  <2> QED BY <2>1, <2>2 DEF ClockInv, PhaseInv, RoomInv, NoStall
<1>2. ASSUME IInv, ClockInv(tcb), NoStall, [Next]_vars
      PROVE  ClockInv(tcb') /\ NoStall'
  <2>1. ASSUME NEW ack \in 1 .. DataEnd + 1, NEW ece \in BOOLEAN,
               NEW rtt \in Rtts \cup {tcb.lastRtt}, Ack(ack, ece, rtt)
        PROVE  ClockInv(tcb') /\ NoStall'
    BY <1>2, <2>1, AckClock
  <2>2. ASSUME NEW n \in Writes, Send(n)
        PROVE  ClockInv(tcb') /\ NoStall'
    BY <1>2, <2>2, WriteClock
  <2>3. CASE SendEvent
    BY <1>2, <2>3, SendEventClock
  <2>4. CASE UNCHANGED vars
    BY <1>2, <2>4 DEF vars, NoStall
  <2> QED BY <1>2, <2>1, <2>2, <2>3, <2>4 DEF Next
<1> DEFINE Clock == ClockInv(tcb) /\ NoStall
<1>3. Init => Clock
  BY <1>1
<1>4. IInv /\ Clock /\ [Next]_vars => Clock'
  BY <1>2
<1>5. Clock => NoStall
  OBVIOUS
<1> HIDE DEF Clock
<1> QED BY <1>3, <1>4, <1>5, Inductive, PTL DEF Spec
=============================================================================
