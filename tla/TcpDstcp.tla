------------------------------ MODULE TcpDstcp ------------------------------
(***************************************************************************)
(* The sender's half of the feedback loop: a TcpSocketBase in ESTABLISHED  *)
(* that runs TcpDstcp.  ECE flags and round trip times become the          *)
(* estimates alpha and beta, alpha becomes the reduction of a CWR phase,   *)
(* beta an immediate cut, and TcpPrrRecovery spreads the former over the   *)
(* ACKs of the phase.                                                      *)
(*                                                                         *)
(* Handlers run to completion, one per simulator event: an ACK arrives     *)
(* (ReceivedAck) or the application writes (Send).  As in TcpEcnEcho the   *)
(* state they share is one record that each call maps to the next.         *)
(*                                                                         *)
(* Scope: no segment is lost (loss recovery is a matter of the tx buffer), *)
(* so m_nextTxSequence is m_highTxMark and an ACK has no SACK blocks; ACKs *)
(* may be lost, merged and repeated.  SACK is enabled, the receive window  *)
(* never limits the sender, pacing is off.  Sequence numbers count         *)
(* segments from 1, windows and counters count bytes.  The doubles alpha   *)
(* and beta are multiples of 1/Scale rounded down.  The window arithmetic  *)
(* of TcpPrrRecovery and TcpLinuxReno is in TcpWindow.                     *)
(***************************************************************************)
EXTENDS TcpWindow

CONSTANTS
    DataEnd,      \* bound: the application writes segments 1 .. DataEnd
    MaxDup,       \* bound: segments counted in a window up to which an ACK is repeated
    Writes,       \* how many segments one Send may write
    InitCwnd,     \* InitialCwnd, in segments
    InitSsThresh, \* InitialSsthresh, in bytes
    Scale,        \* alpha and beta are multiples of 1/Scale
    Gain,         \* m_g is 1/Gain
    Rtts,         \* the values m_lastRtt may take, in microseconds
    InitMinRtt,   \* DstcpMinRtt
    InitTdcv,     \* the values m_tdcv may start with
    InitAckedRtt  \* the values m_ackedBytesRtt may start with

ASSUME DstcpConstants ==
    /\ {DataEnd, MaxDup, InitCwnd, InitSsThresh, Scale, Gain, InitMinRtt} \subseteq Nat \ {0}
    /\ Writes \subseteq Nat \ {0} /\ Rtts \subseteq Nat \ {0}
    /\ InitTdcv \subseteq Nat /\ InitAckedRtt \subseteq Nat

VARIABLES
    tcb,   \* the socket, the fields below
    hist   \* history: what the properties compare the socket with
           \*   echo    an ACK with a valid echo came since the last estimate
           \*   slow    an ACK with more than the least round trip time did
           \*   base    una when the last observation window ended
           \*   cutAt   nxt when the last CWR phase was entered
           \*   target  what GetSsThresh returned then

vars == <<tcb, hist>>

Socket == [
    una       : 1 .. DataEnd + 1,    \* m_txBuffer->HeadSequence ()
    nxt       : 1 .. DataEnd + 1,    \* m_nextTxSequence, m_highTxMark
    end       : 1 .. DataEnd + 1,    \* the end of what was written
    cWnd      : Nat,                 \* m_cWnd
    ssThresh  : Nat,                 \* m_ssThresh
    cWndCnt   : Nat,                 \* m_cWndCnt of TcpLinuxReno
    cong      : {"OPEN", "CWR"},     \* m_congState
    recover   : 0 .. DataEnd + 1,    \* m_recover
    ecn       : {"IDLE", "ECE_RCVD", "CWR_SENT"},  \* m_ecnState
    echoSeq   : 0 .. DataEnd + 1,    \* m_ecnEchoSeq
    cwrSeq    : 0 .. DataEnd + 1,    \* m_ecnCWRSeq
    prrDelivered : Nat,              \* the three counters of TcpPrrRecovery
    prrOut    : Nat,
    prrFlight : Nat,
    ackedTotal : Nat,                \* m_ackedBytesTotal, Ecn and Rtt
    ackedEcn  : Nat,
    ackedRtt  : Nat,
    nextSeq   : 0 .. DataEnd + 1,    \* m_nextSeq, 0 while m_nextSeqFlag is false
    alpha     : 0 .. Scale,
    beta      : 0 .. Scale,
    minRtt    : Nat,
    lastRtt   : Nat,                 \* m_lastRtt
    tdcv      : Nat,
    event     : BOOLEAN,             \* m_sendPendingDataEvent is pending
    cuts      : 0 .. 1 ]             \* history: how often EnterCwr ran, mod 2

BytesInFlight(r) == (r.nxt - r.una) * Seg

(***************************************************************************)
(* TcpDstcp                                                                *)
(***************************************************************************)
Reduced(cWnd, estimate) == (cWnd * (2 * Scale - estimate)) \div (2 * Scale)

GetSsThresh(r) == Reduced(r.cWnd, r.alpha)

\* (1 - g) * estimate + g * part / total
Ewma(estimate, part, total) ==
    ((Gain - 1) * estimate * total + Scale * part) \div (Gain * total)

\* seeded fault: the marked bytes of a window are carried into the next
Reset_KeepsEcn(r) == [r EXCEPT !.nextSeq = r.nxt, !.ackedRtt = 0, !.ackedTotal = 0]

Reset(r) == [r EXCEPT !.nextSeq = r.nxt, !.ackedEcn = 0, !.ackedRtt = 0, !.ackedTotal = 0]

\* the segments a queue holds, by the DC-Vegas estimate
QueueLength(r) ==
    LET segCwnd == r.cWnd \div Seg
    IN  segCwnd - (segCwnd * r.minRtt) \div r.lastRtt

\* seeded fault: a queue one shorter than the threshold counts
CountRtt_Early(r, bytes) ==
    IF r.lastRtt = 0 THEN r
    ELSE LET q == [r EXCEPT !.minRtt = Min({@, r.lastRtt})]
         IN  IF QueueLength(q) + 1 >= q.tdcv THEN [q EXCEPT !.ackedRtt = @ + bytes] ELSE q

CountRtt(r, bytes) ==
    IF r.lastRtt = 0 THEN r
    ELSE LET q == [r EXCEPT !.minRtt = Min({@, r.lastRtt})]
         IN  IF QueueLength(q) >= q.tdcv THEN [q EXCEPT !.ackedRtt = @ + bytes] ELSE q

Count(r, bytes) ==
    [CountRtt([r EXCEPT !.ackedTotal = @ + bytes], bytes) EXCEPT
        !.ackedEcn = IF r.ecn = "ECE_RCVD" THEN @ + bytes ELSE @,
        !.nextSeq = IF @ = 0 THEN r.nxt ELSE @]

\* a window with slow round trips and no echo cuts the window at once
RttCut(r) ==
    LET cut == Max({Reduced(r.cWnd, r.beta), 2 * Seg})
    IN  [r EXCEPT !.cWnd = cut, !.ssThresh = cut]

\* seeded fault: a window with echoes takes the immediate cut as well
EndOfWindow_CutsAlways(r) ==
    LET q == [r EXCEPT !.alpha = Ewma(@, r.ackedEcn, r.ackedTotal),
                       !.beta = Ewma(@, r.ackedRtt, r.ackedTotal)]
    IN  Reset(IF r.ackedEcn > 0 \/ r.ackedRtt > 0 THEN RttCut(q) ELSE q)

EndOfWindow(r) ==
    LET q == [r EXCEPT !.alpha = Ewma(@, r.ackedEcn, r.ackedTotal),
                       !.beta = Ewma(@, r.ackedRtt, r.ackedTotal)]
    IN  Reset(IF r.ackedEcn = 0 /\ r.ackedRtt > 0 THEN RttCut(q) ELSE q)

\* seeded fault: an ACK of several segments counts as one of them
PktsAcked_One(r, segs) ==
    LET q == Count(r, Seg)
    IN  IF q.una >= q.nextSeq THEN EndOfWindow(q) ELSE q

\* m_lastAckedSeq is the head of the buffer by now
PktsAcked(r, segs) ==
    LET q == Count(r, segs * Seg)
    IN  IF q.una >= q.nextSeq THEN EndOfWindow(q) ELSE q

(***************************************************************************)
(* TcpSocketBase                                                           *)
(***************************************************************************)
\* the segments that fit the window; less than a segment waits (silly window)
Sendable(r) ==
    LET room == r.cWnd - BytesInFlight(r)
    IN  IF room < Seg THEN 0 ELSE Min({r.end - r.nxt, room \div Seg})

\* n new segments leave; the first of them answers an echo with CWR
SendDataPacket(r, n) ==
    LET cwr == r.ecn = "ECE_RCVD" /\ r.echoSeq > r.cwrSeq
    IN  [r EXCEPT !.nxt = @ + n,
                  !.prrOut = IF r.cong = "CWR" THEN @ + n * Seg ELSE @,
                  !.ecn = IF cwr THEN "CWR_SENT" ELSE @,
                  !.cwrSeq = IF cwr THEN r.nxt ELSE @]

SendPendingData(r) == IF Sendable(r) = 0 THEN r ELSE SendDataPacket(r, Sendable(r))

EnterCwr(r, delivered) ==
    PrrEnterRecovery([r EXCEPT !.ssThresh = GetSsThresh(r), !.cong = "CWR",
                               !.recover = r.nxt, !.cuts = 1 - @],
                     BytesInFlight(r), BytesInFlight(r), delivered, FALSE)

\* seeded fault: every echo reduces, also within a CWR phase
EceFlag_Again(r, delivered, ece) ==
    IF delivered > 0 /\ ece
    THEN EnterCwr([r EXCEPT !.echoSeq = r.una, !.ecn = "ECE_RCVD"], delivered)
    ELSE IF r.ecn = "ECE_RCVD" /\ ~ ece THEN [r EXCEPT !.ecn = "IDLE"] ELSE r

\* ReceivedAck, the ECE flag of an ACK that acknowledged bytes delivered
EceFlag(r, delivered, ece) ==
    IF delivered > 0 /\ ece THEN
        IF r.echoSeq < r.una
        THEN LET q == [r EXCEPT !.echoSeq = r.una, !.ecn = "ECE_RCVD"]
             IN  IF q.cong # "CWR" THEN EnterCwr(q, delivered) ELSE q
        ELSE r
    ELSE IF r.ecn = "ECE_RCVD" /\ ~ ece THEN [r EXCEPT !.ecn = "IDLE"]
    ELSE r

ExitCwr(r) ==
    IF r.cong = "CWR" /\ r.una > r.recover
    THEN [r EXCEPT !.cong = "OPEN", !.cWnd = r.ssThresh] ELSE r

ProcessAck(r, segs) ==
    IF segs = 0 THEN IF r.una = r.nxt THEN r ELSE PktsAcked(r, 1)
    ELSE IF r.cong = "CWR"
    THEN DoRecovery(PktsAcked(r, segs), BytesInFlight(r), segs * Seg, FALSE)
    ELSE IncreaseWindow(PktsAcked(r, segs), segs)

\* the socket once the flags of an ACK are read, and once it is processed
FlagsRead(r, ack, ece) ==
    EceFlag(ExitCwr([r EXCEPT !.una = ack]), (ack - r.una) * Seg, ece)

\* seeded fault: data is sent before the ACK is counted
ReceivedAck_SendsFirst(r, ack, ece) ==
    ProcessAck(SendPendingData(FlagsRead(r, ack, ece)), ack - r.una)

ReceivedAck(r, ack, ece) ==
    SendPendingData(ProcessAck(FlagsRead(r, ack, ece), ack - r.una))

(***************************************************************************)
(* The behaviour                                                           *)
(***************************************************************************)
Noted(q, ack, ece, counted) ==
    LET updated == counted /\ q.ackedTotal = 0
        cut == q.cuts # tcb.cuts
        read == FlagsRead([tcb EXCEPT !.lastRtt = q.lastRtt], ack, ece)
    IN  [echo   |-> ~ updated /\ (hist.echo \/ (ece /\ ack > tcb.una)),
         slow   |-> ~ updated /\ (hist.slow \/ q.lastRtt > q.minRtt),
         base   |-> IF updated THEN ack ELSE hist.base,
         cutAt  |-> IF cut THEN tcb.nxt ELSE hist.cutAt,
         target |-> IF cut THEN read.ssThresh ELSE hist.target]

\* an ACK arrives: EstimateRtt, then ReceivedAck
Ack(ack, ece, rtt) ==
    /\ ack \in tcb.una .. tcb.nxt
    /\ ack = tcb.una => tcb.ackedTotal < MaxDup * Seg
    /\ rtt = tcb.lastRtt \/ (rtt \in Rtts /\ ack > tcb.una)
    /\ tcb' = ReceivedAck([tcb EXCEPT !.lastRtt = rtt], ack, ece)
    /\ hist' = Noted(tcb', ack, ece, tcb.una < tcb.nxt)

\* the application writes: the data is buffered, and sent by an event that is
\* scheduled only if the window has room
Send(n) ==
    /\ tcb.end + n <= DataEnd + 1
    /\ tcb' = [tcb EXCEPT !.end = @ + n, !.event = @ \/ tcb.cWnd > BytesInFlight(tcb)]
    /\ hist' = hist

SendEvent ==
    /\ tcb.event
    /\ tcb' = SendPendingData([tcb EXCEPT !.event = FALSE])
    /\ hist' = hist

\* The connection is established; the handshake measured a round trip time,
\* unless it took none.
Init ==
    /\ \E ackedRtt \in InitAckedRtt, tdcv \in InitTdcv, rtt \in Rtts \cup {0} :
          tcb = [una |-> 1, nxt |-> 1, end |-> 1,
                 cWnd |-> InitCwnd * Seg, ssThresh |-> InitSsThresh, cWndCnt |-> 0,
                 cong |-> "OPEN", recover |-> 0, ecn |-> "IDLE", echoSeq |-> 0, cwrSeq |-> 0,
                 prrDelivered |-> 0, prrOut |-> 0, prrFlight |-> 0,
                 ackedTotal |-> 0, ackedEcn |-> 0, ackedRtt |-> ackedRtt, nextSeq |-> 0,
                 alpha |-> Scale, beta |-> Scale, minRtt |-> InitMinRtt, lastRtt |-> rtt,
                 tdcv |-> tdcv, event |-> FALSE, cuts |-> 0]
    /\ hist = [echo |-> FALSE, slow |-> FALSE, base |-> 0,
               cutAt |-> 0, target |-> 0]

Next ==
    \/ \E ack \in 1 .. DataEnd + 1, ece \in BOOLEAN, rtt \in Rtts \cup {tcb.lastRtt} :
          Ack(ack, ece, rtt)
    \/ \E n \in Writes : Send(n)
    \/ SendEvent

Spec == Init /\ [][Next]_vars

(***************************************************************************)
(* Properties                                                              *)
(***************************************************************************)
\* Every field keeps its range; in particular alpha and beta stay between 0
\* and 1, so that a reduction never makes a window negative or larger.
TypeOK ==
    /\ tcb \in Socket
    /\ tcb.una <= tcb.nxt /\ tcb.nxt <= tcb.end

\* "only once per window" (EnterCwr), and "for send windows in which at least
\* one ACK was received with ECE set": an ACK makes the sender reduce exactly if
\* it is a valid echo and acknowledges data sent after the reduction before it.
OneCutPerWindow ==
    [][tcb'.cuts # tcb.cuts <=> tcb'.echoSeq # tcb.echoSeq /\ tcb'.una > hist.cutAt]_vars

\* No acknowledged byte escapes the estimate, and the marked bytes are a part
\* of all the bytes.
Fractions ==
    /\ tcb.ackedEcn <= tcb.ackedTotal
    /\ tcb.ackedRtt <= tcb.ackedTotal
    /\ hist.base > 0 => tcb.ackedTotal >= (tcb.una - hist.base) * Seg

\* An observation window that saw an echo counts it, although sending a CWR
\* ends ECN_ECE_RCVD: such a window never takes the cut for slow round trips.
EchoCounted == hist.echo => tcb.ackedEcn > 0

\* The sender is clocked by ACKs.  With nothing in flight none will come, so
\* written data must then be on its way: no reduction may leave a window too
\* small for a segment.
NoStall == tcb.una = tcb.nxt /\ tcb.nxt < tcb.end => tcb.event

\* The proportional rate reduction never divides by an empty flight.
PrrFlightPositive == tcb.cong = "CWR" /\ tcb.una < tcb.recover => tcb.prrFlight > 0

\* "no packet are marked by ECN, but some packets are marked by RTT": a cut
\* other than that of an echo needs a round trip slower than the fastest in the
\* observation window it ends.
CutNeedsSignal ==
    [][tcb'.ssThresh < tcb.ssThresh =>
          tcb'.cuts # tcb.cuts \/ hist.slow \/ tcb'.lastRtt > tcb'.minRtt]_vars

\* "GetSsThresh() is called upon entering the CWR state, and then later, when
\* CWR is exited, cwnd is set to ssthresh (this value)": nothing touches the
\* threshold of a CWR phase until it is used.
CutHonoured == tcb.cong = "CWR" => tcb.ssThresh = hist.target

\* What holds of it, with and without round trip times: the threshold of a phase
\* stands until everything in flight at its beginning is acknowledged.  The
\* observation window of the echo counts it and takes no cut for slow round
\* trips, and the next one ends with that flight at the earliest.
ThresholdHeld ==
    tcb.cong = "CWR" /\ tcb.una < tcb.recover => tcb.ssThresh = hist.target
=============================================================================
