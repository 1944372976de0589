----------------------------- MODULE TcpWindow ------------------------------
(***************************************************************************)
(* What a TCP sender does to its congestion window: TcpPrrRecovery with    *)
(* its default bound SSRB, in a CWR or a recovery phase, and TcpLinuxReno, *)
(* the parent of TcpDstcp, outside one.                                    *)
(*                                                                         *)
(* Operators map the socket, a record r, to the next one; they use the     *)
(* fields cWnd, ssThresh, cWndCnt, prrDelivered, prrOut and prrFlight.     *)
(* flight is m_bytesInFlight, windows and counters are bytes.              *)
(***************************************************************************)
EXTENDS Integers, FiniteSetsExt

CONSTANTS
    Seg,     \* m_segmentSize
    WrapAt   \* where a uint32_t wraps

ASSUME WindowConstants == {Seg, WrapAt} \subseteq Nat \ {0}

(***************************************************************************)
(* TcpPrrRecovery                                                          *)
(***************************************************************************)
Ceil(a, b) == (a + b - 1) \div b

\* the bytes PRR wants to send: in proportion while the flight exceeds the
\* threshold, whose product has 32 bits; then up to it, as fast as slow start
Wanted(r, flight, delivered, retransAcked) ==
    LET ahead == r.prrDelivered - r.prrOut
        limit == IF retransAcked THEN (IF ahead < 0 THEN ahead ELSE Max({ahead, delivered})) + Seg
                 ELSE delivered
    IN  IF flight > r.ssThresh
        THEN Ceil((r.prrDelivered * r.ssThresh) % WrapAt, r.prrFlight) - r.prrOut
        ELSE Min({limit, r.ssThresh - flight})

\* seeded fault: no segment is forced out when the phase begins
SendCount_NotForced(r, flight, delivered, retransAcked) ==
    Max({Wanted(r, flight, delivered, retransAcked), 0})

SendCount(r, flight, delivered, retransAcked) ==
    Max({Wanted(r, flight, delivered, retransAcked), IF r.prrOut > 0 THEN 0 ELSE Seg})

DoRecovery(r, flight, delivered, retransAcked) ==
    LET q == [r EXCEPT !.prrDelivered = @ + delivered]
    IN  [q EXCEPT !.cWnd = flight + SendCount(q, flight, delivered, retransAcked)]

\* seeded fault: the bytes just delivered are taken off the flight once more
PrrEnterRecovery_LessFlight(r, flight, unacked, delivered, retransAcked) ==
    DoRecovery([r EXCEPT !.prrOut = 0, !.prrDelivered = 0,
                         !.prrFlight = Max({unacked - delivered, 0})],
               flight, delivered, retransAcked)

PrrEnterRecovery(r, flight, unacked, delivered, retransAcked) ==
    DoRecovery([r EXCEPT !.prrOut = 0, !.prrDelivered = 0, !.prrFlight = unacked],
               flight, delivered, retransAcked)

(***************************************************************************)
(* TcpLinuxReno                                                            *)
(***************************************************************************)
SlowStart(r, segs) ==
    IF segs = 0 THEN r ELSE [r EXCEPT !.cWnd = Min({@ + segs * Seg, r.ssThresh})]

CongestionAvoidance(r, segs) ==
    LET w == Max({r.cWnd \div Seg, 1})
        full == r.cWndCnt >= w
        cnt == (IF full THEN 0 ELSE r.cWndCnt) + segs
    IN  [r EXCEPT !.cWnd = @ + ((IF full THEN 1 ELSE 0) + cnt \div w) * Seg,
                  !.cWndCnt = cnt % w]

IncreaseWindow(r, segs) ==
    IF r.cWnd < r.ssThresh THEN SlowStart(r, segs) ELSE CongestionAvoidance(r, segs)
=============================================================================
