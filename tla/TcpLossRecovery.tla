-------------------------- MODULE TcpLossRecovery ---------------------------
(***************************************************************************)
(* A TcpSocketBase in ESTABLISHED that sends DataEnd segments through a    *)
(* network that loses and reorders them, loses ACKs and marks packets: the *)
(* scoreboard of TcpTxBuffer, the congestion states, fast recovery with    *)
(* SACK or (as in the experiments of examples/dstcp) without, CWR phases   *)
(* and the retransmission timer.                                           *)
(*                                                                         *)
(* Handlers run to completion, one per simulator event: an ACK arrives     *)
(* (ReceivedAck) or the timer expires (ReTxTimeout).  The socket is one    *)
(* record that each call maps to the next; the segments it has put on the  *)
(* wire are a field of it.  Assertions are those of an optimized build:    *)
(* they do not stop the program.                                           *)
(*                                                                         *)
(* Scope: the application has written everything, in whole segments, and   *)
(* retransmissions are cut as the originals were; the receive window never *)
(* limits the sender; no pacing.  The estimates of TcpDstcp are in         *)
(* TcpDstcp, here alpha is 1, as it starts and when it reduces most.       *)
(***************************************************************************)
EXTENDS TcpWindow, Sequences

CONSTANTS
    DataEnd,      \* bound: the application has written segments 1 .. DataEnd
    Sacks,        \* the values m_sackEnabled may have
    InitCwnd,     \* InitialCwnd, in segments
    InitSsThresh, \* InitialSsthresh, in bytes
    ReTxThresh,   \* m_retxThresh
    DataRetries,  \* m_dataRetries
    MaxLoss,      \* bound: segments and ACKs lost
    MaxEce,       \* bound: ACKs with ECE
    MaxEarly      \* bound: timeouts while something is still on its way

ASSUME LossConstants ==
    /\ {DataEnd, InitCwnd, InitSsThresh, ReTxThresh, DataRetries} \subseteq Nat \ {0}
    /\ {MaxLoss, MaxEce, MaxEarly} \subseteq Nat
    /\ Sacks \subseteq BOOLEAN

VARIABLES
    tcb,      \* the socket, the fields below
    rcvd,     \* the segments the receiver has
    acks,     \* the ACKs on their way, in order
    faults,   \* how many losses, echoes and early timeouts there were
    timeouts, \* history: timeouts since new data was acknowledged
    point     \* history: the highest recovery point of a timeout or a recovery

vars == <<tcb, rcvd, acks, faults, timeouts, point>>

Segments == 1 .. DataEnd

Socket == [
    sackOn   : BOOLEAN,                 \* m_sackEnabled
    una      : 1 .. DataEnd + 1,        \* m_txBuffer->HeadSequence ()
    nxt      : 1 .. DataEnd + 1,        \* m_highTxMark, the end of m_sentList
    sacked   : SUBSET Segments,         \* the flags of the items of m_sentList
    lost     : SUBSET Segments,
    retrans  : SUBSET Segments,
    highSack : 0 .. DataEnd,            \* m_highestSack, 0 if there is none
    flight   : Nat,                     \* m_bytesInFlight
    dupAcks  : Nat,                     \* m_dupAckCount
    cong     : {"OPEN", "DISORDER", "CWR", "RECOVERY", "LOSS"},
    recover  : 0 .. DataEnd + 1,        \* m_recover
    active   : BOOLEAN,                 \* m_recoverActive
    first    : BOOLEAN,                 \* m_isFirstPartialAck
    retransAcked : BOOLEAN,             \* m_isRetransDataAcked
    cWnd     : Nat,
    ssThresh : Nat,
    cWndCnt  : Nat,
    prrDelivered : Nat,
    prrOut   : Nat,
    prrFlight : Nat,
    rto      : BOOLEAN,                 \* m_retxEvent is pending
    retries  : 0 .. DataRetries,        \* m_dataRetrCount
    closed   : BOOLEAN,                 \* given up
    wire     : [Segments -> Nat] ]      \* copies of each segment in the network

(***************************************************************************)
(* TcpTxBuffer                                                             *)
(***************************************************************************)
Sent(r) == r.una .. r.nxt - 1

UnAckDataCount(r) == (r.nxt - r.una) * Seg

BytesInFlight(r) ==
    (r.nxt - r.una - Cardinality(r.sacked) - Cardinality(r.lost) + Cardinality(r.retrans)) * Seg

\* the value that the last call of BytesInFlight left in m_bytesInFlight
Measured(r) == [r EXCEPT !.flight = BytesInFlight(r)]

\* m_highestSack after new segments are marked: one right below it replaces it
HighestSack(r, new) ==
    IF r.highSack = 0 \/ Max(new) + 1 >= r.highSack THEN Max(new) ELSE r.highSack

\* seeded fault: a segment that SACKs arrived around is lost although SACKed
UpdateLostCount_AnySeg(r) ==
    LET above(i) == Cardinality({j \in r.sacked : i <= j /\ j <= r.highSack})
    IN  [r EXCEPT !.lost = @ \cup {i \in r.una .. r.highSack : above(i) >= ReTxThresh}]

\* a segment with enough SACKed ones between it and m_highestSack is lost
UpdateLostCount(r) ==
    LET above(i) == Cardinality({j \in r.sacked : i <= j /\ j <= r.highSack})
    IN  [r EXCEPT !.lost = @ \cup {i \in (r.una .. r.highSack) \ r.sacked :
                                        above(i) >= ReTxThresh}]

NewlySacked(r, blocks) == (blocks \cap Sent(r)) \ r.sacked

Update(r, blocks) ==
    LET new == NewlySacked(r, blocks)
    IN  IF new = {} THEN r
        ELSE UpdateLostCount([r EXCEPT !.sacked = @ \cup new, !.lost = @ \ new,
                                       !.highSack = HighestSack(r, new)])

\* is the first segment from seq on that is marked at all marked as lost?
IsLost(r, seq) ==
    LET marked == {i \in r.lost \cup r.sacked : i >= seq}
    IN  seq < r.highSack /\ marked # {} /\ Min(marked) \in r.lost

MarkHeadAsLost(r) ==
    IF r.una = r.nxt THEN r
    ELSE [r EXCEPT !.sacked = @ \ {r.una}, !.retrans = @ \ {r.una}, !.lost = @ \cup {r.una}]

\* without SACK a duplicate ACK stands for the first segment after the head
AddRenoSack(r) ==
    LET free == (r.una + 1 .. r.nxt - 1) \ r.sacked
    IN  IF free = {} THEN r
        ELSE [r EXCEPT !.sacked = @ \cup {Min(free)}, !.highSack = Min(free)]

\* seeded fault: what was retransmitted stays in the count
DiscardUpTo_KeepsRetrans(r, ack) ==
    LET rest(S) == {i \in S : i >= ack}
        q == [r EXCEPT !.una = ack, !.sacked = rest(@), !.lost = rest(@)]
    IN  IF ack <= r.una THEN r
        ELSE [q EXCEPT !.highSack = IF @ <= ack THEN 0 ELSE @]

DiscardUpTo(r, ack) ==
    LET rest(S) == {i \in S : i >= ack}
        q == [r EXCEPT !.una = ack, !.sacked = rest(@), !.lost = rest(@), !.retrans = rest(@)]
        p == IF ack \in q.sacked
             THEN MarkHeadAsLost(AddRenoSack([q EXCEPT !.sacked = @ \ {ack}])) ELSE q
    IN  IF ack <= r.una THEN r
        ELSE [p EXCEPT !.highSack = IF @ <= ack THEN 0 ELSE @]

\* seeded fault: what was retransmitted still counts as in flight
SetSentListLost_KeepsRetrans(r) ==
    IF r.sackOn THEN [r EXCEPT !.lost = @ \cup (Sent(r) \ r.sacked)]
    ELSE [r EXCEPT !.lost = Sent(r), !.sacked = {}, !.highSack = 0]

\* the guesses of a sender without SACK are forgotten
SetSentListLost(r) ==
    IF r.sackOn THEN [r EXCEPT !.lost = @ \cup (Sent(r) \ r.sacked), !.retrans = {}]
    ELSE [r EXCEPT !.lost = Sent(r), !.retrans = {}, !.sacked = {}, !.highSack = 0]

\* what NextSeg returns first: lost segments not sent again yet
Repairs(r) == r.lost \ (r.retrans \cup r.sacked)

\* the next segment to send, 0 if there is none: a lost one, a new one or, by
\* rule 3, one that is neither lost nor repeated yet
NextSeg(r, rule3) ==
    LET others == Sent(r) \ (r.lost \cup r.sacked \cup r.retrans)
    IN  IF Repairs(r) # {} THEN Min(Repairs(r))
        ELSE IF r.nxt <= DataEnd THEN r.nxt
        ELSE IF rule3 /\ others # {} THEN Min(others) ELSE 0

(***************************************************************************)
(* TcpSocketBase: sending                                                  *)
(***************************************************************************)
\* seeded fault: a retransmission does not start the timer
SendDataPacket_NoTimer(r, seq) ==
    [r EXCEPT !.flight = BytesInFlight(r),
              !.nxt = IF seq = @ THEN @ + 1 ELSE @,
              !.retrans = IF seq < r.nxt THEN @ \cup {seq} ELSE @,
              !.rto = @ \/ seq = r.nxt,
              !.prrOut = IF r.cong \in {"RECOVERY", "CWR"} THEN @ + Seg ELSE @,
              !.wire[seq] = @ + 1]

SendDataPacket(r, seq) ==
    [r EXCEPT !.flight = BytesInFlight(r),
              !.nxt = IF seq = @ THEN @ + 1 ELSE @,
              !.retrans = IF seq < r.nxt THEN @ \cup {seq} ELSE @,
              !.rto = TRUE,
              !.prrOut = IF r.cong \in {"RECOVERY", "CWR"} THEN @ + Seg ELSE @,
              !.wire[seq] = @ + 1]

SendNext(r, rule3) ==
    LET seq == NextSeg(r, rule3)
    IN  IF seq = 0 THEN r ELSE SendDataPacket(r, seq)

\* whole segments, as many as the window has room for, NextSeg permitting
SendPendingData(r) ==
    LET rule3 == r.sackOn /\ r.cong = "RECOVERY"
        room == Max({r.cWnd - BytesInFlight(r), 0}) \div Seg
        sent[k \in 0 .. room] == IF k = 0 THEN r ELSE SendNext(sent[k - 1], rule3)
    IN  Measured(sent[room])

\* the first lost segment, else a new one, else the head once more
DoRetransmit(r) ==
    LET seq == NextSeg(r, FALSE)
    IN  SendDataPacket(r, IF seq = 0 THEN r.una ELSE seq)

(***************************************************************************)
(* TcpSocketBase: congestion states                                        *)
(***************************************************************************)
GetSsThresh(r) == r.cWnd \div 2

EnterPrr(r, delivered) ==
    PrrEnterRecovery(r, r.flight, UnAckDataCount(r), delivered, r.retransAcked)

EnterCwr(r, delivered) ==
    EnterPrr([Measured(r) EXCEPT !.ssThresh = GetSsThresh(r), !.cong = "CWR",
                                 !.recover = r.nxt], delivered)

\* the head is marked as lost unless SACKs have done so
EnterRecovery(r, delivered) ==
    LET marked == IF ~ r.sackOn THEN MarkHeadAsLost(AddRenoSack(r))
                  ELSE IF IsLost(r, r.una) THEN r ELSE MarkHeadAsLost(r)
    IN  DoRetransmit(EnterPrr([Measured(marked) EXCEPT
            !.recover = r.nxt, !.active = TRUE, !.cong = "RECOVERY",
            !.ssThresh = GetSsThresh(r)], delivered))

\* the third duplicate, or a loss seen by the scoreboard
MustRecover(r) ==
    \/ r.dupAcks = ReTxThresh /\ (r.una >= r.recover \/ ~ r.active)
    \/ IsLost(r, r.una + 1)

DupAck(r, delivered) ==
    LET q == [r EXCEPT !.dupAcks = IF r.cong # "RECOVERY" THEN @ + 1 ELSE @,
                       !.cong = IF @ = "OPEN" THEN "DISORDER" ELSE @]
        guessed == IF r.sackOn THEN q ELSE AddRenoSack(q)
    IN  CASE q.cong = "LOSS" -> r
          [] q.cong = "CWR" -> q
          [] q.cong = "RECOVERY" -> DoRecovery(guessed, q.flight, delivered, q.retransAcked)
          [] q.cong = "DISORDER" -> IF MustRecover(q) THEN EnterRecovery(q, delivered) ELSE guessed

\* seeded fault: new data acknowledged does not restore the retries
NewAck_KeepsRetries(r, resetRTO) ==
    [r EXCEPT !.rto = (@ \/ resetRTO) /\ r.una <= DataEnd]

\* no timer once the buffer is empty
NewAck(r, resetRTO) ==
    [r EXCEPT !.retries = DataRetries, !.rto = (@ \/ resetRTO) /\ r.una <= DataEnd]

\* an ACK below the recovery point, within a recovery phase
PartialAck(r, delivered) ==
    LET marked == IF r.sackOn THEN r ELSE MarkHeadAsLost(r)
        q == DoRecovery(marked, r.flight, delivered, r.retransAcked)
        p == IF q.una \in q.retrans \ q.sacked THEN q ELSE DoRetransmit(q)
    IN  [NewAck(p, r.first) EXCEPT !.first = FALSE]

\* seeded fault: any new ACK ends CA_LOSS
StaysInLoss_Never(r) == FALSE

StaysInLoss(r) == r.una < r.recover /\ r.cong = "LOSS"

\* Otherwise the socket returns to CA_OPEN and its window grows, except if the
\* ACK was a duplicate as well and keeps it in CA_DISORDER.
OtherAck(r, isDup, segs) ==
    LET grow == IF r.cong = "LOSS" THEN r.una - r.recover ELSE segs
        q == [r EXCEPT !.active = @ /\ r.una < r.recover,
                       !.dupAcks = IF r.cong = "RECOVERY" THEN 0 ELSE @,
                       !.cWnd = IF r.cong = "RECOVERY" THEN r.ssThresh ELSE @,
                       !.first = @ \/ r.cong \in {"RECOVERY", "LOSS"},
                       !.cong = "OPEN"]
    IN  IF r.cong = "DISORDER" /\ isDup THEN [q EXCEPT !.cong = "DISORDER"]
        ELSE NewAck(IncreaseWindow(q, grow), TRUE)

\* segs segments are newly acknowledged
ProcessAck(r, segs, isDup, delivered) ==
    LET d == IF isDup THEN DupAck(r, delivered) ELSE r
        q == IF isDup THEN d ELSE [d EXCEPT !.dupAcks = 0]
    IN  CASE segs = 0 -> d
          [] segs > 0 /\ q.una < q.recover /\ q.cong = "RECOVERY" -> PartialAck(q, delivered)
          [] segs > 0 /\ StaysInLoss(q) -> NewAck(IncreaseWindow(q, segs), TRUE)
          [] segs > 0 /\ q.cong = "CWR" ->
                NewAck(DoRecovery(q, q.flight, delivered, q.retransAcked), TRUE)
          [] OTHER -> OtherAck(q, isDup, segs)

ExitCwr(r) ==
    IF r.cong = "CWR" /\ r.una > r.recover
    THEN [r EXCEPT !.cong = "OPEN", !.cWnd = r.ssThresh] ELSE r

\* what reaches the sender for the first time with this ACK
Delivered(r, a) ==
    LET known == IF r.sackOn THEN r.sacked ELSE {}
    IN  Seg * Cardinality(((r.una .. a.ack - 1) \cup NewlySacked(r, a.sack)) \ known)

RetransDataAcked(r, a) ==
    r.cong = "RECOVERY" /\ a.ack < r.recover /\ \E i \in r.una .. a.ack - 1 : i \in r.retrans \ r.sacked

ReceivedAck(r, a) ==
    LET u == Update(r, a.sack)
        segs == a.ack - r.una
        isDup == IF r.sackOn THEN u.sacked # r.sacked ELSE segs = 0 /\ r.una < r.nxt
        q == ExitCwr(DiscardUpTo([u EXCEPT !.retransAcked = RetransDataAcked(u, a)], a.ack))
        echoed == segs > 0 /\ a.ece /\ q.cong # "CWR"
        e == IF echoed THEN EnterCwr(q, Delivered(r, a)) ELSE q
        p == ProcessAck(Measured(e), segs, isDup, Delivered(r, a))
    IN  SendPendingData([p EXCEPT !.retransAcked = FALSE])

ReTxTimeout(r) ==
    LET q == SetSentListLost(r)
    IN  IF r.retries = 0 THEN [r EXCEPT !.closed = TRUE, !.rto = FALSE]
        ELSE SendPendingData([q EXCEPT
                 !.rto = FALSE, !.retries = @ - 1, !.dupAcks = 0, !.recover = r.nxt, !.active = TRUE,
                 !.ssThresh = IF r.cong # "LOSS" \/ q.una \notin q.retrans
                              THEN GetSsThresh(q) ELSE @,
                 !.cong = "LOSS", !.cWnd = Seg])

(***************************************************************************)
(* The behaviour                                                           *)
(***************************************************************************)
\* the receiver acknowledges every segment it gets; its ACK holds all its blocks
AckFor(got, ece) ==
    LET next == Min((1 .. DataEnd + 1) \ got)
    IN  [ack |-> next, ece |-> ece,
         sack |-> IF tcb.sackOn THEN {i \in got : i > next} ELSE {}]

Deliver(i, ece) ==
    /\ tcb.wire[i] > 0
    /\ ece => faults.ece < MaxEce
    /\ rcvd' = rcvd \cup {i}
    /\ tcb' = [tcb EXCEPT !.wire[i] = @ - 1]
    /\ acks' = Append(acks, AckFor(rcvd', ece))
    /\ faults' = [faults EXCEPT !.ece = IF ece THEN @ + 1 ELSE @]
    /\ UNCHANGED <<timeouts, point>>

Lose ==
    /\ faults.loss < MaxLoss
    /\ faults' = [faults EXCEPT !.loss = @ + 1]
    /\ \/ /\ \E i \in Segments : tcb.wire[i] > 0 /\ tcb' = [tcb EXCEPT !.wire[i] = @ - 1]
          /\ acks' = acks
       \/ acks # <<>> /\ acks' = Tail(acks) /\ tcb' = tcb
    /\ UNCHANGED <<rcvd, timeouts, point>>

RecoveryPoint(q) ==
    IF q.cong \in {"RECOVERY", "LOSS"} THEN Max({q.recover, point}) ELSE point

Ack ==
    /\ acks # <<>> /\ ~ tcb.closed
    /\ tcb' = ReceivedAck(tcb, Head(acks))
    /\ acks' = Tail(acks)
    /\ timeouts' = IF tcb'.una > tcb.una THEN 0 ELSE timeouts
    /\ point' = RecoveryPoint(tcb')
    /\ UNCHANGED <<rcvd, faults>>

Quiet == acks = <<>> /\ \A i \in Segments : tcb.wire[i] = 0

Expires == tcb.rto /\ (Quiet \/ faults.early < MaxEarly)

Timeout ==
    /\ Expires
    /\ tcb' = ReTxTimeout(tcb)
    /\ faults' = [faults EXCEPT !.early = IF Quiet THEN @ ELSE @ + 1]
    /\ timeouts' = timeouts + 1
    /\ point' = RecoveryPoint(tcb')
    /\ UNCHANGED <<rcvd, acks>>

\* the first window is out
Init ==
    /\ \E sack \in Sacks :
          tcb = SendPendingData(
                [sackOn |-> sack, una |-> 1, nxt |-> 1, sacked |-> {}, lost |-> {}, retrans |-> {},
                 highSack |-> 0, flight |-> 0, dupAcks |-> 0, cong |-> "OPEN", recover |-> 0,
                 active |-> FALSE, first |-> TRUE, retransAcked |-> FALSE, cWnd |-> InitCwnd * Seg,
                 ssThresh |-> InitSsThresh, cWndCnt |-> 0, prrDelivered |-> 0, prrOut |-> 0,
                 prrFlight |-> 0, rto |-> FALSE, retries |-> DataRetries, closed |-> FALSE,
                 wire |-> [i \in Segments |-> 0]])
    /\ rcvd = {} /\ acks = <<>>
    /\ faults = [loss |-> 0, ece |-> 0, early |-> 0]
    /\ timeouts = 0 /\ point = 0

Next ==
    \/ \E i \in Segments, ece \in BOOLEAN : Deliver(i, ece)
    \/ Lose \/ Ack \/ Timeout

Spec == Init /\ [][Next]_vars

\* What is not lost arrives, and the timer expires.  Fairness of Ack (or the loss
\* of the ACK, of which there are few) and of Timeout, by what only they do.
FairSpec ==
    /\ Spec
    /\ WF_vars(\E i \in Segments : Deliver(i, FALSE))
    /\ WF_acks(acks # <<>> /\ ~ tcb.closed /\ acks' = Tail(acks))
    /\ WF_timeouts(Expires /\ timeouts' = timeouts + 1)

(***************************************************************************)
(* Properties                                                              *)
(***************************************************************************)
TypeOK ==
    /\ tcb \in Socket
    /\ tcb.una <= tcb.nxt
    /\ tcb.sacked \cup tcb.lost \cup tcb.retrans \subseteq Sent(tcb)
    /\ rcvd \subseteq Segments

\* The scoreboard never contradicts itself or the receiver: the head is not
\* SACKed, nothing is both SACKed and lost (BytesInFlight subtracts both), and
\* with SACK what is marked has arrived.
Scoreboard ==
    /\ tcb.una \notin tcb.sacked
    /\ tcb.sacked \cap tcb.lost = {}
    /\ tcb.sackOn => tcb.sacked \subseteq rcvd

\* As long as something is outstanding the timer is pending: through recovery, CWR
\* and CA_DISORDER, where a new ACK does not restart it, the connection can
\* always repair itself.
TimerArmed == tcb.una < tcb.nxt /\ ~ tcb.closed => tcb.rto

\* "a new recovery phase MUST NOT be initiated until HighACK is greater than or
\* equal to the new value of RecoveryPoint": after a timeout or a recovery phase,
\* also if a CWR phase interrupts it, the next one is about later data.
OneRecoveryPerWindow ==
    [][tcb'.cong = "RECOVERY" /\ tcb.cong # "RECOVERY" => tcb'.una >= point]_vars

\* After a timeout at most one segment is in flight by the sender's own count,
\* whatever it had retransmitted or guessed before.
TimeoutEmptiesFlight ==
    [][tcb'.retries < tcb.retries => BytesInFlight(tcb') <= Seg]_vars

\* The connection is given up only after DataRetries timeouts in a row without a
\* new acknowledgment, also if ACKs that are new but duplicates as well come by.
GivesUpLate == tcb.closed => timeouts > DataRetries

\* In the end everything is acknowledged or the connection is given up.
Completes == <>(tcb.una = DataEnd + 1 \/ tcb.closed)

\* "From OPEN->DISORDER but with ... dup ACKs": the first duplicate ACK in CA_OPEN
\* is the first one counted.
DisorderFromOne ==
    [][tcb'.cong = "DISORDER" /\ tcb.cong # "DISORDER" => tcb'.dupAcks = 1]_vars
=============================================================================
