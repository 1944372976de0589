----------------------------- MODULE TcpEcnEcho -----------------------------
(***************************************************************************)
(* The receiver's half of the DCTCP feedback loop: how a TcpSocketBase in  *)
(* ESTABLISHED that runs TcpDstcp (or TcpDctcp, whose receiver code is the *)
(* same) turns the CE marks of arriving segments into the ECE flags of the *)
(* ACKs it sends.                                                          *)
(*                                                                         *)
(* The handlers run to completion, one per simulator event: the arrival of *)
(* a segment (ForwardUp .. ReceivedData) and the delayed ACK timer         *)
(* (DelAckTimeout).  Within a handler several calls change the same        *)
(* fields, so the socket is one record and each call maps it to a record.  *)
(*                                                                         *)
(* Sequence numbers count segments: data starts at 1, after the SYN, and   *)
(* segment s takes number s.  Segments are never cut differently (that is  *)
(* the subject of TcpRxBuffer), the sender keeps to the offered window and *)
(* its data packets are all ECN capable, as ECN mode DctcpEcn makes them.  *)
(***************************************************************************)
EXTENDS Integers, Sequences, FiniteSetsExt

CONSTANTS
    LastSeg,      \* the data is segments 1 .. LastSeg
    DelAckMax,    \* the largest DelAckCount a socket is configured with
    Reorder,      \* how far beyond the next segment expected one may arrive
    Behind        \* how far before it a duplicate may be that still arrives

ASSUME EchoConstants ==
    /\ LastSeg \in Nat \ {0}
    /\ DelAckMax \in Nat \ {0}
    /\ Reorder \in Nat
    /\ Behind \in Nat

VARIABLES
    sock,    \* the socket, the fields below
    delAckMaxCount,   \* m_delAckMaxCount, the attribute DelAckCount, which never changes
    mark,    \* history: was the stored copy of a segment CE marked
    echo,    \* history: the flag of the first ACK that covered a segment
    owed,    \* history: a mark has been stored since the last valid echo
    recent,  \* history: raw CE marks of the last two segments let through
    inOrder  \* history: no segment has arrived beyond the next one expected

vars == <<sock, delAckMaxCount, mark, echo, owed, recent, inOrder>>

Segs == 1 .. LastSeg

EcnStates == {"IDLE", "CE_RCVD", "SENDING_ECE"}

Ack == [ack : Nat, ece : BOOLEAN]

\* the fields of TcpSocketBase, TcpSocketState and TcpDstcp this code uses
Socket == [
    rcvNxt    : 1 .. LastSeg + 1,   \* m_rxBuffer->NextRxSequence ()
    ooo       : SUBSET Segs,        \* segments held beyond rcvNxt
    ecn       : EcnStates,          \* m_ecnState
    ceSeq     : 0 .. LastSeg,       \* m_ecnCESeq
    ceState   : BOOLEAN,            \* m_ceState
    prior     : 0 .. LastSeg + 1,   \* m_priorRcvNxt
    priorFlag : BOOLEAN,            \* m_priorRcvNxtFlag
    reserved  : BOOLEAN,            \* m_delayedAckReserved
    count     : 0 .. DelAckMax,     \* m_delAckCount
    timer     : BOOLEAN,            \* m_delAckEvent is pending
    highTxAck : 1 .. LastSeg + 1,   \* m_highTxAck
    acks      : Seq(Ack) ]          \* the ACKs the current handler sent

(***************************************************************************)
(* Sending                                                                 *)
(***************************************************************************)
\* SendEmptyPacket with the ACK flag, with or without ECE
SendEmptyPacket(r, ece) ==
    [r EXCEPT !.timer = FALSE,
              !.count = 0,
              !.highTxAck = IF @ < r.rcvNxt THEN r.rcvNxt ELSE @,
              !.acks = Append(@, [ack |-> r.rcvNxt, ece |-> ece])]

Echoing(r) == r.ecn \in {"CE_RCVD", "SENDING_ECE"}

\* the ACK of ReceivedData and DelAckTimeout
SendAck(r) ==
    IF Echoing(r) THEN [SendEmptyPacket(r, TRUE) EXCEPT !.ecn = "SENDING_ECE"]
                  ELSE SendEmptyPacket(r, FALSE)

(***************************************************************************)
(* TcpDstcp::CwndEvent                                                     *)
(***************************************************************************)
\* seeded fault: the receive buffer keeps the number of the previous ACK
SendPrior_NotRestored(r, ece) == SendEmptyPacket([r EXCEPT !.rcvNxt = r.prior], ece)

\* an ACK for m_priorRcvNxt, with the receive buffer set back while it is sent
SendPrior(r, ece) ==
    [SendEmptyPacket([r EXCEPT !.rcvNxt = r.prior], ece) EXCEPT !.rcvNxt = r.rcvNxt]

\* seeded fault: the segment at hand is counted before it is stored
NotePrior_Ahead(r) == [r EXCEPT !.priorFlag = TRUE, !.prior = r.rcvNxt + 1]

NotePrior(r) == [r EXCEPT !.priorFlag = TRUE, !.prior = r.rcvNxt]

CeState0to1(r) ==
    LET q == IF ~ r.ceState /\ r.reserved /\ r.priorFlag THEN SendPrior(r, FALSE) ELSE r
    IN  [NotePrior(q) EXCEPT !.ceState = TRUE, !.ecn = "CE_RCVD"]

\* seeded fault: the end of a run of marks leaves the ECN state alone
CeState1to0_KeepsEcn(r) ==
    LET q == IF r.ceState /\ r.reserved /\ r.priorFlag THEN SendPrior(r, TRUE) ELSE r
    IN  [NotePrior(q) EXCEPT !.ceState = FALSE]

CeState1to0(r) ==
    LET q == IF r.ceState /\ r.reserved /\ r.priorFlag THEN SendPrior(r, TRUE) ELSE r
    IN  [NotePrior(q) EXCEPT !.ceState = FALSE,
                             !.ecn = IF Echoing(q) THEN "IDLE" ELSE @]

UpdateAckReserved(r, delayed) == [r EXCEPT !.reserved = delayed]

(***************************************************************************)
(* Receiving                                                               *)
(***************************************************************************)
\* seeded fault: a mark on the very next segment is taken for a repetition
EcnEvent_SkipsNext(r, s, ce) ==
    IF ce /\ r.ceSeq + 1 < s
    THEN CeState0to1([r EXCEPT !.ceSeq = s, !.ecn = "CE_RCVD"])
    ELSE CeState1to0(r)

\* ForwardUp: a mark counts only beyond the last number that counted
EcnEvent(r, s, ce) ==
    IF ce /\ r.ceSeq < s
    THEN CeState0to1([r EXCEPT !.ceSeq = s, !.ecn = "CE_RCVD"])
    ELSE CeState1to0(r)

\* DoForwardUp: the sender's CWR flag ends the echo
CwrFlag(r, cwr) ==
    IF cwr /\ r.ecn # "CE_RCVD" THEN [r EXCEPT !.ecn = "IDLE"] ELSE r

\* TcpRxBuffer::Add for a segment not stored yet
Store(r, s) ==
    LET held == r.ooo \cup {s}
        next == Min({n \in r.rcvNxt .. LastSeg + 1 : n \notin held})
    IN  [r EXCEPT !.rcvNxt = next, !.ooo = {k \in held : k > next}]

Stored(r, s) == s < r.rcvNxt \/ s \in r.ooo

\* seeded fault: a delayed ACK without a timer
DelayAck_NoTimer(r) == UpdateAckReserved([r EXCEPT !.count = @ + 1], TRUE)

DelayAck(r) == UpdateAckReserved([r EXCEPT !.count = @ + 1, !.timer = TRUE], TRUE)

ReceivedData(r, s) ==
    IF Stored(r, s) THEN SendAck(r)
    ELSE LET q == Store(r, s)
         IN  IF q.ooo # {} \/ q.rcvNxt > r.rcvNxt + 1
             THEN SendAck(UpdateAckReserved(q, FALSE))
             ELSE IF q.count + 1 >= delAckMaxCount
             THEN SendAck(UpdateAckReserved([q EXCEPT !.count = 0, !.timer = FALSE], FALSE))
             ELSE DelayAck(q)

\* IsValidTcpSegment: a segment wholly below the window is only acknowledged
OutOfRange(r, s) == s + 1 < r.rcvNxt

ForwardUp(r, s, ce, cwr) ==
    IF OutOfRange(r, s) THEN SendEmptyPacket(r, FALSE)
    ELSE ReceivedData(CwrFlag(EcnEvent(r, s, ce), cwr), s)

(***************************************************************************)
(* The behaviour, with the history of what the sender is told              *)
(***************************************************************************)
\* the flag of the first of the ACKs that covers segment s
FirstEcho(acks, s) ==
    LET covering == {i \in 1 .. Len(acks) : s < acks[i].ack}
    IN  IF covering = {} THEN "none"
        ELSE IF acks[CHOOSE i \in covering : \A j \in covering : i <= j].ece
             THEN "ece" ELSE "plain"

Echoes(acks) ==
    [s \in Segs |-> IF echo[s] # "none" THEN echo[s] ELSE FirstEcho(acks, s)]

\* ReceivedAck of the sender heeds ECE only on an ACK that acknowledges new data
ValidEcho(acks, high) == \E i \in 1 .. Len(acks) : acks[i].ece /\ acks[i].ack > high

Idle(r) == [r EXCEPT !.acks = <<>>]

Arrive(s, ce, cwr) ==
    /\ s \in sock.rcvNxt - Behind .. sock.rcvNxt + Reorder
    /\ LET new == ~ Stored(sock, s)
       IN  /\ sock' = ForwardUp(Idle(sock), s, ce, cwr)
           /\ mark' = IF new THEN [mark EXCEPT ![s] = ce] ELSE mark
           /\ echo' = Echoes(sock'.acks)
           /\ owed' = ((owed \/ (new /\ ce)) /\ ~ ValidEcho(sock'.acks, sock.highTxAck))
           /\ recent' = IF OutOfRange(sock, s) THEN recent ELSE <<recent[2], ce>>
           /\ inOrder' = (inOrder /\ s <= sock.rcvNxt)
           /\ UNCHANGED delAckMaxCount

DelAckTimeout ==
    /\ sock.timer
    /\ sock' = SendAck(UpdateAckReserved([Idle(sock) EXCEPT !.count = 0, !.timer = FALSE], TRUE))
    /\ echo' = Echoes(sock'.acks)
    /\ owed' = (owed /\ ~ ValidEcho(sock'.acks, sock.highTxAck))
    /\ UNCHANGED <<delAckMaxCount, mark, recent, inOrder>>

\* The connection is established.  The ACK that completed the handshake was an
\* ECN capable packet and raised the NO_CE event, unless it was lost and the
\* first data segment completed the handshake in its place.  The handshake sets
\* m_delAckCount to "always respond to first data packet", and data that the socket
\* sends itself before that sets it to 0.
Init ==
    /\ delAckMaxCount \in 1 .. DelAckMax
    /\ \E seen \in BOOLEAN, count \in {0, delAckMaxCount} :
          sock = [rcvNxt |-> 1, ooo |-> {}, ecn |-> "IDLE", ceSeq |-> 0,
                  ceState |-> FALSE, prior |-> IF seen THEN 1 ELSE 0, priorFlag |-> seen,
                  reserved |-> FALSE, count |-> count, timer |-> FALSE,
                  highTxAck |-> 1, acks |-> <<>>]
    /\ mark = [s \in Segs |-> FALSE]
    /\ echo = [s \in Segs |-> "none"]
    /\ owed = FALSE
    /\ recent = <<FALSE, FALSE>>
    /\ inOrder = TRUE

Next ==
    \/ \E s \in Segs, ce, cwr \in BOOLEAN : Arrive(s, ce, cwr)
    \/ DelAckTimeout

Spec == Init /\ [][Next]_vars

\* A pending simulator event is executed.  Nothing is assumed of arrivals.
FairSpec == Spec /\ WF_vars(DelAckTimeout)

(***************************************************************************)
(* Properties                                                              *)
(***************************************************************************)
\* Every field keeps the range of the one it stands for; the counter never
\* exceeds the number at which an ACK is sent.
TypeOK ==
    /\ sock \in Socket
    /\ delAckMaxCount \in 1 .. DelAckMax
    /\ sock.count <= delAckMaxCount
    /\ mark \in [Segs -> BOOLEAN]
    /\ echo \in [Segs -> {"none", "plain", "ece"}]
    /\ owed \in BOOLEAN
    /\ recent \in BOOLEAN \X BOOLEAN
    /\ inOrder \in BOOLEAN

\* Only what was received is acknowledged, although the ACKs of a change of
\* the CE state are sent with the receive buffer set back to an older number.
AckHonest ==
    /\ sock.highTxAck <= sock.rcvNxt
    /\ \A i \in 1 .. Len(sock.acks) : sock.acks[i].ack <= sock.rcvNxt
    /\ sock.ooo \cap (1 .. sock.rcvNxt) = {}

\* The receive buffer set back for such an ACK is set forward again: the next
\* number expected never decreases.
NextNeverBack == [][sock'.rcvNxt >= sock.rcvNxt]_vars

\* ECE is sent only when the segment at hand or the one before it was marked:
\* the echo stops without waiting for a CWR from the sender.
EceOnlyOnCe ==
    (\E i \in 1 .. Len(sock.acks) : sock.acks[i].ece) => recent[1] \/ recent[2]

\* Every segment is acknowledged by itself: DelAckCount is 1 and, up to now,
\* segments have come in order, though any of them may have come again.
OneByOne == delAckMaxCount = 1 /\ inOrder

\* With segments acknowledged one by one the first ACK that covers a segment
\* carries ECE exactly if the segment was marked, so the sender's fraction of
\* marked bytes is the true one.
EchoExact ==
    OneByOne => \A s \in Segs : echo[s] # "none" => (echo[s] = "ece") = mark[s]

\* If CE is observed on a new segment the sender is told: by the time all that
\* was received is acknowledged, an ACK the sender heeds has carried ECE.
MarkEchoed == owed => sock.highTxAck < sock.rcvNxt

\* With segments acknowledged one by one the sender is told at once: after no
\* handler is there a mark left that no valid ECE has followed.
MarkEchoedAtOnce == OneByOne => ~ owed

\* Every segment received in order is acknowledged in the end, also when a
\* change of the CE state cancels the delayed ACK on the way.
AckedInTheEnd == \A s \in Segs : s < sock.rcvNxt ~> s < sock.highTxAck
=============================================================================
