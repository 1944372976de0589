---------------------------- MODULE TcpRxBuffer ----------------------------
(***************************************************************************)
(* The receive buffer of a TCP socket (src/internet/model/tcp-rx-buffer.cc)*)
(* with the two places of TcpSocketBase that feed it, the arrival of data  *)
(* (IsValidTcpSegment, ReceivedData) and of a FIN (PeerClose), and the one *)
(* that drains it (Recv).                                                  *)
(*                                                                         *)
(* Sequence numbers are naturals: the 32 bit numbers of the code are       *)
(* compared by signed difference, which agrees with the order of naturals  *)
(* as long as all live numbers lie within 2^31 of each other.  Number 0 is *)
(* the first payload byte after the handshake.  The peer's stream is the   *)
(* bytes 0 .. StreamEnd-1, byte s carried at sequence number s, and its    *)
(* FIN occupies number StreamEnd.  A buffered packet remembers where it is *)
(* filed (seq) and which stream bytes it holds (src, len), so that a wrong *)
(* fragment shows up as a wrong byte.                                      *)
(***************************************************************************)
EXTENDS Integers, Sequences, FiniteSetsExt

CONSTANTS
    MaxBuffer,   \* m_maxBuffer, the RcvBufSize attribute
    StreamEnd,   \* length of the peer's stream
    Segments,    \* payload ranges <<first, last>> the peer may put in a segment
    RecvSizes    \* maxSize arguments the application passes to Recv

ASSUME RxConstants ==
    /\ MaxBuffer \in Nat \ {0}
    /\ StreamEnd \in Nat
    /\ Segments \subseteq {s \in (0 .. StreamEnd) \X (0 .. StreamEnd) : s[1] <= s[2]}
    /\ RecvSizes \subseteq Nat \ {0}

VARIABLES
    data,        \* m_data, the packets in the order of their seq
    nextRxSeq,   \* m_nextRxSeq, the next number expected
    gotFin,      \* m_gotFin
    finSeq,      \* m_finSeq
    size,        \* m_size
    availBytes,  \* m_availBytes, bytes that can be extracted
    sackList,    \* m_sackList, most recent block first
    out          \* history: the stream bytes handed to the application

vars == <<data, nextRxSeq, gotFin, finSeq, size, availBytes, sackList, out>>

Packet == [seq : Nat, src : Nat, len : Nat \ {0}]

(***************************************************************************)
(* Reading the buffer                                                      *)
(***************************************************************************)
End(p) == p.seq + p.len

\* the key of m_data.begin ()
BeginSeq(d) == Min({p.seq : p \in d})

Covered(d, s) == \E p \in d : p.seq <= s /\ s < End(p)

\* the first number from s on that no packet of d covers
FirstHole(d, s) == Min({t \in s .. StreamEnd : ~ Covered(d, t)})

\* the stream byte stored at number s
ByteAt(d, s) ==
    LET p == CHOOSE p \in d : p.seq <= s /\ s < End(p) IN p.src + (s - p.seq)

Larger(a, b)  == IF a < b THEN b ELSE a
Smaller(a, b) == IF a < b THEN a ELSE b

\* seeded fault: out-of-order data is taken off the window
MaxRxSequence_LessHeld == IF gotFin THEN finSeq ELSE nextRxSeq + MaxBuffer - size

\* the lowest number the buffer cannot accept
MaxRxSequence ==
    IF gotFin THEN finSeq
    ELSE IF data # {} /\ nextRxSeq > BeginSeq(data)
         THEN BeginSeq(data) + MaxBuffer
         ELSE nextRxSeq + MaxBuffer

Finished == gotFin /\ finSeq < nextRxSeq

\* TcpSocketBase::OutOfRange in the states that receive data; a socket that
\* has seen the whole stream is in CLOSE_WAIT, CLOSING or LAST_ACK
OutOfRange(first, last) ==
    IF Finished THEN nextRxSeq # first
    ELSE last < nextRxSeq \/ MaxRxSequence <= first

(***************************************************************************)
(* The SACK list.  Blocks are <<first, second>>.                           *)
(***************************************************************************)
Adjacent(b, c) == b[1] = c[2] \/ b[2] = c[1]

\* One merge of the loop: the first later block that touches the front one is
\* removed and the front block extended over it.
MergeOnce[l \in Seq(Nat \X Nat)] ==
    LET touching == {i \in 2 .. Len(l) : Adjacent(l[1], l[i])}
        i == Min(touching)
        merged == IF l[1][1] = l[i][2] THEN <<l[i][1], l[1][2]>>
                                       ELSE <<l[1][1], l[i][2]>>
    IN  IF touching = {} THEN l
        ELSE <<merged>> \o SubSeq(l, 2, i - 1) \o SubSeq(l, i + 1, Len(l))

\* The loop restarts after each merge until nothing touches the front block: each
\* merge shortens the list, so as many turns as it has blocks are enough.
MergeFront(l) ==
    LET merged[k \in 0 .. Len(l)] == IF k = 0 THEN l ELSE MergeOnce[merged[k - 1]]
    IN  merged[Len(l)]

UpdateSackList(head, tail) ==
    LET l == MergeFront(<<<<head, tail>>>> \o sackList)
    IN  IF Len(l) > 4 THEN SubSeq(l, 1, Len(l) - 1) ELSE l

\* seeded fault: a block that ends at the new edge is kept
Beyond_Late(b, s) == b[2] >= s

\* seeded fault: a block that begins just beyond the new edge is dropped
Beyond_Early(b, s) == b[1] > s + 1

Beyond(b, s) == b[2] > s

\* the blocks that do not end at or below s, in their order
ClearSackList(s) ==
    LET kept[i \in 0 .. Len(sackList)] ==
            IF i = 0 THEN <<>>
            ELSE IF Beyond(sackList[i], s) THEN Append(kept[i - 1], sackList[i]) ELSE kept[i - 1]
    IN  kept[Len(sackList)]

(***************************************************************************)
(* Add: file the payload first .. last-1 of a segment.  The loop over the  *)
(* stored packets moves the head past the run of stored bytes that begins  *)
(* at it, the tail down to the packet that holds the last byte, and drops  *)
(* the packets that lie strictly inside.                                   *)
(***************************************************************************)
\* the range left after trimming to the window
TrimHead(first, tail) ==
    LET head == Larger(first, nextRxSeq)
    IN  IF data # {} /\ tail < head THEN tail ELSE head

TrimTail(last) ==
    IF data # {} THEN Smaller(last, BeginSeq(data) + MaxBuffer) ELSE last

\* the range left after removing what is stored already
HeadPastStored(head) == FirstHole(data, head)

\* seeded fault: a stored tail is not cut off
TailBeforeStored_None(tail) == tail

TailBeforeStored(tail) ==
    LET holder == {p \in data : p.seq < tail /\ tail <= End(p)}
    IN  IF holder = {} THEN tail ELSE BeginSeq(holder)

Embedded(head, tail) == {p \in data : p.seq > head /\ End(p) < tail}

LenAt(d, s) == IF \E p \in d : p.seq = s THEN (CHOOSE p \in d : p.seq = s).len ELSE 0

\* the sizes of packets d, added in the order of m_data
TotalLen(d) ==
    LET sum[s \in 0 .. StreamEnd] == IF s = 0 THEN 0 ELSE sum[s - 1] + LenAt(d, s - 1)
    IN  sum[StreamEnd]

\* seeded fault: a single byte that is left is dropped
NothingToBuffer_Byte(head, tail) == head + 1 >= tail

NothingToBuffer(head, tail) == head >= tail

\* seeded fault: the fragment is always taken from the start of the payload
CreateFragment_FromStart(first, head, tail) ==
    [seq |-> head, src |-> first, len |-> tail - head]

\* the bytes of the payload from number head on, to be filed under head
CreateFragment(first, head, tail) ==
    [seq |-> head, src |-> first + (head - first), len |-> tail - head]

\* seeded fault: the dropped packets stay in the occupancy
SizeAfter_NoErase(inner, p) == size + p.len

SizeAfter(inner, p) == size - TotalLen(inner) + p.len

Add(first, last) ==
    LET tail0 == TrimTail(last)
        head0 == TrimHead(first, tail0)
        head  == HeadPastStored(head0)
        tail  == TailBeforeStored(tail0)
        inner == Embedded(head, tail0)
        p     == CreateFragment(first, head, tail)
        d     == (data \ inner) \cup {p}
        next  == FirstHole(d, nextRxSeq)
    IN  IF NothingToBuffer(head, tail)
        THEN UNCHANGED <<data, nextRxSeq, size, availBytes, sackList>>
        ELSE /\ data' = d
             /\ size' = SizeAfter(inner, p)
             /\ availBytes' = availBytes + (next - nextRxSeq)
             /\ sackList' = IF head > nextRxSeq THEN UpdateSackList(head, tail)
                                                ELSE ClearSackList(next)
             /\ nextRxSeq' = IF gotFin' /\ next = finSeq' THEN next + 1 ELSE next

(***************************************************************************)
(* What the socket does with the buffer.  The peer sends no byte beyond    *)
(* the right edge it was offered; the edge never moves back (see           *)
(* WindowNeverShrinks), so the present edge bounds every offer made so far.*)
(***************************************************************************)
Offered(seg) == seg[2] <= MaxRxSequence

\* A data segment without FIN passes IsValidTcpSegment and is added.
ReceiveData(seg) ==
    /\ Offered(seg)
    /\ seg[1] < seg[2]
    /\ ~ OutOfRange(seg[1], seg[2])
    /\ UNCHANGED <<gotFin, finSeq, out>>
    /\ Add(seg[1], seg[2])

FinSequence(seg) == seg[2]

\* PeerClose: the FIN is remembered, then the piggybacked data is added.
PeerClose(seg) ==
    /\ Offered(seg)
    /\ seg[2] = StreamEnd
    /\ seg[1] < seg[2] => ~ OutOfRange(seg[1], seg[2])
    /\ nextRxSeq <= seg[1] /\ seg[1] <= MaxRxSequence
    /\ gotFin' = TRUE
    /\ finSeq' = FinSequence(seg)
    /\ UNCHANGED out
    /\ \/ /\ seg[1] < seg[2]
          /\ Add(seg[1], seg[2])
       \/ /\ seg[1] = seg[2]
          /\ nextRxSeq' = IF nextRxSeq = seg[2] THEN nextRxSeq + 1 ELSE nextRxSeq
          /\ UNCHANGED <<data, size, availBytes, sackList>>

\* seeded fault: a packet read in part is dropped altogether
Rest_Dropped(part, cut) == {}

\* what stays of a packet that is read in part
Rest(part, cut) ==
    {[seq |-> cut, src |-> p.src + (cut - p.seq), len |-> End(p) - cut] : p \in part}

\* Recv: the packets are taken from the front, the last one perhaps in part.
Extract(maxSize) ==
    LET n     == Smaller(maxSize, availBytes)
        begin == BeginSeq(data)
        cut   == begin + n
        whole == {p \in data : End(p) <= cut}
        part  == {p \in data : p.seq < cut /\ cut < End(p)}
    IN  /\ n > 0
        /\ data' = (data \ (whole \cup part)) \cup Rest(part, cut)
        /\ size' = size - n
        /\ availBytes' = availBytes - n
        /\ out' = out \o [k \in 1 .. n |-> ByteAt(data, begin + (k - 1))]
        /\ UNCHANGED <<nextRxSeq, gotFin, finSeq, sackList>>

Init ==
    /\ data = {}
    /\ nextRxSeq = 0
    /\ gotFin = FALSE
    /\ finSeq = 0
    /\ size = 0
    /\ availBytes = 0
    /\ sackList = <<>>
    /\ out = <<>>

Next ==
    \/ \E seg \in Segments : ReceiveData(seg)
    \/ \E seg \in Segments : PeerClose(seg)
    \/ \E n \in RecvSizes : Extract(n)

Spec == Init /\ [][Next]_vars

\* The segments that are certain to come again: those of one byte, the FIN alone
\* among them.  Any other cut may arrive as well, or never.
Retransmitted == {seg \in Segments : seg[2] - seg[1] <= 1}

\* The peer retransmits whatever is missing until it is acknowledged and the
\* network does not lose every copy; the application reads what it is told of.
Fairness ==
    /\ \A seg \in Retransmitted : WF_vars(ReceiveData(seg)) /\ WF_vars(PeerClose(seg))
    /\ WF_vars(\E n \in RecvSizes : Extract(n))

FairSpec == Spec /\ Fairness

(***************************************************************************)
(* Properties                                                              *)
(***************************************************************************)
\* the bytes received in order: nextRxSeq without the number of the FIN
Acked == IF Finished THEN nextRxSeq - 1 ELSE nextRxSeq

Held == UNION {p.seq .. End(p) - 1 : p \in data}

\* The variables keep the ranges of the fields they stand for; Accounting and
\* SackHonest give those of size and sackList.
TypeOK ==
    /\ data \subseteq Packet
    /\ nextRxSeq \in 0 .. StreamEnd + 1
    /\ gotFin \in BOOLEAN
    /\ finSeq \in Nat
    /\ availBytes \in Nat
    /\ out \in Seq(Nat)

\* However segments are cut, overlap, are repeated or reordered, Recv returns
\* the peer's stream from its beginning, each byte once and in order.
InOrderDelivery == \A k \in 1 .. Len(out) : out[k] = k - 1

\* An acknowledged byte is never lost: it has been handed to the application or
\* is held, and never both; no byte beyond the acknowledged ones is contiguous.
AckedIsKept ==
    /\ \A s \in 0 .. Acked - 1 : s < Len(out) <=> s \notin Held
    /\ Acked \notin Held
    /\ \A s \in Held : s >= Len(out)

\* m_size and m_availBytes, kept up by increments, agree with the packets.
Accounting ==
    /\ size = Cardinality(Held)
    /\ size = TotalLen(data)
    /\ availBytes = Acked - Len(out)

\* The right edge of the offered window never moves back before the FIN.
WindowNeverShrinks ==
    [][~ gotFin' => MaxRxSequence' >= MaxRxSequence]_vars

\* Only data that is held out of order is reported, in at most four blocks.
SackHonest ==
    /\ Len(sackList) <= 4
    /\ \A i \in 1 .. Len(sackList) :
          LET b == sackList[i] IN
          b[1] < b[2] /\ b[1] > nextRxSeq /\ b[1] .. b[2] - 1 \subseteq Held

\* No byte is reported in two blocks of the list.
SackDisjoint ==
    \A i, j \in 1 .. Len(sackList) :
        i # j => sackList[i][2] <= sackList[j][1] \/ sackList[j][2] <= sackList[i][1]

Reported == UNION {sackList[i][1] .. sackList[i][2] - 1 : i \in 1 .. Len(sackList)}

\* What was reported stays reported, through merges, re-cut retransmissions and
\* clearing, until it is received in order or a fifth block pushes it out.
SackNotWithdrawn ==
    [][Len(sackList) < 4 => \A s \in Reported : s < nextRxSeq' \/ s \in Reported']_vars

(***************************************************************************)
(* The loops over m_data as they are written, which Add and Extract above  *)
(* put declaratively.  m_data is ordered by seq, so a loop over it is a    *)
(* function of the numbers passed, and leaving it for good when a packet   *)
(* lies too far is passing over the rest.                                  *)
(***************************************************************************)
PacketAt(d, s) == CHOOSE p \in d : p.seq = s

\* One turn of "Remove overlapped bytes from packet" for stored packet p.
OverlapStep(acc, p) ==
    IF p.seq > acc.tail \/ End(p) <= acc.head THEN acc
    ELSE IF p.seq > acc.head /\ End(p) < acc.tail
    THEN [head |-> acc.head, tail |-> acc.tail, kept |-> acc.kept \ {p}]
    ELSE [head |-> IF p.seq <= acc.head THEN End(p) ELSE acc.head,
          tail |-> IF End(p) >= acc.tail THEN p.seq ELSE acc.tail,
          kept |-> acc.kept]

OverlapLoop(head, tail) ==
    LET acc[s \in 0 .. StreamEnd] ==
            IF s = 0 THEN [head |-> head, tail |-> tail, kept |-> data]
            ELSE IF \E p \in data : p.seq = s - 1
                 THEN OverlapStep(acc[s - 1], PacketAt(data, s - 1)) ELSE acc[s - 1]
    IN  acc[StreamEnd]

\* One turn of the loop that moves m_nextRxSeq on, for packet p.
AdvanceStep(next, p) == IF p.seq = next THEN End(p) ELSE next

AdvanceLoop(d) ==
    LET next[s \in 0 .. StreamEnd] ==
            IF s = 0 THEN nextRxSeq
            ELSE IF \E p \in d : p.seq = s - 1
                 THEN AdvanceStep(next[s - 1], PacketAt(d, s - 1)) ELSE next[s - 1]
    IN  next[StreamEnd]

\* the first n bytes of packet p
Payload(p, n) == [k \in 1 .. n |-> p.src + (k - 1)]

\* One turn of the loop of Extract: first packet p is taken whole or in part.
TakeStep(acc, p) ==
    IF acc.left = 0 THEN acc
    ELSE IF p.len <= acc.left
    THEN [kept |-> acc.kept \ {p}, left |-> acc.left - p.len,
          got |-> acc.got \o Payload(p, p.len)]
    ELSE [kept |-> (acc.kept \ {p}) \cup
                       {[seq |-> p.seq + acc.left, src |-> p.src + acc.left,
                         len |-> p.len - acc.left]},
          left |-> 0,
          got |-> acc.got \o Payload(p, acc.left)]

TakeLoop(n) ==
    LET acc[s \in 0 .. StreamEnd] ==
            IF s = 0 THEN [kept |-> data, left |-> n, got |-> <<>>]
            ELSE IF \E p \in data : p.seq = s - 1
                 THEN TakeStep(acc[s - 1], PacketAt(data, s - 1)) ELSE acc[s - 1]
    IN  acc[StreamEnd]

\* What Add stores, what it keeps and how far it moves m_nextRxSeq are what the two
\* loops of TcpRxBuffer::Add leave, for every segment in every reachable state.
AddIsTheLoop ==
    \A seg \in Segments :
        seg[1] < seg[2] /\ ~ OutOfRange(seg[1], seg[2]) =>
        LET tail0 == TrimTail(seg[2])
            head0 == TrimHead(seg[1], tail0)
            loop  == OverlapLoop(head0, tail0)
            head  == HeadPastStored(head0)
            tail  == TailBeforeStored(tail0)
            d     == loop.kept \cup {CreateFragment(seg[1], head, tail)}
        IN  /\ loop.head >= loop.tail <=> head >= tail
            /\ head < tail => /\ loop = [head |-> head, tail |-> tail,
                                         kept |-> data \ Embedded(head, tail0)]
                              /\ AdvanceLoop(d) = FirstHole(d, nextRxSeq)
            /\ head >= tail => loop.kept = data

\* What Extract reads and leaves is what the loop of TcpRxBuffer::Extract takes and
\* leaves, for every read in every reachable state.
ExtractIsTheLoop ==
    \A m \in RecvSizes :
        availBytes > 0 =>
        LET n     == Smaller(m, availBytes)
            begin == BeginSeq(data)
            cut   == begin + n
            loop  == TakeLoop(n)
            whole == {p \in data : End(p) <= cut}
            part  == {p \in data : p.seq < cut /\ cut < End(p)}
        IN  /\ loop.left = 0
            /\ loop.kept = (data \ (whole \cup part)) \cup Rest(part, cut)
            /\ loop.got = [k \in 1 .. n |-> ByteAt(data, begin + (k - 1))]

\* However packets overlap, the loops of Add and of Extract compute what the actions say.
LoopsAgree == AddIsTheLoop /\ ExtractIsTheLoop

\* End of file is signalled only once the whole stream has been received.
EofAfterData == Finished => finSeq = StreamEnd /\ nextRxSeq = StreamEnd + 1

\* The application receives the whole stream and then the end of file.
StreamCompletes == <>(Finished /\ Len(out) = StreamEnd)

Stream == INSTANCE ByteStream WITH
              Length <- StreamEnd, Window <- MaxBuffer, received <- Acked, eof <- Finished

\* Seen from outside, TcpRxBuffer is a stream of bytes with a window: packets that
\* overlap, are dropped, trimmed or wait out of order only ever lengthen the prefix
\* received, and Recv reads on from where it stopped.
ImplementsStream == Stream!Spec
============================================================================
