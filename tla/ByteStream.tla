----------------------------- MODULE ByteStream -----------------------------
(***************************************************************************)
(* What the receiving half of a TCP connection promises the application    *)
(* and the peer, without segments, sequence numbers or a reassembly        *)
(* buffer: a stream of Length bytes of which a prefix has been received    *)
(* (and acknowledged), a prefix of that has been read, at most Window      *)
(* received bytes wait to be read, and the end of the stream is reported   *)
(* once all of it is there.                                                *)
(***************************************************************************)
EXTENDS Integers, Sequences

CONSTANTS
    Length,    \* the bytes of the stream are 0 .. Length-1
    Window     \* how many received bytes may wait to be read

VARIABLES
    received,  \* how many bytes have been received
    out,       \* the bytes the application has read
    eof        \* the end of the stream has been received

vars == <<received, out, eof>>

Init == received = 0 /\ out = <<>> /\ eof = FALSE

\* More of the stream arrives, perhaps with its end.
Receive ==
    /\ ~ eof
    /\ received' \in received .. Length
    /\ received' <= Len(out) + Window
    /\ eof' \in {FALSE, received' = Length}
    /\ UNCHANGED out

\* The application reads the next n bytes.
Read(n) ==
    /\ n <= received - Len(out)
    /\ out' = out \o [k \in 1 .. n |-> Len(out) + (k - 1)]
    /\ UNCHANGED <<received, eof>>

Next == Receive \/ \E n \in 1 .. Length : Read(n)

Spec == Init /\ [][Next]_vars
=============================================================================
