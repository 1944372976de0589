--------------------------- MODULE MCTcpRxBuffer ---------------------------
(***************************************************************************)
(* Instances of TcpRxBuffer for TLC.                                       *)
(***************************************************************************)
EXTENDS TcpRxBuffer

\* every way to cut the stream: a retransmission may be cut differently
AllSegments == {s \in (0 .. StreamEnd) \X (0 .. StreamEnd) : s[1] <= s[2]}
============================================================================
