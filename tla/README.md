# TLA+ models of the DSTCP fork of ns-3

The repository is the ns-3 network simulator with additions of its own: the
data-centre congestion controls `TcpDstcp` and `TcpDcVegas` beside ns-3's
`TcpDctcp`, and experiments that compare them.  What those experiments rest on
is the TCP model of `src/internet/model`: the receive buffer, the receiver that
turns congestion marks into ECE flags, the sender that turns ECE flags and round
trip times into windows, and loss recovery.  Beside it the repository has two
concurrent Python programs, the test runner `test.py` and the live visualizer
PyViz.  This directory models these six.

Paths below are relative to the repository's `src/`; `src/internet/model/` is
left out where a file name is unambiguous.

## 1. Inventory

| Component | State | Operations | Interacts with | What makes it correct |
|---|---|---|---|---|
| Receive buffer (`tcp-rx-buffer.cc`) | packets by sequence number, next number expected, FIN, two byte counters, SACK list | `Add`, `SetFinSequence`, `Extract`, `MaxRxSequence`, `UpdateSackList`, `ClearSackList` | called by the socket for data, FIN and `Recv` | a byte stream: in order, once, nothing acknowledged is lost; the window never shrinks; SACK blocks are true and stay |
| DCTCP/DSTCP receiver (`tcp-dstcp.cc`, `tcp-dctcp.cc`) | CE state, previous receive number, reserved delayed ACK | `CwndEvent`: `CeState0to1`, `CeState1to0`, `UpdateAckReserved` | raised by `ForwardUp`, `ReceivedData`, `DelAckTimeout`; sends ACKs through a callback into the socket | ACKs are honest; a mark reaches the sender; ECE ends with the marks |
| DCTCP/DSTCP sender (same files) | byte counters of the observation window, alpha, beta, least round trip time | `PktsAcked`, `GetSsThresh`, `Reset` | called by `ProcessAck` and `EnterCwr` | fractions stay fractions; a cut has a cause and comes once per window; its threshold stands |
| Proportional rate reduction (`tcp-prr-recovery.cc`) | bytes delivered and sent in the phase, flight at its start | `EnterRecovery`, `DoRecovery`, `ExitRecovery`, `UpdateBytesSent` | called by the socket in CWR and RECOVERY | never divides by 0, never stops the sender |
| Window growth (`tcp-linux-reno.cc`) | a segment counter | `SlowStart`, `CongestionAvoidance` | parent of DSTCP and DCTCP | |
| Socket (`tcp-socket-base.cc`) | TCP, congestion and ECN state machines, timers, sequence numbers | arrival of a segment, application calls, timers | all of the above, the send buffer, the IP layer | one recovery per window; the timer runs while data is outstanding; the transfer ends |
| Send buffer (`tcp-tx-buffer.cc`) | sent and unsent items, scoreboard | `CopyFromSequence`, `Update`, `NextSeg`, `DiscardUpTo` | socket | the scoreboard agrees with the receiver; SACKed data is not resent, lost data is |
| Test runner (`test.py`) | input and output queue, the flag of the SIGINT handler, counters, results file | `run_tests`, `worker_thread.run`, `run_job_synchronously`, `sigint_hook` | threads through the queues; child processes; the terminal | every job handled once; an honest exit status and results file; an end |
| PyViz visualizer (`src/visualizer/visualizer/core.py`) | lock, go event, quit flag, target time, pause messages, update timer | `SimulationThread.run`, `update_view_timeout`, play, speed, quit | a simulation thread and the Gtk main loop | ns-3 is entered by one thread; the view is not outrun; quit ends both |
| DC-Vegas (`tcp-dcvegas.cc`) | as DSTCP, beta only | `PktsAcked` | socket | as DSTCP |
| Queue discs, links | queues, transmit state | enqueue, mark, dequeue, transmit | produce CE marks, loss and delay | marking above the threshold |
| Simulator core, distributed simulation | event sets, clocks | schedule, cancel, run; null messages | run every handler | time order; no event in the past |
| Generated Python bindings (`*/bindings/modulegen__*.py`) | none | lists of registration calls | the build | generated; no control to model |
| Build and maintenance scripts (`wscript`, `utils`, waf tools) | files | sequential scripts | the build | |
| Other TCPs, routing, wireless, applications, tracing | | | | not part of the transport core |

Behaviours that are hard to test here: segments that overlap, are repeated and
cut differently; a FIN that overtakes data; the delayed ACK timer between two
segments; CE marks that change while an ACK is pending; an ACK sent by a nested
callback with the receive buffer set back; echoes before, within and at the end
of a CWR phase; reductions that leave less than a segment; a loss within a CWR
phase; timeouts that race ACKs; a byte product that wraps at 32 bits; an
interrupt between two steps of a worker; children that end in every way; a main
loop run inside a callback of itself; the window closed while the simulation
thread waits.  `PROJECT.json` lists them, each at its line, under `hazards`.

## 2. The modules

Everything in ns-3 runs in simulator events, one at a time and to completion.
In the TCP modules an action is therefore one event with every call its handler
makes.  In the two Python programs an action is what a thread does between two
points where another thread can come in: a queue operation, a read or write of a
shared flag, the taking or giving back of the lock.

### ByteStream and TcpRxBuffer: the receive buffer

`ByteStream` is what the receiving half of a connection promises, without
segments or sequence numbers: a prefix of the stream has been received, a prefix
of that read, at most `Window` bytes wait, and the end comes when all of it is
there.

The variables of `TcpRxBuffer` are the members of the class (`m_data` is a set of
packets, each with the number it is filed under and the stream bytes it holds, so
that a wrongly cut fragment is a wrong byte) and `out`, the bytes the application
was given.  `ReceiveData` is a data segment through `IsValidTcpSegment` and
`ReceivedData`; `PeerClose` a segment with FIN, which notes the FIN and then adds
its data; `Extract` is `Recv`.  `Add` says in one step what the loop of
`TcpRxBuffer::Add` over the stored packets computes: the head moves past the
bytes stored from it on, the tail down to the packet that holds the last byte,
packets strictly inside are dropped.  `Extract` does the same for the loop that
takes packets off the front.  The end of the module has the three loops as they are
written, one turn per packet in the order of `m_data` (`OverlapLoop`, `AdvanceLoop`,
`TakeLoop`), and the invariant `LoopsAgree` compares them with the actions.
`ImplementsStream` is the refinement: `INSTANCE ByteStream` with the number of
bytes below the next one expected as `received`.

Left out: the wrap of 32 bit sequence numbers (compared by signed difference,
which is the order of naturals while live numbers are within 2^31), the TCP
states around the data (an established connection whose peer closes), and the
`SetNextRxSequence` of the ECN feedback, which is in the next module.

### TcpEcnEcho: from CE marks to ECE flags

One record `sock` has the fields the receiver's handlers share; each function
maps a record to a record, so that a handler is a composition in the order of
the code: `ForwardUp` raises the ECN event, `DoForwardUp` reads CWR,
`ReceivedData` stores the segment, then acknowledges or delays.  `SendPrior` is
the nested ACK sent with the buffer set back.  Actions: `Arrive`, any segment not
too far ahead (`Reorder`) or behind (`Behind`), marked or not, with CWR or not;
`DelAckTimeout`.  The history variables `mark`, `echo`, `owed` and `recent` hold
what really was marked and what the sender was told, `inOrder` that no segment has
come out of order; `delAckMaxCount` is the socket's `DelAckCount`, which `Init` chooses.

The model starts in ESTABLISHED; whether a NO_CE event was raised before is a
choice of `Init`, and so is whether the socket has sent data, which sets the delayed
ACK counter back from where the handshake puts it.  Segments are whole (cutting is the first module's subject)
and ECN capable, as the mode `DctcpEcn` makes all of them.  ACKs travel one way:
what the sender makes of them is the next module.

### TcpWindow and TcpDstcp: from ECE flags and round trip times to windows

`TcpWindow` has the window arithmetic both sender modules use: `TcpPrrRecovery`
with its default bound, its 32 bit product taken modulo the constant `WrapAt`,
and `TcpLinuxReno`.

`TcpDstcp` is the sender without loss.  `Ack` is the arrival of an ACK:
`ReceivedAck` (leave a CWR phase, read ECE, perhaps enter a phase), `ProcessAck`
(`PktsAcked`, then `DoRecovery` or `IncreaseWindow`) and `SendPendingData`.
`Send` is the application's write, which only schedules `SendEvent`.  An ACK may
acknowledge anything in flight and may be repeated, so ACKs are lost, merged and
duplicated; its ECE flag and round trip time are free.  While `lastRtt` is 0 no
round trip has been measured and the code that DSTCP adds does nothing: those
behaviours are `TcpDctcp`.

alpha and beta are multiples of `1/Scale`, rounded down; windows and counters are
bytes, sequence numbers count segments of `Seg` bytes.  The scope is narrower
than the code: no data segment is lost (that is the next module), only whole
segments are written, the peer's window never limits, pacing is off, and
`NotifySend` (which lets the application write from within `SendPendingData`) is
not re-entered.  `m_ackedBytesRtt` and `m_tdcv`, which the copy constructor
leaves unset, start with any value of `InitAckedRtt` and `InitTdcv`.

### TcpLossRecovery: scoreboard, recovery and the retransmission timeout

The same socket with a network that loses and reorders segments and loses ACKs,
and the receiver that acknowledges each segment.  The record `tcb` has the flags
of `TcpTxBuffer` as sets of segments (`sacked`, `lost`, `retrans`), so that
`Update`, `UpdateLostCount`, `IsLost`, `AddRenoSack`, `MarkHeadAsLost`,
`SetSentListLost`, `DiscardUpTo` and `NextSeg` are set expressions, and the
congestion states OPEN, DISORDER, CWR, RECOVERY and LOSS.  `ReceivedAck` is one
composition: SACK update, discard, end of CWR, echo, `ProcessAck` with its cases
(`DupAck`, `PartialAck`, an ACK within LOSS or CWR, any other), `SendPendingData`.
`Timeout` is `ReTxTimeout`, also early, when an ACK is still on its way.

Both settings of `m_sackEnabled` are initial states.  `flight` is `m_bytesInFlight`
with the staleness the code has: it is what the last call of `BytesInFlight`
left, not the current count.  Left out: items of the send buffer that are cut or
merged (retransmissions are cut as the originals were; the consequence of other
cuts for the receiver is in `TcpRxBuffer`), the persist timer, the receive
window, pacing, and the estimator (alpha is 1, as it starts).  Assertions do not
stop the program, as in an optimized build.

### TestRunner: test.py

The main thread dispatches the jobs and one stopping job per worker, collects
results, joins and writes the exit status; each worker gets, launches, waits and
puts.  A child ends with any of the return codes the code tells apart and, if it
is a suite, leaves its results file, part of it or none; its output may not be
decodable.  `LaunchFails` is an exception of `Popen`, which ends the worker;
opening a missing results file ends the main thread (`Collect`, `ExitRaised`).
`Interrupt` is SIGINT at any moment.  `MCTestRunner` has a suite, an example and
a skipped suite.  Building the list of jobs and formatting are left out.

### Visualizer: PyViz

The simulation thread with one program counter (`sim`), the Gtk thread with
another (`view`) and `stack`, the timer callbacks active within each other:
`update_view_timeout` runs the main loop itself while it cannot get the lock.
GLib's timer sources are identifiers that are attached (`live`) or not; one is from
the start, since `create_gui` calls `_speed_changed`.  What is
drawn, and the transmission samples of `pyviz.cc`, are left out.

### The proof modules

`TcpRxBufferProofs`, `TcpEcnEchoProofs`, `TcpDstcpProofs`, `TcpLossRecoveryProofs`,
`TestRunnerProofs` and `VisualizerProofs` extend the modules they are named after;
`TcpDstcpClockProofs` continues `TcpDstcpProofs` with the ACK clock; `NatMinimum`
proves that `Min` of a non-empty set of naturals is its minimum, and that a set with
0 and the successors of its members is all of them (`AllNat`).

Loops over data (`MergeFront`, `ClearSackList`, `TotalLen`, `SendPendingData`) are
recursive functions of the number of turns on a bounded domain, not `RECURSIVE`
operators, so that the proofs can reach them.

Operators named `X_Something`, marked "seeded fault", are mutated forms of `X`.
Nothing uses them: each is there to show that a property notices that mistake
when `X` is replaced by it.

## 3. Runs

| Run | Shows |
|---|---|
| `rx_buffer` | every way to cut, overlap, repeat and reorder a stream of 7 bytes and its FIN: the buffer implements `ByteStream` (`ImplementsStream`), keeps what it acknowledged (`AckedIsKept`, `Accounting`), never shrinks its window (`WindowNeverShrinks`), reports SACK blocks that are true (`SackHonest`) and not taken back (`SackNotWithdrawn`), delivers everything in the end (`StreamCompletes`); the loops of `Add` and `Extract`, turn by turn, leave what the actions say (`LoopsAgree`) |
| `rx_resegment` | **violation** of `SackDisjoint` when a retransmission is cut differently |
| `ecn_echo` | delayed ACKs, reordering, duplicates: `AckHonest`, `NextNeverBack`, `EceOnlyOnCe`, `AckedInTheEnd`; with `DelAckCount` 1 and up to the first segment out of order, the ACKs report exactly the marks (`EchoExact`, `MarkEchoedAtOnce`) |
| `ecn_echo_lost` | **violation** of `MarkEchoed` with the default `DelAckCount` 2 |
| `dstcp` | every pattern of ACKs, with and without round trip times: `OneCutPerWindow`, `Fractions`, `EchoCounted`, `NoStall`, `PrrFlightPositive`, `CutNeedsSignal`; the threshold of a CWR phase stands until what was in flight at its beginning is acknowledged (`ThresholdHeld`) |
| `dstcp_threshold` | **violation** of `CutHonoured`: a cut for slow round trips replaces the threshold of a CWR phase before the phase ends |
| `dstcp_fork` | **violation** of `CutNeedsSignal` on a socket forked by a listener |
| `loss_recovery` | losses, reordering, an echo and an early timeout, with and without SACK, with a product that wraps: `Scoreboard`, `TimerArmed`, `OneRecoveryPerWindow`, `TimeoutEmptiesFlight`, `GivesUpLate`, and the transfer `Completes` or is given up |
| `loss_disorder` | **violation** of `DisorderFromOne` after a CWR phase with SACK blocks |
| `test_runner` | children that end in every way, a worker that dies, an exception in the main thread and SIGINT at any moment: `EachJobOnce`, `ExitHonest`, `StopsOnInterrupt`, `ResultsComplete`, `Finishes` |
| `test_runner_valgrind` | **violation** of `ValgrindReported`: a suite with errors found by valgrind has its own entry and no other |
| `visualizer` | play, pause, speed, pause messages and quit in any order: `NeverAhead`, `LockGuards`, `NoMessageLost`, `QuitEnds`, `KeepsGoing`, `PausedEndsTimers` |

### Bounds

* `MaxBuffer` 6, `StreamEnd` 7: the window closes, opens and moves past its first
  position, and a hole can appear before, inside and after every stored packet
  with packets of different sizes around it.  A stream longer than the buffer
  makes the window close on the way of `StreamCompletes`.
* `LastSeg` 5, `DelAckMax` 3, `Reorder` 3, `Behind` 3: a run of marks can
  begin, end and begin again with a delayed ACK pending at each change, three
  segments can be held out of order, and duplicates arrive both at and below the
  edge of `OutOfRange`.  `DelAckCount` is any number from 1 to `DelAckMax`: 1 is
  what the experiments configure, 2 is the default.
* `dstcp`: `DataEnd` 5, `Seg` 2, `InitCwnd` 3: a CWR phase can be entered, left and
  entered again, also on one ACK; `Seg` 2 lets a window fall below a segment
  without being 0.  `Scale` 4 and `Gain` 2 make alpha reach every quarter.  `Rtts`
  {1, 3} with `InitMinRtt` 2: a measurement may lower the minimum, or be slow.
  `MaxDup` 2 bounds how often an ACK is repeated in an observation window: it is
  the only unbounded counter.  Windows stay far below `WrapAt`.
* `loss_recovery`: `DataEnd` 5 with a first window of 4 and `ReTxThresh` 2: a hole
  can be followed by enough SACKed segments for each of the ways into RECOVERY,
  and a second recovery, a timeout within one and a CWR phase interrupted by a
  timeout fit in.  `MaxLoss` 3 loses a segment, its repetition and an ACK;
  `DataRetries` 1 makes giving up reachable; `MaxEce` and `MaxEarly` 1.  `WrapAt`
  16, against windows of up to 10 bytes, stands for 2^32: the product
  `m_prrDelivered * m_ssThresh` wraps in the run.  `loss_disorder` uses the
  defaults 3 and 6.
* `test_runner`: two workers and three jobs: both queues hold several jobs, a
  worker dies while the other goes on, the interrupt falls between any two steps
  of either.  `Valgrind` TRUE adds the return code 2.
* `visualizer`: `MaxNesting` 2 nested callbacks, `Timers` 4 identifiers (at most
  two active, one attached and one remembered), `MaxTime` 2 sample periods,
  `MaxClicks` 3 and `MaxPauses` 2.

Deadlock is checked in the passing ECN echo run, where a duplicate can always
arrive; elsewhere a finished transfer or program stops, and the configurations
say so.

### Fairness

* `rx_buffer`: a one byte segment that stays acceptable is received in the end (the
  sender retransmits what is not acknowledged, and the network does not lose
  every copy), the FIN likewise, and the application reads what it is told of.
  The code of this component cannot guarantee more about its environment, nor
  does it need more.
* `ecn_echo`: weak fairness of `DelAckTimeout` only, since a pending
  simulator event is executed.  Nothing is assumed about arrivals.
* `loss_recovery`: weak fairness of the delivery of what is not lost, of the
  arrival of ACKs and of the timer: pending simulator events all three.  Losses
  are bounded, never fair.
* `test_runner`: weak fairness of the main thread and of each worker, the end of
  its child included.  Neither the interrupt nor a dying worker is forced.
* `visualizer`: weak fairness of both threads; strong fairness of the simulation
  thread's `lock.acquire`, of an attached timer, and of `TryLock` at each nesting
  level, since sample periods are long against the time a handler holds the
  lock.  The user is never forced to do anything.

### Findings

1. `UpdateSackList` does not merge a block embedded in the new one, contrary to
   its comments; retransmissions that merge two items produce such blocks.
2. With delayed ACKs a mark may be echoed only on a duplicate ACK, which the
   sender ignores, while the ACK that covers the segment has no ECE:
   `m_priorRcvNxt` is noted before the segment is stored.
3. Duplicate ACKs are counted in CWR too, so the assertion of `DupAck` that
   DISORDER starts with the first one fails after a CWR phase with SACK blocks.
4. `TcpDstcp`'s copy constructor leaves two members unset, so a forked socket may
   cut its window with no cause.
5. `TcpDstcp::PktsAcked` cuts for slow round trips also within a CWR phase, once
   the flight at its beginning is acknowledged, and so replaces the threshold that
   according to its comment the phase ends with.
6. `test.py` writes no entry VALGR for a suite with errors found by valgrind,
   contrary to its comment; the results file has the suite's own verdict alone.

`PROJECT.json` quotes the line each of them contradicts.

## 4. Proofs

Checked by TLAPS, for every value of the constants that satisfies the named
assumptions `RxConstants`, `EchoConstants`, `WindowConstants`, `DstcpConstants`,
`LossConstants`, `RunnerConstants` and `VisualizerConstants`.

A loop is a function defined by recursion on the number of turns.  That such a
function exists is not something TLA+ takes for granted: `MergesExist`,
`ClearsExist`, `SumsExist`, `TurnsExist` and `LoopExists` prove it, and what the loop computes is
then proved turn by turn.  Both are inductions on naturals without the library's
induction theorems, whose operator parameter the provers cannot instantiate: the
numbers for which the claim holds are a set with 0 and successors, and `AllNat`,
proved from the minimum of the rest, says that this set is `Nat`.

**The receive buffer.** `InOrderDelivery` is not inductive: nothing in it says what
is stored.  The invariant `IInv` adds the types; `FinInv`, that a noted FIN is the
peer's and is consumed only when the stream is complete; `DataInv`, that a packet
is filed under the number of its first byte, ends within the stream, begins at
or after the first unread byte and overlaps no other packet; `PrefixInv`, that the
numbers from the first unread to the first missing are covered and the missing one
is not; and `WindowInv`, that everything held lies within `MaxBuffer` of the first
unread byte.  The last gives `EdgeIsUnreadPlusBuffer`: the right edge of the
window, which the code computes from whichever packet is first, is always the
first unread byte plus `MaxBuffer`.  The hard lemma is `AddData`: the range that
`Add` leaves, with the embedded packets gone, overlaps nothing.  From `IInv`:
`TypeCorrect`, `DeliversInOrder`, `KeepsAcked`, `EofIsLast`, the action property
`EdgeMonotone`, and `Refinement`: the initial state maps to the initial state of
`ByteStream`, a segment or FIN to `Receive` or a stutter, `Extract` to `Read` of as
many bytes as it returned.

`SizeInv` says that `m_size` counts the bytes covered, each once, and `AccountsAgree`
that this and the sum of the packet sizes are the same.  `Add` subtracts the sizes
of the packets it drops and adds the size of the fragment; that this is the change in
the bytes held needs that the dropped packets cover exactly the bytes of the range that
were held (the last conjunct of `Stored`, from the hard half of `AddData`) and
that disjoint packets have as many bytes as their sizes add up to (`TotalIsBytes`, by
the number a packet is filed under).  `SackInv` says that the list consists of blocks in
`Honest`: stored, and beyond the next number expected.  Merging and dropping keep this
for any list (`MergeFrontKeeps`, `AtMostFour`); clearing does because the new edge is
the first hole, so that no block that ends beyond it begins below it (`ClearKeeps`),
and reading because all that is read lies below the edge (`HonestGrows`).  Hence
`SackIsHonest`, also for lists with embedded blocks, which `rx_resegment` shows to be
possible.  `NothingWithdrawn` needs what the same steps keep of the bytes reported: a
merge puts one block in place of two and that block covers both (`Spliced`,
`MergeOnceKeeps`), so every turn of the loop tells of all the turn before told of
(`Tells`); a list of less than four has at most four after it, so nothing is pushed out;
and a block that is cleared ends at or below the new edge, so all of it was received.

`LoopsAreAsWritten` justifies the form of the actions: in every reachable state the
loops, turn by turn, leave what `Add` and `Extract` say at once.  Each loop is a
function of the numbers passed (`TurnsExist`), and each has a lemma for what one turn
keeps.  `OverlapTurn`: over the packets passed, the head stands at the first number
not stored, the tail at the packet that holds its last byte or where it was, and the
packets erased are those inside.  The turns change the head and tail with which later
packets are compared, so the proof rests on `DataInv`: packets lie apart, hence no
later packet reaches a tail that was cut, and if the head meets the tail nothing was
erased before.  `AdvanceLoopIs` gives the first hole because no packet straddles
`m_nextRxSeq`, and `TakeTurn` and `TakeLoopIs` the bytes read, in order, because the
packets below the cut leave no gap (`Readable`).
`OverlapLoopIs`, `AdvanceLoopIs` and `TakeLoopIs` state the results for any packets
that lie apart.

`SackDisjoint` is false when retransmissions are cut differently (`rx_resegment`).
`BlocksAreApart` proves that this is the only cause: under `OneCut`, that any two
segments the peer may send are the same or lie apart, no byte is in two blocks.
`OneCut` is a hypothesis of this theorem alone; a sender satisfies it as long as the
items of its send buffer are neither split nor merged.  The invariant it needs is
`CutInv`: what waits beyond the edge is whole segments, the edge is never inside one,
and the blocks are apart.  Then a segment that arrives is stored whole or not at all and meets no
packet (`StoredWhole`), so the new block is apart from the blocks reported, which are of
stored bytes (`SackInv`); merging (`MergedApart`), dropping the last and clearing
(`ClearApart`) keep blocks apart.

**The ECN echo.** `Good` says of the record that it has its types, that its previous
receive number and all it acknowledged is not beyond the next number expected, and
that nothing held out of order is below that.  Every function of a handler keeps
it, `SendPrior` because it sets forward what it set back; hence `AcksAreHonest` and
`NeverBack` for all arrival patterns and every `DelAckCount`.  `EchoIsExact` is about
`OneByOne`, `DelAckCount` 1 and no segment out of order so far, the setting of the
experiments on a path that keeps the order, and uses `ExactInv`: between events nothing is reserved, no timer
is pending, all that was received is acknowledged, and the last counted mark is
below the next number expected; so the one ACK of an event tells of exactly the
segment it covers.  `EveryMarkIsEchoed` states the same of the marks, in the same
setting.  With a `DelAckCount` of 2 a mark may stay without an echo, as `ecn_echo_lost`
shows.  `EchoStopsByItself` holds in every setting: `EchoInv` ties the CE state to the mark of
the last segment let through and the echoing state to the CE state, so that an ACK has
ECE only on account of one of the last two segments, whatever is reordered,
repeated or delayed.

**The sender.** The invariant has the types of the record (`SocketTypes`: a window
stays a natural number because `GetSsThresh` takes off at most half, and alpha
and beta stay fractions because `Ewma` of a part of the total does, `EwmaRange`);
`CwrInv`, that a phase recovers up to what was sent when it began, that its flight
is not empty before that, and that outside a phase all of that is acknowledged;
`CountInv`, that the window's counters hold at least what was acknowledged since
the window began, and an echo if there was one; `RttInv`, that a slow byte was
seen in this window and that without a round trip time there is none; and `HeldInv`,
from which `ThresholdIsHeld` follows: until the flight at the beginning of a phase is
acknowledged, either the observation window has counted the echo, and then takes no
cut, or it ends at `m_nextTxSequence` of that time or later (`Windows`).  A step is
the composition of the calls of the handler, so the proof goes call by call:
frame lemmas say which fields a call leaves alone (`DoRecoveryFrame`,
`IncreaseFrame`, `SendStep`), and `FlagsReadStep` and `ProcessAckStep` compose them.
All of it holds whatever `WrapAt` is: that the product of PRR wraps changes how
much is sent, none of this.  Every theorem of this module assumes
`InitAckedRtt \subseteq {0}`, that the counter which the copy constructor leaves
unset happens to be 0, as does `NeverStalls`; `CutHasSignal` also `0 \notin InitTdcv`, since every round trip
counts as slow for a threshold of 0.  Without these assumptions `Fractions` and
`CutNeedsSignal` are false from the start, which is the finding of `dstcp_fork`.

`NeverStalls`, in `TcpDstcpClockProofs`, says that no reduction stops the ACK clock.
`NoStall` is not inductive: a CWR phase may end with a threshold below a segment,
and only the growth of the same ACK makes the window usable again.  `ClockInv`
adds `PhaseInv`, that as long as a phase has sent nothing, PRR still owes the one
segment it forces out; and `RoomInv`, that outside a phase, and
whenever nothing is in flight, the window holds a segment.  It holds whatever
`WrapAt` is: the product can wrap to 0, the forced segment does not depend on it.

**Loss recovery.** None of the properties is inductive alone: a mark in the scoreboard
is true because of an ACK that was true when it was sent.  The invariant `Sound` ties
sender, receiver and network together.  Of the socket it says `Good`: its types;
`Board`, that all marks are on outstanding segments, none is both SACKed and lost, the
head is not SACKed and nothing unsent is in the network; `Guesses`, that without SACK
only the head is lost, unless a timeout has emptied the guesses and its window is not
over, so that `AddRenoSack` never takes a segment for SACKed that is lost; and `Prr`,
that PRR never divides by an empty flight.  `InCwr` and `Passed` place the recovery
point: a CWR phase is over when it is acknowledged, and no recovery point of the past
lies beyond the present one.  `Armed` is the timer, `Received` says that the
receiver has what was acknowledged or SACKed and nothing that was not sent, `Tries` that
only timeouts in a row use up retries.  `AcksOK` is about each ACK on its way: its blocks
were received, its number is not a SACKed segment, and it takes back nothing that an
earlier one said, which needs the order of the ACK path.

There is one lemma for each function of the code (`UpdateKeeps`, `AddRenoKeeps`,
`DiscardUpToKeeps`, `EnterCwrKeeps`, `DupAckKeeps`, `PartialAckKeeps`, ...), each with a
relation between the record after and before: `Skeleton` (only windows and counters
changed), `Marks` (only the scoreboard), `Sends` (only what sending changes), `Follows`
(a step within one ACK).  `SendPendingDataKeeps` is the induction over the segments
the loop sends; `ReceivedAckKeeps` and `ReTxTimeoutKeeps` compose the functions in the
order of the handlers.  From `Sound`: `TypeCorrect`, `ScoreboardSound`, `TimerPending`,
`NoEarlySurrender`, and the action properties `RecoversOncePerWindow` and
`TimeoutStartsOver`.  All of it holds whatever `WrapAt` is, and for every bound on
losses.

**The test runner.** `InterruptStops` needs `LateInv`: a worker about to launch has
not launched a child after the interrupt before, because it read the flag since;
with `InHand`, that a worker which launches, waits or puts has a job.  `JobsOnce`
counts the places of a job: each queue operation takes one occurrence from one
place and adds it to another (`TimesTail`, `TimesAppend`, `HoldersChange`), and a
worker that waits for a job has none (`IdleInv`).  `ExitIsHonest` builds on it: the
end of every job that was handed back is known (`SettledInv`), nothing a worker
does touches the record of a job that was taken (`WorkerRecord`), and the counts of
PASS and SKIP are the number of taken jobs that deserve it (`PassedInv`), so they
reach the total only if all jobs do.  `FileIsComplete` adds `XmlInv`: as long as
`run_tests` collects, each job that was taken and not given back has one entry, and
the entry is the verdict of its child.  The code adds no entry for valgrind; the
property leaves room for one, so that it does not contradict the comment of finding 6.

**The visualizer.** `LockInv` ties the two program counters to the owner of the
lock; `LockGuards` follows.  `ViewInv` holds the target within a period of what is
shown, and the balance of the pause messages; `OnePeriodAhead` and `MessagesKept`
follow for any number of timers, nested callbacks and messages.

Only model-checked:

* liveness (`StreamCompletes`, `AckedInTheEnd`, `Completes`, `Finishes`, `QuitEnds`,
  `KeepsGoing`, `PausedEndsTimers`), which is out of the prover's reach;
* `SackDisjoint` (outside the setting of `BlocksAreApart`), `CutNeedsSignal` of forked sockets, `DisorderFromOne`,
  `CutHonoured`, `ValgrindReported` and `MarkEchoed`, which are false.

## 5. Not modelled, and the plan

Not modelled: wireless and cellular devices, routing, addressing, applications,
tracing, configuration, the scripts of the experiments, and the other congestion
controls, which are formulas over doubles with little control.  They do not take
part in the behaviour studied here.

The generated Python bindings are most of the repository's Python lines: for each
class a function that registers its constructors and methods, one call per line,
without state, condition or loop.  There is nothing a state machine of them could
say.  The build and maintenance scripts run once, in order, over files.

Of the modelled components these parts are left out:

* the socket's handshake, close and TIME_WAIT, the persist timer, pacing and the
  receive window as a limit of the sender;
* the bound CRB of PRR, which is not the default;
* cutting and merging of items in the send buffer;
* how `test.py` chooses its jobs and prints;
* drawing in PyViz, and `autoscale_view`, whose unlocked reading of positions is
  a step of the model without a property of its own, since it is a known race.

One disagreement with a comment is modelled without a run of its own.  `ReTxTimeout`
asks whether the head was retransmitted (`tcp-socket-base.cc:3729`) after
`SetSentListLost` has cleared the marks that say so (line 3707), so a second timeout
of a segment reduces the threshold again; the comment at lines 3726-3728 says that it
does so only if the segment "has not yet been resent by way of the retransmission
timer".

Next, in this order:

1. `TcpConnection`: handshake and close of two sockets over a network that loses,
   repeats and reorders, composed with `ByteStream`.
2. The closed loop: `TcpEcnEcho` and `TcpDstcp` over a marking queue (RED with its
   threshold), whose marks are then no longer free inputs.
3. DC-Vegas: without loss it behaves as `TcpDstcp` does when no ACK carries ECE (its
   `Init` leaves ECN off); its own `GetSsThresh`, reached only through loss, belongs
   in `TcpLossRecovery`.
4. The simulator's schedulers and the null messages of the distributed simulation.

Each property of a run that is not a liveness property, and is not one of the false
ones, is now a theorem.  Theorems to prove next come with those modules: that the
handshake and close keep `ByteStream`, and that the closed loop gives `TcpDstcp` the
ACKs its inputs range over.
