-------------------------- MODULE TestRunnerProofs --------------------------
(***************************************************************************)
(* Proofs about TestRunner for any workers and any list of jobs.           *)
(***************************************************************************)
EXTENDS TestRunner, FiniteSetTheorems, SequenceTheorems, TLAPS

(***************************************************************************)
(* The inductive invariant: types, where a worker has a job in hand, and   *)
(* how far a worker can get after the interrupt.                           *)
(***************************************************************************)
Places == {"get", "launch", "run", "put", "stopped", "dead"}
Results == {"PASS", "FAIL", "SKIP", "CRASH", "VALGR"}

MainTypes ==
    /\ main \in {"dispatch", "collect", "raised", "finished"}
    /\ sent \in 0 .. NumJobs /\ stops \in 0 .. Cardinality(Workers) /\ got \in 0 .. NumJobs
    /\ exit \in {-1, 0, 1}

QueueTypes ==
    /\ inputQueue \in Seq(0 .. NumJobs)
    /\ outputQueue \in Seq(JobIds)

WorkTypes ==
    /\ worker \in [Workers -> Places]
    /\ holds \in [Workers -> 0 .. NumJobs]
    /\ isBreak \subseteq JobIds
    /\ returncode \in [JobIds -> 0 .. Other]

\* a result is counted when a job is taken
TallyInv ==
    /\ tally \in [Results -> Nat]
    /\ \A s \in Results : tally[s] <= got

InHand == \A w \in Workers : worker[w] \in {"launch", "run", "put"} => holds[w] \in JobIds

\* A worker that has started a child after the interrupt has seen the flag set
\* ever since, so it takes no job to launch again.
LateInv ==
    /\ threadExit \in BOOLEAN
    /\ late \in [Workers -> {0, 1}]
    /\ \A w \in Workers : worker[w] = "launch" => late[w] = 0
    /\ \A w \in Workers : late[w] > 0 => threadExit

IInv == MainTypes /\ QueueTypes /\ WorkTypes /\ TallyInv /\ InHand /\ LateInv

LEMMA Sizes ==
    /\ NumJobs \in Nat
    /\ Cardinality(Workers) \in Nat
BY RunnerConstants, FS_CardinalityType DEF NumJobs

LEMMA QueueHead ==
    ASSUME NEW S, NEW q \in Seq(S), q # <<>>
    PROVE  Head(q) \in S /\ Tail(q) \in Seq(S)
OBVIOUS

LEMMA OutcomeCode ==
    ASSUME NEW j \in JobIds, NEW c \in Outcomes(j)
    PROVE  ReturnCode(c) \in 0 .. Other
<1>1. c.rc \in 0 .. Other
  BY DEF Outcomes, Other
<1> QED BY <1>1 DEF ReturnCode, Other

LEMMA GetStep ==
    ASSUME IInv, NEW w \in Workers, Get(w)
    PROVE  IInv'
<1> DEFINE j == Head(inputQueue)
<1>0. NumJobs \in Nat
  BY Sizes
<1>1. j \in 0 .. NumJobs /\ Tail(inputQueue) \in Seq(0 .. NumJobs)
  BY QueueHead DEF IInv, QueueTypes, Get
<1>2. j # 0 => j \in JobIds
  BY <1>0, <1>1 DEF JobIds
<1>3. /\ worker' = [worker EXCEPT ![w] = AfterGet(j)]
      /\ holds' = [holds EXCEPT ![w] = j]
      /\ isBreak' = IF j # 0 /\ threadExit THEN isBreak \cup {j} ELSE isBreak
      /\ inputQueue' = Tail(inputQueue)
      /\ UNCHANGED <<mainVars, outputQueue, threadExit, returncode, child, late>>
  BY DEF Get
<1>4. /\ AfterGet(j) \in {"stopped", "put", "launch"}
      /\ AfterGet(j) \in {"put", "launch"} => j # 0
      /\ AfterGet(j) = "launch" => ~ threadExit
  BY DEF AfterGet
<1>5. MainTypes' /\ TallyInv'
  BY <1>3 DEF IInv, MainTypes, TallyInv, mainVars
<1>6. QueueTypes'
  BY <1>1, <1>3 DEF IInv, QueueTypes
<1>7. WorkTypes'
  BY <1>1, <1>2, <1>3, <1>4 DEF IInv, WorkTypes, Places
<1>8. InHand'
  BY <1>2, <1>3, <1>4 DEF IInv, InHand, WorkTypes
<1>9. LateInv'
  BY <1>3, <1>4 DEF IInv, LateInv, WorkTypes
<1> QED BY <1>5, <1>6, <1>7, <1>8, <1>9 DEF IInv

LEMMA WorkerKeeps ==
    ASSUME IInv, NEW w \in Workers, Launch(w) \/ LaunchFails(w) \/ ChildEnds(w) \/ Put(w)
    PROVE  IInv'
<1>1. MainTypes' /\ TallyInv'
  BY DEF IInv, MainTypes, TallyInv, mainVars, Launch, LaunchFails, ChildEnds, Put
<1>2. holds[w] \in JobIds
  BY DEF IInv, InHand, Launch, LaunchFails, ChildEnds, Put
<1>3. QueueTypes'
  <2>1. Append(outputQueue, holds[w]) \in Seq(JobIds)
    BY <1>2 DEF IInv, QueueTypes
  <2> QED BY <2>1 DEF IInv, QueueTypes, Launch, LaunchFails, ChildEnds, Put, PutJob
<1>4. WorkTypes'
  <2>0. NumJobs \in Nat
    BY Sizes
  <2>1. CASE ChildEnds(w)
    <3>1. PICK c \in Outcomes(holds[w]) :
             returncode' = [returncode EXCEPT ![holds[w]] = ReturnCode(c)]
      BY <2>1 DEF ChildEnds
    <3>2. ReturnCode(c) \in 0 .. Other
      BY <1>2, OutcomeCode
    <3>3. returncode' \in [JobIds -> 0 .. Other]
      BY <3>1, <3>2 DEF IInv, WorkTypes
    <3> QED BY <2>1, <3>3 DEF ChildEnds, IInv, WorkTypes, Places
  <2>2. CASE Launch(w) \/ LaunchFails(w) \/ Put(w)
    BY <2>0, <2>2 DEF Launch, LaunchFails, Put, IInv, WorkTypes, Places
  <2> QED BY <2>1, <2>2
<1>5. InHand'
  BY <1>2 DEF IInv, InHand, WorkTypes, Launch, LaunchFails, ChildEnds, Put
<1>6. LateInv'
  BY DEF IInv, LateInv, WorkTypes, Launch, LaunchFails, ChildEnds, Put
<1> QED BY <1>1, <1>3, <1>4, <1>5, <1>6 DEF IInv

LEMMA MainKeeps ==
    ASSUME IInv, MainStep
    PROVE  IInv'
<1>0. NumJobs \in Nat /\ Cardinality(Workers) \in Nat
  BY Sizes
<1>1. WorkTypes' /\ InHand' /\ LateInv'
  BY DEF IInv, WorkTypes, InHand, LateInv, workVars, MainStep, Dispatch, DispatchStop,
         StartCollecting, Collect, Finish, ExitRaised
<1>2. CASE Dispatch
  <2>1. sent' \in 0 .. NumJobs
    BY <1>0, <1>2 DEF Dispatch, IInv, MainTypes
  <2>2. Append(inputQueue, sent') \in Seq(0 .. NumJobs)
    BY <2>1 DEF IInv, QueueTypes
  <2> QED BY <1>1, <1>2, <2>1, <2>2 DEF Dispatch, IInv, MainTypes, QueueTypes, TallyInv
<1>3. CASE DispatchStop
  <2>1. stops' \in 0 .. Cardinality(Workers)
    BY <1>0, <1>3 DEF DispatchStop, StopsWanted, IInv, MainTypes
  <2>2. Append(inputQueue, 0) \in Seq(0 .. NumJobs)
    BY <1>0 DEF IInv, QueueTypes
  <2> QED BY <1>1, <1>3, <2>1, <2>2 DEF DispatchStop, IInv, MainTypes, QueueTypes, TallyInv
<1>4. CASE StartCollecting \/ Finish \/ ExitRaised
  BY <1>1, <1>4 DEF StartCollecting, Finish, ExitRaised, IInv, MainTypes, QueueTypes, TallyInv
<1>5. CASE Collect
  <2>1. Tail(outputQueue) \in Seq(JobIds)
    BY <1>5, QueueHead DEF Collect, IInv, QueueTypes
  <2>2. QueueTypes'
    BY <1>5, <2>1 DEF Collect, IInv, QueueTypes
  <2>3. got' = got + 1 /\ got' \in 0 .. NumJobs
    BY <1>0, <1>5 DEF Collect, IInv, MainTypes
  <2>4. main' \in {"collect", "raised"}
    BY <1>5 DEF Collect
  <2>5. MainTypes'
    BY <1>5, <2>3, <2>4 DEF Collect, IInv, MainTypes
  <2>6. \/ tally' = tally
        \/ \E s : tally' = [tally EXCEPT ![s] = @ + 1]
    BY <1>5 DEF Collect
  <2>7. TallyInv'
    BY <2>3, <2>6 DEF IInv, TallyInv, MainTypes
  <2> QED BY <1>1, <2>2, <2>5, <2>7 DEF IInv
<1> QED BY <1>2, <1>3, <1>4, <1>5 DEF MainStep

THEOREM Inductive == Spec => []IInv
<1>1. Init => IInv
  <2> SUFFICES ASSUME Init PROVE IInv
    OBVIOUS
  <2>0. NumJobs \in Nat /\ Cardinality(Workers) \in Nat
    BY Sizes
  <2>1. MainTypes /\ QueueTypes
    BY <2>0 DEF Init, MainTypes, QueueTypes
  <2>2. WorkTypes
    BY <2>0 DEF Init, WorkTypes, Places, Other
  <2>3. TallyInv /\ InHand
    BY DEF Init, TallyInv, Results, InHand
  <2>4. threadExit = FALSE /\ late = [w \in Workers |-> 0]
    BY DEF Init
  <2>5. /\ threadExit \in BOOLEAN
        /\ late \in [Workers -> {0, 1}]
        /\ \A w \in Workers : late[w] = 0
    BY <2>4
  <2>6. LateInv
    BY <2>5 DEF LateInv
  <2> QED BY <2>1, <2>2, <2>3, <2>6 DEF IInv
<1>2. IInv /\ [Next]_vars => IInv'
  <2> SUFFICES ASSUME IInv, [Next]_vars PROVE IInv'
    OBVIOUS
  <2>1. CASE MainStep
    BY <2>1, MainKeeps
  <2>2. ASSUME NEW w \in Workers, WorkerStep(w) \/ LaunchFails(w) PROVE IInv'
    BY <2>2, GetStep, WorkerKeeps DEF WorkerStep
  <2>3. CASE Interrupt
    BY <2>3 DEF Interrupt, IInv, MainTypes, QueueTypes, WorkTypes, TallyInv, InHand, LateInv,
                mainVars, workVars
  <2>4. CASE UNCHANGED vars
    BY <2>4 DEF vars, IInv, MainTypes, QueueTypes, WorkTypes, TallyInv, InHand, LateInv,
                mainVars, workVars
  <2> QED BY <2>1, <2>2, <2>3, <2>4 DEF Next
<1> QED BY <1>1, <1>2, PTL DEF Spec

\* The variables of test.py keep their types: only real jobs are given back, and no
\* result is counted more often than jobs were taken.
THEOREM TypeCorrect == Spec => []TypeOK
<1>1. IInv => TypeOK
  <2> SUFFICES ASSUME IInv PROVE TypeOK
    OBVIOUS
  <2>1. tally \in [Results -> 0 .. NumJobs]
    BY Sizes DEF IInv, TallyInv, MainTypes
  <2> QED BY <2>1 DEF IInv, MainTypes, QueueTypes, WorkTypes, LateInv, TypeOK, Places, Results
<1> QED BY <1>1, Inductive, PTL

\* After SIGINT a worker starts at most the child it had decided on before,
\* whatever the number of workers and of jobs.
THEOREM InterruptStops == Spec => []StopsOnInterrupt
<1>1. IInv => StopsOnInterrupt
  BY DEF IInv, LateInv, StopsOnInterrupt
<1> QED BY <1>1, Inductive, PTL

(***************************************************************************)
(* A job is in one queue, in one worker's hands, or taken                  *)
(***************************************************************************)
Find(q, j) == {i \in 1 .. Len(q) : q[i] = j}
One(x, y) == IF x = y THEN 1 ELSE 0
Present == {j \in JobIds : Waiting(j) = 1}
Handled == {j \in JobIds : j <= sent /\ Waiting(j) = 0}

LEMMA Counts ==
    ASSUME NEW S, NEW q \in Seq(S), NEW j
    PROVE  IsFiniteSet(Find(q, j)) /\ Times(q, j) = Cardinality(Find(q, j)) /\ Times(q, j) \in Nat
<1>1. Len(q) \in Nat
  OBVIOUS
<1>2. IsFiniteSet(1 .. Len(q))
  BY <1>1, FS_Interval
<1>3. IsFiniteSet(Find(q, j))
  BY <1>2, FS_Subset DEF Find
<1> QED BY <1>3, FS_CardinalityType DEF Times, Find

LEMMA TimesAppend ==
    ASSUME NEW S, NEW q \in Seq(S), NEW x \in S, NEW j
    PROVE  Times(Append(q, x), j) = Times(q, j) + One(x, j)
<1>1. Append(q, x) \in Seq(S)
  OBVIOUS
<1>2. Len(q) + 1 \notin Find(q, j)
  BY DEF Find
<1> DEFINE c == Find(Append(q, x), j)
<1>5. /\ IsFiniteSet(Find(q, j)) /\ Times(q, j) = Cardinality(Find(q, j)) /\ Times(q, j) \in Nat
      /\ Times(Append(q, x), j) = Cardinality(c)
  BY <1>1, Counts
<1>3. CASE x = j
  <2>1. c = Find(q, j) \cup {Len(q) + 1}
    BY <1>3 DEF Find
  <2> HIDE DEF c
  <2> QED BY <1>2, <1>3, <1>5, <2>1, FS_AddElement DEF One
<1>4. CASE x # j
  <2>1. c = Find(q, j)
    BY <1>4 DEF Find
  <2> HIDE DEF c
  <2> QED BY <1>4, <1>5, <2>1 DEF One
<1> QED BY <1>3, <1>4

LEMMA TimesTail ==
    ASSUME NEW S, NEW q \in Seq(S), q # <<>>, NEW j
    PROVE  Times(q, j) = Times(Tail(q), j) + One(Head(q), j)
<1> DEFINE T == Find(Tail(q), j)
           R == Find(q, j) \ {1}
           f == [i \in T |-> i + 1]
<1>1. /\ Tail(q) \in Seq(S) /\ Len(Tail(q)) = Len(q) - 1 /\ Head(q) = q[1]
      /\ Len(q) \in Nat \ {0}
      /\ \A i \in 1 .. Len(q) - 1 : Tail(q)[i] = q[i + 1]
  OBVIOUS
<1>2. f \in [T -> R]
  BY <1>1 DEF Find
<1>3. IsInjective(f)
  BY DEF IsInjective, Find
<1>4. \A k \in R : \E i \in T : f[i] = k
  <2> SUFFICES ASSUME NEW k \in R PROVE \E i \in T : f[i] = k
    OBVIOUS
  <2>1. k \in 2 .. Len(q) /\ q[k] = j
    BY <1>1 DEF Find
  <2>2. k - 1 \in 1 .. Len(q) - 1
    BY <1>1, <2>1
  <2>3. k - 1 \in T
    BY <1>1, <2>1, <2>2 DEF Find
  <2> QED BY <2>1, <2>3
<1>5. ExistsBijection(T, R)
  BY <1>2, <1>3, <1>4 DEF ExistsBijection, Bijection, Injection, Surjection
<1>6. Cardinality(R) = Times(Tail(q), j)
  <2>1. IsFiniteSet(T) /\ Times(Tail(q), j) = Cardinality(T)
    BY <1>1, Counts
  <2> HIDE DEF T, R
  <2> QED BY <1>5, <2>1, FS_Bijection
<1>7. Cardinality(R) = IF 1 \in Find(q, j) THEN Times(q, j) - 1 ELSE Times(q, j)
  BY Counts, FS_RemoveElement, ZenonT(60)
<1>8. 1 \in Find(q, j) <=> Head(q) = j
  BY <1>1 DEF Find
<1> QED BY <1>1, <1>6, <1>7, <1>8, Counts DEF One

\* A worker takes up a job, or lays it down.
LEMMA HoldersChange ==
    ASSUME WorkTypes, NEW w \in Workers, NEW x \in 0 .. NumJobs, NEW j \in JobIds,
           holds' = [holds EXCEPT ![w] = x], holds[w] = 0 \/ x = 0
    PROVE  /\ Cardinality(Holders(j)) \in Nat
           /\ Cardinality(Holders(j))' = Cardinality(Holders(j)) + One(x, j) - One(holds[w], j)
<1>0. IsFiniteSet(Holders(j)) /\ Cardinality(Holders(j)) \in Nat /\ j # 0
  <2>1. IsFiniteSet(Holders(j))
    BY RunnerConstants, FS_Subset DEF Holders
  <2> QED BY <2>1, FS_CardinalityType DEF JobIds
<1>1. \A v \in Workers : holds'[v] = IF v = w THEN x ELSE holds[v]
  BY DEF WorkTypes
<1>2. CASE x = j
  <2>1. holds[w] = 0
    BY <1>0, <1>2
  <2>2. Holders(j)' = Holders(j) \cup {w} /\ w \notin Holders(j)
    BY <1>0, <1>1, <1>2, <2>1 DEF Holders
  <2> QED BY <1>0, <1>2, <2>1, <2>2, FS_AddElement DEF One
<1>3. CASE x # j /\ holds[w] = j
  <2>1. Holders(j)' = Holders(j) \ {w} /\ w \in Holders(j)
    BY <1>1, <1>3 DEF Holders
  <2> QED BY <1>0, <1>3, <2>1, FS_RemoveElement, SMTT(30) DEF One
<1>4. CASE x # j /\ holds[w] # j
  <2>1. Holders(j)' = Holders(j)
    BY <1>1, <1>4 DEF Holders
  <2> QED BY <1>0, <1>4, <2>1 DEF One
<1> QED BY <1>2, <1>3, <1>4

LEMMA WaitingParts ==
    ASSUME IInv, NEW j \in JobIds
    PROVE  /\ Times(inputQueue, j) \in Nat /\ Times(outputQueue, j) \in Nat
           /\ Cardinality(Holders(j)) \in Nat
<1>1. IsFiniteSet(Holders(j))
  BY RunnerConstants, FS_Subset DEF Holders
<1> QED BY <1>1, FS_CardinalityType, Counts DEF IInv, QueueTypes

\* A worker with nothing to do has nothing in hand, and every job is where it should.
IdleInv == \A w \in Workers : worker[w] = "get" => holds[w] = 0

OnceInv == IdleInv /\ EachJobOnce

\* A step that only moves jobs about leaves the count as it is.
LEMMA Moved ==
    ASSUME EachJobOnce, UNCHANGED <<sent, got>>, \A j \in JobIds : Waiting(j)' = Waiting(j)
    PROVE  EachJobOnce'
<1>1. Present' = Present
  BY DEF Present
<1> QED BY <1>1 DEF EachJobOnce, Present

LEMMA WorkerMoves ==
    ASSUME IInv, OnceInv, NEW w \in Workers, WorkerStep(w) \/ LaunchFails(w)
    PROVE  OnceInv' /\ \A j \in JobIds : Waiting(j)' = Waiting(j)
<1>0. UNCHANGED <<sent, got>>
  BY DEF WorkerStep, Get, Launch, LaunchFails, ChildEnds, Put, mainVars
<1>1. worker \in [Workers -> Places] /\ WorkTypes /\ QueueTypes
  BY DEF IInv, WorkTypes
<1>2. CASE Get(w)
  <2> DEFINE x == Head(inputQueue)
  <2>1. x \in 0 .. NumJobs
    BY <1>1, <1>2, QueueHead DEF QueueTypes, Get
  <2>2. /\ inputQueue' = Tail(inputQueue) /\ outputQueue' = outputQueue
        /\ holds' = [holds EXCEPT ![w] = x] /\ worker' = [worker EXCEPT ![w] = AfterGet(x)]
        /\ holds[w] = 0 /\ inputQueue # <<>>
    BY <1>2 DEF Get, OnceInv, IdleInv
  <2>3. ASSUME NEW j \in JobIds PROVE Waiting(j)' = Waiting(j)
    <3>1. Times(inputQueue, j) = Times(inputQueue', j) + One(x, j)
      BY <1>1, <2>2, TimesTail DEF QueueTypes
    <3>2. Cardinality(Holders(j))' = Cardinality(Holders(j)) + One(x, j) - One(holds[w], j)
      BY <1>1, <2>1, <2>2, HoldersChange
    <3>3. One(holds[w], j) = 0 /\ One(x, j) \in Nat
      BY <2>2 DEF One, JobIds
    <3>4. Times(inputQueue', j) \in Nat
      BY <1>1, <2>2, Counts, QueueHead DEF QueueTypes
    <3> HIDE DEF x
    <3> QED BY <2>2, <3>1, <3>2, <3>3, <3>4, WaitingParts DEF Waiting
  <2>4. IdleInv'
    BY <1>1, <2>2 DEF OnceInv, IdleInv, AfterGet, WorkTypes
  <2> QED BY <1>0, <2>3, <2>4, Moved DEF OnceInv
<1>3. CASE Put(w)
  <2>1. /\ inputQueue' = inputQueue /\ outputQueue' = Append(outputQueue, holds[w])
        /\ holds' = [holds EXCEPT ![w] = 0] /\ worker' = [worker EXCEPT ![w] = "get"]
    BY <1>3 DEF Put, PutJob
  <2>2. holds[w] \in JobIds
    BY <1>3 DEF Put, IInv, InHand
  <2>3. ASSUME NEW j \in JobIds PROVE Waiting(j)' = Waiting(j)
    <3>1. Times(outputQueue', j) = Times(outputQueue, j) + One(holds[w], j)
      BY <1>1, <2>1, <2>2, TimesAppend DEF QueueTypes
    <3>2. Cardinality(Holders(j))' = Cardinality(Holders(j)) + One(0, j) - One(holds[w], j)
      <4>1. 0 \in 0 .. NumJobs
        BY Sizes
      <4> QED BY <1>1, <2>1, <4>1, HoldersChange
    <3>3. One(0, j) = 0 /\ One(holds[w], j) \in Nat
      BY DEF One, JobIds
    <3> QED BY <2>1, <3>1, <3>2, <3>3, WaitingParts DEF Waiting
  <2>4. IdleInv'
    BY <1>1, <2>1 DEF OnceInv, IdleInv, WorkTypes
  <2> QED BY <1>0, <2>3, <2>4, Moved DEF OnceInv
<1>4. CASE Launch(w) \/ LaunchFails(w) \/ ChildEnds(w)
  <2>1. UNCHANGED <<inputQueue, outputQueue, holds>>
    BY <1>4 DEF Launch, LaunchFails, ChildEnds
  <2>2. \A j \in JobIds : Waiting(j)' = Waiting(j)
    BY <2>1 DEF Waiting, Times, Holders
  <2>3. IdleInv'
    BY <1>1, <1>4, <2>1 DEF OnceInv, IdleInv, Launch, LaunchFails, ChildEnds
  <2> QED BY <1>0, <2>2, <2>3, Moved DEF OnceInv
<1> QED BY <1>2, <1>3, <1>4 DEF WorkerStep

\* Dispatching brings a new job in, collecting takes one that is there out.
LEMMA MainMoves ==
    ASSUME IInv, OnceInv, MainStep
    PROVE  /\ OnceInv'
           /\ IF Collect
              THEN \E h \in JobIds : /\ h = Head(outputQueue) /\ h \notin Handled
                                    /\ Handled' = Handled \cup {h}
              ELSE Handled' = Handled
<1>0. /\ IdleInv' /\ NumJobs \in Nat /\ sent \in 0 .. NumJobs /\ got \in 0 .. NumJobs
      /\ QueueTypes /\ holds' = holds
  BY Sizes DEF OnceInv, IdleInv, IInv, MainTypes, MainStep, Dispatch, DispatchStop,
               StartCollecting, Collect, Finish, ExitRaised, workVars
<1>1. /\ IsFiniteSet(Present) /\ Cardinality(Present) \in Nat
      /\ got = sent - Cardinality(Present)
  <2>0. IsFiniteSet(JobIds)
    BY <1>0, FS_Interval DEF JobIds
  <2>1. IsFiniteSet(Present)
    BY <2>0, FS_Subset DEF Present
  <2> QED BY <2>1, FS_CardinalityType DEF OnceInv, EachJobOnce, Present
<1>2. \A j \in JobIds : Waiting(j) \in Nat /\ Waiting(j) <= 1 /\ (j > sent => Waiting(j) = 0)
  BY WaitingParts DEF Waiting, OnceInv, EachJobOnce
<1>3. \A j \in JobIds : Holders(j)' = Holders(j)
  BY <1>0 DEF Holders
<1>4. CASE Dispatch
  <2>1. /\ sent < NumJobs /\ sent' = sent + 1 /\ got' = got
        /\ inputQueue' = Append(inputQueue, sent + 1) /\ outputQueue' = outputQueue
    BY <1>4 DEF Dispatch
  <2>2. PICK k \in JobIds : k = sent + 1
    BY <1>0, <2>1 DEF JobIds
  <2>3. ASSUME NEW j \in JobIds PROVE Waiting(j)' = Waiting(j) + One(k, j)
    <3>0. k \in 0 .. NumJobs
      BY <1>0 DEF JobIds
    <3>1. Times(inputQueue', j) = Times(inputQueue, j) + One(k, j)
      BY <1>0, <2>1, <2>2, <3>0, TimesAppend DEF QueueTypes
    <3>2. One(k, j) \in Nat
      BY DEF One
    <3> QED BY <1>3, <2>1, <3>1, <3>2, WaitingParts DEF Waiting
  <2>4. Waiting(k) = 0 /\ Waiting(k)' = 1
    <3>1. Waiting(k) = 0
      BY <1>0, <1>2, <2>2
    <3> QED BY <2>3, <3>1 DEF One
  <2>5. \A j \in JobIds : j # k => Waiting(j)' = Waiting(j)
    BY <1>2, <2>3 DEF One
  <2>6. Present' = Present \cup {k} /\ k \notin Present
    BY <2>4, <2>5 DEF Present
  <2>7. Cardinality(Present') = Cardinality(Present) + 1
    BY <1>1, <2>6, FS_AddElement
  <2>8. \A j \in JobIds : Waiting(j)' <= 1 /\ (j > sent' => Waiting(j)' = 0)
    BY <1>0, <1>2, <2>1, <2>2, <2>4, <2>5 DEF JobIds
  <2>9. Handled' = Handled /\ ~ Collect
    <3>1. \A j \in JobIds : j <= sent' /\ Waiting(j)' = 0 <=> j <= sent /\ Waiting(j) = 0
      BY <1>0, <2>1, <2>2, <2>4, <2>5 DEF JobIds
    <3> QED BY <1>4, <3>1 DEF Handled, Dispatch, Collect
  <2> QED BY <1>0, <1>1, <2>1, <2>7, <2>8, <2>9 DEF OnceInv, EachJobOnce, Present
<1>5. CASE Collect
  <2>1. /\ got' = got + 1 /\ sent' = sent /\ outputQueue' = Tail(outputQueue)
        /\ inputQueue' = inputQueue /\ outputQueue # <<>>
    BY <1>5 DEF Collect
  <2>2. PICK h \in JobIds : h = Head(outputQueue)
    BY <1>0, <2>1, QueueHead DEF QueueTypes
  <2>3. ASSUME NEW j \in JobIds PROVE Waiting(j) = Waiting(j)' + One(h, j) /\ Waiting(j)' \in Nat
    <3>1. Times(outputQueue, j) = Times(outputQueue', j) + One(h, j)
      BY <1>0, <2>1, <2>2, TimesTail DEF QueueTypes
    <3>2. Times(outputQueue', j) \in Nat /\ One(h, j) \in Nat
      BY <1>0, <2>1, Counts, QueueHead DEF QueueTypes, One
    <3> QED BY <1>3, <2>1, <3>1, <3>2, WaitingParts, SMTT(30) DEF Waiting
  <2>4. Waiting(h) = 1 /\ Waiting(h)' = 0
    BY <1>2, <2>2, <2>3 DEF One
  <2>5. \A j \in JobIds : j # h => Waiting(j)' = Waiting(j)
    BY <2>3 DEF One
  <2>6. Present' = Present \ {h} /\ h \in Present
    BY <2>2, <2>4, <2>5 DEF Present
  <2>7. Cardinality(Present') = Cardinality(Present) - 1
    BY <1>1, <2>6, FS_RemoveElement
  <2>8. \A j \in JobIds : Waiting(j)' <= 1 /\ (j > sent' => Waiting(j)' = 0)
    BY <1>2, <2>1, <2>4, <2>5
  <2>9. h \notin Handled /\ Handled' = Handled \cup {h}
    <3>1. h <= sent
      BY <1>0, <1>2, <2>4 DEF JobIds
    <3> QED BY <2>1, <2>4, <2>5, <3>1 DEF Handled
  <2> QED BY <1>0, <1>1, <1>5, <2>1, <2>2, <2>7, <2>8, <2>9 DEF OnceInv, EachJobOnce, Present
<1>6. CASE DispatchStop
  <2>1. UNCHANGED <<sent, got>> /\ inputQueue' = Append(inputQueue, 0) /\ outputQueue' = outputQueue
    BY <1>6 DEF DispatchStop
  <2>2. ASSUME NEW j \in JobIds PROVE Waiting(j)' = Waiting(j)
    <3>1. Times(inputQueue', j) = Times(inputQueue, j) + One(0, j)
      BY <1>0, <2>1, TimesAppend DEF QueueTypes
    <3>2. One(0, j) = 0
      BY DEF One, JobIds
    <3> QED BY <1>3, <2>1, <3>1, <3>2, WaitingParts DEF Waiting
  <2>3. Handled' = Handled /\ ~ Collect
    BY <1>6, <2>1, <2>2 DEF Handled, DispatchStop, Collect
  <2> QED BY <1>0, <2>1, <2>2, <2>3, Moved DEF OnceInv
<1>7. CASE StartCollecting \/ Finish \/ ExitRaised
  <2>1. UNCHANGED <<sent, got, inputQueue, outputQueue>>
    BY <1>7 DEF StartCollecting, Finish, ExitRaised
  <2>2. \A j \in JobIds : Waiting(j)' = Waiting(j)
    BY <1>3, <2>1 DEF Waiting, Times
  <2>3. Handled' = Handled /\ (Collect => FALSE)
    <3>1. ~ Collect
      BY <1>0, <1>7 DEF StartCollecting, Finish, ExitRaised, Collect
    <3> QED BY <2>1, <2>2, <3>1 DEF Handled
  <2> QED BY <1>0, <2>1, <2>2, <2>3, Moved DEF OnceInv
<1> QED BY <1>4, <1>5, <1>6, <1>7 DEF MainStep

LEMMA Once == Spec => []OnceInv
<1>1. Init => OnceInv
  <2> SUFFICES ASSUME Init PROVE OnceInv
    OBVIOUS
  <2>1. \A j \in JobIds : Waiting(j) = 0
    <3> SUFFICES ASSUME NEW j \in JobIds PROVE Waiting(j) = 0
      OBVIOUS
    <3>1. Find(<<>>, j) = {} /\ Holders(j) = {}
      BY DEF Find, Holders, Init, JobIds
    <3>2. Times(<<>>, j) = 0
      BY <3>1, FS_EmptySet DEF Times, Find
    <3> QED BY <3>1, <3>2, FS_EmptySet DEF Waiting, Init
  <2>2. {j \in JobIds : Waiting(j) = 1} = {}
    BY <2>1
  <2>3. IdleInv
    BY DEF Init, IdleInv
  <2>4. EachJobOnce
    <3>1. sent = 0 /\ got = 0
      BY DEF Init
    <3> QED BY <2>1, <2>2, <3>1, FS_EmptySet DEF EachJobOnce
  <2> QED BY <2>3, <2>4 DEF OnceInv
<1>2. IInv /\ OnceInv /\ [Next]_vars => OnceInv'
  <2> SUFFICES ASSUME IInv, OnceInv, [Next]_vars PROVE OnceInv'
    OBVIOUS
  <2>1. CASE MainStep
    BY <2>1, MainMoves
  <2>2. ASSUME NEW w \in Workers, WorkerStep(w) \/ LaunchFails(w) PROVE OnceInv'
    BY <2>2, WorkerMoves
  <2>3. CASE Interrupt \/ UNCHANGED vars
    <3>1. UNCHANGED <<sent, got, inputQueue, outputQueue, holds, worker>>
      BY <2>3 DEF Interrupt, vars, mainVars, workVars
    <3>2. \A j \in JobIds : Waiting(j)' = Waiting(j)
      BY <3>1 DEF Waiting, Times, Holders
    <3>3. IdleInv'
      BY <3>1 DEF OnceInv, IdleInv
    <3> QED BY <3>1, <3>2, <3>3, Moved DEF OnceInv
  <2> QED BY <2>1, <2>2, <2>3 DEF Next
<1> QED BY <1>1, <1>2, Inductive, PTL DEF Spec

\* No job is lost or handled twice, whatever the number of workers and of jobs, the
\* workers' pace, the workers that die and the moment of the interrupt: a job that
\* was dispatched is in one queue, in one worker's hands, or taken by run_tests.
THEOREM JobsOnce == Spec => []EachJobOnce
<1>1. OnceInv => EachJobOnce
  BY DEF OnceInv
<1> QED BY <1>1, Once, PTL

(***************************************************************************)
(* The exit status                                                         *)
(***************************************************************************)
\* The end of a job is known: it was given back unrun, skipped, or its child ended
\* and its return code is what the child's end stands for.
Settled(j) ==
    \/ j \in isBreak
    \/ Jobs[j].skip
    \/ child[j] \in Outcomes(j) /\ returncode[j] = ReturnCode(child[j])

SettledInv ==
    /\ DOMAIN child = JobIds
    /\ \A i \in 1 .. Len(outputQueue) : Settled(outputQueue[i])
    /\ \A w \in Workers : worker[w] = "put" => Settled(holds[w])
    /\ \A j \in Handled : Settled(j)

Passed == {j \in Handled : j \notin isBreak /\ Good(j)}

PassedInv == tally["PASS"] + tally["SKIP"] = Cardinality(Passed)

EndInv ==
    /\ main = "raised" => \E j \in Handled : ~ Good(j)
    /\ main = "finished" => Joined

HonestInv == SettledInv /\ PassedInv /\ EndInv /\ ExitHonest

LEMMA OutcomeParts ==
    ASSUME NEW j \in JobIds, NEW c \in Outcomes(j)
    PROVE  c.rc \in 0 .. Other /\ c.text \in BOOLEAN /\ (Jobs[j].suite /\ c.rc = 0 => c.file = "PASS")
BY DEF Outcomes, Other

LEMMA QueueElement ==
    ASSUME NEW S, NEW q \in Seq(S), NEW i \in 1 .. Len(q)
    PROVE  q[i] \in S
OBVIOUS

LEMMA JobTypes ==
    ASSUME NEW j \in JobIds
    PROVE  Jobs[j].suite \in BOOLEAN /\ Jobs[j].skip \in BOOLEAN
<1>1. Jobs[j] \in [suite : BOOLEAN, skip : BOOLEAN]
  BY RunnerConstants, QueueElement DEF JobIds, NumJobs
<1> QED BY <1>1

\* What is counted of a job that was run or skipped is what its child deserves.
LEMMA Counted ==
    ASSUME NEW j \in JobIds, Settled(j), j \notin isBreak
    PROVE  /\ Status(j) \in Results
           /\ Status(j) \in {"PASS", "SKIP"} <=> Good(j)
           /\ CopiesFile(j) /\ child[j].file = "none" => ~ Good(j)
<1>1. CASE Jobs[j].skip
  <2>1. Status(j) = "SKIP" /\ Good(j) /\ ~ CopiesFile(j)
    BY <1>1 DEF Status, Good, CopiesFile
  <2> QED BY <2>1 DEF Results
<1>2. CASE ~ Jobs[j].skip
  <2>1. child[j] \in Outcomes(j) /\ returncode[j] = ReturnCode(child[j])
    BY <1>2 DEF Settled
  <2>2. /\ child[j].rc \in 0 .. 3 /\ child[j].text \in BOOLEAN
        /\ Jobs[j].suite /\ child[j].rc = 0 => child[j].file = "PASS"
    BY <2>1, OutcomeParts DEF Other
  <2>3. Status(j) = IF returncode[j] = 0 THEN "PASS" ELSE IF returncode[j] = 1 THEN "FAIL"
                    ELSE IF returncode[j] = 2 THEN "VALGR" ELSE "CRASH"
    BY <1>2 DEF Status
  <2>4. returncode[j] = 0 <=> child[j].rc = 0 /\ child[j].text
    BY <2>1, <2>2 DEF ReturnCode
  <2>5. Good(j) <=> returncode[j] = 0
    BY <1>2, <2>4 DEF Good
  <2>6. CopiesFile(j) /\ child[j].file = "none" => ~ Good(j)
    BY <1>2, <2>2 DEF CopiesFile, Good
  <2> QED BY <2>3, <2>5, <2>6 DEF Results
<1> QED BY <1>1, <1>2

\* A job in a worker's hands or in a queue is not handled.
LEMMA HandledAway ==
    ASSUME IInv, NEW j \in JobIds, Waiting(j) = 0
    PROVE  /\ \A w \in Workers : holds[w] # j
           /\ inputQueue # <<>> => Head(inputQueue) # j
<1>1. /\ Times(inputQueue, j) = 0 /\ Cardinality(Holders(j)) = 0
  BY WaitingParts DEF Waiting
<1>2. IsFiniteSet(Holders(j))
  BY RunnerConstants, FS_Subset DEF Holders
<1>3. Holders(j) = {}
  BY <1>1, <1>2, FS_EmptySet
<1>4. ASSUME inputQueue # <<>>, Head(inputQueue) = j PROVE FALSE
  <2>1. /\ inputQueue \in Seq(0 .. NumJobs)
    BY DEF IInv, QueueTypes
  <2>2. Times(inputQueue, j) = Times(Tail(inputQueue), j) + One(Head(inputQueue), j)
    BY <1>4, <2>1, TimesTail
  <2>3. Times(Tail(inputQueue), j) \in Nat
    BY <1>4, <2>1, QueueHead, Counts
  <2> QED BY <1>1, <1>4, <2>2, <2>3 DEF One
<1> QED BY <1>3, <1>4 DEF Holders

\* What a worker does to the record of a job.
LEMMA WorkerRecord ==
    ASSUME IInv, SettledInv, NEW w \in Workers, WorkerStep(w) \/ LaunchFails(w), NEW j \in JobIds
    PROVE  /\ Settled(j) => Settled(j)'
           /\ Waiting(j) = 0 => /\ child'[j] = child[j] /\ returncode'[j] = returncode[j]
                                /\ j \in isBreak' <=> j \in isBreak
<1>1. CASE ChildEnds(w)
  <2>1. PICK c \in Outcomes(holds[w]) :
           /\ returncode' = [returncode EXCEPT ![holds[w]] = ReturnCode(c)]
           /\ child' = [child EXCEPT ![holds[w]] = c]
    BY <1>1 DEF ChildEnds
  <2>2. isBreak' = isBreak
    BY <1>1 DEF ChildEnds
  <2>3. CASE holds[w] = j
    <3>1. child'[j] = c /\ returncode'[j] = ReturnCode(c) /\ c \in Outcomes(j)
      BY <2>1, <2>3 DEF SettledInv, IInv, WorkTypes
    <3> QED BY <2>1, <2>3, <3>1, HandledAway DEF Settled, SettledInv
  <2>4. CASE holds[w] # j
    <3>1. child'[j] = child[j] /\ returncode'[j] = returncode[j]
      BY <2>1, <2>4 DEF SettledInv, IInv, WorkTypes
    <3> QED BY <2>1, <2>2, <3>1 DEF Settled, SettledInv
  <2> QED BY <2>3, <2>4
<1>2. CASE Get(w)
  <2>1. /\ child' = child /\ returncode' = returncode /\ inputQueue # <<>>
        /\ isBreak \subseteq isBreak' /\ isBreak' \subseteq isBreak \cup {Head(inputQueue)}
    BY <1>2 DEF Get
  <2> QED BY <2>1, HandledAway DEF Settled, SettledInv
<1>3. CASE Launch(w) \/ LaunchFails(w) \/ Put(w)
  <2>1. child' = child /\ returncode' = returncode /\ isBreak' = isBreak
    BY <1>3 DEF Launch, LaunchFails, Put
  <2> QED BY <2>1 DEF Settled, SettledInv
<1> QED BY <1>1, <1>2, <1>3 DEF WorkerStep

LEMMA WorkerHonest ==
    ASSUME IInv, OnceInv, HonestInv, NEW w \in Workers, WorkerStep(w) \/ LaunchFails(w)
    PROVE  HonestInv'
<1>0. /\ UNCHANGED <<main, sent, got, tally, exit>>
      /\ worker[w] \in {"get", "launch", "run", "put"}
  BY DEF WorkerStep, Get, Launch, LaunchFails, ChildEnds, Put, mainVars
<1>1. /\ worker \in [Workers -> Places] /\ holds \in [Workers -> 0 .. NumJobs]
      /\ QueueTypes /\ SettledInv /\ PassedInv /\ EndInv
  BY DEF IInv, WorkTypes, HonestInv
<1>2. Handled' = Handled
  BY <1>0, WorkerMoves DEF Handled
<1>3. \A j \in JobIds : Settled(j) => Settled(j)'
  BY <1>1, WorkerRecord
<1>4. \A j \in Handled : /\ child'[j] = child[j]
                         /\ j \in isBreak' <=> j \in isBreak
  BY <1>1, WorkerRecord DEF Handled
<1>5. \A j \in Handled : Good(j)' = Good(j)
  BY <1>4 DEF Good
<1>6. \A i \in 1 .. Len(outputQueue') : Settled(outputQueue[i])'
  <2>1. CASE Put(w)
    <3>1. outputQueue' = Append(outputQueue, holds[w]) /\ Settled(holds[w]) /\ holds[w] \in JobIds
      BY <1>1, <2>1 DEF Put, PutJob, SettledInv, IInv, InHand
    <3> SUFFICES ASSUME NEW i \in 1 .. Len(outputQueue') PROVE Settled(outputQueue[i])'
      OBVIOUS
    <3>2. PICK j \in JobIds : j = outputQueue'[i] /\ Settled(j)
      BY <1>1, <3>1 DEF SettledInv, QueueTypes
    <3>3. Settled(j)'
      BY <1>3, <3>2
    <3> QED BY <3>2, <3>3 DEF Settled
  <2>2. CASE outputQueue' = outputQueue
    <3> SUFFICES ASSUME NEW i \in 1 .. Len(outputQueue') PROVE Settled(outputQueue[i])'
      OBVIOUS
    <3>1. PICK j \in JobIds : j = outputQueue'[i] /\ Settled(j)
      BY <1>1, <2>2 DEF SettledInv, QueueTypes
    <3>2. Settled(j)'
      BY <1>3, <3>1
    <3> QED BY <3>1, <3>2 DEF Settled
  <2> QED BY <2>1, <2>2 DEF WorkerStep, Get, Launch, LaunchFails, ChildEnds
<1>7. ASSUME NEW v \in Workers, worker'[v] = "put" PROVE Settled(holds[v])'
  <2>1. CASE v = w /\ Get(w)
    <3>1. PICK j \in 0 .. NumJobs : j = Head(inputQueue)
      BY <1>1, <2>1, QueueHead DEF QueueTypes, Get
    <3>2. /\ holds'[v] = j /\ AfterGet(j) = "put"
          /\ isBreak' = IF j # 0 /\ threadExit THEN isBreak \cup {j} ELSE isBreak
      BY <1>1, <1>7, <2>1, <3>1 DEF Get
    <3>3. j \in isBreak' \/ Jobs[j].skip
      BY <3>2 DEF AfterGet
    <3> QED BY <3>2, <3>3 DEF Settled
  <2>2. CASE v = w /\ ChildEnds(w)
    <3>1. holds[w] \in JobIds
      BY <2>2 DEF ChildEnds, IInv, InHand
    <3>2. PICK j \in JobIds : j = holds[w]
      BY <3>1
    <3>3. PICK c \in Outcomes(j) : returncode' = [returncode EXCEPT ![j] = ReturnCode(c)]
                                   /\ child' = [child EXCEPT ![j] = c] /\ holds' = holds
      BY <2>2, <3>2 DEF ChildEnds
    <3>4. child'[j] = c /\ returncode'[j] = ReturnCode(c)
      BY <1>1, <3>3 DEF SettledInv, IInv, WorkTypes
    <3> QED BY <2>2, <3>2, <3>3, <3>4 DEF Settled
  <2>3. CASE v # w \/ ~ (Get(w) \/ ChildEnds(w))
    <3>1. worker[v] = "put" /\ holds'[v] = holds[v]
      BY <1>1, <1>7, <2>3 DEF WorkerStep, Get, Launch, LaunchFails, ChildEnds, Put
    <3>2. PICK j \in JobIds : j = holds[v]
      BY <3>1 DEF IInv, InHand
    <3>3. Settled(j)'
      BY <1>1, <1>3, <3>1, <3>2 DEF SettledInv
    <3> QED BY <3>1, <3>2, <3>3 DEF Settled
  <2> QED BY <2>1, <2>2, <2>3
<1>8. SettledInv'
  <2>1. \A j \in Handled : j \in JobIds /\ Settled(j)'
    BY <1>1, <1>3 DEF SettledInv, Handled
  <2>2. DOMAIN child' = JobIds
    <3>1. child' = child \/ \E j, c : child' = [child EXCEPT ![j] = c]
      BY DEF WorkerStep, Get, Launch, LaunchFails, ChildEnds, Put
    <3> QED BY <1>1, <3>1 DEF SettledInv
  <2> QED BY <1>2, <1>6, <1>7, <2>1, <2>2 DEF SettledInv
<1>9. PassedInv'
  <2>1. Passed' = Passed
    BY <1>2, <1>4, <1>5 DEF Passed
  <2> QED BY <1>0, <1>1, <2>1 DEF PassedInv
<1>10. main # "finished"
  BY <1>0, <1>1 DEF EndInv, Joined, Ended
<1>11. EndInv'
  <2>1. main = "raised" => \E j \in Handled : ~ Good(j)'
    BY <1>1, <1>5 DEF EndInv
  <2> QED BY <1>0, <1>2, <1>10, <2>1 DEF EndInv
<1> QED BY <1>0, <1>8, <1>9, <1>10, <1>11 DEF HonestInv, ExitHonest

\* When run_tests stops collecting every job has been handled.
LEMMA AllHandled ==
    ASSUME IInv, OnceInv, Finish
    PROVE  Handled = JobIds
<1>0. NumJobs \in Nat /\ sent \in 0 .. NumJobs /\ got = NumJobs
  BY Sizes DEF IInv, MainTypes, Finish
<1>1. IsFiniteSet(JobIds)
  BY <1>0, FS_Interval DEF JobIds
<1>2. IsFiniteSet(Present) /\ got = sent - Cardinality(Present)
  BY <1>1, FS_Subset DEF Present, OnceInv, EachJobOnce
<1>3. Cardinality(Present) = 0 /\ sent = NumJobs
  BY <1>0, <1>2, FS_CardinalityType
<1>4. Present = {}
  BY <1>2, <1>3, FS_EmptySet
<1>5. \A j \in JobIds : Waiting(j) = 0
  BY <1>4, WaitingParts DEF Present, Waiting, OnceInv, EachJobOnce
<1> QED BY <1>0, <1>3, <1>5 DEF Handled, JobIds

\* A step of the main thread that takes no result out.
LEMMA MainHonest ==
    ASSUME IInv, OnceInv, HonestInv, MainStep, ~ Collect
    PROVE  HonestInv'
<1>0. NumJobs \in Nat /\ sent \in 0 .. NumJobs
  BY Sizes DEF IInv, MainTypes
<1>1. SettledInv /\ PassedInv /\ EndInv
  BY DEF HonestInv
<1>2. UNCHANGED <<child, returncode, isBreak, worker, holds, outputQueue, tally>>
  BY DEF MainStep, Dispatch, DispatchStop, StartCollecting, Finish, ExitRaised, workVars
<1>3. Handled' = Handled
  BY MainMoves
<1>4. SettledInv'
  BY <1>1, <1>2, <1>3 DEF SettledInv, Settled
<1>5. Passed' = Passed /\ PassedInv'
  <2>1. Passed' = Passed
    BY <1>2, <1>3 DEF Passed, Good
  <2> QED BY <1>1, <1>2, <2>1 DEF PassedInv
<1>6. CASE Dispatch \/ DispatchStop \/ StartCollecting
  BY <1>4, <1>5, <1>6 DEF HonestInv, EndInv, ExitHonest, Dispatch, DispatchStop, StartCollecting
<1>7. CASE ExitRaised
  <2>1. main' = "finished" /\ exit' = 1 /\ Joined' /\ main = "raised"
    BY <1>2, <1>7 DEF ExitRaised, Joined, Ended
  <2>2. \E j \in JobIds : ~ Good(j)'
    BY <1>1, <1>2, <2>1 DEF EndInv, Handled, Good
  <2> QED BY <1>4, <1>5, <2>1, <2>2 DEF HonestInv, EndInv, ExitHonest
<1>8. CASE Finish
  <2>1. /\ main' = "finished" /\ exit' = (IF Success THEN 0 ELSE 1) /\ Joined'
        /\ got = NumJobs
    BY <1>2, <1>8 DEF Finish, Joined, Ended
  <2>2. IsFiniteSet(JobIds) /\ Cardinality(JobIds) = NumJobs
    BY <1>0, FS_Interval DEF JobIds
  <2>3. Handled = JobIds
    BY <1>8, AllHandled
  <2>4. Passed \subseteq JobIds
    BY <2>3 DEF Passed
  <2>5. Success <=> Passed = JobIds
    BY <1>1, <2>2, <2>4, FS_Subset DEF Success, PassedInv
  <2>6. Passed = JobIds <=> isBreak = {} /\ \A j \in JobIds : Good(j)
    BY <2>3 DEF Passed, IInv, WorkTypes
  <2>7. ExitHonest'
    BY <1>2, <2>1, <2>5, <2>6 DEF ExitHonest, Good
  <2> QED BY <1>4, <1>5, <2>1, <2>7 DEF HonestInv, EndInv
<1> QED BY <1>6, <1>7, <1>8 DEF MainStep

LEMMA CollectHonest ==
    ASSUME IInv, OnceInv, HonestInv, Collect
    PROVE  HonestInv'
<1>1. /\ SettledInv /\ PassedInv /\ EndInv /\ tally \in [Results -> Nat]
      /\ outputQueue \in Seq(JobIds)
  BY DEF HonestInv, IInv, TallyInv, QueueTypes
<1>2. /\ UNCHANGED <<child, returncode, isBreak, worker, holds, exit>>
      /\ outputQueue' = Tail(outputQueue) /\ outputQueue # <<>> /\ main = "collect"
  BY DEF Collect, workVars
<1>3. PICK h \in JobIds : /\ h = Head(outputQueue) /\ h \notin Handled
                          /\ Handled' = Handled \cup {h}
  BY MainMoves DEF MainStep
<1>4. Settled(h)
  <2>1. h = outputQueue[1] /\ 1 \in 1 .. Len(outputQueue)
    BY <1>1, <1>2, <1>3
  <2> QED BY <1>1, <2>1 DEF SettledInv
<1>5. \A j : (Settled(j)' <=> Settled(j)) /\ (Good(j)' <=> Good(j))
  BY <1>2 DEF Settled, Good
<1>6. SettledInv'
  <2>1. ASSUME NEW i \in 1 .. Len(outputQueue') PROVE Settled(outputQueue[i])'
    <3>1. /\ outputQueue'[i] = outputQueue[i + 1] /\ i + 1 \in 1 .. Len(outputQueue)
      BY <1>1, <1>2
    <3>2. PICK j \in JobIds : j = outputQueue[i + 1] /\ Settled(j)
      BY <1>1, <3>1 DEF SettledInv
    <3>3. Settled(j)'
      BY <1>5, <3>2
    <3> QED BY <3>1, <3>2, <3>3 DEF Settled
  <2>2. \A j \in Handled' : Settled(j)'
    BY <1>1, <1>3, <1>4, <1>5 DEF SettledInv
  <2>3. ASSUME NEW w \in Workers, worker'[w] = "put" PROVE Settled(holds[w])'
    <3>1. Settled(holds[w])
      BY <1>1, <1>2, <2>3 DEF SettledInv
    <3> QED BY <1>2, <3>1 DEF Settled
  <2> QED BY <1>1, <1>2, <2>1, <2>2, <2>3 DEF SettledInv
<1>7. IsFiniteSet(Passed) /\ Cardinality(Passed) \in Nat /\ h \notin Passed
  <2>1. IsFiniteSet(JobIds)
    BY Sizes, FS_Interval DEF JobIds
  <2>2. IsFiniteSet(Passed)
    BY <2>1, FS_Subset DEF Passed, Handled
  <2> QED BY <1>3, <2>2, FS_CardinalityType DEF Passed
<1>8. main' # "finished" /\ ExitHonest'
  BY <1>2 DEF Collect, ExitHonest
<1>9. CASE h \in isBreak
  <2>1. tally' = tally /\ main' = main
    BY <1>3, <1>9 DEF Collect, Ignored
  <2>2. Passed' = Passed
    BY <1>2, <1>3, <1>5, <1>9 DEF Passed
  <2> QED BY <1>1, <1>2, <1>6, <1>8, <2>1, <2>2 DEF HonestInv, PassedInv, EndInv
<1>10. CASE h \notin isBreak
  <2>1. /\ tally' = [tally EXCEPT ![Status(h)] = @ + 1]
        /\ main' = IF CopiesFile(h) /\ child[h].file = "none" THEN "raised" ELSE main
    BY <1>3, <1>10 DEF Collect, Ignored
  <2>2. /\ Status(h) \in Results
        /\ Status(h) \in {"PASS", "SKIP"} <=> Good(h)
        /\ CopiesFile(h) /\ child[h].file = "none" => ~ Good(h)
    BY <1>4, <1>10, Counted
  <2>3. tally'["PASS"] + tally'["SKIP"] =
           IF Good(h) THEN tally["PASS"] + tally["SKIP"] + 1 ELSE tally["PASS"] + tally["SKIP"]
    BY <1>1, <2>1, <2>2 DEF Results
  <2>4. Passed' = IF Good(h) THEN Passed \cup {h} ELSE Passed
    BY <1>2, <1>3, <1>5, <1>10 DEF Passed
  <2>5. Cardinality(Passed') = IF Good(h) THEN Cardinality(Passed) + 1 ELSE Cardinality(Passed)
    BY <1>7, <2>4, FS_AddElement
  <2>6. PassedInv'
    BY <1>1, <1>7, <2>3, <2>5 DEF PassedInv
  <2>7. main' = "raised" => \E j \in Handled' : ~ Good(j)'
    BY <1>2, <1>3, <1>5, <2>1, <2>2
  <2> QED BY <1>6, <1>8, <2>6, <2>7 DEF HonestInv, EndInv
<1> QED BY <1>9, <1>10

LEMMA Honest == Spec => []HonestInv
<1>1. Init => HonestInv
  <2> SUFFICES ASSUME Init PROVE HonestInv
    OBVIOUS
  <2>1. sent = 0 /\ NumJobs \in Nat
    BY Sizes DEF Init
  <2>2. Handled = {}
    BY <2>1 DEF Handled, JobIds
  <2>3. Cardinality(Passed) = 0
    BY <2>2, FS_EmptySet DEF Passed
  <2>4. SettledInv
    BY <2>2 DEF Init, SettledInv
  <2>5. PassedInv
    BY <2>3 DEF Init, PassedInv
  <2> QED BY <2>4, <2>5 DEF Init, HonestInv, EndInv, ExitHonest
<1>2. IInv /\ OnceInv /\ HonestInv /\ [Next]_vars => HonestInv'
  <2> SUFFICES ASSUME IInv, OnceInv, HonestInv, [Next]_vars PROVE HonestInv'
    OBVIOUS
  <2>1. CASE MainStep
    BY <2>1, MainHonest, CollectHonest
  <2>2. ASSUME NEW w \in Workers, WorkerStep(w) \/ LaunchFails(w) PROVE HonestInv'
    BY <2>2, WorkerHonest
  <2>3. CASE Interrupt \/ UNCHANGED vars
    <3>1. /\ UNCHANGED <<main, sent, tally, exit, inputQueue, outputQueue, holds, worker>>
          /\ UNCHANGED <<child, returncode, isBreak>>
      BY <2>3 DEF Interrupt, vars, mainVars, workVars
    <3>2. Handled' = Handled
      BY <3>1 DEF Handled, Waiting, Times, Holders
    <3>3. SettledInv'
      BY <3>1, <3>2 DEF HonestInv, SettledInv, Settled
    <3>4. PassedInv'
      <4>1. Passed' = Passed
        BY <3>1, <3>2 DEF Passed, Good
      <4> QED BY <3>1, <4>1 DEF HonestInv, PassedInv
    <3>5. EndInv' /\ ExitHonest'
      BY <3>1, <3>2 DEF HonestInv, EndInv, ExitHonest, Good, Joined, Ended
    <3> QED BY <3>3, <3>4, <3>5 DEF HonestInv
  <2> QED BY <2>1, <2>2, <2>3 DEF Next
<1> QED BY <1>1, <1>2, Inductive, Once, PTL DEF Spec

\* The exit status is honest: whatever the number of workers and of jobs, however the
\* children end and whenever the interrupt comes, test.py that has ended exits with 0
\* exactly if no job was given back unrun and each was skipped or passed.
THEOREM ExitIsHonest == Spec => []ExitHonest
<1>1. HonestInv => ExitHonest
  BY DEF HonestInv
<1> QED BY <1>1, Honest, PTL

(***************************************************************************)
(* The results file                                                        *)
(***************************************************************************)
Words == {"none", "partial", "PASS", "FAIL", "SKIP", "VALGR", "CRASH", "end"}

\* An entry is of a job that was taken, and true if its child's output was readable.
TrueEntry(e) == e[1] \in Handled /\ (child[e[1]].text => e[2] = Verdict(e[1]))

\* The code adds no entry: each job has its own and no other.
OneEntryEach ==
    Closed => \A j \in JobIds :
        /\ Cardinality(Entries(j)) = IF j \in isBreak THEN 0 ELSE 1
        /\ child[j].text => \A i \in Entries(j) : xml[i][2] = Verdict(j)

XmlInv ==
    /\ xml \in Seq(Nat \X Words)
    /\ main # "finished" => \A i \in 1 .. Len(xml) : TrueEntry(xml[i])
    /\ main \in {"dispatch", "collect"} => \A j \in JobIds :
           Cardinality(Entries(j)) = IF j \in Handled /\ j \notin isBreak THEN 1 ELSE 0
    /\ OneEntryEach

LEMMA OutcomeFile ==
    ASSUME NEW j \in JobIds, NEW c \in Outcomes(j)
    PROVE  /\ c.file \in {"none", "partial", "PASS", "FAIL"}
           /\ c.file \in {"PASS", "FAIL"} <=> Jobs[j].suite /\ c.rc \in 0 .. 2
<1>1. Jobs[j].suite \in BOOLEAN
  BY JobTypes
<1>2. CASE Jobs[j].suite
  <2>1. \E e \in {<<0, "PASS">>, <<1, "FAIL">>, <<3, "none">>, <<3, "partial">>,
                  <<2, "PASS">>, <<2, "FAIL">>} : c.rc = e[1] /\ c.file = e[2]
    BY <1>2 DEF Outcomes, Other
  <2> QED BY <1>2, <2>1
<1>3. CASE ~ Jobs[j].suite
  <2>1. c.file = "none"
    BY <1>3 DEF Outcomes, Other
  <2> QED BY <1>3, <2>1
<1> QED BY <1>2, <1>3

\* The entry made for a job that was run or skipped.
LEMMA EntryIsVerdict ==
    ASSUME NEW j \in JobIds, Settled(j), j \notin isBreak
    PROVE  \E v \in Words : Entry(j) = << <<j, v>> >> /\ (child[j].text => v = Verdict(j))
<1>1. CASE Jobs[j].skip
  <2>1. Status(j) = "SKIP" /\ ~ CopiesFile(j) /\ Verdict(j) = "SKIP"
    BY <1>1 DEF Status, CopiesFile, Verdict
  <2>2. "SKIP" \in Words /\ Entry(j) = << <<j, "SKIP">> >>
    BY <2>1 DEF Entry, Words
  <2> QED BY <2>1, <2>2
<1>2. CASE ~ Jobs[j].skip
  <2>1. child[j] \in Outcomes(j) /\ returncode[j] = ReturnCode(child[j])
    BY <1>2 DEF Settled
  <2>2. /\ child[j].rc \in 0 .. 3 /\ child[j].text \in BOOLEAN
        /\ child[j].file \in {"none", "partial", "PASS", "FAIL"}
        /\ child[j].file \in {"PASS", "FAIL"} <=> Jobs[j].suite /\ child[j].rc \in 0 .. 2
    BY <2>1, OutcomeParts, OutcomeFile DEF Other
  <2>3. Status(j) = IF returncode[j] = 0 THEN "PASS" ELSE IF returncode[j] = 1 THEN "FAIL"
                    ELSE IF returncode[j] = 2 THEN "VALGR" ELSE "CRASH"
    BY <1>2 DEF Status
  <2>4. child[j].text => returncode[j] = child[j].rc
    BY <2>1 DEF ReturnCode
  <2>5. CASE CopiesFile(j)
    <3>1. Entry(j) = << <<j, child[j].file>> >> /\ child[j].file \in Words
      BY <2>2, <2>5 DEF Entry, Words
    <3>2. child[j].text => child[j].file = Verdict(j)
      BY <1>2, <2>2, <2>4, <2>5 DEF CopiesFile, Verdict
    <3> QED BY <3>1, <3>2
  <2>6. CASE ~ CopiesFile(j)
    <3>1. Entry(j) = << <<j, Status(j)>> >> /\ Status(j) \in Words
      BY <2>3, <2>6 DEF Entry, Words
    <3>2. ASSUME child[j].text PROVE Status(j) = Verdict(j)
      <4>1. child[j].file \notin {"PASS", "FAIL"}
        BY <1>2, <2>2, <2>4, <2>6, <3>2 DEF CopiesFile
      <4>2. Verdict(j) = <<"PASS", "FAIL", "VALGR", "CRASH">>[child[j].rc + 1]
        BY <1>2, <4>1 DEF Verdict
      <4> QED BY <2>2, <2>3, <2>4, <3>2, <4>2
    <3> QED BY <3>1, <3>2
  <2> QED BY <2>5, <2>6
<1> QED BY <1>1, <1>2

LEMMA AppendOne ==
    ASSUME NEW S, NEW q \in Seq(S), NEW e \in S
    PROVE  q \o <<e>> = Append(q, e) /\ Append(q, e) \in Seq(S) /\ Len(Append(q, e)) = Len(q) + 1
           /\ Append(q, e)[Len(q) + 1] = e
           /\ \A i \in 1 .. Len(q) : Append(q, e)[i] = q[i]
<1>1. Len(q) \in Nat /\ <<e>> \in Seq(S) /\ Len(<<e>>) = 1 /\ <<e>>[1] = e
  OBVIOUS
<1>2. /\ Append(q, e) \in Seq(S) /\ Len(Append(q, e)) = Len(q) + 1
      /\ Append(q, e)[Len(q) + 1] = e
      /\ \A i \in 1 .. Len(q) : Append(q, e)[i] = q[i]
  OBVIOUS
<1>3. /\ q \o <<e>> \in Seq(S) /\ Len(q \o <<e>>) = Len(q) + 1
      /\ \A i \in 1 .. Len(q) + 1 : (q \o <<e>>)[i] = IF i <= Len(q) THEN q[i] ELSE e
  BY <1>1, ConcatProperties
<1>4. \A i \in 1 .. Len(q) + 1 : (q \o <<e>>)[i] = Append(q, e)[i]
  BY <1>1, <1>2, <1>3
<1> QED BY <1>1, <1>2, <1>3, <1>4, SeqEqual

LEMMA EntriesAppend ==
    ASSUME xml \in Seq(Nat \X Words), NEW e \in Nat \X Words, xml' = Append(xml, e), NEW j
    PROVE  /\ Cardinality(Entries(j)) \in Nat
           /\ Cardinality(Entries(j))' = Cardinality(Entries(j)) + One(e[1], j)
<1>1. IsFiniteSet(1 .. Len(xml))
  BY FS_Interval
<1>2. IsFiniteSet(Entries(j))
  BY <1>1, FS_Subset DEF Entries
<1>3. Cardinality(Entries(j)) \in Nat
  BY <1>2, FS_CardinalityType
<1>4. Len(xml) + 1 \notin Entries(j)
  BY DEF Entries
<1>5. CASE e[1] = j
  <2>1. Entries(j)' = Entries(j) \cup {Len(xml) + 1}
    BY <1>5 DEF Entries
  <2> QED BY <1>2, <1>3, <1>4, <1>5, <2>1, FS_AddElement DEF One
<1>6. CASE e[1] # j
  <2>1. Entries(j)' = Entries(j)
    BY <1>6 DEF Entries
  <2> QED BY <1>3, <1>6, <2>1 DEF One
<1> QED BY <1>3, <1>5, <1>6

\* While test.py runs the results file is not closed.
LEMMA NotClosed ==
    ASSUME xml \in Seq(Nat \X Words), \A i \in 1 .. Len(xml) : TrueEntry(xml[i])
    PROVE  ~ Closed
<1> SUFFICES ASSUME xml # <<>> PROVE xml[Len(xml)] # <<0, "end">>
  BY DEF Closed
<1>1. Len(xml) \in 1 .. Len(xml)
  OBVIOUS
<1>2. xml[Len(xml)][1] \in JobIds
  BY <1>1 DEF TrueEntry, Handled
<1> QED BY <1>2 DEF JobIds

\* A step that takes no result and writes nothing.
LEMMA XmlKept ==
    ASSUME XmlInv, xml' = xml, main # "finished", main' # "finished",
           main' = main \/ (main' = "collect" /\ main = "dispatch"), Handled' = Handled,
           \A j \in Handled : child'[j] = child[j] /\ (j \in isBreak' <=> j \in isBreak)
    PROVE  XmlInv'
<1>1. \A i \in 1 .. Len(xml) : TrueEntry(xml[i]) /\ TrueEntry(xml[i])'
  BY DEF XmlInv, TrueEntry, Verdict
<1>2. ~ Closed'
  <2>1. ~ Closed
    BY <1>1, NotClosed DEF XmlInv
  <2> QED BY <2>1 DEF Closed
<1>3. \A j \in JobIds : Cardinality(Entries(j))' = Cardinality(Entries(j))
  BY DEF Entries
<1> QED BY <1>1, <1>2, <1>3 DEF XmlInv, OneEntryEach

LEMMA XmlCollect ==
    ASSUME IInv, OnceInv, HonestInv, XmlInv, Collect
    PROVE  XmlInv'
<1>1. /\ UNCHANGED <<child, isBreak>> /\ main = "collect" /\ outputQueue # <<>>
      /\ outputQueue \in Seq(JobIds) /\ SettledInv /\ NumJobs \in Nat
  BY Sizes DEF Collect, workVars, IInv, QueueTypes, HonestInv
<1>2. PICK h \in JobIds : /\ h = Head(outputQueue) /\ h \notin Handled
                          /\ Handled' = Handled \cup {h}
  BY MainMoves DEF MainStep
<1>3. Settled(h)
  <2>1. h = outputQueue[1] /\ 1 \in 1 .. Len(outputQueue)
    BY <1>1, <1>2
  <2> QED BY <1>1, <2>1 DEF SettledInv
<1>4. /\ xml \in Seq(Nat \X Words) /\ \A i \in 1 .. Len(xml) : TrueEntry(xml[i])
      /\ \A j \in JobIds :
             Cardinality(Entries(j)) = IF j \in Handled /\ j \notin isBreak THEN 1 ELSE 0
  BY <1>1 DEF XmlInv
<1>5. \A e : TrueEntry(e) => e[1] \in Handled' /\ (child'[e[1]].text => e[2] = Verdict(e[1])')
  BY <1>1, <1>2 DEF TrueEntry, Verdict
<1>6. main' \in {"collect", "raised"}
  BY <1>1 DEF Collect
<1>7. CASE xml' = xml /\ (main' = "collect" => h \in isBreak)
  <2>1. \A i \in 1 .. Len(xml) : TrueEntry(xml[i])'
    BY <1>4, <1>5, <1>7, <1>1, <1>2 DEF TrueEntry, Verdict
  <2>2. ~ Closed'
    BY <1>4, <1>7, NotClosed DEF Closed
  <2>4. \A j \in JobIds : Cardinality(Entries(j))' = Cardinality(Entries(j))
    BY <1>7 DEF Entries
  <2> QED BY <1>1, <1>2, <1>4, <1>6, <1>7, <2>1, <2>2, <2>4 DEF XmlInv, OneEntryEach
<1>8. CASE h \notin isBreak /\ xml' = xml \o Entry(h) /\ main' = main
  <2>1. h \notin isBreak /\ xml' = xml \o Entry(h) /\ main' = main
    BY <1>8
  <2>2. PICK v \in Words : Entry(h) = << <<h, v>> >> /\ (child[h].text => v = Verdict(h))
    BY <1>3, <2>1, EntryIsVerdict
  <2> DEFINE e == <<h, v>>
  <2>3. e \in Nat \X Words /\ e[1] = h /\ e[2] = v
    BY <1>1 DEF JobIds
  <2>4. xml' = Append(xml, e) /\ xml' \in Seq(Nat \X Words)
    BY <1>4, <2>1, <2>2, <2>3, AppendOne
  <2>5. h \in Handled' /\ (child'[h].text => v = Verdict(h)')
    BY <1>1, <1>2, <2>2 DEF Verdict
  <2> HIDE DEF e
  <2>6. ASSUME NEW i \in 1 .. Len(xml') PROVE TrueEntry(xml[i])'
    <3>1. xml'[i] = e \/ (i \in 1 .. Len(xml) /\ xml'[i] = xml[i])
      BY <1>4, <2>3, <2>4, AppendOne
    <3>2. CASE xml'[i] = e
      BY <2>3, <2>5, <3>2 DEF TrueEntry, Verdict
    <3>3. CASE i \in 1 .. Len(xml) /\ xml'[i] = xml[i]
      <4>1. TrueEntry(xml[i])
        BY <1>4, <3>3
      <4> QED BY <1>5, <3>3, <4>1, <1>1 DEF TrueEntry, Verdict
    <3> QED BY <3>1, <3>2, <3>3
  <2>7. ~ Closed'
    <3>1. xml'[Len(xml')] = e
      BY <1>4, <2>3, <2>4, AppendOne
    <3> QED BY <2>3, <3>1 DEF Closed, JobIds
  <2>8. ASSUME NEW j \in JobIds
        PROVE  Cardinality(Entries(j))' = IF j \in Handled' /\ j \notin isBreak' THEN 1 ELSE 0
    <3>1. Cardinality(Entries(j))' = Cardinality(Entries(j)) + One(h, j)
      BY <1>4, <2>3, <2>4, EntriesAppend
    <3> QED BY <1>1, <1>2, <1>4, <2>1, <3>1 DEF One
  <2> QED BY <1>1, <2>1, <2>4, <2>6, <2>7, <2>8 DEF XmlInv, OneEntryEach
<1>9. \/ h \in isBreak /\ xml' = xml
      \/ xml' = xml /\ main' = "raised"
      \/ h \notin isBreak /\ xml' = xml \o Entry(h) /\ main' = main
  BY <1>2 DEF Collect, Ignored
<1> QED BY <1>7, <1>8, <1>9

LEMMA XmlFinish ==
    ASSUME IInv, OnceInv, XmlInv, Finish, Handled = JobIds
    PROVE  XmlInv'
<1> DEFINE e == <<0, "end">>
<1>1. /\ UNCHANGED <<child, isBreak>> /\ main = "collect" /\ main' = "finished"
      /\ xml' = Append(xml, e)
  BY DEF Finish, workVars
<1>2. /\ xml \in Seq(Nat \X Words) /\ \A i \in 1 .. Len(xml) : TrueEntry(xml[i])
      /\ \A j \in JobIds : Cardinality(Entries(j)) = IF j \notin isBreak THEN 1 ELSE 0
  BY <1>1 DEF XmlInv
<1>3. e \in Nat \X Words /\ e[1] = 0
  BY DEF Words
<1>4. xml' \in Seq(Nat \X Words)
  BY <1>1, <1>2, <1>3
<1> HIDE DEF e
<1>5. ASSUME NEW j \in JobIds
      PROVE  /\ Cardinality(Entries(j))' = IF j \in isBreak' THEN 0 ELSE 1
             /\ child'[j].text => \A i \in Entries(j)' : xml'[i][2] = Verdict(j)'
  <2>1. Cardinality(Entries(j))' = Cardinality(Entries(j)) + One(0, j)
    BY <1>1, <1>2, <1>3, EntriesAppend
  <2>2. One(0, j) = 0
    BY DEF One, JobIds
  <2>3. ASSUME child'[j].text, NEW i \in Entries(j)' PROVE xml'[i][2] = Verdict(j)'
    <3>1. i \in 1 .. Len(xml) /\ xml'[i] = xml[i] /\ xml[i][1] = j
      <4>1. i \in 1 .. Len(xml') /\ xml'[i][1] = j /\ j # 0
        BY <2>3 DEF Entries, JobIds
      <4> QED BY <1>1, <1>2, <1>3, <4>1
    <3> QED BY <1>1, <1>2, <2>3, <3>1 DEF TrueEntry, Verdict
  <2>4. Cardinality(Entries(j))' = IF j \in isBreak' THEN 0 ELSE 1
    BY <1>1, <1>2, <2>1, <2>2
  <2> QED BY <2>3, <2>4
<1>6. OneEntryEach'
  BY <1>5 DEF OneEntryEach
<1> QED BY <1>1, <1>4, <1>6 DEF XmlInv

\* The results file that test.py has closed is complete: one entry for every job that
\* was not interrupted and none for the others, each the verdict of the job if the
\* output of its child could be read, for any number of workers and jobs.
THEOREM FileIsComplete == Spec => []ResultsComplete
<1>1. Init => XmlInv
  <2> SUFFICES ASSUME Init PROVE XmlInv
    OBVIOUS
  <2>1. xml = <<>> /\ sent = 0 /\ NumJobs \in Nat
    BY Sizes DEF Init
  <2>2. Handled = {} /\ ~ Closed
    BY <2>1 DEF Handled, JobIds, Closed
  <2>3. \A j : Entries(j) = {}
    BY <2>1 DEF Entries
  <2> QED BY <2>1, <2>2, <2>3, FS_EmptySet DEF XmlInv, OneEntryEach
<1>2. IInv /\ OnceInv /\ HonestInv /\ XmlInv /\ [Next]_vars => XmlInv'
  <2> SUFFICES ASSUME IInv, OnceInv, HonestInv, XmlInv, [Next]_vars PROVE XmlInv'
    OBVIOUS
  <2>1. CASE Dispatch \/ DispatchStop \/ StartCollecting
    <3>1. /\ UNCHANGED <<xml, child, isBreak>> /\ main = "dispatch"
          /\ main' \in {"dispatch", "collect"} /\ ~ Collect
      BY <2>1 DEF Dispatch, DispatchStop, StartCollecting, Collect, workVars
    <3>2. Handled' = Handled
      BY <2>1, <3>1, MainMoves DEF MainStep
    <3> QED BY <3>1, <3>2, XmlKept
  <2>2. CASE Collect
    BY <2>2, XmlCollect
  <2>3. CASE Finish
    BY <2>3, AllHandled, XmlFinish
  <2>4. CASE ExitRaised
    <3>1. /\ UNCHANGED <<xml, child, isBreak>> /\ main = "raised" /\ main' = "finished"
      BY <2>4 DEF ExitRaised, workVars
    <3>2. ~ Closed'
      BY <3>1, NotClosed DEF XmlInv, Closed
    <3> QED BY <3>1, <3>2 DEF XmlInv, OneEntryEach
  <2>5. ASSUME NEW w \in Workers, WorkerStep(w) \/ LaunchFails(w) PROVE XmlInv'
    <3>1. /\ UNCHANGED <<main, sent, xml>> /\ worker[w] \in {"get", "launch", "run", "put"}
      BY <2>5 DEF WorkerStep, Get, Launch, LaunchFails, ChildEnds, Put, mainVars
    <3>2. main # "finished"
      BY <3>1 DEF HonestInv, EndInv, Joined, Ended
    <3>3. Handled' = Handled
      BY <2>5, <3>1, WorkerMoves DEF Handled
    <3>4. \A j \in Handled : child'[j] = child[j] /\ (j \in isBreak' <=> j \in isBreak)
      BY <2>5, WorkerRecord DEF Handled, HonestInv
    <3> QED BY <3>1, <3>2, <3>3, <3>4, XmlKept
  <2>6. CASE Interrupt \/ UNCHANGED vars
    <3>1. /\ UNCHANGED <<main, sent, xml, inputQueue, outputQueue, holds, child, isBreak>>
      BY <2>6 DEF Interrupt, vars, mainVars, workVars
    <3>2. Handled' = Handled
      BY <3>1 DEF Handled, Waiting, Times, Holders
    <3>3. \A e : TrueEntry(e)' <=> TrueEntry(e)
      BY <3>1, <3>2 DEF TrueEntry, Verdict
    <3>4. \A i \in 1 .. Len(xml) : TrueEntry(xml[i])' <=> TrueEntry(xml[i])
      BY <3>1, <3>3 DEF TrueEntry
    <3>5. \A j : Entries(j)' = Entries(j) /\ Verdict(j)' = Verdict(j)
      BY <3>1 DEF Entries, Verdict
    <3>6. OneEntryEach'
      BY <3>1, <3>5 DEF XmlInv, OneEntryEach, Closed
    <3> QED BY <3>1, <3>2, <3>4, <3>5, <3>6 DEF XmlInv
  <2> QED BY <2>1, <2>2, <2>3, <2>4, <2>5, <2>6 DEF Next, MainStep
<1>3. XmlInv => ResultsComplete
  <2> SUFFICES ASSUME XmlInv, Closed, NEW j \in JobIds
               PROVE  /\ Cardinality(Entries(j) \ Added(j)) = IF j \in isBreak THEN 0 ELSE 1
                      /\ child[j].text =>
                            \A i \in Entries(j) \ Added(j) : xml[i][2] = Verdict(j)
    BY DEF ResultsComplete
  <2>1. /\ Cardinality(Entries(j)) = IF j \in isBreak THEN 0 ELSE 1
        /\ child[j].text => \A i \in Entries(j) : xml[i][2] = Verdict(j)
    BY DEF XmlInv, OneEntryEach
  <2>2. ASSUME Erred(j), NEW i \in Entries(j) PROVE xml[i][2] # "VALGR"
    <3>1. xml[i][2] = child[j].file
      BY <2>1, <2>2 DEF Erred, Verdict
    <3> QED BY <2>2, <3>1 DEF Erred
  <2>3. Entries(j) \ Added(j) = Entries(j)
    BY <2>2, SMT DEF Added
  <2> QED BY <2>1, <2>3
<1> QED BY <1>1, <1>2, <1>3, Inductive, Once, Honest, PTL DEF Spec
=============================================================================
