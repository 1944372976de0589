----------------------------- MODULE TestRunner -----------------------------
(***************************************************************************)
(* test.py, the program that runs the test suites and examples of ns-3: a  *)
(* main thread that queues the jobs and reports their results, and one     *)
(* worker thread per processor that runs them as child processes.          *)
(*                                                                         *)
(* The threads share two unbounded queue.Queue objects and the flag        *)
(* thread_exit that the SIGINT handler sets; every step below is a queue   *)
(* operation, a read or write of the flag, or the start or end of a child. *)
(* A job is its place in Jobs; 0 in a queue is a job made only to stop a   *)
(* worker (is_break set by the main thread).                               *)
(*                                                                         *)
(* Return codes are 0, 1, 2 and Other, which stands for every other code,  *)
(* signals included.  A test suite leaves an XML file of its own: none,    *)
(* "partial" if it died while writing, or its verdict.                     *)
(***************************************************************************)
EXTENDS Integers, Sequences, FiniteSets

CONSTANTS
    Workers,   \* the worker threads, one per processor
    Jobs,      \* the jobs in the order of dispatch: [suite, skip]
    Valgrind   \* options.valgrind: a child runs with --error-exitcode=2

ASSUME RunnerConstants ==
    /\ IsFiniteSet(Workers) /\ Workers # {}
    /\ Jobs \in Seq([suite : BOOLEAN, skip : BOOLEAN])
    /\ Valgrind \in BOOLEAN

VARIABLES
    main,        \* where the main thread is
    sent,        \* how many jobs it has put into the input queue
    stops,       \* how many stopping jobs it has put there
    got,         \* how many jobs it has taken from the output queue
    inputQueue,
    outputQueue,
    worker,      \* where each worker is
    holds,       \* the job it has in hand
    threadExit,  \* thread_exit
    isBreak,     \* the jobs given back without being run
    returncode,  \* job.returncode
    tally,       \* passed, failed, skipped, crashed and valgrind tests
    xml,         \* the results file: entries <<job, result>>, 0 for the closing tag
    exit,        \* the exit status, -1 while test.py runs
    child,       \* history: how the child of each job ended
    late         \* history: children a worker started after SIGINT

mainVars == <<main, sent, stops, got, tally, xml, exit>>
workVars == <<worker, holds, isBreak, returncode, child, late>>
vars == <<mainVars, workVars, inputQueue, outputQueue, threadExit>>

Other == 3
NumJobs == Len(Jobs)
JobIds == 1 .. NumJobs

(***************************************************************************)
(* The child processes.  text says whether the output can be decoded.      *)
(***************************************************************************)
NotRun == [rc |-> -1, file |-> "none", text |-> TRUE]

Outcomes(j) ==
    LET ends == IF Jobs[j].suite
                THEN {<<0, "PASS">>, <<1, "FAIL">>, <<Other, "none">>, <<Other, "partial">>}
                     \cup (IF Valgrind THEN {<<2, "PASS">>, <<2, "FAIL">>} ELSE {})
                ELSE (0 .. Other) \X {"none"}
    IN  {[rc |-> e[1], file |-> e[2], text |-> t] : e \in ends, t \in BOOLEAN}

\* run_job_synchronously: output that cannot be decoded is a failure
ReturnCode(c) == IF c.text THEN c.rc ELSE 1

(***************************************************************************)
(* worker_thread.run                                                       *)
(***************************************************************************)
\* seeded fault: the interrupt is not looked at
AfterGet_NoCheck(j) ==
    IF j = 0 THEN "stopped"
    ELSE IF Jobs[j].skip THEN "put"
    ELSE "launch"

\* what a worker does with the job it got: nothing more, hand it back unrun or
\* as skipped, or run it
AfterGet(j) ==
    IF j = 0 THEN "stopped"
    ELSE IF threadExit \/ Jobs[j].skip THEN "put"
    ELSE "launch"

Get(w) ==
    /\ worker[w] = "get"
    /\ inputQueue # <<>>
    /\ LET j == Head(inputQueue) IN
          /\ inputQueue' = Tail(inputQueue)
          /\ worker' = [worker EXCEPT ![w] = AfterGet(j)]
          /\ holds' = [holds EXCEPT ![w] = j]
          /\ isBreak' = IF j # 0 /\ threadExit THEN isBreak \cup {j} ELSE isBreak
    /\ UNCHANGED <<mainVars, outputQueue, threadExit, returncode, child, late>>

\* the child starts; the interrupt may have come since the flag was read
Launch(w) ==
    /\ worker[w] = "launch"
    /\ worker' = [worker EXCEPT ![w] = "run"]
    /\ late' = [late EXCEPT ![w] = IF threadExit THEN @ + 1 ELSE @]
    /\ UNCHANGED <<mainVars, inputQueue, outputQueue, threadExit, holds, isBreak,
                   returncode, child>>

\* Popen raises (no process, no directory): the exception ends the thread
LaunchFails(w) ==
    /\ worker[w] = "launch"
    /\ worker' = [worker EXCEPT ![w] = "dead"]
    /\ UNCHANGED <<mainVars, inputQueue, outputQueue, threadExit, holds, isBreak,
                   returncode, child, late>>

\* communicate () returns: the child has ended
ChildEnds(w) ==
    /\ worker[w] = "run"
    /\ \E c \in Outcomes(holds[w]) :
          /\ returncode' = [returncode EXCEPT ![holds[w]] = ReturnCode(c)]
          /\ child' = [child EXCEPT ![holds[w]] = c]
    /\ worker' = [worker EXCEPT ![w] = "put"]
    /\ UNCHANGED <<mainVars, inputQueue, outputQueue, threadExit, holds, isBreak, late>>

\* seeded fault: a job that was interrupted is not handed back
PutJob_Drops(w) ==
    outputQueue' = IF holds[w] \in isBreak THEN outputQueue ELSE Append(outputQueue, holds[w])

PutJob(w) == outputQueue' = Append(outputQueue, holds[w])

Put(w) ==
    /\ worker[w] = "put"
    /\ PutJob(w)
    /\ worker' = [worker EXCEPT ![w] = "get"]
    /\ holds' = [holds EXCEPT ![w] = 0]
    /\ UNCHANGED <<mainVars, inputQueue, threadExit, isBreak, returncode, child, late>>

(***************************************************************************)
(* run_tests: the main thread, which has started the workers               *)
(***************************************************************************)
Dispatch ==
    /\ main = "dispatch"
    /\ sent < NumJobs
    /\ sent' = sent + 1
    /\ inputQueue' = Append(inputQueue, sent')
    /\ UNCHANGED <<main, stops, got, tally, xml, exit, workVars, outputQueue, threadExit>>

\* seeded fault: one stopping job too few
StopsWanted_Fewer == Cardinality(Workers) - 1

StopsWanted == Cardinality(Workers)

DispatchStop ==
    /\ main = "dispatch"
    /\ sent = NumJobs /\ stops < StopsWanted
    /\ stops' = stops + 1
    /\ inputQueue' = Append(inputQueue, 0)
    /\ UNCHANGED <<main, sent, got, tally, xml, exit, workVars, outputQueue, threadExit>>

StartCollecting ==
    /\ main = "dispatch"
    /\ sent = NumJobs /\ stops = StopsWanted
    /\ main' = "collect"
    /\ UNCHANGED <<sent, stops, got, tally, xml, exit, workVars, inputQueue, outputQueue,
                   threadExit>>

Status(j) ==
    CASE Jobs[j].skip -> "SKIP"
      [] ~ Jobs[j].skip /\ returncode[j] = 0 -> "PASS"
      [] ~ Jobs[j].skip /\ returncode[j] = 1 -> "FAIL"
      [] ~ Jobs[j].skip /\ returncode[j] = 2 -> "VALGR"
      [] OTHER -> "CRASH"

\* the file of a suite that returned 0, 1 or 2 is copied into the results
CopiesFile(j) == Jobs[j].suite /\ ~ Jobs[j].skip /\ returncode[j] \in 0 .. 2

\* seeded fault: no entry is made up for a suite that crashed
Entry_NoCrash(j) ==
    IF CopiesFile(j) THEN << <<j, child[j].file>> >>
    ELSE IF Status(j) = "CRASH" /\ Jobs[j].suite THEN <<>>
    ELSE << <<j, Status(j)>> >>

Entry(j) == IF CopiesFile(j) THEN << <<j, child[j].file>> >> ELSE << <<j, Status(j)>> >>

\* seeded fault: a job handed back unrun is counted; its returncode is False
Ignored_Never(j) == FALSE

Ignored(j) == j \in isBreak

\* One result: counted, printed and written to the results file.  Opening a
\* file that does not exist raises, which ends the main thread; the interpreter
\* then waits for the workers and exits with status 1.
Collect ==
    /\ main = "collect"
    /\ got < NumJobs
    /\ outputQueue # <<>>
    /\ outputQueue' = Tail(outputQueue)
    /\ got' = got + 1
    /\ LET j == Head(outputQueue)
           raises == CopiesFile(j) /\ child[j].file = "none"
       IN  IF Ignored(j) THEN UNCHANGED <<main, tally, xml>>
           ELSE /\ tally' = [tally EXCEPT ![Status(j)] = @ + 1]
                /\ xml' = IF raises THEN xml ELSE xml \o Entry(j)
                /\ main' = IF raises THEN "raised" ELSE main
    /\ UNCHANGED <<sent, stops, exit, workVars, inputQueue, threadExit>>

Ended(w) == worker[w] \in {"stopped", "dead"}

Joined == \A w \in Workers : Ended(w)

\* passed_tests + skipped_tests == total_tests
Success == tally["PASS"] + tally["SKIP"] = NumJobs

\* join the workers, close the results, report
Finish ==
    /\ main = "collect"
    /\ got = NumJobs
    /\ Joined
    /\ main' = "finished"
    /\ xml' = Append(xml, <<0, "end">>)
    /\ exit' = IF Success THEN 0 ELSE 1
    /\ UNCHANGED <<sent, stops, got, tally, workVars, inputQueue, outputQueue, threadExit>>

\* the end of an interpreter whose main thread raised
ExitRaised ==
    /\ main = "raised"
    /\ Joined
    /\ main' = "finished"
    /\ exit' = 1
    /\ UNCHANGED <<sent, stops, got, tally, xml, workVars, inputQueue, outputQueue, threadExit>>

\* sigint_hook; the terminal sends SIGINT to the children too, which may crash
Interrupt ==
    /\ ~ threadExit
    /\ main # "finished"
    /\ threadExit' = TRUE
    /\ UNCHANGED <<mainVars, workVars, inputQueue, outputQueue>>

Init ==
    /\ main = "dispatch"
    /\ sent = 0 /\ stops = 0 /\ got = 0
    /\ inputQueue = <<>> /\ outputQueue = <<>>
    /\ worker = [w \in Workers |-> "get"]
    /\ holds = [w \in Workers |-> 0]
    /\ threadExit = FALSE
    /\ isBreak = {}
    /\ returncode = [j \in JobIds |-> 0]
    /\ tally = [s \in {"PASS", "FAIL", "SKIP", "CRASH", "VALGR"} |-> 0]
    /\ xml = <<>>
    /\ exit = -1
    /\ child = [j \in JobIds |-> NotRun]
    /\ late = [w \in Workers |-> 0]

MainStep == Dispatch \/ DispatchStop \/ StartCollecting \/ Collect \/ Finish \/ ExitRaised

WorkerStep(w) == Get(w) \/ Launch(w) \/ ChildEnds(w) \/ Put(w)

Next ==
    \/ MainStep
    \/ \E w \in Workers : WorkerStep(w) \/ LaunchFails(w)
    \/ Interrupt

Spec == Init /\ [][Next]_vars

\* Threads are scheduled, and the children end.
FairSpec == Spec /\ WF_vars(MainStep) /\ \A w \in Workers : WF_vars(WorkerStep(w))

(***************************************************************************)
(* Properties                                                              *)
(***************************************************************************)
TypeOK ==
    /\ main \in {"dispatch", "collect", "raised", "finished"}
    /\ sent \in 0 .. NumJobs /\ stops \in 0 .. Cardinality(Workers) /\ got \in 0 .. NumJobs
    /\ inputQueue \in Seq(0 .. NumJobs) /\ outputQueue \in Seq(JobIds)
    /\ worker \in [Workers -> {"get", "launch", "run", "put", "stopped", "dead"}]
    /\ holds \in [Workers -> 0 .. NumJobs]
    /\ threadExit \in BOOLEAN
    /\ isBreak \subseteq JobIds
    /\ returncode \in [JobIds -> 0 .. Other]
    /\ tally \in [{"PASS", "FAIL", "SKIP", "CRASH", "VALGR"} -> 0 .. NumJobs]
    /\ exit \in {-1, 0, 1}

\* where a dispatched job can be before the main thread takes it
Times(q, j) == Cardinality({i \in 1 .. Len(q) : q[i] = j})
Holders(j) == {w \in Workers : holds[w] = j}
Waiting(j) == Times(inputQueue, j) + Times(outputQueue, j) + Cardinality(Holders(j))

\* No job is lost or handled twice, whatever the workers' pace and whenever the
\* interrupt comes: the dispatched jobs are those still waiting, each in exactly
\* one queue or hand, and those the main thread has taken.
EachJobOnce ==
    /\ \A j \in JobIds : Waiting(j) <= 1 /\ (j > sent => Waiting(j) = 0)
    /\ got = sent - Cardinality({j \in JobIds : Waiting(j) = 1})

\* what the child of a job says of it
Good(j) == Jobs[j].skip \/ (child[j].rc = 0 /\ child[j].text)

\* test.py succeeds exactly if every job was handled and was skipped or passed:
\* an interrupt, a crash or unreadable output is never reported as success.
ExitHonest == main = "finished" => (exit = 0 <=> isBreak = {} /\ \A j \in JobIds : Good(j))

\* "we stop doing real work": each worker starts at most the one child that was
\* decided on before the interrupt.
StopsOnInterrupt == \A w \in Workers : late[w] <= 1

Closed == xml # <<>> /\ xml[Len(xml)] = <<0, "end">>
Entries(j) == {i \in 1 .. Len(xml) : xml[i][1] = j}

\* what the child of a job deserves: its own verdict, or what its end stands for
Verdict(j) ==
    IF Jobs[j].skip THEN "SKIP"
    ELSE IF child[j].file \in {"PASS", "FAIL"} THEN child[j].file
    ELSE <<"PASS", "FAIL", "VALGR", "CRASH">>[child[j].rc + 1]

\* a suite that ran to completion with errors found by valgrind
Erred(j) ==
    /\ Jobs[j].suite /\ ~ Jobs[j].skip
    /\ child[j].text /\ child[j].rc = 2 /\ child[j].file \in {"PASS", "FAIL"}

\* an entry that says so beside the verdict of the suite
Added(j) == {i \in Entries(j) : Erred(j) /\ xml[i][2] = "VALGR"}

\* Results file that test.py has closed, apart from what is added for valgrind: one
\* entry for every job that was not interrupted, none for the others, and each entry
\* the verdict of the job, as long as the output of the child could be read.
ResultsComplete ==
    Closed => \A j \in JobIds :
        LET own == Entries(j) \ Added(j) IN
        /\ Cardinality(own) = IF j \in isBreak THEN 0 ELSE 1
        /\ child[j].text => \A i \in own : xml[i][2] = Verdict(j)

\* "in the case of a working TestSuite that fails valgrind, we'll see the PASS entry
\* for the working TestSuite followed by a VALGR failing test suite of the same name".
ValgrindReported ==
    Closed => \A j \in JobIds : Erred(j) =>
        \E i, k \in Entries(j) : i < k /\ xml[i][2] = Verdict(j) /\ xml[k][2] = "VALGR"

\* test.py comes to its end, unless a worker died with its job.
Finishes == <>(main = "finished" \/ \E w \in Workers : worker[w] = "dead")
=============================================================================
