-------------------------- MODULE VisualizerProofs --------------------------
(***************************************************************************)
(* Proofs about Visualizer for any number of timers, clicks, messages and  *)
(* sample periods, and any nesting of callbacks.                           *)
(***************************************************************************)
EXTENDS Visualizer, SequenceTheorems, TLAPS

(***************************************************************************)
(* The lock                                                                *)
(***************************************************************************)
\* Who holds the lock is where the program says it is.
LockInv ==
    /\ sim = "run" => lock = "sim"
    /\ view \in {"update", "access"} => lock = "view"

\* The lock keeps the simulation thread and the handlers apart: each of them
\* releases only what it has taken.
THEOREM Locked == Spec => []LockGuards
<1>1. Init => LockInv
  BY DEF Init, LockInv
<1>2. LockInv /\ [Next]_vars => LockInv'
  <2> SUFFICES ASSUME LockInv, [Next]_vars PROVE LockInv'
    OBVIOUS
  <2>1. CASE SimStep
    BY <2>1 DEF SimStep, SimLoop, SimWait, SimClear, SimCheck, SimAcquire, SimRun, LockInv
  <2>2. CASE TryLock \/ Update \/ AfterUpdate
    BY <2>2 DEF TryLock, LockFree, Update, AfterUpdate, simVars, LockInv
  <2>3. CASE StartAccess \/ AcquireAccess \/ EndAccess
    BY <2>3 DEF StartAccess, AcquireAccess, EndAccess, Dispatching, simVars, LockInv
  <2>4. CASE Autoscale \/ EndAutoscale \/ PlayOn \/ PlayOff \/ SpeedChanged
             \/ \E t \in Timers : Fire(t)
    BY <2>4 DEF Autoscale, EndAutoscale, PlayOn, PlayOff, SpeedChanged, Click, Fire, Dispatching,
                simVars, LockInv
  <2>5. CASE Quit \/ QuitGo \/ Join \/ Leave
    BY <2>5 DEF Quit, QuitGo, Join, Leave, Dispatching, simVars, LockInv
  <2>6. CASE UNCHANGED vars
    BY <2>6 DEF vars, simVars, LockInv
  <2> QED BY <2>1, <2>2, <2>3, <2>4, <2>5, <2>6 DEF Next, ViewStep
<1>3. LockInv => LockGuards
  BY DEF LockInv, LockGuards
<1> QED BY <1>1, <1>2, <1>3, PTL DEF Spec

(***************************************************************************)
(* Time and pause messages                                                 *)
(***************************************************************************)
\* The target was set when the view was last updated, so it is at most one
\* period later; no messages are taken unless a callback is about to show them.
ViewInv ==
    /\ {now, viewed, target} \subseteq Int
    /\ {messages, taken, raised, shown} \subseteq Int
    /\ target <= viewed + 1
    /\ now <= viewed + 1
    /\ view # "after" => taken = 0
    /\ raised = messages + taken + shown

LEMMA ViewInductive == Spec => []ViewInv
<1>0. MaxTime \in Int
  BY VisualizerConstants
<1>1. Init => ViewInv
  BY DEF Init, ViewInv
<1>2. ViewInv /\ [Next]_vars => ViewInv'
  <2> SUFFICES ASSUME ViewInv, [Next]_vars PROVE ViewInv'
    OBVIOUS
  <2>1. CASE SimLoop \/ SimWait \/ SimClear \/ SimCheck \/ SimAcquire
    BY <2>1 DEF SimLoop, SimWait, SimClear, SimCheck, SimAcquire, historyVars, ViewInv
  <2>2. CASE \E m \in 0 .. 1 : SimRun(m)
    BY <2>2 DEF SimRun, Extend, historyVars, ViewInv
  <2>3. CASE Update
    BY <1>0, <2>3 DEF Update, TargetTime, simVars, ViewInv
  <2>4. CASE AfterUpdate
    BY <2>4 DEF AfterUpdate, simVars, ViewInv
  <2>5. CASE TryLock \/ AcquireAccess \/ EndAccess \/ Autoscale \/ EndAutoscale
    BY <2>5 DEF TryLock, AcquireAccess, EndAccess, Autoscale, EndAutoscale, Dispatching,
                simVars, historyVars, ViewInv
  <2>6. CASE StartAccess \/ PlayOn \/ PlayOff \/ SpeedChanged \/ \E t \in Timers : Fire(t)
    BY <2>6 DEF StartAccess, PlayOn, PlayOff, SpeedChanged, Click, Fire, Dispatching,
                simVars, historyVars, ViewInv
  <2>7. CASE Quit \/ QuitGo \/ Join \/ Leave
    BY <2>7 DEF Quit, QuitGo, Join, Leave, Dispatching, simVars, historyVars, ViewInv
  <2>8. CASE UNCHANGED vars
    BY <2>8 DEF vars, simVars, historyVars, ViewInv
  <2> QED BY <2>1, <2>2, <2>3, <2>4, <2>5, <2>6, <2>7, <2>8 DEF Next, SimStep, ViewStep
<1> QED BY <1>1, <1>2, PTL DEF Spec

\* However the timers nest and restart, the simulation stays within one sample
\* period of what is shown.
THEOREM OnePeriodAhead == Spec => []NeverAhead
<1>1. ViewInv => NeverAhead
  BY DEF ViewInv, NeverAhead
<1> QED BY <1>1, ViewInductive, PTL

\* Every pause message is in the list, taken or shown, exactly once.
THEOREM MessagesKept == Spec => []NoMessageLost
<1>1. ViewInv => NoMessageLost
  BY DEF ViewInv, NoMessageLost
<1> QED BY <1>1, ViewInductive, PTL

(***************************************************************************)
(* Types                                                                   *)
(***************************************************************************)
FlagTypes == {go, quit, play, idle, autoscale} \subseteq BOOLEAN

LEMMA FlagsStep ==
    ASSUME FlagTypes, [Next]_vars
    PROVE  FlagTypes'
<1> USE DEF FlagTypes
<1>1. CASE SimStep
  BY <1>1, Zenon DEF SimStep, SimLoop, SimWait, SimClear, SimCheck, SimAcquire, SimRun, timerVars
<1>2. CASE TryLock \/ Update \/ AcquireAccess \/ EndAccess \/ Autoscale \/ EndAutoscale
  BY <1>2, Zenon DEF TryLock, Update, AcquireAccess, EndAccess, Autoscale, EndAutoscale, timerVars
<1>3. CASE AfterUpdate
  <2>1. play' \in BOOLEAN /\ go' \in BOOLEAN
    BY <1>3, Zenon DEF AfterUpdate
  <2>2. quit' = quit /\ idle' = idle /\ autoscale' = autoscale
    BY <1>3 DEF AfterUpdate
  <2> QED BY <2>1, <2>2, Zenon
<1>4. CASE StartAccess
  BY <1>4, Zenon DEF StartAccess, timerVars
<1>5. CASE PlayOn \/ PlayOff \/ SpeedChanged
  BY <1>5, Zenon DEF PlayOn, PlayOff, SpeedChanged, Click
<1>6. CASE \E t \in Timers : Fire(t)
  BY <1>6, Zenon DEF Fire
<1>7. CASE Quit \/ QuitGo \/ Join \/ Leave
  BY <1>7, Zenon DEF Quit, QuitGo, QuitEvent, Join, Leave, timerVars
<1>8. CASE UNCHANGED vars
  BY <1>8, Zenon DEF vars, timerVars
<1> QED BY <1>1, <1>2, <1>3, <1>4, <1>5, <1>6, <1>7, <1>8 DEF Next, ViewStep

NumberTypes ==
    /\ {target, now, viewed} \subseteq 0 .. MaxTime
    /\ {messages, taken, raised, shown} \subseteq 0 .. MaxPauses
    /\ clicks \in 0 .. MaxClicks

LEMMA NumbersStep ==
    ASSUME NumberTypes, ViewInv, ViewInv', [Next]_vars
    PROVE  NumberTypes'
<1> USE DEF NumberTypes
<1>0. MaxTime \in Nat /\ MaxClicks \in Nat /\ MaxPauses \in Nat
  BY VisualizerConstants
<1>1. CASE SimLoop \/ SimWait \/ SimClear \/ SimCheck \/ SimAcquire
  BY <1>1 DEF SimLoop, SimWait, SimClear, SimCheck, SimAcquire, historyVars
<1>2. CASE \E m \in 0 .. 1 : SimRun(m)
  BY <1>0, <1>2 DEF SimRun, Extend, historyVars, ViewInv
<1>3. CASE Update
  BY <1>0, <1>3 DEF Update, TargetTime, simVars
<1>4. CASE AfterUpdate
  <2>1. /\ messages' = messages /\ raised' = raised /\ taken' = 0 /\ shown' = shown + taken
        /\ target' = target /\ now' = now /\ viewed' = viewed /\ clicks' = clicks
    BY <1>4 DEF AfterUpdate, simVars
  <2> QED BY <1>0, <2>1 DEF ViewInv
<1>5. CASE TryLock \/ AcquireAccess \/ EndAccess \/ Autoscale \/ EndAutoscale
  BY <1>5 DEF TryLock, AcquireAccess, EndAccess, Autoscale, EndAutoscale, simVars, historyVars
<1>6. CASE StartAccess \/ PlayOn \/ PlayOff \/ SpeedChanged \/ \E t \in Timers : Fire(t)
  BY <1>0, <1>6 DEF StartAccess, PlayOn, PlayOff, SpeedChanged, Click, Fire, simVars, historyVars
<1>7. CASE Quit \/ QuitGo \/ Join \/ Leave
  BY <1>7 DEF Quit, QuitGo, Join, Leave, simVars, historyVars
<1>8. CASE UNCHANGED vars
  BY <1>8 DEF vars, simVars, historyVars
<1> QED BY <1>1, <1>2, <1>3, <1>4, <1>5, <1>6, <1>7, <1>8 DEF Next, SimStep, ViewStep

PlaceTypes ==
    /\ lock \in {"free", "sim", "view"}
    /\ sim \in {"top", "wait", "clear", "check", "acquire", "run", "ended"}
    /\ view \in {"loop", "update", "after", "want", "access", "peek", "quit", "join", "left"}

LEMMA PlacesStep ==
    ASSUME PlaceTypes, [Next]_vars
    PROVE  PlaceTypes'
<1> USE DEF PlaceTypes
<1>1. CASE SimStep
  BY <1>1 DEF SimStep, SimLoop, SimWait, SimClear, SimCheck, SimAcquire, SimRun
<1>2. CASE TryLock \/ Update \/ AfterUpdate \/ StartAccess \/ AcquireAccess \/ EndAccess
  BY <1>2 DEF TryLock, Update, AfterUpdate, StartAccess, AcquireAccess, EndAccess, simVars
<1>3. CASE Autoscale \/ EndAutoscale \/ Quit \/ QuitGo \/ Join \/ Leave
  BY <1>3 DEF Autoscale, EndAutoscale, Quit, QuitGo, Join, Leave, simVars
<1>4. CASE PlayOn \/ PlayOff \/ SpeedChanged \/ \E t \in Timers : Fire(t)
  BY <1>4 DEF PlayOn, PlayOff, SpeedChanged, Click, Fire, simVars
<1>5. CASE UNCHANGED vars
  BY <1>5 DEF vars, simVars
<1> QED BY <1>1, <1>2, <1>3, <1>4, <1>5 DEF Next, ViewStep

TimerTypes == stack \in Seq(Timers) /\ live \subseteq Timers /\ timer \in Timers \cup {None}

LEMMA TimersStep ==
    ASSUME TimerTypes, [Next]_vars
    PROVE  TimerTypes'
<1> USE DEF TimerTypes
<1>1. CASE SimStep
  BY <1>1 DEF SimStep, SimLoop, SimWait, SimClear, SimCheck, SimAcquire, SimRun, timerVars
<1>2. CASE AfterUpdate
  <2>1. Front(stack) \in Seq(Timers)
    BY SubSeqProperties DEF Front
  <2> QED BY <1>2, <2>1 DEF AfterUpdate
<1>3. ASSUME PlayOn \/ SpeedChanged PROVE TimerTypes'
  <2>1. NewTimer \in Timers
    BY <1>3 DEF PlayOn, SpeedChanged, NewTimer, Fresh
  <2> QED BY <1>3, <2>1 DEF PlayOn, SpeedChanged, StartTimer, Click
<1>4. CASE PlayOff \/ Quit
  BY <1>4 DEF PlayOff, Quit, Click
<1>5. ASSUME NEW t \in Timers, Fire(t) PROVE TimerTypes'
  BY <1>5 DEF Fire
<1>6. CASE TryLock \/ Update \/ StartAccess \/ AcquireAccess \/ EndAccess
  BY <1>6 DEF TryLock, Update, StartAccess, AcquireAccess, EndAccess, timerVars
<1>7. CASE Autoscale \/ EndAutoscale \/ QuitGo \/ Join \/ Leave
  BY <1>7 DEF Autoscale, EndAutoscale, QuitGo, Join, Leave, timerVars
<1>8. CASE UNCHANGED vars
  BY <1>8 DEF vars, timerVars
<1> QED BY <1>1, <1>2, <1>3, <1>4, <1>5, <1>6, <1>7, <1>8 DEF Next, ViewStep

\* Every variable of Visualizer keeps its type: the times stay within the bound and
\* what is on the stack is a timer, however the callbacks nest.
THEOREM TypeCorrect == Spec => []TypeOK
<1> DEFINE Types == FlagTypes /\ NumberTypes /\ PlaceTypes /\ TimerTypes
<1>1. Init => Types
  <2> SUFFICES ASSUME Init PROVE Types
    OBVIOUS
  <2>1. FlagTypes
    BY Zenon DEF Init, FlagTypes
  <2>2. NumberTypes
    BY VisualizerConstants DEF Init, NumberTypes
  <2>3. PlaceTypes
    BY DEF Init, PlaceTypes
  <2>4. TimerTypes
    <3>1. timer \in Timers /\ live = {timer} /\ stack = <<>>
      BY VisualizerConstants DEF Init
    <3> QED BY <3>1 DEF TimerTypes
  <2> QED BY <2>1, <2>2, <2>3, <2>4
<1>2. Types /\ ViewInv /\ ViewInv' /\ [Next]_vars => Types'
  BY FlagsStep, NumbersStep, PlacesStep, TimersStep
<1>3. Types => TypeOK
  BY Zenon DEF FlagTypes, NumberTypes, PlaceTypes, TimerTypes, TypeOK
<1> QED BY <1>1, <1>2, <1>3, ViewInductive, PTL DEF Spec
=============================================================================
