----------------------------- MODULE Visualizer -----------------------------
(***************************************************************************)
(* PyViz, the live visualizer (src/visualizer/visualizer/core.py): a       *)
(* simulation thread that runs ns-3 one sample period at a time, and a     *)
(* view thread, the Gtk main loop, that shows the result and tells it how  *)
(* far to go.  They share a lock that guards ns-3, the event go, the flag  *)
(* quit, target_time and the list pause_messages.                          *)
(*                                                                         *)
(* update_view_timeout, the callback of the update timer, runs the Gtk     *)
(* loop itself while the simulator is busy, so other callbacks, also the   *)
(* timer of a later Play, run inside it: stack holds the timers whose      *)
(* callbacks are active, the innermost last.  GLib dispatches no source    *)
(* inside its own callback.  The remaining handlers run to completion.     *)
(*                                                                         *)
(* Simulated time is counted in sample periods.                            *)
(***************************************************************************)
EXTENDS Integers, SequencesExt

CONSTANTS
    Timers,      \* identifiers of timer sources
    MaxTime,     \* bound: sample periods simulated
    MaxClicks,   \* bound: things the user does before closing the window
    MaxPauses,   \* bound: pause messages of the simulation script
    MaxNesting,  \* bound: timer callbacks active within each other
    None         \* no timer

ASSUME VisualizerConstants ==
    /\ Timers # {} /\ None \notin Timers
    /\ {MaxTime, MaxClicks, MaxPauses, MaxNesting} \subseteq Nat

VARIABLES
    lock,      \* simulation.lock: "free", "sim" or "view"
    go,        \* simulation.go
    quit,      \* simulation.quit
    target,    \* simulation.target_time
    messages,  \* the length of simulation.pause_messages
    sim,       \* where the simulation thread is
    view,      \* what the innermost callback of the view thread is doing
    stack,     \* the timers whose callbacks are active
    live,      \* the timer sources attached to the main loop
    timer,     \* _update_timeout_id
    play,      \* play_button.get_active ()
    taken,     \* pause messages the innermost timer callback has taken
    idle,      \* an update_model is pending
    autoscale, \* the autoscale_view of the start is pending
    now,       \* Simulator::Now ()
    viewed,    \* history: the time shown
    raised,    \* history: pause messages of the simulation
    shown,     \* history: pause messages shown
    clicks     \* history: things the user has done

simVars == <<sim, now, raised>>
timerVars == <<stack, live, timer, play>>
historyVars == <<viewed, shown, clicks>>
vars == <<lock, go, quit, target, messages, simVars, view, timerVars, taken, idle, autoscale,
          historyVars>>

(***************************************************************************)
(* SimulationThread.run                                                    *)
(***************************************************************************)
SimLoop ==
    /\ sim = "top"
    /\ sim' = IF quit THEN "ended" ELSE "wait"
    /\ UNCHANGED <<lock, go, quit, target, messages, now, raised, view, timerVars, taken, idle,
                   autoscale, historyVars>>

SimWait ==
    /\ sim = "wait"
    /\ go
    /\ sim' = "clear"
    /\ UNCHANGED <<lock, go, quit, target, messages, now, raised, view, timerVars, taken, idle,
                   autoscale, historyVars>>

SimClear ==
    /\ sim = "clear"
    /\ go' = FALSE
    /\ sim' = "check"
    /\ UNCHANGED <<lock, quit, target, messages, now, raised, view, timerVars, taken, idle,
                   autoscale, historyVars>>

SimCheck ==
    /\ sim = "check"
    /\ sim' = IF quit THEN "ended" ELSE "acquire"
    /\ UNCHANGED <<lock, go, quit, target, messages, now, raised, view, timerVars, taken, idle,
                   autoscale, historyVars>>

SimAcquire ==
    /\ sim = "acquire"
    /\ lock = "free"
    /\ lock' = "sim"
    /\ sim' = "run"
    /\ UNCHANGED <<go, quit, target, messages, now, raised, view, timerVars, taken, idle,
                   autoscale, historyVars>>

\* seeded fault: the messages of this run replace those not shown yet
Extend_Assign(m) == m

Extend(m) == messages + m

\* SimulatorRunUntil, which does nothing if the target has been reached; the
\* script may have called Pause on the way
SimRun(m) ==
    /\ sim = "run"
    /\ m > 0 => now < target /\ raised + m <= MaxPauses
    /\ now' = IF now < target THEN target ELSE now
    /\ raised' = raised + m
    /\ messages' = Extend(m)
    /\ idle' = TRUE
    /\ lock' = "free"
    /\ sim' = "top"
    /\ UNCHANGED <<go, quit, target, view, timerVars, taken, autoscale, historyVars>>

(***************************************************************************)
(* The update timer                                                        *)
(***************************************************************************)
\* _start_update_timer: source_remove of an identifier that is no longer
\* attached does nothing; a new source has an identifier never seen
StartTimer(t) == live' = (live \ {timer}) \cup {t} /\ timer' = t

Fresh == Timers \ (live \cup Range(stack) \cup {timer})

\* which unused identifier GLib gives makes no difference
NewTimer == CHOOSE t \in Fresh : TRUE

\* The main loop, or the one within an active callback, dispatches events; the
\* main loop no longer does so after main_quit.
Dispatching == view = "loop" /\ (quit => stack # <<>>)

\* the timer expires
Fire(t) ==
    /\ Dispatching
    /\ t \in live /\ t \notin Range(stack)
    /\ Len(stack) < MaxNesting
    /\ stack' = Append(stack, t)
    /\ UNCHANGED <<lock, go, quit, target, messages, simVars, view, live, timer, play, taken, idle,
                   autoscale, historyVars>>

\* seeded fault: the callback goes on although the lock is taken
LockFree_Ignored == TRUE

LockFree == lock = "free"

\* lock.acquire (False) succeeds
TryLock ==
    /\ view = "loop"
    /\ stack # <<>>
    /\ LockFree
    /\ lock' = "view"
    /\ view' = "update"
    /\ UNCHANGED <<go, quit, target, messages, simVars, timerVars, taken, idle, autoscale,
                   historyVars>>

\* seeded faults: the target moves on from the last target; or never
TargetTime_Accumulates == IF target < MaxTime THEN target + 1 ELSE target

TargetTime_Stuck == target

TargetTime == IF now < MaxTime THEN now + 1 ELSE now

\* update_view and what else is done under the lock
Update ==
    /\ view = "update"
    /\ taken' = messages
    /\ messages' = 0
    /\ viewed' = now
    /\ target' = TargetTime
    /\ lock' = "free"
    /\ view' = "after"
    /\ UNCHANGED <<go, quit, simVars, timerVars, idle, autoscale, shown, clicks>>

\* seeded fault: a callback that finds the button released keeps its timer
Ended_None == {}

\* A pause message releases the play button, whose handler removes the timer;
\* a callback that finds it released ends its own.
Ended == {Last(stack)} \cup IF play THEN {timer} ELSE {}

\* the dialog, then the timer is ended or the simulation gets its go
AfterUpdate ==
    LET playing == play /\ taken = 0
    IN  /\ view = "after"
        /\ view' = "loop"
        /\ stack' = Front(stack)
        /\ play' = playing
        /\ live' = IF playing THEN live ELSE live \ Ended
        /\ timer' = IF playing THEN timer ELSE None
        /\ go' = (go \/ playing)
        /\ shown' = shown + taken
        /\ taken' = 0
        /\ UNCHANGED <<lock, quit, target, messages, simVars, idle, autoscale, viewed, clicks>>

(***************************************************************************)
(* The other callbacks                                                     *)
(***************************************************************************)
\* update_model, and every handler that looks into ns-3 under the lock
StartAccess ==
    /\ Dispatching
    /\ \/ idle /\ idle' = FALSE /\ UNCHANGED clicks
       \/ ~ quit /\ clicks < MaxClicks /\ clicks' = clicks + 1 /\ UNCHANGED idle
    /\ view' = "want"
    /\ UNCHANGED <<lock, go, quit, target, messages, simVars, timerVars, taken, autoscale,
                   viewed, shown>>

AcquireAccess ==
    /\ view = "want"
    /\ lock = "free"
    /\ lock' = "view"
    /\ view' = "access"
    /\ UNCHANGED <<go, quit, target, messages, simVars, timerVars, taken, idle, autoscale,
                   historyVars>>

EndAccess ==
    /\ view = "access"
    /\ lock' = "free"
    /\ view' = "loop"
    /\ UNCHANGED <<go, quit, target, messages, simVars, timerVars, taken, idle, autoscale,
                   historyVars>>

\* autoscale_view, 200 ms after the start, reads the node positions unlocked
Autoscale ==
    /\ Dispatching /\ autoscale
    /\ autoscale' = FALSE
    /\ view' = "peek"
    /\ UNCHANGED <<lock, go, quit, target, messages, simVars, timerVars, taken, idle, historyVars>>

EndAutoscale ==
    /\ view = "peek"
    /\ view' = "loop"
    /\ UNCHANGED <<lock, go, quit, target, messages, simVars, timerVars, taken, idle, autoscale,
                   historyVars>>

Click ==
    /\ Dispatching
    /\ ~ quit
    /\ clicks < MaxClicks
    /\ clicks' = clicks + 1
    /\ UNCHANGED <<lock, go, quit, target, messages, simVars, view, stack, taken, idle, autoscale,
                   viewed, shown>>

\* _on_play_button_toggled leaves the identifier of the removed timer behind
PlayOn == Click /\ Fresh # {} /\ ~ play /\ play' = TRUE /\ StartTimer(NewTimer)
PlayOff == Click /\ play /\ play' = FALSE /\ live' = live \ {timer} /\ UNCHANGED timer

\* _speed_changed starts the timer also while paused
SpeedChanged == Click /\ Fresh # {} /\ StartTimer(NewTimer) /\ UNCHANGED play

\* _quit, in its order: the flag, the event, join, main_quit
Quit ==
    /\ Dispatching
    /\ ~ quit
    /\ live' = live \ {timer}
    /\ timer' = None
    /\ quit' = TRUE
    /\ view' = "quit"
    /\ UNCHANGED <<lock, go, target, messages, simVars, stack, play, taken, idle, autoscale,
                   historyVars>>

\* seeded fault: the event is not set
QuitEvent_None == UNCHANGED go

QuitEvent == go' = TRUE

QuitGo ==
    /\ view = "quit"
    /\ QuitEvent
    /\ view' = "join"
    /\ UNCHANGED <<lock, quit, target, messages, simVars, timerVars, taken, idle, autoscale,
                   historyVars>>

Join ==
    /\ view = "join"
    /\ sim = "ended"
    /\ view' = "loop"
    /\ UNCHANGED <<lock, go, quit, target, messages, simVars, timerVars, taken, idle, autoscale,
                   historyVars>>

\* the outermost main loop returns once no callback is active
Leave ==
    /\ view = "loop" /\ quit /\ stack = <<>>
    /\ view' = "left"
    /\ UNCHANGED <<lock, go, quit, target, messages, simVars, timerVars, taken, idle, autoscale,
                   historyVars>>

\* create_gui has called _speed_changed by now, which starts the update timer
Init ==
    /\ lock = "free" /\ go = FALSE /\ quit = FALSE
    /\ target = 0 /\ messages = 0
    /\ sim = "top" /\ view = "loop"
    /\ stack = <<>> /\ timer = (CHOOSE t \in Timers : TRUE) /\ live = {timer} /\ play = FALSE
    /\ taken = 0 /\ idle = FALSE /\ autoscale = TRUE
    /\ now = 0 /\ viewed = 0 /\ raised = 0 /\ shown = 0 /\ clicks = 0

SimStep == SimLoop \/ SimWait \/ SimClear \/ SimCheck \/ SimAcquire \/ \E m \in 0 .. 1 : SimRun(m)

\* the steps the view thread takes by itself
ViewStep ==
    \/ TryLock \/ Update \/ AfterUpdate
    \/ AcquireAccess \/ EndAccess
    \/ Autoscale \/ EndAutoscale
    \/ QuitGo \/ Join \/ Leave

Next ==
    \/ SimStep \/ ViewStep \/ StartAccess \/ PlayOn \/ PlayOff \/ SpeedChanged \/ Quit
    \/ \E t \in Timers : Fire(t)

Spec == Init /\ [][Next]_vars

\* Both threads are scheduled and a timer that stays attached expires.  Timers
\* are far apart (SAMPLE_PERIOD): between two of them the simulation thread gets
\* the lock it blocks on, and the loop within a callback runs out of events and
\* tries the lock again.
FairSpec ==
    /\ Spec
    /\ WF_vars(SimStep) /\ SF_vars(SimAcquire) /\ WF_vars(ViewStep)
    /\ SF_vars(\E t \in Timers : Fire(t))
    /\ \A n \in 1 .. MaxNesting : SF_vars(Len(stack) = n /\ TryLock)

(***************************************************************************)
(* Properties                                                              *)
(***************************************************************************)
TypeOK ==
    /\ lock \in {"free", "sim", "view"}
    /\ {go, quit, play, idle, autoscale} \subseteq BOOLEAN
    /\ {target, now, viewed} \subseteq 0 .. MaxTime
    /\ {messages, taken, raised, shown} \subseteq 0 .. MaxPauses
    /\ sim \in {"top", "wait", "clear", "check", "acquire", "run", "ended"}
    /\ view \in {"loop", "update", "after", "want", "access", "peek", "quit", "join", "left"}
    /\ stack \in Seq(Timers) /\ live \subseteq Timers /\ timer \in Timers \cup {None}
    /\ clicks \in 0 .. MaxClicks

\* The simulation is never more than a sample period ahead of what is shown,
\* although timers nest, expire twice before it runs, and are restarted.
NeverAhead == now <= viewed + 1

\* A handler that takes the lock is alone in ns-3, which is not thread safe:
\* neither a callback that ran events while it waited nor a blocked one enters
\* while the simulation thread runs.
LockGuards == sim = "run" => view \notin {"update", "access"}

\* Every pause message of the simulation is shown once: none is lost between the
\* list, the callback that took it and the dialog.
NoMessageLost == raised = messages + taken + shown

\* A view that stays paused ends every timer, also those a speed change started
\* while paused and those whose identifier an older callback has overwritten.
PausedEndsTimers == <>[](~ play /\ ~ quit) => <>[](live = {})

\* Closing the window ends the simulation thread and the main loop, whatever the
\* threads are doing at that moment.
QuitEnds == quit ~> (view = "left" /\ sim = "ended")

\* A view that keeps playing makes the simulation go on.
KeepsGoing == <>[](play /\ ~ quit) => <>(now = MaxTime)
=============================================================================
