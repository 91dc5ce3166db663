----------------------------- MODULE FastTimer -----------------------------
(***************************************************************************)
(* FastTimer: a thread that polls two relaxed atomics to time the runs of  *)
(* the main thread, and sends it SIGALRM when one lasts longer than the    *)
(* timeout.  The main thread arms and disarms it around every run without  *)
(* waiting for the thread.                                                 *)
(*                                                                         *)
(* Each load and each store of an atomic is a step of its own.  Time is    *)
(* counted in ticks, of which a sleep of the thread lasts at least one.    *)
(***************************************************************************)
EXTENDS Naturals

CONSTANTS
    Timeout,    \* the timeout, in ticks
    MaxRuns     \* bound on the runs of one timer

ASSUME TimerAssumption ==
    /\ Timeout \in Nat
    /\ MaxRuns \in Nat

VARIABLES
    main,        \* where the main thread is
    isActive,    \* SharedState.is_active
    armCounter,  \* SharedState.arm_counter
    shouldStop,  \* SharedState.should_stop
    thread,      \* where the timer thread is
    tracking,    \* its local is_active
    current,     \* its local current_counter
    elapsed,     \* the ticks since its local start
    slept,       \* whether a tick has passed in its sleep
    signal,      \* whether SIGALRM is pending in the main thread
    age,         \* the ticks since the main thread began to arm the timer for its run
    overran,     \* history: whether a run has lasted longer than the timeout
    interrupted, \* history: whether SIGALRM has been handled in this run
    happened     \* history: what else has happened that the properties tell apart

shared == <<isActive, armCounter, shouldStop>>
local == <<tracking, current, elapsed>>
history == <<overran, interrupted, happened>>
vars == <<main, shared, thread, local, slept, signal, age, history>>

Long == Timeout + 1     \* all durations beyond the timeout are one

TypeOK ==
    /\ main \in {"idle", "counted", "flagged", "run", "joining", "deleted", "gone"}
    /\ isActive \in BOOLEAN
    /\ armCounter \in 0..MaxRuns
    /\ shouldStop \in BOOLEAN
    /\ thread \in {"sleep", "awake", "count", "check", "sync", "clock", "kill", "clear", "done"}
    /\ tracking \in BOOLEAN
    /\ current \in 0..MaxRuns
    /\ elapsed \in 0..Long
    /\ slept \in BOOLEAN
    /\ signal \in BOOLEAN
    /\ age \in 0..Long
    /\ overran \in BOOLEAN
    /\ interrupted \in BOOLEAN
    /\ happened \subseteq {"reordered", "delayed", "cleared"}

\* create_timer has just spawned the thread.
Init ==
    /\ main = "idle"
    /\ isActive = FALSE /\ armCounter = 0 /\ shouldStop = FALSE
    /\ thread = "sleep"
    /\ tracking = FALSE /\ current = 0 /\ elapsed = 0
    /\ slept = FALSE
    /\ signal = FALSE
    /\ age = 0
    /\ overran = FALSE /\ interrupted = FALSE /\ happened = {}

-----------------------------------------------------------------------------
\* The main thread.

\* arm_timer stores to two atomics, relaxed: some machines let the thread see the
\* second store first.
Arm ==
    /\ main = "idle" /\ armCounter < MaxRuns
    /\ \/ /\ main' = "counted" /\ armCounter' = armCounter + 1
          /\ UNCHANGED <<isActive, happened>>
       \/ /\ main' = "flagged" /\ isActive' = TRUE
          /\ happened' = happened \cup {"reordered"}
          /\ UNCHANGED armCounter
    /\ age' = 0 /\ interrupted' = FALSE
    /\ UNCHANGED <<shouldStop, thread, local, slept, signal, overran>>

EndArm ==
    /\ \/ main = "counted" /\ isActive' = TRUE /\ UNCHANGED armCounter
       \/ main = "flagged" /\ armCounter' = armCounter + 1 /\ UNCHANGED isActive
    /\ main' = "run"
    /\ UNCHANGED <<shouldStop, thread, local, slept, signal, age, history>>

\* The run comes to its end, and disarm_timer stops the clock.
Disarm ==
    /\ main = "run"
    /\ main' = "idle"
    /\ isActive' = FALSE
    /\ UNCHANGED <<armCounter, shouldStop, thread, local, slept, signal, age, history>>

\* delete_timer asks the thread to stop, and joins it.
Delete ==
    /\ main = "idle"
    /\ main' = "joining"
    /\ shouldStop' = TRUE
    /\ UNCHANGED <<isActive, armCounter, thread, local, slept, signal, age, history>>

Join ==
    /\ main = "joining" /\ thread = "done"
    /\ main' = "deleted"
    /\ UNCHANGED <<shared, thread, local, slept, signal, age, history>>

\* create_timer starts over with fresh atomics and a new thread.
Create ==
    /\ main = "deleted"
    /\ main' = "idle"
    /\ isActive' = FALSE /\ armCounter' = 0 /\ shouldStop' = FALSE
    /\ thread' = "sleep"
    /\ tracking' = FALSE /\ current' = 0 /\ elapsed' = 0 /\ slept' = FALSE
    /\ UNCHANGED <<signal, age, history>>

\* The handler of SIGALRM, wherever the main thread is: it ends the process, or
\* returns.
Handle ==
    /\ signal /\ main # "gone"
    /\ signal' = FALSE
    /\ interrupted' = TRUE
    /\ main' \in {"gone", main}
    /\ UNCHANGED <<shared, thread, local, slept, age, overran, happened>>

-----------------------------------------------------------------------------
\* The timer thread, which the end of the process ends.

Goto(step) == thread' = step /\ slept' = FALSE

Running == main # "gone"

\* For the mutants: the thread looks at should_stop only while it tracks a run.
Wake_TrackingStops ==
    /\ Running /\ thread = "sleep" /\ slept
    /\ Goto(IF shouldStop /\ tracking THEN "done" ELSE "awake")
    /\ UNCHANGED <<main, shared, local, signal, age, history>>

\* After its sleep the thread stops, goes on with the run it tracks, or picks up
\* one that has begun.
Wake ==
    /\ Running /\ thread = "sleep" /\ slept
    /\ Goto(IF shouldStop THEN "done" ELSE "awake")
    /\ UNCHANGED <<main, shared, local, signal, age, history>>

PickUp ==
    /\ Running /\ thread = "awake"
    /\ \/ tracking /\ Goto("check") /\ UNCHANGED tracking
       \/ ~tracking /\ ~isActive /\ Goto("sleep") /\ UNCHANGED tracking
       \/ ~tracking /\ isActive /\ Goto("count") /\ tracking' = TRUE
    /\ UNCHANGED <<main, shared, current, elapsed, signal, age, history>>

\* For the mutants: the thread waits for the run after this one.
ReadCounter_Next ==
    /\ Running /\ thread = "count"
    /\ current' = armCounter + 1
    /\ elapsed' = 0
    /\ Goto("check")
    /\ UNCHANGED <<main, shared, tracking, signal, age, history>>

ReadCounter ==
    /\ Running /\ thread = "count"
    /\ current' = armCounter
    /\ elapsed' = 0
    /\ Goto("check")
    /\ UNCHANGED <<main, shared, tracking, signal, age, history>>

\* The main thread may have disarmed the timer during the sleep.
CheckActive ==
    /\ Running /\ thread = "check"
    /\ tracking' = isActive
    /\ Goto(IF isActive THEN "sync" ELSE "sleep")
    /\ UNCHANGED <<main, shared, current, elapsed, signal, age, history>>

\* For the mutants: one run is taken for the next.
CheckCounter_Skipped ==
    /\ Running /\ thread = "sync"
    /\ Goto("clock")
    /\ UNCHANGED <<main, shared, local, signal, age, history>>

\* For the mutants: a run that is over is not let go.
CheckCounter_Kept ==
    /\ Running /\ thread = "sync"
    /\ Goto(IF current = armCounter THEN "clock" ELSE "sleep")
    /\ UNCHANGED <<main, shared, local, signal, age, history>>

\* It may have armed it anew, too.
CheckCounter ==
    /\ Running /\ thread = "sync"
    /\ tracking' = (current = armCounter)
    /\ Goto(IF current = armCounter THEN "clock" ELSE "sleep")
    /\ UNCHANGED <<main, shared, current, elapsed, signal, age, history>>

CheckClock ==
    /\ Running /\ thread = "clock"
    /\ Goto(IF elapsed > Timeout THEN "kill" ELSE "sleep")
    /\ UNCHANGED <<main, shared, local, signal, age, history>>

Kill ==
    /\ Running /\ thread = "kill"
    /\ signal' = TRUE
    /\ Goto("clear")
    /\ UNCHANGED <<main, shared, local, age, history>>

\* The run whose time is up may be over: the next one may be on.
InRun == main \in {"counted", "flagged", "run"}

Clear ==
    /\ Running /\ thread = "clear"
    /\ isActive' = FALSE
    /\ tracking' = FALSE
    /\ Goto("sleep")
    /\ happened' = IF InRun /\ ~signal /\ ~interrupted
                   THEN happened \cup {"cleared"} ELSE happened
    /\ UNCHANGED <<main, armCounter, shouldStop, current, elapsed, signal, age,
                   overran, interrupted>>

-----------------------------------------------------------------------------
Later(n) == IF n < Long THEN n + 1 ELSE n

\* Time passes.
Tick ==
    /\ Running
    /\ elapsed' = IF tracking THEN Later(elapsed) ELSE elapsed
    /\ age' = IF InRun THEN Later(age) ELSE age
    /\ overran' = (overran \/ age' > Timeout)
    /\ slept' = (slept \/ thread = "sleep")
    /\ happened' = IF thread \in {"sleep", "done"} THEN happened
                                                   ELSE happened \cup {"delayed"}
    /\ UNCHANGED <<main, shared, thread, tracking, current, signal, interrupted>>

ThreadStep ==
    \/ Wake \/ PickUp \/ ReadCounter \/ CheckActive \/ CheckCounter
    \/ CheckClock \/ Kill \/ Clear

Next ==
    \/ Arm \/ EndArm \/ Disarm \/ Delete \/ Join \/ Create \/ Handle
    \/ ThreadStep
    \/ Tick

Spec == Init /\ [][Next]_vars

\* The thread runs, time passes, a pending signal is handled, and arm_timer and
\* delete_timer go on.  A run may last forever.
FairSpec ==
    /\ Spec
    /\ WF_vars(ThreadStep)
    /\ WF_vars(Tick)
    /\ WF_vars(Handle)
    /\ WF_vars(EndArm)
    /\ WF_vars(Join)

-----------------------------------------------------------------------------
\* SIGALRM is sent only if some run has lasted longer than the timeout, however the
\* short runs follow each other and whatever of them the thread gets to see: unless
\* it is held up while awake, or sees the two stores of arm_timer in the other order.
AlarmsFollowOverruns ==
    (signal /\ happened \cap {"reordered", "delayed"} = {}) => overran

\* A run that hangs is interrupted, whatever the order and the delays, if the thread
\* has not cleared is_active for an alarm that an earlier run has already taken.
HangIsInterrupted ==
    main = "run" ~> (main # "run" \/ interrupted \/ "cleared" \in happened)

\* delete_timer returns, although it joins a thread that may be about to send its signal.
DeleteReturns == main = "joining" ~> main # "joining"
=============================================================================
