-------------------------- MODULE FastTimer_proofs --------------------------
(***************************************************************************)
(* For every timeout, and any number of runs: as long as the stores of     *)
(* arm_timer are seen in order and no time passes while the timer thread   *)
(* is awake, SIGALRM is sent only after a run has overrun.                 *)
(* Whatever the order and the delays, a run is never left with nothing     *)
(* that could interrupt it.                                                *)
(*                                                                         *)
(* The argument: while the thread tracks the run that goes on, its clock   *)
(* is not ahead of the run's age; is_active is set only during a run; and  *)
(* the counter never comes back to a value the thread has read.            *)
(***************************************************************************)
EXTENDS FastTimer, TLAPS

\* is_active is set only while the main thread is in a run.
ActiveInRun == isActive => main \in {"run", "gone"}

\* The thread has read the counter of this run or of an earlier one.
CounterIsBehind == current <= armCounter

\* The clock of the thread is not ahead of the run it tracks, if that run goes on.
ClockIsBehind ==
    (tracking /\ thread # "count" /\ current = armCounter /\ main \in {"counted", "run"})
    => elapsed <= age

\* What the thread has found out when it compares the counters, reads the clock, and
\* sends the signal.
Justified == elapsed <= Timeout \/ overran

ThreadKnows ==
    /\ thread \in {"count", "check", "sync", "clock", "kill"} => tracking
    /\ thread = "sync" /\ current = armCounter => Justified
    /\ thread = "clock" => Justified
    /\ thread = "kill" => overran

\* The invariant by which AlarmsFollowOverruns is inductive, beside the ranges of the
\* numbers.
Sources ==
    /\ main # "flagged"
    /\ age > Timeout => overran
    /\ ActiveInRun
    /\ CounterIsBehind
    /\ ClockIsBehind
    /\ ThreadKnows
    /\ signal => overran

\* The condition of AlarmsFollowOverruns.
Orderly == happened \cap {"reordered", "delayed"} = {}

\* The two halves of TypeOK, which different provers are good at; arm_timer is in
\* between its stores only while it has a run to count.
Numbers ==
    /\ armCounter \in 0..MaxRuns
    /\ main = "flagged" => armCounter < MaxRuns
    /\ current \in 0..MaxRuns
    /\ elapsed \in 0..Long
    /\ age \in 0..Long

Flags ==
    /\ main \in {"idle", "counted", "flagged", "run", "joining", "deleted", "gone"}
    /\ thread \in {"sleep", "awake", "count", "check", "sync", "clock", "kill", "clear", "done"}
    /\ isActive \in BOOLEAN
    /\ shouldStop \in BOOLEAN
    /\ tracking \in BOOLEAN
    /\ slept \in BOOLEAN
    /\ signal \in BOOLEAN
    /\ overran \in BOOLEAN
    /\ interrupted \in BOOLEAN
    /\ happened \subseteq {"reordered", "delayed", "cleared"}

\* Every step keeps the ranges of the numbers.
LEMMA NumbersKept == Numbers /\ [Next]_vars => Numbers'
<1> SUFFICES ASSUME Numbers, [Next]_vars PROVE Numbers'
  OBVIOUS
<1> USE TimerAssumption DEF Numbers, shared, local, history, Long
<1>1. CASE Arm \/ EndArm
  BY <1>1 DEF Arm, EndArm
<1>2. CASE Disarm \/ Delete \/ Join \/ Create \/ Handle
  BY <1>2 DEF Disarm, Delete, Join, Create, Handle
<1>3. CASE ThreadStep
  <2>1. CASE ReadCounter
    BY <2>1 DEF ReadCounter
  <2>2. CASE Wake \/ PickUp \/ CheckActive \/ CheckCounter \/ CheckClock \/ Kill \/ Clear
    BY <2>2 DEF Wake, PickUp, CheckActive, CheckCounter, CheckClock, Kill, Clear
  <2>3. QED
    BY <1>3, <2>1, <2>2 DEF ThreadStep
<1>4. CASE Tick
  BY <1>4 DEF Tick, Later
<1>5. CASE UNCHANGED vars
  BY <1>5 DEF vars
<1>6. QED
  BY <1>1, <1>2, <1>3, <1>4, <1>5 DEF Next

\* Every step keeps the flags and the places of the two threads.
LEMMA FlagsKept == Flags /\ [Next]_vars => Flags'
<1> SUFFICES ASSUME Flags, [Next]_vars PROVE Flags'
  OBVIOUS
<1> USE DEF Flags, shared, local, history
<1>1. CASE Arm \/ EndArm
  <2>1. happened' \subseteq {"reordered", "delayed", "cleared"}
    BY <1>1 DEF Arm, EndArm
  <2>2. CASE Arm
    BY <2>1, <2>2, ZenonT(60) DEF Arm
  <2>3. CASE EndArm
    BY <2>1, <2>3, ZenonT(60) DEF EndArm
  <2>. QED
    BY <1>1, <2>2, <2>3
<1>2. CASE Disarm \/ Delete
  <2>1. CASE Disarm
    BY <2>1, ZenonT(60) DEF Disarm
  <2>2. CASE Delete
    BY <2>2, ZenonT(60) DEF Delete
  <2>. QED
    BY <1>2, <2>1, <2>2
<1>3. CASE Join \/ Create \/ Handle
  <2>1. CASE Handle
    <3>1. /\ main' \in {"idle", "counted", "flagged", "run", "joining", "deleted", "gone"}
          /\ signal' = FALSE /\ interrupted' = TRUE
          /\ UNCHANGED <<thread, isActive, shouldStop, tracking, slept, overran, happened>>
      BY <2>1 DEF Handle
    <3>. QED
      BY <3>1, Zenon
  <2>2. CASE Join \/ Create
    BY <2>2, ZenonT(60) DEF Join, Create
  <2>. QED
    BY <1>3, <2>1, <2>2
<1>4. CASE Wake \/ PickUp
  <2>1. CASE Wake
    BY <2>1, ZenonT(60) DEF Wake, Goto
  <2>2. CASE PickUp
    BY <2>2, ZenonT(60) DEF PickUp, Goto
  <2>. QED
    BY <1>4, <2>1, <2>2
<1>5. CASE ReadCounter \/ CheckActive
  <2>1. CASE ReadCounter
    BY <2>1, ZenonT(60) DEF ReadCounter, Goto
  <2>2. CASE CheckActive
    BY <2>2, ZenonT(60) DEF CheckActive, Goto
  <2>. QED
    BY <1>5, <2>1, <2>2
<1>6. CASE CheckCounter \/ CheckClock
  <2>1. CASE CheckCounter
    BY <2>1, ZenonT(60) DEF CheckCounter, Goto
  <2>2. CASE CheckClock
    BY <2>2, ZenonT(60) DEF CheckClock, Goto
  <2>. QED
    BY <1>6, <2>1, <2>2
<1>7. CASE Kill \/ Clear
  <2>1. happened' \subseteq {"reordered", "delayed", "cleared"}
    BY <1>7 DEF Kill, Clear
  <2>. QED
    BY <1>7, <2>1, ZenonT(60) DEF Kill, Clear, Goto
<1>8. CASE Tick
  <2>1. happened' \subseteq {"reordered", "delayed", "cleared"}
    BY <1>8 DEF Tick
  <2>. QED
    BY <1>8, <2>1, ZenonT(60) DEF Tick
<1>9. CASE UNCHANGED vars
  BY <1>9 DEF vars
<1>10. QED
  BY <1>1, <1>2, <1>3, <1>4, <1>5, <1>6, <1>7, <1>8, <1>9 DEF Next, ThreadStep

\* The halves make up TypeOK.
LEMMA Halves == Numbers /\ Flags => TypeOK
  BY DEF TypeOK, Numbers, Flags

\* The types are kept by every step, in whatever order the stores are seen.
THEOREM TimerTypeCorrect == Spec => []TypeOK
<1>1. Init => Numbers
  BY TimerAssumption DEF Init, Numbers, Long
<1>2. Init => Flags
  BY Zenon DEF Init, Flags
<1>3. QED
  BY <1>1, <1>2, NumbersKept, FlagsKept, Halves, PTL DEF Spec

\* The steps of the main thread keep the invariant.
LEMMA MainStepKeeps ==
    ASSUME Orderly', Numbers, Sources,
           Arm \/ EndArm \/ Disarm \/ Delete \/ Join \/ Create \/ Handle
    PROVE  Sources'
<1> USE TimerAssumption
        DEF Numbers, Sources, ActiveInRun, CounterIsBehind, ClockIsBehind, ThreadKnows,
            Justified, shared, local, history, Long
<1>1. CASE Arm
  <2>1. main' # "flagged"
    BY <1>1 DEF Arm, Orderly
  <2>. QED
    BY <1>1, <2>1 DEF Arm
<1>2. CASE EndArm
  BY <1>2 DEF EndArm
<1>3. CASE Disarm
  BY <1>3 DEF Disarm
<1>4. CASE Delete \/ Join
  BY <1>4 DEF Delete, Join
<1>5. CASE Create
  BY <1>5 DEF Create
<1>6. CASE Handle
  BY <1>6 DEF Handle
<1>7. QED
  BY <1>1, <1>2, <1>3, <1>4, <1>5, <1>6

\* So do the steps of the timer thread.
LEMMA ThreadStepKeeps ==
    ASSUME Numbers, Sources, ThreadStep
    PROVE  Sources'
<1> USE TimerAssumption
        DEF Numbers, Sources, ActiveInRun, CounterIsBehind, ClockIsBehind, ThreadKnows,
            Justified, shared, local, history, Long, Goto, Running
<1>1. CASE Wake
  BY <1>1 DEF Wake
<1>2. CASE PickUp
  BY <1>2 DEF PickUp
<1>3. CASE ReadCounter
  <2>1. /\ current' = armCounter' /\ elapsed' = 0 /\ thread' = "check"
        /\ UNCHANGED <<main, tracking, age, overran, signal, isActive, armCounter>>
        /\ tracking
    BY <1>3 DEF ReadCounter
  <2>2. QED
    BY <2>1
<1>4. CASE CheckActive
  <2>1. /\ isActive => main = "run"
        /\ thread' = IF isActive THEN "sync" ELSE "sleep"
        /\ tracking' = isActive
        /\ tracking /\ thread = "check"
        /\ UNCHANGED <<main, age, overran, signal, isActive, armCounter, current, elapsed>>
    BY <1>4 DEF CheckActive
  <2>2. CASE isActive
    <3>1. main = "run" /\ thread' = "sync" /\ (current = armCounter => Justified)
      BY <2>1, <2>2
    <3>2. QED
      BY <2>1, <2>2, <3>1
  <2>3. CASE ~isActive
    <3>1. thread' = "sleep" /\ ~tracking'
      BY <2>1, <2>3, Zenon
    <3>2. QED
      BY <2>1, <2>3, <3>1
  <2>4. QED
    BY <2>2, <2>3
<1>5. CASE CheckCounter
  BY <1>5 DEF CheckCounter
<1>6. CASE CheckClock
  BY <1>6 DEF CheckClock
<1>7. CASE Kill
  BY <1>7 DEF Kill
<1>8. CASE Clear
  BY <1>8 DEF Clear
<1>9. QED
  BY <1>1, <1>2, <1>3, <1>4, <1>5, <1>6, <1>7, <1>8 DEF ThreadStep

\* And so does time, which only passes while the thread sleeps.
LEMMA TickKeeps ==
    ASSUME Orderly', Numbers, Sources, Tick
    PROVE  Sources'
<1> USE TimerAssumption
        DEF Numbers, Sources, ActiveInRun, CounterIsBehind, ClockIsBehind, ThreadKnows,
            Justified, shared, local, history, Long, Tick, InRun
<1>1. /\ main' = main /\ thread' = thread /\ tracking' = tracking /\ signal' = signal
      /\ isActive' = isActive /\ current' = current /\ armCounter' = armCounter
      /\ thread \in {"sleep", "done"}
  BY DEF Orderly
<1>2. overran => overran'
  OBVIOUS
<1>3. age' > Timeout => overran'
  OBVIOUS
<1>4. ClockIsBehind'
  BY <1>1 DEF Later
<1>5. QED
  BY <1>1, <1>2, <1>3, <1>4

\* What has happened stays in the history.
LEMMA OrderlyBefore == Orderly' /\ [Next]_vars => Orderly
<1> SUFFICES ASSUME [Next]_vars PROVE happened \subseteq happened'
  BY DEF Orderly
<1> USE DEF history
<1>1. CASE Arm \/ EndArm \/ Disarm \/ Delete \/ Join \/ Create \/ Handle
  BY <1>1 DEF Arm, EndArm, Disarm, Delete, Join, Create, Handle
<1>2. CASE ThreadStep
  BY <1>2 DEF ThreadStep, Wake, PickUp, ReadCounter, CheckActive, CheckCounter,
              CheckClock, Kill, Clear
<1>3. CASE Tick \/ UNCHANGED vars
  BY <1>3 DEF Tick, vars
<1>4. QED
  BY <1>1, <1>2, <1>3 DEF Next

\* No alarm without a run that has overrun, as long as stores are seen in order and
\* the thread is not held up between its checks: the counter tells one run from the next.
THEOREM NoAlarmWithoutOverrun == Spec => []AlarmsFollowOverruns
<1> DEFINE Inv == Orderly => Sources
<1>1. Init => Inv
  BY TimerAssumption
     DEF Init, Sources, ActiveInRun, CounterIsBehind, ClockIsBehind, ThreadKnows,
         Justified, Long
<1>2. Numbers /\ Inv /\ [Next]_vars => Inv'
  <2> SUFFICES ASSUME Numbers, Sources, Orderly', [Next]_vars PROVE Sources'
    BY OrderlyBefore
  <2>1. CASE UNCHANGED vars
    BY <2>1 DEF vars, shared, local, history, Sources, ActiveInRun, CounterIsBehind,
                ClockIsBehind, ThreadKnows, Justified
  <2>2. QED
    BY <2>1, MainStepKeeps, ThreadStepKeeps, TickKeeps DEF Next
<1>3. Inv => AlarmsFollowOverruns
  BY DEF Sources, AlarmsFollowOverruns, Orderly
<1>4. Init => Numbers
  BY TimerAssumption DEF Init, Numbers, Long
<1>5. QED
  BY <1>1, <1>2, <1>3, <1>4, NumbersKept, PTL DEF Spec

-----------------------------------------------------------------------------
\* What the interruption of a hang rests on.

\* A run that hangs is watched: the timer thread, which stops only for delete_timer,
\* still sees is_active, or its signal is already there, unless it has cleared
\* is_active for an alarm that an earlier run has taken.
RunIsWatched ==
    main = "run" =>
        /\ thread # "done" /\ ~shouldStop
        /\ isActive \/ signal \/ interrupted \/ "cleared" \in happened

\* A timer has one thread: delete_timer has asked it to stop as long as it waits for
\* it, and create_timer starts the next one when it is done.
OneThread ==
    /\ main = "joining" => shouldStop
    /\ main = "deleted" => thread = "done"

\* RunIsWatched already holds between the two stores that the thread sees out of order,
\* and the thread is asked to stop by nobody else.
Watched ==
    /\ main \in {"flagged", "run"} => isActive \/ signal \/ interrupted \/ "cleared" \in happened
    /\ thread = "done" \/ shouldStop => main \in {"joining", "deleted", "gone"}
    /\ OneThread

LEMMA WatchedStep == Watched /\ [Next]_vars => Watched'
<1> SUFFICES ASSUME Watched, [Next]_vars PROVE Watched'
  OBVIOUS
<1> USE DEF Watched, OneThread, shared, local, history
<1>1. CASE Arm \/ EndArm \/ Disarm
  BY <1>1 DEF Arm, EndArm, Disarm
<1>2. CASE Delete \/ Join \/ Create \/ Handle
  BY <1>2 DEF Delete, Join, Create, Handle
<1>3. CASE Wake \/ PickUp
  BY <1>3 DEF Wake, PickUp, Goto, Running
<1>4. CASE ReadCounter \/ CheckActive \/ CheckCounter \/ CheckClock \/ Kill
  BY <1>4 DEF ReadCounter, CheckActive, CheckCounter, CheckClock, Kill, Goto
<1>5. CASE Clear
  BY <1>5 DEF Clear, Goto, InRun
<1>6. CASE Tick
  BY <1>6 DEF Tick
<1>7. CASE UNCHANGED vars
  BY <1>7 DEF vars
<1>8. QED
  BY <1>1, <1>2, <1>3, <1>4, <1>5, <1>6, <1>7 DEF Next, ThreadStep

\* Whatever the order of the stores, the delays and the alarms of earlier runs, no run
\* goes on with nobody to interrupt it: what HangIsInterrupted needs of every state.
THEOREM NoRunIsUnwatched == Spec => []RunIsWatched
<1>1. Init => Watched
  BY DEF Init, Watched, OneThread
<1>2. Watched => RunIsWatched
  BY DEF Watched, RunIsWatched
<1>3. QED
  BY <1>1, <1>2, WatchedStep, PTL DEF Spec

\* Two timer threads never poll for one main thread, and none is joined that has not
\* been asked to stop.
THEOREM ThreadsDoNotOverlap == Spec => []OneThread
<1>1. Init => Watched
  BY DEF Init, Watched, OneThread
<1>2. Watched => OneThread
  BY DEF Watched
<1>3. QED
  BY <1>1, <1>2, WatchedStep, PTL DEF Spec
=============================================================================
