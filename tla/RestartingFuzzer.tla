-------------------------- MODULE RestartingFuzzer --------------------------
(***************************************************************************)
(* One worker running a StdFuzzer in process, under a RestartingRuntime.   *)
(*                                                                         *)
(* The RestartingRuntime forks a child that runs the task: it builds the   *)
(* fuzzer, loads the initial inputs and enters the fuzzing loop, running   *)
(* the target inside its own process.  A crash of the target, or the alarm *)
(* of the timer, reaches the termination handlers of the child, which      *)
(* evaluate the input, save the state in shared memory and exit; the       *)
(* runtime then restores the state and forks the next child.               *)
(*                                                                         *)
(* Signals arrive between any two steps of the child, the steps of a       *)
(* handler included.  Source: crates/libaflmm/src/{runtimes, fuzzers,      *)
(* executors}.                                                             *)
(***************************************************************************)
EXTENDS LoaderMetadata, FiniteSets

CONSTANTS
    NotReturned,     \* no load of this id has returned yet
    Verdicts,        \* Verdicts[k]: what the feedbacks may decide of an exit kind
    HarnessExits,    \* exit kinds the harness may return
    HarnessMayFail,  \* may the harness return an Err?
    HarnessMayExit,  \* may the target call exit?
    CrashStatuses,   \* what Executor::handle_crash may answer
    HasTimeout,      \* has a timeout been set?
    TimeoutStatuses, \* what Executor::handle_timeout may answer
    FuzzerMayFault,  \* may the code around the target fault, or the child be killed?
    SaveMayFail,     \* may the state outgrow the shared memory?
    MaxDepth,        \* termination_handler_max_depth
    MaxExecs         \* bound: no new input enters the fuzzing loop past it

ASSUME FuzzerAssumption ==
    /\ NotReturned \notin Seq(RanInput)
    /\ Verdicts \in [ExitKind -> SUBSET Verdict]
    /\ HarnessExits \subseteq ExitKind
    /\ CrashStatuses \subseteq {"TargetCrash", "FuzzerCrash"}
    /\ TimeoutStatuses \subseteq {"Exit", "Resume"}
    /\ {HarnessMayFail, HarnessMayExit, HasTimeout, FuzzerMayFault, SaveMayFail}
           \subseteq BOOLEAN
    /\ MaxDepth \in Nat
    /\ MaxExecs \in Nat

VARIABLES
    restarter,    \* where the RestartingRuntime is, or how it ended
    saved,        \* its "state" variable: what the next child starts from
    shm,          \* the shared memory of OsShmSender / OsShmReceiver
    pc,           \* where the child is
    exit_code,    \* the exit code of the child
    st,           \* the State of the child
    loading_stage,\* of its fuzzer: which load call comes next
    cur,          \* the input being evaluated
    who,          \* which caller of evaluate_input waits for it
    input_ptr,    \* of TerminationHandlerData
    armed,        \* is the timer running?
    depth,        \* termination_handler_depth
    handler,      \* the termination being handled, and what it interrupted
    triggered,    \* how many signals and panics reached the handlers of this child
    returned,     \* returned[l]: what load l returned to the task of this child
    evaluated     \* evaluated[l]: history of the inputs of load l that got a verdict

childVars  == <<st, loading_stage, cur, who, returned>>
handleVars == <<input_ptr, armed, depth, handler, triggered>>
parentVars == <<restarter, saved>>
vars == <<restarter, saved, shm, pc, exit_code, st, loading_stage, cur, who,
          input_ptr, armed, depth, handler, triggered, returned, evaluated>>

-----------------------------------------------------------------------------
(* The data.                                                               *)

\* The part of StdState a restart must preserve.
State == [md : LoaderMetadataType, execs : Nat, pending : Seq(Inputs),
          corpus : SUBSET Inputs, objectives : SUBSET Inputs]

InitialState == [md |-> EmptyMetadata, execs |-> 0, pending |-> <<>>,
                 corpus |-> {}, objectives |-> {}]

Termination == {"alarm", "crash", "panic"}
NoHandler == [kind |-> "none", status |-> "none", resume |-> "none"]

\* Where the child runs the code of the fuzzer, not of the target.
FuzzerPC == {"boot", "load", "next", "arm", "set_input", "clear", "disarm", "post",
             "fuzz", "pending", "step", "stages"}
HandlerPC == {"dispatch", "objective", "save", "leave"}
PC == FuzzerPC \cup HandlerPC \cup {"none", "target", "unwind", "dead"}

\* Exit codes: 100, 101, 102, any other below 128, 128 + signal, and death by a
\* signal nobody handles.
ExitCode == {"none", "END", "RESTART", "RECURSION", "OTHER", "SIGNAL", "KILLED"}

Restarter == {"forking", "waiting", "ok", "err", "exit", "panic"}
Live == pc \notin {"none", "dead"}

-----------------------------------------------------------------------------
(* The RestartingRuntime.                                                  *)

Init ==
    /\ restarter = "forking" /\ saved = InitialState
    /\ shm = [valid |-> FALSE, state |-> InitialState]
    /\ pc = "none" /\ exit_code = "none"
    /\ st = InitialState /\ loading_stage = 0 /\ cur = NoInput /\ who = "none"
    /\ input_ptr = NoInput /\ armed = FALSE /\ depth = 0 /\ handler = NoHandler
    /\ triggered = 0
    /\ returned = [l \in LoadIds |-> NotReturned]
    /\ evaluated = [l \in LoadIds |-> <<>>]

\* Mutation of Fork: every child starts from the state the runtime was given.
Fork_FromInitialState ==
    /\ restarter = "forking"
    /\ restarter' = "waiting"
    /\ pc' = "boot" /\ exit_code' = "none"
    /\ st' = InitialState /\ loading_stage' = 0 /\ cur' = NoInput /\ who' = "none"
    /\ input_ptr' = NoInput /\ armed' = FALSE /\ depth' = 0 /\ handler' = NoHandler
    /\ triggered' = 0
    /\ returned' = [l \in LoadIds |-> NotReturned]
    /\ UNCHANGED <<saved, shm, evaluated>>

\* fork: the child starts with a copy of the runtime as it was before the
\* first fork, and with the last restored state.
Fork ==
    /\ restarter = "forking"
    /\ restarter' = "waiting"
    /\ pc' = "boot" /\ exit_code' = "none"
    /\ st' = saved /\ loading_stage' = 0 /\ cur' = NoInput /\ who' = "none"
    /\ input_ptr' = NoInput /\ armed' = FALSE /\ depth' = 0 /\ handler' = NoHandler
    /\ triggered' = 0
    /\ returned' = [l \in LoadIds |-> NotReturned]
    /\ UNCHANGED <<saved, shm, evaluated>>

\* waitpid: what the exit code of the child means to the runtime.
Reap ==
    /\ restarter = "waiting" /\ pc = "dead"
    /\ pc' = "none"
    /\ \/ /\ exit_code = "RESTART" /\ shm.valid       \* receive()
          /\ restarter' = "forking" /\ saved' = shm.state
          /\ shm' = [shm EXCEPT !.valid = FALSE]
       \/ /\ ~ (exit_code = "RESTART" /\ shm.valid)
          /\ restarter' = CASE exit_code = "END"       -> "ok"
                            [] exit_code = "RESTART"   -> "err"
                            [] exit_code = "RECURSION" -> "err"
                            [] exit_code = "OTHER"     -> "err"
                            [] exit_code = "SIGNAL"    -> "exit"
                            [] OTHER                   -> "panic"
          /\ UNCHANGED <<saved, shm>>
    /\ UNCHANGED <<exit_code, childVars, handleVars, evaluated>>

-----------------------------------------------------------------------------
(* The task: build the fuzzer, load, fuzz.                                 *)

Exit(code) == pc' = "dead" /\ exit_code' = code

\* set_saver, set_timeout, the handlers, and StdFuzzer::initialize.
Boot ==
    /\ pc = "boot"
    /\ pc' = "load"
    /\ UNCHANGED <<parentVars, shm, exit_code, childVars, handleVars, evaluated>>

\* The entry of load; after the last load the task starts fuzzing.
StartLoad ==
    /\ pc = "load"
    /\ IF loading_stage \in LoadIds
       THEN /\ st' = [st EXCEPT !.md = OpenLoad(st.md, loading_stage)]
            /\ pc' = "next"
       ELSE /\ pc' = "fuzz"
            /\ UNCHANGED st
    /\ UNCHANGED <<parentVars, shm, exit_code, loading_stage, cur, who, returned,
                   handleVars, evaluated>>

\* The loop of load: run the next input, or leave with the results.
NextLoadedInput ==
    /\ pc = "next"
    /\ st.md.loads[loading_stage].inputs_to_run # <<>>
    /\ st' = [st EXCEPT !.md = NextInput(st.md, loading_stage)]
    /\ cur' = Head(st.md.loads[loading_stage].inputs_to_run)
    /\ who' = "next"
    /\ pc' = "arm"
    /\ UNCHANGED <<parentVars, shm, exit_code, loading_stage, returned, handleVars,
                   evaluated>>

\* Mutation of FinishLoad: the fuzzer does not move on to the next load.
FinishLoad_Again ==
    /\ pc = "next"
    /\ st.md.loads[loading_stage].inputs_to_run = <<>>
    /\ st' = [st EXCEPT !.md = TakeRanInputs(NextInput(st.md, loading_stage), loading_stage)]
    /\ returned' = [returned EXCEPT ![loading_stage] =
                        st.md.loads[loading_stage].ran_inputs]
    /\ pc' = "load"
    /\ UNCHANGED <<parentVars, shm, exit_code, loading_stage, cur, who, handleVars,
                   evaluated>>

FinishLoad ==
    /\ pc = "next"
    /\ st.md.loads[loading_stage].inputs_to_run = <<>>
    /\ st' = [st EXCEPT !.md = TakeRanInputs(NextInput(st.md, loading_stage), loading_stage)]
    /\ returned' = [returned EXCEPT ![loading_stage] =
                        st.md.loads[loading_stage].ran_inputs]
    /\ loading_stage' = loading_stage + 1
    /\ pc' = "load"
    /\ UNCHANGED <<parentVars, shm, exit_code, cur, who, handleVars, evaluated>>

\* fuzz_one: the worker may have received testcases of other workers.
Poll ==
    /\ pc = "fuzz"
    /\ \/ UNCHANGED st
       \/ \E input \in Inputs :
            /\ st.execs + Len(st.pending) < MaxExecs
            /\ st' = [st EXCEPT !.pending = Append(@, input)]
    /\ pc' = "pending"
    /\ UNCHANGED <<parentVars, shm, exit_code, loading_stage, cur, who, returned,
                   handleVars, evaluated>>

\* fuzz_one: a shutdown was requested.
Shutdown ==
    /\ pc = "fuzz"
    /\ Exit("END")
    /\ UNCHANGED <<parentVars, shm, childVars, handleVars, evaluated>>

NextPendingTestcase ==
    /\ pc = "pending"
    /\ IF st.pending = <<>>
       THEN /\ pc' = "step"
            /\ UNCHANGED <<st, cur, who>>
       ELSE /\ cur' = Head(st.pending)
            /\ st' = [st EXCEPT !.pending = Tail(@)]
            /\ who' = "pending"
            /\ pc' = "arm"
    /\ UNCHANGED <<parentVars, shm, exit_code, loading_stage, returned, handleVars,
                   evaluated>>

\* The scheduler picks a testcase; an idle fuzz_loop is an error of the task.
Schedule ==
    /\ pc = "step"
    /\ pc' = IF st.corpus = {} THEN "unwind" ELSE "stages"
    /\ UNCHANGED <<parentVars, shm, exit_code, childVars, handleVars, evaluated>>

\* A stage evaluates some mutant of the scheduled testcase.
StageEvaluates ==
    /\ pc = "stages"
    /\ st.execs < MaxExecs
    /\ cur' \in Inputs
    /\ who' = "stages"
    /\ pc' = "arm"
    /\ UNCHANGED <<parentVars, shm, exit_code, st, loading_stage, returned, handleVars,
                   evaluated>>

StagesDone ==
    /\ pc = "stages"
    /\ pc' = "fuzz"
    /\ UNCHANGED <<parentVars, shm, exit_code, childVars, handleVars, evaluated>>

-----------------------------------------------------------------------------
(* Executor::execute and what follows it.                                  *)

\* Mutation of ArmTimeout: the timer is armed for the first execution only.
ArmTimeout_Once ==
    /\ pc = "arm"
    /\ st' = [st EXCEPT !.execs = @ + 1]
    /\ armed' = (HasTimeout /\ st.execs = 0)
    /\ pc' = "set_input"
    /\ UNCHANGED <<parentVars, shm, exit_code, loading_stage, cur, who, returned,
                   input_ptr, depth, handler, triggered, evaluated>>

ArmTimeout ==
    /\ pc = "arm"
    /\ st' = [st EXCEPT !.execs = @ + 1]
    /\ armed' = HasTimeout
    /\ pc' = "set_input"
    /\ UNCHANGED <<parentVars, shm, exit_code, loading_stage, cur, who, returned,
                   input_ptr, depth, handler, triggered, evaluated>>

SetInput ==
    /\ pc = "set_input"
    /\ input_ptr' = cur
    /\ pc' = "target"
    /\ UNCHANGED <<parentVars, shm, exit_code, childVars, armed, depth, handler,
                   triggered, evaluated>>

\* execute_impl returns an exit kind, or an Err that skips the rest of
\* execute and unwinds the task.
TargetReturns ==
    /\ pc = "target"
    /\ \/ pc' = "clear"
       \/ HarnessMayFail /\ pc' = "unwind"
    /\ UNCHANGED <<parentVars, shm, exit_code, childVars, handleVars, evaluated>>

ClearInput ==
    /\ pc = "clear"
    /\ input_ptr' = NoInput
    /\ pc' = "disarm"
    /\ UNCHANGED <<parentVars, shm, exit_code, childVars, armed, depth, handler,
                   triggered, evaluated>>

DisarmTimeout ==
    /\ pc = "disarm"
    /\ armed' = FALSE
    /\ pc' = "post"
    /\ UNCHANGED <<parentVars, shm, exit_code, childVars, input_ptr, depth, handler,
                   triggered, evaluated>>

\* post_execution: the corpora follow the verdict.
AddTestcase(s, input, verdict) ==
    CASE verdict = "Objective" -> [s EXCEPT !.objectives = @ \cup {input}]
      [] verdict = "Corpus"    -> [s EXCEPT !.corpus = @ \cup {input}]
      [] OTHER                 -> s

\* post_execution of the current input, and record_result for the loader.
Evaluate(kind, recorded) ==
    \E verdict \in Verdicts[kind] :
        /\ st' = [AddTestcase(st, cur, verdict) EXCEPT
                    !.md = IF recorded
                           THEN RecordResult(@, [exit_kind |-> kind, verdict |-> verdict])
                           ELSE @]
        /\ evaluated' = IF who = "next"
                        THEN [evaluated EXCEPT ![loading_stage] = Append(@, cur)]
                        ELSE evaluated

\* The caller of evaluate_input gets the result; only load records it.
PostExecution ==
    /\ pc = "post"
    /\ \E kind \in HarnessExits : Evaluate(kind, who = "next")
    /\ pc' = who
    /\ UNCHANGED <<parentVars, shm, exit_code, loading_stage, cur, who, returned,
                   handleVars>>

-----------------------------------------------------------------------------
(* What ends or interrupts the child, and the handlers.                    *)

\* UnixSignalHandler::handle and the panic hook: enter(), and a second
\* enter() in timeout_handler.
Enter(kind) ==
    LET inside == depth + (IF kind = "alarm" THEN 2 ELSE 1) IN
    /\ triggered' = triggered + 1
    /\ IF inside >= MaxDepth
       THEN /\ Exit("RECURSION")
            /\ UNCHANGED <<depth, handler>>
       ELSE /\ pc' = "dispatch"
            /\ depth' = inside
            /\ handler' = [kind |-> kind, status |-> "none", resume |-> pc]
            /\ UNCHANGED exit_code
    /\ UNCHANGED <<parentVars, shm, childVars, input_ptr, evaluated>>

\* The one-shot timer expires, wherever the child is.
Alarm ==
    /\ armed /\ Live
    /\ armed' = FALSE
    /\ Enter("alarm")

TargetCrash ==
    /\ pc = "target"
    /\ Enter("crash")
    /\ UNCHANGED armed

TargetPanic ==
    /\ pc = "target"
    /\ Enter("panic")
    /\ UNCHANGED armed

\* The runtime expects the task not to fail: its panic reaches the hook.
\* The memory input_ptr and state_ptr point to has been freed by then, so
\* the hook may also fault (Fault below).
TaskFails ==
    /\ pc = "unwind"
    /\ Enter("panic")
    /\ UNCHANGED armed

Fault ==
    /\ \/ FuzzerMayFault /\ pc \in FuzzerPC \cup HandlerPC
       \/ HarnessMayFail /\ pc = "objective" /\ handler.resume = "unwind"
    /\ Enter("crash")
    /\ UNCHANGED armed

\* The target calls exit, which no handler sees.  From 128 on the runtime takes
\* the code for one of a signal; with one of its own it would be misled.
TargetExits ==
    /\ HarnessMayExit /\ pc = "target"
    /\ \E code \in {"OTHER", "SIGNAL"} : Exit(code)
    /\ UNCHANGED <<parentVars, shm, childVars, handleVars, evaluated>>

\* SIGKILL, or a signal without a handler.
Killed ==
    /\ FuzzerMayFault /\ Live
    /\ Exit("KILLED")
    /\ UNCHANGED <<parentVars, shm, childVars, handleVars, evaluated>>

\* Out of fuzzing the signal is a fuzzer bug; in fuzzing, std_on_crash and
\* std_on_timeout take the input and ask the executor.
Dispatch ==
    /\ pc = "dispatch"
    /\ IF input_ptr = NoInput
       THEN /\ Exit("SIGNAL")
            /\ UNCHANGED <<input_ptr, handler>>
       ELSE /\ input_ptr' = NoInput
            /\ \E status \in (IF handler.kind = "alarm" THEN TimeoutStatuses
                                                      ELSE CrashStatuses) :
                 /\ handler' = [handler EXCEPT !.status = status]
                 /\ pc' = IF status = "FuzzerCrash" THEN "save" ELSE "objective"
            /\ UNCHANGED exit_code
    /\ UNCHANGED <<parentVars, shm, childVars, armed, depth, triggered, evaluated>>

\* Mutation of HandleObjective: the result does not reach the loader.
HandleObjective_Unrecorded ==
    /\ pc = "objective"
    /\ \E verdict \in Verdicts[IF handler.kind = "alarm" THEN "Timeout" ELSE "Crash"] :
         st' = AddTestcase(st, cur, verdict)
    /\ pc' = "save"
    /\ UNCHANGED <<parentVars, shm, exit_code, loading_stage, cur, who, returned,
                   handleVars, evaluated>>

\* handle_objective_in_termination_handler: the result is for the loader,
\* which has a running input if it was the one to evaluate it.
HandleObjective ==
    /\ pc = "objective"
    /\ Evaluate(IF handler.kind = "alarm" THEN "Timeout" ELSE "Crash", TRUE)
    /\ pc' = "save"
    /\ UNCHANGED <<parentVars, shm, exit_code, loading_stage, cur, who, returned,
                   handleVars>>

\* Mutation of SaveState: a timeout does not save the state.
SaveState_OnlyCrash ==
    /\ pc = "save"
    /\ shm' = IF handler.kind = "alarm" THEN shm ELSE [valid |-> TRUE, state |-> st]
    /\ pc' = "leave"
    /\ UNCHANGED <<parentVars, exit_code, childVars, handleVars, evaluated>>

\* std_inprocess_crash and std_inprocess_timeout: send the state.
SaveState ==
    /\ pc = "save"
    /\ shm' = [valid |-> TRUE, state |-> st]
    /\ pc' = "leave"
    /\ UNCHANGED <<parentVars, exit_code, childVars, handleVars, evaluated>>

\* A state that does not fit is a panic inside the handler: the hook enters
\* once more, out of fuzzing.  What send left in the shared memory is not
\* looked at again, as the child does not exit with RESTART.
SaveFails ==
    /\ SaveMayFail
    /\ pc = "save"
    /\ triggered' = triggered + 1
    /\ Exit(IF depth + 1 >= MaxDepth THEN "RECURSION" ELSE "SIGNAL")
    /\ UNCHANGED <<parentVars, shm, childVars, input_ptr, armed, depth, handler,
                   evaluated>>

\* Mutation of Leave: timeout_handler leaves once, having entered twice.
Leave_OneExit ==
    /\ pc = "leave"
    /\ IF handler.status = "Resume"
       THEN /\ pc' = handler.resume
            /\ depth' = depth - 1
            /\ handler' = NoHandler
            /\ UNCHANGED exit_code
       ELSE /\ Exit(IF handler.status = "FuzzerCrash" /\ handler.kind = "crash"
                    THEN "SIGNAL" ELSE "RESTART")
            /\ UNCHANGED <<depth, handler>>
    /\ UNCHANGED <<parentVars, shm, childVars, input_ptr, armed, triggered, evaluated>>

\* Mutation of Leave: no crash signal leads to a restart.
Leave_CrashEnds ==
    /\ pc = "leave"
    /\ Exit(IF handler.kind = "crash" THEN "SIGNAL" ELSE "RESTART")
    /\ UNCHANGED <<parentVars, shm, childVars, input_ptr, armed, depth, handler,
                   triggered, evaluated>>

\* The end of a handler: exit, or go back to what the alarm interrupted.
Leave ==
    /\ pc = "leave"
    /\ IF handler.status = "Resume"
       THEN /\ pc' = handler.resume
            /\ depth' = depth - 2
            /\ handler' = NoHandler
            /\ UNCHANGED exit_code
       ELSE /\ Exit(IF handler.status = "FuzzerCrash" /\ handler.kind = "crash"
                    THEN "SIGNAL" ELSE "RESTART")
            /\ UNCHANGED <<depth, handler>>
    /\ UNCHANGED <<parentVars, shm, childVars, input_ptr, armed, triggered, evaluated>>

-----------------------------------------------------------------------------
Task ==
    \/ Boot \/ StartLoad \/ NextLoadedInput \/ FinishLoad
    \/ Poll \/ Shutdown \/ NextPendingTestcase \/ Schedule \/ StageEvaluates \/ StagesDone

Execution ==
    ArmTimeout \/ SetInput \/ TargetReturns \/ ClearInput \/ DisarmTimeout \/ PostExecution

Signals ==
    Alarm \/ TargetCrash \/ TargetPanic \/ TaskFails \/ Fault \/ TargetExits \/ Killed

Handlers == Dispatch \/ HandleObjective \/ SaveState \/ SaveFails \/ Leave

\* The runtime has ended: nothing happens any more.
Ended ==
    /\ restarter \in {"ok", "err", "exit", "panic"}
    /\ UNCHANGED vars

Next == Fork \/ Reap \/ Task \/ Execution \/ Signals \/ Handlers \/ Ended

\* The processes are scheduled and the code of the fuzzer does not block; a
\* target may hang, but then its alarm comes.
Fairness ==
    /\ WF_vars(Fork \/ Reap)
    /\ WF_vars(Boot \/ StartLoad \/ NextLoadedInput \/ FinishLoad)
    /\ WF_vars(ArmTimeout \/ SetInput \/ ClearInput \/ DisarmTimeout \/ PostExecution)
    /\ WF_vars(TaskFails \/ Dispatch \/ HandleObjective \/ SaveState \/ SaveFails \/ Leave)
    /\ WF_vars(pc = "target" /\ Alarm)

Spec == Init /\ [][Next]_vars
FairSpec == Spec /\ Fairness
-----------------------------------------------------------------------------
(* Properties.                                                             *)

TypeOK ==
    /\ restarter \in Restarter
    /\ saved \in State
    /\ shm \in [valid : BOOLEAN, state : State]
    /\ pc \in PC
    /\ exit_code \in ExitCode
    /\ st \in State
    /\ loading_stage \in Nat
    /\ cur \in Inputs \cup {NoInput}
    /\ who \in {"none", "next", "pending", "stages"}
    /\ input_ptr \in Inputs \cup {NoInput}
    /\ armed \in BOOLEAN
    /\ depth \in Nat
    /\ handler \in [kind : Termination \cup {"none"},
                    status : {"none", "Resume", "Exit"} \cup CrashStatuses,
                    resume : PC]
    /\ triggered \in Nat
    /\ returned \in [LoadIds -> Seq(RanInput) \cup {NotReturned}]
    /\ evaluated \in [LoadIds -> Seq(Inputs)]

\* In the child, in the shared memory and in the restarter, no input of a
\* load is lost, repeated or out of order, wherever the crashes fall.
LoadAccounted ==
    /\ Accounted(st.md)
    /\ Accounted(saved.md)
    /\ shm.valid => Accounted(shm.state.md)

\* load returns the results of all its inputs, or none at all.
LoadReturnsAllOrNothing ==
    \A l \in LoadIds : returned[l] # NotReturned =>
        InputsOf(returned[l]) \in {LoadInputs[l], <<>>}

\* A child that asks to be restarted has left its very last state for the
\* next one (restarting.rs:117: "shm must be loaded with state").
RestartHasSavedState ==
    (pc = "dead" /\ exit_code = "RESTART") => (shm.valid /\ shm.state = st)

\* Counters, corpora and the loads that were opened only grow.
FindingsGrow ==
    /\ st'.execs >= st.execs
    /\ st.corpus \subseteq st'.corpus
    /\ st.objectives \subseteq st'.objectives
    /\ \A l \in LoadIds : st.md.loads[l].opened => st'.md.loads[l].opened

\* From a child to the next, nothing that was found or counted is undone.
NothingIsUndone == [][FindingsGrow]_st

\* Whenever the code of the fuzzer runs, every handler that was entered has
\* been left as often: the depth limit is only about nested terminations.
DepthIsBalanced == pc \in FuzzerPC \cup {"target", "unwind"} => depth = 0

\* The first termination of a child, if it interrupts the target, never costs
\* the worker, whether a crash, a panic or the alarm: the child asks to be
\* restarted, unless it is killed.
TargetCrashRestarts ==
    (pc = "dead" /\ handler.resume = "target" /\ triggered = 1 /\ exit_code # "KILLED")
        => exit_code = "RESTART"

\* The loads are what LoadSpec promises: in a state that is being carried
\* over to the next child, the carried state counts.
Current == IF restarter = "forking" THEN saved ELSE st

Abstract == INSTANCE LoadSpec WITH
    left <- [l \in LoadIds |->
               IF Current.md.loads[l].opened
               THEN RunningOf(Current.md, l) \o Current.md.loads[l].inputs_to_run
               ELSE LoadInputs[l]],
    done <- evaluated,
    given_up <- \/ restarter \in {"ok", "err", "exit", "panic"}
                \/ pc = "dead" /\ exit_code # "RESTART"

ImplementsLoadSpec == Abstract!Spec

\* However the target behaves, a new child gets to the fuzzing loop, maybe
\* after further restarts, unless the worker ends.
ReachesFuzzing ==
    restarter = "forking" ~> (pc = "fuzz" \/ restarter \in {"ok", "err", "exit", "panic"})

\* A target that hangs is stopped: every execution runs under an alarm.
HungTargetIsStopped == pc = "target" ~> pc # "target"
-----------------------------------------------------------------------------
(* What the documentation says, and the code does not do.                  *)

\* fuzzers/mod.rs:123: load "Returns every loaded input, and their
\* evaluation result."
LoadReturnsEveryInput ==
    \A l \in LoadIds : returned[l] # NotReturned => InputsOf(returned[l]) = LoadInputs[l]
=============================================================================
