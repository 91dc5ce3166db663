----------------------- MODULE RestartingFuzzer_proofs -----------------------
(***************************************************************************)
(* What RestartingFuzzer guarantees for every number of loads, every input,*)
(* every choice of feedbacks, executors and limits.                        *)
(***************************************************************************)
EXTENDS RestartingFuzzer, LoaderMetadata_proofs

\* Where the child evaluates an input.
ExecPC == {"arm", "set_input", "target", "clear", "disarm", "post"}

\* Where input_ptr may be set in a child that runs.
InFuzzingPC == {"target", "clear", "unwind", "dispatch"}

\* Someone waits for the result of cur.
Engaged ==
    /\ cur \in Inputs
    /\ who \in {"next", "pending", "stages"}
    /\ who = "next" => loading_stage \in LoadIds

\* What pc says of the rest of the child.
Control ==
    /\ pc \in ExecPC => Engaged
    /\ pc = "next" => loading_stage \in LoadIds
    /\ pc = "objective" => handler.status # "none"
    /\ input_ptr # NoInput => Engaged /\ pc \in InFuzzingPC \cup {"dead", "none"}
    /\ (pc = "dispatch" /\ input_ptr # NoInput) => handler.resume \in InFuzzingPC
    /\ handler.status # "none" =>
          Engaged /\ pc \in {"objective", "save", "leave", "dead", "none"}
    /\ handler.status = "Resume" => handler.kind = "alarm" /\ handler.resume \in InFuzzingPC
    /\ handler.kind = "alarm" => depth >= 2

TypeInv == TypeOK /\ Control

\* The state a worker starts with is well typed.
LEMMA InitialStateType == InitialState \in State
<1>1. <<>> \in Seq(Inputs)
  BY EmptySeq
<1>. QED
  BY <1>1, EmptyMetadataType DEF InitialState, State

\* The initial states.
LEMMA TypeInvInit == Init => TypeInv
<1>. SUFFICES ASSUME Init PROVE TypeInv
  OBVIOUS
<1>1. <<>> \in Seq(Inputs)
  BY EmptySeq
<1>2. TypeOK
  BY <1>1, InitialStateType, FuzzerAssumption
  DEF Init, TypeOK, Restarter, PC, ExitCode, NoHandler, Termination, FuzzerPC, HandlerPC
<1>3. Control
  BY DEF Init, Control, NoHandler, ExecPC
<1>. QED
  BY <1>2, <1>3 DEF TypeInv

\* An evaluation keeps the state well typed.
LEMMA EvaluateType ==
  ASSUME TypeInv, Engaged, NEW kind \in ExitKind, NEW recorded \in BOOLEAN,
         Evaluate(kind, recorded)
  PROVE  st' \in State /\ evaluated' \in [LoadIds -> Seq(Inputs)]
<1>1. PICK verdict \in Verdicts[kind] :
         st' = [AddTestcase(st, cur, verdict) EXCEPT
                    !.md = IF recorded
                           THEN RecordResult(@, [exit_kind |-> kind, verdict |-> verdict])
                           ELSE @]
  BY DEF Evaluate
<1>2. [exit_kind |-> kind, verdict |-> verdict] \in EvaluationResult
  BY FuzzerAssumption DEF EvaluationResult
<1>3. AddTestcase(st, cur, verdict) \in State
  BY ZenonT(60) DEF TypeInv, TypeOK, AddTestcase, State, Engaged
<1>4. st' \in State
  <2>1. AddTestcase(st, cur, verdict).md \in LoaderMetadataType
    BY <1>3 DEF State
  <2>2. RecordResult(AddTestcase(st, cur, verdict).md, [exit_kind |-> kind, verdict |-> verdict])
           \in LoaderMetadataType
    BY <1>2, <2>1, RecordResultType
  <2>. QED
    BY <1>1, <1>3, <2>1, <2>2 DEF State
<1>5. evaluated' \in [LoadIds -> Seq(Inputs)]
  <2>1. CASE who = "next"
    <3>1. loading_stage \in LoadIds /\ evaluated \in [LoadIds -> Seq(Inputs)] /\ cur \in Inputs
      BY <2>1 DEF Engaged, TypeInv, TypeOK
    <3>2. Append(evaluated[loading_stage], cur) \in Seq(Inputs)
      BY <3>1, AppendProperties
    <3>3. evaluated' = [evaluated EXCEPT ![loading_stage] = Append(@, cur)]
      BY <2>1 DEF Evaluate
    <3>. QED
      BY <3>1, <3>2, <3>3
  <2>2. CASE who # "next"
    BY <2>2 DEF Evaluate, TypeInv, TypeOK
  <2>. QED
    BY <2>1, <2>2
<1>. QED
  BY <1>4, <1>5

\* Every step of the runtime, of the child and of its handlers.
LEMMA TypeInvStep == TypeInv /\ [Next]_vars => TypeInv'
<1>. SUFFICES ASSUME TypeInv, [Next]_vars PROVE TypeInv'
  OBVIOUS
<1>. USE DEF TypeInv, childVars, handleVars, parentVars
<1>1. CASE Fork
  <2>1. TypeOK'
    BY <1>1 DEF Fork, TypeOK, Restarter, PC, FuzzerPC, ExitCode, NoHandler, Termination
  <2>2. Control'
    BY <1>1 DEF Fork, Control, NoHandler, ExecPC
  <2>. QED
    BY <2>1, <2>2
<1>2. CASE Reap
  <2>1. TypeOK'
    <3>1. restarter' \in Restarter /\ pc' \in PC
      BY <1>2 DEF Reap, Restarter, PC
    <3>2. saved' \in State /\ shm' \in [valid : BOOLEAN, state : State]
      <4>1. saved \in State /\ shm \in [valid : BOOLEAN, state : State]
        BY DEF TypeOK
      <4>2. CASE saved' = shm.state /\ shm' = [shm EXCEPT !.valid = FALSE]
        BY <4>1, <4>2
      <4>3. CASE UNCHANGED <<saved, shm>>
        BY <4>1, <4>3
      <4>. QED
        BY <1>2, <4>2, <4>3 DEF Reap
    <3>3. UNCHANGED <<exit_code, childVars, handleVars, evaluated>>
      BY <1>2 DEF Reap
    <3>. QED
      BY <3>1, <3>2, <3>3 DEF TypeOK
  <2>2. Control'
    BY <1>2 DEF Reap, Control, Engaged, ExecPC
  <2>. QED
    BY <2>1, <2>2
<1>3. CASE Boot
  <2>1. TypeOK'
    BY <1>3 DEF Boot, TypeOK, PC, FuzzerPC
  <2>2. Control'
    BY <1>3 DEF Boot, Control, Engaged, ExecPC, InFuzzingPC
  <2>. QED
    BY <2>1, <2>2
<1>4. CASE StartLoad
  <2>1. loading_stage \in LoadIds => [st EXCEPT !.md = OpenLoad(st.md, loading_stage)] \in State
    BY OpenLoadType DEF TypeOK, State
  <2>2. st' \in State /\ pc' \in PC
    BY <1>4, <2>1 DEF StartLoad, TypeOK, PC, FuzzerPC
  <2>3. TypeOK'
    BY <1>4, <2>2 DEF StartLoad, TypeOK
  <2>4. Control'
    BY <1>4 DEF StartLoad, Control, Engaged, ExecPC, InFuzzingPC
  <2>. QED
    BY <2>3, <2>4
<1>5. CASE NextLoadedInput
  <2>1. loading_stage \in LoadIds
    BY <1>5 DEF NextLoadedInput, Control
  <2>2. st.md \in LoaderMetadataType /\ st.md.loads[loading_stage].inputs_to_run \in Seq(Inputs)
    BY <2>1 DEF TypeOK, State, LoaderMetadataType, Loading
  <2>3. [st EXCEPT !.md = NextInput(st.md, loading_stage)] \in State
    BY <2>1, <2>2, NextInputType DEF TypeOK, State
  <2>4. cur' \in Inputs
    BY <1>5, <2>2, HeadTailProperties DEF NextLoadedInput
  <2>5. TypeOK'
    BY <1>5, <2>3, <2>4 DEF NextLoadedInput, TypeOK, PC, FuzzerPC
  <2>6. Control'
    BY <1>5, <2>1, <2>4 DEF NextLoadedInput, Control, Engaged, ExecPC, InFuzzingPC
  <2>. QED
    BY <2>5, <2>6
<1>6. CASE FinishLoad
  <2>1. loading_stage \in LoadIds
    BY <1>6 DEF FinishLoad, Control
  <2>2. st.md \in LoaderMetadataType /\ st.md.loads[loading_stage].ran_inputs \in Seq(RanInput)
    BY <2>1 DEF TypeOK, State, LoaderMetadataType, Loading
  <2>3. TakeRanInputs(NextInput(st.md, loading_stage), loading_stage) \in LoaderMetadataType
    BY <2>1, <2>2, NextInputType, TakeRanInputsType
  <2>4. st' \in State
    BY <1>6, <2>3 DEF FinishLoad, TypeOK, State
  <2>5. returned' \in [LoadIds -> Seq(RanInput) \cup {NotReturned}]
    BY <1>6, <2>2 DEF FinishLoad, TypeOK
  <2>6. loading_stage' \in Nat
    BY <1>6 DEF FinishLoad, TypeOK
  <2>7. TypeOK'
    BY <1>6, <2>4, <2>5, <2>6 DEF FinishLoad, TypeOK, PC, FuzzerPC
  <2>8. Control'
    BY <1>6 DEF FinishLoad, Control, Engaged, ExecPC, InFuzzingPC
  <2>. QED
    BY <2>7, <2>8
<1>7. CASE Poll
  <2>1. st' \in State
    <3>1. CASE UNCHANGED st
      BY <3>1 DEF TypeOK
    <3>2. ASSUME NEW input \in Inputs, st' = [st EXCEPT !.pending = Append(@, input)]
          PROVE  st' \in State
      <4>1. Append(st.pending, input) \in Seq(Inputs)
        BY AppendProperties DEF TypeOK, State
      <4>. QED
        BY <3>2, <4>1 DEF TypeOK, State
    <3>. QED
      BY <1>7, <3>1, <3>2 DEF Poll
  <2>2. TypeOK'
    BY <1>7, <2>1 DEF Poll, TypeOK, PC, FuzzerPC
  <2>3. Control'
    BY <1>7 DEF Poll, Control, Engaged, ExecPC, InFuzzingPC
  <2>. QED
    BY <2>2, <2>3
<1>8. CASE Shutdown
  <2>1. TypeOK'
    BY <1>8 DEF Shutdown, Exit, TypeOK, PC, ExitCode
  <2>2. Control'
    BY <1>8 DEF Shutdown, Exit, Control, Engaged, ExecPC, InFuzzingPC
  <2>. QED
    BY <2>1, <2>2
<1>9. CASE NextPendingTestcase
  <2>1. CASE st.pending = <<>>
    <3>1. TypeOK'
      BY <1>9, <2>1 DEF NextPendingTestcase, TypeOK, PC, FuzzerPC
    <3>2. Control'
      BY <1>9, <2>1 DEF NextPendingTestcase, Control, Engaged, ExecPC, InFuzzingPC
    <3>. QED
      BY <3>1, <3>2
  <2>2. CASE st.pending # <<>>
    <3>1. Head(st.pending) \in Inputs /\ Tail(st.pending) \in Seq(Inputs)
      BY <2>2, HeadTailProperties DEF TypeOK, State
    <3>2. cur' \in Inputs /\ st' \in State
      <4>1. cur' = Head(st.pending) /\ st' = [st EXCEPT !.pending = Tail(st.pending)]
        BY <1>9, <2>2 DEF NextPendingTestcase
      <4>2. st \in State
        BY DEF TypeOK
      <4>. QED
        BY <3>1, <4>1, <4>2 DEF State
    <3>3. TypeOK'
      <4>1. pc' \in PC /\ who' \in {"none", "next", "pending", "stages"}
        BY <1>9, <2>2 DEF NextPendingTestcase, PC, FuzzerPC
      <4>2. UNCHANGED <<parentVars, shm, exit_code, loading_stage, returned, handleVars,
                        evaluated>>
        BY <1>9 DEF NextPendingTestcase
      <4>3. TypeOK
        OBVIOUS
      <4>. QED
        BY <3>2, <4>1, <4>2, <4>3, SMTT(60) DEF TypeOK
    <3>4. Control'
      BY <1>9, <2>2, <3>2 DEF NextPendingTestcase, Control, Engaged, ExecPC, InFuzzingPC
    <3>. QED
      BY <3>3, <3>4
  <2>. QED
    BY <2>1, <2>2
<1>10. CASE Schedule
  <2>1. TypeOK'
    BY <1>10 DEF Schedule, TypeOK, PC, FuzzerPC
  <2>2. Control'
    BY <1>10 DEF Schedule, Control, Engaged, ExecPC, InFuzzingPC
  <2>. QED
    BY <2>1, <2>2
<1>11. CASE StageEvaluates
  <2>1. TypeOK'
    BY <1>11 DEF StageEvaluates, TypeOK, PC, FuzzerPC
  <2>2. Control'
    BY <1>11 DEF StageEvaluates, Control, Engaged, ExecPC, InFuzzingPC
  <2>. QED
    BY <2>1, <2>2
<1>12. CASE StagesDone
  <2>1. TypeOK'
    BY <1>12 DEF StagesDone, TypeOK, PC, FuzzerPC
  <2>2. Control'
    BY <1>12 DEF StagesDone, Control, Engaged, ExecPC, InFuzzingPC
  <2>. QED
    BY <2>1, <2>2
<1>13. CASE ArmTimeout
  <2>1. st' \in State
    <3>1. st \in State /\ st' = [st EXCEPT !.execs = st.execs + 1]
      BY <1>13 DEF ArmTimeout, TypeOK
    <3>2. st.execs + 1 \in Nat
      BY <3>1 DEF State
    <3>. QED
      BY <3>1, <3>2 DEF State
  <2>2. HasTimeout \in BOOLEAN
    BY FuzzerAssumption
  <2>3. TypeOK'
    BY <1>13, <2>1, <2>2 DEF ArmTimeout, TypeOK, PC, FuzzerPC
  <2>4. Control'
    BY <1>13 DEF ArmTimeout, Control, Engaged, ExecPC, InFuzzingPC
  <2>. QED
    BY <2>3, <2>4
<1>14. CASE SetInput
  <2>1. TypeOK'
    BY <1>14 DEF SetInput, TypeOK, PC
  <2>2. Control'
    BY <1>14 DEF SetInput, Control, Engaged, ExecPC, InFuzzingPC
  <2>. QED
    BY <2>1, <2>2
<1>15. CASE TargetReturns
  <2>1. TypeOK'
    BY <1>15 DEF TargetReturns, TypeOK, PC, FuzzerPC
  <2>2. Control'
    BY <1>15 DEF TargetReturns, Control, Engaged, ExecPC, InFuzzingPC
  <2>. QED
    BY <2>1, <2>2
<1>16. CASE ClearInput
  <2>1. TypeOK'
    BY <1>16 DEF ClearInput, TypeOK, PC, FuzzerPC
  <2>2. Control'
    BY <1>16 DEF ClearInput, Control, Engaged, ExecPC, InFuzzingPC
  <2>. QED
    BY <2>1, <2>2
<1>17. CASE DisarmTimeout
  <2>1. armed' \in BOOLEAN /\ pc' \in PC
    BY <1>17 DEF DisarmTimeout, PC, FuzzerPC
  <2>2. TypeOK'
    BY <1>17, <2>1 DEF DisarmTimeout, TypeOK
  <2>3. Control'
    BY <1>17 DEF DisarmTimeout, Control, Engaged, ExecPC, InFuzzingPC
  <2>. QED
    BY <2>2, <2>3
<1>18. CASE PostExecution
  <2>1. Engaged /\ input_ptr = NoInput /\ handler.status = "none"
    BY <1>18 DEF PostExecution, Control, ExecPC, InFuzzingPC
  <2>2. PICK kind \in HarnessExits : Evaluate(kind, who = "next")
    BY <1>18 DEF PostExecution
  <2>3. st' \in State /\ evaluated' \in [LoadIds -> Seq(Inputs)]
    BY <2>1, <2>2, EvaluateType, FuzzerAssumption
  <2>4. TypeOK'
    BY <1>18, <2>1, <2>3 DEF PostExecution, TypeOK, PC, FuzzerPC, Engaged
  <2>5. Control'
    BY <1>18, <2>1 DEF PostExecution, Control, Engaged, ExecPC, InFuzzingPC
  <2>. QED
    BY <2>4, <2>5
<1>19. ASSUME NEW kind \in Termination, Enter(kind), armed' \in BOOLEAN,
              kind = "crash" \/ kind = "panic" \/ kind = "alarm",
              input_ptr # NoInput => pc \in InFuzzingPC
       PROVE  TypeInv'
  <2>1. TypeOK'
    BY <1>19 DEF Enter, Exit, TypeOK, PC, HandlerPC, ExitCode, Termination
  <2>2. Control'
    BY <1>19 DEF Enter, Exit, TypeOK, Control, Engaged, ExecPC, InFuzzingPC
  <2>. QED
    BY <2>1, <2>2
<1>20. CASE Alarm
  BY <1>19, <1>20 DEF Alarm, Live, Control, Termination
<1>21. CASE TargetCrash
  BY <1>19, <1>21 DEF TargetCrash, Control, Termination, TypeOK, InFuzzingPC
<1>22. CASE TargetPanic
  BY <1>19, <1>22 DEF TargetPanic, Control, Termination, TypeOK, InFuzzingPC
<1>23. CASE TaskFails
  BY <1>19, <1>23 DEF TaskFails, Control, Termination, TypeOK, InFuzzingPC
<1>24. CASE Fault
  BY <1>19, <1>24 DEF Fault, Control, Termination, TypeOK, InFuzzingPC, FuzzerPC, HandlerPC
<1>25. CASE TargetExits \/ Killed
  <2>1. TypeOK'
    BY <1>25 DEF TargetExits, Killed, Exit, TypeOK, PC, ExitCode
  <2>2. Control'
    BY <1>25 DEF TargetExits, Killed, Live, Exit, Control, Engaged, ExecPC, InFuzzingPC
  <2>. QED
    BY <2>1, <2>2
<1>26. CASE Dispatch
  <2>1. CASE input_ptr = NoInput
    <3>1. TypeOK'
      BY <1>26, <2>1 DEF Dispatch, Exit, TypeOK, PC, ExitCode
    <3>2. Control'
      BY <1>26, <2>1 DEF Dispatch, Exit, Control, Engaged, ExecPC, InFuzzingPC
    <3>. QED
      BY <3>1, <3>2
  <2>2. CASE input_ptr # NoInput
    <3>1. Engaged /\ handler.resume \in InFuzzingPC
      BY <1>26, <2>2 DEF Dispatch, Control
    <3>2. PICK status \in (IF handler.kind = "alarm" THEN TimeoutStatuses
                                                   ELSE CrashStatuses) :
            /\ handler' = [handler EXCEPT !.status = status]
            /\ pc' = IF status = "FuzzerCrash" THEN "save" ELSE "objective"
      BY <1>26, <2>2 DEF Dispatch
    <3>3. /\ input_ptr' = NoInput
          /\ UNCHANGED <<parentVars, shm, exit_code, childVars, armed, depth, triggered, evaluated>>
      BY <1>26, <2>2 DEF Dispatch
    <3>4. /\ status \in {"Resume", "Exit", "TargetCrash", "FuzzerCrash"}
          /\ status \in {"none", "Resume", "Exit"} \cup CrashStatuses
          /\ status = "Resume" => handler.kind = "alarm"
      BY <3>2, FuzzerAssumption
    <3>5. TypeOK'
      BY <3>2, <3>3, <3>4 DEF TypeOK, PC, HandlerPC
    <3>6. handler' \in [kind : Termination \cup {"none"},
                        status : {"none", "Resume", "Exit"} \cup CrashStatuses, resume : PC]
      BY <3>5 DEF TypeOK
    <3>7. handler'.status = status /\ handler'.kind = handler.kind /\ handler'.resume = handler.resume
      BY <3>2 DEF TypeOK
    <3>8. Control'
      BY <3>1, <3>2, <3>3, <3>4, <3>7 DEF Control, Engaged, ExecPC, InFuzzingPC
    <3>. QED
      BY <3>5, <3>8
  <2>. QED
    BY <2>1, <2>2
<1>27. CASE HandleObjective
  <2>1. Engaged
    BY <1>27 DEF HandleObjective, Control
  <2>2. st' \in State /\ evaluated' \in [LoadIds -> Seq(Inputs)]
    <3>1. PICK kind \in {"Timeout", "Crash"} : Evaluate(kind, TRUE)
      BY <1>27 DEF HandleObjective
    <3>. QED
      BY <2>1, <3>1, EvaluateType DEF ExitKind
  <2>3. TypeOK'
    BY <1>27, <2>2 DEF HandleObjective, TypeOK, PC, HandlerPC
  <2>4. Control'
    BY <1>27, <2>1 DEF HandleObjective, Control, Engaged, ExecPC, InFuzzingPC
  <2>. QED
    BY <2>3, <2>4
<1>28. CASE SaveState
  <2>1. TypeOK'
    BY <1>28 DEF SaveState, TypeOK, PC, HandlerPC
  <2>2. Control'
    BY <1>28 DEF SaveState, Control, Engaged, ExecPC, InFuzzingPC
  <2>. QED
    BY <2>1, <2>2
<1>29. CASE SaveFails
  <2>1. TypeOK'
    BY <1>29 DEF SaveFails, Exit, TypeOK, PC, ExitCode
  <2>2. Control'
    BY <1>29 DEF SaveFails, Exit, Control, Engaged, ExecPC, InFuzzingPC
  <2>. QED
    BY <2>1, <2>2
<1>30. CASE Leave
  <2>1. CASE handler.status = "Resume"
    <3>1. depth >= 2 /\ handler.resume \in InFuzzingPC /\ Engaged /\ input_ptr = NoInput
      BY <1>30, <2>1 DEF Leave, Control, InFuzzingPC
    <3>2. depth' \in Nat
      BY <1>30, <2>1, <3>1 DEF Leave, TypeOK
    <3>3. TypeOK'
      BY <1>30, <2>1, <3>2 DEF Leave, TypeOK, NoHandler, PC
    <3>4. Control'
      BY <1>30, <2>1, <3>1 DEF Leave, Control, Engaged, ExecPC, InFuzzingPC, NoHandler
    <3>. QED
      BY <3>3, <3>4
  <2>2. CASE handler.status # "Resume"
    <3>1. TypeOK'
      BY <1>30, <2>2 DEF Leave, Exit, TypeOK, PC, ExitCode
    <3>2. Control'
      BY <1>30, <2>2 DEF Leave, Exit, Control, Engaged, ExecPC, InFuzzingPC
    <3>. QED
      BY <3>1, <3>2
  <2>. QED
    BY <2>1, <2>2
<1>31. CASE UNCHANGED vars
  BY <1>31 DEF vars, TypeOK, Control, Engaged
<1>. QED
  BY <1>1, <1>2, <1>3, <1>4, <1>5, <1>6, <1>7, <1>8, <1>9, <1>10, <1>11, <1>12, <1>13,
     <1>14, <1>15, <1>16, <1>17, <1>18, <1>20, <1>21, <1>22, <1>23, <1>24, <1>25, <1>26,
     <1>27, <1>28, <1>29, <1>30, <1>31
  DEF Next, Task, Execution, Signals, Handlers, Ended

\* TypeOK holds of every worker, in every behaviour.
THEOREM TypeCorrect == Spec => []TypeOK
<1>1. TypeInv => TypeOK
  BY DEF TypeInv
<1>. QED
  BY <1>1, TypeInvInit, TypeInvStep, PTL DEF Spec

-----------------------------------------------------------------------------
(* Restarts.                                                               *)

\* A child about to exit with RESTART, or that did, has its state in the
\* shared memory; what the next child starts from is what the last one left.
SavedInv ==
    /\ pc = "leave" => shm.valid /\ shm.state = st
    /\ RestartHasSavedState
    /\ restarter = "forking" => saved = st /\ pc = "none"

\* The initial states.
LEMMA SavedInvInit == Init => SavedInv
BY DEF Init, SavedInv, RestartHasSavedState

\* Only SaveState leads to leave, and nothing happens to st after it.
LEMMA SavedInvStep == TypeInv /\ SavedInv /\ [Next]_vars => SavedInv'
<1>. SUFFICES ASSUME TypeInv, SavedInv, [Next]_vars PROVE SavedInv'
  OBVIOUS
<1>. USE DEF SavedInv, RestartHasSavedState, childVars, handleVars, parentVars
<1>1. CASE Fork
  BY <1>1 DEF Fork
<1>2. CASE Reap
  <2>1. CASE exit_code = "RESTART" /\ shm.valid
    <3>1. restarter' = "forking" /\ saved' = shm.state /\ pc' = "none" /\ st' = st
      BY <1>2, <2>1 DEF Reap
    <3>2. shm.state = st
      BY <1>2, <2>1 DEF Reap
    <3>. QED
      BY <3>1, <3>2
  <2>2. CASE ~ (exit_code = "RESTART" /\ shm.valid)
    <3>1. restarter' # "forking" /\ pc' = "none"
      BY <1>2, <2>2 DEF Reap
    <3>. QED
      BY <3>1
  <2>. QED
    BY <2>1, <2>2
<1>3. CASE Task
  <2>1. pc' \notin {"leave", "none"} /\ pc # "none" /\ exit_code' \in {exit_code, "END"}
        /\ (pc' = "dead" => exit_code' = "END") /\ UNCHANGED restarter
    <3>1. CASE Boot \/ StartLoad \/ NextLoadedInput \/ FinishLoad
      BY <3>1 DEF Boot, StartLoad, NextLoadedInput, FinishLoad
    <3>2. CASE Poll \/ Shutdown \/ NextPendingTestcase
      BY <3>2 DEF Poll, Shutdown, Exit, NextPendingTestcase
    <3>3. CASE Schedule \/ StageEvaluates \/ StagesDone
      BY <3>3 DEF Schedule, StageEvaluates, StagesDone
    <3>. QED
      BY <1>3, <3>1, <3>2, <3>3 DEF Task
  <2>. QED
    BY <2>1
<1>4. CASE Execution
  <2>1. pc' \notin {"leave", "dead", "none"} /\ pc # "none" /\ UNCHANGED restarter
    BY <1>4 DEF Execution, ArmTimeout, SetInput, TargetReturns, ClearInput, DisarmTimeout,
                PostExecution, TypeInv, Control, Engaged, ExecPC
  <2>. QED
    BY <2>1
<1>5. CASE Signals
  <2>1. pc' \in {"dead", "dispatch"} /\ pc # "none" /\ UNCHANGED restarter
        /\ (pc' = "dead" => exit_code' \in {"RECURSION", "OTHER", "SIGNAL", "KILLED"})
    BY <1>5 DEF Signals, Alarm, TargetCrash, TargetPanic, TaskFails, Fault, TargetExits, Killed, Enter,
                Exit, Live, FuzzerPC, HandlerPC
  <2>. QED
    BY <2>1
<1>6. CASE Dispatch
  BY <1>6 DEF Dispatch, Exit
<1>7. CASE HandleObjective
  BY <1>7 DEF HandleObjective
<1>8. CASE SaveState
  BY <1>8 DEF SaveState
<1>9. CASE SaveFails
  BY <1>9 DEF SaveFails, Exit
<1>10. CASE Leave
  <2>1. pc' = "dead" => shm'.valid /\ shm'.state = st'
    BY <1>10 DEF Leave
  <2>2. pc' # "leave" /\ restarter' # "forking"
    BY <1>10 DEF Leave, Exit, TypeInv, Control, InFuzzingPC
  <2>. QED
    BY <2>1, <2>2
<1>11. CASE UNCHANGED vars
  BY <1>11 DEF vars
<1>. QED
  BY <1>1, <1>2, <1>3, <1>4, <1>5, <1>6, <1>7, <1>8, <1>9, <1>10, <1>11
  DEF Next, Handlers, Ended

\* The two invariants together, in every behaviour.
LEMMA SavedInvariant == Spec => [](TypeInv /\ SavedInv)
<1>1. Init => TypeInv /\ SavedInv
  BY TypeInvInit, SavedInvInit
<1>2. (TypeInv /\ SavedInv) /\ [Next]_vars => (TypeInv /\ SavedInv)'
  BY TypeInvStep, SavedInvStep
<1>. QED
  BY <1>1, <1>2, PTL DEF Spec

\* restarting.rs:117: "shm must be loaded with state" when a child exits with
\* RESTART, and that state is the last one of the child.
THEOREM RestartIsSafe == Spec => []RestartHasSavedState
<1>1. TypeInv /\ SavedInv => RestartHasSavedState
  BY DEF SavedInv
<1>. QED
  BY <1>1, SavedInvariant, PTL

\* A load that was opened stays open, whatever is done to the metadata.
LEMMA OpenedStays ==
  ASSUME NEW md \in LoaderMetadataType, NEW l \in LoadIds, NEW k \in LoadIds,
         md.loads[k].opened
  PROVE  /\ OpenLoad(md, l).loads[k].opened
         /\ NextInput(md, l).loads[k].opened
         /\ TakeRanInputs(md, l).loads[k].opened
<1>1. md.loads[k] \in Loading /\ md.loads[l] \in Loading /\ md.loads \in [LoadIds -> Loading]
  BY DEF LoaderMetadataType
<1>2. OpenLoad(md, l).loads[k].opened
  BY <1>1 DEF OpenLoad, LoaderMetadataType
<1>3. NextInput(md, l).loads[k].opened
  BY <1>1 DEF NextInput, LoaderMetadataType, Loading
<1>4. TakeRanInputs(md, l).loads[k].opened
  BY <1>1 DEF TakeRanInputs, LoaderMetadataType, Loading
<1>. QED
  BY <1>2, <1>3, <1>4

\* So it does when a result is recorded.
LEMMA OpenedStaysRecorded ==
  ASSUME NEW md \in LoaderMetadataType, NEW k \in LoadIds, NEW result, md.loads[k].opened
  PROVE  RecordResult(md, result).loads[k].opened
<1>1. md.loads[k] \in Loading /\ md.loads \in [LoadIds -> Loading]
  BY DEF LoaderMetadataType
<1>2. CASE md.running_input = NoInput
  BY <1>2 DEF RecordResult
<1>3. CASE md.running_input # NoInput
  <2>1. md.running_input.load \in LoadIds
    BY <1>3 DEF LoaderMetadataType, Running
  <2>. QED
    BY <1>1, <1>3, <2>1 DEF RecordResult, LoaderMetadataType, Loading
<1>. QED
  BY <1>2, <1>3

\* No step of the runtime or of the child undoes a finding.
LEMMA FindingsGrowStep ==
  ASSUME TypeInv, SavedInv, [Next]_vars
  PROVE  FindingsGrow \/ UNCHANGED st
<1>. USE DEF childVars, handleVars, parentVars
<1>1. st \in State /\ st.md \in LoaderMetadataType
  BY DEF TypeInv, TypeOK, State
<1>2. CASE Fork
  BY <1>2 DEF Fork, SavedInv
<1>3. CASE StartLoad
  <2>1. CASE loading_stage \in LoadIds
    <3>1. \A k \in LoadIds : st.md.loads[k].opened => OpenLoad(st.md, loading_stage).loads[k].opened
      BY <1>1, <2>1, OpenedStays
    <3>2. st' = [st EXCEPT !.md = OpenLoad(st.md, loading_stage)]
      BY <1>3, <2>1 DEF StartLoad
    <3>. QED
      BY <1>1, <3>1, <3>2 DEF FindingsGrow, State
  <2>2. CASE loading_stage \notin LoadIds
    BY <1>3, <2>2 DEF StartLoad
  <2>. QED
    BY <2>1, <2>2
<1>4. CASE NextLoadedInput \/ FinishLoad
  <2>1. loading_stage \in LoadIds
    BY <1>4 DEF NextLoadedInput, FinishLoad, TypeInv, Control
  <2>. DEFINE next == NextInput(st.md, loading_stage)
  <2>2. next \in LoaderMetadataType
    BY <1>1, <2>1, NextInputType
  <2>3. \A k \in LoadIds : st.md.loads[k].opened => next.loads[k].opened
    BY <1>1, <2>1, OpenedStays
  <2>4. \A k \in LoadIds : st.md.loads[k].opened
                             => TakeRanInputs(next, loading_stage).loads[k].opened
    <3>. HIDE DEF next
    <3>. QED
      BY <2>1, <2>2, <2>3, OpenedStays
  <2>5. st' = [st EXCEPT !.md = next] \/ st' = [st EXCEPT !.md = TakeRanInputs(next, loading_stage)]
    BY <1>4 DEF NextLoadedInput, FinishLoad
  <2>. HIDE DEF next
  <2>. QED
    BY <1>1, <2>3, <2>4, <2>5 DEF FindingsGrow, State
<1>5. CASE Poll
  <2>1. CASE UNCHANGED st
    BY <2>1
  <2>2. ASSUME NEW input \in Inputs, st' = [st EXCEPT !.pending = Append(@, input)]
        PROVE  FindingsGrow
    BY <1>1, <2>2 DEF FindingsGrow, State
  <2>. QED
    BY <1>5, <2>1, <2>2 DEF Poll
<1>6. CASE NextPendingTestcase
  <2>1. UNCHANGED st \/ st' = [st EXCEPT !.pending = Tail(@)]
    BY <1>6 DEF NextPendingTestcase
  <2>. QED
    BY <1>1, <2>1 DEF FindingsGrow, State
<1>7. CASE ArmTimeout
  <2>1. st' = [st EXCEPT !.execs = st.execs + 1] /\ st.execs + 1 >= st.execs
    BY <1>1, <1>7 DEF ArmTimeout, State
  <2>. QED
    BY <1>1, <2>1 DEF FindingsGrow, State
<1>8. ASSUME NEW kind \in ExitKind, NEW recorded \in BOOLEAN, Evaluate(kind, recorded)
      PROVE  FindingsGrow
  <2>1. PICK verdict \in Verdicts[kind] :
           st' = [AddTestcase(st, cur, verdict) EXCEPT
                    !.md = IF recorded
                           THEN RecordResult(@, [exit_kind |-> kind, verdict |-> verdict])
                           ELSE @]
    BY <1>8 DEF Evaluate
  <2>. DEFINE result == [exit_kind |-> kind, verdict |-> verdict]
              added  == AddTestcase(st, cur, verdict)
  <2>2. result \in EvaluationResult
    BY FuzzerAssumption DEF EvaluationResult
  <2>3. /\ added.md = st.md /\ added.execs = st.execs
        /\ st.corpus \subseteq added.corpus /\ st.objectives \subseteq added.objectives
        /\ added = [md |-> added.md, execs |-> added.execs, pending |-> added.pending,
                    corpus |-> added.corpus, objectives |-> added.objectives]
    BY <1>1 DEF AddTestcase, State
  <2>4. \A k \in LoadIds : st.md.loads[k].opened => RecordResult(st.md, result).loads[k].opened
    BY <1>1, OpenedStaysRecorded
  <2>5. st' = [added EXCEPT !.md = IF recorded THEN RecordResult(st.md, result) ELSE st.md]
    BY <2>1, <2>3
  <2>6. st.execs \in Nat
    BY <1>1 DEF State
  <2>. HIDE DEF added, result
  <2>. QED
    BY <2>3, <2>4, <2>5, <2>6 DEF FindingsGrow
<1>9. CASE PostExecution
  <2>1. PICK kind \in HarnessExits : Evaluate(kind, who = "next")
    BY <1>9 DEF PostExecution
  <2>. QED
    BY <1>8, <2>1, FuzzerAssumption
<1>10. CASE HandleObjective
  <2>1. PICK kind \in {"Timeout", "Crash"} : Evaluate(kind, TRUE)
    BY <1>10 DEF HandleObjective
  <2>. QED
    BY <1>8, <2>1 DEF ExitKind
<1>11. CASE Boot \/ Shutdown \/ Schedule \/ StageEvaluates \/ StagesDone \/ SetInput
            \/ TargetReturns \/ ClearInput \/ DisarmTimeout
  BY <1>11 DEF Boot, Shutdown, Schedule, StageEvaluates, StagesDone, SetInput,
               TargetReturns, ClearInput, DisarmTimeout
<1>12. CASE Reap \/ Signals
  BY <1>12 DEF Reap, Signals, Alarm, TargetCrash, TargetPanic, TaskFails, Fault, TargetExits, Killed, Enter
<1>13. CASE Dispatch \/ SaveState \/ SaveFails \/ Leave
  BY <1>13 DEF Dispatch, SaveState, SaveFails, Leave
<1>14. CASE UNCHANGED vars
  BY <1>14 DEF vars
<1>. QED
  BY <1>2, <1>3, <1>4, <1>5, <1>6, <1>7, <1>9, <1>10, <1>11, <1>12, <1>13, <1>14
  DEF Next, Task, Execution, Handlers, Ended

\* From a child to the next, nothing that was found or counted is undone.
THEOREM FindingsAreKept == Spec => NothingIsUndone
<1>1. (TypeInv /\ SavedInv) /\ [Next]_vars => [FindingsGrow]_st
  BY FindingsGrowStep
<1>. QED
  BY <1>1, SavedInvariant, PTL DEF Spec, NothingIsUndone

-----------------------------------------------------------------------------
(* Loads.  An executor that blames the fuzzer (FuzzerCrash) leaves the     *)
(* running input without a result, hence the assumption of the theorems.   *)

\* Metadata that a load may go on with.
Sound(md) == Accounted(md) /\ md.running_input = NoInput

\* Where the running input of the loader may wait for its result.
RunningPC == ExecPC \cup {"unwind", "dispatch", "objective", "dead", "none"}

\* load is on the stack of the child, maybe under a handler.
InLoad ==
    \/ pc = "next"
    \/ who = "next" /\ (pc \in ExecPC \cup {"objective", "save", "leave"} \/ input_ptr # NoInput)

LoadInv ==
    /\ Accounted(st.md)
    /\ Sound(saved.md)
    /\ shm.valid => Sound(shm.state.md)
    /\ st.md.running_input # NoInput => pc \in RunningPC /\ (pc \in ExecPC => who = "next")
    /\ InLoad => st.md.loads[loading_stage].opened
    /\ LoadReturnsAllOrNothing

\* The initial states.
LEMMA LoadInvInit == Init => LoadInv
<1>. SUFFICES ASSUME Init PROVE LoadInv
  OBVIOUS
<1>1. Accounted(InitialState.md) /\ InitialState.md.running_input = NoInput
  BY EmptyAccounted DEF InitialState, EmptyMetadata
<1>. QED
  BY <1>1 DEF Init, LoadInv, Sound, InLoad, LoadReturnsAllOrNothing, ExecPC

\* An evaluation whose result is recorded leaves nothing running.
LEMMA EvaluateSound ==
  ASSUME TypeInv, LoadInv, NEW kind \in ExitKind, NEW recorded \in BOOLEAN,
         recorded \/ st.md.running_input = NoInput, Evaluate(kind, recorded)
  PROVE  /\ Sound(st'.md)
         /\ \A k \in LoadIds : st.md.loads[k].opened => st'.md.loads[k].opened
<1>1. st \in State /\ st.md \in LoaderMetadataType
  BY DEF TypeInv, TypeOK, State
<1>2. PICK verdict \in Verdicts[kind] :
         st' = [AddTestcase(st, cur, verdict) EXCEPT
                    !.md = IF recorded
                           THEN RecordResult(@, [exit_kind |-> kind, verdict |-> verdict])
                           ELSE @]
  BY DEF Evaluate
<1>. DEFINE result == [exit_kind |-> kind, verdict |-> verdict]
            added  == AddTestcase(st, cur, verdict)
<1>3. result \in EvaluationResult
  BY FuzzerAssumption DEF EvaluationResult
<1>4. added \in [md : {st.md}, execs : {added.execs}, pending : {added.pending},
                 corpus : {added.corpus}, objectives : {added.objectives}]
  BY <1>1 DEF AddTestcase, State
<1>5. st'.md = IF recorded THEN RecordResult(st.md, result) ELSE st.md
  <2>. HIDE DEF added, result
  <2>. QED
    BY <1>2, <1>4 DEF added, result
<1>6. Sound(RecordResult(st.md, result))
  BY <1>1, <1>3, RecordResultAccounted DEF LoadInv, Sound
<1>7. \A k \in LoadIds : st.md.loads[k].opened => RecordResult(st.md, result).loads[k].opened
  BY <1>1, OpenedStaysRecorded
<1>. QED
  BY <1>5, <1>6, <1>7 DEF LoadInv, Sound

\* Every step, as long as no crash is blamed on the fuzzer.
LEMMA LoadInvStep ==
  ASSUME "FuzzerCrash" \notin CrashStatuses, TypeInv, SavedInv, LoadInv, [Next]_vars
  PROVE  LoadInv'
<1>. USE DEF childVars, handleVars, parentVars
<1>1. st \in State /\ st.md \in LoaderMetadataType
  BY DEF TypeInv, TypeOK, State
<1>2. CASE Fork
  BY <1>2 DEF Fork, LoadInv, Sound, InLoad, LoadReturnsAllOrNothing, ExecPC
<1>3. CASE Reap
  <2>1. pc' = "none" /\ UNCHANGED <<st, who, input_ptr, loading_stage, returned>> /\ pc = "dead"
    BY <1>3 DEF Reap
  <2>2. Sound(saved'.md) /\ (shm'.valid => Sound(shm'.state.md))
    BY <1>3 DEF Reap, LoadInv, TypeInv, TypeOK
  <2>. QED
    BY <2>1, <2>2 DEF LoadInv, InLoad, LoadReturnsAllOrNothing, RunningPC, ExecPC
<1>4. CASE StartLoad
  <2>1. st.md.running_input = NoInput
    BY <1>4 DEF StartLoad, LoadInv, RunningPC, ExecPC
  <2>2. CASE loading_stage \in LoadIds
    <3>1. st'.md = OpenLoad(st.md, loading_stage)
      BY <1>1, <1>4, <2>2 DEF StartLoad, State
    <3>2. Sound(st'.md)
      BY <1>1, <2>1, <2>2, <3>1, OpenLoadAccounted DEF LoadInv, Sound
    <3>3. st'.md.loads[loading_stage].opened
      BY <1>1, <2>2, <3>1 DEF OpenLoad, LoaderMetadataType
    <3>. QED
      BY <1>4, <3>2, <3>3 DEF StartLoad, LoadInv, Sound, LoadReturnsAllOrNothing
  <2>3. CASE loading_stage \notin LoadIds
    BY <1>4, <2>1, <2>3 DEF StartLoad, LoadInv, Sound, LoadReturnsAllOrNothing, InLoad,
                            TypeInv, Control, ExecPC, InFuzzingPC
  <2>. QED
    BY <2>2, <2>3
<1>5. CASE NextLoadedInput
  <2>1. loading_stage \in LoadIds /\ st.md.running_input = NoInput
        /\ st.md.loads[loading_stage].opened
    BY <1>5 DEF NextLoadedInput, TypeInv, Control, LoadInv, RunningPC, ExecPC, InLoad
  <2>2. st'.md = NextInput(st.md, loading_stage)
    BY <1>1, <1>5 DEF NextLoadedInput, State
  <2>3. Accounted(st'.md)
    BY <1>1, <2>1, <2>2, NextInputAccounted DEF LoadInv
  <2>4. st'.md.loads[loading_stage].opened
    BY <1>1, <2>1, <2>2, OpenedStays
  <2>5. pc' = "arm" /\ who' = "next" /\ UNCHANGED <<saved, shm, loading_stage, returned>>
    BY <1>5 DEF NextLoadedInput
  <2>. QED
    BY <2>3, <2>4, <2>5 DEF LoadInv, LoadReturnsAllOrNothing, RunningPC, ExecPC
<1>6. CASE FinishLoad
  <2>1. loading_stage \in LoadIds /\ st.md.running_input = NoInput
        /\ st.md.loads[loading_stage].opened
    BY <1>6 DEF FinishLoad, TypeInv, Control, LoadInv, RunningPC, ExecPC, InLoad
  <2>2. st.md.loads[loading_stage].inputs_to_run = <<>>
    BY <1>6 DEF FinishLoad
  <2>3. NextInput(st.md, loading_stage) = st.md
    BY <1>1, <2>1, <2>2 DEF NextInput, LoaderMetadataType
  <2>4. st'.md = TakeRanInputs(st.md, loading_stage)
    BY <1>1, <1>6, <2>3 DEF FinishLoad, State
  <2>5. Sound(st'.md)
    BY <1>1, <2>1, <2>2, <2>4, TakeRanInputsAccounted DEF LoadInv, Sound
  <2>6. InputsOf(st.md.loads[loading_stage].ran_inputs) \in {LoadInputs[loading_stage], <<>>}
    BY <1>1, <2>1, <2>2, ReturnedAllOrNothing DEF LoadInv
  <2>7. LoadReturnsAllOrNothing'
    BY <1>6, <2>1, <2>6 DEF FinishLoad, LoadInv, LoadReturnsAllOrNothing, TypeInv, TypeOK
  <2>8. ~ InLoad'
    BY <1>6 DEF FinishLoad, InLoad, TypeInv, Control, ExecPC, InFuzzingPC
  <2>9. UNCHANGED <<saved, shm>>
    BY <1>6 DEF FinishLoad
  <2>. QED
    BY <2>5, <2>7, <2>8, <2>9 DEF LoadInv, Sound
<1>7. CASE Poll \/ NextPendingTestcase \/ StageEvaluates
  <2>1. st.md.running_input = NoInput /\ input_ptr = NoInput
    BY <1>7 DEF Poll, NextPendingTestcase, StageEvaluates, LoadInv, RunningPC, ExecPC,
                TypeInv, Control, InFuzzingPC
  <2>2. st'.md = st.md
    BY <1>1, <1>7 DEF Poll, NextPendingTestcase, StageEvaluates, State
  <2>3. ~ InLoad'
    BY <1>7, <2>1 DEF Poll, NextPendingTestcase, StageEvaluates, InLoad, ExecPC
  <2>4. UNCHANGED <<saved, shm, returned>>
    BY <1>7 DEF Poll, NextPendingTestcase, StageEvaluates
  <2>. QED
    BY <2>1, <2>2, <2>3, <2>4 DEF LoadInv, LoadReturnsAllOrNothing
<1>8. CASE Boot \/ Shutdown \/ Schedule \/ StagesDone
  <2>1. st.md.running_input = NoInput /\ input_ptr = NoInput
    BY <1>8 DEF Boot, Shutdown, Schedule, StagesDone, LoadInv, RunningPC, ExecPC,
                TypeInv, Control, InFuzzingPC
  <2>2. ~ InLoad' /\ UNCHANGED <<st, saved, shm, returned>>
    BY <1>8, <2>1 DEF Boot, Shutdown, Schedule, StagesDone, Exit, InLoad, ExecPC
  <2>. QED
    BY <2>1, <2>2 DEF LoadInv, LoadReturnsAllOrNothing
<1>9. CASE ArmTimeout \/ SetInput \/ TargetReturns \/ ClearInput \/ DisarmTimeout
  <2>1. st'.md = st.md /\ UNCHANGED <<saved, shm, returned, who, loading_stage>>
    BY <1>1, <1>9 DEF ArmTimeout, SetInput, TargetReturns, ClearInput, DisarmTimeout, State
  <2>2. pc \in ExecPC /\ pc' \in ExecPC \cup {"unwind"}
    BY <1>9 DEF ArmTimeout, SetInput, TargetReturns, ClearInput, DisarmTimeout, ExecPC
  <2>3. InLoad' => InLoad
    BY <2>1, <2>2 DEF InLoad, ExecPC
  <2>. QED
    BY <2>1, <2>2, <2>3 DEF LoadInv, LoadReturnsAllOrNothing, RunningPC
<1>10. CASE PostExecution
  <2>1. Engaged /\ input_ptr = NoInput /\ pc \in ExecPC
    BY <1>10 DEF PostExecution, TypeInv, Control, ExecPC, InFuzzingPC
  <2>2. PICK kind \in HarnessExits : Evaluate(kind, who = "next")
    BY <1>10 DEF PostExecution
  <2>3. who = "next" \/ st.md.running_input = NoInput
    BY <2>1 DEF LoadInv
  <2>4. Sound(st'.md) /\ \A k \in LoadIds : st.md.loads[k].opened => st'.md.loads[k].opened
    BY <2>2, <2>3, EvaluateSound, FuzzerAssumption
  <2>5. pc' = who /\ UNCHANGED <<saved, shm, returned, who, loading_stage, input_ptr>>
    BY <1>10 DEF PostExecution
  <2>6. InLoad' => InLoad /\ loading_stage \in LoadIds
    BY <2>1, <2>5 DEF InLoad, Engaged, ExecPC
  <2>. QED
    BY <2>4, <2>5, <2>6 DEF LoadInv, LoadReturnsAllOrNothing, Sound
<1>11. CASE Signals
  <2>1. UNCHANGED <<st, saved, shm, returned, who, loading_stage, input_ptr>>
    BY <1>11 DEF Signals, Alarm, TargetCrash, TargetPanic, TaskFails, Fault, TargetExits, Killed, Enter
  <2>2. pc' \in {"dispatch", "dead"}
    BY <1>11 DEF Signals, Alarm, TargetCrash, TargetPanic, TaskFails, Fault, TargetExits, Killed, Enter, Exit
  <2>3. InLoad' => InLoad
    BY <2>1, <2>2 DEF InLoad, ExecPC
  <2>. QED
    BY <2>1, <2>2, <2>3 DEF LoadInv, LoadReturnsAllOrNothing, RunningPC, ExecPC
<1>12. CASE Dispatch
  <2>1. UNCHANGED <<st, saved, shm, returned, who, loading_stage>>
    BY <1>12 DEF Dispatch
  <2>2. pc' \in {"dead", "objective"}
    BY <1>12, FuzzerAssumption DEF Dispatch, Exit
  <2>3. InLoad' => InLoad
    <3>1. input_ptr = NoInput => pc' = "dead" /\ UNCHANGED input_ptr
      BY <1>12 DEF Dispatch, Exit
    <3>2. pc' # "next" /\ pc' \notin ExecPC
      BY <2>2 DEF ExecPC
    <3>. QED
      BY <2>1, <3>1, <3>2 DEF InLoad
  <2>. QED
    BY <2>1, <2>2, <2>3 DEF LoadInv, LoadReturnsAllOrNothing, RunningPC, ExecPC
<1>13. CASE HandleObjective
  <2>1. Engaged
    BY <1>13 DEF HandleObjective, TypeInv, Control
  <2>2. PICK kind \in {"Timeout", "Crash"} : Evaluate(kind, TRUE)
    BY <1>13 DEF HandleObjective
  <2>3. Sound(st'.md) /\ \A k \in LoadIds : st.md.loads[k].opened => st'.md.loads[k].opened
    BY <2>2, EvaluateSound DEF ExitKind
  <2>4. pc = "objective" /\ pc' = "save"
        /\ UNCHANGED <<saved, shm, returned, who, loading_stage, input_ptr>>
    BY <1>13 DEF HandleObjective
  <2>5. InLoad' => InLoad /\ loading_stage \in LoadIds
    BY <2>1, <2>4 DEF InLoad, Engaged, ExecPC
  <2>. QED
    BY <2>3, <2>4, <2>5 DEF LoadInv, LoadReturnsAllOrNothing, Sound
<1>14. CASE SaveState \/ SaveFails
  <2>1. st.md.running_input = NoInput /\ Sound(st.md)
    BY <1>14 DEF SaveState, SaveFails, LoadInv, RunningPC, ExecPC, Sound
  <2>2. UNCHANGED <<st, saved, returned, who, loading_stage, input_ptr>>
    BY <1>14 DEF SaveState, SaveFails
  <2>3. shm'.valid => Sound(shm'.state.md)
    BY <1>14, <2>1 DEF SaveState, SaveFails, LoadInv
  <2>4. InLoad' => InLoad
    BY <1>14, <2>2 DEF SaveState, SaveFails, Exit, InLoad, ExecPC
  <2>. QED
    BY <2>1, <2>2, <2>3, <2>4 DEF LoadInv, LoadReturnsAllOrNothing
<1>15. CASE Leave
  <2>1. st.md.running_input = NoInput
    BY <1>15 DEF Leave, LoadInv, RunningPC, ExecPC
  <2>2. UNCHANGED <<st, saved, shm, returned, who, loading_stage, input_ptr>>
    BY <1>15 DEF Leave
  <2>3. pc = "leave" /\ pc' \in InFuzzingPC \cup {"dead"}
    BY <1>15 DEF Leave, Exit, TypeInv, Control
  <2>4. InLoad' => InLoad
    BY <2>2, <2>3 DEF InLoad, ExecPC, InFuzzingPC
  <2>. QED
    BY <2>1, <2>2, <2>4 DEF LoadInv, LoadReturnsAllOrNothing
<1>16. CASE UNCHANGED vars
  BY <1>16 DEF vars, LoadInv, InLoad, LoadReturnsAllOrNothing
<1>. QED
  BY <1>2, <1>3, <1>4, <1>5, <1>6, <1>7, <1>8, <1>9, <1>10, <1>11, <1>12, <1>13, <1>14,
     <1>15, <1>16
  DEF Next, Task, Execution, Signals, Handlers, Ended

\* The three invariants together.
LEMMA LoadInvariant ==
  ASSUME "FuzzerCrash" \notin CrashStatuses
  PROVE  Spec => [](TypeInv /\ SavedInv /\ LoadInv)
<1>1. Init => TypeInv /\ SavedInv /\ LoadInv
  BY TypeInvInit, SavedInvInit, LoadInvInit
<1>2. (TypeInv /\ SavedInv /\ LoadInv) /\ [Next]_vars => (TypeInv /\ SavedInv /\ LoadInv)'
  BY TypeInvStep, SavedInvStep, LoadInvStep
<1>. QED
  BY <1>1, <1>2, PTL DEF Spec

\* No input of a load is lost, repeated or out of order in the child, in the
\* shared memory or in the restarter, wherever signals, faults and kills fall.
THEOREM NoLoadedInputIsLost ==
  ASSUME "FuzzerCrash" \notin CrashStatuses
  PROVE  Spec => []LoadAccounted
<1>1. LoadInv => LoadAccounted
  BY DEF LoadInv, LoadAccounted, Sound
<1>. QED
  BY <1>1, LoadInvariant, PTL

\* load returns the results of all its inputs, or none at all.
THEOREM LoadsReturnAllOrNothing ==
  ASSUME "FuzzerCrash" \notin CrashStatuses
  PROVE  Spec => []LoadReturnsAllOrNothing
<1>1. LoadInv => LoadReturnsAllOrNothing
  BY DEF LoadInv
<1>. QED
  BY <1>1, LoadInvariant, PTL

-----------------------------------------------------------------------------
(* The handlers.                                                           *)

\* A timeout that interrupted the fuzzer or the target has entered twice.
DepthInv ==
    /\ DepthIsBalanced
    /\ (handler.kind = "alarm" /\ pc \in HandlerPC /\ handler.resume \notin HandlerPC) => depth = 2

\* The initial states.
LEMMA DepthInvInit == Init => DepthInv
BY DEF Init, DepthInv, DepthIsBalanced, FuzzerPC, HandlerPC, NoHandler

\* Only Enter and Leave change the depth.
LEMMA DepthInvStep == TypeInv /\ DepthInv /\ [Next]_vars => DepthInv'
<1>. SUFFICES ASSUME TypeInv, DepthInv, [Next]_vars PROVE DepthInv'
  OBVIOUS
<1>. USE DEF DepthInv, DepthIsBalanced, childVars, handleVars, parentVars, FuzzerPC, HandlerPC
<1>1. CASE Fork
  BY <1>1 DEF Fork, NoHandler
<1>2. CASE Reap
  BY <1>2 DEF Reap
<1>3. CASE Task \/ Execution
  <2>1. UNCHANGED <<depth, handler>>
    BY <1>3 DEF Task, Boot, StartLoad, NextLoadedInput, FinishLoad, Poll, Shutdown,
                NextPendingTestcase, Schedule, StageEvaluates, StagesDone,
                Execution, ArmTimeout, SetInput, TargetReturns, ClearInput, DisarmTimeout,
                PostExecution
  <2>2. pc \in FuzzerPC \cup {"target"} /\ pc' \notin HandlerPC
    <3>1. CASE Task
      BY <3>1 DEF Task, Boot, StartLoad, NextLoadedInput, FinishLoad, Poll, Shutdown, Exit,
                  NextPendingTestcase, Schedule, StageEvaluates, StagesDone
    <3>2. CASE Execution
      BY <3>2 DEF Execution, ArmTimeout, SetInput, TargetReturns, ClearInput, DisarmTimeout,
                  PostExecution, TypeInv, Control, Engaged, ExecPC
    <3>. QED
      BY <1>3, <3>1, <3>2
  <2>. QED
    BY <2>1, <2>2
<1>4. ASSUME NEW kind, Enter(kind), Live PROVE DepthInv'
  <2>. DEFINE inside == depth + (IF kind = "alarm" THEN 2 ELSE 1)
  <2>1. CASE inside >= MaxDepth
    BY <1>4, <2>1 DEF Enter, Exit
  <2>2. CASE ~ (inside >= MaxDepth)
    <3>1. /\ pc' = "dispatch" /\ depth' = inside
          /\ handler' = [kind |-> kind, status |-> "none", resume |-> pc]
      BY <1>4, <2>2 DEF Enter
    <3>2. pc \notin HandlerPC => depth = 0
      BY <1>4 DEF Live, TypeInv, TypeOK, PC
    <3>. QED
      BY <3>1, <3>2
  <2>. QED
    BY <2>1, <2>2
<1>5. CASE Signals
  <2>1. CASE TargetExits \/ Killed
    BY <2>1 DEF TargetExits, Killed, Exit
  <2>2. CASE Alarm \/ TargetCrash \/ TargetPanic \/ TaskFails \/ Fault
    BY <1>4, <2>2 DEF Alarm, TargetCrash, TargetPanic, TaskFails, Fault, Live
  <2>. QED
    BY <1>5, <2>1, <2>2 DEF Signals
<1>6. CASE Dispatch
  <2>1. UNCHANGED depth /\ pc = "dispatch" /\ pc' \in {"dead", "save", "objective"}
    BY <1>6 DEF Dispatch, Exit
  <2>2. handler'.kind = handler.kind /\ handler'.resume = handler.resume
    BY <1>6 DEF Dispatch, TypeInv, TypeOK
  <2>. QED
    BY <2>1, <2>2
<1>7. CASE HandleObjective \/ SaveState \/ SaveFails
  BY <1>7 DEF HandleObjective, SaveState, SaveFails, Exit
<1>8. CASE Leave
  <2>1. CASE handler.status = "Resume"
    <3>1. handler.kind = "alarm" /\ handler.resume \in InFuzzingPC
      BY <2>1 DEF TypeInv, Control
    <3>2. pc = "leave" /\ pc' = handler.resume /\ depth' = depth - 2 /\ handler' = NoHandler
      BY <1>8, <2>1 DEF Leave
    <3>. QED
      BY <3>1, <3>2 DEF InFuzzingPC, NoHandler
  <2>2. CASE handler.status # "Resume"
    BY <1>8, <2>2 DEF Leave, Exit
  <2>. QED
    BY <2>1, <2>2
<1>9. CASE UNCHANGED vars
  BY <1>9 DEF vars
<1>. QED
  BY <1>1, <1>2, <1>3, <1>5, <1>6, <1>7, <1>8, <1>9 DEF Next, Handlers, Ended

\* Both invariants, in every behaviour.
LEMMA DepthInvariant == Spec => [](TypeInv /\ DepthInv)
<1>1. Init => TypeInv /\ DepthInv
  BY TypeInvInit, DepthInvInit
<1>2. (TypeInv /\ DepthInv) /\ [Next]_vars => (TypeInv /\ DepthInv)'
  BY TypeInvStep, DepthInvStep
<1>. QED
  BY <1>1, <1>2, PTL DEF Spec

\* Whenever the fuzzer or the target runs, the handlers have all been left.
THEOREM HandlersAreBalanced == Spec => []DepthIsBalanced
<1>1. TypeInv /\ DepthInv => DepthIsBalanced
  BY DEF DepthInv
<1>. QED
  BY <1>1, DepthInvariant, PTL

-----------------------------------------------------------------------------
(* The first termination.                                                  *)

\* The first termination, if it interrupts the target, is handled with the
\* input of the target, up to the restart or the return to the target.
FirstInv ==
    /\ triggered = 0 => handler = NoHandler
    /\ pc \in FuzzerPC \cup {"target", "unwind"} => handler = NoHandler
    /\ (pc = "target" /\ triggered = 0) => input_ptr # NoInput
    /\ (triggered = 1 /\ handler.resume = "target") =>
         /\ pc = "dispatch" => input_ptr # NoInput
         /\ pc \in {"objective", "save", "leave"} =>
              handler.status \in {"TargetCrash", "Exit", "Resume"}
    /\ TargetCrashRestarts

\* The initial states.
LEMMA FirstInvInit == Init => FirstInv
BY DEF Init, FirstInv, TargetCrashRestarts, NoHandler, FuzzerPC

\* Every step, if the executor does not blame the fuzzer for a crash.
LEMMA FirstInvStep ==
  ASSUME "FuzzerCrash" \notin CrashStatuses, TypeInv, FirstInv, [Next]_vars
  PROVE  FirstInv'
<1>. USE DEF FirstInv, TargetCrashRestarts, childVars, handleVars, parentVars
<1>1. CASE Fork
  BY <1>1 DEF Fork, NoHandler
<1>2. CASE Reap
  BY <1>2 DEF Reap, FuzzerPC
<1>3. CASE Task \/ Execution
  <2>1. UNCHANGED <<handler, triggered>>
    BY <1>3 DEF Task, Boot, StartLoad, NextLoadedInput, FinishLoad, Poll, Shutdown,
                NextPendingTestcase, Schedule, StageEvaluates, StagesDone,
                Execution, ArmTimeout, SetInput, TargetReturns, ClearInput, DisarmTimeout,
                PostExecution
  <2>2. pc' \notin HandlerPC /\ (pc' = "target" => input_ptr' # NoInput)
    <3>1. CASE Task
      BY <3>1 DEF Task, Boot, StartLoad, NextLoadedInput, FinishLoad, Poll, Shutdown, Exit,
                  NextPendingTestcase, Schedule, StageEvaluates, StagesDone, HandlerPC
    <3>2. CASE Execution
      <4>1. NoInput \notin Inputs
        BY LoadAssumption
      <4>. QED
        BY <3>2, <4>1
        DEF Execution, ArmTimeout, SetInput, TargetReturns, ClearInput, DisarmTimeout,
            PostExecution, TypeInv, Control, Engaged, ExecPC, HandlerPC
    <3>. QED
      BY <1>3, <3>1, <3>2
  <2>3. handler = NoHandler
    <3>1. pc \in FuzzerPC \cup {"target"}
      BY <1>3 DEF Task, Boot, StartLoad, NextLoadedInput, FinishLoad, Poll, Shutdown,
                  NextPendingTestcase, Schedule, StageEvaluates, StagesDone, FuzzerPC,
                  Execution, ArmTimeout, SetInput, TargetReturns, ClearInput, DisarmTimeout,
                  PostExecution
    <3>. QED
      BY <3>1
  <2>. QED
    BY <2>1, <2>2, <2>3 DEF HandlerPC, NoHandler
<1>4. ASSUME NEW kind \in Termination, Enter(kind)
      PROVE  FirstInv'
  <2>1. triggered \in Nat /\ triggered' = triggered + 1 /\ UNCHANGED input_ptr
    BY <1>4 DEF Enter, TypeInv, TypeOK
  <2>2. CASE pc' = "dead" /\ UNCHANGED handler
    <3>1. triggered' = 1 => handler.resume # "target"
      BY <2>1 DEF NoHandler
    <3>. QED
      BY <2>1, <2>2, <3>1 DEF FuzzerPC
  <2>3. CASE /\ pc' = "dispatch"
             /\ handler' = [kind |-> kind, status |-> "none", resume |-> pc]
    <3>1. (triggered' = 1 /\ pc = "target") => input_ptr # NoInput
      BY <2>1
    <3>. QED
      BY <2>1, <2>3, <3>1 DEF FuzzerPC
  <2>. QED
    BY <1>4, <2>2, <2>3 DEF Enter, Exit
<1>5. CASE Alarm \/ TargetCrash \/ TargetPanic \/ TaskFails \/ Fault
  BY <1>4, <1>5 DEF Alarm, TargetCrash, TargetPanic, TaskFails, Fault, Termination
<1>6. CASE TargetExits \/ Killed
  <2>1. CASE TargetExits
    <3>1. pc' = "dead" /\ handler = NoHandler /\ UNCHANGED <<handler, triggered>>
      BY <2>1 DEF TargetExits, Exit
    <3>. QED
      BY <3>1 DEF NoHandler, FuzzerPC
  <2>2. CASE Killed
    BY <2>2 DEF Killed, Exit, FuzzerPC
  <2>. QED
    BY <1>6, <2>1, <2>2
<1>7. CASE Dispatch
  <2>1. CASE input_ptr = NoInput
    <3>1. pc' = "dead" /\ UNCHANGED <<handler, triggered>>
      BY <1>7, <2>1 DEF Dispatch, Exit
    <3>2. ~ (triggered = 1 /\ handler.resume = "target")
      BY <1>7, <2>1 DEF Dispatch
    <3>. QED
      BY <3>1, <3>2 DEF FuzzerPC
  <2>2. CASE input_ptr # NoInput
    <3>1. PICK status \in TimeoutStatuses \cup CrashStatuses :
            /\ handler' = [handler EXCEPT !.status = status]
            /\ pc' = IF status = "FuzzerCrash" THEN "save" ELSE "objective"
      BY <1>7, <2>2 DEF Dispatch
    <3>2. status \in {"TargetCrash", "Exit", "Resume"}
      BY FuzzerAssumption
    <3>3. /\ handler'.status = status /\ pc' = "objective" /\ UNCHANGED triggered
      BY <1>7, <3>1, <3>2 DEF Dispatch, TypeInv, TypeOK
    <3>4. triggered # 0
      BY <1>7, <2>2 DEF Dispatch, TypeInv, Control, NoHandler, InFuzzingPC
    <3>. QED
      BY <3>2, <3>3, <3>4 DEF FuzzerPC
  <2>. QED
    BY <2>1, <2>2
<1>8. CASE HandleObjective \/ SaveState
  <2>1. /\ pc \in {"objective", "save"} /\ pc' \in {"save", "leave"}
        /\ UNCHANGED <<handler, triggered>>
    BY <1>8 DEF HandleObjective, SaveState
  <2>. QED
    BY <2>1 DEF FuzzerPC
<1>9. CASE SaveFails
  <2>1. /\ triggered \in Nat /\ triggered' = triggered + 1
        /\ pc' = "dead" /\ UNCHANGED handler
    BY <1>9 DEF SaveFails, Exit, TypeInv, TypeOK
  <2>2. triggered' = 1 => handler.resume # "target"
    BY <2>1 DEF NoHandler
  <2>. QED
    BY <2>1, <2>2 DEF FuzzerPC
<1>10. CASE Leave
  <2>1. CASE handler.status = "Resume"
    <3>1. pc' = handler.resume /\ handler' = NoHandler /\ UNCHANGED triggered
      BY <1>10, <2>1 DEF Leave
    <3>2. triggered # 0
      BY <2>1 DEF NoHandler
    <3>. QED
      BY <3>1, <3>2 DEF NoHandler
  <2>2. CASE handler.status # "Resume"
    <3>1. /\ pc' = "dead" /\ UNCHANGED <<handler, triggered>>
          /\ exit_code' = IF handler.status = "FuzzerCrash" /\ handler.kind = "crash"
                          THEN "SIGNAL" ELSE "RESTART"
      BY <1>10, <2>2 DEF Leave, Exit
    <3>2. (triggered = 1 /\ handler.resume = "target") => handler.status # "FuzzerCrash"
      BY <1>10 DEF Leave
    <3>. QED
      BY <3>1, <3>2 DEF FuzzerPC
  <2>. QED
    BY <2>1, <2>2
<1>11. CASE UNCHANGED vars
  BY <1>11 DEF vars
<1>. QED
  BY <1>1, <1>2, <1>3, <1>5, <1>6, <1>7, <1>8, <1>9, <1>10, <1>11
  DEF Next, Signals, Handlers, Ended

\* A crash, a panic or a timeout of the target, if it is the first termination
\* of a child, is followed by a restart, for which RestartIsSafe holds.
THEOREM TargetCrashesRestart ==
  ASSUME "FuzzerCrash" \notin CrashStatuses
  PROVE  Spec => []TargetCrashRestarts
<1>1. Init => TypeInv /\ FirstInv
  BY TypeInvInit, FirstInvInit
<1>2. (TypeInv /\ FirstInv) /\ [Next]_vars => (TypeInv /\ FirstInv)'
  BY TypeInvStep, FirstInvStep
<1>3. TypeInv /\ FirstInv => TargetCrashRestarts
  BY DEF FirstInv
<1>. QED
  BY <1>1, <1>2, <1>3, PTL DEF Spec
-----------------------------------------------------------------------------
(* The refinement.  A timeout after which the target goes on gives its     *)
(* input a second verdict, hence a further assumption.                     *)

\* What LoadSpec calls left, in terms of the metadata that counts.
Left(md) ==
    [l \in LoadIds |-> IF md.loads[l].opened
                       THEN RunningOf(md, l) \o md.loads[l].inputs_to_run
                       ELSE LoadInputs[l]]

GivenUp ==
    \/ restarter \in {"ok", "err", "exit", "panic"}
    \/ pc = "dead" /\ exit_code # "RESTART"

\* load waits for the verdict of cur, maybe under a handler.
LoadWaits == who = "next" /\ (pc \in ExecPC \cup {"objective"} \/ input_ptr # NoInput)

OrderInv ==
    /\ handler.status # "Resume"
    /\ restarter # "waiting" => pc = "none"
    /\ \A l \in LoadIds : l < loading_stage =>
         st.md.loads[l].opened /\ st.md.loads[l].inputs_to_run = <<>>
    /\ st.md.running_input # NoInput =>
         who = "next" /\ st.md.running_input = [load |-> loading_stage, input |-> cur]
    /\ LoadWaits => st.md.running_input # NoInput

\* The initial states.
LEMMA OrderInvInit == Init => OrderInv
<1>. SUFFICES ASSUME Init PROVE OrderInv
  OBVIOUS
<1>1. st.md.running_input = NoInput
  BY DEF Init, InitialState, EmptyMetadata
<1>2. \A l \in LoadIds : ~ (l < loading_stage)
  <2>1. loading_stage = 0
    BY DEF Init
  <2>2. ASSUME NEW l \in LoadIds PROVE ~ (l < 0)
    <3>1. l \in Nat
      BY LoadAssumption
    <3>. QED
      BY <3>1
  <2>. QED
    BY <2>1, <2>2
<1>. QED
  BY <1>1, <1>2 DEF Init, OrderInv, LoadWaits, NoHandler, ExecPC

\* A result that is recorded leaves the inputs to run as they are.
LEMMA RecordKeepsRest ==
  ASSUME NEW md \in LoaderMetadataType, NEW result \in EvaluationResult, NEW l \in LoadIds
  PROVE  /\ RecordResult(md, result).loads[l].opened = md.loads[l].opened
         /\ RecordResult(md, result).loads[l].inputs_to_run = md.loads[l].inputs_to_run
         /\ RecordResult(md, result).running_input = NoInput
<1>1. CASE md.running_input = NoInput
  BY <1>1 DEF RecordResult
<1>2. CASE md.running_input # NoInput
  <2>. DEFINE r == md.running_input
              e == [input |-> r.input, result |-> result]
  <2>1. r \in [load : LoadIds, input : Inputs] /\ md.loads \in [LoadIds -> Loading]
    BY <1>2 DEF LoaderMetadataType, Running
  <2>2. RecordResult(md, result).running_input = NoInput
        /\ RecordResult(md, result).loads =
             [md.loads EXCEPT ![r.load].ran_inputs = Append(@, e)]
    BY <1>2 DEF RecordResult, LoaderMetadataType
  <2>3. md.loads[l] \in Loading /\ md.loads[r.load] \in Loading
    BY <2>1
  <2>. QED
    BY <2>1, <2>2, <2>3 DEF Loading
<1>. QED
  BY <1>1, <1>2

\* An evaluation, if what runs is recorded.
LEMMA EvaluateMetadata ==
  ASSUME TypeInv, NEW kind \in ExitKind, NEW recorded \in BOOLEAN, Evaluate(kind, recorded)
  PROVE  /\ ~ recorded => st'.md = st.md
         /\ recorded => \E result \in EvaluationResult : st'.md = RecordResult(st.md, result)
<1>1. st \in State
  BY DEF TypeInv, TypeOK
<1>2. PICK verdict \in Verdicts[kind] :
         st' = [AddTestcase(st, cur, verdict) EXCEPT
                    !.md = IF recorded
                           THEN RecordResult(@, [exit_kind |-> kind, verdict |-> verdict])
                           ELSE @]
  BY DEF Evaluate
<1>. DEFINE result == [exit_kind |-> kind, verdict |-> verdict]
            added  == AddTestcase(st, cur, verdict)
<1>3. result \in EvaluationResult
  BY FuzzerAssumption DEF EvaluationResult
<1>4. added \in [md : {st.md}, execs : {added.execs}, pending : {added.pending},
                 corpus : {added.corpus}, objectives : {added.objectives}]
  BY <1>1 DEF AddTestcase, State
<1>5. st'.md = IF recorded THEN RecordResult(st.md, result) ELSE st.md
  <2>. HIDE DEF added, result
  <2>. QED
    BY <1>2, <1>4 DEF added, result
<1>. QED
  BY <1>3, <1>5

\* Every step, if a timeout ends the child and no crash is blamed on the fuzzer.
LEMMA OrderInvStep ==
  ASSUME "FuzzerCrash" \notin CrashStatuses, "Resume" \notin TimeoutStatuses,
         TypeInv, SavedInv, LoadInv, OrderInv, [Next]_vars
  PROVE  OrderInv'
<1>. USE DEF childVars, handleVars, parentVars
<1>1. /\ st \in State /\ st.md \in LoaderMetadataType /\ loading_stage \in Nat
      /\ st.md.loads \in [LoadIds -> Loading] /\ LoadIds \subseteq Nat
  BY LoadAssumption DEF TypeInv, TypeOK, State, LoaderMetadataType
<1>2. CASE Fork
  <2>1. st'.md.running_input = NoInput
    BY <1>2 DEF Fork, LoadInv, Sound
  <2>2. loading_stage' = 0 /\ \A l \in LoadIds : ~ (l < loading_stage')
    BY <1>1, <1>2 DEF Fork
  <2>3. restarter' = "waiting" /\ handler'.status # "Resume" /\ who' = "none"
    BY <1>2 DEF Fork, NoHandler
  <2>. QED
    BY <2>1, <2>2, <2>3 DEF OrderInv, LoadWaits
<1>3. CASE Reap
  <2>1. pc = "dead" /\ pc' = "none"
        /\ UNCHANGED <<st, cur, who, input_ptr, loading_stage, handler>>
    BY <1>3 DEF Reap
  <2>. QED
    BY <2>1 DEF OrderInv, LoadWaits, ExecPC
<1>4. ASSUME pc # "none" PROVE restarter = "waiting"
  BY <1>4 DEF OrderInv
<1>5. CASE StartLoad
  <2>1. st.md.running_input = NoInput /\ input_ptr = NoInput
    BY <1>5 DEF StartLoad, LoadInv, RunningPC, ExecPC, TypeInv, Control, InFuzzingPC
  <2>2. /\ pc = "load" /\ pc' \in {"next", "fuzz"}
        /\ UNCHANGED <<restarter, handler, who, cur, input_ptr, loading_stage>>
    BY <1>5 DEF StartLoad
  <2>3. CASE loading_stage \in LoadIds
    <3>1. st'.md = OpenLoad(st.md, loading_stage)
      BY <1>1, <1>5, <2>3 DEF StartLoad, State
    <3>2. st'.md.running_input = NoInput
      BY <1>1, <2>1, <3>1 DEF OpenLoad, LoaderMetadataType
    <3>3. \A l \in LoadIds : l # loading_stage => st'.md.loads[l] = st.md.loads[l]
      BY <1>1, <2>3, <3>1 DEF OpenLoad, LoaderMetadataType
    <3>4. \A l \in LoadIds : l < loading_stage => l # loading_stage
      BY <1>1
    <3>. QED
      BY <1>4, <2>1, <2>2, <3>2, <3>3, <3>4 DEF OrderInv, LoadWaits, ExecPC
  <2>4. CASE loading_stage \notin LoadIds
    BY <1>4, <1>5, <2>1, <2>2, <2>4 DEF StartLoad, OrderInv, LoadWaits, ExecPC
  <2>. QED
    BY <2>3, <2>4
<1>6. CASE NextLoadedInput
  <2>1. loading_stage \in LoadIds
    BY <1>6 DEF NextLoadedInput, TypeInv, Control
  <2>2. /\ pc = "next" /\ pc' = "arm" /\ who' = "next"
        /\ cur' = Head(st.md.loads[loading_stage].inputs_to_run)
        /\ st.md.loads[loading_stage].inputs_to_run # <<>>
        /\ UNCHANGED <<restarter, handler, input_ptr, loading_stage>>
    BY <1>6 DEF NextLoadedInput
  <2>3. st'.md = NextInput(st.md, loading_stage)
    BY <1>1, <1>6 DEF NextLoadedInput, State
  <2>4. /\ st'.md.running_input = [load |-> loading_stage, input |-> cur']
        /\ \A l \in LoadIds : l # loading_stage => st'.md.loads[l] = st.md.loads[l]
    BY <1>1, <2>1, <2>2, <2>3 DEF NextInput, LoaderMetadataType
  <2>5. cur' \in Inputs
    BY <1>1, <2>1, <2>2, HeadTailProperties DEF Loading
  <2>6. st'.md.running_input # NoInput
    BY <2>1, <2>4, <2>5, LoadAssumption
  <2>7. \A l \in LoadIds : l < loading_stage => l # loading_stage
    BY <1>1
  <2>. QED
    BY <1>4, <2>2, <2>4, <2>6, <2>7 DEF OrderInv
<1>7. CASE FinishLoad
  <2>1. /\ loading_stage \in LoadIds /\ st.md.running_input = NoInput
        /\ st.md.loads[loading_stage].opened /\ input_ptr = NoInput
    BY <1>7 DEF FinishLoad, TypeInv, Control, LoadInv, RunningPC, ExecPC, InLoad, InFuzzingPC
  <2>2. /\ pc = "next" /\ pc' = "load" /\ loading_stage' = loading_stage + 1
        /\ st.md.loads[loading_stage].inputs_to_run = <<>>
        /\ UNCHANGED <<restarter, handler, input_ptr, who, cur>>
    BY <1>7 DEF FinishLoad
  <2>3. NextInput(st.md, loading_stage) = st.md
    BY <1>1, <2>1, <2>2 DEF NextInput, LoaderMetadataType
  <2>4. st'.md = TakeRanInputs(st.md, loading_stage)
    BY <1>1, <1>7, <2>3 DEF FinishLoad, State
  <2>5. /\ st'.md.running_input = NoInput
        /\ \A l \in LoadIds : /\ st'.md.loads[l].opened = st.md.loads[l].opened
                               /\ st'.md.loads[l].inputs_to_run = st.md.loads[l].inputs_to_run
    BY <1>1, <2>1, <2>4 DEF TakeRanInputs, LoaderMetadataType, Loading
  <2>6. \A l \in LoadIds : l < loading_stage' => l < loading_stage \/ l = loading_stage
    BY <1>1, <2>2
  <2>. QED
    BY <1>4, <2>1, <2>2, <2>5, <2>6 DEF OrderInv, LoadWaits, ExecPC
<1>8. CASE Poll \/ NextPendingTestcase \/ StageEvaluates \/ Boot \/ Shutdown \/ Schedule
           \/ StagesDone
  <2>1. st.md.running_input = NoInput /\ input_ptr = NoInput /\ pc # "none"
    BY <1>8 DEF Poll, NextPendingTestcase, StageEvaluates, Boot, Shutdown, Schedule,
                StagesDone, LoadInv, RunningPC, ExecPC, TypeInv, Control, InFuzzingPC
  <2>2. st'.md = st.md
    BY <1>1, <1>8 DEF Poll, NextPendingTestcase, StageEvaluates, Boot, Shutdown, Schedule,
                      StagesDone, State
  <2>3. /\ UNCHANGED <<restarter, handler, input_ptr, loading_stage>>
        /\ pc' \in ExecPC \cup {"objective"} => who' # "next"
    BY <1>8 DEF Poll, NextPendingTestcase, StageEvaluates, Boot, Shutdown, Schedule,
                StagesDone, Exit, ExecPC
  <2>. QED
    BY <1>4, <2>1, <2>2, <2>3 DEF OrderInv, LoadWaits
<1>9. CASE ArmTimeout \/ SetInput \/ TargetReturns \/ ClearInput \/ DisarmTimeout
  <2>1. st'.md = st.md /\ UNCHANGED <<restarter, handler, cur, who, loading_stage>>
    BY <1>1, <1>9 DEF ArmTimeout, SetInput, TargetReturns, ClearInput, DisarmTimeout, State
  <2>2. pc \in ExecPC /\ pc # "none" /\ pc' \in ExecPC \cup {"unwind"}
    BY <1>9 DEF ArmTimeout, SetInput, TargetReturns, ClearInput, DisarmTimeout, ExecPC
  <2>3. LoadWaits' => LoadWaits
    BY <2>1, <2>2 DEF LoadWaits
  <2>. QED
    BY <1>4, <2>1, <2>2, <2>3 DEF OrderInv
<1>10. CASE PostExecution
  <2>1. /\ Engaged /\ pc = "post" /\ input_ptr = NoInput
        /\ pc' = who /\ UNCHANGED <<restarter, handler, input_ptr, who, cur, loading_stage>>
    BY <1>10 DEF PostExecution, TypeInv, Control, ExecPC, InFuzzingPC
  <2>2. PICK kind \in HarnessExits : Evaluate(kind, who = "next")
    BY <1>10 DEF PostExecution
  <2>3. /\ who # "next" => st'.md = st.md
        /\ who = "next" => \E r \in EvaluationResult : st'.md = RecordResult(st.md, r)
    BY <2>2, EvaluateMetadata, FuzzerAssumption
  <2>4. /\ \A l \in LoadIds : /\ st'.md.loads[l].opened = st.md.loads[l].opened
                               /\ st'.md.loads[l].inputs_to_run = st.md.loads[l].inputs_to_run
        /\ st'.md.running_input \in {st.md.running_input, NoInput}
    <3>1. CASE who # "next"
      BY <2>3, <3>1
    <3>2. CASE who = "next"
      <4>1. PICK r \in EvaluationResult : st'.md = RecordResult(st.md, r)
        BY <2>3, <3>2
      <4>2. RecordResult(st.md, r).running_input = NoInput
        BY <1>1, RecordResultAccounted DEF LoadInv
      <4>. QED
        BY <1>1, <4>1, <4>2, RecordKeepsRest
    <3>. QED
      BY <3>1, <3>2
  <2>5. ~ LoadWaits'
    BY <2>1 DEF LoadWaits, ExecPC, Engaged
  <2>. QED
    BY <1>4, <2>1, <2>4, <2>5 DEF OrderInv
<1>11. CASE Signals
  <2>1. UNCHANGED <<st, restarter, who, cur, loading_stage, input_ptr>>
    BY <1>11 DEF Signals, Alarm, TargetCrash, TargetPanic, TaskFails, Fault, TargetExits, Killed, Enter
  <2>2. /\ pc' \in {"dispatch", "dead"} /\ pc # "none"
        /\ handler'.status \in {handler.status, "none"}
    BY <1>11 DEF Signals, Alarm, TargetCrash, TargetPanic, TaskFails, Fault, TargetExits, Killed, Enter, Exit,
                 Live, FuzzerPC, HandlerPC
  <2>. QED
    BY <1>4, <2>1, <2>2 DEF OrderInv, LoadWaits, ExecPC
<1>12. CASE Dispatch
  <2>1. UNCHANGED <<st, restarter, who, cur, loading_stage>>
    BY <1>12 DEF Dispatch
  <2>2. pc = "dispatch" /\ handler'.status # "Resume"
    BY <1>12, FuzzerAssumption DEF Dispatch, OrderInv, TypeInv, TypeOK
  <2>3. LoadWaits' => LoadWaits
    BY <1>12, <2>1, FuzzerAssumption DEF Dispatch, Exit, LoadWaits, ExecPC
  <2>. QED
    BY <1>4, <2>1, <2>2, <2>3 DEF OrderInv
<1>13. CASE HandleObjective
  <2>1. /\ pc = "objective" /\ pc' = "save" /\ input_ptr = NoInput
        /\ UNCHANGED <<restarter, handler, input_ptr, who, cur, loading_stage>>
    BY <1>13 DEF HandleObjective, TypeInv, Control, InFuzzingPC
  <2>2. PICK kind \in {"Timeout", "Crash"} : Evaluate(kind, TRUE)
    BY <1>13 DEF HandleObjective
  <2>3. PICK r \in EvaluationResult : st'.md = RecordResult(st.md, r)
    BY <2>2, EvaluateMetadata DEF ExitKind
  <2>4. /\ \A l \in LoadIds : /\ st'.md.loads[l].opened = st.md.loads[l].opened
                               /\ st'.md.loads[l].inputs_to_run = st.md.loads[l].inputs_to_run
        /\ st'.md.running_input = NoInput
    <3>1. RecordResult(st.md, r).running_input = NoInput
      BY <1>1, RecordResultAccounted DEF LoadInv
    <3>. QED
      BY <1>1, <2>3, <3>1, RecordKeepsRest
  <2>. QED
    BY <1>4, <2>1, <2>4 DEF OrderInv, LoadWaits, ExecPC
<1>14. CASE SaveState \/ SaveFails \/ Leave
  <2>1. /\ pc \in {"save", "leave"} /\ pc' \in {"leave", "dead"}
        /\ UNCHANGED <<st, restarter, handler, who, cur, loading_stage, input_ptr>>
    BY <1>14 DEF SaveState, SaveFails, Leave, Exit, OrderInv
  <2>. QED
    BY <1>4, <2>1 DEF OrderInv, LoadWaits, ExecPC
<1>15. CASE UNCHANGED vars
  BY <1>15 DEF vars, OrderInv, LoadWaits
<1>. QED
  BY <1>2, <1>3, <1>5, <1>6, <1>7, <1>8, <1>9, <1>10, <1>11, <1>12, <1>13, <1>14, <1>15
  DEF Next, Task, Execution, Handlers, Ended

\* A step without a verdict, after which a worker that is given up stays given up.
LEMMA NoVerdict ==
  ASSUME Left(Current'.md) = Left(Current.md), UNCHANGED evaluated, GivenUp => GivenUp'
  PROVE  [Abstract!Next]_(Abstract!vars)
<1>1. CASE GivenUp'
  <2>1. Abstract!GiveUp
    BY <1>1, SMTT(60) DEF Left, GivenUp, Abstract!GiveUp
  <2>. QED
    BY <2>1 DEF Abstract!Next
<1>2. CASE ~ GivenUp'
  <2>1. ~ GivenUp
    BY <1>2
  <2>. QED
    BY <1>2, <2>1, SMTT(60) DEF Left, GivenUp, Abstract!vars
<1>. QED
  BY <1>1, <1>2

\* A step that gives the first input of a load its verdict.
LEMMA OneVerdict ==
  ASSUME NEW l \in LoadIds, ~ GivenUp, ~ GivenUp',
         Left(Current.md)[l] # <<>>,
         \A k \in LoadIds : k < l => Left(Current.md)[k] = <<>>,
         Left(Current'.md) = [Left(Current.md) EXCEPT ![l] = Tail(@)],
         evaluated' = [evaluated EXCEPT ![l] = Append(@, Head(Left(Current.md)[l]))]
  PROVE  Abstract!Next
BY DEF Left, GivenUp, Abstract!Next, Abstract!Evaluate

\* Nothing in front of a sequence, and one element in front of it.
LEMMA InFront ==
  ASSUME NEW S, NEW s \in Seq(S), NEW e \in S
  PROVE  /\ <<>> \o s = s
         /\ <<e>> \o s # <<>> /\ Head(<<e>> \o s) = e /\ Tail(<<e>> \o s) = s
<1>. DEFINE h == <<e>>
            t == h \o s
<1>1. h \in Seq(S) /\ Len(h) = 1 /\ h[1] = e /\ Len(s) \in Nat
  OBVIOUS
<1>2. /\ t \in Seq(S) /\ Len(t) = 1 + Len(s)
      /\ \A i \in 1 .. 1 + Len(s) : t[i] = IF i <= 1 THEN h[i] ELSE s[i - 1]
  BY <1>1, ConcatProperties
<1>. HIDE DEF h, t
<1>3. t # <<>> /\ t[1] = e
  <2>1. 1 \in 1 .. 1 + Len(s) /\ 1 + Len(s) # 0
    BY <1>1
  <2>. QED
    BY <1>1, <1>2, <2>1
<1>4. Head(t) = e
  BY <1>2, <1>3
<1>5. Tail(t) \in Seq(S) /\ Len(Tail(t)) = Len(s) /\ \A i \in 1 .. Len(s) : Tail(t)[i] = s[i]
  <2>1. /\ Tail(t) \in Seq(S) /\ Len(Tail(t)) = Len(t) - 1
        /\ \A i \in 1 .. Len(Tail(t)) : Tail(t)[i] = t[i + 1]
    BY <1>2, <1>3, HeadTailProperties
  <2>2. \A i \in 1 .. Len(s) : i + 1 \in 1 .. 1 + Len(s) /\ ~ (i + 1 <= 1) /\ (i + 1) - 1 = i
    BY <1>1
  <2>. QED
    BY <1>1, <1>2, <2>1, <2>2
<1>6. Tail(t) = s
  BY <1>5, SeqEqual
<1>. QED
  BY <1>3, <1>4, <1>6, ConcatEmptySeq DEF t, h

\* The result of the running input is a verdict of LoadSpec.
LEMMA VerdictStep ==
  ASSUME TypeInv, LoadInv, OrderInv, LoadWaits, InLoad, Engaged,
         NEW result \in EvaluationResult, st'.md = RecordResult(st.md, result),
         evaluated' = [evaluated EXCEPT ![loading_stage] = Append(@, cur)],
         restarter = "waiting", restarter' = "waiting", pc # "dead", pc' # "dead"
  PROVE  Abstract!Next
<1>. DEFINE l == loading_stage
            todo == st.md.loads[l].inputs_to_run
<1>1. /\ l \in LoadIds /\ cur \in Inputs /\ st.md \in LoaderMetadataType
      /\ st.md.loads \in [LoadIds -> Loading] /\ todo \in Seq(Inputs) /\ LoadIds \subseteq Nat
  BY LoadAssumption DEF LoadWaits, Engaged, TypeInv, TypeOK, State, LoaderMetadataType, Loading
<1>2. /\ st.md.running_input # NoInput
      /\ st.md.running_input = [load |-> l, input |-> cur]
      /\ st.md.loads[l].opened
  BY DEF OrderInv, LoadInv
<1>3. /\ <<>> \o todo = todo /\ <<cur>> \o todo # <<>>
      /\ Head(<<cur>> \o todo) = cur /\ Tail(<<cur>> \o todo) = todo
  BY <1>1, InFront
<1>4. Left(st.md)[l] = <<cur>> \o todo
  BY <1>1, <1>2 DEF Left, RunningOf
<1>5. ASSUME NEW k \in LoadIds, k < l PROVE Left(st.md)[k] = <<>>
  <2>1. k # l /\ st.md.loads[k].opened /\ st.md.loads[k].inputs_to_run = <<>>
    BY <1>1, <1>5 DEF OrderInv
  <2>2. <<>> \o <<>> = <<>>
    BY EmptySeq, ConcatEmptySeq
  <2>. QED
    BY <1>2, <2>1, <2>2 DEF Left, RunningOf
<1>6. Left(st'.md) = [Left(st.md) EXCEPT ![l] = Tail(@)]
  <2>1. /\ \A k \in LoadIds : /\ st'.md.loads[k].opened = st.md.loads[k].opened
                              /\ st'.md.loads[k].inputs_to_run = st.md.loads[k].inputs_to_run
        /\ st'.md.running_input = NoInput
    BY <1>1, RecordKeepsRest
  <2>2. ASSUME NEW k \in LoadIds
        PROVE  Left(st'.md)[k] = IF k = l THEN todo ELSE Left(st.md)[k]
    <3>1. RunningOf(st'.md, k) = <<>>
      BY <2>1 DEF RunningOf
    <3>2. k # l => RunningOf(st.md, k) = <<>>
      BY <1>2 DEF RunningOf
    <3>. QED
      BY <1>2, <1>3, <2>1, <3>1, <3>2, ZenonT(60) DEF Left
  <2>3. Left(st'.md) = [k \in LoadIds |-> Left(st'.md)[k]]
        /\ Left(st.md) = [k \in LoadIds |-> Left(st.md)[k]]
    BY DEF Left
  <2>. HIDE DEF l, todo
  <2>. QED
    BY <1>1, <1>3, <1>4, <2>2, <2>3
<1>7. Current = st /\ Current' = st' /\ ~ GivenUp /\ ~ GivenUp'
  BY DEF Current, GivenUp
<1>. QED
  BY <1>1, <1>3, <1>4, <1>5, <1>6, <1>7, OneVerdict

\* Every step of the worker is a verdict, its giving up, or none of LoadSpec.
LEMMA RefinementStep ==
  ASSUME "FuzzerCrash" \notin CrashStatuses, "Resume" \notin TimeoutStatuses,
         TypeInv, SavedInv, LoadInv, OrderInv, [Next]_vars
  PROVE  [Abstract!Next]_(Abstract!vars)
<1>. USE DEF childVars, handleVars, parentVars
<1>1. /\ st \in State /\ st.md \in LoaderMetadataType
      /\ st.md.loads \in [LoadIds -> Loading] /\ LoadIds \subseteq Nat
  BY LoadAssumption DEF TypeInv, TypeOK, State, LoaderMetadataType
<1>2. ASSUME Left(st'.md) = Left(st.md), UNCHANGED <<evaluated, restarter>>,
             pc \notin {"none", "dead"}
      PROVE  [Abstract!Next]_(Abstract!vars)
  <2>1. restarter = "waiting"
    BY <1>2 DEF OrderInv
  <2>. QED
    BY <1>2, <2>1, NoVerdict DEF Current, GivenUp
<1>3. CASE Fork
  <2>1. /\ restarter = "forking" /\ restarter' = "waiting" /\ st' = saved
        /\ pc = "none" /\ UNCHANGED evaluated
    BY <1>3 DEF Fork, SavedInv
  <2>. QED
    BY <2>1, NoVerdict DEF Current, GivenUp
<1>4. CASE Reap
  <2>1. restarter = "waiting" /\ pc = "dead" /\ UNCHANGED <<st, evaluated, exit_code>>
    BY <1>4 DEF Reap
  <2>2. CASE exit_code = "RESTART"
    <3>1. restarter' = "forking" /\ saved' = st
      BY <1>4, <2>1, <2>2 DEF Reap, SavedInv, RestartHasSavedState
    <3>. QED
      BY <2>1, <2>2, <3>1, NoVerdict DEF Current, GivenUp
  <2>3. CASE exit_code # "RESTART"
    <3>1. restarter' \in {"ok", "err", "exit", "panic"}
      BY <1>4, <2>3 DEF Reap
    <3>. QED
      BY <2>1, <3>1, NoVerdict DEF Current, GivenUp
  <2>. QED
    BY <2>2, <2>3
<1>5. CASE StartLoad
  <2>1. st.md.running_input = NoInput
    BY <1>5 DEF StartLoad, LoadInv, RunningPC, ExecPC
  <2>2. pc = "load" /\ UNCHANGED <<evaluated, restarter>>
    BY <1>5 DEF StartLoad
  <2>3. CASE loading_stage \in LoadIds
    <3>1. st'.md = OpenLoad(st.md, loading_stage)
      BY <1>1, <1>5, <2>3 DEF StartLoad, State
    <3>2. CASE st.md.loads[loading_stage].opened
      BY <1>2, <2>2, <3>1, <3>2 DEF OpenLoad
    <3>3. CASE ~ st.md.loads[loading_stage].opened
      <4>1. /\ st'.md.running_input = NoInput
            /\ st'.md.loads[loading_stage].opened
            /\ st'.md.loads[loading_stage].inputs_to_run = LoadInputs[loading_stage]
            /\ \A k \in LoadIds \ {loading_stage} : st'.md.loads[k] = st.md.loads[k]
        BY <1>1, <2>1, <2>3, <3>1, <3>3 DEF OpenLoad, LoaderMetadataType
      <4>2. <<>> \o LoadInputs[loading_stage] = LoadInputs[loading_stage]
        BY <2>3, LoadAssumption, ConcatEmptySeq
      <4>3. Left(st'.md) = Left(st.md)
        BY <2>1, <2>3, <3>3, <4>1, <4>2 DEF Left, RunningOf
      <4>. QED
        BY <1>2, <2>2, <4>3
    <3>. QED
      BY <3>2, <3>3
  <2>4. CASE loading_stage \notin LoadIds
    BY <1>2, <1>5, <2>2, <2>4 DEF StartLoad
  <2>. QED
    BY <2>3, <2>4
<1>6. CASE NextLoadedInput
  <2>. DEFINE todo == st.md.loads[loading_stage].inputs_to_run
  <2>1. /\ loading_stage \in LoadIds /\ st.md.running_input = NoInput
        /\ st.md.loads[loading_stage].opened
    BY <1>6 DEF NextLoadedInput, TypeInv, Control, LoadInv, RunningPC, ExecPC, InLoad
  <2>2. pc = "next" /\ todo # <<>> /\ UNCHANGED <<evaluated, restarter>>
    BY <1>6 DEF NextLoadedInput
  <2>3. st'.md = NextInput(st.md, loading_stage)
    BY <1>1, <1>6 DEF NextLoadedInput, State
  <2>4. todo \in Seq(Inputs) /\ Head(todo) \in Inputs /\ Tail(todo) \in Seq(Inputs)
    BY <1>1, <2>1, <2>2, HeadTailProperties DEF Loading
  <2>5. /\ st'.md.running_input = [load |-> loading_stage, input |-> Head(todo)]
        /\ st'.md.running_input # NoInput
        /\ st'.md.loads[loading_stage].opened
        /\ st'.md.loads[loading_stage].inputs_to_run = Tail(todo)
        /\ \A k \in LoadIds \ {loading_stage} : st'.md.loads[k] = st.md.loads[k]
    BY <1>1, <2>1, <2>2, <2>3, <2>4, LoadAssumption DEF NextInput, LoaderMetadataType, Loading
  <2>6. <<Head(todo)>> \o Tail(todo) = <<>> \o todo
    <3>. HIDE DEF todo
    <3>1. <<>> \o todo = todo
      BY <2>4, ConcatEmptySeq
    <3>2. (<<>> \o <<Head(todo)>>) \o Tail(todo) = <<>> \o todo
      BY <2>2, <2>4, EmptySeq, HeadMoves
    <3>3. <<>> \o <<Head(todo)>> = <<Head(todo)>>
      <4>1. <<Head(todo)>> \in Seq(Inputs)
        BY <2>4
      <4>. QED
        BY <4>1, ConcatEmptySeq
    <3>. QED
      BY <3>2, <3>3
  <2>7. Left(st'.md) = Left(st.md)
    <3>. HIDE DEF todo
    <3>1. ASSUME NEW k \in LoadIds PROVE Left(st'.md)[k] = Left(st.md)[k]
      <4>1. RunningOf(st.md, k) = <<>>
        BY <2>1 DEF RunningOf
      <4>2. CASE k = loading_stage
        <5>1. RunningOf(st'.md, k) = <<Head(todo)>>
          BY <2>5, <4>2 DEF RunningOf
        <5>. QED
          BY <2>1, <2>5, <2>6, <4>1, <4>2, <5>1 DEF Left, todo
      <4>3. CASE k # loading_stage
        <5>1. RunningOf(st'.md, k) = <<>> /\ st'.md.loads[k] = st.md.loads[k]
          BY <2>5, <4>3 DEF RunningOf
        <5>. QED
          BY <4>1, <5>1 DEF Left
      <4>. QED
        BY <4>2, <4>3
    <3>. QED
      BY <3>1 DEF Left
  <2>. QED
    BY <1>2, <2>2, <2>7
<1>7. CASE FinishLoad
  <2>1. loading_stage \in LoadIds /\ st.md.running_input = NoInput
    BY <1>7 DEF FinishLoad, TypeInv, Control, LoadInv, RunningPC, ExecPC
  <2>2. /\ pc = "next" /\ st.md.loads[loading_stage].inputs_to_run = <<>>
        /\ UNCHANGED <<evaluated, restarter>>
    BY <1>7 DEF FinishLoad
  <2>3. NextInput(st.md, loading_stage) = st.md
    BY <1>1, <2>1, <2>2 DEF NextInput, LoaderMetadataType
  <2>4. st'.md = TakeRanInputs(st.md, loading_stage)
    BY <1>1, <1>7, <2>3 DEF FinishLoad, State
  <2>5. /\ st'.md.running_input = st.md.running_input
        /\ \A k \in LoadIds : /\ st'.md.loads[k].opened = st.md.loads[k].opened
                              /\ st'.md.loads[k].inputs_to_run = st.md.loads[k].inputs_to_run
    BY <1>1, <2>1, <2>4 DEF TakeRanInputs, LoaderMetadataType, Loading
  <2>6. Left(st'.md) = Left(st.md)
    BY <2>5 DEF Left, RunningOf
  <2>. QED
    BY <1>2, <2>2, <2>6
<1>8. CASE \/ Poll \/ NextPendingTestcase \/ StageEvaluates \/ Boot \/ Shutdown \/ Schedule
           \/ StagesDone \/ ArmTimeout \/ SetInput \/ TargetReturns \/ ClearInput
           \/ DisarmTimeout \/ Signals \/ Dispatch \/ SaveState \/ SaveFails \/ Leave
  <2>1. UNCHANGED <<evaluated, restarter>> /\ pc \notin {"none", "dead"}
    <3>1. CASE \/ Poll \/ NextPendingTestcase \/ StageEvaluates \/ Boot \/ Shutdown
               \/ Schedule \/ StagesDone
      BY <3>1 DEF Poll, NextPendingTestcase, StageEvaluates, Boot, Shutdown, Schedule, StagesDone
    <3>2. CASE ArmTimeout \/ SetInput \/ TargetReturns \/ ClearInput \/ DisarmTimeout
      BY <3>2 DEF ArmTimeout, SetInput, TargetReturns, ClearInput, DisarmTimeout
    <3>3. CASE Signals
      BY <3>3 DEF Signals, Alarm, TargetCrash, TargetPanic, TaskFails, Fault, TargetExits, Killed, Enter,
                  Live, FuzzerPC, HandlerPC
    <3>4. CASE Dispatch \/ SaveState \/ SaveFails \/ Leave
      BY <3>4 DEF Dispatch, SaveState, SaveFails, Leave
    <3>. QED
      BY <1>8, <3>1, <3>2, <3>3, <3>4
  <2>2. st'.md = st.md
    BY <1>1, <1>8 DEF Poll, NextPendingTestcase, StageEvaluates, Boot, Shutdown, Schedule,
       StagesDone, ArmTimeout, SetInput, TargetReturns, ClearInput, DisarmTimeout, Signals,
       Alarm, TargetCrash, TargetPanic, TaskFails, Fault, TargetExits, Killed, Enter, Dispatch, SaveState,
       SaveFails, Leave, State
  <2>. QED
    BY <1>2, <2>1, <2>2
<1>9. CASE PostExecution
  <2>1. /\ Engaged /\ pc = "post" /\ pc' = who /\ restarter = "waiting"
        /\ UNCHANGED restarter
    BY <1>9 DEF PostExecution, TypeInv, Control, ExecPC, OrderInv
  <2>2. PICK kind \in HarnessExits : Evaluate(kind, who = "next")
    BY <1>9 DEF PostExecution
  <2>3. /\ who # "next" => st'.md = st.md
        /\ who = "next" => \E r \in EvaluationResult : st'.md = RecordResult(st.md, r)
    BY <2>2, EvaluateMetadata, FuzzerAssumption
  <2>4. CASE who # "next"
    BY <1>2, <2>1, <2>2, <2>3, <2>4 DEF Evaluate
  <2>5. CASE who = "next"
    <3>1. evaluated' = [evaluated EXCEPT ![loading_stage] = Append(@, cur)]
      BY <2>2, <2>5 DEF Evaluate
    <3>2. LoadWaits /\ InLoad
      BY <2>1, <2>5 DEF LoadWaits, InLoad, ExecPC
    <3>. QED
      BY <2>1, <2>3, <2>5, <3>1, <3>2, VerdictStep
  <2>. QED
    BY <2>4, <2>5
<1>10. CASE HandleObjective
  <2>1. /\ Engaged /\ pc = "objective" /\ pc' = "save" /\ restarter = "waiting"
        /\ UNCHANGED restarter
    BY <1>10 DEF HandleObjective, TypeInv, Control, OrderInv
  <2>2. PICK kind \in {"Timeout", "Crash"} : Evaluate(kind, TRUE)
    BY <1>10 DEF HandleObjective
  <2>3. PICK r \in EvaluationResult : st'.md = RecordResult(st.md, r)
    BY <2>2, EvaluateMetadata DEF ExitKind
  <2>4. CASE who # "next"
    <3>1. st'.md = st.md /\ UNCHANGED evaluated
      BY <2>2, <2>3, <2>4 DEF Evaluate, OrderInv, RecordResult
    <3>. QED
      BY <1>2, <2>1, <3>1
  <2>5. CASE who = "next"
    <3>1. evaluated' = [evaluated EXCEPT ![loading_stage] = Append(@, cur)]
      BY <2>2, <2>5 DEF Evaluate
    <3>2. LoadWaits /\ InLoad
      BY <2>1, <2>5 DEF LoadWaits, InLoad
    <3>. QED
      BY <2>1, <2>3, <3>1, <3>2, VerdictStep
  <2>. QED
    BY <2>4, <2>5
<1>11. CASE UNCHANGED vars
  BY <1>11, NoVerdict DEF vars, Current, GivenUp
<1>. QED
  BY <1>3, <1>4, <1>5, <1>6, <1>7, <1>8, <1>9, <1>10, <1>11
  DEF Next, Task, Execution, Handlers, Ended

\* The safety part of ImplementsLoadSpec: the inputs of the loads get their verdicts
\* one by one, in order and once each, over any number of crashes and restarts, as
\* long as no executor answers FuzzerCrash or lets the target go on after a timeout.
THEOREM LoadsAreImplemented ==
  ASSUME "FuzzerCrash" \notin CrashStatuses, "Resume" \notin TimeoutStatuses
  PROVE  Spec => Abstract!Init /\ [][Abstract!Next]_(Abstract!vars)
<1>. DEFINE AllInv == TypeInv /\ SavedInv /\ LoadInv /\ OrderInv
<1>1. Init => AllInv
  BY TypeInvInit, SavedInvInit, LoadInvInit, OrderInvInit
<1>2. AllInv /\ [Next]_vars => AllInv'
  BY TypeInvStep, SavedInvStep, LoadInvStep, OrderInvStep
<1>3. Init => Abstract!Init
  <2>. SUFFICES ASSUME Init PROVE Abstract!Init
    OBVIOUS
  <2>1. /\ Current = InitialState /\ restarter = "forking" /\ pc = "none"
        /\ evaluated = [l \in LoadIds |-> <<>>]
    BY DEF Init, Current
  <2>2. \A l \in LoadIds : ~ Current.md.loads[l].opened
    BY <2>1 DEF InitialState, EmptyMetadata
  <2>3. LoadInputs = [l \in LoadIds |-> LoadInputs[l]]
    BY LoadAssumption
  <2>. QED
    BY <2>1, <2>2, <2>3 DEF Abstract!Init
<1>4. AllInv /\ [Next]_vars => [Abstract!Next]_(Abstract!vars)
  BY RefinementStep
<1>. QED
  BY <1>1, <1>2, <1>3, <1>4, PTL DEF Spec

-----------------------------------------------------------------------------
(* The timer.                                                              *)

\* Where the timer runs, from its start to its end.
TimedPC == {"set_input", "target", "clear", "disarm"}

\* The target never runs without an alarm to stop it, unless an executor may answer a
\* timeout by going on.
TargetIsTimed ==
    (pc = "target" /\ HasTimeout /\ "Resume" \notin TimeoutStatuses) => armed

\* Outside of the runs of the target and of what ends them, no alarm is left to come:
\* a handler takes one it gets there for a fault of the fuzzer.
NoAlarmIsLeft ==
    (armed /\ Live) => pc \in TimedPC \cup {"unwind"} \cup HandlerPC

TimerInv ==
    /\ NoAlarmIsLeft
    /\ (HasTimeout /\ "Resume" \notin TimeoutStatuses) => (pc \in TimedPC => armed)
    /\ handler.status = "Resume" => "Resume" \in TimeoutStatuses
    /\ (pc \in HandlerPC /\ handler.kind = "alarm") => ~ armed

\* The initial states.
LEMMA TimerInvInit == Init => TimerInv
BY DEF Init, TimerInv, NoAlarmIsLeft, TimedPC, HandlerPC, NoHandler

\* Every step: only ArmTimeout starts the timer, and DisarmTimeout or the alarm ends it.
LEMMA TimerInvStep == TypeInv /\ TimerInv /\ [Next]_vars => TimerInv'
<1>. SUFFICES ASSUME TypeInv, TimerInv, [Next]_vars PROVE TimerInv'
  OBVIOUS
<1>. USE DEF TimerInv, NoAlarmIsLeft, TimedPC, HandlerPC, Live, childVars, handleVars, parentVars
<1>1. CASE Fork
  BY <1>1 DEF Fork, NoHandler
<1>2. CASE Reap
  BY <1>2 DEF Reap
<1>3. CASE Task
  <2>1. UNCHANGED <<armed, handler>>
    BY <1>3 DEF Task, Boot, StartLoad, NextLoadedInput, FinishLoad, Poll, Shutdown,
                NextPendingTestcase, Schedule, StageEvaluates, StagesDone
  <2>2. /\ pc \in {"boot", "load", "next", "fuzz", "pending", "step", "stages"}
        /\ pc' \in {"load", "next", "arm", "fuzz", "pending", "dead", "step", "unwind", "stages"}
    BY <1>3 DEF Task, Boot, StartLoad, NextLoadedInput, FinishLoad, Poll, Shutdown, Exit,
                NextPendingTestcase, Schedule, StageEvaluates, StagesDone
  <2>. QED
    BY <2>1, <2>2
<1>4. CASE Execution
  <2>1. UNCHANGED handler
    BY <1>4 DEF Execution, ArmTimeout, SetInput, TargetReturns, ClearInput, DisarmTimeout,
                PostExecution
  <2>2. CASE ArmTimeout
    BY <2>1, <2>2 DEF ArmTimeout
  <2>3. CASE SetInput \/ TargetReturns \/ ClearInput
    BY <2>1, <2>3 DEF SetInput, TargetReturns, ClearInput
  <2>4. CASE DisarmTimeout
    BY <2>1, <2>4 DEF DisarmTimeout
  <2>5. CASE PostExecution
    <3>1. pc = "post" /\ pc' \in {"next", "pending", "stages"} /\ UNCHANGED armed
      BY <2>5 DEF PostExecution, TypeInv, Control, Engaged, ExecPC
    <3>. QED
      BY <2>1, <3>1
  <2>. QED
    BY <1>4, <2>2, <2>3, <2>4, <2>5 DEF Execution
<1>5. ASSUME NEW kind \in Termination, Enter(kind), Live,
             kind = "alarm" => ~ armed', kind # "alarm" => UNCHANGED armed
      PROVE  TimerInv'
  <2>1. CASE pc' = "dead" /\ UNCHANGED handler
    BY <2>1
  <2>2. CASE /\ pc' = "dispatch"
             /\ handler' = [kind |-> kind, status |-> "none", resume |-> pc]
    BY <1>5, <2>2
  <2>. QED
    BY <1>5, <2>1, <2>2 DEF Enter, Exit
<1>6. CASE Alarm
  BY <1>5, <1>6 DEF Alarm, Termination
<1>7. CASE TargetCrash \/ TargetPanic \/ TaskFails \/ Fault
  <2>1. PICK kind \in {"crash", "panic"} : Enter(kind)
    BY <1>7 DEF TargetCrash, TargetPanic, TaskFails, Fault
  <2>2. Live /\ UNCHANGED armed
    BY <1>7 DEF TargetCrash, TargetPanic, TaskFails, Fault, FuzzerPC
  <2>. QED
    BY <1>5, <2>1, <2>2 DEF Termination
<1>8. CASE TargetExits \/ Killed
  BY <1>8 DEF TargetExits, Killed, Exit
<1>9. CASE Dispatch
  <2>1. UNCHANGED armed /\ pc = "dispatch" /\ pc' \in {"dead", "save", "objective"}
    BY <1>9 DEF Dispatch, Exit
  <2>2. handler'.kind = handler.kind
    BY <1>9 DEF Dispatch, TypeInv, TypeOK
  <2>3. handler'.status = "Resume" => "Resume" \in TimeoutStatuses
    <3>1. \/ UNCHANGED handler
          \/ \E status \in (IF handler.kind = "alarm" THEN TimeoutStatuses ELSE CrashStatuses) :
                handler' = [handler EXCEPT !.status = status]
      BY <1>9 DEF Dispatch
    <3>2. "Resume" \notin CrashStatuses
      BY FuzzerAssumption
    <3>. QED
      BY <3>1, <3>2 DEF TypeInv, TypeOK
  <2>. QED
    BY <2>1, <2>2, <2>3
<1>10. CASE HandleObjective \/ SaveState \/ SaveFails
  <2>1. UNCHANGED <<armed, handler>> /\ pc \in HandlerPC /\ pc' \in {"save", "leave", "dead"}
    BY <1>10 DEF HandleObjective, SaveState, SaveFails, Exit
  <2>. QED
    BY <2>1
<1>11. CASE Leave
  <2>1. CASE handler.status = "Resume"
    <3>1. "Resume" \in TimeoutStatuses /\ handler.kind = "alarm"
      BY <2>1 DEF TypeInv, Control
    <3>2. pc = "leave" /\ handler' = NoHandler /\ UNCHANGED armed
      BY <1>11, <2>1 DEF Leave
    <3>. QED
      BY <3>1, <3>2 DEF NoHandler
  <2>2. CASE handler.status # "Resume"
    BY <1>11, <2>2 DEF Leave, Exit
  <2>. QED
    BY <2>1, <2>2
<1>12. CASE UNCHANGED vars
  BY <1>12 DEF vars
<1>. QED
  BY <1>1, <1>2, <1>3, <1>4, <1>6, <1>7, <1>8, <1>9, <1>10, <1>11, <1>12
  DEF Next, Signals, Handlers, Ended

\* Every run of the target can be interrupted, whatever crashed, panicked or timed out
\* before it in this child: what HungTargetIsStopped needs of every state.
THEOREM EveryRunIsTimed == Spec => []TargetIsTimed
<1>1. Init => TypeInv /\ TimerInv
  BY TypeInvInit, TimerInvInit
<1>2. (TypeInv /\ TimerInv) /\ [Next]_vars => (TypeInv /\ TimerInv)'
  BY TypeInvStep, TimerInvStep
<1>3. TypeInv /\ TimerInv => TargetIsTimed
  BY DEF TimerInv, TimedPC, TargetIsTimed
<1>. QED
  BY <1>1, <1>2, <1>3, PTL DEF Spec

\* No alarm of a run comes while the fuzzer is at work between two runs.
THEOREM AlarmsStayInTheirRun == Spec => []NoAlarmIsLeft
<1>1. Init => TypeInv /\ TimerInv
  BY TypeInvInit, TimerInvInit
<1>2. (TypeInv /\ TimerInv) /\ [Next]_vars => (TypeInv /\ TimerInv)'
  BY TypeInvStep, TimerInvStep
<1>3. TypeInv /\ TimerInv => NoAlarmIsLeft
  BY DEF TimerInv
<1>. QED
  BY <1>1, <1>2, <1>3, PTL DEF Spec
=============================================================================
