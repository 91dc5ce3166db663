--------------------------- MODULE LoaderMetadata ---------------------------
(***************************************************************************)
(* The bookkeeping of StdFuzzer::load: which inputs of which load are      *)
(* still to run, which one is running and which have a result.  It is part *)
(* of the serialized fuzzer state, so it is what survives a restart.       *)
(*                                                                         *)
(* Source: crates/libaflmm/src/fuzzers/standard.rs.                        *)
(***************************************************************************)
EXTENDS Naturals, Sequences

CONSTANTS
    LoadIds,     \* the load calls of one task: 0 .. n-1, the values of loading_stage
    Inputs,      \* the inputs of the target
    LoadInputs,  \* LoadInputs[l]: what inputs_fn of load l returns
    NoInput      \* the None of running_input (and of input_ptr)

ASSUME LoadAssumption ==
    /\ LoadIds \subseteq Nat
    /\ LoadInputs \in [LoadIds -> Seq(Inputs)]
    /\ NoInput \notin Inputs
    /\ NoInput \notin [load : LoadIds, input : Inputs]

\* The ways an execution ends, as far as the handlers tell them apart.
ExitKind == {"Ok", "Crash", "Timeout"}

\* What the feedbacks decide of an execution.
Verdict == {"Uninteresting", "Corpus", "Objective"}

\* The result of an evaluation.
EvaluationResult == [exit_kind : ExitKind, verdict : Verdict]

\* An input that was run, with its result.
RanInput == [input : Inputs, result : EvaluationResult]

\* One load.  "opened" is the presence of its key in the map of loads.
Loading == [opened : BOOLEAN, inputs_to_run : Seq(Inputs), ran_inputs : Seq(RanInput)]

\* What running_input holds.
Running == {NoInput} \cup [load : LoadIds, input : Inputs]

LoaderMetadataType == [loads : [LoadIds -> Loading], running_input : Running]

\* LoaderMetadata::default().
EmptyMetadata ==
    [loads |-> [l \in LoadIds |->
                  [opened |-> FALSE, inputs_to_run |-> <<>>, ran_inputs |-> <<>>]],
     running_input |-> NoInput]

\* The entry check of load: inputs_fn runs once per load, not once per process.
OpenLoad(md, l) ==
    IF md.loads[l].opened
    THEN md
    ELSE [md EXCEPT !.loads[l] = [opened        |-> TRUE,
                                  inputs_to_run |-> LoadInputs[l],
                                  ran_inputs    |-> <<>>]]

\* Mutation of NextInput: the running input is filed under the next load.
NextInput_NextStage(md, l) ==
    LET todo == md.loads[l].inputs_to_run IN
    IF todo = <<>>
    THEN [md EXCEPT !.running_input = NoInput]
    ELSE [md EXCEPT !.running_input = [load |-> l + 1, input |-> Head(todo)],
                    !.loads[l].inputs_to_run = Tail(todo)]

\* next_input: a running input that was not recorded is dropped, then the
\* first input to run, if any, becomes the running one.
NextInput(md, l) ==
    LET todo == md.loads[l].inputs_to_run IN
    IF todo = <<>>
    THEN [md EXCEPT !.running_input = NoInput]
    ELSE [md EXCEPT !.running_input = [load |-> l, input |-> Head(todo)],
                    !.loads[l].inputs_to_run = Tail(todo)]

\* Mutation of RecordResult: the running input is taken, its result is not kept.
RecordResult_Dropped(md, result) == [md EXCEPT !.running_input = NoInput]

\* record_result: without a running input there is nothing to record.
RecordResult(md, result) ==
    IF md.running_input = NoInput
    THEN md
    ELSE [md EXCEPT !.loads[md.running_input.load].ran_inputs =
                        Append(@, [input |-> md.running_input.input, result |-> result]),
                    !.running_input = NoInput]

\* Mutation of TakeRanInputs: only the first result is taken.
TakeRanInputs_First(md, l) ==
    [md EXCEPT !.loads[l].ran_inputs = IF @ = <<>> THEN @ ELSE Tail(@)]

\* take_ran_inputs: the results move to the caller, the load keeps none.
TakeRanInputs(md, l) == [md EXCEPT !.loads[l].ran_inputs = <<>>]

-----------------------------------------------------------------------------
\* The inputs of a sequence of results.
InputsOf(ran) == [i \in DOMAIN ran |-> ran[i].input]

\* The input of load l that is running according to md, as a sequence.
RunningOf(md, l) ==
    IF md.running_input # NoInput /\ md.running_input.load = l
    THEN <<md.running_input.input>>
    ELSE <<>>

\* A load that was opened still owes what it has not run, and has a result
\* for the rest; one whose results were taken owes nothing.
Accounted(md) ==
    \A l \in LoadIds : md.loads[l].opened =>
        LET load == md.loads[l] IN
        \/ InputsOf(load.ran_inputs) \o RunningOf(md, l) \o load.inputs_to_run = LoadInputs[l]
        \/ load.ran_inputs = <<>> /\ RunningOf(md, l) = <<>> /\ load.inputs_to_run = <<>>
=============================================================================
