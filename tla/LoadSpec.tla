------------------------------ MODULE LoadSpec ------------------------------
(***************************************************************************)
(* What Loader::load promises to the task, whatever happens to the process *)
(* in between ("It must be able to resume if the runtime restarts",        *)
(* crates/libaflmm/src/fuzzers/mod.rs:121): the inputs of the loads are    *)
(* evaluated one by one, in order, each of them once, until all are done   *)
(* or the worker is given up for good.                                     *)
(***************************************************************************)
EXTENDS Naturals, Sequences

CONSTANTS LoadIds, LoadInputs

VARIABLES
    left,     \* left[l]: the inputs of load l without a verdict
    done,     \* done[l]: the inputs of load l with one
    given_up  \* has the worker been given up?

vars == <<left, done, given_up>>

Init ==
    /\ left = LoadInputs
    /\ done = [l \in LoadIds |-> <<>>]
    /\ given_up = FALSE

\* The first input of the first unfinished load gets its verdict.
Evaluate ==
    \E l \in LoadIds :
        /\ ~given_up
        /\ left[l] # <<>>
        /\ \A k \in LoadIds : k < l => left[k] = <<>>
        /\ done' = [done EXCEPT ![l] = Append(@, Head(left[l]))]
        /\ left' = [left EXCEPT ![l] = Tail(@)]
        /\ UNCHANGED given_up

GiveUp ==
    /\ given_up' = TRUE
    /\ UNCHANGED <<left, done>>

Next == Evaluate \/ GiveUp

Spec == Init /\ [][Next]_vars /\ WF_vars(Evaluate)
=============================================================================
