------------------------ MODULE MCRestartingFuzzer ------------------------
(* Small instances of RestartingFuzzer for TLC.                            *)
EXTENDS RestartingFuzzer, TLC

CONSTANTS a, b

\* Two loads, the second one sharing an input with the first.
MCLoadIds == {0, 1}
MCInputs == {a, b}
MCLoadInputs == (0 :> <<a, b>>) @@ (1 :> <<a>>)

\* The usual feedbacks: what ends normally may be worth keeping, a crash or a
\* timeout may be a new objective or a known one.
MCVerdicts ==
    [k \in ExitKind |-> IF k = "Ok" THEN {"Uninteresting", "Corpus"}
                                    ELSE {"Uninteresting", "Objective"}]
=============================================================================
