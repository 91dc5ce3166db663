--------------------------- MODULE MCOrchestration ---------------------------
(* Small topologies for Orchestration. *)
EXTENDS Orchestration

CONSTANTS a, b, c, t1, t2

ThreeWorkers == {a, b, c}
TwoWorkers == {a, b}

OwnGroup == [w \in {a, b, c} |-> w]
OwnGroupOfTwo == [w \in {a, b} |-> w]

\* a and b share with each other, and b feeds c.
Chain == {<<a, b>>, <<b, a>>, <<b, c>>}

\* a and b share with each other.
Both == {<<a, b>>, <<b, a>>}

\* The worker that a feeds may restart once.
RestartOfB == [w \in {a, b, c} |-> IF w = b THEN 1 ELSE 0]
RestartOfBInTwo == [w \in {a, b} |-> IF w = b THEN 1 ELSE 0]

\* One testcase where the chain begins, one where nothing leads away.
FoundAtTheEnds == {<<a, t1>>, <<c, t2>>}
FoundByA == {<<a, t1>>, <<a, t2>>}
=============================================================================
