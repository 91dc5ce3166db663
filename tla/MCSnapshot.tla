----------------------------- MODULE MCSnapshot -----------------------------
(***************************************************************************)
(* Snapshot for TLC: two mappings side by side, a heap of one page, and    *)
(* two free pages after it.                                                *)
(***************************************************************************)
EXTENDS Snapshot, TLC

CONSTANTS t1, t2

MCLayout == {[range |-> {1, 2}, perms |-> "rw"],
             [range |-> {3}, perms |-> "ro"],
             [range |-> {4}, perms |-> "rw"]}

MCInitialContent == [p \in Page |-> IF p \in Layed THEN 1 ELSE 0]

MCThread == {t1, t2}
Symmetry == Permutations(MCThread)

\* Before the snapshot is taken only page 1 changes: it then differs from page
\* 2, which is in the same mapping.
Bounded == empty => \A p \in Page : p # 1 => content[p] = MCInitialContent[p]

MCNext == Next /\ Bounded'

MCSpec == Init /\ [][MCNext]_vars
=============================================================================
