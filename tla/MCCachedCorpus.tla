--------------------------- MODULE MCCachedCorpus ---------------------------
(***************************************************************************)
(* CachedCorpus for TLC.  An identity cache keeps every order in which its *)
(* testcases were added, which FewId bounds; a FIFO cache needs one more   *)
(* testcase than it may hold.                                              *)
(***************************************************************************)
EXTENDS CachedCorpus

CONSTANT FewId      \* the testcases of a corpus with an identity cache

Bounded == policy = "identity" => last_call.id \in FewId \cup {None}

MCNext == Next /\ Bounded'

MCSpec == Init /\ [][MCNext]_vars /\ WF_vars(Schedule)
=============================================================================
