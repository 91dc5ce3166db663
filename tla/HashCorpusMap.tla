--------------------------- MODULE HashCorpusMap ---------------------------
(***************************************************************************)
(* The map of testcase ids behind every store of the default build: a hash *)
(* map whose entries are linked in the order they were added, the ids of   *)
(* the first and the last entry, and the sorted history of the ids.        *)
(* A method that unwraps a missing entry has an operator saying when it    *)
(* panics.  Source: crates/libaflmm/src/corpus/store/maps.rs.              *)
(***************************************************************************)
EXTENDS Naturals, Sequences

CONSTANTS
    TestcaseId,  \* hashes of inputs, with their order
    None

ASSUME MapAssumption == TestcaseId \subseteq Nat /\ None \notin TestcaseId

MaybeId == TestcaseId \cup {None}

Link == [prev : MaybeId, next : MaybeId]

MapType ==
    [links : UNION {[ids -> Link] : ids \in SUBSET TestcaseId},
     first : MaybeId, last : MaybeId, history : SUBSET TestcaseId]

EmptyMap == [links |-> <<>>, first |-> None, last |-> None, history |-> {}]

Stored(m) == DOMAIN m.links

\* The entry last_id names has been removed.
AddPanics(m) == m.last # None /\ m.last \notin Stored(m)

\* add: an id that is already there gets a new entry all the same.
MapAdd(m, id) ==
    [links |-> [k \in Stored(m) \cup {id} |->
                  IF k = id THEN [prev |-> m.last, next |-> None]
                  ELSE IF k = m.last THEN [m.links[k] EXCEPT !.next = id]
                  ELSE m.links[k]],
     first |-> IF m.first = None THEN id ELSE m.first,
     last |-> id,
     history |-> m.history \cup {id}]

\* A neighbour of the removed entry is not there.
RemovePanics(m, id) ==
    /\ id \in Stored(m)
    /\ {m.links[id].prev, m.links[id].next} \ {None} \notin SUBSET (Stored(m) \ {id})

\* Mutation of MapRemove: the entry after the removed one keeps its link.
MapRemove_OneSide(m, id) ==
    IF id \notin Stored(m) THEN m
    ELSE [m EXCEPT !.links =
                     [k \in Stored(m) \ {id} |->
                        IF k = m.links[id].prev
                        THEN [m.links[k] EXCEPT !.next = m.links[id].next]
                        ELSE m.links[k]],
                   !.history = @ \ {id}]

\* remove: first_id and last_id stay what they were.
MapRemove(m, id) ==
    IF id \notin Stored(m) THEN m
    ELSE [m EXCEPT !.links =
                     [k \in Stored(m) \ {id} |->
                        [prev |-> IF k = m.links[id].next THEN m.links[id].prev
                                                          ELSE m.links[k].prev,
                         next |-> IF k = m.links[id].prev THEN m.links[id].next
                                                          ELSE m.links[k].next]],
                   !.history = @ \ {id}]

-----------------------------------------------------------------------------
\* The ids of a sequence.
Ids(s) == {s[i] : i \in 1 .. Len(s)}
Distinct(s) == \A i, j \in 1 .. Len(s) : s[i] = s[j] => i = j

\* The entries are the ids of the sequence, linked in its order, newest first.
Chained(m, ids) ==
    /\ Stored(m) = Ids(ids) /\ Distinct(ids)
    /\ \A i \in 1 .. Len(ids) :
         m.links[ids[i]] = [prev |-> IF i = Len(ids) THEN None ELSE ids[i + 1],
                            next |-> IF i = 1 THEN None ELSE ids[i - 1]]
    /\ ids # <<>> => m.last = ids[1]
=============================================================================
