----------------------------- MODULE CorpusMaps -----------------------------
(***************************************************************************)
(* The two implementations of InMemoryCorpusMap, side by side under the    *)
(* same calls, against the order in which the ids were added.              *)
(* Source: crates/libaflmm/src/corpus/store/maps.rs.                       *)
(***************************************************************************)
EXTENDS HashCorpusMap, FiniteSets

VARIABLES
    hash,    \* a HashCorpusMap
    btree,   \* a BtreeCorpusMap: the keys of its map
    history, \* its history
    order,   \* the ids in the map, newest first
    in_order \* has no id been added again, and no newest id been removed?

mapVars == <<hash, btree, history, order, in_order>>

MapsInit ==
    /\ hash = EmptyMap /\ btree = {} /\ history = {}
    /\ order = <<>> /\ in_order = TRUE

\* The order without an id, and where the id is in it.
Place(id) == CHOOSE i \in 1 .. Len(order) : order[i] = id
Without(id) ==
    IF id \in Ids(order)
    THEN SubSeq(order, 1, Place(id) - 1) \o SubSeq(order, Place(id) + 1, Len(order))
    ELSE order

\* Adding again an id that is there makes it the newest one.
AddToMaps(id) ==
    /\ ~ AddPanics(hash)
    /\ hash' = MapAdd(hash, id)
    /\ btree' = btree \cup {id}
    /\ history' = history \cup {id}
    /\ order' = <<id>> \o Without(id)
    /\ in_order' = (in_order /\ id \notin Stored(hash))

\* Mutation of RemoveFromMaps: the history of the tree map keeps the id.
RemoveFromMaps_NoHistory(id) ==
    /\ id \in Stored(hash)
    /\ ~ RemovePanics(hash, id)
    /\ hash' = MapRemove(hash, id)
    /\ btree' = btree \ {id}
    /\ order' = Without(id)
    /\ in_order' = (in_order /\ id # order[1])
    /\ UNCHANGED history

RemoveFromMaps(id) ==
    /\ id \in Stored(hash)
    /\ ~ RemovePanics(hash, id)
    /\ hash' = MapRemove(hash, id)
    /\ btree' = btree \ {id}
    /\ history' = history \ {id}
    /\ order' = Without(id)
    /\ in_order' = (in_order /\ id # order[1])

MapsNext == \E id \in TestcaseId : AddToMaps(id) \/ RemoveFromMaps(id)

MapsSpec == MapsInit /\ [][MapsNext]_mapVars

-----------------------------------------------------------------------------
(* Properties.                                                             *)

\* Ids that are added once and removed only while a newer one is there stay
\* linked in the order they were added: prev and next walk all of the map.
LinkedInOrder == in_order => Chained(hash, order)

\* Whatever is added again or removed, nth counts over the ids that are there,
\* in both maps the same ones.
HistoriesAgree ==
    hash.history = Stored(hash) /\ history = btree /\ btree = Stored(hash)
=============================================================================
