---------------------------- MODULE CachedCorpus ----------------------------
(***************************************************************************)
(* A CombinedCorpus: an on-disk store behind an in-memory store that a     *)
(* cache policy fills, and a queue scheduler.  With FifoCache it is the    *)
(* CachedOnDiskCorpus, with IdentityCache the InMemoryOnDiskCorpus.        *)
(*                                                                         *)
(* A call that panics is the last one.  The maps of the on-disk store are  *)
(* sets of ids here: nothing is ever removed from them, so that their      *)
(* links are not read.  Source: crates/libaflmm/src/corpus.                *)
(***************************************************************************)
EXTENDS HashCorpusMap, FiniteSets

CONSTANTS
    Policies,       \* the caches a corpus is built with: "fifo", "identity"
    MaxLen,         \* cache_max_len
    DisabledId      \* the testcases that may be added disabled

ASSUME CacheAssumption ==
    /\ Policies \subseteq {"fifo", "identity"}
    /\ MaxLen \in Nat
    /\ DisabledId \subseteq TestcaseId

VARIABLES
    policy,     \* the cache policy of the corpus, which it keeps
    cached_ids, \* of FifoCache: newest first
    cache,      \* the enabled and the disabled map of the InMemoryStore
    store,      \* the enabled and the disabled ids of the OnDiskStore
    files,      \* the testcases that are on disk
    queue,      \* of QueueScheduler
    current,    \* its index, or 0
    last_call,  \* the last call and its result
    happened    \* history: what has happened that the properties tell apart

vars == <<policy, cached_ids, cache, store, files, queue, current, last_call, happened>>
cacheVars == <<policy, cached_ids, cache>>
storeVars == <<store, files>>
scheduler == <<queue, current>>

Init ==
    /\ policy \in Policies
    /\ cached_ids = <<>>
    /\ cache = [enabled |-> EmptyMap, disabled |-> EmptyMap]
    /\ store = [enabled |-> {}, disabled |-> {}]
    /\ files = {}
    /\ queue = <<>> /\ current = 0
    /\ last_call = [call |-> "none", id |-> None, result |-> "none"]
    /\ happened = {}

Panicked == last_call.result = "panic"

Call(name, id, result) ==
    /\ last_call' = [call |-> name, id |-> id, result |-> result]
    /\ happened' = happened \cup
         (CASE name = "get_from_all"                  -> {"get_from_all"}
            [] name = "add" /\ result = "io_error"    -> {"failed_save"}
            [] OTHER                                  -> {})

\* Which of the two maps a call with ENABLED works on.
Map(enabled) == IF enabled THEN "enabled" ELSE "disabled"
GetName(enabled) == IF enabled THEN "get" ELSE "get_from_all"

-----------------------------------------------------------------------------
(* The stores.                                                             *)

\* InMemoryStore::add_shared.
CacheAdd(c, enabled, id) == [c EXCEPT ![Map(enabled)] = MapAdd(@, id)]

\* InMemoryStore::remove: the enabled map first.
CacheRemove(c, id) ==
    IF id \in Stored(c.enabled) THEN [c EXCEPT !.enabled = MapRemove(@, id)]
                                ELSE [c EXCEPT !.disabled = MapRemove(@, id)]

CacheRemovePanics(c, id) ==
    IF id \in Stored(c.enabled) THEN RemovePanics(c.enabled, id)
                                ELSE RemovePanics(c.disabled, id)

\* OnDiskStore::get_from: what the maps know, if its file can be read.
StoreHas(enabled, id) == id \in store.enabled \/ (~ enabled /\ id \in store.disabled)

StoreGet(enabled, id) ==
    IF ~ StoreHas(enabled, id) THEN "not_found"
    ELSE IF id \notin files THEN "io_error" ELSE "ok"

-----------------------------------------------------------------------------
(* ScheduledCorpus::add_shared.                                            *)

\* IdentityCache adds to the in-memory store before anything can fail.
CacheOnAdd(enabled, id) ==
    /\ cache' = IF policy = "identity" THEN CacheAdd(cache, enabled, id) ELSE cache
    /\ UNCHANGED <<policy, cached_ids>>

AddDuplicate(enabled, id) ==
    /\ id \in store[Map(enabled)]
    /\ CacheOnAdd(enabled, id)
    /\ Call("add", id, "duplicate")
    /\ UNCHANGED <<storeVars, scheduler>>

\* Mutation of AddStored: the scheduler is not told.
AddStored_Unscheduled(enabled, id) ==
    /\ id \notin store[Map(enabled)]
    /\ CacheOnAdd(enabled, id)
    /\ store' = [store EXCEPT ![Map(enabled)] = @ \cup {id}]
    /\ files' = files \cup {id}
    /\ Call("add", id, "stored")
    /\ UNCHANGED scheduler

\* The map, the file, then the scheduler.
AddStored(enabled, id) ==
    /\ id \notin store[Map(enabled)]
    /\ CacheOnAdd(enabled, id)
    /\ store' = [store EXCEPT ![Map(enabled)] = @ \cup {id}]
    /\ files' = files \cup {id}
    /\ queue' = Append(queue, id)
    /\ Call("add", id, "stored")
    /\ UNCHANGED current

\* The file cannot be written: the id stays in the map.
AddFails(enabled, id) ==
    /\ id \notin store[Map(enabled)]
    /\ CacheOnAdd(enabled, id)
    /\ store' = [store EXCEPT ![Map(enabled)] = @ \cup {id}]
    /\ Call("add", id, "io_error")
    /\ UNCHANGED <<files, scheduler>>

Add(enabled, id) ==
    /\ ~ Panicked
    /\ enabled \/ id \in DisabledId
    /\ AddDuplicate(enabled, id) \/ AddStored(enabled, id) \/ AddFails(enabled, id)

-----------------------------------------------------------------------------
(* Corpus::get and Corpus::get_from_all.                                   *)

Cached(id) == id \in Ids(cached_ids)

\* The cache is read with get, whichever of the two was called.
FifoGetCached(enabled, id) ==
    /\ Cached(id)
    /\ Call(GetName(enabled), id,
            IF id \in Stored(cache.enabled) THEN "ok" ELSE "not_found")
    /\ UNCHANGED <<cacheVars, storeVars, scheduler>>

\* A full cache gives up its oldest id, before the testcase is looked for.
Full == Len(cached_ids) = MaxLen

\* Mutation of Oldest: the wrong end of the list.
Oldest_Newest == cached_ids[1]

Oldest == cached_ids[Len(cached_ids)]
KeptIds == IF Full THEN SubSeq(cached_ids, 1, Len(cached_ids) - 1) ELSE cached_ids
KeptCache == IF Full THEN CacheRemove(cache, Oldest) ELSE cache

FifoPanics(enabled, id) ==
    \/ Full /\ MaxLen = 0
    \/ Full /\ MaxLen > 0 /\ CacheRemovePanics(cache, Oldest)
    \/ /\ ~ (Full /\ MaxLen = 0)
       /\ StoreGet(enabled, id) = "ok"
       /\ AddPanics(KeptCache[Map(enabled)])

FifoGetPanics(enabled, id) ==
    /\ ~ Cached(id)
    /\ FifoPanics(enabled, id)
    /\ Call(GetName(enabled), id, "panic")
    /\ UNCHANGED <<cacheVars, storeVars, scheduler>>

FifoGetMissing(enabled, id) ==
    /\ ~ Cached(id)
    /\ ~ FifoPanics(enabled, id)
    /\ StoreGet(enabled, id) # "ok"
    /\ cached_ids' = KeptIds /\ cache' = KeptCache
    /\ Call(GetName(enabled), id, StoreGet(enabled, id))
    /\ UNCHANGED <<policy, storeVars, scheduler>>

\* Mutation of FifoGetFetched: the cache forgets which testcase it has read.
FifoGetFetched_Unlisted(enabled, id) ==
    /\ ~ Cached(id)
    /\ ~ FifoPanics(enabled, id)
    /\ StoreGet(enabled, id) = "ok"
    /\ cached_ids' = KeptIds
    /\ cache' = CacheAdd(KeptCache, enabled, id)
    /\ Call(GetName(enabled), id, IF id \in Stored(cache'.enabled) THEN "ok" ELSE "not_found")
    /\ UNCHANGED <<policy, storeVars, scheduler>>

\* Mutation of FifoGetFetched: always into the disabled map.
FifoGetFetched_Disabled(enabled, id) ==
    /\ ~ Cached(id)
    /\ ~ FifoPanics(enabled, id)
    /\ StoreGet(enabled, id) = "ok"
    /\ cached_ids' = <<id>> \o KeptIds
    /\ cache' = CacheAdd(KeptCache, FALSE, id)
    /\ Call(GetName(enabled), id, IF id \in Stored(cache'.enabled) THEN "ok" ELSE "not_found")
    /\ UNCHANGED <<policy, storeVars, scheduler>>

\* What is read goes to the map of the call, and is then got from the other.
FifoGetFetched(enabled, id) ==
    /\ ~ Cached(id)
    /\ ~ FifoPanics(enabled, id)
    /\ StoreGet(enabled, id) = "ok"
    /\ cached_ids' = <<id>> \o KeptIds
    /\ cache' = CacheAdd(KeptCache, enabled, id)
    /\ Call(GetName(enabled), id, IF id \in Stored(cache'.enabled) THEN "ok" ELSE "not_found")
    /\ UNCHANGED <<policy, storeVars, scheduler>>

FifoGet(enabled, id) ==
    /\ policy = "fifo"
    /\ \/ FifoGetCached(enabled, id) \/ FifoGetPanics(enabled, id)
       \/ FifoGetMissing(enabled, id) \/ FifoGetFetched(enabled, id)

\* Mutation of IdentityGet: the disabled testcases are looked at in any case.
IdentityGet_All(enabled, id) ==
    /\ policy = "identity"
    /\ LET found == id \in Stored(cache.enabled)
           fetched == ~ found /\ StoreGet(FALSE, id) = "ok" IN
       /\ cache' = IF fetched THEN CacheAdd(cache, enabled, id) ELSE cache
       /\ Call(GetName(enabled), id, IF found THEN "ok" ELSE StoreGet(FALSE, id))
    /\ UNCHANGED <<policy, cached_ids, storeVars, scheduler>>

IdentityGet(enabled, id) ==
    /\ policy = "identity"
    /\ LET found == id \in Stored(cache.enabled)
           fetched == ~ found /\ StoreGet(enabled, id) = "ok" IN
       /\ cache' = IF fetched THEN CacheAdd(cache, enabled, id) ELSE cache
       /\ Call(GetName(enabled), id, IF found THEN "ok" ELSE StoreGet(enabled, id))
    /\ UNCHANGED <<policy, cached_ids, storeVars, scheduler>>

Get(enabled, id) ==
    /\ ~ Panicked
    /\ FifoGet(enabled, id) \/ IdentityGet(enabled, id)

-----------------------------------------------------------------------------
(* QueueScheduler::next.                                                   *)

\* Mutation of Schedule: the queue starts over one testcase too early.
Schedule_ShortRound ==
    /\ ~ Panicked /\ queue # <<>>
    /\ current' = IF current + 1 < Len(queue) THEN current + 1 ELSE 1
    /\ Call("next", queue[current'], "ok")
    /\ UNCHANGED <<cacheVars, storeVars, queue>>

\* Mutation of Schedule: the index is not set back at the end of the queue.
Schedule_NoWrap ==
    /\ ~ Panicked /\ queue # <<>>
    /\ current' = current + 1
    /\ Call("next", queue[(current % Len(queue)) + 1], "ok")
    /\ UNCHANGED <<cacheVars, storeVars, queue>>

Schedule ==
    /\ ~ Panicked /\ queue # <<>>
    /\ current' = IF current + 1 <= Len(queue) THEN current + 1 ELSE 1
    /\ Call("next", queue[current'], "ok")
    /\ UNCHANGED <<cacheVars, storeVars, queue>>

Next ==
    \/ \E id \in TestcaseId, enabled \in BOOLEAN : Add(enabled, id) \/ Get(enabled, id)
    \/ Schedule

Spec == Init /\ [][Next]_vars

\* Every iteration of the fuzzing loop asks the scheduler.
FairSpec == Spec /\ WF_vars(Schedule)

-----------------------------------------------------------------------------
(* Properties.                                                             *)

TypeOK ==
    /\ policy \in Policies
    /\ cached_ids \in Seq(TestcaseId)
    /\ cache \in [enabled : MapType, disabled : MapType]
    /\ store \in [enabled : SUBSET TestcaseId, disabled : SUBSET TestcaseId]
    /\ files \in SUBSET TestcaseId
    /\ queue \in Seq(TestcaseId)
    /\ current \in 0 .. Len(queue)
    /\ last_call \in [call : {"none", "add", "get", "get_from_all", "next"},
                      id : MaybeId,
                      result : {"none", "stored", "duplicate", "ok", "not_found",
                                "io_error", "panic"}]
    /\ happened \subseteq {"get_from_all", "failed_save"}

\* The ids the FIFO cache lists are the ones it holds, each of them once, and
\* never more than it may.
CacheIsListed ==
    policy = "fifo" =>
        /\ Len(cached_ids) <= MaxLen
        /\ Ids(cached_ids) = Stored(cache.enabled) \cup Stored(cache.disabled)
        /\ Stored(cache.enabled) \cap Stored(cache.disabled) = {}
        /\ Distinct(cached_ids)

\* The links of the cached entries stay sound, whichever are evicted, if there
\* is room for two and get_from_all is not used.
NeverPanics ==
    (MaxLen >= 2 /\ "get_from_all" \notin happened) => ~ Panicked

\* What each policy may be used with, for its cache not to be noticed.
MayBeCached ==
    IF policy = "fifo" THEN MaxLen >= 2 /\ "get_from_all" \notin happened
                       ELSE "failed_save" \notin happened

\* A cache is never noticed: get answers as the on-disk store would.
GetIsTransparent ==
    (MayBeCached /\ last_call.call = "get") => last_call.result = StoreGet(TRUE, last_call.id)

\* The scheduler has every testcase that was saved, and every enabled one if
\* no write failed.
QueueIsCorpus ==
    /\ Ids(queue) = files
    /\ "failed_save" \notin happened => store.enabled \subseteq files
    /\ \A i, j \in 1 .. Len(queue) :
         (queue[i] = queue[j] /\ i # j) => queue[i] \in store.disabled

\* However many testcases are added meanwhile, each one gets its turn.
EveryTestcaseIsScheduled ==
    \A id \in TestcaseId :
        id \in Ids(queue) ~>
            (Panicked \/ (last_call.call = "next" /\ last_call.id = id))

-----------------------------------------------------------------------------
(* What the documentation says, and the code does not do.                  *)

\* corpus/mod.rs:67: get_from_all gets a testcase "looking at the enabled and
\* disabled stores."
GetFromAllFinds ==
    (last_call.call = "get_from_all" /\ StoreGet(FALSE, last_call.id) = "ok")
        => last_call.result = "ok"
=============================================================================
