------------------------------ MODULE Snapshot ------------------------------
(***************************************************************************)
(* The SnapshotModule of libaflmm_qemu: the memory of a user-mode target   *)
(* is saved before the first execution and put back before each later one, *)
(* from the pages the target was seen to write and the calls that change   *)
(* its mappings.  Source: crates/libaflmm_qemu/src/modules/usermode/       *)
(* snapshot.rs.                                                            *)
(*                                                                         *)
(* An interval is the set of its pages.  The module's `pages', `maps' and  *)
(* `brk' are the record snap.  Left out: interval filters, the mmap limit, *)
(* manual resets, and break addresses inside a page.                       *)
(***************************************************************************)
EXTENDS Integers, FiniteSets

CONSTANTS
    LastPage,       \* page 0 is never mapped, the others may be
    Layout,         \* the mappings when the snapshot is taken: [range, perms]
    InitialBrk,     \* where the heap starts, and where it ends when the
    SnapshotBrk,    \*   snapshot is taken
    Value,          \* contents of a page
    Zero,
    InitialContent,
    NoData,         \* of a page that could not be read
    Thread,
    CacheLen,       \* the pages a thread remembers (4 in the code)
    MaxLen,         \* bound: pages of a range that a call is given
    StartSteps,     \* bounds: guest steps before the snapshot is taken,
    MaxSteps        \*   and of an execution

Page == 1 .. LastPage
Perms == {"none", "ro", "rw"}

\* In pages: Range(s, n) are the n pages from s.
Range(s, n) == s .. (s + n - 1)

Layed == UNION {m.range : m \in Layout}

ASSUME SnapshotAssumption ==
    /\ LastPage \in Nat /\ CacheLen \in Nat \ {0} /\ MaxLen \in Nat
    /\ StartSteps \in Nat /\ MaxSteps \in Nat
    /\ Layout \subseteq [range : SUBSET Page, perms : Perms]
    /\ \A m \in Layout : m.range # {}
    /\ \A m, o \in Layout : m.range \cap o.range # {} => m = o
    /\ InitialBrk \in Page /\ SnapshotBrk \in Page /\ InitialBrk <= SnapshotBrk
    /\ Zero \in Value /\ NoData \notin Value
    /\ InitialContent \in [Page -> Value]
    /\ \A p \in Page \ Layed : InitialContent[p] = Zero

VARIABLES
    perm, content, brk, \* the guest's memory and its break
    snap,               \* pages (data by page), maps, brk
    empty,              \* no snapshot has been taken yet
    new_maps,           \* the mappings as the module follows them
    dirty,              \* of SnapshotAccessInfo, by thread
    cache, cache_idx,
    panicked,
    before,             \* history: the guest when the snapshot was taken
    lost,               \* history: pages the heap lost while they were not dirty
    restored,           \* history: what the last reset did: none, same, differs
    mishaps,            \* history: calls that the module is not made for
    steps               \* bound: guest steps since the last reset

vars == <<perm, content, brk, snap, empty, new_maps, dirty, cache, cache_idx,
          panicked, before, lost, restored, mishaps, steps>>
guest == <<perm, content, brk>>
accesses == <<dirty, cache, cache_idx>>
saved == <<snap, empty, before>>

NullPage == 0 \* an empty slot: access_cache is 0 at first and MAX when cleared
CacheSlot == 0 .. (CacheLen - 1)
EmptyCache == [t \in Thread |-> [i \in CacheSlot |-> NullPage]]

Unmapped == {p \in Page : perm[p] = "unmapped"}
SnapPages == UNION {m.range : m \in snap.maps}
Dirty == UNION {dirty[t] : t \in Thread}

Init ==
    /\ perm = [p \in Page |-> IF p \in Layed
                              THEN (CHOOSE m \in Layout : p \in m.range).perms
                              ELSE "unmapped"]
    /\ content = InitialContent
    /\ brk = SnapshotBrk
    /\ snap = [pages |-> [p \in {} |-> NoData], maps |-> {}, brk |-> 0]
    /\ empty = TRUE
    /\ new_maps = {}
    /\ dirty = [t \in Thread |-> {}]
    /\ cache = EmptyCache
    /\ cache_idx = [t \in Thread |-> 0]
    /\ panicked = FALSE
    /\ before = [perm |-> perm, content |-> content, brk |-> brk]
    /\ lost = {}
    /\ restored = "none"
    /\ mishaps = {}
    /\ steps = 0

-----------------------------------------------------------------------------
(* The intervals of new_maps.                                              *)

Region(r, perms, changed) == [range |-> r, perms |-> perms, changed |-> changed]

Overlapping(maps, r) == {e \in maps : e.range \cap r # {}}

\* IntervalTree::insert: one value for each interval.
Insert(maps, r, perms, changed) ==
    {e \in maps : e.range # r} \cup {Region(r, perms, changed)}

Below(e, r) == {p \in e.range : \A q \in e.range \cap r : p < q}
Above(e, r) == {p \in e.range : \A q \in e.range \cap r : p > q}

\* What is left of the intervals that overlap R when R is cut out of them.
Remainders(maps, r) ==
    {x \in {Region(Below(e, r), e.perms, TRUE) : e \in Overlapping(maps, r)} \cup
           {Region(Above(e, r), e.perms, TRUE) : e \in Overlapping(maps, r)} :
       x.range # {}}

CutOut(maps, r) ==
    {e \in maps : /\ e.range \cap r = {}
                  /\ \A x \in Remainders(maps, r) : x.range # e.range}
    \cup Remainders(maps, r)

\* The pages that remove_mapped marks: all of the intervals it meets.
Touched(maps, r) == UNION {e.range : e \in Overlapping(maps, r)}

\* new_maps knows something where the snapshot has M.
InPlace(m) == Overlapping(new_maps, m.range) # {}

-----------------------------------------------------------------------------
(* The guest runs.  A call is made by thread T; the kernel does it, then   *)
(* the hook of the module sees its result.                                 *)

\* Bounds: guest steps before the snapshot and of one execution, and a call
\* that the module is not made for is the guest's last one.
Running ==
    /\ ~ panicked /\ mishaps = {}
    /\ steps < IF empty THEN StartSteps ELSE MaxSteps

RanLosing(labels, pages) ==
    /\ mishaps' = labels
    /\ lost' = lost \cup pages
    /\ steps' = steps + 1
    /\ UNCHANGED <<saved, panicked, restored>>

Ran(labels) == RanLosing(labels, {})

\* page_access: a page that the thread remembers is not marked again.
PageAccess(t, p) ==
    IF \E i \in CacheSlot : cache[t][i] = p
    THEN UNCHANGED accesses
    ELSE /\ cache' = [cache EXCEPT ![t][cache_idx[t]] = p]
         /\ cache_idx' = [cache_idx EXCEPT ![t] = (@ + 1) % CacheLen]
         /\ dirty' = [dirty EXCEPT ![t] = @ \cup {p}]

\* page_access_no_cache.
MarkDirty(t, pages) ==
    /\ dirty' = [dirty EXCEPT ![t] = @ \cup pages]
    /\ UNCHANGED <<cache, cache_idx>>

\* A traced write, also one of the system calls that fill a buffer.
Write(t, p, v) ==
    /\ Running
    /\ perm[p] = "rw"
    /\ content' = [content EXCEPT ![p] = v]
    /\ PageAccess(t, p)
    /\ Ran({})
    /\ UNCHANGED <<perm, brk, new_maps>>

\* mmap, at an address the kernel finds free or, with MAP_FIXED, anywhere.
Mmap(s, n, perms) ==
    LET r == Range(s, n) IN
    /\ Running /\ ~ empty
    /\ perm' = [p \in Page |-> IF p \in r THEN perms ELSE perm[p]]
    /\ content' = [p \in Page |-> IF p \in r THEN Zero ELSE content[p]]
    /\ new_maps' = Insert(new_maps, r, perms, TRUE)
    /\ Ran(IF r \cap SnapPages = {} THEN {} ELSE {"mapped_over"})
    /\ UNCHANGED <<brk, accesses>>

\* munmap: filter_mmap_snapshot skips the call when it would take pages of
\* the snapshot away, and the guest is told that it succeeded.
Munmap(t, s, n) ==
    LET r == Range(s, n) IN
    /\ Running /\ ~ empty
    /\ IF r \cap SnapPages # {}
       THEN UNCHANGED <<perm, content, new_maps, accesses>>
       ELSE /\ perm' = [p \in Page |-> IF p \in r THEN "unmapped" ELSE perm[p]]
            /\ content' = [p \in Page |-> IF p \in r THEN Zero ELSE content[p]]
            /\ new_maps' = CutOut(new_maps, r)
            /\ MarkDirty(t, Touched(new_maps, r))
    /\ Ran({})
    /\ UNCHANGED brk

\* mprotect, then change_mapped_perms: one interval for all of the range.
Mprotect(s, n, perms) ==
    LET r == Range(s, n)
        within == \E m \in snap.maps : r \subseteq m.range /\ InPlace(m)
    IN
    /\ Running /\ ~ empty
    /\ r \cap Unmapped = {}
    /\ perm' = [p \in Page |-> IF p \in r THEN perms ELSE perm[p]]
    /\ new_maps' = Insert(CutOut(new_maps, r), r, perms, TRUE)
    /\ Ran(IF within \/ r \cap SnapPages = {} THEN {} ELSE {"protected_across"})
    /\ UNCHANGED <<content, brk, accesses>>

\* mremap of a range with one protection, to a place that is free or that it
\* already has, then remove_mapped and add_mapped with no permissions.
Mremap(t, s, n, s2, n2) ==
    LET old == Range(s, n)
        new == Range(s2, n2)
        whole == \E m \in snap.maps : m.range = old /\ InPlace(m)
    IN
    /\ Running /\ ~ empty
    /\ \A p \in old : perm[p] = perm[s] /\ perm[s] # "unmapped"
    /\ IF s2 = s THEN new \ old \subseteq Unmapped ELSE new \subseteq Unmapped
    /\ perm' = [p \in Page |-> IF p \in new THEN perm[s]
                               ELSE IF p \in old THEN "unmapped" ELSE perm[p]]
    /\ content' = [p \in Page |->
         IF p \in new
         THEN IF p - s2 < n THEN content[s + p - s2] ELSE Zero
         ELSE IF p \in old THEN Zero ELSE content[p]]
    /\ new_maps' = Insert(CutOut(new_maps, old), new, "unknown", TRUE)
    /\ MarkDirty(t, Touched(new_maps, old))
    /\ Ran(IF new \cap SnapPages = {} /\ (old \cap SnapPages = {} \/ whole)
           THEN {} ELSE {"moved_partly"})
    /\ UNCHANGED brk

\* brk is not traced: reset compares the break with that of the snapshot.
BrkGrow(b) ==
    LET r == brk .. (b - 1) IN
    /\ Running /\ ~ empty
    /\ b > brk /\ r \subseteq Unmapped
    /\ brk' = b
    /\ perm' = [p \in Page |-> IF p \in r THEN "rw" ELSE perm[p]]
    /\ Ran(IF r \cap SnapPages \subseteq InitialBrk .. (snap.brk - 1)
           THEN {} ELSE {"grown_over"})
    /\ UNCHANGED <<content, new_maps, accesses>>

\* What a shrinking heap loses is not traced either: it is forgotten that a
\* page was taken away which no write has marked, and a protection other than
\* that of a heap.
BrkShrink(b) ==
    LET r == b .. (brk - 1)
        heap == UNION {m.range : m \in {o \in snap.maps : o.perms = "rw"}}
        taken == b .. (snap.brk - 1)
    IN
    /\ Running /\ ~ empty
    /\ b < brk /\ b >= InitialBrk
    /\ brk' = b
    /\ perm' = [p \in Page |-> IF p \in r THEN "unmapped" ELSE perm[p]]
    /\ content' = [p \in Page |-> IF p \in r THEN Zero ELSE content[p]]
    /\ RanLosing(IF taken \subseteq heap THEN {} ELSE {"shrunk"}, taken \ Dirty)
    /\ UNCHANGED <<new_maps, accesses>>

\* A call that fails leaves the memory alone, but the hook sees a failure in -1
\* only: after any other error it follows the call as if it had been done.  The
\* error number is then where mmap and mremap are taken to have mapped: nowhere.
CallFails(t, s, n) ==
    LET r == Range(s, n) IN
    /\ Running /\ ~ empty
    /\ \/ /\ new_maps' = CutOut(new_maps, r)
          /\ MarkDirty(t, Touched(new_maps, r))
          /\ \/ r \cap SnapPages = {} /\ Ran({"failed"})
             \/ Ran({"failed", "nowhere"})
       \/ /\ \E perms \in Perms :
               new_maps' = Insert(CutOut(new_maps, r), r, perms, TRUE)
          /\ Ran({"failed"})
          /\ UNCHANGED accesses
       \/ Ran({"failed", "nowhere"}) /\ UNCHANGED <<new_maps, accesses>>
    /\ UNCHANGED guest

-----------------------------------------------------------------------------
(* pre_exec.                                                               *)

\* For the mutants: a thread goes on remembering pages it has marked.
ClearAccesses_CacheKept ==
    /\ dirty' = [t \in Thread |-> {}]
    /\ UNCHANGED <<cache, cache_idx>>

\* SnapshotAccessInfo::clear, of every thread.
ClearAccesses ==
    /\ dirty' = [t \in Thread |-> {}]
    /\ cache' = EmptyCache
    /\ cache_idx' = [t \in Thread |-> 0]

\* snapshot: every mapped page, with its data if it can be read.
Snapshot ==
    /\ empty
    /\ snap' = [pages |-> [p \in Page \ Unmapped |->
                             IF perm[p] = "none" THEN NoData ELSE content[p]],
                maps |-> {Region(m.range, m.perms, FALSE) : m \in Layout},
                brk |-> brk]
    /\ new_maps' = snap'.maps
    /\ empty' = FALSE
    /\ before' = [perm |-> perm, content |-> content, brk |-> brk]
    /\ steps' = 0
    /\ ClearAccesses
    /\ UNCHANGED <<guest, panicked, lost, restored, mishaps>>

(* reset, as the guest's memory after each of its parts.  First the heap:  *)
(* it gets the pages back that it has lost, and loses those it has gained. *)

Regained == brk .. (snap.brk - 1)
Gained == snap.brk .. (brk - 1)

BrkPerm == [p \in Page |-> IF p \in Regained THEN "rw"
                           ELSE IF p \in Gained THEN "unmapped" ELSE perm[p]]
BrkContent == [p \in Page |-> IF p \in Regained \cup Gained THEN Zero ELSE content[p]]

(* Then the dirty pages that lie in a mapping; modify_mapping makes the    *)
(* mappings writable and tells whether there is one.  The other dirty      *)
(* pages of the snapshot are kept for later.                               *)

DirtySaved == Dirty \cap DOMAIN snap.pages
Unsaved == {p \in DirtySaved : snap.pages[p] = NoData}
WrittenFirst == {p \in DirtySaved : Overlapping(new_maps, {p}) # {}}
Later == DirtySaved \ WrittenFirst

MadeWritable == {e \in Overlapping(new_maps, WrittenFirst) : e.perms # "rw"}
ModifiedMaps == (new_maps \ MadeWritable)
                \cup {Region(e.range, "rw", TRUE) : e \in MadeWritable}

\* The result of this mprotect is dropped: it may fail.
FirstPerm ==
    [p \in Page |->
       IF \E e \in MadeWritable :
            p \in e.range /\ \A q \in e.range : BrkPerm[q] # "unmapped"
       THEN "rw" ELSE BrkPerm[p]]
FirstContent ==
    [p \in Page |-> IF p \in WrittenFirst THEN snap.pages[p] ELSE BrkContent[p]]

FirstPanics ==
    \/ Unsaved # {}
    \/ \E p \in WrittenFirst : FirstPerm[p] # "rw"

(* reset_maps: a mapping of the snapshot of which nothing is left is made  *)
(* anew, one that changed gets its protection back, and what is left over  *)
(* is unmapped.  An interval is deleted where it is found first.           *)

Earlier(o, m) == \E p \in o.range : \A q \in m.range : p < q

Found(m) ==
    {e \in Overlapping(ModifiedMaps, m.range) :
       \A o \in snap.maps : e.range \cap o.range # {} => ~ Earlier(o, m)}

MapAnew(m) == Found(m) = {}
\* For the mutants: an interval of its own is taken to have its protection.
Unchanged_ByInterval(m) == \E e \in Found(m) : Found(m) = {e} /\ e.range = m.range

Unchanged(m) == \E e \in Found(m) :
    Found(m) = {e} /\ e.range = m.range /\ (e.changed => e.perms = m.perms)
Protect(m) == ~ MapAnew(m) /\ ~ Unchanged(m)

LeftOver == {e \in ModifiedMaps : e.range \cap SnapPages = {}}

MapsPerm ==
    [p \in Page |->
       IF \E m \in snap.maps : p \in m.range /\ ~ Unchanged(m)
       THEN (CHOOSE m \in snap.maps : p \in m.range).perms
       ELSE IF \E e \in LeftOver : p \in e.range THEN "unmapped"
       ELSE FirstPerm[p]]
MapsContent ==
    [p \in Page |->
       IF \/ \E m \in snap.maps : p \in m.range /\ MapAnew(m)
          \/ \E e \in LeftOver : p \in e.range
       THEN Zero ELSE FirstContent[p]]

\* mprotect fails on a hole.
MapsPanic ==
    \E m \in snap.maps : Protect(m) /\ \E p \in m.range : FirstPerm[p] = "unmapped"

(* At last the dirty pages that were kept.  Their mapping is made writable *)
(* for it if it is not, and then gets its protection back.                 *)

Reopened == {m \in snap.maps : m.perms # "rw" /\ m.range \cap Later # {}}

LastPerm ==
    [p \in Page |-> IF \E m \in Reopened : p \in m.range
                    THEN (CHOOSE m \in snap.maps : p \in m.range).perms
                    ELSE MapsPerm[p]]
LastContent == [p \in Page |-> IF p \in Later THEN snap.pages[p] ELSE MapsContent[p]]

LastPanics == \E m \in snap.maps :
    m.perms = "rw" /\ \E p \in m.range \cap Later : MapsPerm[p] # "rw"

\* munmap fails where no page begins, and reset takes no failure.
LeftNowhere == "nowhere" \in mishaps

ResetPanics == FirstPanics \/ MapsPanic \/ LeftNowhere \/ LastPanics

Reset ==
    /\ ~ empty
    /\ panicked' = ResetPanics
    /\ IF ResetPanics
       THEN /\ restored' = "differs"
            /\ UNCHANGED <<guest, new_maps, accesses, lost>>
       ELSE /\ perm' = LastPerm
            /\ content' = LastContent
            /\ brk' = snap.brk
            /\ new_maps' = snap.maps
            /\ ClearAccesses
            /\ lost' = lost \ Dirty
            /\ restored' = IF /\ perm' = before.perm
                              /\ brk' = before.brk
                              /\ \A p \in Page : \/ content'[p] = before.content[p]
                                                 \/ p \in lost' /\ content'[p] = Zero
                           THEN "same" ELSE "differs"
    /\ steps' = 0
    /\ UNCHANGED <<saved, mishaps>>

PreExec == ~ panicked /\ (Snapshot \/ Reset)

Next ==
    \/ \E t \in Thread, p \in Page, v \in Value : Write(t, p, v)
    \/ \E s \in Page, n \in 1 .. MaxLen :
         /\ s + n - 1 \in Page
         /\ \/ \E perms \in Perms : Mmap(s, n, perms) \/ Mprotect(s, n, perms)
            \/ \E t \in Thread : Munmap(t, s, n) \/ CallFails(t, s, n)
            \/ \E t \in Thread, s2 \in Page, n2 \in 1 .. MaxLen :
                 s2 + n2 - 1 \in Page /\ Mremap(t, s, n, s2, n2)
    \/ \E b \in Page : BrkGrow(b) \/ BrkShrink(b)
    \/ PreExec

Spec == Init /\ [][Next]_vars

-----------------------------------------------------------------------------
\* A reset puts the mappings, their contents, their protections and the break
\* back to what they were, whatever the guest has written, mapped, unmapped,
\* protected, moved and asked of its heap: unless it made a call of those in
\* mishaps, or a page that could not be saved had to be written.  A page that
\* the heap lost before any write marked it comes back, but with zeroes.
ResetRestores == restored = "differs" => mishaps # {} \/ Unsaved # {}

\* What a reset relies on: a page of the snapshot whose content is no longer
\* the saved one is in the dirty set of some thread, although a thread that
\* remembers a page does not mark it again; or the heap lost it, unseen.
DirtyIsComplete ==
    ~ empty /\ mishaps = {} =>
        \A p \in SnapPages : content[p] # before.content[p] =>
            p \in Dirty \/ (p \in lost /\ content[p] = Zero)
=============================================================================
