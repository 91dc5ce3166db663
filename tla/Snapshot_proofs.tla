-------------------------- MODULE Snapshot_proofs --------------------------
(***************************************************************************)
(* For any number of pages and threads, any mappings at the snapshot and   *)
(* any size of the access cache: a reset restores what was saved.          *)
(***************************************************************************)
EXTENDS Snapshot, TLAPS

GuestPerms == Perms \cup {"unmapped"}
RegionType == [range : SUBSET Page, perms : Perms \cup {"unknown"}, changed : BOOLEAN]
PermsOf(p) == (CHOOSE m \in Layout : p \in m.range).perms
LayoutPerm == [p \in Page |-> IF p \in Layed THEN PermsOf(p) ELSE "unmapped"]

\* What is not mapped has no content.
MemoryInv ==
    /\ perm \in [Page -> GuestPerms]
    /\ content \in [Page -> Value]
    /\ \A p \in Page : perm[p] = "unmapped" => content[p] = Zero
    /\ brk \in Page
    /\ empty \in BOOLEAN
    /\ new_maps \subseteq RegionType

\* A page that a thread remembers is in its dirty set.
AccessInv ==
    /\ dirty \in [Thread -> SUBSET Page]
    /\ cache \in [Thread -> [CacheSlot -> 0 .. LastPage]]
    /\ cache_idx \in [Thread -> CacheSlot]
    /\ \A t \in Thread, i \in CacheSlot :
         cache[t][i] # NullPage => cache[t][i] \in dirty[t]

TypeInv == MemoryInv /\ AccessInv

\* Before the snapshot the guest has the mappings of Layout; afterwards the
\* snapshot is that of the guest then, and does not change.
SavedInv ==
    IF empty
    THEN perm = LayoutPerm /\ brk = SnapshotBrk /\ mishaps = {} /\ restored = "none"
         /\ panicked = FALSE
    ELSE /\ snap.maps = {Region(m.range, m.perms, FALSE) : m \in Layout}
         /\ snap.brk = SnapshotBrk
         /\ snap.pages = [p \in Layed |-> IF before.perm[p] = "none" THEN NoData
                                          ELSE before.content[p]]
         /\ before.perm = LayoutPerm
         /\ before.content \in [Page -> Value]
         /\ \A p \in Page \ Layed : before.content[p] = Zero
         /\ before.brk = SnapshotBrk

\* new_maps follows the mappings of the snapshot: each interval lies in one of
\* them or in none, they are there as a whole or not at all, and the
\* protections it knows are those of the guest, the heap apart.
MapsFollowed ==
    /\ \A e \in new_maps : \/ \E m \in snap.maps : e.range \subseteq m.range
                           \/ e.range \cap SnapPages = {}
    /\ \A m \in snap.maps : InPlace(m) =>
         \A p \in m.range : /\ Overlapping(new_maps, {p}) # {}
                            /\ perm[p] # "unmapped" \/ p \in Regained
    /\ \A e \in new_maps, m \in snap.maps : \A p \in e.range \cap m.range :
         /\ e.perms # "unknown"
         /\ ~ e.changed => e.perms = m.perms
         /\ perm[p] = e.perms \/ (m.perms = "rw" /\ perm[p] \in {"rw", "unmapped"})

\* What is mapped beside the snapshot will be unmapped: it is in an interval
\* or was gained by the heap.
ExtraFollowed ==
    /\ \A p \in Page \ SnapPages :
         perm[p] # "unmapped" => Overlapping(new_maps, {p}) # {} \/ p \in Gained
    /\ Gained \cap SnapPages = {}

LostAt(p) == p \in lost /\ content[p] = Zero

\* What the guest may have lost is dirty, or lost for good.
LossIsDirty ==
    /\ \A m \in snap.maps : ~ InPlace(m) => m.range \subseteq Dirty
    /\ \A p \in SnapPages : content[p] # before.content[p] => p \in Dirty \/ LostAt(p)
    /\ \A p \in Regained : /\ p \in Dirty \/ LostAt(p)
                           /\ \E m \in snap.maps : p \in m.range /\ m.perms = "rw"

Followed == MapsFollowed /\ ExtraFollowed /\ LossIsDirty

Outcome ==
    /\ restored = "differs" => panicked \/ mishaps # {}
    /\ panicked => mishaps # {} \/ Unsaved # {}

IInv == /\ TypeInv /\ SavedInv /\ Outcome
        /\ ~ empty /\ mishaps = {} => Followed

-----------------------------------------------------------------------------
(* The snapshot and the intervals.                                         *)

\* A page is in one mapping of the layout at most.
LEMMA OneMapping ==
    ASSUME NEW m \in Layout, NEW p \in m.range
    PROVE  p \in Layed /\ p \in Page /\ PermsOf(p) = m.perms
BY SnapshotAssumption DEF Layed, PermsOf

\* What maps = {Region(m.range, m.perms, FALSE) : m \in Layout} says.
AsLayout(maps) ==
    /\ UNION {m.range : m \in maps} = Layed /\ Layed \subseteq Page
    /\ \A m \in maps :
         /\ m.range \subseteq Layed /\ m.range # {} /\ m.perms \in Perms
         /\ \A p \in m.range : PermsOf(p) = m.perms
                               /\ (CHOOSE o \in maps : p \in o.range) = m
    /\ \A m, o \in maps : m.range \cap o.range # {} => m = o
    /\ maps \subseteq RegionType

\* The layout as the snapshot keeps it.
LEMMA LayoutMaps ==
    ASSUME NEW maps, maps = {Region(m.range, m.perms, FALSE) : m \in Layout}
    PROVE  AsLayout(maps)
<1> DEFINE R(m) == Region(m.range, m.perms, FALSE)
<1>1. \A m \in Layout : /\ R(m).range = m.range /\ R(m).perms = m.perms
                        /\ m.range # {} /\ m.perms \in Perms /\ m.range \subseteq Page
                        /\ R(m) \in RegionType
  BY SnapshotAssumption DEF Region, RegionType
<1>2. UNION {m.range : m \in maps} = Layed /\ Layed \subseteq Page
  <2>1. ASSUME NEW m \in maps PROVE m.range \subseteq Layed
    BY <1>1 DEF Layed
  <2>2. ASSUME NEW p \in Layed PROVE p \in Page /\ \E m \in maps : p \in m.range
    <3>1. PICK l \in Layout : p \in l.range
      BY DEF Layed
    <3>2. R(l) \in maps /\ p \in R(l).range
      BY <1>1, <3>1
    <3> QED BY <1>1, <3>1, <3>2
  <2> QED BY <2>1, <2>2
<1>3. ASSUME NEW m \in maps, NEW o \in maps, m.range \cap o.range # {} PROVE m = o
  <2>1. PICK l \in Layout : m = R(l)
    OBVIOUS
  <2>2. PICK k \in Layout : o = R(k)
    OBVIOUS
  <2>3. l.range \cap k.range # {}
    BY <1>1, <1>3, <2>1, <2>2
  <2> QED BY <2>1, <2>2, <2>3, SnapshotAssumption
<1>4. ASSUME NEW m \in maps
      PROVE  /\ m.range \subseteq Layed /\ m.range # {} /\ m.perms \in Perms
             /\ \A p \in m.range : PermsOf(p) = m.perms
                                   /\ (CHOOSE o \in maps : p \in o.range) = m
  <2>1. PICK l \in Layout : m = R(l)
    OBVIOUS
  <2>2. \A p \in m.range : PermsOf(p) = m.perms
    BY <1>1, <2>1, OneMapping
  <2>3. ASSUME NEW p \in m.range PROVE (CHOOSE o \in maps : p \in o.range) = m
    BY <1>3
  <2>4. m.range \subseteq Layed
    BY <1>1, <2>1 DEF Layed
  <2> QED BY <1>1, <2>1, <2>2, <2>3, <2>4
<1>5. maps \subseteq RegionType
  BY <1>1
<1> QED BY <1>2, <1>3, <1>4, <1>5 DEF AsLayout

\* The mappings of the snapshot are those of the layout.
LEMMA SnapMaps ==
    ASSUME SavedInv, ~ empty
    PROVE  /\ SnapPages = Layed /\ DOMAIN snap.pages = Layed /\ Layed \subseteq Page
           /\ \A m \in snap.maps :
                /\ m.range \subseteq SnapPages /\ m.range # {} /\ m.perms \in Perms
                /\ \A p \in m.range : PermsOf(p) = m.perms
                                      /\ (CHOOSE o \in snap.maps : p \in o.range) = m
           /\ \A m, o \in snap.maps : m.range \cap o.range # {} => m = o
           /\ snap.maps \subseteq RegionType
<1>1. snap.maps = {Region(m.range, m.perms, FALSE) : m \in Layout}
      /\ DOMAIN snap.pages = Layed
  BY DEF SavedInv
<1>2. AsLayout(snap.maps)
  BY <1>1, LayoutMaps, ZenonT(60)
<1>3. SnapPages = Layed
  BY <1>2 DEF AsLayout, SnapPages
<1> QED BY <1>1, <1>2, <1>3 DEF AsLayout

\* A page is in an interval that overlaps it.
LEMMA OverlapsPage ==
    ASSUME NEW maps, NEW p
    PROVE  Overlapping(maps, {p}) # {} <=> \E e \in maps : p \in e.range
BY DEF Overlapping

IsInterval(r) == \E lo, hi \in Int : r = lo .. hi

\* What CutOut leaves: intervals that were there, and parts of those it met,
\* outside the range; and it loses no page outside the range.
LEMMA CutOutLeaves ==
    ASSUME NEW maps \in SUBSET RegionType, NEW r, IsInterval(r)
    PROVE  /\ CutOut(maps, r) \subseteq RegionType
           /\ \A x \in CutOut(maps, r) :
                /\ x.range \cap r = {}
                /\ \/ x \in maps
                   \/ \E e \in Overlapping(maps, r) :
                        /\ x.range \subseteq e.range /\ x.range # {}
                        /\ x.perms = e.perms /\ x.changed
           /\ \A e \in maps : \A p \in e.range \ r :
                \E x \in CutOut(maps, r) : p \in x.range
<1> DEFINE B(e) == Region(Below(e, r), e.perms, TRUE)
           A(e) == Region(Above(e, r), e.perms, TRUE)
<1>1. ASSUME NEW e \in Overlapping(maps, r)
      PROVE  /\ e \in RegionType
             /\ B(e).range = Below(e, r) /\ B(e).perms = e.perms /\ B(e).changed
             /\ A(e).range = Above(e, r) /\ A(e).perms = e.perms /\ A(e).changed
             /\ Below(e, r) \subseteq e.range /\ Above(e, r) \subseteq e.range
             /\ B(e) \in RegionType /\ A(e) \in RegionType
  BY DEF Overlapping, Region, Below, Above, RegionType
<1>2. ASSUME NEW e \in Overlapping(maps, r)
      PROVE  /\ e.range \ r \subseteq Below(e, r) \cup Above(e, r)
             /\ Below(e, r) \cap r = {} /\ Above(e, r) \cap r = {}
  <2>1. e.range \subseteq Int
    <3>1. e.range \subseteq Page
      BY <1>1 DEF RegionType
    <3> QED BY <3>1, SnapshotAssumption DEF Page
  <2>2. ASSUME NEW p \in e.range \ r PROVE p \in Below(e, r) \cup Above(e, r)
    <3> PICK lo, hi \in Int : r = lo .. hi
      BY DEF IsInterval
    <3>1. p \in Int /\ p \in e.range /\ (p < lo \/ p > hi)
      BY <2>1
    <3>2. CASE p < lo
      <4>1. \A q \in e.range \cap r : p < q
        BY <2>1, <3>1, <3>2
      <4> QED BY <3>1, <4>1 DEF Below
    <3>3. CASE p > hi
      <4>1. \A q \in e.range \cap r : p > q
        BY <2>1, <3>1, <3>3
      <4> QED BY <3>1, <4>1 DEF Above
    <3> QED BY <3>1, <3>2, <3>3
  <2>3. Below(e, r) \cap r = {} /\ Above(e, r) \cap r = {}
    BY <2>1 DEF Below, Above
  <2> QED BY <2>2, <2>3
<1>3. ASSUME NEW x \in Remainders(maps, r)
      PROVE  /\ x.range \cap r = {} /\ x.range # {}
             /\ \E e \in Overlapping(maps, r) :
                  (x = B(e) \/ x = A(e)) /\ x.range \subseteq e.range
  <2>1. x.range # {} /\ \E e \in Overlapping(maps, r) : x = B(e) \/ x = A(e)
    BY DEF Remainders
  <2>2. PICK e \in Overlapping(maps, r) : x = B(e) \/ x = A(e)
    BY <2>1
  <2>3. x.range \cap r = {} /\ x.range \subseteq e.range
    <3>1. x.range = Below(e, r) \/ x.range = Above(e, r)
      BY <1>1, <2>2
    <3>2. Below(e, r) \subseteq e.range /\ Above(e, r) \subseteq e.range
      BY DEF Below, Above
    <3>3. Below(e, r) \cap r = {} /\ Above(e, r) \cap r = {}
      BY <1>2
    <3> QED BY <3>1, <3>2, <3>3
  <2> QED BY <2>1, <2>2, <2>3
<1> HIDE DEF B, A
<1>4. CutOut(maps, r) \subseteq RegionType
  <2>1. Remainders(maps, r) \subseteq RegionType
    BY <1>1, <1>3
  <2> QED BY <2>1 DEF CutOut
<1>5. ASSUME NEW x \in CutOut(maps, r)
      PROVE  /\ x.range \cap r = {}
             /\ \/ x \in maps
                \/ \E e \in Overlapping(maps, r) :
                     /\ x.range \subseteq e.range /\ x.range # {}
                     /\ x.perms = e.perms /\ x.changed
  <2>1. CASE x \in Remainders(maps, r)
    BY <1>1, <1>3, <2>1
  <2>2. CASE x \notin Remainders(maps, r)
    BY <2>2 DEF CutOut
  <2> QED BY <2>1, <2>2
<1>6. ASSUME NEW e \in maps, NEW p \in e.range \ r
      PROVE  \E x \in CutOut(maps, r) : p \in x.range
  <2>1. CASE e.range \cap r = {}
    BY <2>1 DEF CutOut
  <2>2. CASE e.range \cap r # {}
    <3>1. e \in Overlapping(maps, r)
      BY <2>2 DEF Overlapping
    <3>2. CASE p \in Below(e, r)
      <4>1. B(e) \in Remainders(maps, r) /\ p \in B(e).range
        BY <1>1, <3>1, <3>2, ZenonT(60) DEF Remainders, B
      <4> QED BY <4>1 DEF CutOut
    <3>3. CASE p \in Above(e, r)
      <4>1. A(e) \in Remainders(maps, r) /\ p \in A(e).range
        BY <1>1, <3>1, <3>3, ZenonT(60) DEF Remainders, A
      <4> QED BY <4>1 DEF CutOut
    <3> QED BY <1>2, <3>1, <3>2, <3>3
  <2> QED BY <2>1, <2>2
<1> QED BY <1>4, <1>5, <1>6

-----------------------------------------------------------------------------
(* The reset.                                                              *)

\* The intervals that a reset of a followed guest finds: all those of a
\* mapping, and it finds nothing of one exactly when nothing is in place.
LEMMA FoundIsAll ==
    ASSUME TypeInv, SavedInv, ~ empty, Followed
    PROVE  \A m \in snap.maps :
             /\ Found(m) = Overlapping(ModifiedMaps, m.range)
             /\ MapAnew(m) <=> ~ InPlace(m)
<1> SUFFICES ASSUME NEW m \in snap.maps
             PROVE  /\ Found(m) = Overlapping(ModifiedMaps, m.range)
                    /\ MapAnew(m) <=> ~ InPlace(m)
  OBVIOUS
<1>1. \A x \in ModifiedMaps : \E e \in new_maps : x.range = e.range
  BY DEF ModifiedMaps, Region, MadeWritable, Overlapping
<1>2. ASSUME NEW e \in new_maps PROVE \E x \in ModifiedMaps : x.range = e.range
  <2>1. CASE e \in MadeWritable
    <3>1. Region(e.range, "rw", TRUE) \in ModifiedMaps
      BY <2>1 DEF ModifiedMaps
    <3> QED BY <3>1 DEF Region
  <2>2. CASE e \notin MadeWritable
    BY <2>2 DEF ModifiedMaps
  <2> QED BY <2>1, <2>2
<1>3. ASSUME NEW x \in ModifiedMaps, x.range \cap m.range # {},
             NEW o \in snap.maps, x.range \cap o.range # {}
      PROVE  ~ Earlier(o, m)
  <2>1. PICK e \in new_maps : x.range = e.range
    BY <1>1
  <2>2. m.range \subseteq SnapPages /\ m.range \subseteq Page
    BY SnapMaps
  <2>3. PICK l \in snap.maps : e.range \subseteq l.range
    BY <1>3, <2>1, <2>2 DEF Followed, MapsFollowed
  <2>4. l = m /\ l = o
    BY <1>3, <2>1, <2>3, SnapMaps
  <2>5. \A p \in m.range : p \in Int
    BY <2>2, SnapshotAssumption DEF Page
  <2> QED BY <2>4, <2>5 DEF Earlier
<1>4. Found(m) = Overlapping(ModifiedMaps, m.range)
  BY <1>3 DEF Found, Overlapping
<1>5. Overlapping(ModifiedMaps, m.range) # {} <=> InPlace(m)
  BY <1>1, <1>2 DEF InPlace, Overlapping
<1> QED BY <1>4, <1>5 DEF MapAnew

\* After the heap and the first dirty pages: what is in place is mapped.
LEMMA InPlaceIsMapped ==
    ASSUME TypeInv, SavedInv, ~ empty, Followed,
           NEW m \in snap.maps, InPlace(m), NEW p \in m.range
    PROVE  /\ p \in Page /\ p \notin Gained
           /\ BrkPerm[p] # "unmapped" /\ FirstPerm[p] # "unmapped"
           /\ BrkPerm[p] = IF p \in Regained THEN "rw" ELSE perm[p]
<1>1. p \in Page /\ p \in SnapPages /\ p \notin Gained
  BY SnapMaps DEF Followed, ExtraFollowed
<1>2. BrkPerm[p] = IF p \in Regained THEN "rw" ELSE perm[p]
  BY <1>1 DEF BrkPerm
<1>3. BrkPerm[p] # "unmapped"
  BY <1>2 DEF Followed, MapsFollowed
<1> QED BY <1>1, <1>2, <1>3 DEF FirstPerm

\* A dirty page that lies in an interval can be written.
LEMMA FirstWritable ==
    ASSUME TypeInv, SavedInv, ~ empty, Followed,
           NEW m \in snap.maps, NEW p \in m.range, NEW e \in new_maps, p \in e.range
    PROVE  /\ e.range \subseteq m.range /\ InPlace(m)
           /\ e \in MadeWritable \/ e.perms = "rw" => FirstPerm[p] = "rw"
<1>1. p \in SnapPages /\ p \in Page
  BY SnapMaps
<1>2. e.range \subseteq m.range
  <2>1. PICK o \in snap.maps : e.range \subseteq o.range
    BY <1>1 DEF Followed, MapsFollowed
  <2>2. o = m
    BY <2>1, SnapMaps
  <2> QED BY <2>1, <2>2
<1>3. InPlace(m)
  BY DEF InPlace, Overlapping
<1>4. CASE e \in MadeWritable
  <2>1. \A q \in e.range : BrkPerm[q] # "unmapped"
    BY <1>2, <1>3, InPlaceIsMapped
  <2> QED BY <1>1, <1>2, <1>3, <1>4, <2>1 DEF FirstPerm
<1>5. CASE e.perms = "rw"
  <2>1. perm[p] \in {"rw", "unmapped"}
    BY <1>5 DEF Followed, MapsFollowed
  <2>2. BrkPerm[p] = "rw"
    BY <1>3, <2>1, InPlaceIsMapped
  <2> QED BY <1>1, <1>2, <1>3, <2>2 DEF FirstPerm
<1> QED BY <1>2, <1>3, <1>4, <1>5

\* A mapping that reset_maps leaves alone has the protection it had.
LEMMA UnchangedIsRight ==
    ASSUME TypeInv, SavedInv, ~ empty, Followed,
           NEW m \in snap.maps, Unchanged(m), NEW p \in m.range
    PROVE  FirstPerm[p] = m.perms
<1>1. PICK x \in Found(m) :
        Found(m) = {x} /\ x.range = m.range /\ (x.changed => x.perms = m.perms)
  BY DEF Unchanged
<1>2. Overlapping(ModifiedMaps, m.range) = {x} /\ InPlace(m)
  BY <1>1, FoundIsAll DEF MapAnew
<1>3. p \in Page /\ p \in SnapPages
  BY SnapMaps
<1>4. CASE \E e \in MadeWritable : p \in e.range
  <2>1. PICK e \in MadeWritable : p \in e.range
    BY <1>4
  <2>2. Region(e.range, "rw", TRUE) \in Overlapping(ModifiedMaps, m.range)
    BY <2>1 DEF ModifiedMaps, Overlapping, Region
  <2>3. x = Region(e.range, "rw", TRUE)
    BY <1>2, <2>2
  <2>4. m.perms = "rw"
    BY <1>1, <2>3 DEF Region
  <2>5. e \in new_maps
    BY DEF MadeWritable, Overlapping
  <2> QED BY <2>1, <2>4, <2>5, FirstWritable
<1>5. CASE ~ \E e \in MadeWritable : p \in e.range
  <2>1. x \in new_maps /\ p \in x.range
    <3>1. x \in ModifiedMaps /\ p \in x.range
      BY <1>1, <1>2 DEF Overlapping
    <3> QED BY <1>5, <3>1 DEF ModifiedMaps, Region
  <2>2. x.perms = m.perms
    BY <1>1, <2>1 DEF Followed, MapsFollowed
  <2>3. perm[p] = m.perms \/ (m.perms = "rw" /\ perm[p] \in {"rw", "unmapped"})
    BY <2>1, <2>2 DEF Followed, MapsFollowed
  <2>4. FirstPerm[p] = BrkPerm[p]
    BY <1>3, <1>5 DEF FirstPerm
  <2>5. p \in Regained => m.perms = "rw"
    <3>1. ASSUME p \in Regained PROVE m.perms = "rw"
      <4>1. PICK o \in snap.maps : p \in o.range /\ o.perms = "rw"
        BY <3>1 DEF Followed, LossIsDirty
      <4> QED BY <4>1, SnapMaps
    <3> QED BY <3>1
  <2> QED BY <1>2, <2>3, <2>4, <2>5, InPlaceIsMapped
<1> QED BY <1>4, <1>5

\* What a reset of a followed guest does to the mappings.
LEMMA ResetPerm ==
    ASSUME TypeInv, SavedInv, ~ empty, Followed
    PROVE  LastPerm = before.perm
<1>1. LastPerm = [p \in Page |-> LastPerm[p]]
  BY DEF LastPerm
<1>2. ASSUME NEW m \in snap.maps, NEW p \in m.range
      PROVE  LastPerm[p] = m.perms /\ LayoutPerm[p] = m.perms
  <2>1. p \in Page /\ p \in Layed /\ PermsOf(p) = m.perms
        /\ (CHOOSE o \in snap.maps : p \in o.range) = m
    BY SnapMaps
  <2>2. CASE Unchanged(m)
    <3>1. FirstPerm[p] = m.perms
      BY <2>2, UnchangedIsRight
    <3>2. ~ \E o \in snap.maps : p \in o.range /\ ~ Unchanged(o)
      BY <2>2, SnapMaps
    <3>3. ~ \E e \in LeftOver : p \in e.range
      BY <2>1, SnapMaps DEF LeftOver
    <3>4. MapsPerm[p] = m.perms
      BY <2>1, <3>1, <3>2, <3>3 DEF MapsPerm
    <3> QED BY <2>1, <3>4 DEF LastPerm, LayoutPerm
  <2>3. CASE ~ Unchanged(m)
    <3>1. MapsPerm[p] = m.perms
      BY <2>1, <2>3 DEF MapsPerm
    <3> QED BY <2>1, <3>1 DEF LastPerm, LayoutPerm
  <2> QED BY <2>2, <2>3
<1>3. ASSUME NEW p \in Page, p \notin SnapPages
      PROVE  LastPerm[p] = "unmapped" /\ LayoutPerm[p] = "unmapped"
  <2>1. ~ \E m \in snap.maps : p \in m.range
    BY <1>3 DEF SnapPages
  <2>2. LastPerm[p] = MapsPerm[p]
    BY <2>1 DEF LastPerm, Reopened
  <2>3. CASE \E e \in LeftOver : p \in e.range
    BY <1>3, <2>1, <2>2, <2>3, SnapMaps DEF MapsPerm, LayoutPerm
  <2>4. CASE ~ \E e \in LeftOver : p \in e.range
    <3>1. MapsPerm[p] = FirstPerm[p]
      BY <2>1, <2>4 DEF MapsPerm
    <3>2. ASSUME NEW e \in new_maps, p \in e.range PROVE FALSE
      <4>1. e.range \cap SnapPages = {}
        BY <2>1, <3>2 DEF Followed, MapsFollowed
      <4>2. WrittenFirst \subseteq SnapPages
        BY SnapMaps DEF WrittenFirst, DirtySaved
      <4>3. e \notin MadeWritable
        BY <4>1, <4>2 DEF MadeWritable, Overlapping
      <4>4. e \in LeftOver
        BY <4>1, <4>3 DEF LeftOver, ModifiedMaps
      <4> QED BY <2>4, <3>2, <4>4
    <3>3. FirstPerm[p] = BrkPerm[p]
      <4>1. ~ \E e \in MadeWritable : p \in e.range
        BY <3>2 DEF MadeWritable, Overlapping
      <4> QED BY <4>1 DEF FirstPerm
    <3>4. p \notin Regained
      BY <2>1 DEF Followed, LossIsDirty
    <3>5. perm[p] # "unmapped" => p \in Gained
      BY <1>3, <3>2 DEF Followed, ExtraFollowed, Overlapping
    <3>6. BrkPerm[p] = "unmapped"
      BY <3>4, <3>5 DEF BrkPerm
    <3> QED BY <1>3, <2>2, <3>1, <3>3, <3>6, SnapMaps DEF LayoutPerm
  <2> QED BY <2>3, <2>4
<1>4. \A p \in Page : LastPerm[p] = LayoutPerm[p]
  BY <1>2, <1>3 DEF SnapPages
<1> QED BY <1>1, <1>4 DEF LayoutPerm, SavedInv

\* And to their content, if every dirty page was saved: all but what is lost.
LEMMA ResetContent ==
    ASSUME TypeInv, SavedInv, ~ empty, Followed, Unsaved = {}
    PROVE  \A p \in Page : \/ LastContent[p] = before.content[p]
                           \/ p \in lost \ Dirty /\ LastContent[p] = Zero
<1>1. \A p \in DirtySaved : snap.pages[p] = before.content[p]
  <2>1. \A p \in DirtySaved : p \in Layed /\ snap.pages[p] # NoData
    BY SnapMaps DEF DirtySaved, Unsaved
  <2> QED BY <2>1 DEF SavedInv
<1>2. ASSUME NEW m \in snap.maps, NEW p \in m.range
      PROVE  \/ LastContent[p] = before.content[p]
             \/ p \in lost \ Dirty /\ LastContent[p] = Zero
  <2>1. p \in Page /\ p \in SnapPages /\ p \in DOMAIN snap.pages
    BY SnapMaps
  <2>2. CASE p \in Later
    BY <1>1, <2>1, <2>2 DEF LastContent, Later
  <2>3. CASE p \notin Later
    <3>1. LastContent[p] = MapsContent[p]
      BY <2>1, <2>3 DEF LastContent
    <3>2. InPlace(m)
      <4>1. CASE p \in Dirty
        <5>1. p \in WrittenFirst
          BY <2>1, <2>3, <4>1 DEF Later, DirtySaved
        <5> QED BY <5>1 DEF WrittenFirst, InPlace, Overlapping
      <4>2. CASE p \notin Dirty
        BY <4>2 DEF Followed, LossIsDirty
      <4> QED BY <4>1, <4>2
    <3>3. ~ \E o \in snap.maps : p \in o.range /\ MapAnew(o)
      BY <3>2, FoundIsAll, SnapMaps
    <3>4. ~ \E e \in LeftOver : p \in e.range
      BY <2>1 DEF LeftOver
    <3>5. MapsContent[p] = FirstContent[p]
      BY <2>1, <3>3, <3>4 DEF MapsContent
    <3>6. CASE p \in WrittenFirst
      BY <1>1, <2>1, <3>1, <3>5, <3>6 DEF FirstContent, WrittenFirst
    <3>7. CASE p \notin WrittenFirst
      <4>1. p \notin Dirty
        BY <2>1, <2>3, <3>7 DEF Later, DirtySaved
      <4>2. LastContent[p] = BrkContent[p]
        BY <2>1, <3>1, <3>5, <3>7 DEF FirstContent
      <4>3. p \notin Gained
        BY <2>1 DEF Followed, ExtraFollowed
      <4>4. CASE LostAt(p)
        BY <2>1, <4>1, <4>2, <4>4 DEF LostAt, BrkContent
      <4>5. CASE ~ LostAt(p)
        <5>1. content[p] = before.content[p] /\ p \notin Regained
          BY <2>1, <4>1, <4>5 DEF Followed, LossIsDirty
        <5> QED BY <2>1, <4>2, <4>3, <5>1 DEF BrkContent
      <4> QED BY <4>4, <4>5
    <3> QED BY <3>6, <3>7
  <2> QED BY <2>2, <2>3
<1>3. ASSUME NEW p \in Page, p \notin SnapPages
      PROVE  LastContent[p] = Zero /\ before.content[p] = Zero
  <2>1. ~ \E m \in snap.maps : p \in m.range
    BY <1>3 DEF SnapPages
  <2>2. p \notin DirtySaved
    BY <1>3, SnapMaps DEF DirtySaved
  <2>3. LastContent[p] = MapsContent[p] /\ FirstContent[p] = BrkContent[p]
    BY <2>2 DEF LastContent, Later, FirstContent, WrittenFirst
  <2>4. CASE \E e \in LeftOver : p \in e.range
    BY <1>3, <2>3, <2>4, SnapMaps DEF MapsContent, SavedInv
  <2>5. CASE ~ \E e \in LeftOver : p \in e.range
    <3>1. MapsContent[p] = BrkContent[p]
      BY <2>1, <2>3, <2>5 DEF MapsContent
    <3>2. ASSUME NEW e \in new_maps, p \in e.range PROVE FALSE
      <4>1. e.range \cap SnapPages = {}
        BY <2>1, <3>2 DEF Followed, MapsFollowed
      <4>2. WrittenFirst \subseteq SnapPages
        BY SnapMaps DEF WrittenFirst, DirtySaved
      <4>3. e \in LeftOver
        BY <4>1, <4>2 DEF LeftOver, ModifiedMaps, MadeWritable, Overlapping
      <4> QED BY <2>5, <3>2, <4>3
    <3>3. perm[p] # "unmapped" => p \in Gained
      BY <1>3, <3>2 DEF Followed, ExtraFollowed, Overlapping
    <3>4. BrkContent[p] = Zero
      BY <3>3 DEF BrkContent, TypeInv, MemoryInv
    <3> QED BY <1>3, <2>3, <3>1, <3>4, SnapMaps DEF SavedInv
  <2> QED BY <2>4, <2>5
<1> QED BY <1>2, <1>3 DEF SnapPages

\* And it does not panic.
LEMMA ResetSucceeds ==
    ASSUME TypeInv, SavedInv, ~ empty, mishaps = {}, Followed, Unsaved = {}
    PROVE  ~ ResetPanics
<1>1. ~ FirstPanics
  <2>1. ASSUME NEW p \in WrittenFirst PROVE FirstPerm[p] = "rw"
    <3>1. p \in SnapPages
      BY SnapMaps DEF WrittenFirst, DirtySaved
    <3>2. PICK m \in snap.maps : p \in m.range
      BY <3>1 DEF SnapPages
    <3>3. PICK e \in new_maps : p \in e.range
      BY DEF WrittenFirst, Overlapping
    <3>4. e \in MadeWritable \/ e.perms = "rw"
      BY <3>3 DEF MadeWritable, Overlapping
    <3> QED BY <3>2, <3>3, <3>4, FirstWritable
  <2> QED BY <2>1 DEF FirstPanics
<1>2. ~ MapsPanic
  BY FoundIsAll, InPlaceIsMapped DEF MapsPanic, Protect
<1>3. ~ LastPanics
  <2>1. ASSUME NEW m \in snap.maps, NEW p \in m.range \cap Later
        PROVE  MapsPerm[p] = m.perms
    <3>1. p \in Page /\ (CHOOSE o \in snap.maps : p \in o.range) = m
      BY SnapMaps
    <3>2. ~ InPlace(m)
      BY DEF Later, WrittenFirst, Followed, MapsFollowed
    <3>3. ~ Unchanged(m)
      BY <3>2, FoundIsAll DEF MapAnew, Unchanged
    <3> QED BY <3>1, <3>3 DEF MapsPerm
  <2> QED BY <2>1 DEF LastPanics
<1> QED BY <1>1, <1>2, <1>3 DEF ResetPanics, LeftNowhere

-----------------------------------------------------------------------------
(* The accesses and the guest's steps.                                     *)

\* After page_access the page is marked, and no mark is lost.
LEMMA PageAccessMarks ==
    ASSUME AccessInv, NEW t \in Thread, NEW p \in Page, PageAccess(t, p)
    PROVE  AccessInv' /\ p \in Dirty' /\ Dirty \subseteq Dirty'
<1>1. p \in 0 .. LastPage /\ p # NullPage
  BY SnapshotAssumption DEF Page, NullPage
<1>2. CASE \E i \in CacheSlot : cache[t][i] = p
  <2>1. UNCHANGED accesses
    BY <1>2 DEF PageAccess
  <2>2. p \in dirty[t]
    BY <1>1, <1>2 DEF AccessInv
  <2> QED BY <2>1, <2>2 DEF AccessInv, accesses, Dirty
<1>3. CASE ~ \E i \in CacheSlot : cache[t][i] = p
  <2>1. /\ cache' = [cache EXCEPT ![t][cache_idx[t]] = p]
        /\ cache_idx' = [cache_idx EXCEPT ![t] = (@ + 1) % CacheLen]
        /\ dirty' = [dirty EXCEPT ![t] = @ \cup {p}]
    BY <1>3 DEF PageAccess
  <2>2. \A u \in Thread : dirty[u] \subseteq dirty'[u] /\ p \in dirty'[t]
        /\ dirty' \in [Thread -> SUBSET Page]
    BY <2>1 DEF AccessInv
  <2>3. cache' \in [Thread -> [CacheSlot -> 0 .. LastPage]]
    BY <1>1, <2>1 DEF AccessInv
  <2>4. \A k \in CacheSlot : (k + 1) % CacheLen \in CacheSlot
    BY SnapshotAssumption DEF CacheSlot
  <2>5. cache_idx' \in [Thread -> CacheSlot]
    BY <2>1, <2>4 DEF AccessInv
  <2>6. \A u \in Thread, i \in CacheSlot :
          cache'[u][i] # NullPage => cache'[u][i] \in dirty'[u]
    BY <2>1, <2>2 DEF AccessInv
  <2> QED BY <2>2, <2>3, <2>5, <2>6 DEF AccessInv, Dirty
<1> QED BY <1>2, <1>3

LEMMA MarkDirtyMarks ==
    ASSUME AccessInv, NEW t \in Thread, NEW pages \in SUBSET Page, MarkDirty(t, pages)
    PROVE  AccessInv' /\ pages \subseteq Dirty' /\ Dirty \subseteq Dirty'
<1>1. /\ \A u \in Thread : dirty[u] \subseteq dirty'[u] /\ pages \subseteq dirty'[t]
      /\ dirty' \in [Thread -> SUBSET Page]
  BY DEF AccessInv, MarkDirty
<1> QED BY <1>1 DEF AccessInv, MarkDirty, Dirty

LEMMA ClearForgets ==
    ASSUME ClearAccesses
    PROVE  AccessInv'
BY SnapshotAssumption
   DEF ClearAccesses, AccessInv, EmptyCache, CacheSlot, NullPage

\* Insert replaces an interval and keeps the others.
LEMMA InsertLeaves ==
    ASSUME NEW maps \in SUBSET RegionType, NEW r \in SUBSET Page,
           NEW perms \in Perms \cup {"unknown"}
    PROVE  /\ Insert(maps, r, perms, TRUE) \subseteq RegionType
           /\ \A x \in Insert(maps, r, perms, TRUE) :
                x \in maps \/ x = Region(r, perms, TRUE)
           /\ \A e \in maps : \A p \in e.range \ r : e \in Insert(maps, r, perms, TRUE)
           /\ Region(r, perms, TRUE) \in Insert(maps, r, perms, TRUE)
           /\ /\ Region(r, perms, TRUE).range = r
              /\ Region(r, perms, TRUE).perms = perms
              /\ Region(r, perms, TRUE).changed = TRUE
<1> DEFINE x == Region(r, perms, TRUE)
<1>1. x \in RegionType /\ x.range = r /\ x.perms = perms /\ x.changed = TRUE
  BY DEF Region, RegionType
<1>2. Insert(maps, r, perms, TRUE) = {e \in maps : e.range # r} \cup {x}
  BY DEF Insert
<1> HIDE DEF x
<1>3. Insert(maps, r, perms, TRUE) \subseteq RegionType
  BY <1>1, <1>2
<1>4. \A e \in maps : \A p \in e.range \ r : e \in Insert(maps, r, perms, TRUE)
  BY <1>2
<1> QED BY <1>1, <1>2, <1>3, <1>4 DEF x

\* The pages of the calls are pages.
LEMMA RangeInPage ==
    ASSUME NEW s \in Page, NEW n \in 1 .. MaxLen, s + n - 1 \in Page
    PROVE  /\ Range(s, n) \in SUBSET Page /\ s \in Range(s, n)
           /\ s \in Int /\ n \in Int /\ IsInterval(Range(s, n))
BY SnapshotAssumption DEF Page, Range, IsInterval

\* A page of the snapshot is in one of its mappings.
LEMMA SnapPage ==
    ASSUME NEW p \in SnapPages
    PROVE  \E m \in snap.maps : p \in m.range
BY DEF SnapPages

\* A step that marks what it takes away, and for which new_maps still has
\* exactly the mappings of the snapshot that it had, keeps what is lost dirty.
LEMMA LossStaysDirty ==
    ASSUME LossIsDirty, snap' = snap, before' = before, brk' = brk, lost' = lost,
           Dirty \subseteq Dirty',
           \A m \in snap.maps : InPlace(m) => InPlace(m)' \/ m.range \subseteq Dirty',
           \A p \in SnapPages : content'[p] = content[p] \/ p \in Dirty'
    PROVE  LossIsDirty'
<1>1. \A m \in snap.maps : ~ InPlace(m)' => m.range \subseteq Dirty'
  BY DEF LossIsDirty
<1>2. \A p \in SnapPages : LostAt(p) => p \in Dirty' \/ LostAt(p)'
  BY DEF LostAt
<1>3. \A p \in SnapPages : content'[p] # before.content[p] => p \in Dirty' \/ LostAt(p)'
  BY <1>2 DEF LossIsDirty
<1>4. \A p \in Regained : p \in SnapPages /\ (p \in Dirty' \/ LostAt(p)')
  BY <1>2 DEF LossIsDirty, SnapPages
<1> QED BY <1>1, <1>3, <1>4 DEF LossIsDirty, SnapPages, Regained

\* What the invariant speaks of.
LEMMA SameFollowed ==
    ASSUME UNCHANGED <<perm, content, brk, new_maps, empty, snap, before, lost>>,
           UNCHANGED accesses
    PROVE  (TypeInv => TypeInv') /\ (Followed => Followed')
<1>1. TypeInv => TypeInv'
  BY DEF TypeInv, MemoryInv, AccessInv, accesses
<1>2. MapsFollowed => MapsFollowed'
  <2>1. new_maps' = new_maps /\ snap' = snap /\ perm' = perm /\ brk' = brk
    OBVIOUS
  <2>2. SnapPages' = SnapPages /\ Regained' = Regained
    BY <2>1 DEF SnapPages, Regained
  <2>3. \A m : InPlace(m)' <=> InPlace(m)
    BY <2>1 DEF InPlace
  <2> QED BY <2>1, <2>2, <2>3 DEF MapsFollowed
<1>3. ExtraFollowed => ExtraFollowed'
  BY DEF ExtraFollowed, SnapPages, Gained
<1>4. LossIsDirty => LossIsDirty'
  BY DEF LossIsDirty, LostAt, SnapPages, InPlace, Regained, Dirty, accesses
<1> QED BY <1>1, <1>2, <1>3, <1>4 DEF Followed

\* A traced write.
LEMMA WriteFollowed ==
    ASSUME TypeInv, NEW t \in Thread, NEW p \in Page, NEW v \in Value, Write(t, p, v)
    PROVE  TypeInv' /\ (~ empty /\ Followed => Followed')
<1>1. AccessInv' /\ p \in Dirty' /\ Dirty \subseteq Dirty'
  BY PageAccessMarks DEF Write, TypeInv
<1>2. MemoryInv'
  BY DEF Write, Ran, RanLosing, saved, TypeInv, MemoryInv
<1>3. ASSUME Followed PROVE Followed'
  <2>1. /\ snap' = snap /\ before' = before /\ lost' = lost /\ brk' = brk
        /\ perm' = perm /\ new_maps' = new_maps
    BY DEF Write, Ran, RanLosing, saved
  <2>2. MapsFollowed'
    <3>1. SnapPages' = SnapPages /\ Regained' = Regained
      BY <2>1 DEF SnapPages, Regained
    <3>2. \A m : InPlace(m)' <=> InPlace(m)
      BY <2>1 DEF InPlace
    <3>3. MapsFollowed
      BY <1>3 DEF Followed
    <3> QED BY <2>1, <3>1, <3>2, <3>3 DEF MapsFollowed
  <2>3. ExtraFollowed'
    BY <1>3, <2>1 DEF Followed, ExtraFollowed, SnapPages, Gained
  <2>4. \A q \in SnapPages : content'[q] = content[q] \/ q \in Dirty'
    BY <1>1 DEF Write, TypeInv, MemoryInv
  <2>5. \A m \in snap.maps : InPlace(m) => InPlace(m)'
    BY <2>1 DEF InPlace
  <2>6. LossIsDirty'
    BY <1>1, <1>3, <2>1, <2>4, <2>5, LossStaysDirty DEF Followed
  <2> QED BY <2>2, <2>3, <2>6 DEF Followed
<1> QED BY <1>1, <1>2, <1>3 DEF TypeInv

\* mmap at an address beside the snapshot.
LEMMA MmapFollowed ==
    ASSUME TypeInv, SavedInv, NEW s \in Page, NEW n \in 1 .. MaxLen, s + n - 1 \in Page,
           NEW perms \in Perms, Mmap(s, n, perms)
    PROVE  TypeInv' /\ (mishaps' = {} /\ Followed => Followed')
<1> DEFINE r == Range(s, n)
<1>1. r \subseteq Page
  BY RangeInPage
<1>2. /\ perm' = [p \in Page |-> IF p \in r THEN perms ELSE perm[p]]
      /\ content' = [p \in Page |-> IF p \in r THEN Zero ELSE content[p]]
      /\ new_maps' = Insert(new_maps, r, perms, TRUE)
      /\ ~ empty /\ empty' = empty /\ snap' = snap /\ before' = before /\ lost' = lost /\ brk' = brk
      /\ UNCHANGED accesses
  BY DEF Mmap, Ran, RanLosing, saved
<1>3. mishaps' = {} => r \cap SnapPages = {}
  BY DEF Mmap, Ran, RanLosing
<1> HIDE DEF r
<1>4. AccessInv'
  BY <1>2 DEF TypeInv, AccessInv, accesses
<1>5. new_maps \subseteq RegionType
  BY DEF TypeInv, MemoryInv
<1>6. MemoryInv'
  <2>1. perm' \in [Page -> GuestPerms] /\ content' \in [Page -> Value]
    BY <1>2, SnapshotAssumption DEF TypeInv, MemoryInv, GuestPerms
  <2>2. \A p \in Page : perm'[p] = "unmapped" => content'[p] = Zero
    BY <1>2 DEF TypeInv, MemoryInv
  <2>3. new_maps' \subseteq RegionType
    BY <1>1, <1>2, <1>5, InsertLeaves
  <2>4. brk' \in Page /\ empty' \in BOOLEAN
    BY <1>2 DEF TypeInv, MemoryInv
  <2> QED BY <2>1, <2>2, <2>3, <2>4, ZenonT(60) DEF MemoryInv
<1>7. ASSUME mishaps' = {}, Followed PROVE Followed'
  <2>1. r \cap SnapPages = {}
    BY <1>3, <1>7
  <2>2. \A x \in new_maps' : x \in new_maps \/ x.range = r
    BY <1>1, <1>2, <1>5, InsertLeaves
  <2>3. \A e \in new_maps : \A p \in e.range \ r : e \in new_maps'
    BY <1>1, <1>2, <1>5, InsertLeaves
  <2>4. ASSUME NEW m \in snap.maps PROVE InPlace(m)' <=> InPlace(m)
    <3>1. m.range \cap r = {}
      BY <2>1, SnapMaps, <1>2
    <3> QED BY <2>2, <2>3, <3>1, <1>2 DEF InPlace, Overlapping
  <2>5. \A p \in SnapPages : p \in Page /\ p \notin r /\ perm'[p] = perm[p]
                             /\ content'[p] = content[p]
    BY <2>1, <1>2, SnapMaps
  <2>6. MapsFollowed'
    <3>1. \A e \in new_maps' : \/ \E m \in snap.maps : e.range \subseteq m.range
                               \/ e.range \cap SnapPages = {}
      BY <2>1, <2>2, <1>7 DEF Followed, MapsFollowed
    <3>2. ASSUME NEW m \in snap.maps, InPlace(m)', NEW p \in m.range
          PROVE  /\ Overlapping(new_maps', {p}) # {}
                 /\ perm'[p] # "unmapped" \/ p \in Regained
      <4>1. p \in SnapPages
        BY DEF SnapPages
      <4>2. Overlapping(new_maps, {p}) # {} /\ (perm[p] # "unmapped" \/ p \in Regained)
        BY <1>7, <2>4, <3>2 DEF Followed, MapsFollowed
      <4> QED BY <2>3, <2>5, <4>1, <4>2, ZenonT(60) DEF Overlapping
    <3>3. ASSUME NEW e \in new_maps', NEW m \in snap.maps, NEW p \in e.range \cap m.range
          PROVE  /\ e.perms # "unknown"
                 /\ ~ e.changed => e.perms = m.perms
                 /\ perm'[p] = e.perms
                      \/ (m.perms = "rw" /\ perm'[p] \in {"rw", "unmapped"})
      <4>1. p \in SnapPages
        BY DEF SnapPages
      <4>2. e \in new_maps
        BY <2>2, <2>5, <4>1
      <4> QED BY <1>7, <2>5, <4>1, <4>2 DEF Followed, MapsFollowed
    <3> QED BY <1>2, <3>1, <3>2, <3>3, ZenonT(60) DEF MapsFollowed, SnapPages, Regained
  <2>7. ExtraFollowed'
    <3>1. ASSUME NEW p \in Page \ SnapPages, perm'[p] # "unmapped"
          PROVE  Overlapping(new_maps', {p}) # {} \/ p \in Gained
      <4>1. CASE p \in r
        <5>1. Region(r, perms, TRUE) \in new_maps' /\ Region(r, perms, TRUE).range = r
          BY <1>1, <1>2, <1>5, InsertLeaves, ZenonT(60)
        <5> QED BY <4>1, <5>1, OverlapsPage
      <4>2. CASE p \notin r
        <5>1. perm[p] # "unmapped"
          BY <1>2, <3>1, <4>2
        <5>2. Overlapping(new_maps, {p}) # {} \/ p \in Gained
          BY <1>7, <5>1 DEF Followed, ExtraFollowed
        <5> QED BY <2>3, <4>2, <5>2, OverlapsPage
      <4> QED BY <4>1, <4>2
    <3> QED BY <1>2, <1>7, <3>1 DEF Followed, ExtraFollowed, SnapPages, Gained
  <2>8. LossIsDirty'
    <3>1. Dirty \subseteq Dirty'
      BY <1>2 DEF accesses, Dirty
    <3> QED BY <1>2, <1>7, <2>4, <2>5, <3>1, LossStaysDirty DEF Followed
  <2> QED BY <2>6, <2>7, <2>8 DEF Followed
<1> QED BY <1>4, <1>6, <1>7 DEF TypeInv

\* Cutting a range out of new_maps, for all the calls that do.
LEMMA CutMaps ==
    ASSUME TypeInv, NEW r \in SUBSET Page, IsInterval(r)
    PROVE  /\ CutOut(new_maps, r) \in SUBSET RegionType
           /\ \A x \in CutOut(new_maps, r) :
                /\ x.range \cap r = {}
                /\ \E e \in new_maps : /\ x.range \subseteq e.range /\ x.perms = e.perms
                                       /\ e.changed => x.changed
           /\ \A e \in new_maps : \A p \in e.range \ r :
                \E x \in CutOut(new_maps, r) : p \in x.range
           /\ Touched(new_maps, r) \in SUBSET Page
           /\ \A e \in new_maps : \A p \in e.range \cap r : p \in Touched(new_maps, r)
<1>1. new_maps \in SUBSET RegionType
  BY DEF TypeInv, MemoryInv
<1>2. CutOut(new_maps, r) \subseteq RegionType
  BY <1>1, CutOutLeaves
<1>3. \A e \in new_maps : \A p \in e.range \ r : \E x \in CutOut(new_maps, r) : p \in x.range
  BY <1>1, CutOutLeaves
<1>4. ASSUME NEW x \in CutOut(new_maps, r)
      PROVE  /\ x.range \cap r = {}
             /\ \E e \in new_maps : /\ x.range \subseteq e.range /\ x.perms = e.perms
                                    /\ e.changed => x.changed
  <2>1. /\ x.range \cap r = {}
        /\ \/ x \in new_maps
           \/ \E e \in Overlapping(new_maps, r) :
                x.range \subseteq e.range /\ x.range # {} /\ x.perms = e.perms /\ x.changed
    BY <1>1, CutOutLeaves
  <2>2. CASE x \in new_maps
    BY <2>1, <2>2
  <2>3. CASE x \notin new_maps
    BY <2>1, <2>3 DEF Overlapping
  <2> QED BY <2>2, <2>3
<1>5. \A e \in new_maps : e.range \subseteq Page
  BY <1>1 DEF RegionType
<1>6. /\ Touched(new_maps, r) \in SUBSET Page
      /\ \A e \in new_maps : \A p \in e.range \cap r : p \in Touched(new_maps, r)
  BY <1>5 DEF Touched, Overlapping
<1> QED BY <1>2, <1>3, <1>4, <1>6

\* munmap: what the filter lets through lies beside the snapshot.
LEMMA MunmapFollowed ==
    ASSUME TypeInv, SavedInv, NEW t \in Thread, NEW s \in Page, NEW n \in 1 .. MaxLen,
           s + n - 1 \in Page, Munmap(t, s, n)
    PROVE  TypeInv' /\ (Followed => Followed')
<1> DEFINE r == Range(s, n)
<1>1. r \in SUBSET Page /\ IsInterval(r)
  BY RangeInPage
<1>2. /\ ~ empty /\ empty' = empty /\ snap' = snap /\ before' = before
      /\ lost' = lost /\ brk' = brk
  BY DEF Munmap, Ran, RanLosing, saved
<1>3. CASE r \cap SnapPages # {}
  <2>1. /\ UNCHANGED <<perm, content, brk, new_maps, empty, snap, before, lost>>
        /\ UNCHANGED accesses
    BY <1>2, <1>3 DEF Munmap
  <2> QED BY <2>1, SameFollowed
<1>4. CASE r \cap SnapPages = {}
  <2>1. /\ perm' = [p \in Page |-> IF p \in r THEN "unmapped" ELSE perm[p]]
        /\ content' = [p \in Page |-> IF p \in r THEN Zero ELSE content[p]]
        /\ new_maps' = CutOut(new_maps, r)
        /\ MarkDirty(t, Touched(new_maps, r))
    BY <1>4 DEF Munmap
  <2> HIDE DEF r
  <2>2. new_maps' \in SUBSET RegionType /\ Touched(new_maps, r) \in SUBSET Page
    BY <1>1, <2>1, CutMaps
  <2>6. \A x \in new_maps' :
          \E e \in new_maps : /\ x.range \subseteq e.range /\ x.perms = e.perms
                              /\ e.changed => x.changed
    BY <1>1, <2>1, CutMaps
  <2>7. \A e \in new_maps : \A p \in e.range \ r : \E x \in new_maps' : p \in x.range
    BY <1>1, <2>1, CutMaps
  <2>3. AccessInv' /\ Dirty \subseteq Dirty'
    BY <2>1, <2>2, MarkDirtyMarks DEF TypeInv
  <2>4. MemoryInv'
    <3>1. perm' \in [Page -> GuestPerms] /\ content' \in [Page -> Value]
      BY <2>1, SnapshotAssumption DEF TypeInv, MemoryInv, GuestPerms
    <3>2. \A p \in Page : perm'[p] = "unmapped" => content'[p] = Zero
      BY <2>1 DEF TypeInv, MemoryInv
    <3> QED BY <1>2, <2>2, <3>1, <3>2 DEF TypeInv, MemoryInv
  <2>5. ASSUME Followed PROVE Followed'
    <3>1. \A p \in SnapPages : p \in Page /\ p \notin r /\ perm'[p] = perm[p]
                               /\ content'[p] = content[p]
      BY <1>2, <1>4, <2>1, SnapMaps
    <3>2. ASSUME NEW m \in snap.maps PROVE InPlace(m)' <=> InPlace(m)
      <4>1. m.range \subseteq SnapPages
        BY <1>2, SnapMaps
      <4>2. InPlace(m)' => InPlace(m)
        BY <1>2, <2>6 DEF InPlace, Overlapping
      <4>3. InPlace(m) => InPlace(m)'
        BY <1>2, <2>7, <3>1, <4>1 DEF InPlace, Overlapping
      <4> QED BY <4>2, <4>3
    <3>3. MapsFollowed'
      <4>1. \A x \in new_maps' : \/ \E m \in snap.maps : x.range \subseteq m.range
                                 \/ x.range \cap SnapPages = {}
        <5> SUFFICES ASSUME NEW x \in new_maps'
                     PROVE  \/ \E m \in snap.maps : x.range \subseteq m.range
                            \/ x.range \cap SnapPages = {}
          OBVIOUS
        <5>1. PICK e \in new_maps : x.range \subseteq e.range
          BY <2>6
        <5> QED BY <2>5, <5>1 DEF Followed, MapsFollowed
      <4>2. ASSUME NEW m \in snap.maps, InPlace(m)', NEW p \in m.range
            PROVE  /\ Overlapping(new_maps', {p}) # {}
                   /\ perm'[p] # "unmapped" \/ p \in Regained
        <5>1. p \in SnapPages
          BY DEF SnapPages
        <5>2. Overlapping(new_maps, {p}) # {} /\ (perm[p] # "unmapped" \/ p \in Regained)
          BY <2>5, <3>2, <4>2 DEF Followed, MapsFollowed
        <5>3. PICK e \in new_maps : p \in e.range
          BY <5>2, OverlapsPage
        <5>4. \E x \in new_maps' : p \in x.range
          BY <2>7, <3>1, <5>1, <5>3
        <5> QED BY <3>1, <5>1, <5>2, <5>4, OverlapsPage
      <4>3. ASSUME NEW x \in new_maps', NEW m \in snap.maps, NEW p \in x.range \cap m.range
            PROVE  /\ x.perms # "unknown"
                   /\ ~ x.changed => x.perms = m.perms
                   /\ perm'[p] = x.perms
                        \/ (m.perms = "rw" /\ perm'[p] \in {"rw", "unmapped"})
        <5>1. p \in SnapPages
          BY DEF SnapPages
        <5>2. PICK e \in new_maps : /\ x.range \subseteq e.range /\ x.perms = e.perms
                                    /\ e.changed => x.changed
          BY <2>6
        <5> QED BY <2>5, <3>1, <5>1, <5>2 DEF Followed, MapsFollowed
      <4> QED BY <1>2, <4>1, <4>2, <4>3 DEF MapsFollowed, SnapPages, Regained
    <3>4. ExtraFollowed'
      <4>1. ASSUME NEW p \in Page \ SnapPages, perm'[p] # "unmapped"
            PROVE  Overlapping(new_maps', {p}) # {} \/ p \in Gained
        <5>1. p \notin r /\ perm[p] # "unmapped"
          BY <2>1, <4>1
        <5>2. Overlapping(new_maps, {p}) # {} \/ p \in Gained
          BY <2>5, <5>1 DEF Followed, ExtraFollowed
        <5> QED BY <2>7, <5>1, <5>2, OverlapsPage
      <4> QED BY <1>2, <2>5, <4>1 DEF Followed, ExtraFollowed, SnapPages, Gained
    <3>5. LossIsDirty'
      BY <1>2, <2>3, <2>5, <3>1, <3>2, LossStaysDirty DEF Followed
    <3> QED BY <3>3, <3>4, <3>5 DEF Followed
  <2> QED BY <2>3, <2>4, <2>5 DEF TypeInv
<1> QED BY <1>3, <1>4

\* mprotect of pages of one mapping of the snapshot, or of none.
LEMMA MprotectFollowed ==
    ASSUME TypeInv, SavedInv, NEW s \in Page, NEW n \in 1 .. MaxLen, s + n - 1 \in Page,
           NEW perms \in Perms, Mprotect(s, n, perms)
    PROVE  TypeInv' /\ (mishaps' = {} /\ Followed => Followed')
<1> DEFINE r == Range(s, n)
           new == Region(r, perms, TRUE)
<1>1. r \in SUBSET Page /\ IsInterval(r)
  BY RangeInPage
<1>2. /\ perm' = [p \in Page |-> IF p \in r THEN perms ELSE perm[p]]
      /\ new_maps' = Insert(CutOut(new_maps, r), r, perms, TRUE)
      /\ ~ empty /\ empty' = empty /\ snap' = snap /\ before' = before /\ lost' = lost /\ brk' = brk
      /\ content' = content /\ UNCHANGED accesses
      /\ r \cap Unmapped = {}
  BY DEF Mprotect, Ran, RanLosing, saved
<1>3. mishaps' = {} => \/ r \cap SnapPages = {}
                       \/ \E m \in snap.maps : r \subseteq m.range /\ InPlace(m)
  BY DEF Mprotect, Ran, RanLosing
<1>4. new.range = r /\ new.perms = perms /\ new.changed
  BY DEF Region
<1> HIDE DEF r, new
<1>5. CutOut(new_maps, r) \in SUBSET RegionType
  BY <1>1, CutMaps
<1>6. new_maps' \subseteq RegionType /\ new \in new_maps'
  BY <1>1, <1>2, <1>5, InsertLeaves DEF new
<1>7. \A x \in new_maps' : x = new \/ x \in CutOut(new_maps, r)
  BY <1>1, <1>2, <1>5, InsertLeaves DEF new
<1>8. \A x \in CutOut(new_maps, r) : x.range \cap r = {} /\
          \E e \in new_maps : x.range \subseteq e.range /\ x.perms = e.perms
                              /\ (e.changed => x.changed)
  BY <1>1, CutMaps
<1>9. ASSUME NEW e \in new_maps, NEW p \in e.range
      PROVE  \E x \in new_maps' : p \in x.range
  <2>1. CASE p \in r
    BY <1>4, <1>6, <2>1
  <2>2. CASE p \notin r
    <3>1. PICK x \in CutOut(new_maps, r) : p \in x.range
      BY <1>1, <2>2, CutMaps
    <3>2. x \in new_maps'
      BY <1>1, <1>2, <1>5, <2>2, <3>1, InsertLeaves
    <3> QED BY <3>1, <3>2
  <2> QED BY <2>1, <2>2
<1>10. AccessInv'
  BY <1>2 DEF TypeInv, AccessInv, accesses
<1>11. MemoryInv'
  <2>1. perm' \in [Page -> GuestPerms]
    BY <1>2 DEF TypeInv, MemoryInv, GuestPerms
  <2>2. \A p \in Page : perm'[p] = "unmapped" => content'[p] = Zero
    BY <1>2 DEF TypeInv, MemoryInv, Perms
  <2> QED BY <1>2, <1>6, <2>1, <2>2 DEF TypeInv, MemoryInv
<1>12. ASSUME mishaps' = {}, Followed PROVE Followed'
  <2>1. ASSUME NEW m \in snap.maps PROVE InPlace(m)' <=> InPlace(m)
    <3>1. ASSUME InPlace(m) PROVE InPlace(m)'
      <4>1. PICK e \in new_maps : e.range \cap m.range # {}
        BY <3>1 DEF InPlace, Overlapping
      <4>2. PICK p \in e.range : p \in m.range
        BY <4>1
      <4>3. \E x \in new_maps' : p \in x.range
        BY <1>9, <4>2
      <4> QED BY <1>2, <4>2, <4>3 DEF InPlace, Overlapping
    <3>2. ASSUME InPlace(m)' PROVE InPlace(m)
      <4>1. PICK x \in new_maps' : x.range \cap m.range # {}
        BY <1>2, <3>2 DEF InPlace, Overlapping
      <4>2. CASE x = new
        <5>1. r \cap SnapPages # {}
          BY <1>4, <4>1, <4>2 DEF SnapPages
        <5>2. PICK o \in snap.maps : r \subseteq o.range /\ InPlace(o)
          BY <1>3, <1>12, <5>1
        <5> QED BY <1>2, <1>4, <4>1, <4>2, <5>2, SnapMaps
      <4>3. CASE x \in CutOut(new_maps, r)
        BY <1>8, <4>1, <4>3 DEF InPlace, Overlapping
      <4> QED BY <1>7, <4>1, <4>2, <4>3
    <3> QED BY <3>1, <3>2
  <2>2. MapsFollowed'
    <3>1. ASSUME NEW x \in new_maps'
          PROVE  \/ \E m \in snap.maps : x.range \subseteq m.range
                 \/ x.range \cap SnapPages = {}
      <4>1. CASE x = new
        BY <1>3, <1>4, <1>12, <4>1
      <4>2. CASE x \in CutOut(new_maps, r)
        <5>1. PICK e \in new_maps : x.range \subseteq e.range
          BY <1>8, <4>2
        <5> QED BY <1>12, <5>1 DEF Followed, MapsFollowed
      <4> QED BY <1>7, <4>1, <4>2
    <3>2. ASSUME NEW m \in snap.maps, InPlace(m)', NEW p \in m.range
          PROVE  /\ Overlapping(new_maps', {p}) # {}
                 /\ perm'[p] # "unmapped" \/ p \in Regained
      <4>1. Overlapping(new_maps, {p}) # {} /\ (perm[p] # "unmapped" \/ p \in Regained)
        BY <1>12, <2>1, <3>2 DEF Followed, MapsFollowed
      <4>2. p \in Page
        BY <1>2, SnapMaps
      <4>3. perm'[p] # "unmapped" \/ p \in Regained
        BY <1>2, <4>1, <4>2 DEF Perms
      <4>4. PICK e \in new_maps : p \in e.range
        BY <4>1, OverlapsPage
      <4>5. \E x \in new_maps' : p \in x.range
        BY <1>9, <4>4
      <4> QED BY <4>3, <4>5, OverlapsPage
    <3>3. ASSUME NEW x \in new_maps', NEW m \in snap.maps, NEW p \in x.range \cap m.range
          PROVE  /\ x.perms # "unknown"
                 /\ ~ x.changed => x.perms = m.perms
                 /\ perm'[p] = x.perms
                      \/ (m.perms = "rw" /\ perm'[p] \in {"rw", "unmapped"})
      <4>1. p \in Page
        BY <1>2, SnapMaps
      <4>2. CASE x = new
        BY <1>2, <1>4, <4>1, <4>2 DEF Perms
      <4>3. CASE x \in CutOut(new_maps, r)
        <5>1. PICK e \in new_maps : x.range \subseteq e.range /\ x.perms = e.perms
                                    /\ (e.changed => x.changed)
          BY <1>8, <4>3
        <5>2. perm'[p] = perm[p]
          BY <1>2, <1>8, <4>1, <4>3
        <5> QED BY <1>12, <5>1, <5>2 DEF Followed, MapsFollowed
      <4> QED BY <1>7, <4>2, <4>3
    <3> QED BY <1>2, <3>1, <3>2, <3>3, ZenonT(60) DEF MapsFollowed, SnapPages, Regained
  <2>3. ExtraFollowed'
    <3>1. ASSUME NEW p \in Page \ SnapPages, perm'[p] # "unmapped"
          PROVE  Overlapping(new_maps', {p}) # {} \/ p \in Gained
      <4>1. perm[p] # "unmapped"
        BY <1>2, <3>1 DEF Unmapped
      <4>2. Overlapping(new_maps, {p}) # {} \/ p \in Gained
        BY <1>12, <4>1 DEF Followed, ExtraFollowed
      <4> QED BY <1>9, <4>2, OverlapsPage
    <3> QED BY <1>2, <1>12, <3>1 DEF Followed, ExtraFollowed, SnapPages, Gained
  <2>4. LossIsDirty'
    <3>1. Dirty \subseteq Dirty'
      BY <1>2 DEF accesses, Dirty
    <3> QED BY <1>2, <1>12, <2>1, <3>1, LossStaysDirty DEF Followed
  <2> QED BY <2>2, <2>3, <2>4 DEF Followed
<1> QED BY <1>10, <1>11, <1>12 DEF TypeInv

\* mremap of what lies beside the snapshot, or of one of its mappings.
LEMMA MremapFollowed ==
    ASSUME TypeInv, SavedInv, NEW t \in Thread,
           NEW s \in Page, NEW n \in 1 .. MaxLen, s + n - 1 \in Page,
           NEW s2 \in Page, NEW n2 \in 1 .. MaxLen, s2 + n2 - 1 \in Page,
           Mremap(t, s, n, s2, n2)
    PROVE  TypeInv' /\ (mishaps' = {} /\ Followed => Followed')
<1> DEFINE old == Range(s, n)
           r == Range(s2, n2)
           new == Region(r, "unknown", TRUE)
<1>1. /\ old \in SUBSET Page /\ IsInterval(old) /\ r \in SUBSET Page /\ s \in old
  BY RangeInPage
<1>2. /\ perm' = [p \in Page |-> IF p \in r THEN perm[s]
                                 ELSE IF p \in old THEN "unmapped" ELSE perm[p]]
      /\ new_maps' = Insert(CutOut(new_maps, old), r, "unknown", TRUE)
      /\ MarkDirty(t, Touched(new_maps, old))
      /\ ~ empty /\ empty' = empty /\ snap' = snap /\ before' = before /\ lost' = lost /\ brk' = brk
      /\ perm[s] # "unmapped"
  BY <1>1 DEF Mremap, Ran, RanLosing, saved
<1>3. content' = [p \in Page |-> IF p \in r
                                 THEN IF p - s2 < n THEN content[s + p - s2] ELSE Zero
                                 ELSE IF p \in old THEN Zero ELSE content[p]]
  BY DEF Mremap
<1>4. mishaps' = {} => /\ r \cap SnapPages = {}
                       /\ \/ old \cap SnapPages = {}
                          \/ \E m \in snap.maps : m.range = old /\ InPlace(m)
  BY DEF Mremap, Ran, RanLosing
<1>5. \A p \in r : p - s2 < n => s + p - s2 \in Page
  BY SnapshotAssumption DEF Page, Range
<1>6. new.range = r /\ new.perms = "unknown" /\ new.changed
  BY DEF Region
<1> HIDE DEF r, old, new
<1>7. CutOut(new_maps, old) \in SUBSET RegionType /\ Touched(new_maps, old) \in SUBSET Page
  BY <1>1, CutMaps
<1>8. new_maps' \subseteq RegionType /\ new \in new_maps'
  BY <1>1, <1>2, <1>7, InsertLeaves DEF new
<1>9. \A x \in new_maps' : x = new \/ x \in CutOut(new_maps, old)
  BY <1>1, <1>2, <1>7, InsertLeaves DEF new
<1>10. \A x \in CutOut(new_maps, old) : x.range \cap old = {} /\
          \E e \in new_maps : x.range \subseteq e.range /\ x.perms = e.perms
                              /\ (e.changed => x.changed)
  BY <1>1, CutMaps
<1>11. ASSUME NEW e \in new_maps, NEW p \in e.range, p \notin old
       PROVE  \E x \in new_maps' : p \in x.range
  <2>1. CASE p \in r
    BY <1>6, <1>8, <2>1
  <2>2. CASE p \notin r
    <3>1. PICK x \in CutOut(new_maps, old) : p \in x.range
      BY <1>1, <1>11, CutMaps
    <3>2. x \in new_maps'
      BY <1>1, <1>2, <1>7, <2>2, <3>1, InsertLeaves
    <3> QED BY <3>1, <3>2
  <2> QED BY <2>1, <2>2
<1>12. AccessInv' /\ Touched(new_maps, old) \subseteq Dirty' /\ Dirty \subseteq Dirty'
  BY <1>2, <1>7, MarkDirtyMarks DEF TypeInv
<1>13. MemoryInv'
  <2>1. perm' \in [Page -> GuestPerms]
    BY <1>2 DEF TypeInv, MemoryInv, GuestPerms
  <2>2. content' \in [Page -> Value]
    BY <1>3, <1>5, SnapshotAssumption DEF TypeInv, MemoryInv
  <2>3. \A p \in Page : perm'[p] = "unmapped" => content'[p] = Zero
    BY <1>2, <1>3 DEF TypeInv, MemoryInv
  <2> QED BY <1>2, <1>8, <2>1, <2>2, <2>3 DEF TypeInv, MemoryInv
<1>14. ASSUME mishaps' = {}, Followed PROVE Followed'
  <2>1. ASSUME NEW m \in snap.maps, InPlace(m)'
        PROVE  InPlace(m) /\ m.range \cap old = {}
    <3>1. PICK x \in new_maps' : x.range \cap m.range # {}
      BY <1>2, <2>1 DEF InPlace, Overlapping
    <3>2. x # new
      BY <1>4, <1>6, <1>14, <3>1 DEF SnapPages
    <3>3. x \in CutOut(new_maps, old)
      BY <1>9, <3>2
    <3>4. InPlace(m)
      BY <1>10, <3>1, <3>3 DEF InPlace, Overlapping
    <3>5. m.range \cap old = {}
      <4>1. SUFFICES ASSUME m.range \cap old # {} PROVE FALSE
        OBVIOUS
      <4>2. old \cap SnapPages # {}
        BY <4>1 DEF SnapPages
      <4>3. PICK o \in snap.maps : o.range = old
        BY <1>4, <1>14, <4>2
      <4>4. o = m
        BY <1>2, <4>1, <4>3, SnapMaps
      <4> QED BY <1>10, <3>1, <3>3, <4>3, <4>4
    <3> QED BY <3>4, <3>5
  <2>2. ASSUME NEW m \in snap.maps, InPlace(m), NEW p \in m.range
        PROVE  \/ p \in old /\ p \in Touched(new_maps, old)
               \/ p \notin old /\ \E x \in new_maps' : p \in x.range
    <3>4. Overlapping(new_maps, {p}) # {}
      BY <1>14, <2>2 DEF Followed, MapsFollowed
    <3>1. PICK e \in new_maps : p \in e.range
      BY <3>4, OverlapsPage
    <3>2. CASE p \in old
      <4>1. p \in e.range \cap old
        BY <3>1, <3>2
      <4>2. p \in Touched(new_maps, old)
        BY <1>1, <4>1, CutMaps
      <4> QED BY <3>2, <4>2
    <3>3. CASE p \notin old
      BY <1>11, <3>1, <3>3
    <3> QED BY <3>2, <3>3
  <2>3. ASSUME NEW p \in SnapPages
        PROVE  /\ p \in Page /\ p \notin r
               /\ p \notin old => perm'[p] = perm[p] /\ content'[p] = content[p]
               /\ p \in old => p \in Dirty'
    <3>1. p \in Page /\ p \notin r
      BY <1>2, <1>4, <1>14, SnapMaps
    <3>2. ASSUME p \in old PROVE p \in Dirty'
      <4>1. PICK o \in snap.maps : o.range = old /\ InPlace(o)
        BY <1>4, <1>14, <3>2
      <4> QED BY <1>12, <2>2, <3>2, <4>1
    <3> QED BY <1>2, <1>3, <3>1, <3>2
  <2>4. MapsFollowed'
    <3>1. ASSUME NEW x \in new_maps'
          PROVE  \/ \E m \in snap.maps : x.range \subseteq m.range
                 \/ x.range \cap SnapPages = {}
      <4>1. CASE x = new
        BY <1>4, <1>6, <1>14, <4>1
      <4>2. CASE x \in CutOut(new_maps, old)
        <5>1. PICK e \in new_maps : x.range \subseteq e.range
          BY <1>10, <4>2
        <5> QED BY <1>14, <5>1 DEF Followed, MapsFollowed
      <4> QED BY <1>9, <4>1, <4>2
    <3>2. ASSUME NEW m \in snap.maps, InPlace(m)', NEW p \in m.range
          PROVE  /\ Overlapping(new_maps', {p}) # {}
                 /\ perm'[p] # "unmapped" \/ p \in Regained
      <4>1. InPlace(m) /\ p \notin old /\ p \in SnapPages
        BY <2>1, <3>2 DEF SnapPages
      <4>2. perm[p] # "unmapped" \/ p \in Regained
        BY <1>14, <4>1 DEF Followed, MapsFollowed
      <4>3. \E x \in new_maps' : p \in x.range
        BY <2>2, <4>1
      <4> QED BY <2>3, <4>1, <4>2, <4>3, OverlapsPage
    <3>3. ASSUME NEW x \in new_maps', NEW m \in snap.maps, NEW p \in x.range \cap m.range
          PROVE  /\ x.perms # "unknown"
                 /\ ~ x.changed => x.perms = m.perms
                 /\ perm'[p] = x.perms
                      \/ (m.perms = "rw" /\ perm'[p] \in {"rw", "unmapped"})
      <4>1. p \in SnapPages
        BY DEF SnapPages
      <4>2. x \in CutOut(new_maps, old)
        BY <1>6, <1>9, <2>3, <4>1
      <4>3. PICK e \in new_maps : x.range \subseteq e.range /\ x.perms = e.perms
                                  /\ (e.changed => x.changed)
        BY <1>10, <4>2
      <4>4. perm'[p] = perm[p]
        BY <1>10, <2>3, <4>1, <4>2
      <4> QED BY <1>14, <4>3, <4>4 DEF Followed, MapsFollowed
    <3> QED BY <1>2, <3>1, <3>2, <3>3, ZenonT(60) DEF MapsFollowed, SnapPages, Regained
  <2>5. ExtraFollowed'
    <3>1. ASSUME NEW p \in Page \ SnapPages, perm'[p] # "unmapped"
          PROVE  Overlapping(new_maps', {p}) # {} \/ p \in Gained
      <4>1. CASE p \in r
        BY <1>6, <1>8, <4>1, OverlapsPage
      <4>2. CASE p \notin r
        <5>1. p \notin old /\ perm[p] # "unmapped"
          BY <1>2, <3>1, <4>2
        <5>2. Overlapping(new_maps, {p}) # {} \/ p \in Gained
          BY <1>14, <5>1 DEF Followed, ExtraFollowed
        <5> QED BY <1>11, <5>1, <5>2, OverlapsPage
      <4> QED BY <4>1, <4>2
    <3> QED BY <1>2, <1>14, <3>1 DEF Followed, ExtraFollowed, SnapPages, Gained
  <2>6. LossIsDirty'
    <3>1. ASSUME NEW m \in snap.maps, InPlace(m)
          PROVE  InPlace(m)' \/ m.range \subseteq Dirty'
      <4>1. CASE m.range \cap old = {}
        <5>1. PICK p \in m.range : TRUE
          BY <1>2, SnapMaps
        <5>2. \E x \in new_maps' : p \in x.range
          BY <2>2, <3>1, <4>1
        <5> QED BY <1>2, <5>2 DEF InPlace, Overlapping
      <4>2. CASE m.range \cap old # {}
        <5>1. old \cap SnapPages # {}
          BY <4>2 DEF SnapPages
        <5>2. PICK o \in snap.maps : o.range = old
          BY <1>4, <1>14, <5>1
        <5>3. m.range = old
          BY <1>2, <4>2, <5>2, SnapMaps
        <5> QED BY <2>3, <5>3 DEF SnapPages
      <4> QED BY <4>1, <4>2
    <3> QED BY <1>2, <1>12, <1>14, <2>3, <3>1, LossStaysDirty DEF Followed
  <2> QED BY <2>4, <2>5, <2>6 DEF Followed
<1> QED BY <1>12, <1>13, <1>14 DEF TypeInv

\* The heap grows: what it takes is gained, or is a page of the snapshot's heap
\* that it had given up, which is dirty.
LEMMA BrkGrowFollowed ==
    ASSUME TypeInv, SavedInv, NEW b \in Page, BrkGrow(b)
    PROVE  TypeInv' /\ (mishaps' = {} /\ Followed => Followed')
<1> DEFINE r == brk .. (b - 1)
<1>1. /\ brk' = b /\ b > brk /\ r \subseteq Unmapped
      /\ perm' = [p \in Page |-> IF p \in r THEN "rw" ELSE perm[p]]
      /\ ~ empty /\ empty' = empty /\ snap' = snap /\ before' = before /\ lost' = lost
      /\ content' = content /\ new_maps' = new_maps /\ UNCHANGED accesses
  BY DEF BrkGrow, Ran, RanLosing, saved
<1>2. mishaps' = {} => r \cap SnapPages \subseteq InitialBrk .. (snap.brk - 1)
  BY DEF BrkGrow, Ran, RanLosing
<1>3. brk \in Int /\ b \in Int /\ snap.brk \in Int /\ \A p \in Page : p \in Int
  BY <1>1, SnapshotAssumption DEF TypeInv, MemoryInv, Page, SavedInv
<1>4. AccessInv'
  BY <1>1 DEF TypeInv, AccessInv, accesses
<1>5. MemoryInv'
  BY <1>1 DEF TypeInv, MemoryInv, GuestPerms, Perms
<1>6. ASSUME mishaps' = {}, Followed PROVE Followed'
  <2>1. Regained' \subseteq Regained
    BY <1>1, <1>3 DEF Regained
  <2>2. \A p \in Regained \ Regained' : p \in r
    BY <1>1, <1>3 DEF Regained
  <2>3. \A p \in Gained' : p \in Gained \/ (p \in r /\ p >= snap.brk)
    BY <1>1, <1>3 DEF Gained
  <2>4. \A p \in Gained : p \in Gained'
    BY <1>1, <1>3 DEF Gained
  <2>5. Gained' \cap SnapPages = {}
    <3>1. ASSUME NEW p \in SnapPages, p \in r PROVE p < snap.brk
      BY <1>2, <1>3, <1>6, <3>1
    <3> QED BY <1>3, <1>6, <2>3, <3>1 DEF Followed, ExtraFollowed
  <2>6. MapsFollowed'
    <3>1. ASSUME NEW m \in snap.maps, InPlace(m), NEW p \in m.range
          PROVE  /\ Overlapping(new_maps, {p}) # {}
                 /\ perm'[p] # "unmapped" \/ p \in Regained'
      <4>1. p \in Page
        BY <1>1, SnapMaps
      <4>2. Overlapping(new_maps, {p}) # {} /\ (perm[p] # "unmapped" \/ p \in Regained)
        BY <1>6, <3>1 DEF Followed, MapsFollowed
      <4> QED BY <1>1, <2>2, <4>1, <4>2
    <3>2. ASSUME NEW x \in new_maps, NEW m \in snap.maps, NEW p \in x.range \cap m.range
          PROVE  /\ x.perms # "unknown"
                 /\ ~ x.changed => x.perms = m.perms
                 /\ perm'[p] = x.perms
                      \/ (m.perms = "rw" /\ perm'[p] \in {"rw", "unmapped"})
      <4>1. p \in Page
        BY <1>1, SnapMaps
      <4>2. /\ x.perms # "unknown" /\ (~ x.changed => x.perms = m.perms)
            /\ perm[p] = x.perms \/ (m.perms = "rw" /\ perm[p] \in {"rw", "unmapped"})
        BY <1>6 DEF Followed, MapsFollowed
      <4>3. CASE p \in r
        <5>1. perm[p] = "unmapped" /\ perm'[p] = "rw"
          BY <1>1, <4>1, <4>3 DEF Unmapped
        <5>2. x.perms \in Perms \cup {"unknown"}
          BY DEF TypeInv, MemoryInv, RegionType
        <5> QED BY <4>2, <5>1, <5>2 DEF Perms
      <4>4. CASE p \notin r
        BY <1>1, <4>1, <4>2, <4>4
      <4> QED BY <4>3, <4>4
    <3> QED BY <1>1, <1>6, <3>1, <3>2, ZenonT(60) DEF Followed, MapsFollowed, SnapPages, InPlace
  <2>7. ExtraFollowed'
    <3>1. ASSUME NEW p \in Page \ SnapPages, perm'[p] # "unmapped"
          PROVE  Overlapping(new_maps, {p}) # {} \/ p \in Gained'
      <4>1. CASE p \in r
        <5>1. p \notin Regained
          BY <1>6 DEF Followed, LossIsDirty, SnapPages
        <5> QED BY <1>1, <1>3, <4>1, <5>1 DEF Regained, Gained
      <4>2. CASE p \notin r
        BY <1>1, <1>6, <2>4, <3>1, <4>2 DEF Followed, ExtraFollowed
      <4> QED BY <4>1, <4>2
    <3> QED BY <1>1, <2>5, <3>1 DEF ExtraFollowed, SnapPages
  <2>8. LossIsDirty'
    <3>1. Dirty' = Dirty /\ \A m \in snap.maps : InPlace(m)' <=> InPlace(m)
      BY <1>1 DEF accesses, Dirty, InPlace
    <3>2. \A p : LostAt(p)' <=> LostAt(p)
      BY <1>1 DEF LostAt
    <3> QED BY <1>1, <1>6, <2>1, <3>1, <3>2 DEF Followed, LossIsDirty, SnapPages
  <2> QED BY <2>6, <2>7, <2>8 DEF Followed
<1> QED BY <1>4, <1>5, <1>6 DEF TypeInv

\* The heap shrinks, and what it loses of the snapshot is dirty.
LEMMA BrkShrinkFollowed ==
    ASSUME TypeInv, SavedInv, NEW b \in Page, BrkShrink(b)
    PROVE  TypeInv' /\ (mishaps' = {} /\ Followed => Followed')
<1> DEFINE r == b .. (brk - 1)
<1>1. /\ brk' = b /\ b < brk
      /\ perm' = [p \in Page |-> IF p \in r THEN "unmapped" ELSE perm[p]]
      /\ content' = [p \in Page |-> IF p \in r THEN Zero ELSE content[p]]
      /\ ~ empty /\ empty' = empty /\ snap' = snap /\ before' = before
      /\ lost' = lost \cup (b .. (snap.brk - 1) \ Dirty)
      /\ new_maps' = new_maps /\ UNCHANGED accesses
  BY DEF BrkShrink, RanLosing, saved
<1>2. ASSUME mishaps' = {}, NEW p \in b .. (snap.brk - 1)
      PROVE  /\ p \in Dirty \/ p \in lost'
             /\ \E m \in snap.maps : p \in m.range /\ m.perms = "rw"
  BY <1>1, <1>2 DEF BrkShrink, RanLosing
<1>3. brk \in Int /\ b \in Int /\ snap.brk \in Int /\ \A p \in Page : p \in Int
  BY <1>1, SnapshotAssumption DEF TypeInv, MemoryInv, Page, SavedInv
<1>4. AccessInv'
  BY <1>1 DEF TypeInv, AccessInv, accesses
<1>5. MemoryInv'
  <2>1. perm' \in [Page -> GuestPerms] /\ content' \in [Page -> Value]
    BY <1>1, SnapshotAssumption DEF TypeInv, MemoryInv, GuestPerms
  <2>2. \A p \in Page : perm'[p] = "unmapped" => content'[p] = Zero
    BY <1>1 DEF TypeInv, MemoryInv
  <2> QED BY <1>1, <2>1, <2>2 DEF TypeInv, MemoryInv
<1>6. ASSUME mishaps' = {}, Followed PROVE Followed'
  <2>1. Regained' = b .. (snap.brk - 1) /\ Regained \subseteq Regained'
    BY <1>1, <1>3 DEF Regained
  <2>2. Gained' \subseteq Gained /\ \A p \in Gained : p \notin r => p \in Gained'
    BY <1>1, <1>3 DEF Gained
  <2>3. ASSUME NEW p \in SnapPages, p \in r PROVE p \in Regained'
    <3>1. p \notin Gained
      BY <1>6 DEF Followed, ExtraFollowed
    <3> QED BY <1>3, <2>1, <2>3, <3>1 DEF Gained
  <2>4. MapsFollowed'
    <3>1. ASSUME NEW m \in snap.maps, InPlace(m), NEW p \in m.range
          PROVE  /\ Overlapping(new_maps, {p}) # {}
                 /\ perm'[p] # "unmapped" \/ p \in Regained'
      <4>1. p \in Page /\ p \in SnapPages
        BY <1>1, SnapMaps
      <4>2. Overlapping(new_maps, {p}) # {} /\ (perm[p] # "unmapped" \/ p \in Regained)
        BY <1>6, <3>1 DEF Followed, MapsFollowed
      <4> QED BY <1>1, <2>1, <2>3, <4>1, <4>2
    <3>2. ASSUME NEW x \in new_maps, NEW m \in snap.maps, NEW p \in x.range \cap m.range
          PROVE  /\ x.perms # "unknown"
                 /\ ~ x.changed => x.perms = m.perms
                 /\ perm'[p] = x.perms
                      \/ (m.perms = "rw" /\ perm'[p] \in {"rw", "unmapped"})
      <4>1. p \in Page /\ p \in SnapPages
        BY <1>1, SnapMaps
      <4>2. /\ x.perms # "unknown" /\ (~ x.changed => x.perms = m.perms)
            /\ perm[p] = x.perms \/ (m.perms = "rw" /\ perm[p] \in {"rw", "unmapped"})
        BY <1>6 DEF Followed, MapsFollowed
      <4>3. CASE p \in r
        <5>1. perm'[p] = "unmapped"
          BY <1>1, <4>1, <4>3
        <5>2. PICK o \in snap.maps : p \in o.range /\ o.perms = "rw"
          BY <1>2, <1>6, <2>1, <2>3, <4>1, <4>3
        <5>3. o = m
          BY <1>1, <5>2, SnapMaps
        <5> QED BY <4>2, <5>1, <5>2, <5>3
      <4>4. CASE p \notin r
        BY <1>1, <4>1, <4>2, <4>4
      <4> QED BY <4>3, <4>4
    <3> QED BY <1>1, <1>6, <3>1, <3>2, ZenonT(60) DEF Followed, MapsFollowed, SnapPages, InPlace
  <2>5. ExtraFollowed'
    <3>1. ASSUME NEW p \in Page \ SnapPages, perm'[p] # "unmapped"
          PROVE  Overlapping(new_maps, {p}) # {} \/ p \in Gained'
      <4>1. p \notin r /\ perm[p] # "unmapped"
        BY <1>1, <3>1
      <4> QED BY <1>6, <2>2, <4>1 DEF Followed, ExtraFollowed
    <3> QED BY <1>1, <1>6, <2>2, <3>1 DEF Followed, ExtraFollowed, SnapPages
  <2>6. LossIsDirty'
    <3>1. Dirty' = Dirty /\ \A m \in snap.maps : InPlace(m)' <=> InPlace(m)
      BY <1>1 DEF accesses, Dirty, InPlace
    <3>2. ASSUME NEW p \in Page, LostAt(p) PROVE LostAt(p)'
      BY <1>1, <3>2 DEF LostAt
    <3>3. ASSUME NEW p \in Regained'
          PROVE  /\ p \in Dirty \/ LostAt(p)'
                 /\ \E m \in snap.maps : p \in m.range /\ m.perms = "rw"
      <4>1. /\ p \in Dirty \/ p \in lost'
            /\ \E m \in snap.maps : p \in m.range /\ m.perms = "rw"
        BY <1>2, <1>6, <2>1
      <4>2. p \in Page
        BY <1>1, <4>1, SnapMaps DEF SnapPages
      <4>3. CASE p \in r
        <5>1. content'[p] = Zero
          BY <1>1, <4>2, <4>3
        <5> QED BY <4>1, <5>1 DEF LostAt
      <4>4. CASE p \notin r
        <5>1. p \in Regained
          BY <1>1, <1>3, <4>2, <4>4 DEF Regained
        <5>2. p \in Dirty \/ LostAt(p)
          BY <1>6, <5>1 DEF Followed, LossIsDirty
        <5> QED BY <3>2, <4>1, <4>2, <5>2
      <4> QED BY <4>3, <4>4
    <3>4. ASSUME NEW p \in SnapPages, content'[p] # before.content[p]
          PROVE  p \in Dirty \/ LostAt(p)'
      <4>1. p \in Page
        BY <1>1, SnapMaps
      <4>2. CASE p \in r
        BY <2>3, <3>3, <4>2
      <4>3. CASE p \notin r
        <5>1. content[p] # before.content[p]
          BY <1>1, <3>4, <4>1, <4>3
        <5> QED BY <1>6, <3>2, <4>1, <5>1 DEF Followed, LossIsDirty
      <4> QED BY <4>2, <4>3
    <3> QED BY <1>1, <1>6, <3>1, <3>3, <3>4 DEF Followed, LossIsDirty, SnapPages
  <2> QED BY <2>4, <2>5, <2>6 DEF Followed
<1> QED BY <1>4, <1>5, <1>6 DEF TypeInv

\* A call that fails: what the hook records still has the right type.
LEMMA FailedCallType ==
    ASSUME TypeInv, NEW t \in Thread, NEW s \in Page, NEW n \in 1 .. MaxLen, s + n - 1 \in Page,
           CallFails(t, s, n)
    PROVE  TypeInv' /\ mishaps' # {}
<1> DEFINE r == Range(s, n)
<1>1. r \in SUBSET Page /\ IsInterval(r)
  BY RangeInPage
<1>2. /\ UNCHANGED <<perm, content, brk, empty>> /\ mishaps' # {}
      /\ \/ new_maps' = CutOut(new_maps, r) /\ MarkDirty(t, Touched(new_maps, r))
         \/ /\ \E perms \in Perms : new_maps' = Insert(CutOut(new_maps, r), r, perms, TRUE)
            /\ UNCHANGED accesses
         \/ new_maps' = new_maps /\ UNCHANGED accesses
  BY DEF CallFails, Ran, RanLosing, saved, guest
<1> HIDE DEF r
<1>3. CutOut(new_maps, r) \in SUBSET RegionType /\ Touched(new_maps, r) \in SUBSET Page
  BY <1>1, CutMaps
<1>4. new_maps' \subseteq RegionType
  <2>1. ASSUME NEW perms \in Perms
        PROVE  Insert(CutOut(new_maps, r), r, perms, TRUE) \subseteq RegionType
    BY <1>1, <1>3, InsertLeaves
  <2> QED BY <1>2, <1>3, <2>1 DEF TypeInv, MemoryInv
<1>5. AccessInv'
  <2>1. CASE UNCHANGED accesses
    BY <2>1 DEF TypeInv, AccessInv, accesses
  <2>2. CASE MarkDirty(t, Touched(new_maps, r))
    BY <1>3, <2>2, MarkDirtyMarks DEF TypeInv
  <2> QED BY <1>2, <2>1, <2>2
<1> QED BY <1>2, <1>4, <1>5 DEF TypeInv, MemoryInv

-----------------------------------------------------------------------------
(* pre_exec.                                                               *)

\* A guest that is as the snapshot saw it is followed.
LEMMA RestoredIsFollowed ==
    ASSUME SavedInv', ~ empty',
           perm' = LayoutPerm, brk' = SnapshotBrk, new_maps' = snap'.maps,
           \A p \in Page : content'[p] = before'.content[p] \/ LostAt(p)'
    PROVE  Followed'
<1>1. /\ SnapPages' = Layed /\ Layed \subseteq Page
      /\ \A m \in snap'.maps : /\ m.range \subseteq Layed /\ m.range # {} /\ m.perms \in Perms
                               /\ \A p \in m.range : PermsOf(p) = m.perms
      /\ \A m, o \in snap'.maps : m.range \cap o.range # {} => m = o
  <2>1. snap'.maps = {Region(m.range, m.perms, FALSE) : m \in Layout}
    BY DEF SavedInv
  <2>2. AsLayout(snap'.maps)
    BY <2>1, LayoutMaps, ZenonT(60)
  <2>3. SnapPages' = Layed
    BY <2>2 DEF AsLayout, SnapPages
  <2> QED BY <2>2, <2>3 DEF AsLayout
<1>2. Regained' = {} /\ Gained' = {}
  BY SnapshotAssumption DEF SavedInv, Regained, Gained, Page
<1>3. \A m \in snap'.maps : ~ m.changed
  BY DEF SavedInv, Region
<1>4. \A m \in snap'.maps : InPlace(m)' /\ \A p \in m.range : Overlapping(new_maps', {p}) # {}
  BY <1>1 DEF InPlace, Overlapping
<1>5. \A m \in snap'.maps : \A p \in m.range : perm'[p] = m.perms /\ perm'[p] # "unmapped"
  BY <1>1 DEF LayoutPerm, Perms
<1>6. \A p \in Page \ Layed : perm'[p] = "unmapped"
  BY DEF LayoutPerm
<1>7. MapsFollowed'
  <2>1. \A e \in new_maps', m \in snap'.maps : \A p \in e.range \cap m.range : e = m
    BY <1>1
  <2>2. \A m \in snap'.maps : m.perms # "unknown"
    BY <1>1 DEF Perms
  <2> QED BY <1>3, <1>4, <1>5, <2>1, <2>2 DEF MapsFollowed
<1>8. ExtraFollowed'
  BY <1>1, <1>2, <1>6 DEF ExtraFollowed
<1>9. LossIsDirty'
  BY <1>1, <1>2, <1>4 DEF LossIsDirty
<1> QED BY <1>7, <1>8, <1>9 DEF Followed

\* The first pre_exec takes the snapshot.
LEMMA SnapshotFollows ==
    ASSUME IInv, Snapshot
    PROVE  IInv'
<1>1. /\ empty /\ empty' = FALSE /\ perm' = perm /\ content' = content /\ brk' = brk
      /\ snap' = [pages |-> [p \in Page \ Unmapped |->
                              IF perm[p] = "none" THEN NoData ELSE content[p]],
                  maps |-> {Region(m.range, m.perms, FALSE) : m \in Layout},
                  brk |-> brk]
      /\ new_maps' = snap'.maps
      /\ before' = [perm |-> perm, content |-> content, brk |-> brk]
      /\ panicked' = panicked /\ restored' = restored /\ mishaps' = mishaps
      /\ ClearAccesses
  BY DEF Snapshot, guest
<1>2. /\ perm = LayoutPerm /\ brk = SnapshotBrk /\ restored = "none" /\ panicked = FALSE
      /\ content \in [Page -> Value]
      /\ \A p \in Page : perm[p] = "unmapped" => content[p] = Zero
  BY <1>1 DEF IInv, SavedInv, TypeInv, MemoryInv
<1>3. /\ Layed \subseteq Page
      /\ \A p \in Page : LayoutPerm[p] = "unmapped" <=> p \notin Layed
  <2>1. Layed \subseteq Page
    BY LayoutMaps DEF AsLayout
  <2>2. ASSUME NEW p \in Layed PROVE PermsOf(p) # "unmapped"
    <3>1. PICK m \in Layout : p \in m.range
      BY DEF Layed
    <3> QED BY <3>1, OneMapping, SnapshotAssumption DEF Perms
  <2> QED BY <2>1, <2>2 DEF LayoutPerm
<1>4. AccessInv'
  BY <1>1, ClearForgets
<1>5. MemoryInv'
  <2>1. new_maps' \subseteq RegionType
    BY <1>1, LayoutMaps DEF AsLayout
  <2> QED BY <1>1, <2>1 DEF IInv, TypeInv, MemoryInv
<1>6. SavedInv'
  <2>1. Page \ Unmapped = Layed
    BY <1>2, <1>3 DEF Unmapped
  <2>2. snap'.pages = [p \in Layed |-> IF before'.perm[p] = "none" THEN NoData
                                       ELSE before'.content[p]]
    BY <1>1, <2>1
  <2>3. \A p \in Page \ Layed : before'.content[p] = Zero
    BY <1>1, <1>2, <1>3
  <2> QED BY <1>1, <1>2, <2>2, <2>3 DEF SavedInv
<1>7. Followed'
  BY <1>1, <1>2, <1>6, RestoredIsFollowed
<1>8. Outcome'
  BY <1>1, <1>2 DEF Outcome
<1> QED BY <1>4, <1>5, <1>6, <1>7, <1>8 DEF IInv, TypeInv

\* A reset that does not panic leaves memory of the right type, whatever the
\* guest did before.
LEMMA ResetMemory ==
    ASSUME TypeInv, SavedInv, ~ empty, ~ ResetPanics
    PROVE  /\ LastPerm \in [Page -> GuestPerms]
           /\ LastContent \in [Page -> Value]
           /\ \A p \in Page : LastPerm[p] = "unmapped" => LastContent[p] = Zero
<1>1. \A p \in DirtySaved : p \in SnapPages /\ snap.pages[p] \in Value
  <2>1. \A p \in DirtySaved : p \in Layed /\ snap.pages[p] # NoData
    BY SnapMaps DEF DirtySaved, Unsaved, ResetPanics, FirstPanics
  <2>2. \A p \in Layed : snap.pages[p] = NoData \/ snap.pages[p] = before.content[p]
    BY DEF SavedInv
  <2>4. Layed \subseteq Page
    BY SnapMaps
  <2>3. \A p \in Layed : before.content[p] \in Value
    BY <2>4 DEF SavedInv
  <2> QED BY <2>1, <2>2, <2>3, SnapMaps
<1>2. \A m \in snap.maps : \A p \in m.range :
        (CHOOSE o \in snap.maps : p \in o.range).perms \in Perms
  BY SnapMaps
<1>3. \A p \in Page : BrkPerm[p] \in GuestPerms /\ BrkContent[p] \in Value
  BY SnapshotAssumption DEF BrkPerm, BrkContent, TypeInv, MemoryInv, GuestPerms, Perms
<1>4. \A p \in Page : FirstPerm[p] \in GuestPerms /\ FirstContent[p] \in Value
  BY <1>1, <1>3 DEF FirstPerm, FirstContent, WrittenFirst, GuestPerms, Perms
<1>5. \A p \in Page : MapsPerm[p] \in GuestPerms /\ MapsContent[p] \in Value
  BY <1>2, <1>4, SnapshotAssumption DEF MapsPerm, MapsContent, GuestPerms
<1>6. \A p \in Page : LastPerm[p] \in GuestPerms /\ LastContent[p] \in Value
  BY <1>1, <1>2, <1>5 DEF LastPerm, LastContent, Reopened, Later, GuestPerms
<1>7. ASSUME NEW p \in Page, LastPerm[p] = "unmapped" PROVE LastContent[p] = Zero
  <2>1. MapsPerm[p] = "unmapped" /\ ~ \E m \in Reopened : p \in m.range
    BY <1>2, <1>7 DEF LastPerm, Perms, Reopened
  <2>2. ~ \E m \in snap.maps : p \in m.range /\ ~ Unchanged(m)
    BY <1>2, <2>1 DEF MapsPerm, Perms
  <2>3. p \notin Later
    <3>1. ASSUME p \in Later PROVE FALSE
      <4>1. PICK m \in snap.maps : p \in m.range
        BY <1>1, <3>1 DEF Later, SnapPages
      <4>2. PICK x \in Found(m) : x.range = m.range
        BY <2>2, <4>1 DEF Unchanged
      <4>3. \E e \in new_maps : p \in e.range
        BY <4>1, <4>2 DEF Found, Overlapping, ModifiedMaps, MadeWritable, Region
      <4> QED BY <3>1, <4>3, OverlapsPage DEF Later, WrittenFirst
    <3> QED BY <3>1
  <2>4. LastContent[p] = MapsContent[p]
    BY <2>3 DEF LastContent
  <2>5. CASE MapsContent[p] = Zero
    BY <2>4, <2>5
  <2>6. CASE MapsContent[p] # Zero
    <3>1. MapsContent[p] = FirstContent[p] /\ ~ \E e \in LeftOver : p \in e.range
      BY <2>6 DEF MapsContent
    <3>2. FirstPerm[p] = "unmapped"
      BY <2>1, <2>2, <3>1 DEF MapsPerm
    <3>3. p \notin WrittenFirst
      BY <3>2 DEF ResetPanics, FirstPanics
    <3>4. BrkPerm[p] = "unmapped"
      BY <3>2 DEF FirstPerm
    <3>5. BrkContent[p] = Zero
      BY <3>4 DEF BrkPerm, BrkContent, TypeInv, MemoryInv
    <3> QED BY <2>4, <3>1, <3>3, <3>5 DEF FirstContent
  <2> QED BY <2>5, <2>6
<1> QED BY <1>6, <1>7 DEF LastPerm, LastContent

\* The later ones restore it.
LEMMA ResetFollows ==
    ASSUME IInv, ~ panicked, Reset
    PROVE  IInv'
<1>1. /\ ~ empty /\ empty' = empty /\ snap' = snap /\ before' = before
      /\ mishaps' = mishaps /\ panicked' = ResetPanics
  BY DEF Reset, saved
<1>2. SavedInv'
  BY <1>1 DEF IInv, SavedInv
<1>3. CASE ResetPanics
  <2>1. /\ UNCHANGED <<perm, content, brk, new_maps, lost>> /\ UNCHANGED accesses
        /\ restored' = "differs"
    BY <1>3 DEF Reset, guest
  <2>2. TypeInv' /\ (mishaps' = {} => Followed')
    BY <1>1, <2>1, SameFollowed DEF IInv
  <2>3. Unsaved' = Unsaved
    BY <1>1, <2>1 DEF Unsaved, DirtySaved, Dirty, accesses
  <2>4. Outcome'
    <3>1. mishaps = {} => Unsaved # {}
      BY <1>1, <1>3, ResetSucceeds DEF IInv
    <3> QED BY <1>1, <1>3, <2>3, <3>1 DEF Outcome
  <2> QED BY <1>1, <1>2, <2>2, <2>4 DEF IInv
<1>4. CASE ~ ResetPanics
  <2>1. /\ perm' = LastPerm /\ content' = LastContent /\ brk' = snap.brk
        /\ new_maps' = snap.maps /\ ClearAccesses /\ lost' = lost \ Dirty
        /\ restored' = IF /\ perm' = before.perm /\ brk' = before.brk
                          /\ \A p \in Page : \/ content'[p] = before.content[p]
                                             \/ p \in lost' /\ content'[p] = Zero
                       THEN "same" ELSE "differs"
    BY <1>4 DEF Reset
  <2>2. TypeInv'
    <3>1. snap.brk \in Page /\ snap.maps \subseteq RegionType
      BY <1>1, SnapMaps, SnapshotAssumption DEF IInv, SavedInv
    <3>2. MemoryInv'
      BY <1>1, <1>4, <2>1, <3>1, ResetMemory DEF IInv, MemoryInv, TypeInv
    <3> QED BY <2>1, <3>2, ClearForgets DEF TypeInv
  <2>3. ASSUME mishaps = {} PROVE Followed' /\ restored' = "same"
    <3>1. Unsaved = {}
      BY <1>4 DEF ResetPanics, FirstPanics
    <3>2. /\ LastPerm = before.perm
          /\ \A p \in Page : \/ LastContent[p] = before.content[p]
                             \/ p \in lost \ Dirty /\ LastContent[p] = Zero
          /\ snap.brk = SnapshotBrk /\ before.brk = SnapshotBrk
          /\ before.perm = LayoutPerm
      BY <1>1, <2>3, <3>1, ResetPerm, ResetContent DEF IInv, SavedInv
    <3>3. Followed'
      BY <1>1, <1>2, <2>1, <3>2, RestoredIsFollowed DEF LostAt
    <3> QED BY <2>1, <3>2, <3>3
  <2>4. Outcome'
    BY <1>1, <1>4, <2>3 DEF Outcome
  <2> QED BY <1>1, <1>2, <2>2, <2>3, <2>4 DEF IInv
<1> QED BY <1>3, <1>4

-----------------------------------------------------------------------------
(* All steps.                                                              *)

\* A guest step leaves the snapshot and the last outcome alone.
LEMMA GuestStep ==
    ASSUME IInv, Running, TypeInv', UNCHANGED <<saved, panicked, restored>>,
           empty => perm' = perm /\ brk' = brk /\ mishaps' = {},
           ~ empty /\ mishaps' = {} /\ Followed => Followed'
    PROVE  IInv'
<1>1. /\ snap' = snap /\ empty' = empty /\ before' = before
      /\ panicked' = panicked /\ restored' = restored /\ ~ panicked /\ mishaps = {}
  BY DEF saved, Running
<1>2. SavedInv'
  BY <1>1 DEF IInv, SavedInv
<1>3. Outcome'
  BY <1>1 DEF IInv, Outcome
<1> QED BY <1>1, <1>2, <1>3 DEF IInv

LEMMA InitEstablishes ==
    ASSUME Init
    PROVE  IInv
<1>1. \A p \in Layed : p \in Page /\ PermsOf(p) \in Perms
  <2>1. ASSUME NEW p \in Layed PROVE p \in Page /\ PermsOf(p) \in Perms
    <3>1. PICK m \in Layout : p \in m.range
      BY DEF Layed
    <3> QED BY <3>1, OneMapping, SnapshotAssumption
  <2> QED BY <2>1
<1>2. perm = LayoutPerm
  BY DEF Init, LayoutPerm, PermsOf
<1>3. MemoryInv
  <2>1. perm \in [Page -> GuestPerms]
    BY <1>1, <1>2 DEF LayoutPerm, GuestPerms
  <2>2. \A p \in Page : perm[p] = "unmapped" => content[p] = Zero
    BY <1>1, <1>2, SnapshotAssumption DEF LayoutPerm, Init, Perms
  <2> QED BY <2>1, <2>2, SnapshotAssumption DEF Init, MemoryInv
<1>4. AccessInv
  BY SnapshotAssumption DEF Init, AccessInv, EmptyCache, CacheSlot, NullPage
<1> QED BY <1>2, <1>3, <1>4 DEF Init, IInv, TypeInv, SavedInv, Outcome

LEMMA NextPreserves ==
    ASSUME IInv, [Next]_vars
    PROVE  IInv'
<1> USE DEF IInv
<1>1. ASSUME NEW t \in Thread, NEW p \in Page, NEW v \in Value, Write(t, p, v) PROVE IInv'
  <2>1. /\ Running /\ mishaps' = {} /\ perm' = perm /\ brk' = brk
        /\ UNCHANGED <<saved, panicked, restored>>
    BY <1>1 DEF Write, Ran, RanLosing
  <2>2. TypeInv' /\ (~ empty /\ Followed => Followed')
    BY <1>1, WriteFollowed
  <2> QED BY <2>1, <2>2, GuestStep
<1>2. ASSUME NEW s \in Page, NEW n \in 1 .. MaxLen, s + n - 1 \in Page, NEW perms \in Perms,
             Mmap(s, n, perms)
      PROVE  IInv'
  <2>1. Running /\ ~ empty /\ UNCHANGED <<saved, panicked, restored>>
    BY <1>2 DEF Mmap, Ran, RanLosing
  <2>2. TypeInv' /\ (mishaps' = {} /\ Followed => Followed')
    BY <1>2, MmapFollowed
  <2> QED BY <2>1, <2>2, GuestStep
<1>3. ASSUME NEW s \in Page, NEW n \in 1 .. MaxLen, s + n - 1 \in Page, NEW perms \in Perms,
             Mprotect(s, n, perms)
      PROVE  IInv'
  <2>1. Running /\ ~ empty /\ UNCHANGED <<saved, panicked, restored>>
    BY <1>3 DEF Mprotect, Ran, RanLosing
  <2>2. TypeInv' /\ (mishaps' = {} /\ Followed => Followed')
    BY <1>3, MprotectFollowed
  <2> QED BY <2>1, <2>2, GuestStep
<1>4. ASSUME NEW s \in Page, NEW n \in 1 .. MaxLen, s + n - 1 \in Page, NEW t \in Thread,
             Munmap(t, s, n)
      PROVE  IInv'
  <2>1. Running /\ ~ empty /\ UNCHANGED <<saved, panicked, restored>>
    BY <1>4 DEF Munmap, Ran, RanLosing
  <2>2. TypeInv' /\ (Followed => Followed')
    BY <1>4, MunmapFollowed
  <2> QED BY <2>1, <2>2, GuestStep
<1>5. ASSUME NEW s \in Page, NEW n \in 1 .. MaxLen, s + n - 1 \in Page, NEW t \in Thread,
             NEW s2 \in Page, NEW n2 \in 1 .. MaxLen, s2 + n2 - 1 \in Page,
             Mremap(t, s, n, s2, n2)
      PROVE  IInv'
  <2>1. Running /\ ~ empty /\ UNCHANGED <<saved, panicked, restored>>
    BY <1>5 DEF Mremap, Ran, RanLosing
  <2>2. TypeInv' /\ (mishaps' = {} /\ Followed => Followed')
    BY <1>5, MremapFollowed
  <2> QED BY <2>1, <2>2, GuestStep
<1>6. ASSUME NEW b \in Page, BrkGrow(b) PROVE IInv'
  <2>1. Running /\ ~ empty /\ UNCHANGED <<saved, panicked, restored>>
    BY <1>6 DEF BrkGrow, Ran, RanLosing
  <2>2. TypeInv' /\ (mishaps' = {} /\ Followed => Followed')
    BY <1>6, BrkGrowFollowed
  <2> QED BY <2>1, <2>2, GuestStep
<1>7. ASSUME NEW b \in Page, BrkShrink(b) PROVE IInv'
  <2>1. Running /\ ~ empty /\ UNCHANGED <<saved, panicked, restored>>
    BY <1>7 DEF BrkShrink, RanLosing
  <2>2. TypeInv' /\ (mishaps' = {} /\ Followed => Followed')
    BY <1>7, BrkShrinkFollowed
  <2> QED BY <2>1, <2>2, GuestStep
<1>8. ASSUME NEW s \in Page, NEW n \in 1 .. MaxLen, s + n - 1 \in Page, NEW t \in Thread,
             CallFails(t, s, n)
      PROVE  IInv'
  <2>1. /\ Running /\ ~ empty
        /\ UNCHANGED <<saved, panicked, restored>>
    BY <1>8 DEF CallFails, Ran, RanLosing
  <2>2. TypeInv' /\ mishaps' # {}
    BY <1>8, FailedCallType
  <2> QED BY <2>1, <2>2, GuestStep
<1>9. ASSUME PreExec PROVE IInv'
  BY <1>9, SnapshotFollows, ResetFollows DEF PreExec
<1>10. ASSUME UNCHANGED vars PROVE IInv'
  <2>1. /\ UNCHANGED <<perm, content, brk, new_maps, empty, snap, before, lost>>
        /\ UNCHANGED accesses
        /\ UNCHANGED <<panicked, restored, mishaps>>
    BY <1>10 DEF vars, accesses
  <2>2. SavedInv'
    BY <2>1 DEF SavedInv
  <2>3. Unsaved' = Unsaved
    BY <2>1 DEF Unsaved, DirtySaved, Dirty, accesses
  <2>4. Outcome'
    BY <2>1, <2>3 DEF Outcome
  <2> QED BY <2>1, <2>2, <2>4, SameFollowed
<1> QED BY <1>1, <1>2, <1>3, <1>4, <1>5, <1>6, <1>7, <1>8, <1>9, <1>10 DEF Next

LEMMA Invariance == Spec => []IInv
<1>1. Init => IInv
  BY InitEstablishes
<1>2. IInv /\ [Next]_vars => IInv'
  BY NextPreserves
<1> QED BY <1>1, <1>2, PTL DEF Spec

\* reset puts the guest's memory back, for every snapshot and every execution.
THEOREM ResetIsRight == Spec => []ResetRestores
<1>1. IInv => ResetRestores
  BY DEF IInv, Outcome, ResetRestores
<1> QED BY <1>1, Invariance, PTL

\* The dirty sets have every page that reset must write, at every moment.
THEOREM DirtySetsAreRight == Spec => []DirtyIsComplete
<1>1. IInv => DirtyIsComplete
  BY DEF IInv, Followed, LossIsDirty, LostAt, DirtyIsComplete
<1> QED BY <1>1, Invariance, PTL
=============================================================================
