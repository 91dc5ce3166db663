--------------------------- MODULE AsanAllocator ---------------------------
(***************************************************************************)
(* The heap of a guest that runs with address sanitizing (libaflmm_asan,    *)
(* allocator/frontend/default.rs): a buffer lies between two red zones in a  *)
(* chunk of the backend, the shadow lets the guest use the bytes of live     *)
(* buffers only, and a freed buffer waits in a quarantine, poisoned, until   *)
(* later frees push it out and its chunk goes back to the backend.           *)
(*                                                                          *)
(* The calls are those the hooks make for a guest's malloc, calloc,          *)
(* realloc, memalign and free, each under the lock of the one frontend; the  *)
(* steps of a realloc (alloc, then dealloc) and the calls of several threads *)
(* are the interleavings of Alloc and Dealloc.  A call that is refused       *)
(* before it changes anything (a free of an address that is not a buffer, or *)
(* was freed before) is no step.                                             *)
(***************************************************************************)
EXTENDS GuestShadow, Sequences, FiniteSets, Functions

CONSTANTS AddrSize,        \* size_of::<GuestAddr>(): 8, or 4 on 32 bits
          AllocAlign,      \* ALLOC_ALIGN_SIZE: 16, or 8 on 32 bits
          RedZone,         \* red_zone_size
          QuarantineSize,  \* quarantine_size
          Lens,            \* the lengths the guest asks for
          Aligns           \* the alignments the guest asks for

ASSUME AddrSizeAssumption == AddrSize \in Nat \ {0}
ASSUME AlignAssumption == AllocAlign \in Nat \ {0} /\ AllocAlign % Granule = 0
\* What new() refuses, and what a layout of the shadow needs.
ASSUME RedZoneAssumption == RedZone \in Nat /\ RedZone % AllocAlign = 0
ASSUME QuarantineAssumption == QuarantineSize \in Nat
\* The hooks answer a request for 0 bytes with a null pointer.  An alignment
\* is 0 (malloc) or what memalign lets through.
ASSUME RequestAssumption ==
    /\ Lens \subseteq Nat \ {0}
    /\ \A a \in Aligns : a \in Nat /\ a % AddrSize = 0

VARIABLES shadow,
          allocations,      \* address of a buffer -> its Allocation
          tracked,          \* the ranges of GuestTracking
          quarantine,       \* freed buffers, the oldest first
          quarantine_used,  \* bytes of their chunks
          chunks,           \* chunks the backend has handed out
          given_back,       \* history: bytes of chunks it has had back and has
                            \* not handed out since
          failed            \* a legal call ended with an error

vars == <<shadow, allocations, tracked, quarantine, quarantine_used, chunks,
          given_back, failed>>

Addresses == 0 .. MemSize - 1
Chunk == [addr : Addresses, len : 1 .. MemSize]
Allocation == [len : Nat, chunk : Chunk, freed : BOOLEAN]

AlignUp(n) == ((n + AllocAlign - 1) \div AllocAlign) * AllocAlign

-----------------------------------------------------------------------------
(* The backend, as far as the frontend relies on it: an aligned piece of     *)
(* memory that no other chunk overlaps.                                      *)

Bytes(c) == c.addr .. c.addr + c.len - 1
Overlap(c, d) == c.addr < d.addr + d.len /\ d.addr < c.addr + c.len

BackendCanAlloc(c) ==
    /\ c.addr % AllocAlign = 0
    /\ c.addr + c.len <= MemSize
    /\ \A d \in chunks : ~Overlap(c, d)

-----------------------------------------------------------------------------
(* alloc *)

\* For the mutants: no room for the alignment.
ChunkLen_AlignForgotten(len, align) == AlignUp(len) + 2 * RedZone
ChunkLen(len, align) == AlignUp(len + align) + 2 * RedZone

\* Where the buffer starts in a chunk: behind the left red zone, and then at
\* the next multiple of align, a whole align further when it is on one.
DataAddress(orig, align) ==
    LET rz == orig + RedZone
    IN  IF align = 0 THEN rz ELSE rz + align - (rz % align)

\* For the mutants: the rest of the last granule is not poisoned.
RightLen_NotRounded(len) == RedZone
RightLen(len) == AlignUp(len) - len + RedZone

ShadowOfBuffer(s, orig, data, len) ==
    LET left == Poison(s, orig, data - orig)
        buffer == Unpoison(left, data, len)
    IN  Poison(buffer, data + len, RightLen(len))

\* Whether one of the three calls refuses its range.
ShadowRefuses(orig, data, len) ==
    \/ ~EndAligned(orig, data - orig)
    \/ ~StartAligned(data)
    \/ ~EndAligned(data + len, RightLen(len))

\* The range contains the start of one that is tracked, or starts in one.
TrackingConflict(data, len) ==
    \E t \in tracked : IF data > t.start THEN data - t.start < t.len
                                         ELSE t.start - data < len

\* The buffer is recorded and tracked before the shadow is written, and stays
\* so when the shadow refuses; the callers unwrap the error.
Alloc(len, align) ==
    \E orig \in Addresses :
        LET chunk == [addr |-> orig, len |-> ChunkLen(len, align)]
            data == DataAddress(orig, align)
            refused == \/ TrackingConflict(data, len)
                       \/ ShadowRefuses(orig, data, len)
        IN  /\ ~failed
            /\ BackendCanAlloc(chunk)
            /\ chunks' = chunks \cup {chunk}
            /\ given_back' = given_back \ Bytes(chunk)
            /\ allocations' =
                   [p \in DOMAIN allocations \cup {data} |->
                       IF p = data
                         THEN [len |-> len, chunk |-> chunk, freed |-> FALSE]
                         ELSE allocations[p]]
            /\ tracked' = IF TrackingConflict(data, len)
                            THEN tracked
                            ELSE tracked \cup {[start |-> data, len |-> len]}
            /\ failed' = refused
            /\ shadow' = IF refused
                           THEN shadow
                           ELSE ShadowOfBuffer(shadow, orig, data, len)
            /\ UNCHANGED <<quarantine, quarantine_used>>

-----------------------------------------------------------------------------
(* dealloc *)

\* The sum of a sequence of lengths.
TotalOf(lens) ==
    LET sum[n \in 0 .. Len(lens)] == IF n = 0 THEN 0 ELSE sum[n - 1] + lens[n]
    IN  sum[Len(lens)]

ChunkLensOf(buffers) == [i \in DOMAIN buffers |-> allocations[buffers[i]].chunk.len]
ChunkLens(buffers) == TotalOf(ChunkLensOf(buffers))

\* What quarantine_used comes to when the n oldest of these buffers are gone.
UsedWithout(used, buffers, n) == used - ChunkLens(SubSeq(buffers, 1, n))

\* For the mutants: one buffer at most is let go; or one too many, at the size.
Purges_Once(used, buffers, n) == n = IF used > QuarantineSize THEN 1 ELSE 0
Purges_AtSize(used, buffers, n) ==
    /\ n < Len(buffers) => UsedWithout(used, buffers, n) < QuarantineSize
    /\ \A m \in 0 .. n - 1 : UsedWithout(used, buffers, m) >= QuarantineSize

\* Whether purge_quarantine lets the n oldest buffers go when the quarantine
\* holds these: as many as it takes to bring its counter down to its size, and
\* no more; all of them when that does not.
Purges(used, buffers, n) ==
    /\ n < Len(buffers) => UsedWithout(used, buffers, n) <= QuarantineSize
    /\ \A m \in 0 .. n - 1 : UsedWithout(used, buffers, m) > QuarantineSize

\* untrack removes the range that contains the address.
Holds(range, p) == p \in range.start .. range.start + range.len - 1

\* The whole chunk is poisoned, red zones included, and stays so until alloc
\* makes a part of it a buffer again.  A chunk is whole granules, so the
\* shadow does not refuse it; the tracking may refuse the address, and what
\* is done by then stays done.  A counter that is above the size when no
\* buffer is left to let go is an error too (QuarantineCorruption).
Dealloc(p) ==
    /\ ~failed
    /\ p \in DOMAIN allocations
    /\ ~allocations[p].freed
    /\ LET chunk == allocations[p].chunk
           freed == [allocations EXCEPT ![p].freed = TRUE]
           refused == ~ \E t \in tracked : Holds(t, p)
           waiting == Append(quarantine, p)
           used == quarantine_used + chunk.len
       IN  /\ shadow' = Poison(shadow, chunk.addr, chunk.len)
           /\ IF refused
                THEN /\ allocations' = freed
                     /\ failed' = TRUE
                     /\ UNCHANGED <<tracked, quarantine, quarantine_used,
                                    chunks, given_back>>
                ELSE \E n \in 0 .. Len(waiting) :
                       LET gone == Range(SubSeq(waiting, 1, n))
                           returned == {freed[q].chunk : q \in gone}
                       IN  /\ Purges(used, waiting, n)
                           /\ tracked' = {t \in tracked : ~Holds(t, p)}
                           /\ quarantine' = SubSeq(waiting, n + 1, Len(waiting))
                           /\ quarantine_used' = UsedWithout(used, waiting, n)
                           /\ failed' = (quarantine_used' > QuarantineSize)
                           /\ allocations' = Restrict(freed, DOMAIN freed \ gone)
                           /\ chunks' = chunks \ returned
                           /\ given_back' =
                                  given_back \cup UNION {Bytes(c) : c \in returned}

-----------------------------------------------------------------------------

Init == /\ shadow = [g \in Granules |-> Valid]
        /\ allocations = << >>
        /\ tracked = {}
        /\ quarantine = << >>
        /\ quarantine_used = 0
        /\ chunks = {}
        /\ given_back = {}
        /\ failed = FALSE

Next == \/ \E len \in Lens, align \in Aligns : Alloc(len, align)
        \/ \E p \in DOMAIN allocations : Dealloc(p)

Spec == Init /\ [][Next]_vars

-----------------------------------------------------------------------------
(* Properties *)

Live == {p \in DOMAIN allocations : ~allocations[p].freed}

\* Every variable has its type.
TypeOK ==
    /\ shadow \in ShadowType
    /\ DOMAIN allocations \subseteq Addresses
    /\ \A p \in DOMAIN allocations : allocations[p] \in Allocation
    /\ tracked \subseteq [start : Addresses, len : Nat]
    /\ quarantine \in Seq(Addresses)
    /\ quarantine_used \in Nat
    /\ chunks \subseteq Chunk
    /\ given_back \subseteq Addresses
    /\ failed \in BOOLEAN

\* A request the hooks let through is served: the ranges that alloc and
\* dealloc give the shadow and the tracking are never refused, whatever was
\* allocated and freed before, and the purge finds no corrupt quarantine; and
\* a buffer lies inside its chunk, behind the left red zone, as alloc asserts.
\* This holds where a pointer is as wide as a granule, as on 64 bits.  On 32
\* bits the hooks let through an alignment of 4, half a granule, and the
\* shadow refuses the buffer after it was recorded.
LegalCallsSucceed ==
    /\ ~failed
    /\ \A p \in Live :
           LET chunk == allocations[p].chunk
           IN  /\ chunk.addr + RedZone <= p
               /\ p + allocations[p].len <= chunk.addr + chunk.len

\* The shadow tells apart, byte by byte and for as long as a buffer lives,
\* what the guest may use: an access that starts in the buffer or in one of
\* its red zones is reported exactly when it leaves the buffer, whatever
\* happens to the buffers next to it.
BoundsEnforced ==
    \A p \in Live :
        LET end == p + allocations[p].len
        IN  \A a \in p - RedZone .. end + RedZone - 1, n \in 1 .. 2 * Granule :
                a + n <= MemSize =>
                    (IsPoison(shadow, a, n) <=> ~ (p <= a /\ a + n <= end))

\* A use after free is reported: no byte of the chunk of a buffer in
\* quarantine may be used, nor any byte of a chunk given back (be it by a
\* later purge, or at once for a buffer larger than the quarantine) until the
\* backend hands that byte out again; and no call for another buffer, however
\* near its chunk is, changes that.
FreedIsPoisoned ==
    /\ \A p \in Range(quarantine) :
           \A a \in Bytes(allocations[p].chunk) : IsPoison(shadow, a, 1)
    /\ \A a \in given_back : IsPoison(shadow, a, 1)

\* The records of alloc and dealloc agree: the quarantine holds each freed
\* buffer once and counts the bytes of their chunks, within its size; what
\* is tracked is what is live; and a chunk is out of the backend exactly as
\* long as a buffer that is live or in quarantine lies in it.
RecordsAgree ==
    /\ Range(quarantine) = DOMAIN allocations \ Live
    /\ IsInjective(quarantine)
    /\ quarantine_used = ChunkLens(quarantine)
    /\ quarantine_used <= QuarantineSize
    /\ tracked = {[start |-> p, len |-> allocations[p].len] : p \in Live}
    /\ chunks = {allocations[p].chunk : p \in DOMAIN allocations}
    /\ Cardinality(chunks) = Cardinality(DOMAIN allocations)

\* The quarantine keeps buffers from being used again for a while: one leaves
\* it only when it and those freed since are more than the quarantine holds,
\* and after all those freed before it.
QuarantineHoldsBack ==
    [][\A p \in Range(quarantine) \ Range(quarantine') :
          LET at == CHOOSE i \in DOMAIN quarantine : quarantine[i] = p
              since == SubSeq(quarantine, at, Len(quarantine))
              now == CHOOSE q \in Live : q \notin Live'
          IN  /\ ChunkLens(Append(since, now)) > QuarantineSize
              /\ \A i \in 1 .. at - 1 : quarantine[i] \notin Range(quarantine')
      ]_vars
=============================================================================
