---------------------------- MODULE GuestShadow ----------------------------
(***************************************************************************)
(* The shadow of the guest's memory (libaflmm_asan, shadow/guest.rs): one   *)
(* byte says which bytes of a granule of memory may be used.  It is 0 when   *)
(* all of them may, n when the first n may, and negative, as i8, when none   *)
(* may; the kinds of poison are one value here, since no decision of the     *)
(* code tells them apart.                                                    *)
(*                                                                          *)
(* Memory is the stretch 0 .. MemSize - 1 of one of the regions of the       *)
(* layout; the checks that an address lies in such a region are left out,    *)
(* as every address of the allocator does.                                   *)
(***************************************************************************)
EXTENDS Integers

CONSTANTS Granule,     \* bytes of memory for a byte of the shadow: 8
          MemSize      \* bytes of memory in this model

ASSUME GranuleAssumption == Granule \in Nat \ {0}
ASSUME MemSizeAssumption == MemSize \in Nat /\ MemSize % Granule = 0

Poisoned == -1
Valid == 0

Granules == 0 .. (MemSize \div Granule) - 1
ShadowType == [Granules -> Poisoned .. Granule - 1]

EndAligned(start, len) == (start + len) % Granule = 0
StartAligned(start) == start % Granule = 0

\* The granules that lie entirely in the len bytes from start.
Whole(start, len) ==
    {g \in Granules : start <= g * Granule /\ (g + 1) * Granule <= start + len}

\* Poisons the bytes from start to the end of a granule.  The granule start
\* lies in is left with the bytes before start, whatever it had before.
\* Refused, before any change, unless EndAligned(start, len).
Poison(shadow, start, len) ==
    [g \in Granules |->
        CASE g \in Whole(start, len) -> Poisoned
          [] len > 0 /\ ~StartAligned(start) /\ g = start \div Granule ->
                 start % Granule
          [] OTHER -> shadow[g]]

\* Makes the len bytes from the start of a granule usable.  The last granule
\* is left with the bytes before start + len only, whatever it had before.
\* Refused, before any change, unless StartAligned(start).
Unpoison(shadow, start, len) ==
    [g \in Granules |->
        CASE g \in Whole(start, len) -> Valid
          [] ~EndAligned(start, len) /\ g = (start + len) \div Granule ->
                 len % Granule
          [] OTHER -> shadow[g]]

\* For the mutants: the partial count is taken for the first bad byte's number.
PrefixPoisoned_AtLeast(k, n) == k # Valid /\ n >= k

\* Whether the first n bytes of a granule hold one that may not be used.
PrefixPoisoned(k, n) == k # Valid /\ n > k

\* Whether one of the len bytes from start may not be used, as is_poison
\* decides it: from the granule start lies in, the granule the range ends
\* in, and the granules between them.
IsPoison(shadow, start, len) ==
    LET skipped == start % Granule
        last_len == (start + len) % Granule
        first_k == shadow[start \div Granule]
    IN  /\ len > 0
        /\ IF skipped # 0 /\ len <= Granule - skipped
             THEN PrefixPoisoned(first_k, skipped + len)
             ELSE \/ skipped # 0 /\ first_k # Valid
                  \/ /\ last_len # 0
                     /\ PrefixPoisoned(shadow[(start + len) \div Granule],
                                       last_len)
                  \/ \E g \in Whole(start, len) : shadow[g] # Valid
=============================================================================
