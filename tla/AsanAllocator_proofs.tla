------------------------- MODULE AsanAllocator_proofs -------------------------
(***************************************************************************)
(* For any size of a granule and any shadow: what is_poison answers.  For  *)
(* any heap, any backend and any series of calls: a legal call succeeds,   *)
(* buffers are aligned and apart, the guest may use exactly those that are *)
(* live, freed memory stays poisoned, the quarantine lets go in order and  *)
(* as much as it takes, and what it counts is what it holds.               *)
(***************************************************************************)
EXTENDS AsanAllocator, SequenceTheorems, FiniteSetTheorems, WellFoundedInduction, TLAPS

\* What a byte of the shadow says of one byte of memory.
BytePoisoned(s, b) ==
    s[b \div Granule] # Valid /\ b % Granule >= s[b \div Granule]

\* An address is in one granule, so many bytes into it.
LEMMA DivMod ==
    ASSUME NEW a \in Nat
    PROVE  /\ a \div Granule \in Nat
           /\ a % Granule \in 0 .. Granule - 1
           /\ a = (a \div Granule) * Granule + (a % Granule)
  BY GranuleAssumption

\* The granule of an address and the distance into it are unique.
LEMMA DivUnique ==
    ASSUME NEW a \in Nat, NEW q \in Nat, NEW r \in 0 .. Granule - 1,
           a = q * Granule + r
    PROVE  a \div Granule = q /\ a % Granule = r
  BY GranuleAssumption

\* A granule lies before every later one.
LEMMA Between ==
    ASSUME NEW g \in Nat, NEW h \in Nat, g < h
    PROVE  g * Granule + Granule <= h * Granule
  BY GranuleAssumption

\* Every byte of memory is in one of its granules: get_shadow_mut finds it.
LEMMA GranuleOfByte ==
    ASSUME NEW b \in Nat, b < MemSize
    PROVE  b \div Granule \in Granules
<1> DEFINE g == b \div Granule
           n == MemSize \div Granule
<1>1. /\ g \in Nat /\ b % Granule \in 0 .. Granule - 1
      /\ b = g * Granule + (b % Granule)
  BY DivMod
<1>2. n \in Nat /\ MemSize = n * Granule
  BY DivMod, MemSizeAssumption, GranuleAssumption
<1>3. g < n
  <2>1. SUFFICES ASSUME n <= g PROVE FALSE
    BY <1>1, <1>2
  <2>2. n * Granule <= g * Granule
    BY <2>1, <1>1, <1>2, Between, GranuleAssumption
  <2> QED BY <2>2, <1>1, <1>2, GranuleAssumption
<1> QED BY <1>1, <1>2, <1>3 DEF Granules

\* A granule's byte of the shadow judges a stretch of it by where it ends.
LEMMA StretchOfGranule ==
    ASSUME NEW s \in ShadowType, NEW g \in Granules,
           NEW m \in 0 .. Granule - 1, NEW k \in m + 1 .. Granule
    PROVE  (\E r \in m .. k - 1 : BytePoisoned(s, g * Granule + r))
               <=> PrefixPoisoned(s[g], k)
<1>1. g \in Nat /\ s[g] \in Int /\ s[g] <= Granule - 1
  <2>1. MemSize \div Granule \in Nat
    BY DivMod, MemSizeAssumption
  <2>2. s[g] \in Poisoned .. Granule - 1
    BY DEF ShadowType
  <2> QED BY <2>1, <2>2, GranuleAssumption DEF Granules, Poisoned
<1>2. ASSUME NEW r \in 0 .. Granule - 1
      PROVE  BytePoisoned(s, g * Granule + r) <=> s[g] # Valid /\ r >= s[g]
  <2>1. g * Granule + r \in Nat
    BY <1>1, GranuleAssumption
  <2>2. (g * Granule + r) \div Granule = g /\ (g * Granule + r) % Granule = r
    BY <1>1, <2>1, DivUnique
  <2> QED BY <2>2 DEF BytePoisoned
<1>3. m .. k - 1 \subseteq 0 .. Granule - 1 /\ k - 1 \in m .. k - 1
  BY GranuleAssumption
<1>4. (\E r \in m .. k - 1 : BytePoisoned(s, g * Granule + r))
         <=> (\E r \in m .. k - 1 : s[g] # Valid /\ r >= s[g])
  BY <1>2, <1>3
<1>5. (\E r \in m .. k - 1 : s[g] # Valid /\ r >= s[g])
         <=> s[g] # Valid /\ k > s[g]
  BY <1>1, <1>3, GranuleAssumption
<1> QED BY <1>4, <1>5 DEF PrefixPoisoned

\* The bytes of a stretch of one granule.
LEMMA BytesOfStretch ==
    ASSUME NEW s \in ShadowType, NEW a \in Nat, NEW e \in Nat, a < e,
           e <= MemSize, NEW g \in Granules,
           NEW m \in 0 .. Granule - 1, NEW k \in m + 1 .. Granule,
           a <= g * Granule + m, g * Granule + k <= e,
           PrefixPoisoned(s[g], k)
    PROVE  \E b \in a .. e - 1 : BytePoisoned(s, b)
<1>1. PICK r \in m .. k - 1 : BytePoisoned(s, g * Granule + r)
  BY StretchOfGranule
<1>2. g \in Nat
  BY DivMod, MemSizeAssumption DEF Granules
<1>3. g * Granule \in Nat
  BY <1>2, GranuleAssumption
<1>4. g * Granule + r \in a .. e - 1
  BY <1>3, GranuleAssumption
<1> QED BY <1>1, <1>4

\* is_poison answers for a range of any start and any length what its bytes
\* say one by one, though it looks at the first granule, the last and those
\* between them only.
THEOREM IsPoisonIsExact ==
    ASSUME NEW s \in ShadowType, NEW a \in Nat, NEW n \in Nat, a + n <= MemSize
    PROVE  IsPoison(s, a, n) <=> \E b \in a .. a + n - 1 : BytePoisoned(s, b)
<1>0. CASE n = 0
  BY <1>0 DEF IsPoison
<1>1. CASE n > 0
  <2> DEFINE e == a + n
             first == a \div Granule
             skipped == a % Granule
             last == e \div Granule
             last_len == e % Granule
  <2> HIDE DEF e, first, skipped, last, last_len
  <2>1. /\ e \in Nat /\ e = a + n /\ a < e /\ e <= MemSize
        /\ a .. a + n - 1 = a .. e - 1
    BY <1>1, a + n <= MemSize DEF e
  <2>2. /\ first \in Nat /\ skipped \in 0 .. Granule - 1
        /\ a = first * Granule + skipped
    BY DivMod DEF first, skipped
  <2>3. /\ last \in Nat /\ last_len \in 0 .. Granule - 1
        /\ e = last * Granule + last_len
    BY <2>1, DivMod DEF last, last_len
  <2>4. first \in Granules
    BY <2>1, MemSizeAssumption, GranuleOfByte DEF first
  <2>5. first * Granule \in Nat /\ last * Granule \in Nat
    BY <2>2, <2>3, GranuleAssumption
  <2>6. last_len # 0 => last \in Granules
    <3>1. SUFFICES ASSUME last_len # 0 PROVE last \in Granules
      OBVIOUS
    <3>2. last * Granule < MemSize
      BY <3>1, <2>1, <2>3, <2>5, MemSizeAssumption
    <3>3. (last * Granule) \div Granule = last
      BY <2>3, <2>5, DivUnique, GranuleAssumption
    <3> QED BY <3>2, <3>3, <2>5, GranuleOfByte
  <2>7. CASE skipped # 0 /\ n <= Granule - skipped
    <3>1. IsPoison(s, a, n) <=> PrefixPoisoned(s[first], skipped + n)
      BY <1>1, <2>7 DEF IsPoison, first, skipped
    <3>2. skipped + n \in skipped + 1 .. Granule
      BY <1>1, <2>2, <2>7, GranuleAssumption
    <3>3. ASSUME PrefixPoisoned(s[first], skipped + n)
          PROVE  \E b \in a .. e - 1 : BytePoisoned(s, b)
      <4>0. PICK base \in Nat : base = first * Granule
        BY <2>5
      <4>1. a <= first * Granule + skipped
        BY <2>2, <4>0
      <4>2. first * Granule + (skipped + n) <= e
        <5>1. e = a + n /\ a = base + skipped /\ skipped \in Nat
          BY <2>1, <2>2, <4>0
        <5>2. base + (skipped + n) <= e
          BY <5>1
        <5> QED BY <4>0, <5>2
      <4> QED BY <2>1, <2>2, <2>4, <3>2, <3>3, <4>1, <4>2, BytesOfStretch
    <3>4. ASSUME NEW b \in a .. e - 1, BytePoisoned(s, b)
          PROVE  PrefixPoisoned(s[first], skipped + n)
      <4> DEFINE r == b - first * Granule
      <4>0. PICK base \in Nat : base = first * Granule
        BY <2>5
      <4>1. r \in skipped .. skipped + n - 1
        <5>1. e = a + n /\ a = base + skipped /\ skipped \in Nat
          BY <2>1, <2>2, <4>0
        <5>2. b - base \in skipped .. skipped + n - 1
          BY <5>1
        <5> QED BY <4>0, <5>2
      <4>2. b = first * Granule + r
        BY <2>1, <4>0
      <4> QED BY <4>1, <4>2, <3>2, <3>4, <2>2, <2>4, StretchOfGranule
    <3> QED BY <2>1, <3>1, <3>3, <3>4
  <2>8. CASE ~ (skipped # 0 /\ n <= Granule - skipped)
    <3> DEFINE InFirst == skipped # 0 /\ s[first] # Valid
               InLast == last_len # 0 /\ PrefixPoisoned(s[last], last_len)
               InWhole == \E g \in Whole(a, n) : s[g] # Valid
    <3>1. IsPoison(s, a, n) <=> InFirst \/ InLast \/ InWhole
      BY <1>1, <2>8 DEF IsPoison, first, skipped, last, last_len, e
    <3> HIDE DEF InFirst, InLast, InWhole
    <3>2. ASSUME NEW g \in Granules
          PROVE  /\ g \in Nat /\ g * Granule \in Nat
                 /\ (g + 1) * Granule = g * Granule + Granule
                 /\ s[g] \in Int
                 /\ PrefixPoisoned(s[g], Granule) <=> s[g] # Valid
      <4>1. MemSize \div Granule \in Nat
        BY DivMod, MemSizeAssumption
      <4>2. s[g] \in Poisoned .. Granule - 1
        BY DEF ShadowType
      <4>3. g \in Nat
        BY <4>1 DEF Granules
      <4> QED BY <4>2, <4>3, GranuleAssumption DEF PrefixPoisoned, Poisoned
    <3>3. ASSUME InFirst
          PROVE  \E b \in a .. e - 1 : BytePoisoned(s, b)
      <4>1. PrefixPoisoned(s[first], Granule)
        BY <3>2, <3>3, <2>4 DEF InFirst
      <4>2. first * Granule + Granule <= e
        BY <2>1, <2>2, <2>5, <2>8, <3>3, GranuleAssumption DEF InFirst
      <4>3. Granule \in skipped + 1 .. Granule /\ a <= first * Granule + skipped
        BY <2>2, <2>5, GranuleAssumption
      <4> QED BY <2>1, <2>2, <2>4, <4>1, <4>2, <4>3, BytesOfStretch
    <3>4. ASSUME InLast
          PROVE  \E b \in a .. e - 1 : BytePoisoned(s, b)
      <4>1. a <= last * Granule + 0
        <5>1. ~ (last < first)
          <6>1. SUFFICES ASSUME last < first PROVE FALSE
            OBVIOUS
          <6>2. last * Granule + Granule <= first * Granule
            BY <2>2, <2>3, <6>1, Between
          <6> QED BY <6>2, <2>1, <2>2, <2>3, <2>5, GranuleAssumption
        <5>2. CASE first < last
          <6>1. first * Granule + Granule <= last * Granule
            BY <2>2, <2>3, <5>2, Between
          <6> QED BY <6>1, <2>2, <2>5, GranuleAssumption
        <5>3. CASE first = last
          BY <5>3, <2>1, <2>2, <2>3, <2>5, <2>8, GranuleAssumption
        <5> QED BY <5>1, <5>2, <5>3, <2>2, <2>3
      <4>2. /\ 0 \in 0 .. Granule - 1
            /\ last_len \in 0 + 1 .. Granule
            /\ last * Granule + last_len <= e
        BY <2>3, <2>5, <3>4, GranuleAssumption DEF InLast
      <4>3. last \in Granules /\ PrefixPoisoned(s[last], last_len)
        BY <2>6, <3>4 DEF InLast
      <4> QED BY <2>1, <4>1, <4>2, <4>3, BytesOfStretch
    <3>5. ASSUME InWhole
          PROVE  \E b \in a .. e - 1 : BytePoisoned(s, b)
      <4>1. PICK g \in Whole(a, n) : s[g] # Valid
        BY <3>5 DEF InWhole
      <4>2. g \in Granules /\ a <= g * Granule /\ (g + 1) * Granule <= e
        BY <2>1 DEF Whole
      <4>3. PrefixPoisoned(s[g], Granule)
        BY <3>2, <4>1, <4>2
      <4>4. /\ 0 \in 0 .. Granule - 1 /\ Granule \in 0 + 1 .. Granule
            /\ a <= g * Granule + 0 /\ g * Granule + Granule <= e
        BY <3>2, <4>2, GranuleAssumption
      <4> QED BY <2>1, <4>2, <4>3, <4>4, BytesOfStretch
    <3>6. ASSUME NEW b \in a .. e - 1, BytePoisoned(s, b)
          PROVE  InFirst \/ InLast \/ InWhole
      <4> DEFINE g == b \div Granule
                 r == b % Granule
      <4>1. b \in Nat /\ a <= b /\ b < e /\ b < MemSize
        BY <2>1, MemSizeAssumption
      <4>2. /\ g \in Nat /\ r \in 0 .. Granule - 1 /\ b = g * Granule + r
            /\ g \in Granules
        BY <4>1, DivMod, GranuleOfByte
      <4>3. s[g] # Valid /\ r >= s[g]
        BY <3>6 DEF BytePoisoned
      <4> HIDE DEF g, r
      <4>4. /\ g * Granule \in Nat
            /\ (g + 1) * Granule = g * Granule + Granule
            /\ s[g] \in Int
        BY <4>2, <3>2
      <4>5. CASE a <= g * Granule /\ g * Granule + Granule <= e
        <5>1. g \in Whole(a, n)
          BY <4>2, <4>4, <4>5, <2>1 DEF Whole
        <5> QED BY <5>1, <4>3 DEF InWhole
      <4>6. CASE g * Granule < a
        <5> DEFINE d == a - g * Granule
        <5>1. d \in 0 .. Granule - 1 /\ d # 0 /\ a = g * Granule + d
          BY <4>1, <4>2, <4>4, <4>6, GranuleAssumption
        <5>2. first = g /\ skipped = d
          BY <5>1, <4>2, DivUnique DEF first, skipped
        <5> QED BY <5>1, <5>2, <4>3 DEF InFirst
      <4>7. CASE g * Granule + Granule > e
        <5> DEFINE d == e - g * Granule
        <5>1. d \in 0 .. Granule - 1 /\ r < d /\ e = g * Granule + d
          BY <4>1, <4>2, <4>4, <4>7, <2>1, GranuleAssumption
        <5>2. last = g /\ last_len = d
          BY <5>1, <4>2, <2>1, DivUnique DEF last, last_len
        <5>3. d # 0 /\ d > s[g]
          BY <5>1, <4>2, <4>3, <4>4, GranuleAssumption
        <5> QED BY <5>2, <5>3, <4>3 DEF InLast, PrefixPoisoned
      <4> QED BY <4>4, <4>5, <4>6, <4>7, <2>1, GranuleAssumption
    <3> QED BY <2>1, <3>1, <3>3, <3>4, <3>5, <3>6
  <2> QED BY <2>7, <2>8
<1> QED BY <1>0, <1>1

-----------------------------------------------------------------------------
(* What poison and unpoison do to the bytes.                               *)

\* An aligned address is a multiple of a granule.
LEMMA AlignedIsMultiple ==
    ASSUME NEW x \in Nat
    PROVE  StartAligned(x) <=> \E k \in Nat : x = k * Granule
<1>1. ASSUME StartAligned(x) PROVE \E k \in Nat : x = k * Granule
  <2>1. x = (x \div Granule) * Granule + (x % Granule) /\ x \div Granule \in Nat
    BY DivMod
  <2>2. x % Granule = 0
    BY <1>1 DEF StartAligned
  <2>3. (x \div Granule) * Granule \in Nat
    BY <2>1, GranuleAssumption
  <2>4. x = (x \div Granule) * Granule
    BY <2>1, <2>2, <2>3
  <2> QED BY <2>1, <2>4
<1>2. ASSUME NEW k \in Nat, x = k * Granule PROVE StartAligned(x)
  <2>1. x = k * Granule + 0 /\ 0 \in 0 .. Granule - 1
    BY <1>2, GranuleAssumption
  <2> QED BY <2>1, DivUnique DEF StartAligned
<1> QED BY <1>1, <1>2

\* A byte lies on the same side of a multiple as its granule.
LEMMA SideOfMultiple ==
    ASSUME NEW b \in Nat, NEW k \in Nat
    PROVE  /\ b < k * Granule <=> b \div Granule < k
           /\ b < k * Granule <=> (b \div Granule) * Granule + Granule <= k * Granule
           /\ b >= k * Granule <=> (b \div Granule) * Granule >= k * Granule
<1> DEFINE g == b \div Granule
           r == b % Granule
<1>1. g \in Nat /\ r \in 0 .. Granule - 1 /\ b = g * Granule + r
  BY DivMod
<1> HIDE DEF g, r
<1>2. g * Granule \in Nat /\ k * Granule \in Nat
  BY <1>1, GranuleAssumption
<1>3. CASE g < k
  <2>1. g * Granule + Granule <= k * Granule
    BY <1>1, <1>3, Between
  <2> QED BY <1>1, <1>2, <1>3, <2>1, GranuleAssumption DEF g
<1>4. CASE g = k
  BY <1>1, <1>2, <1>4, GranuleAssumption DEF g
<1>5. CASE g > k
  <2>1. k * Granule + Granule <= g * Granule
    BY <1>1, <1>5, Between
  <2> QED BY <1>1, <1>2, <1>5, <2>1, GranuleAssumption DEF g
<1> QED BY <1>1, <1>3, <1>4, <1>5

\* The granules of the shadow are numbers, and so is what the shadow says of them.
LEMMA GranuleType ==
    ASSUME NEW g \in Granules
    PROVE  /\ g \in Nat /\ g * Granule \in Nat
           /\ (g + 1) * Granule = g * Granule + Granule
<1>1. MemSize \div Granule \in Nat
  BY DivMod, MemSizeAssumption
<1>2. g \in Nat
  BY <1>1 DEF Granules
<1> QED BY <1>2, GranuleAssumption

\* poison keeps the shadow a shadow, poisons the bytes of its range, and no other if
\* those before it in its first granule may be used.
LEMMA PoisonBytes ==
    ASSUME NEW s \in ShadowType, NEW start \in Nat, NEW len \in Nat, EndAligned(start, len),
           \A b \in 0 .. MemSize - 1 :
               b < start /\ b \div Granule = start \div Granule => ~BytePoisoned(s, b)
    PROVE  /\ Poison(s, start, len) \in ShadowType
           /\ \A b \in 0 .. MemSize - 1 :
                  BytePoisoned(Poison(s, start, len), b)
                      <=> (start <= b /\ b < start + len) \/ BytePoisoned(s, b)
<1> DEFINE p == Poison(s, start, len)
           first == start \div Granule
           skipped == start % Granule
<1>1. /\ first \in Nat /\ skipped \in 0 .. Granule - 1 /\ start = first * Granule + skipped
      /\ first * Granule \in Nat
  BY DivMod, GranuleAssumption
<1>2. PICK e \in Nat : start + len = e * Granule
  BY AlignedIsMultiple DEF EndAligned, StartAligned
<1>3. p \in ShadowType
  <2>1. \A g \in Granules : s[g] \in Poisoned .. Granule - 1
    BY DEF ShadowType
  <2>2. Poisoned \in Poisoned .. Granule - 1 /\ skipped \in Poisoned .. Granule - 1
    BY <1>1, GranuleAssumption DEF Poisoned
  <2>3. \A g \in Granules : p[g] \in Poisoned .. Granule - 1
    BY <2>1, <2>2 DEF Poison
  <2>4. p = [g \in Granules |-> p[g]]
    BY DEF Poison
  <2> QED BY <2>3, <2>4 DEF ShadowType
<1>4. ASSUME NEW b \in 0 .. MemSize - 1
      PROVE  BytePoisoned(p, b)
                 <=> (start <= b /\ b < start + len) \/ BytePoisoned(s, b)
  <2> DEFINE g == b \div Granule
             r == b % Granule
  <2>1. b \in Nat /\ b < MemSize
    BY MemSizeAssumption
  <2>2. g \in Granules /\ g \in Nat /\ r \in 0 .. Granule - 1 /\ b = g * Granule + r
    BY <2>1, DivMod, GranuleOfByte
  <2>3. g * Granule \in Nat /\ (g + 1) * Granule = g * Granule + Granule
    BY <2>2, GranuleType
  <2>4. b < start + len <=> g * Granule + Granule <= start + len
    BY <2>1, <1>2, SideOfMultiple
  <2> HIDE DEF g, r, first, skipped
  <2>5. CASE g \in Whole(start, len)
    <3>1. start <= g * Granule /\ g * Granule + Granule <= start + len
      BY <2>5, <2>3 DEF Whole
    <3>2. start <= b /\ b < start + len
      BY <3>1, <2>2, <2>3, <2>4
    <3>3. p[g] = Poisoned
      <4>1. ~(~StartAligned(start) /\ g = first)
        BY <3>1, <1>1, <2>2 DEF StartAligned, skipped
      <4> QED BY <4>1, <2>2, <2>5 DEF Poison, first
    <3>4. BytePoisoned(p, b)
      BY <3>3, <2>2, GranuleAssumption DEF BytePoisoned, Poisoned, Valid, g, r
    <3> QED BY <3>2, <3>4
  <2>6. CASE g \notin Whole(start, len) /\ len > 0 /\ ~StartAligned(start) /\ g = first
    <3>1. p[g] = skipped /\ skipped # 0
      BY <2>2, <2>6 DEF Poison, StartAligned, first, skipped
    <3>2. BytePoisoned(p, b) <=> r >= skipped
      BY <3>1, <2>2, <1>1 DEF BytePoisoned, Valid, g, r
    <3>3. r >= skipped <=> start <= b
      BY <1>1, <2>2, <2>3, <2>6
    <3>4. b < start + len
      <4>1. g < e
        <5>1. start < e * Granule
          BY <1>2, <2>6
        <5>2. start < e * Granule <=> start \div Granule < e
          BY SideOfMultiple
        <5> QED BY <5>1, <5>2, <2>6 DEF first
      <4>2. g * Granule + Granule <= e * Granule
        BY <4>1, <2>2, Between
      <4> QED BY <4>2, <1>2, <2>4
    <3>5. b < start => ~BytePoisoned(s, b)
      BY <2>6, <2>1 DEF first, g
    <3> QED BY <3>2, <3>3, <3>4, <3>5, <2>1
  <2>7. CASE g \notin Whole(start, len) /\ ~(len > 0 /\ ~StartAligned(start) /\ g = first)
    <3>1. p[g] = s[g]
      BY <2>2, <2>7 DEF Poison, first
    <3>2. BytePoisoned(p, b) <=> BytePoisoned(s, b)
      BY <3>1 DEF BytePoisoned, g
    <3>3. ASSUME start <= b, b < start + len PROVE FALSE
      <4>1. g * Granule + Granule <= start + len
        BY <2>4, <3>3
      <4>2. ~(start <= g * Granule)
        BY <4>1, <2>2, <2>3, <2>7 DEF Whole
      <4>3. g = first /\ start - g * Granule \in 0 .. Granule - 1 /\ start - g * Granule # 0
        <5>1. start = g * Granule + (start - g * Granule)
          BY <2>3
        <5>2. start - g * Granule \in 0 .. Granule - 1 /\ start - g * Granule # 0
          BY <4>2, <3>3, <2>2, <2>3, GranuleAssumption
        <5> QED BY <5>1, <5>2, <2>2, DivUnique DEF first
      <4>4. ~StartAligned(start)
        <5>1. start = g * Granule + (start - g * Granule)
          BY <2>3
        <5> QED BY <5>1, <4>3, <2>2, DivUnique DEF StartAligned
      <4>5. len > 0
        BY <3>3, <2>1
      <4> QED BY <4>3, <4>4, <4>5, <2>7
    <3> QED BY <3>2, <3>3
  <2> QED BY <2>5, <2>6, <2>7
<1> QED BY <1>3, <1>4

\* unpoison makes the bytes of its range usable, and changes none outside but for the
\* rest of its last granule.
LEMMA UnpoisonBytes ==
    ASSUME NEW s \in ShadowType, NEW start \in Nat, NEW len \in Nat, StartAligned(start)
    PROVE  /\ Unpoison(s, start, len) \in ShadowType
           /\ \A b \in 0 .. MemSize - 1 :
                  /\ start <= b /\ b < start + len => ~BytePoisoned(Unpoison(s, start, len), b)
                  /\ b < start =>
                         (BytePoisoned(Unpoison(s, start, len), b) <=> BytePoisoned(s, b))
           /\ \A e \in Nat : StartAligned(e) /\ start + len <= e =>
                  \A b \in 0 .. MemSize - 1 : e <= b =>
                      (BytePoisoned(Unpoison(s, start, len), b) <=> BytePoisoned(s, b))
<1> DEFINE u == Unpoison(s, start, len)
           end == start + len
           last == end \div Granule
           rest == end % Granule
<1>1. /\ end \in Nat /\ last \in Nat /\ rest \in 0 .. Granule - 1
      /\ end = last * Granule + rest /\ last * Granule \in Nat
  BY DivMod, GranuleAssumption, SMTT(60)
<1>2. PICK k \in Nat : start = k * Granule
  BY AlignedIsMultiple
<1>3. len % Granule = rest
  <2> HIDE DEF end, last, rest
  <2>1. ~(end < k * Granule) /\ k * Granule \in Nat
    BY <1>2, GranuleAssumption DEF end
  <2>2. ~(last < k)
    BY <2>1, <1>1, SideOfMultiple DEF last
  <2>3. last - k \in Nat /\ (last - k) * Granule = last * Granule - k * Granule
    BY <2>2, <1>1, GranuleAssumption
  <2>4. len = (last - k) * Granule + rest
    BY <2>1, <2>3, <1>1, <1>2 DEF end
  <2> QED BY <2>3, <2>4, <1>1, DivUnique
<1> HIDE DEF end, last, rest
<1>4. u \in ShadowType
  <2>1. \A g \in Granules : s[g] \in Poisoned .. Granule - 1
    BY DEF ShadowType
  <2>2. Valid \in Poisoned .. Granule - 1 /\ rest \in Poisoned .. Granule - 1
    BY <1>1, GranuleAssumption DEF Poisoned, Valid
  <2>3. \A g \in Granules : u[g] \in Poisoned .. Granule - 1
    BY <2>1, <2>2, <1>3 DEF Unpoison
  <2>4. u = [g \in Granules |-> u[g]]
    BY DEF Unpoison
  <2> QED BY <2>3, <2>4 DEF ShadowType
<1>5. ASSUME NEW b \in 0 .. MemSize - 1
      PROVE  /\ start <= b /\ b < end => ~BytePoisoned(u, b)
             /\ b < start => (BytePoisoned(u, b) <=> BytePoisoned(s, b))
             /\ \A e \in Nat : StartAligned(e) /\ end <= e =>
                    (e <= b => (BytePoisoned(u, b) <=> BytePoisoned(s, b)))
  <2> DEFINE g == b \div Granule
             r == b % Granule
  <2>1. b \in Nat /\ b < MemSize
    BY MemSizeAssumption
  <2>2. g \in Granules /\ g \in Nat /\ r \in 0 .. Granule - 1 /\ b = g * Granule + r
    BY <2>1, DivMod, GranuleOfByte
  <2>3. g * Granule \in Nat /\ (g + 1) * Granule = g * Granule + Granule
    BY <2>2, GranuleType
  <2>4. start <= b <=> start <= g * Granule
    <3>1. b >= k * Granule <=> g * Granule >= k * Granule
      BY <2>1, SideOfMultiple
    <3> QED BY <3>1, <2>1, <2>3, <1>2
  <2> HIDE DEF g, r
  <2>5. CASE g \in Whole(start, len)
    <3>1. start <= g * Granule /\ g * Granule + Granule <= end
      BY <2>5, <2>3 DEF Whole, end
    <3>2. u[g] = Valid
      <4>1. g # last
        BY <3>1, <1>1, <2>2, <2>3, GranuleAssumption
      <4> QED BY <4>1, <2>2, <2>5 DEF Unpoison, last, end
    <3>3. ~BytePoisoned(u, b)
      BY <3>2 DEF BytePoisoned, g
    <3>4. start <= b /\ b < end
      BY <3>1, <1>1, <2>2, <2>3, GranuleAssumption
    <3>5. ASSUME NEW e \in Nat, end <= e PROVE ~(e <= b)
      BY <3>4, <3>5, <1>1, <2>1
    <3> QED BY <3>3, <3>4, <3>5, <2>1
  <2>6. CASE g \notin Whole(start, len) /\ ~EndAligned(start, len) /\ g = last
    <3>1. u[g] = rest /\ rest # 0
      BY <2>2, <2>6, <1>3 DEF Unpoison, EndAligned, last, end, rest
    <3>2. BytePoisoned(u, b) <=> r >= rest
      BY <3>1, <2>2, <1>1 DEF BytePoisoned, Valid, g, r
    <3>3. r >= rest <=> end <= b
      BY <1>1, <2>2, <2>3, <2>6
    <3>4. ~(b < start)
      <4>1. k <= last
        <5>1. ~(end < k * Granule) /\ k * Granule \in Nat
          BY <1>2, GranuleAssumption DEF end
        <5> QED BY <5>1, <1>1, SideOfMultiple DEF last
      <4>2. k * Granule <= last * Granule
        BY <4>1, <1>1, GranuleAssumption
      <4> QED BY <4>2, <2>2, <2>3, <2>6, <1>2
    <3>5. ASSUME NEW e \in Nat, StartAligned(e), end <= e, e <= b PROVE FALSE
      <4>1. PICK m \in Nat : e = m * Granule
        BY <3>5, AlignedIsMultiple
      <4>2. e <= g * Granule
        <5>1. b >= m * Granule <=> g * Granule >= m * Granule
          BY <2>1, SideOfMultiple DEF g
        <5> QED BY <5>1, <4>1, <3>5, <2>1, <2>3
      <4> QED BY <4>2, <3>1, <3>5, <1>1, <2>6
    <3> QED BY <3>2, <3>3, <3>4, <3>5, <2>1, <1>1
  <2>7. CASE g \notin Whole(start, len) /\ ~(~EndAligned(start, len) /\ g = last)
    <3>1. u[g] = s[g]
      BY <2>2, <2>7 DEF Unpoison, last, end
    <3>2. BytePoisoned(u, b) <=> BytePoisoned(s, b)
      BY <3>1 DEF BytePoisoned, g
    <3>3. ASSUME start <= b, b < end PROVE FALSE
      <4>1. start <= g * Granule
        BY <2>4, <3>3
      <4>2. ~(g * Granule + Granule <= end)
        BY <4>1, <2>2, <2>3, <2>7 DEF Whole, end
      <4>3. end = g * Granule + (end - g * Granule) /\ end - g * Granule \in 0 .. Granule - 1
            /\ end - g * Granule # 0
        BY <4>2, <3>3, <2>1, <2>2, <2>3, <1>1, GranuleAssumption
      <4>4. last = g /\ rest # 0
        BY <4>3, <1>1, <2>2, DivUnique DEF last, rest
      <4> QED BY <4>4, <2>7 DEF EndAligned, rest, end
    <3> QED BY <3>2, <3>3
  <2> QED BY <2>5, <2>6, <2>7
<1> QED BY <1>4, <1>5 DEF end

-----------------------------------------------------------------------------
(* What alloc asks the backend for, and where it puts the buffer.          *)

\* An address that is a multiple of the chunks' alignment is one of a granule.
LEMMA AlignOfChunk ==
    ASSUME NEW k \in Nat
    PROVE  k * AllocAlign \in Nat /\ StartAligned(k * AllocAlign)
<1>1. AllocAlign \in Nat /\ StartAligned(AllocAlign)
  BY AlignAssumption DEF StartAligned
<1>2. PICK a \in Nat : AllocAlign = a * Granule
  BY <1>1, AlignedIsMultiple
<1>3. k * a \in Nat /\ k * AllocAlign = (k * a) * Granule
  BY <1>2, GranuleAssumption
<1>4. k * AllocAlign \in Nat
  BY <1>1
<1> QED BY <1>3, <1>4, AlignedIsMultiple

\* The sum of two aligned numbers.
LEMMA AlignedSum ==
    ASSUME NEW x \in Nat, NEW y \in Nat, StartAligned(x), StartAligned(y)
    PROVE  StartAligned(x + y)
<1>1. PICK k \in Nat : x = k * Granule
  BY AlignedIsMultiple
<1>2. PICK m \in Nat : y = m * Granule
  BY AlignedIsMultiple
<1>3. k + m \in Nat /\ x + y = (k + m) * Granule
  BY <1>1, <1>2, GranuleAssumption
<1> QED BY <1>3, AlignedIsMultiple

\* The quotient and the rest by any divisor.
LEMMA Division ==
    ASSUME NEW x \in Nat, NEW d \in Nat \ {0}
    PROVE  /\ x \div d \in Nat /\ x % d \in 0 .. d - 1
           /\ x = (x \div d) * d + (x % d)
  OBVIOUS

\* align_up rounds to the next multiple.
LEMMA AlignUpRounds ==
    ASSUME NEW n \in Nat
    PROVE  /\ AlignUp(n) \in Nat /\ n <= AlignUp(n) /\ AlignUp(n) < n + AllocAlign
           /\ StartAligned(AlignUp(n))
<1> DEFINE q == (n + AllocAlign - 1) \div AllocAlign
<1>1. n + AllocAlign - 1 \in Nat /\ AllocAlign \in Nat \ {0}
  BY AlignAssumption
<1>2. /\ q \in Nat /\ (n + AllocAlign - 1) % AllocAlign \in 0 .. AllocAlign - 1
      /\ n + AllocAlign - 1 = q * AllocAlign + ((n + AllocAlign - 1) % AllocAlign)
  BY <1>1, Division
<1>3. AlignUp(n) = q * AllocAlign
  BY DEF AlignUp
<1> HIDE DEF q
<1>4. q * AllocAlign \in Nat /\ StartAligned(q * AllocAlign)
  BY <1>2, AlignOfChunk
<1> QED BY <1>1, <1>2, <1>3, <1>4

\* The red zones are whole granules, and wide if there are any.
LEMMA RedZoneAligned ==
    /\ RedZone \in Nat /\ StartAligned(RedZone)
    /\ RedZone > 0 => RedZone >= AllocAlign
<1>1. RedZone \in Nat /\ AllocAlign \in Nat \ {0} /\ RedZone % AllocAlign = 0
  BY RedZoneAssumption, AlignAssumption
<1> DEFINE k == RedZone \div AllocAlign
<1>2. k \in Nat /\ RedZone = k * AllocAlign
  <2>1. /\ k \in Nat /\ RedZone % AllocAlign \in 0 .. AllocAlign - 1
        /\ RedZone = k * AllocAlign + (RedZone % AllocAlign)
    BY <1>1, Division
  <2> HIDE DEF k
  <2>2. k * AllocAlign \in Nat
    BY <1>1, <2>1
  <2> QED BY <1>1, <2>1, <2>2
<1> HIDE DEF k
<1>3. k > 0 => k * AllocAlign >= AllocAlign
  BY <1>1, <1>2
<1>4. k = 0 => k * AllocAlign = 0
  BY <1>1
<1> QED BY <1>1, <1>2, <1>3, <1>4, AlignOfChunk

\* What the theorems assume of the set-up: there are red zones, and a pointer is as
\* wide as a granule, as it is on 64 bits.
WideEnough == RedZone > 0 /\ AddrSize % Granule = 0

\* The alignments that are asked for are whole granules.
LEMMA AlignsAligned ==
    ASSUME WideEnough, NEW align \in Aligns
    PROVE  align \in Nat /\ StartAligned(align)
<1>1. align \in Nat /\ AddrSize \in Nat \ {0} /\ align % AddrSize = 0
  BY RequestAssumption, AddrSizeAssumption
<1>2. PICK a \in Nat : AddrSize = a * Granule
  BY <1>1, AlignedIsMultiple DEF WideEnough, StartAligned
<1> DEFINE k == align \div AddrSize
<1>3. /\ k \in Nat /\ align % AddrSize \in 0 .. AddrSize - 1
      /\ align = k * AddrSize + (align % AddrSize)
  BY <1>1, Division
<1> HIDE DEF k
<1>4. k * a \in Nat /\ k * AddrSize = (k * a) * Granule /\ k * AddrSize \in Nat
  BY <1>1, <1>2, <1>3, GranuleAssumption
<1>5. align = (k * a) * Granule
  BY <1>1, <1>3, <1>4
<1> QED BY <1>1, <1>4, <1>5, AlignedIsMultiple

\* The buffer starts behind the left red zone, align further at most, on a granule.
LEMMA DataAddressRight ==
    ASSUME WideEnough, NEW orig \in Nat, StartAligned(orig), NEW align \in Aligns
    PROVE  /\ DataAddress(orig, align) \in Nat
           /\ orig + RedZone <= DataAddress(orig, align)
           /\ DataAddress(orig, align) <= orig + RedZone + align
           /\ StartAligned(DataAddress(orig, align))
<1> DEFINE rz == orig + RedZone
<1>1. rz \in Nat /\ StartAligned(rz)
  BY RedZoneAligned, AlignedSum
<1>2. align \in Nat /\ StartAligned(align)
  BY AlignsAligned
<1>3. CASE align = 0
  BY <1>1, <1>2, <1>3 DEF DataAddress
<1>4. CASE align # 0
  <2> DEFINE q == rz \div align
  <2>1. /\ q \in Nat /\ rz % align \in 0 .. align - 1
        /\ rz = q * align + (rz % align)
    BY <1>1, <1>2, <1>4, Division
  <2>2. DataAddress(orig, align) = rz + align - (rz % align)
    BY <1>4 DEF DataAddress
  <2> HIDE DEF q, rz
  <2>3. q * align \in Nat /\ q * align + align = (q + 1) * align
    BY <2>1, <1>2
  <2>4. DataAddress(orig, align) = (q + 1) * align
    BY <2>1, <2>2, <2>3, <1>1, <1>2
  <2>5. PICK a \in Nat : align = a * Granule
    BY <1>2, AlignedIsMultiple
  <2>6. (q + 1) * a \in Nat /\ (q + 1) * align = ((q + 1) * a) * Granule
    BY <2>1, <2>5, GranuleAssumption
  <2>7. DataAddress(orig, align) \in Nat
    BY <2>3, <2>4, <1>2
  <2>8. StartAligned(DataAddress(orig, align))
    BY <2>4, <2>6, <2>7, AlignedIsMultiple
  <2>9. rz <= DataAddress(orig, align) /\ DataAddress(orig, align) <= rz + align
    BY <2>1, <2>2, <1>1, <1>2
  <2> QED BY <2>7, <2>8, <2>9 DEF rz
<1> QED BY <1>3, <1>4

\* What alloc computes for a request.
LEMMA Request ==
    ASSUME WideEnough, NEW orig \in Nat, orig % AllocAlign = 0, NEW len \in Lens, NEW align \in Aligns
    PROVE  LET data == DataAddress(orig, align)
               stop == orig + ChunkLen(len, align)
               right == RightLen(len)
           IN  /\ data \in Nat /\ len \in Nat \ {0} /\ right \in Nat
               /\ ChunkLen(len, align) \in Nat \ {0}
               /\ StartAligned(orig) /\ StartAligned(data) /\ StartAligned(stop)
               /\ StartAligned(data + len + right)
               /\ orig + RedZone <= data /\ data + len + RedZone <= stop
               /\ RedZone <= right /\ data + len + right < stop + RedZone
<1> DEFINE data == DataAddress(orig, align)
           right == RightLen(len)
<1>1. RedZone \in Nat /\ StartAligned(RedZone) /\ AllocAlign \in Nat \ {0} /\ RedZone >= AllocAlign
  BY RedZoneAligned, AlignAssumption DEF WideEnough
<1>2. StartAligned(orig)
  <2>1. /\ orig \div AllocAlign \in Nat
        /\ orig = (orig \div AllocAlign) * AllocAlign + (orig % AllocAlign)
    BY <1>1, Division
  <2>2. (orig \div AllocAlign) * AllocAlign \in Nat /\ StartAligned((orig \div AllocAlign) * AllocAlign)
    BY <2>1, AlignOfChunk
  <2>3. orig = (orig \div AllocAlign) * AllocAlign
    BY <2>1, <2>2
  <2> QED BY <2>2, <2>3
<1>3. align \in Nat /\ len \in Nat \ {0}
  BY AlignsAligned, RequestAssumption
<1>4. /\ data \in Nat /\ StartAligned(data)
      /\ orig + RedZone <= data /\ data <= orig + RedZone + align
  BY <1>2, DataAddressRight
<1>5. /\ AlignUp(len) \in Nat /\ len <= AlignUp(len) /\ AlignUp(len) < len + AllocAlign
      /\ StartAligned(AlignUp(len))
  BY <1>3, AlignUpRounds
<1>6. /\ AlignUp(len + align) \in Nat /\ len + align <= AlignUp(len + align)
      /\ StartAligned(AlignUp(len + align))
  BY <1>3, AlignUpRounds
<1>7. right = AlignUp(len) - len + RedZone
      /\ ChunkLen(len, align) = AlignUp(len + align) + 2 * RedZone
  BY DEF RightLen, ChunkLen
<1> HIDE DEF data, right
<1>8. right \in Nat /\ RedZone <= right
  BY <1>1, <1>3, <1>5, <1>7
<1>9. StartAligned(data + len + right)
  <2>1. StartAligned(data + AlignUp(len)) /\ data + AlignUp(len) \in Nat
    BY <1>4, <1>5, AlignedSum
  <2>2. StartAligned((data + AlignUp(len)) + RedZone)
    BY <1>1, <2>1, AlignedSum
  <2>3. data + len + right = (data + AlignUp(len)) + RedZone
    BY <1>1, <1>3, <1>4, <1>5, <1>7
  <2> QED BY <2>2, <2>3
<1>10. StartAligned(orig + ChunkLen(len, align))
  <2>1. StartAligned(orig + AlignUp(len + align)) /\ orig + AlignUp(len + align) \in Nat
    BY <1>2, <1>6, AlignedSum
  <2>2. StartAligned(RedZone + RedZone) /\ RedZone + RedZone \in Nat
    BY <1>1, AlignedSum
  <2>3. StartAligned((orig + AlignUp(len + align)) + (RedZone + RedZone))
    BY <2>1, <2>2, AlignedSum
  <2>4. orig + ChunkLen(len, align) = (orig + AlignUp(len + align)) + (RedZone + RedZone)
    BY <1>1, <1>6, <1>7
  <2> QED BY <2>3, <2>4
<1>11. /\ ChunkLen(len, align) \in Nat \ {0}
       /\ data + len + RedZone <= orig + ChunkLen(len, align)
       /\ data + len + right < orig + ChunkLen(len, align) + RedZone
  BY <1>1, <1>3, <1>4, <1>5, <1>6, <1>7
<1> QED BY <1>2, <1>3, <1>4, <1>8, <1>9, <1>10, <1>11 DEF data, right

\* The three calls on the shadow together: the buffer may be used, what is around it
\* up to the end of the right red zone may not, and nothing else changes.
LEMMA BufferBytes ==
    ASSUME NEW s \in ShadowType, NEW orig \in Nat, NEW data \in Nat, NEW len \in Nat \ {0},
           RightLen(len) \in Nat, orig <= data,
           StartAligned(orig), StartAligned(data), StartAligned(data + len + RightLen(len))
    PROVE  LET b3 == ShadowOfBuffer(s, orig, data, len)
               stop == data + len + RightLen(len)
           IN  /\ b3 \in ShadowType
               /\ \A b \in 0 .. MemSize - 1 :
                      /\ orig <= b /\ b < data => BytePoisoned(b3, b)
                      /\ data <= b /\ b < data + len => ~BytePoisoned(b3, b)
                      /\ data + len <= b /\ b < stop => BytePoisoned(b3, b)
                      /\ b < orig \/ stop <= b => (BytePoisoned(b3, b) <=> BytePoisoned(s, b))
<1> DEFINE right == RightLen(len)
           stop == data + len + right
           b1 == Poison(s, orig, data - orig)
           b2 == Unpoison(b1, data, len)
           b3 == Poison(b2, data + len, right)
<1>1. b3 = ShadowOfBuffer(s, orig, data, len)
  BY DEF ShadowOfBuffer
<1>2. /\ b1 \in ShadowType
      /\ \A b \in 0 .. MemSize - 1 :
             BytePoisoned(b1, b) <=> (orig <= b /\ b < data) \/ BytePoisoned(s, b)
  <2>1. data - orig \in Nat /\ orig + (data - orig) = data
    OBVIOUS
  <2>2. EndAligned(orig, data - orig)
    BY <2>1 DEF EndAligned, StartAligned
  <2>3. \A b \in 0 .. MemSize - 1 :
            b < orig /\ b \div Granule = orig \div Granule => ~BytePoisoned(s, b)
    <3>1. PICK k \in Nat : orig = k * Granule
      BY AlignedIsMultiple
    <3>2. orig \div Granule = k
      <4>1. orig = k * Granule + 0 /\ 0 \in 0 .. Granule - 1
        BY <3>1, GranuleAssumption
      <4> QED BY <4>1, DivUnique
    <3>3. ASSUME NEW b \in 0 .. MemSize - 1, b < orig PROVE b \div Granule < k
      <4>1. b \in Nat
        BY MemSizeAssumption
      <4> QED BY <3>1, <3>3, <4>1, SideOfMultiple
    <3>4. ASSUME NEW b \in 0 .. MemSize - 1, b < orig PROVE b \div Granule # k
      <4>1. b \div Granule < k /\ b \in Nat
        BY <3>3, <3>4, MemSizeAssumption
      <4>2. b \div Granule \in Nat
        BY <4>1, DivMod
      <4> QED BY <4>1, <4>2
    <3> QED BY <3>2, <3>4
  <2> QED BY <2>1, <2>2, <2>3, PoisonBytes
<1> HIDE DEF b1
<1>3. /\ b2 \in ShadowType
      /\ \A b \in 0 .. MemSize - 1 :
             /\ data <= b /\ b < data + len => ~BytePoisoned(b2, b)
             /\ b < data => (BytePoisoned(b2, b) <=> BytePoisoned(b1, b))
      /\ \A e \in Nat : StartAligned(e) /\ data + len <= e =>
             \A b \in 0 .. MemSize - 1 : e <= b =>
                 (BytePoisoned(b2, b) <=> BytePoisoned(b1, b))
  BY <1>2, UnpoisonBytes
<1> HIDE DEF b2
<1>4. /\ b3 \in ShadowType
      /\ \A b \in 0 .. MemSize - 1 :
             BytePoisoned(b3, b)
                 <=> (data + len <= b /\ b < data + len + right) \/ BytePoisoned(b2, b)
  <2>1. EndAligned(data + len, right) /\ data + len \in Nat
    BY DEF EndAligned, StartAligned
  <2>2. \A b \in 0 .. MemSize - 1 :
            b < data + len /\ b \div Granule = (data + len) \div Granule => ~BytePoisoned(b2, b)
    <3> SUFFICES ASSUME NEW b \in 0 .. MemSize - 1, b < data + len,
                        b \div Granule = (data + len) \div Granule
                 PROVE  data <= b
      BY <1>3
    <3>1. PICK k \in Nat : data = k * Granule
      BY AlignedIsMultiple
    <3>2. b \in Nat
      BY MemSizeAssumption
    <3>3. ~(data + len < k * Granule)
      BY <3>1
    <3>4. ~((data + len) \div Granule < k)
      BY <3>3, SideOfMultiple
    <3>5. ~(b < k * Granule)
      BY <3>2, <3>4, SideOfMultiple
    <3> QED BY <3>1, <3>2, <3>5
  <2> QED BY <1>3, <2>1, <2>2, PoisonBytes
<1> HIDE DEF b3
<1>5. stop \in Nat /\ StartAligned(stop) /\ data + len <= stop
  OBVIOUS
<1>6. ASSUME NEW b \in 0 .. MemSize - 1
      PROVE  /\ orig <= b /\ b < data => BytePoisoned(b3, b)
             /\ data <= b /\ b < data + len => ~BytePoisoned(b3, b)
             /\ data + len <= b /\ b < stop => BytePoisoned(b3, b)
             /\ b < orig \/ stop <= b => (BytePoisoned(b3, b) <=> BytePoisoned(s, b))
  <2>1. b \in Nat
    BY MemSizeAssumption
  <2>2. CASE b < data
    BY <2>1, <2>2, <1>2, <1>3, <1>4, <1>5
  <2>3. CASE data <= b /\ b < data + len
    BY <2>1, <2>3, <1>3, <1>4, <1>5
  <2>4. CASE data + len <= b /\ b < stop
    BY <2>1, <2>4, <1>4, <1>5
  <2>5. CASE stop <= b
    BY <2>1, <2>5, <1>2, <1>3, <1>4, <1>5
  <2> QED BY <2>1, <2>2, <2>3, <2>4, <2>5, <1>5
<1> QED BY <1>1, <1>4, <1>6

-----------------------------------------------------------------------------
(* Sequences that hold nothing twice.                                      *)

\* The two parts of a sequence that holds nothing twice.
LEMMA RestIsEmpty ==
    ASSUME NEW n \in Nat, NEW m \in Nat
    PROVE  n + 1 <= n + m \/ m = 0
OBVIOUS

LEMMA Parts ==
    ASSUME NEW S, NEW s \in Seq(S), IsInjective(s), NEW n \in 0 .. Len(s)
    PROVE  LET gone == SubSeq(s, 1, n)
               rest == SubSeq(s, n + 1, Len(s))
           IN  /\ rest \in Seq(S \ Range(gone))
               /\ IsInjective(rest)
               /\ \A x : x \in Range(s) <=> x \in Range(gone) \/ x \in Range(rest)
               /\ \A x \in Range(gone) : x \notin Range(rest)
               /\ Len(rest) = Len(s) - n
               /\ \A i \in 1 .. Len(s) - n : rest[i] = s[n + i]
               /\ Len(gone) = n
               /\ \A i \in 1 .. n : gone[i] = s[i]
<1> DEFINE gone == SubSeq(s, 1, n)
           rest == SubSeq(s, n + 1, Len(s))
           m == Len(s) - n
<1>1. n \in Nat /\ m \in Nat /\ Len(s) \in Nat /\ Len(s) = n + m /\ DOMAIN s = 1 .. n + m
  OBVIOUS
<1>2. \A i \in DOMAIN s : s[i] \in S
  OBVIOUS
<1>3. gone \in Seq(S) /\ Len(gone) = n /\ \A i \in 1 .. n : gone[i] = s[i]
  <2>1. \A i \in 1 .. n : s[i] \in S
    BY <1>1, <1>2
  <2>2. /\ gone \in Seq(S) /\ Len(gone) = IF 1 <= n THEN n - 1 + 1 ELSE 0
        /\ \A i \in 1 .. n - 1 + 1 : gone[i] = s[1 + i - 1]
    BY <2>1, <1>1, SubSeqProperties
  <2>3. n - 1 + 1 = n /\ \A i \in 1 .. n : 1 + i - 1 = i
    BY <1>1
  <2> QED BY <2>2, <2>3, <1>1
<1>4. rest \in Seq(S) /\ Len(rest) = m /\ \A i \in 1 .. m : rest[i] = s[n + i]
  <2>1. \A i \in n + 1 .. Len(s) : s[i] \in S
    BY <1>1, <1>2
  <2>2. /\ rest \in Seq(S)
        /\ Len(rest) = IF n + 1 <= Len(s) THEN Len(s) - (n + 1) + 1 ELSE 0
        /\ \A i \in 1 .. Len(s) - (n + 1) + 1 : rest[i] = s[n + 1 + i - 1]
    BY <2>1, <1>1, SubSeqProperties
  <2>3. Len(s) - (n + 1) + 1 = m /\ \A i \in 1 .. m : n + 1 + i - 1 = n + i
    BY <1>1
  <2>4. Len(rest) = m
    <3>1. n + 1 <= Len(s) \/ m = 0
      BY <1>1, RestIsEmpty
    <3>2. n + 1 <= Len(s) => Len(rest) = Len(s) - (n + 1) + 1
      BY <2>2
    <3>3. ~(n + 1 <= Len(s)) => Len(rest) = 0
      BY <2>2
    <3> HIDE DEF rest, m
    <3> QED BY <3>1, <3>2, <3>3, <2>3
  <2>5. \A i \in 1 .. m : rest[i] = s[n + i]
    <3> HIDE DEF rest
    <3> QED BY <2>2, <2>3
  <2> QED BY <2>2, <2>4, <2>5
<1> HIDE DEF gone, rest, m
<1>5. DOMAIN gone = 1 .. n /\ DOMAIN rest = 1 .. m
  BY <1>3, <1>4
<1>6. IsInjective(rest)
  <2> SUFFICES ASSUME NEW i \in 1 .. m, NEW j \in 1 .. m, rest[i] = rest[j] PROVE i = j
    BY <1>5 DEF IsInjective
  <2>1. n + i \in DOMAIN s /\ n + j \in DOMAIN s /\ s[n + i] = s[n + j]
    BY <1>1, <1>4
  <2> QED BY <2>1, <1>1 DEF IsInjective
<1>7. ASSUME NEW x \in Range(gone) PROVE x \notin Range(rest)
  <2> SUFFICES ASSUME NEW i \in 1 .. n, NEW j \in 1 .. m, gone[i] = rest[j] PROVE FALSE
    BY <1>5, <1>7 DEF Range
  <2>1. i \in DOMAIN s /\ n + j \in DOMAIN s /\ s[i] = s[n + j] /\ i # n + j
    BY <1>1, <1>3, <1>4
  <2> QED BY <2>1 DEF IsInjective
<1>8. ASSUME NEW x PROVE x \in Range(s) <=> x \in Range(gone) \/ x \in Range(rest)
  <2>1. ASSUME NEW i \in DOMAIN s, x = s[i] PROVE x \in Range(gone) \/ x \in Range(rest)
    <3>1. CASE i <= n
      BY <3>1, <2>1, <1>1, <1>3, <1>5 DEF Range
    <3>2. CASE ~(i <= n)
      <4>1. i - n \in 1 .. m /\ n + (i - n) = i
        BY <3>2, <1>1
      <4> QED BY <4>1, <2>1, <1>4, <1>5 DEF Range
    <3> QED BY <3>1, <3>2
  <2>2. ASSUME NEW i \in 1 .. n, x = gone[i] PROVE x \in Range(s)
    BY <2>2, <1>1, <1>3 DEF Range
  <2>3. ASSUME NEW i \in 1 .. m, x = rest[i] PROVE x \in Range(s)
    BY <2>3, <1>1, <1>4 DEF Range
  <2> QED BY <2>1, <2>2, <2>3, <1>5 DEF Range
<1>9. rest \in Seq(S \ Range(gone))
  <2>1. \A i \in 1 .. m : rest[i] \in S /\ rest[i] \notin Range(gone)
    <3> TAKE i \in 1 .. m
    <3>1. rest[i] \in Range(rest) /\ rest[i] \in S
      BY <1>4, <1>5, SMTT(60) DEF Range
    <3> QED BY <3>1, <1>7
  <2>2. \A i \in 1 .. Len(rest) : rest[i] \in S \ Range(gone)
    BY <2>1, <1>4
  <2> QED BY <2>2, <1>4
<1> QED BY <1>3, <1>4, <1>6, <1>7, <1>8, <1>9 DEF gone, rest, m

\* The freed buffer joins those that wait.
LEMMA Joins ==
    ASSUME NEW S, NEW s \in Seq(S), IsInjective(s), NEW p \in S, p \notin Range(s)
    PROVE  LET waiting == Append(s, p)
           IN  /\ waiting \in Seq(S) /\ IsInjective(waiting)
               /\ \A x : x \in Range(waiting) <=> x \in Range(s) \/ x = p
               /\ Len(waiting) = Len(s) + 1
               /\ \A i \in 1 .. Len(s) : waiting[i] = s[i]
               /\ waiting[Len(s) + 1] = p
<1> DEFINE waiting == Append(s, p)
           n == Len(s)
<1>1. /\ waiting \in Seq(S) /\ Len(waiting) = n + 1 /\ n \in Nat
      /\ \A i \in 1 .. n : waiting[i] = s[i]
      /\ waiting[n + 1] = p
  BY AppendProperties
<1>2. DOMAIN waiting = 1 .. n + 1 /\ DOMAIN s = 1 .. n
  BY <1>1
<1> HIDE DEF waiting, n
<1>3. \A i \in 1 .. n + 1 : (i \in 1 .. n /\ waiting[i] = s[i]) \/ (i = n + 1 /\ waiting[i] = p)
  BY <1>1
<1>4. \A i \in 1 .. n : s[i] \in Range(s)
  BY <1>2 DEF Range
<1>5. IsInjective(waiting)
  BY <1>2, <1>3, <1>4 DEF IsInjective
<1>6. \A x : x \in Range(waiting) <=> x \in Range(s) \/ x = p
  BY <1>1, <1>2, <1>3 DEF Range
<1> QED BY <1>1, <1>5, <1>6 DEF waiting, n

\* The end of a sequence, with one more element behind it.
LEMMA EndOfAppend ==
    ASSUME NEW S, NEW s \in Seq(S), NEW p \in S, NEW i \in 1 .. Len(s)
    PROVE  SubSeq(Append(s, p), i, Len(s) + 1) = Append(SubSeq(s, i, Len(s)), p)
<1> DEFINE n == Len(s)
           w == Append(s, p)
           t == SubSeq(s, i, n)
           u == SubSeq(w, i, n + 1)
<1>1. /\ n \in Nat /\ i \in Nat /\ i >= 1 /\ i <= n
      /\ w \in Seq(S) /\ Len(w) = n + 1 /\ w[n + 1] = p
      /\ \A j \in 1 .. n : w[j] = s[j]
      /\ \A j \in 1 .. n : s[j] \in S
  BY AppendProperties
<1> HIDE DEF n, w
<1>2. \A j \in 1 .. n + 1 : w[j] \in S
  BY <1>1
<1>3. /\ t \in Seq(S) /\ Len(t) = n - i + 1 /\ \A j \in 1 .. n - i + 1 : t[j] = s[i + j - 1]
  <2>1. \A j \in i .. n : s[j] \in S
    BY <1>1
  <2> QED BY <1>1, <2>1, SubSeqProperties
<1>4. /\ u \in Seq(S) /\ Len(u) = n - i + 2 /\ \A j \in 1 .. n - i + 2 : u[j] = w[i + j - 1]
  <2>1. \A j \in i .. n + 1 : w[j] \in S
    BY <1>1, <1>2
  <2>2. i <= n + 1 /\ (n + 1) - i + 1 = n - i + 2 /\ i \in Int /\ n + 1 \in Int
    BY <1>1
  <2>3. /\ u \in Seq(S) /\ Len(u) = IF i <= n + 1 THEN (n + 1) - i + 1 ELSE 0
        /\ \A j \in 1 .. (n + 1) - i + 1 : u[j] = w[i + j - 1]
    BY <2>1, <2>2, SubSeqProperties
  <2> HIDE DEF u
  <2> QED BY <2>2, <2>3
<1> HIDE DEF t, u
<1>5. /\ Append(t, p) \in Seq(S) /\ Len(Append(t, p)) = n - i + 2
      /\ \A j \in 1 .. n - i + 1 : Append(t, p)[j] = t[j]
      /\ Append(t, p)[n - i + 2] = p
  <2>1. /\ Append(t, p) \in Seq(S) /\ Len(Append(t, p)) = Len(t) + 1
        /\ \A j \in 1 .. Len(t) : Append(t, p)[j] = t[j]
        /\ Append(t, p)[Len(t) + 1] = p
    BY <1>3, AppendProperties
  <2>2. Len(t) + 1 = n - i + 2
    BY <1>1, <1>3
  <2> QED BY <1>3, <2>1, <2>2
<1>6. ASSUME NEW j \in 1 .. n - i + 2 PROVE u[j] = Append(t, p)[j]
  <2>1. CASE j = n - i + 2
    <3>1. i + j - 1 = n + 1
      BY <1>1, <2>1
    <3> QED BY <1>1, <1>4, <1>5, <2>1, <3>1
  <2>2. CASE j # n - i + 2
    <3>1. j \in 1 .. n - i + 1 /\ i + j - 1 \in 1 .. n
      BY <1>1, <2>2
    <3> QED BY <1>1, <1>3, <1>4, <1>5, <3>1
  <2> QED BY <2>1, <2>2
<1>7. u = Append(t, p)
  BY <1>4, <1>5, <1>6, SeqEqual
<1> QED BY <1>7 DEF u, t, w, n

-----------------------------------------------------------------------------
(* The sum of a sequence of lengths.                                       *)

\* A set of natural numbers with 0 and with the successor of each of its elements.
LEMMA NatInSet ==
    ASSUME NEW S, 0 \in S, \A n \in Nat : n \in S => n + 1 \in S
    PROVE  \A n \in Nat : n \in S
<1> DEFINE T == Nat \ S
           R == OpToRel(<, Nat)
<1> SUFFICES ASSUME T # {} PROVE FALSE
  OBVIOUS
<1>1. IsWellFoundedOn(R, Nat) /\ T \subseteq Nat
  BY NatLessThanWellFounded
<1>2. \A x, y \in Nat : y < x => <<y, x>> \in R
  BY DEF OpToRel
<1> HIDE DEF R
<1>3. PICK x \in T : \A y \in T : ~(<<y, x>> \in R)
  <2> HIDE DEF T
  <2> QED BY <1>1, WFMin
<1>4. x \in Nat /\ x # 0 /\ x - 1 \in Nat /\ x - 1 < x /\ (x - 1) + 1 = x
  BY <1>3
<1>5. x - 1 \notin T
  BY <1>2, <1>3, <1>4
<1> QED BY <1>3, <1>4, <1>5

\* What a function has to be to hold the sums of the first n lengths.
Sums(t, lens) ==
    /\ t[0] = 0
    /\ \A n \in 1 .. Len(lens) : t[n] = t[n - 1] + lens[n]

\* There are such sums for every sequence.
LEMMA SumsExist ==
    ASSUME NEW lens \in Seq(Nat)
    PROVE  \E t \in [0 .. Len(lens) -> Nat] : Sums(t, lens)
<1> DEFINE UpTo(k, t) == t[0] = 0 /\ \A n \in 1 .. k : t[n] = t[n - 1] + lens[n]
           S == {k \in Nat : k <= Len(lens) => \E t \in [0 .. k -> Nat] : UpTo(k, t)}
<1>1. 0 \in S
  <2> DEFINE t == [n \in 0 .. 0 |-> 0]
  <2>1. t \in [0 .. 0 -> Nat] /\ t[0] = 0
    OBVIOUS
  <2>2. UpTo(0, t)
    BY <2>1
  <2> HIDE DEF t
  <2> QED BY <2>1, <2>2
<1>2. ASSUME NEW k \in Nat, k \in S PROVE k + 1 \in S
  <2>0. k + 1 \in Nat /\ (k + 1 <= Len(lens) => k <= Len(lens))
    OBVIOUS
  <2> HIDE DEF UpTo
  <2> SUFFICES ASSUME k + 1 <= Len(lens)
               PROVE  \E t \in [0 .. k + 1 -> Nat] : UpTo(k + 1, t)
    BY <2>0, Zenon
  <2>1. PICK t \in [0 .. k -> Nat] : UpTo(k, t)
    BY <1>2, <2>0, Zenon
  <2> USE DEF UpTo
  <2>2. lens[k + 1] \in Nat /\ k + 1 \in 1 .. Len(lens)
    OBVIOUS
  <2> DEFINE u == [n \in 0 .. k + 1 |-> IF n = k + 1 THEN t[k] + lens[k + 1] ELSE t[n]]
  <2>3. u \in [0 .. k + 1 -> Nat]
    BY <2>1, <2>2
  <2>4. u[0] = 0
    BY <2>1
  <2>5. ASSUME NEW n \in 1 .. k + 1 PROVE u[n] = u[n - 1] + lens[n]
    <3>1. CASE n = k + 1
      BY <3>1
    <3>2. CASE n # k + 1
      <4>1. n \in 1 .. k /\ n - 1 \in 0 .. k + 1 /\ n - 1 # k + 1
        BY <3>2
      <4>2. t[n] = t[n - 1] + lens[n]
        BY <2>1, <4>1
      <4> QED BY <3>2, <4>1, <4>2
    <3> QED BY <3>1, <3>2
  <2>6. UpTo(k + 1, u)
    BY <2>4, <2>5
  <2> QED BY <2>3, <2>6
<1>3. Len(lens) \in S
  <2> HIDE DEF S
  <2>1. \A n \in Nat : n \in S
    BY <1>1, <1>2, NatInSet
  <2> QED BY <2>1
<1> QED BY <1>3 DEF Sums

\* And no others.
LEMMA SumsUnique ==
    ASSUME NEW lens \in Seq(Nat), NEW t, Sums(t, lens), NEW u, Sums(u, lens)
    PROVE  \A n \in 0 .. Len(lens) : t[n] = u[n]
<1> DEFINE S == {k \in Nat : k <= Len(lens) => t[k] = u[k]}
<1>1. 0 \in S
  BY DEF Sums
<1>2. ASSUME NEW k \in Nat, k \in S PROVE k + 1 \in S
  <2>1. SUFFICES ASSUME k + 1 <= Len(lens) PROVE t[k + 1] = u[k + 1]
    OBVIOUS
  <2>2. k + 1 \in 1 .. Len(lens) /\ (k + 1) - 1 = k /\ k <= Len(lens)
    BY <2>1
  <2>3. t[k + 1] = t[k] + lens[k + 1] /\ u[k + 1] = u[k] + lens[k + 1]
    BY <2>2 DEF Sums
  <2> QED BY <1>2, <2>2, <2>3
<1>3. \A n \in Nat : n \in S
  <2> HIDE DEF S
  <2> QED BY <1>1, <1>2, NatInSet
<1> QED BY <1>3

\* TotalOf is the last of them.
LEMMA TotalIsLast ==
    ASSUME NEW lens \in Seq(Nat), NEW t, Sums(t, lens)
    PROVE  TotalOf(lens) = t[Len(lens)]
<1> DEFINE F(s) == [n \in 0 .. Len(lens) |-> IF n = 0 THEN 0 ELSE s[n - 1] + lens[n]]
           sum == CHOOSE s : s = F(s)
<1>0. Len(lens) \in Nat
  OBVIOUS
<1>1. TotalOf(lens) = sum[Len(lens)]
  BY DEF TotalOf
<1>2. \E s : s = F(s)
  <2>1. PICK s \in [0 .. Len(lens) -> Nat] : Sums(s, lens)
    BY SumsExist
  <2>2. \A n \in 0 .. Len(lens) : s[n] = IF n = 0 THEN 0 ELSE s[n - 1] + lens[n]
    BY <1>0, <2>1 DEF Sums
  <2>3. s = F(s)
    BY <2>2
  <2> QED BY <2>3
<1>3. sum = F(sum)
  <2> HIDE DEF F
  <2> QED BY <1>2, Zenon
<1> HIDE DEF sum
<1>4. \A n \in 0 .. Len(lens) : sum[n] = IF n = 0 THEN 0 ELSE sum[n - 1] + lens[n]
  <2> DEFINE k == Len(lens)
  <2>1. sum = [n \in 0 .. k |-> IF n = 0 THEN 0 ELSE sum[n - 1] + lens[n]]
    BY <1>3
  <2> HIDE DEF k
  <2>2. \A n \in 0 .. k : sum[n] = IF n = 0 THEN 0 ELSE sum[n - 1] + lens[n]
    BY <2>1, Zenon
  <2> QED BY <2>2 DEF k
<1>5. Sums(sum, lens)
  <2>1. sum[0] = 0
    BY <1>0, <1>4
  <2>2. ASSUME NEW n \in 1 .. Len(lens) PROVE sum[n] = sum[n - 1] + lens[n]
    <3>1. n \in 0 .. Len(lens) /\ n # 0
      BY <1>0
    <3> QED BY <1>4, <3>1
  <2> QED BY <2>1, <2>2 DEF Sums
<1> QED BY <1>0, <1>1, <1>5, SumsUnique

\* What TotalOf computes, as a fact to pick from.
LEMMA TotalDefined ==
    ASSUME NEW lens \in Seq(Nat)
    PROVE  \E t \in [0 .. Len(lens) -> Nat] : Sums(t, lens) /\ TotalOf(lens) = t[Len(lens)]
<1>1. PICK t \in [0 .. Len(lens) -> Nat] : Sums(t, lens)
  BY SumsExist
<1>2. TotalOf(lens) = t[Len(lens)]
  BY <1>1, TotalIsLast
<1> QED BY <1>1, <1>2

\* The total of lengths is a length.
LEMMA TotalType ==
    ASSUME NEW lens \in Seq(Nat)
    PROVE  TotalOf(lens) \in Nat
<1>1. PICK t \in [0 .. Len(lens) -> Nat] : TotalOf(lens) = t[Len(lens)]
  BY TotalDefined
<1>2. Len(lens) \in 0 .. Len(lens)
  OBVIOUS
<1> QED BY <1>1, <1>2

\* The total of nothing.
LEMMA TotalOfNothing == TotalOf(<<>>) = 0
<1>1. <<>> \in Seq(Nat) /\ Len(<<>>) = 0
  OBVIOUS
<1> QED BY <1>1, TotalDefined DEF Sums

\* The total of a sequence and one more length.
LEMMA TotalOfAppend ==
    ASSUME NEW lens \in Seq(Nat), NEW x \in Nat
    PROVE  TotalOf(Append(lens, x)) = TotalOf(lens) + x
<1> DEFINE w == Append(lens, x)
           k == Len(lens)
<1>1. PICK t \in [0 .. k -> Nat] : Sums(t, lens) /\ TotalOf(lens) = t[k]
  BY TotalDefined
<1>2. /\ w \in Seq(Nat) /\ Len(w) = k + 1 /\ w[k + 1] = x
      /\ \A i \in 1 .. k : w[i] = lens[i]
      /\ k \in Nat
  BY AppendProperties
<1> HIDE DEF w, k
<1> DEFINE u == [n \in 0 .. k + 1 |-> IF n = k + 1 THEN t[k] + x ELSE t[n]]
<1>3. u[0] = 0 /\ u[k + 1] = t[k] + x
  BY <1>1, <1>2 DEF Sums
<1>4. ASSUME NEW n \in 1 .. k + 1 PROVE u[n] = u[n - 1] + w[n]
  <2>1. CASE n = k + 1
    BY <1>2, <2>1
  <2>2. CASE n # k + 1
    <3>1. n \in 1 .. k /\ n - 1 \in 0 .. k + 1 /\ n - 1 # k + 1
      BY <1>2, <2>2
    <3>2. t[n] = t[n - 1] + lens[n]
      BY <1>1, <3>1 DEF Sums, k
    <3> QED BY <1>2, <2>2, <3>1, <3>2
  <2> QED BY <2>1, <2>2
<1>5. Sums(u, w)
  BY <1>2, <1>3, <1>4 DEF Sums
<1> HIDE DEF u
<1>6. TotalOf(w) = u[k + 1]
  BY <1>2, <1>5, TotalIsLast
<1> QED BY <1>1, <1>3, <1>6 DEF w, k

\* What is left when the first n lengths are taken away.
LEMMA TotalOfParts ==
    ASSUME NEW lens \in Seq(Nat), NEW n \in 0 .. Len(lens)
    PROVE  TotalOf(SubSeq(lens, n + 1, Len(lens)))
               = TotalOf(lens) - TotalOf(SubSeq(lens, 1, n))
<1> DEFINE k == Len(lens)
           first == SubSeq(lens, 1, n)
           rest == SubSeq(lens, n + 1, k)
<1>1. PICK t \in [0 .. k -> Nat] : Sums(t, lens) /\ TotalOf(lens) = t[k]
  BY TotalDefined
<1>2. k \in Nat /\ n \in Nat /\ n <= k /\ \A i \in 1 .. k : lens[i] \in Nat
  OBVIOUS
<1>3. /\ t[0] = 0 /\ \A i \in 0 .. k : t[i] \in Nat
      /\ \A i \in 1 .. k : t[i] = t[i - 1] + lens[i]
  BY <1>1, <1>2 DEF Sums
<1> HIDE DEF k
<1>4. first \in Seq(Nat) /\ Len(first) = n /\ \A i \in 1 .. n : first[i] = lens[i]
  <2>1. \A i \in 1 .. n : lens[i] \in Nat
    BY <1>2
  <2>2. /\ first \in Seq(Nat) /\ Len(first) = IF 1 <= n THEN n - 1 + 1 ELSE 0
        /\ \A i \in 1 .. n - 1 + 1 : first[i] = lens[1 + i - 1]
    BY <2>1, <1>2, SubSeqProperties
  <2>3. n - 1 + 1 = n /\ \A i \in 1 .. n : 1 + i - 1 = i
    BY <1>2
  <2> QED BY <2>2, <2>3, <1>2
<1>5. rest \in Seq(Nat) /\ Len(rest) = k - n /\ \A i \in 1 .. k - n : rest[i] = lens[n + i]
  <2>1. \A i \in n + 1 .. k : lens[i] \in Nat
    BY <1>2
  <2>2. /\ rest \in Seq(Nat) /\ Len(rest) = IF n + 1 <= k THEN k - (n + 1) + 1 ELSE 0
        /\ \A i \in 1 .. k - (n + 1) + 1 : rest[i] = lens[(n + 1) + i - 1]
    BY <2>1, <1>2, SubSeqProperties
  <2>3. /\ k - (n + 1) + 1 = k - n
        /\ \A i \in 1 .. k - n : (n + 1) + i - 1 = n + i
        /\ ~(n + 1 <= k) => k - n = 0
    BY <1>2
  <2> HIDE DEF rest
  <2> QED BY <2>2, <2>3
<1> HIDE DEF first, rest
<1>6. TotalOf(first) = t[n]
  <2>1. ASSUME NEW i \in 1 .. n PROVE t[i] = t[i - 1] + first[i]
    <3>1. i \in 1 .. k
      BY <1>2
    <3> QED BY <1>3, <1>4, <3>1
  <2>2. Sums(t, first)
    BY <1>3, <1>4, <2>1 DEF Sums
  <2> QED BY <1>4, <2>2, TotalIsLast
<1>7. TotalOf(rest) = t[k] - t[n]
  <2> DEFINE u == [i \in 0 .. k - n |-> t[n + i] - t[n]]
  <2>1. k - n \in Nat /\ t[n] \in Nat
    BY <1>2, <1>3
  <2>2. u[0] = 0 /\ u[k - n] = t[k] - t[n]
    BY <1>2, <2>1
  <2>3. ASSUME NEW i \in 1 .. k - n PROVE u[i] = u[i - 1] + rest[i]
    <3>1. n + i \in 1 .. k /\ (n + i) - 1 = n + (i - 1) /\ i - 1 \in 0 .. k - n /\ i \in 0 .. k - n
          /\ (n + i) - 1 \in 0 .. k
      BY <1>2, <2>1
    <3>2. t[n + i] = t[n + (i - 1)] + lens[n + i]
      BY <1>3, <3>1
    <3>3. u[i] = t[n + i] - t[n] /\ u[i - 1] = t[n + (i - 1)] - t[n]
      BY <3>1
    <3>4. t[n + (i - 1)] \in Nat /\ lens[n + i] \in Nat /\ rest[i] = lens[n + i]
      BY <1>2, <1>3, <1>5, <3>1
    <3> HIDE DEF u
    <3> QED BY <2>1, <3>2, <3>3, <3>4
  <2> HIDE DEF u
  <2>4. Sums(u, rest)
    BY <1>5, <2>2, <2>3 DEF Sums
  <2> QED BY <1>5, <2>2, <2>4, TotalIsLast
<1> QED BY <1>1, <1>6, <1>7 DEF first, rest, k

-----------------------------------------------------------------------------
(* The invariant: the memory.                                              *)

BufferType == [len : Nat \ {0}, chunk : [addr : Nat, len : Nat \ {0}], freed : BOOLEAN]

\* A buffer lies between red zones in a chunk of whole granules that is out of the backend.
InChunk(p) ==
    LET a == allocations[p]
        c == a.chunk
    IN  /\ p \in Nat /\ a \in BufferType /\ c \in chunks
        /\ StartAligned(c.addr) /\ StartAligned(c.addr + c.len) /\ c.addr + c.len <= MemSize
        /\ c.addr + RedZone <= p /\ p + a.len + RedZone <= c.addr + c.len

\* The shadow's bytes for the chunk of a buffer.
BytesRight(p) ==
    LET a == allocations[p]
        c == a.chunk
    IN  IF a.freed
        THEN \A b \in c.addr .. c.addr + c.len - 1 : BytePoisoned(shadow, b)
        ELSE \A b \in p - RedZone .. p + a.len + RedZone - 1 :
                 BytePoisoned(shadow, b) <=> ~(p <= b /\ b < p + a.len)

Apart ==
    \A p, q \in DOMAIN allocations :
        p # q => ~Overlap(allocations[p].chunk, allocations[q].chunk)

\* The quarantine holds each freed buffer once.
Waiting ==
    /\ quarantine \in Seq(DOMAIN allocations)
    /\ IsInjective(quarantine)
    /\ \A p \in DOMAIN allocations : p \in Range(quarantine) <=> allocations[p].freed

LiveRanges == {[start |-> p, len |-> allocations[p].len] : p \in Live}

\* What the backend has had back and not handed out since may not be used.
GivenBack == \A b \in given_back : b \in 0 .. MemSize - 1 /\ BytePoisoned(shadow, b)

HeapInv ==
    /\ shadow \in ShadowType
    /\ ~failed
    /\ \A p \in DOMAIN allocations : InChunk(p) /\ BytesRight(p)
    /\ Apart
    /\ tracked = LiveRanges
    /\ Waiting
    /\ GivenBack

LEMMA HeapInitially == Init => HeapInv
<1> SUFFICES ASSUME Init PROVE HeapInv
  OBVIOUS
<1>1. shadow \in ShadowType
  BY GranuleAssumption DEF Init, ShadowType, Valid, Poisoned
<1>2. DOMAIN allocations = {} /\ tracked = LiveRanges
  BY DEF Init, LiveRanges, Live
<1>3. Waiting
  BY <1>2 DEF Init, Waiting, IsInjective
<1> QED BY <1>1, <1>2, <1>3 DEF Init, HeapInv, Apart, GivenBack

\* The parts of a record keep their types.
LEMMA InChunkNumbers ==
    ASSUME NEW p, InChunk(p)
    PROVE  LET a == allocations[p]
               c == a.chunk
           IN  /\ p \in Nat /\ a.len \in Nat \ {0} /\ a.freed \in BOOLEAN
               /\ c.addr \in Nat /\ c.len \in Nat \ {0}
               /\ c.addr + RedZone <= p /\ p + a.len + RedZone <= c.addr + c.len
               /\ c.addr + c.len <= MemSize /\ RedZone \in Nat /\ MemSize \in Nat
  BY MemSizeAssumption, RedZoneAssumption DEF InChunk, BufferType

-----------------------------------------------------------------------------
(* The invariant: the records.                                             *)

\* The chunks of the buffers have lengths.
LensKnown == \A p \in DOMAIN allocations : allocations[p].chunk.len \in Nat

\* The lengths of the chunks of a sequence of buffers.
LEMMA LensOfBuffers ==
    ASSUME LensKnown, NEW s \in Seq(DOMAIN allocations)
    PROVE  /\ ChunkLensOf(s) \in Seq(Nat) /\ Len(ChunkLensOf(s)) = Len(s)
           /\ \A i \in 1 .. Len(s) : ChunkLensOf(s)[i] = allocations[s[i]].chunk.len
<1> DEFINE f == ChunkLensOf(s)
           n == Len(s)
<1>1. n \in Nat /\ DOMAIN s = 1 .. n /\ \A i \in 1 .. n : s[i] \in DOMAIN allocations
  OBVIOUS
<1>2. f = [i \in 1 .. n |-> allocations[s[i]].chunk.len]
  BY <1>1 DEF ChunkLensOf
<1>3. f \in [1 .. n -> Nat]
  BY <1>1, <1>2 DEF LensKnown
<1>4. \A i \in 1 .. n : f[i] = allocations[s[i]].chunk.len
  BY <1>2
<1> HIDE DEF f
<1>5. f \in Seq(Nat)
  BY <1>1, <1>3, SeqDef
<1>6. Len(f) = n
  <2>1. DOMAIN f = 1 .. n /\ DOMAIN f = 1 .. Len(f) /\ Len(f) \in Nat
    BY <1>3, <1>5, LenProperties
  <2> QED BY <1>1, <2>1
<1> QED BY <1>4, <1>5, <1>6 DEF f

\* One more buffer, one more length.
LEMMA LensOfAppend ==
    ASSUME LensKnown, NEW s \in Seq(DOMAIN allocations), NEW p \in DOMAIN allocations
    PROVE  ChunkLensOf(Append(s, p)) = Append(ChunkLensOf(s), allocations[p].chunk.len)
<1> DEFINE n == Len(s)
           w == Append(s, p)
           l == ChunkLensOf(s)
           x == allocations[p].chunk.len
           lw == ChunkLensOf(w)
           la == Append(l, x)
<1>1. /\ w \in Seq(DOMAIN allocations) /\ Len(w) = n + 1 /\ n \in Nat
      /\ \A i \in 1 .. n : w[i] = s[i]
      /\ w[n + 1] = p
  BY AppendProperties
<1>2. x \in Nat
  BY DEF LensKnown
<1>3. l \in Seq(Nat) /\ Len(l) = n /\ \A i \in 1 .. n : l[i] = allocations[s[i]].chunk.len
  BY LensOfBuffers
<1> HIDE DEF n, w, l
<1>4. /\ lw \in Seq(Nat) /\ Len(lw) = n + 1
      /\ \A i \in 1 .. n + 1 : lw[i] = allocations[w[i]].chunk.len
  BY <1>1, LensOfBuffers
<1>5. /\ la \in Seq(Nat) /\ Len(la) = n + 1 /\ \A i \in 1 .. n : la[i] = l[i]
      /\ la[n + 1] = x
  BY <1>2, <1>3, AppendProperties
<1> HIDE DEF lw, la
<1>6. ASSUME NEW i \in 1 .. n + 1 PROVE lw[i] = la[i]
  <2>1. CASE i = n + 1
    BY <2>1, <1>1, <1>4, <1>5
  <2>2. CASE i # n + 1
    <3>1. i \in 1 .. n
      BY <1>1, <2>2
    <3>2. lw[i] = allocations[s[i]].chunk.len
      BY <3>1, <1>1, <1>4
    <3>3. la[i] = allocations[s[i]].chunk.len
      BY <3>1, <1>3, <1>5
    <3> QED BY <3>2, <3>3
  <2> QED BY <2>1, <2>2
<1>7. lw = la
  BY <1>4, <1>5, <1>6, SeqEqual
<1> QED BY <1>7 DEF lw, la, w, l

\* What the buffers behind the first n hold is what all hold without those n.
LEMMA LensOfParts ==
    ASSUME LensKnown, NEW s \in Seq(DOMAIN allocations), IsInjective(s), NEW n \in 0 .. Len(s)
    PROVE  ChunkLens(SubSeq(s, n + 1, Len(s))) = ChunkLens(s) - ChunkLens(SubSeq(s, 1, n))
<1> DEFINE gone == SubSeq(s, 1, n)
           rest == SubSeq(s, n + 1, Len(s))
           l == ChunkLensOf(s)
           lgone == SubSeq(l, 1, n)
           lrest == SubSeq(l, n + 1, Len(l))
           m == Len(s) - n
<1>1. /\ l \in Seq(Nat) /\ Len(l) = Len(s)
      /\ \A i \in 1 .. Len(s) : l[i] = allocations[s[i]].chunk.len
  BY LensOfBuffers
<1>2. n \in Nat /\ m \in Nat /\ Len(s) \in Nat /\ Len(s) = n + m
  OBVIOUS
<1>3. /\ gone \in Seq(DOMAIN allocations) /\ rest \in Seq(DOMAIN allocations)
      /\ Len(gone) = n /\ \A i \in 1 .. n : gone[i] = s[i]
      /\ Len(rest) = m /\ \A i \in 1 .. m : rest[i] = s[n + i]
  <2>1. /\ rest \in Seq(DOMAIN allocations \ Range(gone))
        /\ Len(gone) = n /\ \A i \in 1 .. n : gone[i] = s[i]
        /\ Len(rest) = m /\ \A i \in 1 .. m : rest[i] = s[n + i]
    BY Parts
  <2>2. gone \in Seq(DOMAIN allocations)
    <3>1. \A i \in 1 .. n : s[i] \in DOMAIN allocations
      BY <1>2
    <3> QED BY <1>2, <3>1, SubSeqProperties
  <2>3. rest \in Seq(DOMAIN allocations)
    <3> HIDE DEF rest, gone
    <3> QED BY <2>1, SeqMonotonic
  <2> QED BY <2>1, <2>2, <2>3
<1> HIDE DEF l, gone, rest, m
<1>4. lgone \in Seq(Nat) /\ Len(lgone) = n /\ \A i \in 1 .. n : lgone[i] = l[i]
  <2>1. \A i \in 1 .. n : l[i] \in Nat
    BY <1>1, <1>2
  <2>2. /\ lgone \in Seq(Nat) /\ Len(lgone) = IF 1 <= n THEN n - 1 + 1 ELSE 0
        /\ \A i \in 1 .. n - 1 + 1 : lgone[i] = l[1 + i - 1]
    BY <2>1, <1>2, SubSeqProperties
  <2>3. n - 1 + 1 = n /\ \A i \in 1 .. n : 1 + i - 1 = i
    BY <1>2
  <2> HIDE DEF lgone
  <2> QED BY <2>2, <2>3, <1>2
<1>5. lrest \in Seq(Nat) /\ Len(lrest) = m /\ \A i \in 1 .. m : lrest[i] = l[n + i]
  <2>0. PICK k \in Nat : k = n + m /\ Len(l) = k
    BY <1>1, <1>2
  <2>1. \A i \in n + 1 .. k : l[i] \in Nat
    BY <1>1, <1>2, <2>0
  <2>2. /\ lrest \in Seq(Nat) /\ Len(lrest) = IF n + 1 <= k THEN k - (n + 1) + 1 ELSE 0
        /\ \A i \in 1 .. k - (n + 1) + 1 : lrest[i] = l[(n + 1) + i - 1]
    BY <2>0, <2>1, <1>2, SubSeqProperties
  <2>3. /\ k - (n + 1) + 1 = m
        /\ \A i \in 1 .. m : (n + 1) + i - 1 = n + i
        /\ ~(n + 1 <= k) => m = 0
    BY <1>2, <2>0
  <2> HIDE DEF lrest
  <2> QED BY <2>2, <2>3
<1> HIDE DEF lgone, lrest
<1>6. ChunkLensOf(gone) = lgone
  <2>1. /\ ChunkLensOf(gone) \in Seq(Nat) /\ Len(ChunkLensOf(gone)) = n
        /\ \A i \in 1 .. n : ChunkLensOf(gone)[i] = allocations[gone[i]].chunk.len
    BY <1>3, LensOfBuffers
  <2>2. \A i \in 1 .. n : ChunkLensOf(gone)[i] = lgone[i]
    <3> TAKE i \in 1 .. n
    <3>1. i \in 1 .. Len(s)
      BY <1>2
    <3> QED BY <3>1, <2>1, <1>1, <1>3, <1>4
  <2> QED BY <2>1, <2>2, <1>4, SeqEqual
<1>7. ChunkLensOf(rest) = lrest
  <2>1. /\ ChunkLensOf(rest) \in Seq(Nat) /\ Len(ChunkLensOf(rest)) = m
        /\ \A i \in 1 .. m : ChunkLensOf(rest)[i] = allocations[rest[i]].chunk.len
    BY <1>3, LensOfBuffers
  <2>2. \A i \in 1 .. m : ChunkLensOf(rest)[i] = lrest[i]
    <3> TAKE i \in 1 .. m
    <3>1. n + i \in 1 .. Len(s)
      BY <1>2
    <3> QED BY <3>1, <2>1, <1>1, <1>3, <1>5
  <2> QED BY <2>1, <2>2, <1>5, SeqEqual
<1>8. TotalOf(lrest) = TotalOf(l) - TotalOf(lgone)
  <2>1. n \in 0 .. Len(l)
    BY <1>1
  <2> QED BY <2>1, <1>1, TotalOfParts DEF lrest, lgone
<1>9. ChunkLens(rest) = ChunkLens(s) - ChunkLens(gone)
  BY <1>6, <1>7, <1>8 DEF ChunkLens, l
<1> QED BY <1>9 DEF rest, gone

\* Nothing is left behind the last buffer.
LEMMA NothingIsLeft ==
    ASSUME LensKnown, NEW s \in Seq(DOMAIN allocations), IsInjective(s)
    PROVE  ChunkLens(SubSeq(s, Len(s) + 1, Len(s))) = 0
<1> DEFINE n == Len(s)
           rest == SubSeq(s, n + 1, n)
<1>1. n \in 0 .. Len(s) /\ n \in Nat
  OBVIOUS
<1>2. rest \in Seq(DOMAIN allocations \ Range(SubSeq(s, 1, n))) /\ Len(rest) = n - n
  BY <1>1, Parts
<1> HIDE DEF rest
<1>3. rest \in Seq(DOMAIN allocations) /\ Len(rest) = 0
  <2>1. Len(rest) = 0
    BY <1>1, <1>2
  <2> QED BY <1>2, <2>1, SeqMonotonic
<1>4. ChunkLensOf(rest) = << >>
  BY <1>3, LensOfBuffers, EmptySeq, SeqEqual
<1> QED BY <1>4, TotalOfNothing DEF ChunkLens, rest

\* A heap that keeps its invariant knows them.
LEMMA HeapLensKnown == HeapInv => LensKnown
  BY DEF HeapInv, InChunk, BufferType, LensKnown

\* What the chunks of buffers hold is a number of bytes.
LEMMA LensType ==
    ASSUME LensKnown, NEW s \in Seq(DOMAIN allocations)
    PROVE  ChunkLens(s) \in Nat
  BY LensOfBuffers, TotalType DEF ChunkLens

\* The length of the chunks of buffers that stay is the same.
LEMMA LensStay ==
    ASSUME NEW s \in Seq(DOMAIN allocations'), s = quarantine',
           \A p \in DOMAIN allocations' :
               p \in DOMAIN allocations /\ allocations'[p].chunk = allocations[p].chunk
    PROVE  ChunkLens(quarantine)' = ChunkLens(s)
<1>1. \A i \in DOMAIN s : allocations'[s[i]].chunk.len = allocations[s[i]].chunk.len
  OBVIOUS
<1>2. ChunkLensOf(quarantine)' = ChunkLensOf(s)
  BY <1>1 DEF ChunkLensOf
<1> QED BY <1>2 DEF ChunkLens, TotalOf

\* The quarantine counts the bytes of the chunks that wait in it.
Counted ==
    /\ quarantine_used = ChunkLens(quarantine)
    /\ quarantine_used <= QuarantineSize

\* A chunk is out of the backend as long as a buffer has it.
ChunksInUse == chunks = {allocations[p].chunk : p \in DOMAIN allocations}

\* What alloc and dealloc keep of all their records.
RecordsInv == HeapInv /\ Counted /\ ChunksInUse /\ failed \in BOOLEAN

\* The records of new are empty.
LEMMA RecordsInitially == Init => RecordsInv
<1> SUFFICES ASSUME Init PROVE RecordsInv
  OBVIOUS
<1>1. HeapInv
  BY HeapInitially
<1>2. ChunkLens(quarantine) = 0
  <2>1. quarantine = << >>
    BY DEF Init
  <2>2. ChunkLensOf(quarantine) = << >>
    <3>1. quarantine \in Seq(DOMAIN allocations)
      BY <2>1
    <3>2. ChunkLensOf(quarantine) \in Seq(Nat) /\ Len(ChunkLensOf(quarantine)) = 0
      BY <1>1, <2>1, <3>1, HeapLensKnown, LensOfBuffers
    <3> QED BY <3>2, EmptySeq, SeqEqual
  <2> QED BY <2>2, TotalOfNothing DEF ChunkLens
<1>3. Counted
  BY <1>2, QuarantineAssumption DEF Init, Counted
<1>4. ChunksInUse
  BY DEF Init, ChunksInUse
<1> QED BY <1>1, <1>3, <1>4 DEF RecordsInv, Init

\* What the buffers behind the first n hold.
Left(s, n) == ChunkLens(SubSeq(s, n + 1, Len(s)))

\* The counter says at each turn of the purge what the buffers that are left hold: so it
\* lets go as many as it takes, and comes down to nothing with the last.
LEMMA CounterIsRight ==
    ASSUME HeapInv, Counted, NEW p \in Live
    PROVE  LET waiting == Append(quarantine, p)
               used == quarantine_used + allocations[p].chunk.len
           IN  /\ \A n \in 0 .. Len(waiting) :
                      UsedWithout(used, waiting, n) = Left(waiting, n) /\ Left(waiting, n) \in Nat
               /\ Left(waiting, Len(waiting)) = 0
               /\ \A n \in 0 .. Len(waiting) :
                      Purges(used, waiting, n)
                          <=> /\ Left(waiting, n) <= QuarantineSize
                              /\ \A m \in 0 .. n - 1 : Left(waiting, m) > QuarantineSize
<1> DEFINE waiting == Append(quarantine, p)
           used == quarantine_used + allocations[p].chunk.len
           k == Len(waiting)
<1>1. /\ quarantine \in Seq(DOMAIN allocations) /\ IsInjective(quarantine)
      /\ p \in DOMAIN allocations /\ p \notin Range(quarantine)
      /\ LensKnown /\ QuarantineSize \in Nat
  BY HeapLensKnown, QuarantineAssumption DEF HeapInv, Waiting, Live
<1>2. waiting \in Seq(DOMAIN allocations) /\ IsInjective(waiting)
  BY <1>1, Joins
<1>3. ChunkLens(waiting) = used
  <2>1. ChunkLensOf(waiting) = Append(ChunkLensOf(quarantine), allocations[p].chunk.len)
    BY <1>1, LensOfAppend
  <2>2. ChunkLensOf(quarantine) \in Seq(Nat) /\ allocations[p].chunk.len \in Nat
    BY <1>1, LensOfBuffers DEF LensKnown
  <2> QED BY <2>1, <2>2, TotalOfAppend DEF ChunkLens, Counted
<1> HIDE DEF waiting, used
<1>4. k \in Nat
  BY <1>2
<1>5. ASSUME NEW n \in 0 .. k
      PROVE  UsedWithout(used, waiting, n) = Left(waiting, n) /\ Left(waiting, n) \in Nat
  <2> DEFINE rest == SubSeq(waiting, n + 1, Len(waiting))
  <2>1. ChunkLens(rest) = ChunkLens(waiting) - ChunkLens(SubSeq(waiting, 1, n))
    BY <1>1, <1>2, LensOfParts
  <2>2. rest \in Seq(DOMAIN allocations \ Range(SubSeq(waiting, 1, n)))
    BY <1>2, Parts
  <2> HIDE DEF rest
  <2>3. ChunkLens(rest) \in Nat
    <3>1. rest \in Seq(DOMAIN allocations)
      BY <2>2, SeqMonotonic
    <3> QED BY <3>1, <1>1, LensType
  <2> QED BY <2>1, <2>3, <1>3 DEF UsedWithout, Left, rest
<1>6. Left(waiting, k) = 0
  BY <1>1, <1>2, NothingIsLeft DEF Left
<1>7. ASSUME NEW n \in 0 .. k
      PROVE  Purges(used, waiting, n)
                 <=> /\ Left(waiting, n) <= QuarantineSize
                     /\ \A m \in 0 .. n - 1 : Left(waiting, m) > QuarantineSize
  <2>1. \A m \in 0 .. n - 1 : m \in 0 .. k
    BY <1>4
  <2>2. n < k \/ n = k
    BY <1>4
  <2>3. n = k => Left(waiting, n) <= QuarantineSize
    BY <1>1, <1>6
  <2> QED BY <1>5, <2>1, <2>2, <2>3 DEF Purges
<1> QED BY <1>5, <1>6, <1>7 DEF waiting, used, k

-----------------------------------------------------------------------------
(* alloc                                                                   *)

\* No buffer lies yet where the backend's answer puts the new one.
LEMMA DataIsNew ==
    ASSUME WideEnough, HeapInv, NEW len \in Lens, NEW align \in Aligns, NEW orig \in Addresses,
           BackendCanAlloc([addr |-> orig, len |-> ChunkLen(len, align)])
    PROVE  DataAddress(orig, align) \notin DOMAIN allocations
<1> DEFINE data == DataAddress(orig, align)
           clen == ChunkLen(len, align)
           chunk == [addr |-> orig, len |-> clen]
<1>1. /\ orig \in Nat /\ orig % AllocAlign = 0
      /\ \A d \in chunks : ~Overlap(chunk, d)
  BY MemSizeAssumption DEF BackendCanAlloc, Addresses
<1>2. /\ data \in Nat /\ len \in Nat \ {0} /\ clen \in Nat \ {0}
      /\ orig + RedZone <= data /\ data + len + RedZone <= orig + clen
  BY <1>1, Request
<1> HIDE DEF data, clen
<1> SUFFICES ASSUME data \in DOMAIN allocations PROVE FALSE
  BY DEF data
<1>3. InChunk(data) /\ ~Overlap(chunk, allocations[data].chunk)
  BY <1>1 DEF HeapInv, InChunk
<1>4. RedZone \in Nat
  BY RedZoneAssumption
<1>5. /\ allocations[data].chunk.addr \in Nat /\ allocations[data].chunk.len \in Nat
      /\ allocations[data].chunk.addr + RedZone <= data
      /\ data < allocations[data].chunk.addr + allocations[data].chunk.len
  BY <1>3, <1>4, InChunkNumbers
<1>6. Overlap(chunk, allocations[data].chunk)
  BY <1>1, <1>2, <1>4, <1>5 DEF Overlap
<1> QED BY <1>3, <1>6

LEMMA AllocKeeps ==
    ASSUME WideEnough, HeapInv, NEW len \in Lens, NEW align \in Aligns, Alloc(len, align)
    PROVE  HeapInv'
<1> PICK orig \in Addresses :
        LET chunk == [addr |-> orig, len |-> ChunkLen(len, align)]
            data == DataAddress(orig, align)
            refused == TrackingConflict(data, len) \/ ShadowRefuses(orig, data, len)
        IN  /\ BackendCanAlloc(chunk)
            /\ chunks' = chunks \cup {chunk}
            /\ given_back' = given_back \ Bytes(chunk)
            /\ allocations' =
                   [p \in DOMAIN allocations \cup {data} |->
                       IF p = data
                         THEN [len |-> len, chunk |-> chunk, freed |-> FALSE]
                         ELSE allocations[p]]
            /\ tracked' = IF TrackingConflict(data, len)
                            THEN tracked
                            ELSE tracked \cup {[start |-> data, len |-> len]}
            /\ failed' = refused
            /\ shadow' = IF refused
                           THEN shadow
                           ELSE ShadowOfBuffer(shadow, orig, data, len)
            /\ UNCHANGED <<quarantine, quarantine_used>>
  BY DEF Alloc
<1> DEFINE data == DataAddress(orig, align)
           clen == ChunkLen(len, align)
           chunk == [addr |-> orig, len |-> clen]
           right == RightLen(len)
           stop == data + len + right
           buffer == [len |-> len, chunk |-> chunk, freed |-> FALSE]
<1>1. /\ orig \in Nat /\ orig % AllocAlign = 0 /\ orig + clen <= MemSize
      /\ \A d \in chunks : ~Overlap(chunk, d)
  BY MemSizeAssumption DEF BackendCanAlloc, Addresses
<1>2. /\ data \in Nat /\ len \in Nat \ {0} /\ right \in Nat /\ clen \in Nat \ {0}
      /\ StartAligned(orig) /\ StartAligned(data) /\ StartAligned(orig + clen)
      /\ StartAligned(data + len + right)
      /\ orig + RedZone <= data /\ data + len + RedZone <= orig + clen
      /\ RedZone <= right /\ data + len + right < orig + clen + RedZone
  BY <1>1, Request
<1>3. RedZone \in Nat /\ RedZone > 0 /\ MemSize \in Nat
  BY RedZoneAssumption, MemSizeAssumption DEF WideEnough
<1> HIDE DEF data, clen, right
<1>4. \A p \in DOMAIN allocations :
          LET c == allocations[p].chunk
          IN  c.addr + c.len <= orig \/ orig + clen <= c.addr
  <2> TAKE p \in DOMAIN allocations
  <2>1. ~Overlap(chunk, allocations[p].chunk) /\ InChunk(p)
    BY <1>1 DEF HeapInv, InChunk
  <2> QED BY <2>1, <1>1, <1>2, InChunkNumbers DEF Overlap
<1>5. data \notin DOMAIN allocations
  BY DataIsNew DEF data
<1>6. ~TrackingConflict(data, len)
  <2> SUFFICES ASSUME NEW t \in tracked
               PROVE  ~(IF data > t.start THEN data - t.start < t.len
                                          ELSE t.start - data < len)
    BY DEF TrackingConflict
  <2>1. PICK p \in Live : t = [start |-> p, len |-> allocations[p].len]
    BY DEF HeapInv, LiveRanges
  <2>2. p \in DOMAIN allocations /\ InChunk(p)
    BY DEF HeapInv, Live
  <2> QED BY <2>1, <2>2, <1>1, <1>2, <1>3, <1>4, InChunkNumbers
<1>7. ~ShadowRefuses(orig, data, len)
  <2>1. orig + (data - orig) = data
    BY <1>1, <1>2
  <2> QED BY <2>1, <1>2 DEF ShadowRefuses, EndAligned, StartAligned, right
<1>8. /\ chunks' = chunks \cup {chunk}
      /\ allocations' = [p \in DOMAIN allocations \cup {data} |->
                            IF p = data THEN buffer ELSE allocations[p]]
      /\ tracked' = tracked \cup {[start |-> data, len |-> len]}
      /\ ~failed'
      /\ shadow' = ShadowOfBuffer(shadow, orig, data, len)
      /\ quarantine' = quarantine
      /\ given_back' = given_back \ Bytes(chunk)
  BY <1>6, <1>7 DEF data, clen
<1>9. /\ DOMAIN allocations' = DOMAIN allocations \cup {data}
      /\ allocations'[data] = buffer
      /\ \A p \in DOMAIN allocations : p # data /\ allocations'[p] = allocations[p]
  BY <1>5, <1>8
<1>10. /\ shadow' \in ShadowType
       /\ \A b \in 0 .. MemSize - 1 :
              /\ orig <= b /\ b < data => BytePoisoned(shadow', b)
              /\ data <= b /\ b < data + len => ~BytePoisoned(shadow', b)
              /\ data + len <= b /\ b < stop => BytePoisoned(shadow', b)
              /\ b < orig \/ stop <= b =>
                     (BytePoisoned(shadow', b) <=> BytePoisoned(shadow, b))
  <2>1. shadow \in ShadowType /\ orig <= data
    BY <1>1, <1>2, <1>3 DEF HeapInv
  <2>2. RightLen(len) \in Nat /\ StartAligned(data + len + RightLen(len))
    BY <1>2 DEF right
  <2> DEFINE b3 == ShadowOfBuffer(shadow, orig, data, len)
             end == data + len + RightLen(len)
  <2>3. /\ b3 \in ShadowType
        /\ \A b \in 0 .. MemSize - 1 :
               /\ orig <= b /\ b < data => BytePoisoned(b3, b)
               /\ data <= b /\ b < data + len => ~BytePoisoned(b3, b)
               /\ data + len <= b /\ b < end => BytePoisoned(b3, b)
               /\ b < orig \/ end <= b => (BytePoisoned(b3, b) <=> BytePoisoned(shadow, b))
    BY <2>1, <2>2, <1>1, <1>2, BufferBytes
  <2>4. end = stop /\ shadow' = b3
    BY <1>8 DEF right
  <2> HIDE DEF b3, end, stop
  <2> QED BY <2>3, <2>4
<1>11. InChunk(data)'
  <2>1. buffer \in BufferType
    BY <1>1, <1>2 DEF BufferType
  <2> QED BY <2>1, <1>1, <1>2, <1>8, <1>9 DEF InChunk
<1>12. BytesRight(data)'
  <2>1. allocations'[data].freed = FALSE /\ allocations'[data].len = len
    BY <1>9
  <2>2. ASSUME NEW b \in data - RedZone .. data + len + RedZone - 1
        PROVE  BytePoisoned(shadow', b) <=> ~(data <= b /\ b < data + len)
    <3>1. b \in 0 .. MemSize - 1 /\ orig <= b /\ b < stop
      BY <1>1, <1>2, <1>3
    <3> QED BY <3>1, <1>1, <1>2, <1>10
  <2> QED BY <2>1, <2>2 DEF BytesRight
<1>13. ASSUME NEW p \in DOMAIN allocations PROVE InChunk(p)'
  <2>1. InChunk(p) /\ allocations'[p] = allocations[p]
    BY <1>9 DEF HeapInv
  <2> QED BY <2>1, <1>8 DEF InChunk
<1>14. ASSUME NEW p \in DOMAIN allocations PROVE BytesRight(p)'
  <2> DEFINE a == allocations[p]
             c == a.chunk
  <2>1. InChunk(p) /\ BytesRight(p) /\ allocations'[p] = a
    BY <1>9 DEF HeapInv
  <2>2. /\ p \in Nat /\ a.len \in Nat \ {0} /\ a.freed \in BOOLEAN
        /\ c.addr \in Nat /\ c.len \in Nat \ {0}
        /\ c.addr + RedZone <= p /\ p + a.len + RedZone <= c.addr + c.len
        /\ c.addr + c.len <= MemSize
    BY <2>1, InChunkNumbers
  <2>3. c.addr + c.len <= orig \/ orig + clen <= c.addr
    BY <1>4
  <2>4. ASSUME NEW b \in c.addr .. c.addr + c.len - 1
        PROVE  /\ b \in 0 .. MemSize - 1
               /\ \/ BytePoisoned(shadow', b) /\ b < orig + clen + RedZone /\ orig + clen <= c.addr
                  \/ BytePoisoned(shadow', b) <=> BytePoisoned(shadow, b)
    <3>1. b \in 0 .. MemSize - 1
      BY <2>2, <1>3
    <3>2. CASE b < orig \/ stop <= b
      BY <3>1, <3>2, <1>10
    <3>3. CASE ~(b < orig \/ stop <= b)
      <4>1. orig + clen <= c.addr /\ data + len <= b /\ b < stop
        BY <3>1, <3>3, <2>2, <2>3, <1>1, <1>2, <1>3
      <4>2. BytePoisoned(shadow', b)
        BY <4>1, <3>1, <1>10
      <4> QED BY <3>1, <4>1, <4>2, <1>1, <1>2, <1>3
    <3> QED BY <3>2, <3>3
  <2>5. CASE a.freed
    BY <2>1, <2>4, <2>5 DEF BytesRight
  <2>6. CASE ~a.freed
    <3>1. ASSUME NEW b \in p - RedZone .. p + a.len + RedZone - 1
          PROVE  BytePoisoned(shadow', b) <=> ~(p <= b /\ b < p + a.len)
      <4>1. b \in c.addr .. c.addr + c.len - 1
        BY <2>2, <1>3
      <4>2. BytePoisoned(shadow, b) <=> ~(p <= b /\ b < p + a.len)
        BY <2>1, <2>6 DEF BytesRight
      <4>3. CASE BytePoisoned(shadow', b) /\ b < orig + clen + RedZone /\ orig + clen <= c.addr
        BY <4>1, <4>3, <2>2, <1>1, <1>2, <1>3
      <4> QED BY <4>1, <4>2, <4>3, <2>4
    <3> QED BY <3>1, <2>1, <2>6 DEF BytesRight
  <2> QED BY <2>2, <2>5, <2>6
<1>15. Apart'
  <2>1. ASSUME NEW p \in DOMAIN allocations
        PROVE  /\ ~Overlap(allocations[p].chunk, chunk)
               /\ ~Overlap(chunk, allocations[p].chunk)
    <3>1. InChunk(p)
      BY DEF HeapInv
    <3> QED BY <3>1, <1>1, <1>2, <1>4, InChunkNumbers DEF Overlap
  <2>2. Apart
    BY DEF HeapInv
  <2> QED BY <2>1, <2>2, <1>9 DEF Apart
<1>16. tracked' = LiveRanges'
  <2>1. Live' = Live \cup {data}
    BY <1>9 DEF Live
  <2>2. \A p \in Live : allocations'[p].len = allocations[p].len
    BY <1>9 DEF Live
  <2>3. tracked = {[start |-> p, len |-> allocations[p].len] : p \in Live}
    BY DEF HeapInv, LiveRanges
  <2>4. LiveRanges' = {[start |-> p, len |-> allocations'[p].len] : p \in Live'}
    BY DEF LiveRanges
  <2>5. allocations'[data].len = len
    BY <1>9
  <2>6. {[start |-> p, len |-> allocations'[p].len] : p \in Live'} =
            {[start |-> p, len |-> allocations[p].len] : p \in Live}
                \cup {[start |-> data, len |-> len]}
    BY <2>1, <2>2, <2>5
  <2> QED BY <2>3, <2>4, <2>6, <1>8
<1>17. Waiting'
  <2>1. quarantine \in Seq(DOMAIN allocations) /\ Range(quarantine) \subseteq DOMAIN allocations
    BY DEF HeapInv, Waiting, Range
  <2>2. quarantine \in Seq(DOMAIN allocations \cup {data})
    BY <2>1
  <2> QED BY <2>1, <2>2, <1>5, <1>8, <1>9 DEF HeapInv, Waiting
<1>18. GivenBack'
  <2> SUFFICES ASSUME NEW b \in given_back'
               PROVE  b \in 0 .. MemSize - 1 /\ BytePoisoned(shadow', b)
    BY DEF GivenBack
  <2>1. b \in 0 .. MemSize - 1 /\ BytePoisoned(shadow, b) /\ b \notin Bytes(chunk)
    BY <1>8 DEF HeapInv, GivenBack
  <2>2. b < orig \/ orig + clen <= b
    BY <2>1, <1>1, <1>2, <1>3 DEF Bytes
  <2>3. CASE b < orig \/ stop <= b
    BY <2>1, <2>3, <1>10
  <2>4. CASE ~(b < orig \/ stop <= b)
    <3>1. data + len <= b /\ b < stop
      BY <2>1, <2>2, <2>4, <1>1, <1>2, <1>3
    <3> QED BY <3>1, <2>1, <1>10
  <2> QED BY <2>1, <2>3, <2>4
<1> QED BY <1>18, <1>8, <1>9, <1>10, <1>11, <1>12, <1>13, <1>14, <1>15, <1>16, <1>17 DEF HeapInv

\* alloc takes one chunk for one buffer and leaves the quarantine alone.
LEMMA AllocRecords ==
    ASSUME WideEnough, RecordsInv, NEW len \in Lens, NEW align \in Aligns, Alloc(len, align)
    PROVE  Counted' /\ ChunksInUse'
<1>1. PICK orig \in Addresses :
        LET chunk == [addr |-> orig, len |-> ChunkLen(len, align)]
            data == DataAddress(orig, align)
        IN  /\ BackendCanAlloc(chunk)
            /\ chunks' = chunks \cup {chunk}
            /\ allocations' =
                   [p \in DOMAIN allocations \cup {data} |->
                       IF p = data
                         THEN [len |-> len, chunk |-> chunk, freed |-> FALSE]
                         ELSE allocations[p]]
            /\ UNCHANGED <<quarantine, quarantine_used>>
  BY DEF Alloc
<1> DEFINE data == DataAddress(orig, align)
           chunk == [addr |-> orig, len |-> ChunkLen(len, align)]
<1>2. HeapInv /\ Counted /\ ChunksInUse
  BY DEF RecordsInv
<1>3. data \notin DOMAIN allocations
  BY <1>1, <1>2, DataIsNew
<1> HIDE DEF data, chunk
<1>4. /\ DOMAIN allocations' = DOMAIN allocations \cup {data}
      /\ allocations'[data].chunk = chunk
      /\ \A p \in DOMAIN allocations : allocations'[p] = allocations[p]
      /\ chunks' = chunks \cup {chunk}
      /\ quarantine' = quarantine /\ quarantine_used' = quarantine_used
  BY <1>1, <1>3 DEF data, chunk
<1>5. ChunkLens(quarantine)' = ChunkLens(quarantine)
  <2>1. \A i \in DOMAIN quarantine : quarantine[i] \in DOMAIN allocations
    BY <1>2 DEF HeapInv, Waiting
  <2>2. ChunkLensOf(quarantine)' = ChunkLensOf(quarantine)
    BY <1>4, <2>1 DEF ChunkLensOf
  <2> QED BY <2>2 DEF ChunkLens, TotalOf
<1>6. Counted'
  BY <1>2, <1>4, <1>5 DEF Counted
<1>7. ChunksInUse'
  BY <1>2, <1>4 DEF ChunksInUse
<1> QED BY <1>6, <1>7

-----------------------------------------------------------------------------
(* dealloc                                                                 *)

(* A byte of a chunk is a byte of memory, and a byte of a buffer or of its
   red zones is a byte of the chunk the buffer is cut from. *)
LEMMA ByteOfChunk ==
    ASSUME NEW ca \in Nat, NEW cl \in Nat, NEW m \in Nat, ca + cl <= m,
           NEW b \in ca .. ca + cl - 1
    PROVE  b \in 0 .. m - 1 /\ ca <= b /\ b < ca + cl
OBVIOUS

LEMMA ByteOfBuffer ==
    ASSUME NEW ca \in Nat, NEW cl \in Nat, NEW m \in Nat, ca + cl <= m,
           NEW q \in Nat, NEW l \in Nat, NEW z \in Nat,
           ca + z <= q, q + l + z <= ca + cl,
           NEW b \in q - z .. q + l + z - 1
    PROVE  b \in 0 .. m - 1 /\ ca <= b /\ b < ca + cl
<1>1. b \in Int /\ q - z <= b /\ b < q + l + z
  OBVIOUS
<1>2. ca <= b /\ b < ca + cl
  BY <1>1
<1> QED BY <1>1, <1>2

LEMMA DeallocKeeps ==
    ASSUME HeapInv, Counted, NEW p \in DOMAIN allocations, Dealloc(p)
    PROVE  HeapInv'
<1> DEFINE chunk == allocations[p].chunk
           freed == [allocations EXCEPT ![p].freed = TRUE]
           waiting == Append(quarantine, p)
           used == quarantine_used + chunk.len
<1>1. InChunk(p) /\ BytesRight(p) /\ ~allocations[p].freed /\ p \in Live
  BY DEF Dealloc, HeapInv, Live
<1>2. /\ p \in Nat /\ allocations[p].len \in Nat \ {0}
      /\ chunk.addr \in Nat /\ chunk.len \in Nat \ {0}
      /\ chunk.addr + RedZone <= p /\ p + allocations[p].len + RedZone <= chunk.addr + chunk.len
      /\ chunk.addr + chunk.len <= MemSize /\ RedZone \in Nat /\ MemSize \in Nat
  BY <1>1, InChunkNumbers
<1>3. ASSUME NEW t \in tracked
      PROVE  Holds(t, p) <=> t = [start |-> p, len |-> allocations[p].len]
  <2>1. PICK q \in Live : t = [start |-> q, len |-> allocations[q].len]
    BY DEF HeapInv, LiveRanges
  <2>2. q \in DOMAIN allocations /\ InChunk(q)
    BY DEF Live, HeapInv
  <2>3. /\ q \in Nat /\ allocations[q].len \in Nat \ {0}
        /\ allocations[q].chunk.addr \in Nat /\ allocations[q].chunk.len \in Nat \ {0}
        /\ allocations[q].chunk.addr + RedZone <= q
        /\ q + allocations[q].len + RedZone
               <= allocations[q].chunk.addr + allocations[q].chunk.len
    BY <2>2, InChunkNumbers
  <2>4. CASE q = p
    BY <2>1, <2>3, <2>4 DEF Holds
  <2>5. CASE q # p
    <3>1. ~Overlap(allocations[q].chunk, chunk)
      BY <2>2, <2>5 DEF HeapInv, Apart
    <3>2. ~(q <= p /\ p < q + allocations[q].len)
      BY <3>1, <2>3, <1>2 DEF Overlap
    <3>3. ~Holds(t, p)
      BY <3>2, <2>1, <2>3, <1>2 DEF Holds
    <3>4. t # [start |-> p, len |-> allocations[p].len]
      BY <2>1, <2>5
    <3> QED BY <3>3, <3>4
  <2> QED BY <2>4, <2>5
<1>4. [start |-> p, len |-> allocations[p].len] \in tracked
  BY <1>1 DEF HeapInv, LiveRanges
<1>5. PICK n \in 0 .. Len(waiting) :
         LET gone == SubSeq(waiting, 1, n)
             returned == {freed[q].chunk : q \in Range(gone)}
         IN  /\ Purges(used, waiting, n)
             /\ tracked' = {t \in tracked : ~Holds(t, p)}
             /\ quarantine' = SubSeq(waiting, n + 1, Len(waiting))
             /\ quarantine_used' = UsedWithout(used, waiting, n)
             /\ failed' = (quarantine_used' > QuarantineSize)
             /\ allocations' = Restrict(freed, DOMAIN freed \ Range(gone))
             /\ chunks' = chunks \ returned
             /\ given_back' = given_back \cup UNION {Bytes(c) : c \in returned}
  BY <1>3, <1>4 DEF Dealloc
<1>6. ~failed' /\ shadow' = Poison(shadow, chunk.addr, chunk.len)
  <2>1. Left(waiting, n) <= QuarantineSize /\ UsedWithout(used, waiting, n) = Left(waiting, n)
    BY <1>1, <1>5, CounterIsRight
  <2>2. Left(waiting, n) \in Nat /\ QuarantineSize \in Nat
    BY <1>1, <1>5, CounterIsRight, QuarantineAssumption
  <2>3. ~failed'
    <3> HIDE DEF waiting, used
    <3>1. quarantine_used' = Left(waiting, n)
      BY <1>5, <2>1
    <3>2. ~(quarantine_used' > QuarantineSize)
      BY <2>1, <2>2, <3>1
    <3>3. failed' = (quarantine_used' > QuarantineSize)
      BY <1>5
    <3> QED BY <3>2, <3>3, Zenon
  <2> QED BY <2>3 DEF Dealloc
<1> DEFINE gone == SubSeq(waiting, 1, n)
           rest == SubSeq(waiting, n + 1, Len(waiting))
<1>7. /\ DOMAIN freed = DOMAIN allocations
      /\ \A q \in DOMAIN allocations :
             /\ freed[q].chunk = allocations[q].chunk /\ freed[q].len = allocations[q].len
             /\ freed[q].freed \in BOOLEAN
             /\ freed[q].freed <=> allocations[q].freed \/ q = p
             /\ freed[q] \in BufferType
  <2>1. \A q \in DOMAIN allocations : allocations[q] \in BufferType
    BY DEF HeapInv, InChunk
  <2>2. DOMAIN freed = DOMAIN allocations
    OBVIOUS
  <2>3. \A q \in DOMAIN allocations : q # p => freed[q] = allocations[q]
    OBVIOUS
  <2>4. freed[p] = [allocations[p] EXCEPT !.freed = TRUE]
    OBVIOUS
  <2> HIDE DEF freed
  <2>5. /\ freed[p].chunk = allocations[p].chunk /\ freed[p].len = allocations[p].len
        /\ freed[p].freed = TRUE /\ freed[p] \in BufferType
    BY <2>1, <2>4 DEF BufferType
  <2> QED BY <2>1, <2>2, <2>3, <2>5 DEF BufferType
<1>8. /\ quarantine \in Seq(DOMAIN allocations) /\ IsInjective(quarantine)
      /\ p \notin Range(quarantine)
  BY <1>1 DEF HeapInv, Waiting
<1>9. /\ waiting \in Seq(DOMAIN allocations) /\ IsInjective(waiting)
      /\ \A x : x \in Range(waiting) <=> x \in Range(quarantine) \/ x = p
  BY <1>8, Joins
<1> HIDE DEF waiting, freed
<1>10. /\ rest \in Seq(DOMAIN allocations \ Range(gone)) /\ IsInjective(rest)
       /\ \A x : x \in Range(waiting) <=> x \in Range(gone) \/ x \in Range(rest)
       /\ \A x \in Range(gone) : x \notin Range(rest)
  BY <1>9, Parts
<1>11. /\ quarantine' = rest
       /\ DOMAIN allocations' = DOMAIN allocations \ Range(gone)
       /\ \A q \in DOMAIN allocations' : allocations'[q] = freed[q]
  BY <1>5, <1>7 DEF Restrict
<1> HIDE DEF gone, rest
<1>12. Apart'
  BY <1>7, <1>11 DEF HeapInv, Apart
<1>13. ASSUME NEW q \in DOMAIN allocations' PROVE InChunk(q)'
  <2>1. q \in DOMAIN allocations /\ InChunk(q) /\ q \notin Range(gone) /\ allocations'[q] = freed[q]
    BY <1>11 DEF HeapInv
  <2>2. allocations[q].chunk \in chunks'
    <3> SUFFICES ASSUME NEW x \in Range(gone), freed[x].chunk = allocations[q].chunk
                 PROVE  FALSE
      BY <1>5, <2>1 DEF InChunk, gone
    <3>1. x \in DOMAIN allocations
      <4>1. x \in Range(waiting)
        BY <1>10
      <4> QED BY <4>1, <1>9 DEF Range
    <3>2. x # q /\ allocations[x].chunk = allocations[q].chunk
      BY <2>1, <3>1, <1>7
    <3>3. ~Overlap(allocations[x].chunk, allocations[q].chunk)
      BY <2>1, <3>1, <3>2 DEF HeapInv, Apart
    <3> QED BY <2>1, <3>2, <3>3, InChunkNumbers DEF Overlap
  <2> QED BY <2>1, <2>2, <1>7 DEF InChunk
<1>14. /\ shadow' \in ShadowType
       /\ \A b \in 0 .. MemSize - 1 :
              BytePoisoned(shadow', b) <=>
                  (chunk.addr <= b /\ b < chunk.addr + chunk.len) \/ BytePoisoned(shadow, b)
  <2>1. shadow \in ShadowType /\ EndAligned(chunk.addr, chunk.len)
    BY <1>1 DEF HeapInv, InChunk, EndAligned, StartAligned
  <2>2. \A b \in 0 .. MemSize - 1 :
            b < chunk.addr /\ b \div Granule = chunk.addr \div Granule => ~BytePoisoned(shadow, b)
    <3> SUFFICES ASSUME NEW b \in 0 .. MemSize - 1, b < chunk.addr,
                        b \div Granule = chunk.addr \div Granule
                 PROVE  FALSE
      OBVIOUS
    <3>1. StartAligned(chunk.addr)
      BY <1>1 DEF InChunk
    <3>2. PICK k \in Nat : chunk.addr = k * Granule
      BY <1>2, <3>1, AlignedIsMultiple
    <3>3. b \in Nat
      BY <1>2
    <3>4. b \div Granule < k
      BY <3>2, <3>3, SideOfMultiple
    <3>5. ~(chunk.addr < k * Granule)
      BY <3>2, <1>2
    <3>6. ~(chunk.addr \div Granule < k)
      BY <3>5, <1>2, SideOfMultiple
    <3> QED BY <3>4, <3>6
  <2> QED BY <2>1, <2>2, <1>2, <1>6, PoisonBytes
<1>15. ASSUME NEW q \in DOMAIN allocations' PROVE BytesRight(q)'
  <2> DEFINE a == allocations[q]
             c == a.chunk
  <2>1. /\ q \in DOMAIN allocations /\ InChunk(q) /\ BytesRight(q)
        /\ allocations'[q].chunk = c /\ allocations'[q].len = a.len
        /\ allocations'[q].freed \in BOOLEAN /\ a.freed \in BOOLEAN
        /\ allocations'[q].freed <=> a.freed \/ q = p
    BY <1>7, <1>11 DEF HeapInv, InChunk, BufferType
  <2>2. /\ q \in Nat /\ a.len \in Nat \ {0}
        /\ c.addr \in Nat /\ c.len \in Nat \ {0}
        /\ c.addr + RedZone <= q /\ q + a.len + RedZone <= c.addr + c.len
        /\ c.addr + c.len <= MemSize
    BY <2>1, InChunkNumbers
  <2>3. q # p => ~Overlap(c, chunk)
    BY <2>1 DEF HeapInv, Apart
  <2>4. RedZone \in Nat /\ MemSize \in Nat
    BY <1>2
  <2>5. CASE q = p
    <3>1. ASSUME NEW b \in c.addr .. c.addr + c.len - 1
          PROVE  BytePoisoned(shadow', b)
      <4>1. b \in 0 .. MemSize - 1 /\ c.addr <= b /\ b < c.addr + c.len
        <5> HIDE DEF c, a
        <5> QED BY <2>2, <2>4, ByteOfChunk
      <4>2. c = chunk
        BY <2>5
      <4> HIDE DEF c, chunk
      <4> QED BY <4>1, <4>2, <1>14
    <3> QED BY <2>1, <2>5, <3>1 DEF BytesRight
  <2>6. CASE q # p /\ a.freed
    <3>1. ASSUME NEW b \in c.addr .. c.addr + c.len - 1
          PROVE  BytePoisoned(shadow', b)
      <4>1. b \in 0 .. MemSize - 1
        <5> HIDE DEF c, a
        <5> QED BY <2>2, <2>4, ByteOfChunk
      <4>2. BytePoisoned(shadow, b)
        BY <2>1, <2>6 DEF BytesRight
      <4> QED BY <4>1, <4>2, <1>14
    <3> QED BY <2>1, <2>6, <3>1 DEF BytesRight
  <2>7. CASE q # p /\ ~a.freed
    <3>1. ASSUME NEW b \in q - RedZone .. q + a.len + RedZone - 1
          PROVE  BytePoisoned(shadow', b) <=> ~(q <= b /\ b < q + a.len)
      <4>1. b \in 0 .. MemSize - 1 /\ c.addr <= b /\ b < c.addr + c.len
        <5> HIDE DEF c, a
        <5> QED BY <2>2, <2>4, ByteOfBuffer
      <4>2. ~(chunk.addr <= b /\ b < chunk.addr + chunk.len)
        <5>1. ~(c.addr < chunk.addr + chunk.len /\ chunk.addr < c.addr + c.len)
          BY <2>3, <2>7 DEF Overlap
        <5>2. b \in Nat /\ chunk.addr \in Nat /\ chunk.len \in Nat
          BY <4>1, <1>2
        <5> HIDE DEF c, a, chunk
        <5> QED BY <4>1, <5>1, <5>2, <2>2, SMTT(60)
      <4>3. BytePoisoned(shadow, b) <=> ~(q <= b /\ b < q + a.len)
        BY <2>1, <2>7 DEF BytesRight
      <4> QED BY <4>1, <4>2, <4>3, <1>14
    <3>2. ~allocations'[q].freed
      BY <2>1, <2>7
    <3> QED BY <2>1, <3>1, <3>2 DEF BytesRight
  <2> QED BY <2>1, <2>5, <2>6, <2>7
<1>16. Waiting'
  <2>1. quarantine' \in Seq(DOMAIN allocations') /\ IsInjective(quarantine')
    BY <1>10, <1>11
  <2>2. ASSUME NEW q \in DOMAIN allocations'
        PROVE  q \in Range(quarantine') <=> allocations'[q].freed
    <3>1. /\ q \in DOMAIN allocations /\ q \notin Range(gone)
          /\ allocations'[q].freed <=> allocations[q].freed \/ q = p
      BY <1>7, <1>11
    <3>2. q \in Range(quarantine) <=> allocations[q].freed
      BY <3>1 DEF HeapInv, Waiting
    <3> QED BY <3>1, <3>2, <1>9, <1>10, <1>11
  <2> QED BY <2>1, <2>2 DEF Waiting
<1>17. tracked' = LiveRanges'
  <2>1. \A q : q \in Live' <=> q \in Live /\ q # p
    <3> TAKE q
    <3>1. CASE q \in Live /\ q # p
      <4>1. q \in DOMAIN allocations /\ ~allocations[q].freed
        BY <3>1 DEF Live
      <4>2. q \notin Range(quarantine)
        BY <4>1 DEF HeapInv, Waiting
      <4>3. q \notin Range(gone)
        BY <4>2, <3>1, <1>9, <1>10
      <4> QED BY <4>1, <4>3, <3>1, <1>7, <1>11 DEF Live
    <3>2. CASE q \in Live'
      BY <3>2, <1>7, <1>11 DEF Live
    <3> QED BY <3>1, <3>2
  <2>2. \A q \in Live' : allocations'[q].len = allocations[q].len
    BY <1>7, <1>11 DEF Live
  <2>3. \A t : t \in tracked' <=> t \in tracked /\ t # [start |-> p, len |-> allocations[p].len]
    BY <1>3, <1>5
  <2>4. \A t : t \in tracked <=> \E q \in Live : t = [start |-> q, len |-> allocations[q].len]
    BY DEF HeapInv, LiveRanges
  <2>5. \A t : t \in LiveRanges' <=> \E q \in Live' : t = [start |-> q, len |-> allocations[q].len]
    BY <2>2 DEF LiveRanges
  <2>6. \A q : [start |-> q, len |-> allocations[q].len] = [start |-> p, len |-> allocations[p].len]
                 <=> q = p
    OBVIOUS
  <2>7. \A t : t \in tracked' <=> t \in LiveRanges'
    BY <2>1, <2>3, <2>4, <2>5, <2>6
  <2> QED BY <2>7
<1>18. GivenBack'
  <2> SUFFICES ASSUME NEW b \in given_back'
               PROVE  b \in 0 .. MemSize - 1 /\ BytePoisoned(shadow', b)
    BY DEF GivenBack
  <2>1. CASE b \in given_back
    BY <2>1, <1>14 DEF HeapInv, GivenBack
  <2>2. CASE b \notin given_back
    <3>1. PICK q \in Range(gone) : b \in Bytes(freed[q].chunk)
      BY <1>5, <2>2 DEF gone
    <3>2. q \in DOMAIN allocations /\ (q \in Range(quarantine) \/ q = p)
      <4>1. q \in Range(waiting)
        BY <1>10
      <4>2. \A x \in Range(waiting) : x \in DOMAIN allocations
        BY <1>9 DEF Range
      <4> QED BY <4>1, <4>2, <1>9
    <3> DEFINE c == allocations[q].chunk
    <3>3. b \in Bytes(c) /\ InChunk(q) /\ BytesRight(q)
      BY <3>1, <3>2, <1>7 DEF HeapInv
    <3>4. c.addr \in Nat /\ c.len \in Nat \ {0} /\ c.addr + c.len <= MemSize
      BY <3>3, InChunkNumbers
    <3>5. b \in 0 .. MemSize - 1 /\ c.addr <= b /\ b < c.addr + c.len
      <4> HIDE DEF c
      <4> QED BY <3>3, <3>4, <1>2, ByteOfChunk DEF Bytes
    <3>6. CASE q = p
      BY <3>5, <3>6, <1>14
    <3>7. CASE q # p
      <4>1. allocations[q].freed
        BY <3>2, <3>7 DEF HeapInv, Waiting
      <4>2. BytePoisoned(shadow, b)
        BY <4>1, <3>3 DEF BytesRight, Bytes
      <4> QED BY <4>2, <3>5, <1>14
    <3> QED BY <3>6, <3>7
  <2> QED BY <2>1, <2>2
<1> QED BY <1>18, <1>6, <1>12, <1>13, <1>14, <1>15, <1>16, <1>17 DEF HeapInv

\* No two buffers share a chunk.
LEMMA ChunksDiffer ==
    ASSUME HeapInv
    PROVE  \A q, x \in DOMAIN allocations : q # x => allocations[q].chunk # allocations[x].chunk
<1> SUFFICES ASSUME NEW q \in DOMAIN allocations, NEW x \in DOMAIN allocations, q # x,
                    allocations[q].chunk = allocations[x].chunk
             PROVE  FALSE
  OBVIOUS
<1>1. ~Overlap(allocations[q].chunk, allocations[x].chunk) /\ InChunk(q)
  BY DEF HeapInv, Apart
<1> QED BY <1>1, InChunkNumbers DEF Overlap

\* One buffer is freed by a call of dealloc; those the quarantine lets go were free.
LEMMA OneIsFreed ==
    ASSUME HeapInv, NEW p \in DOMAIN allocations, Dealloc(p), ~failed'
    PROVE  /\ p \in Live /\ p \notin Live'
           /\ \A q \in Live : q # p => q \in Live'
<1> DEFINE freed == [allocations EXCEPT ![p].freed = TRUE]
           waiting == Append(quarantine, p)
<1>1. PICK n \in 0 .. Len(waiting) :
         allocations' = Restrict(freed, DOMAIN freed \ Range(SubSeq(waiting, 1, n)))
  BY DEF Dealloc
<1>2. /\ \A q \in DOMAIN allocations : allocations[q] \in BufferType
      /\ quarantine \in Seq(DOMAIN allocations) /\ IsInjective(quarantine)
      /\ \A q \in DOMAIN allocations : q \in Range(quarantine) <=> allocations[q].freed
      /\ p \in Live /\ ~allocations[p].freed
  BY DEF HeapInv, InChunk, Waiting, Dealloc, Live
<1>3. /\ IsInjective(waiting) /\ waiting \in Seq(DOMAIN allocations)
      /\ \A x : x \in Range(waiting) <=> x \in Range(quarantine) \/ x = p
  BY <1>2, Joins
<1>4. \A x \in Range(SubSeq(waiting, 1, n)) : x \in Range(quarantine) \/ x = p
  <2> HIDE DEF waiting
  <2> QED BY <1>3, Parts
<1>5. ASSUME NEW q \in Live, q # p PROVE q \in Live'
  <2>1. q \in DOMAIN allocations /\ ~allocations[q].freed /\ q \notin Range(quarantine)
    BY <1>2 DEF Live
  <2>2. q \in DOMAIN allocations' /\ allocations'[q] = allocations[q]
    BY <1>1, <1>4, <1>5, <2>1 DEF Restrict
  <2> QED BY <2>1, <2>2 DEF Live
<1>6. p \notin Live'
  <2>1. p \in DOMAIN allocations' => allocations'[p] = freed[p]
    BY <1>1 DEF Restrict
  <2>2. freed[p].freed
    BY <1>2 DEF BufferType
  <2> QED BY <2>1, <2>2 DEF Live
<1> QED BY <1>2, <1>5, <1>6

\* dealloc adds the chunk of the freed buffer and takes away, from the counter, from the
\* quarantine and from what is out of the backend, the chunks of those it lets go.
LEMMA DeallocRecords ==
    ASSUME RecordsInv, HeapInv', NEW p \in DOMAIN allocations, Dealloc(p)
    PROVE  Counted' /\ ChunksInUse'
<1> DEFINE chunk == allocations[p].chunk
           freed == [allocations EXCEPT ![p].freed = TRUE]
           waiting == Append(quarantine, p)
           used == quarantine_used + chunk.len
<1>1. HeapInv /\ Counted /\ ChunksInUse /\ ~failed' /\ ~allocations[p].freed
  BY DEF RecordsInv, HeapInv, Dealloc
<1>2. PICK n \in 0 .. Len(waiting) :
         LET gone == SubSeq(waiting, 1, n)
         IN  /\ Purges(used, waiting, n)
             /\ quarantine' = SubSeq(waiting, n + 1, Len(waiting))
             /\ quarantine_used' = UsedWithout(used, waiting, n)
             /\ allocations' = Restrict(freed, DOMAIN freed \ Range(gone))
             /\ chunks' = chunks \ {freed[q].chunk : q \in Range(gone)}
  BY <1>1 DEF Dealloc
<1> DEFINE gone == SubSeq(waiting, 1, n)
           rest == SubSeq(waiting, n + 1, Len(waiting))
<1>3. /\ quarantine \in Seq(DOMAIN allocations) /\ IsInjective(quarantine)
      /\ p \notin Range(quarantine)
  BY <1>1 DEF HeapInv, Waiting
<1>4. waiting \in Seq(DOMAIN allocations) /\ IsInjective(waiting)
  BY <1>3, Joins
<1>5. /\ DOMAIN freed = DOMAIN allocations
      /\ \A q \in DOMAIN allocations : freed[q].chunk = allocations[q].chunk
  <2>1. \A q \in DOMAIN allocations : allocations[q] \in BufferType
    BY <1>1 DEF HeapInv, InChunk
  <2> QED BY <2>1 DEF BufferType
<1>10. quarantine_used' = ChunkLens(rest) /\ ChunkLens(rest) <= QuarantineSize
  <2>1. p \in Live
    BY <1>1 DEF Live
  <2>2. UsedWithout(used, waiting, n) = Left(waiting, n) /\ Left(waiting, n) <= QuarantineSize
    BY <1>1, <1>2, <2>1, CounterIsRight
  <2>3. Left(waiting, n) = ChunkLens(rest)
    BY DEF Left
  <2> QED BY <1>2, <2>2, <2>3
<1> HIDE DEF freed, waiting
<1>6. rest \in Seq(DOMAIN allocations \ Range(gone)) /\ Range(gone) \subseteq Range(waiting)
  BY <1>4, Parts
<1>7. /\ DOMAIN allocations' = DOMAIN allocations \ Range(gone)
      /\ \A q \in DOMAIN allocations' : allocations'[q].chunk = allocations[q].chunk
  BY <1>2, <1>5 DEF Restrict
<1>8. Range(gone) \subseteq DOMAIN allocations
  <2>1. Range(waiting) \subseteq DOMAIN allocations
    BY <1>4 DEF Range
  <2> QED BY <2>1, <1>6
<1>9. ChunkLens(quarantine)' = ChunkLens(rest)
  <2>1. rest \in Seq(DOMAIN allocations') /\ rest = quarantine'
    BY <1>2, <1>6, <1>7
  <2>2. \A q \in DOMAIN allocations' :
            q \in DOMAIN allocations /\ allocations'[q].chunk = allocations[q].chunk
    BY <1>7
  <2> HIDE DEF rest
  <2> QED BY <2>1, <2>2, LensStay
<1>13. Counted'
  BY <1>9, <1>10 DEF Counted
<1>14. ChunksInUse'
  <2> HIDE DEF gone, rest
  <2>0. chunks = {allocations[q].chunk : q \in DOMAIN allocations}
    BY <1>1 DEF ChunksInUse
  <2>1. chunks' = chunks \ {allocations[q].chunk : q \in Range(gone)}
    BY <1>2, <1>5, <1>8 DEF gone
  <2>2. \A q, x \in DOMAIN allocations : q # x => allocations[q].chunk # allocations[x].chunk
    BY <1>1, ChunksDiffer
  <2>3. \A c : c \in chunks' <=> \E q \in DOMAIN allocations' : c = allocations[q].chunk
    BY <2>0, <2>1, <2>2, <1>7, <1>8
  <2>4. \A c : c \in chunks' <=> \E q \in DOMAIN allocations' : c = allocations'[q].chunk
    BY <2>3, <1>7
  <2> QED BY <2>4 DEF ChunksInUse
<1> QED BY <1>13, <1>14

-----------------------------------------------------------------------------
(* The invariant holds.                                                    *)

LEMMA HeapStep ==
    ASSUME WideEnough, HeapInv, Counted, [Next]_vars
    PROVE  HeapInv'
<1>1. CASE UNCHANGED vars
  BY <1>1 DEF vars, HeapInv, InChunk, BytesRight, Apart, Waiting, LiveRanges, Live, GivenBack
<1> QED BY <1>1, AllocKeeps, DeallocKeeps DEF Next

\* After any series of calls the records agree.
LEMMA RecordsInvariant ==
    ASSUME WideEnough
    PROVE  Spec => []RecordsInv
<1>1. RecordsInv /\ [Next]_vars => RecordsInv'
  <2> SUFFICES ASSUME RecordsInv, [Next]_vars PROVE RecordsInv'
    OBVIOUS
  <2>1. HeapInv /\ HeapInv'
    BY HeapStep DEF RecordsInv
  <2>2. CASE UNCHANGED vars
    <3>1. ChunkLens(quarantine)' = ChunkLens(quarantine)
      BY <2>2 DEF vars, ChunkLens, ChunkLensOf, TotalOf
    <3>2. Counted' /\ ChunksInUse'
      BY <2>2, <3>1 DEF vars, RecordsInv, Counted, ChunksInUse
    <3> QED BY <2>1, <2>2, <3>2 DEF RecordsInv, vars
  <2>3. ASSUME NEW len \in Lens, NEW align \in Aligns, Alloc(len, align) PROVE RecordsInv'
    <3>1. failed' \in BOOLEAN
      BY <2>3 DEF Alloc
    <3> QED BY <2>1, <2>3, <3>1, AllocRecords DEF RecordsInv
  <2>4. ASSUME NEW p \in DOMAIN allocations, Dealloc(p) PROVE RecordsInv'
    <3>1. failed' \in BOOLEAN
      <4>1. failed' = TRUE \/ failed' = (quarantine_used' > QuarantineSize)
        BY <2>4, Zenon DEF Dealloc
      <4>2. (quarantine_used' > QuarantineSize) \in BOOLEAN
        OBVIOUS
      <4> QED BY <4>1, <4>2
    <3> QED BY <2>1, <2>4, <3>1, DeallocRecords DEF RecordsInv
  <2> QED BY <2>2, <2>3, <2>4 DEF Next
<1> QED BY <1>1, RecordsInitially, PTL DEF Spec

\* From the first allocation to the last free, the heap keeps its invariant.
LEMMA HeapInvariant ==
    ASSUME WideEnough
    PROVE  Spec => []HeapInv
<1>1. RecordsInv => HeapInv
  BY DEF RecordsInv
<1> QED BY <1>1, RecordsInvariant, PTL

-----------------------------------------------------------------------------
(* The theorems.                                                           *)

\* Whatever was allocated and freed before, in whatever piece of memory the backend
\* answers with, alloc and dealloc are refused neither by the shadow nor by the tracking.
THEOREM LegalCallsAreServed ==
    ASSUME WideEnough
    PROVE  Spec => []LegalCallsSucceed
<1>1. HeapInv => LegalCallsSucceed
  <2> SUFFICES ASSUME HeapInv PROVE LegalCallsSucceed
    OBVIOUS
  <2>1. \A p \in Live : InChunk(p)
    BY DEF HeapInv, Live
  <2>2. ASSUME NEW p \in Live
        PROVE  /\ allocations[p].chunk.addr + RedZone <= p
               /\ p + allocations[p].len <= allocations[p].chunk.addr + allocations[p].chunk.len
    BY <2>1, InChunkNumbers
  <2> QED BY <2>2 DEF HeapInv, LegalCallsSucceed
<1> QED BY <1>1, HeapInvariant, PTL

\* is_poison tells, for every access that starts in a live buffer or in one of its red
\* zones, whether it leaves the buffer, whatever happens to the buffers next to it.
THEOREM BoundsAreEnforced ==
    ASSUME WideEnough
    PROVE  Spec => []BoundsEnforced
<1>1. HeapInv => BoundsEnforced
  <2> SUFFICES ASSUME HeapInv, NEW p \in Live,
                      NEW a \in p - RedZone .. p + allocations[p].len + RedZone - 1,
                      NEW n \in 1 .. 2 * Granule, a + n <= MemSize
               PROVE  IsPoison(shadow, a, n)
                          <=> ~(p <= a /\ a + n <= p + allocations[p].len)
    BY DEF BoundsEnforced
  <2> DEFINE end == p + allocations[p].len
  <2>1. InChunk(p) /\ BytesRight(p) /\ ~allocations[p].freed /\ shadow \in ShadowType
    BY DEF HeapInv, Live
  <2>2. /\ p \in Nat /\ allocations[p].len \in Nat \ {0}
        /\ RedZone \in Nat /\ RedZone <= p /\ RedZone > 0
    BY <2>1, InChunkNumbers DEF WideEnough
  <2>3. a \in Nat /\ n \in Nat \ {0}
    BY <2>2, GranuleAssumption
  <2>4. \A b \in p - RedZone .. end + RedZone - 1 :
            BytePoisoned(shadow, b) <=> ~(p <= b /\ b < end)
    BY <2>1 DEF BytesRight
  <2>5. IsPoison(shadow, a, n) <=> \E b \in a .. a + n - 1 : BytePoisoned(shadow, b)
    BY <2>1, <2>3, IsPoisonIsExact
  <2> HIDE DEF end
  <2>6. end = p + allocations[p].len /\ end \in Nat
    BY <2>2 DEF end
  <2>7. CASE p <= a /\ a + n <= end
    <3>1. \A b \in a .. a + n - 1 : ~BytePoisoned(shadow, b)
      BY <2>2, <2>3, <2>4, <2>6, <2>7
    <3> QED BY <3>1, <2>5, <2>6, <2>7
  <2>8. CASE ~(p <= a /\ a < end)
    <3>1. a \in a .. a + n - 1 /\ BytePoisoned(shadow, a)
      BY <2>2, <2>3, <2>4, <2>6, <2>8
    <3>2. ~(p <= a /\ a + n <= end)
      BY <2>3, <2>6, <2>8
    <3> QED BY <3>1, <3>2, <2>5, <2>6
  <2>9. CASE p <= a /\ a < end /\ ~(a + n <= end)
    <3>1. end \in a .. a + n - 1 /\ BytePoisoned(shadow, end)
      BY <2>2, <2>3, <2>4, <2>6, <2>9
    <3> QED BY <3>1, <2>5, <2>6, <2>9
  <2> QED BY <2>7, <2>8, <2>9, <2>2, <2>3, <2>6
<1> QED BY <1>1, HeapInvariant, PTL

\* Only a multiple leaves no rest, and every multiple does.
LEMMA RestOfMultiple ==
    ASSUME NEW k \in Nat, NEW d \in Nat \ {0}
    PROVE  k * d \in Nat /\ (k * d) % d = 0
<1> DEFINE x == k * d
           j == x \div d
           r == x % d
<1>1. x \in Nat
  OBVIOUS
<1>2. j \in Nat /\ r \in 0 .. d - 1 /\ x = j * d + r
  BY <1>1, Division
<1>3. x = k * d
  OBVIOUS
<1> HIDE DEF x, j, r
<1>4. (k - j) * d = r
  BY <1>2, <1>3
<1>5. CASE k - j >= 1
  <2>1. (k - j) * d >= d
    BY <1>2, <1>5
  <2> QED BY <2>1, <1>2, <1>4
<1>6. CASE k - j <= -1
  <2>1. (k - j) * d <= -d
    BY <1>2, <1>6
  <2> QED BY <2>1, <1>2, <1>4
<1>7. CASE k - j = 0
  <2>1. r = 0
    BY <1>4, <1>7
  <2> QED BY <2>1, <1>1 DEF x, r
<1> QED BY <1>2, <1>5, <1>6, <1>7

\* The address that alloc returns is aligned as the caller asks, wherever the backend
\* puts the chunk, and for no alignment as the allocator aligns everything.
THEOREM BuffersAreAligned ==
    ASSUME NEW orig \in Nat, orig % AllocAlign = 0, NEW align \in Aligns
    PROVE  /\ align # 0 => DataAddress(orig, align) % align = 0
           /\ align = 0 => DataAddress(orig, align) % AllocAlign = 0
<1>1. /\ align \in Nat /\ AllocAlign \in Nat \ {0}
      /\ RedZone \in Nat /\ RedZone % AllocAlign = 0
  BY RequestAssumption, AlignAssumption, RedZoneAssumption
<1> DEFINE rz == orig + RedZone
<1>2. rz \in Nat
  BY <1>1
<1>3. CASE align # 0
  <2> DEFINE q == rz \div align
             r == rz % align
             m == q * align
  <2>1. /\ q \in Nat /\ r \in 0 .. align - 1
        /\ rz = m + r
    BY <1>1, <1>2, <1>3, Division
  <2>2. DataAddress(orig, align) = rz + align - r
    BY <1>3 DEF DataAddress
  <2>3. m \in Nat /\ m + align = (q + 1) * align
    BY <1>1, <2>1
  <2> HIDE DEF q, r, m, rz
  <2>4. DataAddress(orig, align) = (q + 1) * align
    BY <1>1, <1>2, <2>1, <2>2, <2>3
  <2>5. q + 1 \in Nat /\ align \in Nat \ {0}
    BY <1>1, <1>3, <2>1
  <2>6. ((q + 1) * align) % align = 0
    BY ONLY <2>5, RestOfMultiple
  <2> QED BY <2>4, <2>6, <1>3
<1>4. CASE align = 0
  <2> DEFINE i == orig \div AllocAlign
             j == RedZone \div AllocAlign
  <2>1. i \in Nat /\ orig = i * AllocAlign + (orig % AllocAlign)
    BY <1>1, Division
  <2>2. j \in Nat /\ RedZone = j * AllocAlign + (RedZone % AllocAlign)
    BY <1>1, Division
  <2> HIDE DEF i, j
  <2>3. rz = (i + j) * AllocAlign
    BY <1>1, <2>1, <2>2
  <2>4. i + j \in Nat /\ AllocAlign \in Nat \ {0}
    BY <1>1, <2>1, <2>2
  <2>5. ((i + j) * AllocAlign) % AllocAlign = 0
    BY ONLY <2>4, RestOfMultiple
  <2> QED BY <2>3, <2>5, <1>4 DEF DataAddress
<1> QED BY <1>3, <1>4

\* Two buffers that the guest holds share no byte, and a red zone of each lies between
\* them: what runs over the end of one is in a red zone and never in the other.
BuffersApart ==
    \A p, q \in Live : p < q => p + allocations[p].len + 2 * RedZone <= q

THEOREM BuffersNeverOverlap ==
    ASSUME WideEnough
    PROVE  Spec => []BuffersApart
<1>1. HeapInv => BuffersApart
  <2> SUFFICES ASSUME HeapInv, NEW p \in Live, NEW q \in Live, p < q
               PROVE  p + allocations[p].len + 2 * RedZone <= q
    BY DEF BuffersApart
  <2> DEFINE c == allocations[p].chunk
             d == allocations[q].chunk
  <2>1. InChunk(p) /\ InChunk(q)
    BY DEF HeapInv, Live
  <2>2. /\ p \in Nat /\ allocations[p].len \in Nat \ {0} /\ RedZone \in Nat
        /\ c.addr \in Nat /\ c.len \in Nat
        /\ c.addr + RedZone <= p /\ p + allocations[p].len + RedZone <= c.addr + c.len
    BY <2>1, InChunkNumbers
  <2>3. /\ q \in Nat /\ allocations[q].len \in Nat \ {0}
        /\ d.addr \in Nat /\ d.len \in Nat
        /\ d.addr + RedZone <= q /\ q + allocations[q].len + RedZone <= d.addr + d.len
    BY <2>1, InChunkNumbers
  <2>4. ~Overlap(c, d)
    <3>1. p # q
      BY <2>2
    <3> QED BY <3>1 DEF HeapInv, Apart, Live
  <2> HIDE DEF c, d
  <2>5. c.addr + c.len <= d.addr \/ d.addr + d.len <= c.addr
    BY <2>2, <2>3, <2>4 DEF Overlap
  <2>6. c.addr + c.len <= d.addr
    BY <2>2, <2>3, <2>5
  <2> QED BY <2>2, <2>3, <2>6
<1> QED BY <1>1, HeapInvariant, PTL

\* No byte of the chunk of a buffer in quarantine may be used, nor any byte that was given
\* back to the backend until it is handed out again, whatever is allocated and freed around
\* it and however far a red zone reaches over the end of its chunk.
THEOREM FreedStaysPoisoned ==
    ASSUME WideEnough
    PROVE  Spec => []FreedIsPoisoned
<1>1. HeapInv => FreedIsPoisoned
  <2> SUFFICES ASSUME HeapInv PROVE FreedIsPoisoned
    OBVIOUS
  <2>1. ASSUME NEW a \in 0 .. MemSize - 1, BytePoisoned(shadow, a) PROVE IsPoison(shadow, a, 1)
    <3>1. a \in Nat /\ a + 1 <= MemSize /\ a \in a .. a + 1 - 1 /\ shadow \in ShadowType
      BY MemSizeAssumption DEF HeapInv
    <3> QED BY <2>1, <3>1, IsPoisonIsExact
  <2>2. ASSUME NEW p \in Range(quarantine), NEW a \in Bytes(allocations[p].chunk)
        PROVE  IsPoison(shadow, a, 1)
    <3>1. p \in DOMAIN allocations
      BY DEF HeapInv, Waiting, Range
    <3>2. InChunk(p) /\ BytesRight(p) /\ allocations[p].freed
      BY <3>1 DEF HeapInv, Waiting
    <3>3. a \in 0 .. MemSize - 1
      BY <3>2, InChunkNumbers DEF Bytes
    <3>4. BytePoisoned(shadow, a)
      BY <3>2 DEF BytesRight, Bytes
    <3> QED BY <2>1, <3>3, <3>4
  <2>3. ASSUME NEW a \in given_back PROVE IsPoison(shadow, a, 1)
    BY <2>1 DEF HeapInv, GivenBack
  <2> QED BY <2>2, <2>3 DEF FreedIsPoisoned
<1> QED BY <1>1, HeapInvariant, PTL

\* A buffer leaves the quarantine only when it and those freed since are more than the
\* quarantine holds, and after those freed before it.
THEOREM QuarantineIsInOrder ==
    ASSUME WideEnough
    PROVE  Spec => QuarantineHoldsBack
<1> DEFINE Action ==
        \A p \in Range(quarantine) \ Range(quarantine') :
          LET at == CHOOSE i \in DOMAIN quarantine : quarantine[i] = p
              since == SubSeq(quarantine, at, Len(quarantine))
              now == CHOOSE q \in Live : q \notin Live'
          IN  /\ ChunkLens(Append(since, now)) > QuarantineSize
              /\ \A i \in 1 .. at - 1 : quarantine[i] \notin Range(quarantine')
<1>1. RecordsInv /\ RecordsInv' /\ [Next]_vars => [Action]_vars
  <2> SUFFICES ASSUME RecordsInv, RecordsInv', Next, NEW x \in Range(quarantine) \ Range(quarantine')
               PROVE  LET at == CHOOSE i \in DOMAIN quarantine : quarantine[i] = x
                          since == SubSeq(quarantine, at, Len(quarantine))
                          now == CHOOSE q \in Live : q \notin Live'
                      IN  /\ ChunkLens(Append(since, now)) > QuarantineSize
                          /\ \A i \in 1 .. at - 1 : quarantine[i] \notin Range(quarantine')
    OBVIOUS
  <2> DEFINE at == CHOOSE i \in DOMAIN quarantine : quarantine[i] = x
             now == CHOOSE q \in Live : q \notin Live'
  <2>0. HeapInv /\ HeapInv' /\ Counted
    BY DEF RecordsInv
  <2>1. PICK p \in DOMAIN allocations : Dealloc(p)
    BY ZenonT(60) DEF Next, Alloc
  <2> DEFINE waiting == Append(quarantine, p)
             used == quarantine_used + allocations[p].chunk.len
  <2>2. ~failed' /\ now = p
    <3>1. ~failed'
      BY <2>0 DEF HeapInv
    <3>2. p \in Live /\ p \notin Live' /\ \A q \in Live : q # p => q \in Live'
      BY <2>0, <2>1, <3>1, OneIsFreed
    <3> QED BY <3>1, <3>2
  <2>3. PICK n \in 0 .. Len(waiting) :
           Purges(used, waiting, n) /\ quarantine' = SubSeq(waiting, n + 1, Len(waiting))
    BY <2>1, <2>2 DEF Dealloc
  <2>4. /\ quarantine \in Seq(DOMAIN allocations) /\ IsInjective(quarantine)
        /\ p \notin Range(quarantine) /\ Len(quarantine) \in Nat
        /\ DOMAIN quarantine = 1 .. Len(quarantine)
    <3>1. quarantine \in Seq(DOMAIN allocations) /\ IsInjective(quarantine)
          /\ p \notin Range(quarantine)
      BY <2>0, <2>1 DEF HeapInv, Waiting, Dealloc
    <3> QED BY <3>1
  <2>5. /\ waiting \in Seq(DOMAIN allocations) /\ IsInjective(waiting)
        /\ Len(waiting) = Len(quarantine) + 1
        /\ \A i \in 1 .. Len(quarantine) : waiting[i] = quarantine[i]
    BY <2>4, Joins
  <2>6. at \in 1 .. Len(quarantine) /\ quarantine[at] = x
    BY <2>4 DEF Range
  <2> HIDE DEF at, now, waiting
  <2>7. /\ \A j \in 1 .. Len(waiting) - n : quarantine'[j] = waiting[n + j]
        /\ Len(quarantine') = Len(waiting) - n /\ DOMAIN quarantine' = 1 .. Len(waiting) - n
        /\ \A i \in 1 .. n : waiting[i] \notin Range(quarantine')
    <3> DEFINE gone == SubSeq(waiting, 1, n)
    <3>1. /\ quarantine' \in Seq((DOMAIN allocations) \ Range(gone))
          /\ \A y \in Range(gone) : y \notin Range(quarantine')
          /\ Len(quarantine') = Len(waiting) - n
          /\ \A j \in 1 .. Len(waiting) - n : quarantine'[j] = waiting[n + j]
          /\ Len(gone) = n /\ \A i \in 1 .. n : gone[i] = waiting[i]
          /\ gone \in Seq(DOMAIN allocations)
      BY <2>3, <2>5, Parts
    <3>2. DOMAIN gone = 1 .. n
      BY <3>1
    <3>3. DOMAIN quarantine' = 1 .. Len(waiting) - n
      BY <3>1
    <3>4. \A i \in 1 .. n : waiting[i] \notin Range(quarantine')
      <4> HIDE DEF gone
      <4>1. \A i \in 1 .. n : gone[i] \in Range(gone)
        BY <3>2 DEF Range
      <4> QED BY <3>1, <4>1
    <3> QED BY <3>1, <3>3, <3>4
  <2>8. at <= n
    <3>1. SUFFICES ASSUME n < at PROVE FALSE
      BY <2>3, <2>4, <2>6
    <3>2. at - n \in 1 .. Len(waiting) - n /\ n + (at - n) = at
      BY <2>3, <2>4, <2>5, <2>6, <3>1
    <3>3. quarantine'[at - n] = x
      BY <2>5, <2>6, <2>7, <3>2
    <3> QED BY <2>7, <3>2, <3>3 DEF Range
  <2>9. ChunkLens(SubSeq(waiting, at, Len(waiting))) > QuarantineSize
    <3>1. at - 1 \in 0 .. n - 1 /\ (at - 1) + 1 = at
      BY <2>3, <2>4, <2>6, <2>8
    <3>2. \A m \in 0 .. n - 1 : Left(waiting, m) > QuarantineSize
      <4>1. p \in Live
        BY <2>1 DEF Dealloc, Live
      <4> QED BY <2>0, <2>3, <4>1, CounterIsRight DEF waiting
    <3>3. Left(waiting, at - 1) = ChunkLens(SubSeq(waiting, at, Len(waiting)))
      BY <3>1 DEF Left
    <3> QED BY <3>1, <3>2, <3>3
  <2>10. SubSeq(waiting, at, Len(waiting)) = Append(SubSeq(quarantine, at, Len(quarantine)), p)
    BY <2>4, <2>5, <2>6, EndOfAppend DEF waiting
  <2>11. ASSUME NEW i \in 1 .. at - 1 PROVE quarantine[i] \notin Range(quarantine')
    <3>1. i \in 1 .. n /\ i \in 1 .. Len(quarantine)
      BY <2>3, <2>4, <2>6, <2>8
    <3> QED BY <2>5, <2>7, <3>1
  <2> QED BY <2>2, <2>9, <2>10, <2>11 DEF at, now
<1> QED BY <1>1, RecordsInvariant, PTL DEF Spec, QuarantineHoldsBack

\* The buffers and their chunks are finitely many, and as many.
LEMMA AsManyChunks ==
    ASSUME RecordsInv
    PROVE  Cardinality(chunks) = Cardinality(DOMAIN allocations)
<1> DEFINE D == DOMAIN allocations
           f == [p \in D |-> allocations[p].chunk]
<1>1. HeapInv /\ chunks = {allocations[p].chunk : p \in D}
  BY DEF RecordsInv, ChunksInUse
<1>2. IsFiniteSet(D)
  <2>1. ASSUME NEW p \in D PROVE p \in 0 .. MemSize
    <3>1. InChunk(p)
      BY <1>1 DEF HeapInv
    <3> QED BY <3>1, InChunkNumbers
  <2> HIDE DEF D
  <2>2. D \in SUBSET (0 .. MemSize) /\ 0 \in Int /\ MemSize \in Int
    BY <2>1, MemSizeAssumption
  <2>3. IsFiniteSet(0 .. MemSize)
    BY <2>2, FS_Interval, Zenon
  <2> QED BY <2>2, <2>3, FS_Subset
<1>3. \A p, q \in D : p # q => f[p] # f[q]
  BY <1>1, ChunksDiffer
<1>4. f \in Bijection(D, chunks)
  <2>1. f \in [D -> chunks]
    BY <1>1
  <2>2. \A c \in chunks : \E p \in D : f[p] = c
    BY <1>1
  <2> HIDE DEF f, D
  <2> QED BY <1>3, <2>1, <2>2 DEF Bijection, Injection, Surjection, IsInjective
<1> HIDE DEF f, D
<1>5. ExistsBijection(D, chunks)
  BY <1>4 DEF ExistsBijection
<1> QED BY <1>2, <1>5, FS_Bijection DEF D

\* After any series of calls, with purges of any length: the quarantine holds each freed
\* buffer once and its counter is the sum of their chunks, within its size; what is tracked
\* is what is live; and each chunk that is out belongs to one buffer.
THEOREM RecordsDoAgree ==
    ASSUME WideEnough
    PROVE  Spec => []RecordsAgree
<1>1. RecordsInv => RecordsAgree
  <2> SUFFICES ASSUME RecordsInv PROVE RecordsAgree
    OBVIOUS
  <2>1. HeapInv /\ Counted /\ ChunksInUse
    BY DEF RecordsInv
  <2>2. Range(quarantine) = DOMAIN allocations \ Live /\ IsInjective(quarantine)
    <3>1. Range(quarantine) \subseteq DOMAIN allocations
      BY <2>1 DEF HeapInv, Waiting, Range
    <3> QED BY <2>1, <3>1 DEF HeapInv, Waiting, Live
  <2> QED BY <2>1, <2>2, AsManyChunks
          DEF RecordsAgree, Counted, ChunksInUse, HeapInv, LiveRanges
<1> QED BY <1>1, RecordsInvariant, PTL

\* Every variable of the heap keeps its type; the counter of the quarantine, from which
\* dealloc subtracts, never falls below 0.
THEOREM HeapHasItsTypes ==
    ASSUME WideEnough
    PROVE  Spec => []TypeOK
<1>1. RecordsInv => TypeOK
  <2> SUFFICES ASSUME RecordsInv PROVE TypeOK
    OBVIOUS
  <2>1. HeapInv /\ Counted /\ ChunksInUse
    BY DEF RecordsInv
  <2>2. ASSUME NEW p \in DOMAIN allocations
        PROVE  /\ p \in Addresses /\ allocations[p] \in Allocation
               /\ allocations[p].chunk \in Chunk /\ allocations[p].len \in Nat
    <3>1. InChunk(p) /\ allocations[p] \in BufferType
      BY <2>1 DEF HeapInv, InChunk
    <3>2. /\ p \in Nat /\ allocations[p].len \in Nat \ {0}
          /\ allocations[p].chunk.addr \in Nat /\ allocations[p].chunk.len \in Nat \ {0}
          /\ allocations[p].chunk.addr + RedZone <= p
          /\ p + allocations[p].len + RedZone
                 <= allocations[p].chunk.addr + allocations[p].chunk.len
          /\ allocations[p].chunk.addr + allocations[p].chunk.len <= MemSize
          /\ RedZone \in Nat /\ MemSize \in Nat
      BY <3>1, InChunkNumbers
    <3>3. /\ p \in 0 .. MemSize - 1 /\ allocations[p].chunk.addr \in 0 .. MemSize - 1
          /\ allocations[p].chunk.len \in 1 .. MemSize
      BY <3>2
    <3>4. allocations[p].chunk \in Chunk
      BY <3>1, <3>3 DEF BufferType, Chunk, Addresses
    <3> QED BY <3>1, <3>2, <3>3, <3>4 DEF BufferType, Allocation, Addresses
  <2>3. tracked \subseteq [start : Addresses, len : Nat]
    BY <2>1, <2>2 DEF HeapInv, LiveRanges, Live
  <2>4. quarantine \in Seq(Addresses)
    <3>1. quarantine \in Seq(DOMAIN allocations) /\ DOMAIN allocations \subseteq Addresses
      BY <2>1, <2>2 DEF HeapInv, Waiting
    <3> QED BY <3>1, SeqMonotonic
  <2>5. quarantine_used \in Nat
    BY <2>1, HeapLensKnown, LensType DEF Counted, HeapInv, Waiting
  <2>6. chunks \subseteq Chunk
    BY <2>1, <2>2 DEF ChunksInUse
  <2>7. given_back \subseteq Addresses
    BY <2>1 DEF HeapInv, GivenBack, Addresses
  <2>8. shadow \in ShadowType /\ failed \in BOOLEAN
    BY <2>1 DEF HeapInv, RecordsInv
  <2> QED BY <2>2, <2>3, <2>4, <2>5, <2>6, <2>7, <2>8 DEF TypeOK
<1> QED BY <1>1, RecordsInvariant, PTL

\* What the loop of purge_quarantine relies on: it stops, with one answer; and each time
\* round, as long as the counter is above the size, there is a buffer to pop, which is in
\* the allocations.
PurgeIsSound(used, waiting) ==
    /\ \E n \in 0 .. Len(waiting) :
           /\ Purges(used, waiting, n)
           /\ \A m \in 0 .. Len(waiting) : Purges(used, waiting, m) => m = n
    /\ \A m \in 0 .. Len(waiting) :
           UsedWithout(used, waiting, m) > QuarantineSize
               => m < Len(waiting) /\ waiting[m + 1] \in DOMAIN allocations

LEMMA PurgeStops ==
    ASSUME HeapInv, Counted, NEW p \in Live
    PROVE  PurgeIsSound(quarantine_used + allocations[p].chunk.len, Append(quarantine, p))
<1> DEFINE s == Append(quarantine, p)
           used == quarantine_used + allocations[p].chunk.len
           k == Len(s)
           L(n) == Left(s, n)
           P(n) == Purges(used, s, n)
<1>0. s \in Seq(DOMAIN allocations)
  BY Joins DEF HeapInv, Waiting, Live
<1>1. k \in Nat /\ QuarantineSize \in Nat
  BY <1>0, QuarantineAssumption
<1>2. L(k) = 0
  BY CounterIsRight
<1>3. \A n \in 0 .. k : L(n) \in Nat /\ UsedWithout(used, s, n) = L(n)
  BY CounterIsRight
<1>4. \A n \in 0 .. k : P(n) <=> L(n) <= QuarantineSize /\ \A m \in 0 .. n - 1 : L(m) > QuarantineSize
  BY CounterIsRight
<1> HIDE DEF s, used
<1>5. \A m \in 0 .. k : UsedWithout(used, s, m) > QuarantineSize => m < k /\ s[m + 1] \in DOMAIN allocations
  <2> TAKE m \in 0 .. k
  <2> HAVE UsedWithout(used, s, m) > QuarantineSize
  <2>1. m # k
    BY <1>1, <1>2, <1>3
  <2>2. m < k /\ m + 1 \in 1 .. k
    BY <1>1, <2>1
  <2> QED BY <2>2, <1>0
<1> HIDE DEF L, P, k
<1>6. \E n \in 0 .. k : P(n)
  <2> SUFFICES ASSUME \A n \in 0 .. k : ~P(n) PROVE FALSE
    OBVIOUS
  <2> DEFINE S == {n \in Nat : n <= k => \A m \in 0 .. n : ~(L(m) <= QuarantineSize)}
  <2>1. 0 \in S
    <3>1. 0 \in 0 .. k /\ 0 .. 0 - 1 = {} /\ 0 .. 0 = {0}
      BY <1>1
    <3>2. ~(L(0) <= QuarantineSize)
      BY <1>4, <3>1
    <3> QED BY <3>1, <3>2
  <2>2. ASSUME NEW n \in Nat, n \in S PROVE n + 1 \in S
    <3> SUFFICES ASSUME n + 1 <= k, NEW m \in 0 .. n + 1, L(m) <= QuarantineSize PROVE FALSE
      OBVIOUS
    <3>1. \A j \in 0 .. n : ~(L(j) <= QuarantineSize)
      BY <1>1, <2>2
    <3>2. m = n + 1 /\ m \in 0 .. k
      BY <1>1, <3>1
    <3>3. \A j \in 0 .. m - 1 : L(j) > QuarantineSize
      <4> TAKE j \in 0 .. m - 1
      <4>1. j \in 0 .. n /\ j \in 0 .. k
        BY <1>1, <3>2
      <4> QED BY <4>1, <1>1, <1>3, <3>1
    <3> QED BY <1>4, <3>2, <3>3
  <2>3. k \in S
    <3> HIDE DEF S
    <3> QED BY <1>1, <2>1, <2>2, NatInSet
  <2>4. k \in 0 .. k
    BY <1>1
  <2> QED BY <1>1, <1>2, <2>3, <2>4
<1>7. ASSUME NEW n \in 0 .. k, NEW m \in 0 .. k, P(n), P(m), m < n PROVE FALSE
  <2>1. m \in 0 .. n - 1
    BY <1>1, <1>7
  <2>2. L(m) > QuarantineSize /\ L(m) <= QuarantineSize
    BY <1>4, <1>7, <2>1
  <2> QED BY <1>1, <1>3, <2>2
<1>8. \A n, m \in 0 .. k : P(n) /\ P(m) => m = n
  <2> TAKE n, m \in 0 .. k
  <2> HAVE P(n) /\ P(m)
  <2>1. n \in Int /\ m \in Int
    OBVIOUS
  <2> QED BY <1>7, <2>1
<1> QED BY <1>5, <1>6, <1>8 DEF PurgeIsSound, P, k, s, used

\* After any series of calls a free of a live buffer has exactly one outcome: the purge that
\* follows it stops, and neither of its two ways to report a corrupt quarantine is taken.
THEOREM PurgesEnd ==
    ASSUME WideEnough
    PROVE  Spec => [](\A p \in Live :
                         PurgeIsSound(quarantine_used + allocations[p].chunk.len,
                                      Append(quarantine, p)))
<1>1. RecordsInv => \A p \in Live :
                        PurgeIsSound(quarantine_used + allocations[p].chunk.len,
                                     Append(quarantine, p))
  BY PurgeStops DEF RecordsInv
<1> QED BY <1>1, RecordsInvariant, PTL
=============================================================================
