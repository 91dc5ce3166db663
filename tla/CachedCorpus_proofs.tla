------------------------ MODULE CachedCorpus_proofs ------------------------
(***************************************************************************)
(* Proofs about HashCorpusMap and CachedCorpus: neither cache panics or is *)
(* noticed under the condition it has, the FIFO cache lists what it holds, *)
(* and the scheduler has what was saved.  At the end, about CorpusMaps:    *)
(* entries are linked in order, and the histories of both maps are exact.  *)
(***************************************************************************)
EXTENDS CachedCorpus, CorpusMaps, SequenceTheorems, TLAPS

-----------------------------------------------------------------------------
(* The hash map.                                                           *)

\* The domain of the links of a well typed map.
LEMMA MapDomain ==
  ASSUME NEW m \in MapType
  PROVE  /\ Stored(m) \subseteq TestcaseId
         /\ m.links \in [Stored(m) -> Link]
         /\ m.first \in MaybeId /\ m.last \in MaybeId
         /\ m.history \in SUBSET TestcaseId
BY DEF MapType, Stored

\* The empty map is one.
LEMMA EmptyMapType == EmptyMap \in MapType
<1>1. <<>> \in [{} -> Link]
  OBVIOUS
<1>. QED
  BY <1>1 DEF EmptyMap, MapType, MaybeId

\* add keeps a map well typed.
LEMMA MapAddType ==
  ASSUME NEW m \in MapType, NEW id \in TestcaseId
  PROVE  MapAdd(m, id) \in MapType
<1>1. /\ Stored(m) \subseteq TestcaseId /\ m.links \in [Stored(m) -> Link]
      /\ m.first \in MaybeId /\ m.last \in MaybeId /\ m.history \in SUBSET TestcaseId
  BY MapDomain
<1> DEFINE ids == Stored(m) \cup {id}
           links == [k \in ids |->
                       IF k = id THEN [prev |-> m.last, next |-> None]
                       ELSE IF k = m.last THEN [m.links[k] EXCEPT !.next = id]
                       ELSE m.links[k]]
<1>2. links \in [ids -> Link]
  BY <1>1 DEF Link, MaybeId
<1>3. ids \in SUBSET TestcaseId
  BY <1>1
<1>4. links \in UNION {[S -> Link] : S \in SUBSET TestcaseId}
  BY <1>2, <1>3
<1>. QED
  BY <1>1, <1>4 DEF MapAdd, MapType, MaybeId

\* remove keeps a map well typed.
LEMMA MapRemoveType ==
  ASSUME NEW m \in MapType, NEW id \in TestcaseId
  PROVE  MapRemove(m, id) \in MapType
<1>1. /\ Stored(m) \subseteq TestcaseId /\ m.links \in [Stored(m) -> Link]
      /\ m.first \in MaybeId /\ m.last \in MaybeId /\ m.history \in SUBSET TestcaseId
  BY MapDomain
<1>2. CASE id \notin Stored(m)
  BY <1>2 DEF MapRemove
<1>3. CASE id \in Stored(m)
  <2> DEFINE ids == Stored(m) \ {id}
             links == [k \in ids |->
                         [prev |-> IF k = m.links[id].next THEN m.links[id].prev
                                                           ELSE m.links[k].prev,
                          next |-> IF k = m.links[id].prev THEN m.links[id].next
                                                           ELSE m.links[k].next]]
  <2>1. links \in [ids -> Link]
    BY <1>1, <1>3 DEF Link
  <2>2. links \in UNION {[S -> Link] : S \in SUBSET TestcaseId}
    BY <2>1, <1>1
  <2>3. MapRemove(m, id) = [links |-> links, first |-> m.first, last |-> m.last,
                            history |-> m.history \ {id}]
    BY <1>3 DEF MapRemove, MapType
  <2>. HIDE DEF links
  <2>4. m.history \ {id} \in SUBSET TestcaseId
    BY <1>1
  <2>. QED
    BY <1>1, <2>2, <2>3, <2>4 DEF MapType
<1>. QED
  BY <1>2, <1>3

\* A new id goes in front of the chain, and the entry of last_id is there.
LEMMA AddChained ==
  ASSUME NEW m \in MapType, NEW s \in Seq(TestcaseId), NEW id \in TestcaseId,
         Chained(m, s), id \notin Ids(s), s = <<>> => m.last = None
  PROVE  ~ AddPanics(m) /\ Chained(MapAdd(m, id), <<id>> \o s)
<1> DEFINE t == <<id>> \o s
           n == MapAdd(m, id)
<1>1. Len(t) = Len(s) + 1 /\ t[1] = id /\ \A i \in 1 .. Len(s) : t[i + 1] = s[i]
  OBVIOUS
<1>2. Len(s) \in Nat /\ \A i \in 2 .. Len(t) : i - 1 \in 1 .. Len(s) /\ t[i] = s[i - 1]
  BY <1>1
<1>3. Stored(m) = Ids(s) /\ Distinct(s)
  BY DEF Chained
<1>4. Ids(t) = {id} \cup Ids(s)
  <2>1. \A k \in Ids(t) : k = id \/ k \in Ids(s)
    BY <1>1, <1>2 DEF Ids
  <2>2. \A k \in Ids(s) : k \in Ids(t)
    <3>. SUFFICES ASSUME NEW i \in 1 .. Len(s) PROVE s[i] \in Ids(t)
      BY DEF Ids
    <3>1. i + 1 \in 1 .. Len(t) /\ t[i + 1] = s[i]
      BY <1>1, <1>2
    <3>. QED
      BY <3>1 DEF Ids
  <2>3. id \in Ids(t)
    BY <1>1, <1>2 DEF Ids
  <2>. QED
    BY <2>1, <2>2, <2>3
<1>5. Stored(n) = Ids(t) /\ n.last = t[1]
  BY <1>1, <1>3, <1>4 DEF MapAdd, Stored
<1>6. Distinct(t)
  <2>. SUFFICES ASSUME NEW i \in 1 .. Len(t), NEW j \in 1 .. Len(t), t[i] = t[j]
                PROVE  i = j
    BY DEF Distinct
  <2>1. CASE i = 1 /\ j # 1
    BY <2>1, <1>1, <1>2 DEF Ids
  <2>2. CASE i # 1 /\ j = 1
    BY <2>2, <1>1, <1>2 DEF Ids
  <2>3. CASE i # 1 /\ j # 1
    <3>1. s[i - 1] = s[j - 1] /\ i - 1 \in 1 .. Len(s) /\ j - 1 \in 1 .. Len(s)
      BY <2>3, <1>2
    <3>. QED
      BY <3>1, <1>3 DEF Distinct
  <2>. QED
    BY <2>1, <2>2, <2>3
<1>7. s # <<>> => 1 \in 1 .. Len(s) /\ m.last = s[1] /\ m.last \in Ids(s)
  BY <1>2 DEF Chained, Ids
<1>8. ASSUME NEW i \in 1 .. Len(t)
      PROVE  n.links[t[i]] = [prev |-> IF i = Len(t) THEN None ELSE t[i + 1],
                              next |-> IF i = 1 THEN None ELSE t[i - 1]]
  <2>1. CASE i = 1
    <3>1. n.links[t[i]] = [prev |-> m.last, next |-> None]
      BY <2>1, <1>1 DEF MapAdd
    <3>2. m.last = IF i = Len(t) THEN None ELSE t[i + 1]
      BY <2>1, <1>1, <1>2, <1>7
    <3>. QED
      BY <2>1, <3>1, <3>2
  <2>2. CASE i # 1
    <3>1. i - 1 \in 1 .. Len(s) /\ t[i] = s[i - 1] /\ t[i] \in Ids(s) /\ t[i] # id
      BY <2>2, <1>2 DEF Ids
    <3>2. m.links[t[i]] = [prev |-> IF i = Len(t) THEN None ELSE s[i],
                           next |-> IF i - 1 = 1 THEN None ELSE s[i - 2]]
      BY <3>1, <1>1 DEF Chained
    <3>3. n.links[t[i]] = IF t[i] = m.last THEN [m.links[t[i]] EXCEPT !.next = id]
                                           ELSE m.links[t[i]]
      BY <3>1, <1>3 DEF MapAdd
    <3>4. i # Len(t) => t[i + 1] = s[i]
      BY <1>1, <1>2, <2>2
    <3>5. CASE i = 2
      BY <3>1, <3>2, <3>3, <3>4, <3>5, <1>1, <1>7
    <3>6. CASE i # 2
      <4>1. t[i] # m.last
        BY <3>1, <3>6, <1>3, <1>7 DEF Distinct
      <4>2. i - 2 \in 1 .. Len(s) /\ t[i - 1] = s[i - 2]
        BY <1>1, <1>2, <2>2, <3>6
      <4>. QED
        BY <2>2, <3>2, <3>3, <3>4, <3>6, <4>1, <4>2
    <3>. QED
      BY <3>5, <3>6
  <2>. QED
    BY <2>1, <2>2
<1>9. ~ AddPanics(m)
  BY <1>3, <1>7 DEF AddPanics
<1>. QED
  BY <1>5, <1>6, <1>8, <1>9 DEF Chained

\* The oldest id leaves the end of the chain, if it is not its only one.
LEMMA RemoveOldestChained ==
  ASSUME NEW m \in MapType, NEW s \in Seq(TestcaseId), Chained(m, s), Len(s) >= 2
  PROVE  /\ ~ RemovePanics(m, s[Len(s)])
         /\ Chained(MapRemove(m, s[Len(s)]), SubSeq(s, 1, Len(s) - 1))
<1> DEFINE last == Len(s)
           id == s[last]
           t == SubSeq(s, 1, last - 1)
           n == MapRemove(m, id)
<1>1. last \in Nat /\ last \in 1 .. last /\ last - 1 \in 1 .. last /\ last >= 2
  OBVIOUS
<1>2. Len(t) = last - 1 /\ \A i \in 1 .. last - 1 : t[i] = s[i]
  BY <1>1
<1>3. Stored(m) = Ids(s) /\ Distinct(s) /\ m.last = s[1]
  BY <1>1 DEF Chained
<1>4. id \in Stored(m) /\ id \in TestcaseId
  BY <1>1, <1>3 DEF Ids
<1>5. m.links[id] = [prev |-> None, next |-> s[last - 1]]
  BY <1>1 DEF Chained
<1>6. \A i \in 1 .. last - 1 : s[i] # id /\ s[i] \in Stored(m) /\ s[i] # None
  BY <1>1, <1>3, MapAssumption DEF Distinct, Ids
<1>7. ~ RemovePanics(m, id)
  BY <1>1, <1>5, <1>6 DEF RemovePanics
<1>8. Ids(t) = Ids(s) \ {id}
  <2>1. \A k \in Ids(t) : k \in Ids(s) /\ k # id
    BY <1>2, <1>3, <1>6 DEF Ids
  <2>2. \A k \in Ids(s) \ {id} : k \in Ids(t)
    <3>. SUFFICES ASSUME NEW i \in 1 .. last, s[i] # id PROVE s[i] \in Ids(t)
      BY DEF Ids
    <3>1. i \in 1 .. last - 1
      BY <1>1
    <3>. QED
      BY <3>1, <1>2 DEF Ids
  <2>. QED
    BY <2>1, <2>2
<1>9. n = [m EXCEPT !.links =
                     [k \in Stored(m) \ {id} |->
                        [prev |-> IF k = s[last - 1] THEN None ELSE m.links[k].prev,
                         next |-> IF k = None THEN s[last - 1] ELSE m.links[k].next]],
                   !.history = @ \ {id}]
  BY <1>4, <1>5 DEF MapRemove
<1>10. Stored(n) = Ids(t)
  BY <1>3, <1>8, <1>9 DEF Stored, MapType
<1>11. n.last = t[1] /\ Distinct(t)
  BY <1>1, <1>2, <1>3, <1>9 DEF Distinct, MapType
<1>12. ASSUME NEW i \in 1 .. Len(t)
       PROVE  n.links[t[i]] = [prev |-> IF i = Len(t) THEN None ELSE t[i + 1],
                               next |-> IF i = 1 THEN None ELSE t[i - 1]]
  <2>. HIDE DEF t, last
  <2>1. i \in 1 .. last - 1 /\ t[i] = s[i] /\ i \in 1 .. last /\ i # last
    BY <1>1, <1>2
  <2>2. n.links[s[i]] = [prev |-> IF s[i] = s[last - 1] THEN None ELSE m.links[s[i]].prev,
                         next |-> m.links[s[i]].next]
    BY <1>6, <1>9, <2>1 DEF MapType
  <2>3. m.links[s[i]] = [prev |-> s[i + 1], next |-> IF i = 1 THEN None ELSE s[i - 1]]
    BY <1>1, <2>1 DEF Chained, last
  <2>4. s[i] = s[last - 1] <=> i = Len(t)
    BY <1>1, <1>2, <1>3, <2>1 DEF Distinct, last
  <2>5. (i # Len(t) => t[i + 1] = s[i + 1]) /\ (i # 1 => t[i - 1] = s[i - 1])
    BY <1>1, <1>2, <2>1
  <2>. QED
    BY <2>1, <2>2, <2>3, <2>4, <2>5
<1>. QED
  BY <1>7, <1>10, <1>11, <1>12 DEF Chained

\* An id leaves the chain, if it is not the newest: its neighbours become those of
\* each other.
LEMMA RemoveChained ==
  ASSUME NEW m \in MapType, NEW s \in Seq(TestcaseId), Chained(m, s), NEW i \in 2 .. Len(s)
  PROVE  LET t == SubSeq(s, 1, i - 1) \o SubSeq(s, i + 1, Len(s))
         IN  Chained(MapRemove(m, s[i]), t) /\ t \in Seq(TestcaseId) /\ t # <<>>
<1> DEFINE last == Len(s)
           id == s[i]
           before == SubSeq(s, 1, i - 1)
           after == SubSeq(s, i + 1, last)
           t == before \o after
           n == MapRemove(m, id)
           prev == IF i = last THEN None ELSE s[i + 1]
<1>1. /\ last \in Nat /\ i \in Nat /\ 2 <= i /\ i <= last /\ i \in 1 .. last
      /\ i - 1 \in 1 .. last /\ \A j \in 1 .. last : s[j] \in TestcaseId
  OBVIOUS
<1>2. before \in Seq(TestcaseId) /\ Len(before) = i - 1 /\ \A j \in 1 .. i - 1 : before[j] = s[j]
  BY <1>1
<1>3. /\ after \in Seq(TestcaseId) /\ Len(after) = last - i
      /\ \A j \in 1 .. last - i : after[j] = s[j + i]
  BY <1>1
<1>4. /\ t \in Seq(TestcaseId) /\ Len(t) = last - 1
      /\ \A j \in 1 .. last - 1 : t[j] = IF j < i THEN s[j] ELSE s[j + 1]
  <2>. HIDE DEF before, after
  <2>1. t \in Seq(TestcaseId) /\ Len(t) = Len(before) + Len(after)
    BY <1>2, <1>3, ConcatProperties
  <2>2. ASSUME NEW j \in 1 .. last - 1 PROVE t[j] = IF j < i THEN s[j] ELSE s[j + 1]
    <3>1. t[j] = IF j <= i - 1 THEN before[j] ELSE after[j - (i - 1)]
      BY <1>1, <1>2, <1>3, ConcatProperties
    <3>2. CASE j < i
      BY <1>1, <1>2, <3>1, <3>2
    <3>3. CASE ~ (j < i)
      <4>1. j - (i - 1) \in 1 .. last - i /\ j - (i - 1) + i = j + 1 /\ ~ (j <= i - 1)
        BY <1>1, <3>3
      <4>. QED
        BY <1>3, <3>1, <3>3, <4>1
    <3>. QED
      BY <3>2, <3>3
  <2>. QED
    BY <1>1, <1>2, <1>3, <2>1, <2>2
<1>5. Stored(m) = Ids(s) /\ Distinct(s) /\ m.last = s[1]
  BY <1>1 DEF Chained
<1>6. \A j \in 1 .. last : s[j] \in Stored(m) /\ s[j] # None
  BY <1>1, <1>5, MapAssumption DEF Ids
<1>7. m.links[id] = [prev |-> prev, next |-> s[i - 1]]
  BY <1>1 DEF Chained
<1>8. n = [m EXCEPT !.links =
                     [k \in Stored(m) \ {id} |->
                        [prev |-> IF k = s[i - 1] THEN prev ELSE m.links[k].prev,
                         next |-> IF k = prev THEN s[i - 1] ELSE m.links[k].next]],
                   !.history = @ \ {id}]
  BY <1>1, <1>6, <1>7 DEF MapRemove
<1>. HIDE DEF t, prev, last
<1>9. Ids(t) = Ids(s) \ {id}
  <2>1. ASSUME NEW j \in 1 .. last - 1 PROVE t[j] \in Ids(s) /\ t[j] # id
    <3>1. CASE j < i
      BY <1>1, <1>4, <1>5, <3>1 DEF Ids, Distinct, last
    <3>2. CASE ~ (j < i)
      <4>1. j + 1 \in 1 .. last /\ j + 1 # i
        BY <1>1, <3>2
      <4>. QED
        BY <1>1, <1>4, <1>5, <3>2, <4>1 DEF Ids, Distinct, last
    <3>. QED
      BY <3>1, <3>2
  <2>2. ASSUME NEW j \in 1 .. last, j # i PROVE s[j] \in Ids(t)
    <3>1. CASE j < i
      <4>1. j \in 1 .. Len(t) /\ t[j] = s[j]
        BY <1>1, <1>4, <3>1
      <4>. QED
        BY <4>1 DEF Ids
    <3>2. CASE ~ (j < i)
      <4>1. j - 1 \in 1 .. Len(t) /\ ~ (j - 1 < i) /\ (j - 1) + 1 = j
        BY <1>1, <1>4, <2>2, <3>2
      <4>2. t[j - 1] = s[j]
        BY <1>4, <4>1
      <4>. QED
        BY <4>1, <4>2 DEF Ids
    <3>. QED
      BY <3>1, <3>2
  <2>3. \A k \in Ids(t) : k \in Ids(s) /\ k # id
    BY <1>4, <2>1 DEF Ids
  <2>4. \A k \in Ids(s) \ {id} : k \in Ids(t)
    BY <2>2 DEF Ids, last
  <2>. QED
    BY <2>3, <2>4
<1>10. Stored(n) = Ids(t)
  BY <1>5, <1>8, <1>9 DEF Stored, MapType
<1>11. Distinct(t)
  <2>. SUFFICES ASSUME NEW j \in 1 .. last - 1, NEW k \in 1 .. last - 1, t[j] = t[k], j < k
                PROVE  FALSE
    BY <1>1, <1>4 DEF Distinct
  <2>. DEFINE at(x) == IF x < i THEN x ELSE x + 1
  <2>1. at(j) \in 1 .. last /\ at(k) \in 1 .. last /\ at(j) # at(k)
    BY <1>1
  <2>2. t[j] = s[at(j)] /\ t[k] = s[at(k)]
    BY <1>4
  <2>. QED
    BY <1>5, <2>1, <2>2 DEF Distinct, last
<1>12. t # <<>> /\ n.last = t[1]
  <2>1. 1 \in 1 .. last - 1 /\ 1 < i /\ Len(t) # 0
    BY <1>1, <1>4
  <2>2. t[1] = s[1]
    BY <1>4, <2>1
  <2>3. n.last = m.last
    BY <1>8 DEF MapType
  <2>. QED
    BY <1>5, <2>1, <2>2, <2>3
<1>13. ASSUME NEW j \in 1 .. last, j # i
       PROVE  n.links[s[j]] = [prev |-> IF j = i - 1 THEN prev
                                        ELSE IF j = last THEN None ELSE s[j + 1],
                               next |-> IF j = i + 1 THEN s[i - 1]
                                        ELSE IF j = 1 THEN None ELSE s[j - 1]]
  <2>1. s[j] \in Stored(m) \ {id}
    BY <1>1, <1>5, <1>6, <1>13 DEF Distinct, last
  <2>2. m.links[s[j]] = [prev |-> IF j = last THEN None ELSE s[j + 1],
                         next |-> IF j = 1 THEN None ELSE s[j - 1]]
    BY DEF Chained, last
  <2>3. s[j] = s[i - 1] <=> j = i - 1
    BY <1>1, <1>5 DEF Distinct, last
  <2>4. s[j] = prev <=> j = i + 1
    <3>1. CASE i = last
      BY <1>1, <1>6, <3>1 DEF prev
    <3>2. CASE i # last
      <4>1. i + 1 \in 1 .. last /\ prev = s[i + 1]
        BY <1>1, <3>2 DEF prev
      <4>. QED
        BY <1>5, <4>1 DEF Distinct, last
    <3>. QED
      BY <3>1, <3>2
  <2>5. n.links[s[j]] = [prev |-> IF s[j] = s[i - 1] THEN prev ELSE m.links[s[j]].prev,
                         next |-> IF s[j] = prev THEN s[i - 1] ELSE m.links[s[j]].next]
    BY <1>8, <2>1 DEF MapType
  <2>. QED
    BY <2>2, <2>3, <2>4, <2>5
<1>14. ASSUME NEW j \in 1 .. last - 1
       PROVE  n.links[t[j]] = [prev |-> IF j = last - 1 THEN None ELSE t[j + 1],
                               next |-> IF j = 1 THEN None ELSE t[j - 1]]
  <2>. HIDE DEF n
  <2>1. j \in Nat /\ 1 <= j /\ j <= last - 1
    BY <1>1
  <2>2. j # last - 1 => t[j + 1] = IF j + 1 < i THEN s[j + 1] ELSE s[j + 2]
    BY <1>1, <1>4, <2>1
  <2>3. j # 1 => t[j - 1] = IF j - 1 < i THEN s[j - 1] ELSE s[j]
    BY <1>1, <1>4, <2>1
  <2>4. CASE j < i
    <3>1. t[j] = s[j] /\ j \in 1 .. last /\ j # i /\ j # last /\ j # i + 1
      BY <1>1, <1>4, <2>1, <2>4
    <3>2. n.links[s[j]] = [prev |-> IF j = i - 1 THEN prev ELSE s[j + 1],
                           next |-> IF j = 1 THEN None ELSE s[j - 1]]
      BY <1>13, <3>1
    <3>3. CASE j = i - 1
      <4>1. j + 2 = i + 1 /\ ~ (j + 1 < i) /\ (j = last - 1 <=> i = last)
        BY <1>1, <3>3
      <4>2. prev = IF j = last - 1 THEN None ELSE t[j + 1]
        BY <2>2, <4>1 DEF prev
      <4>3. j # 1 => t[j - 1] = s[j - 1]
        BY <1>1, <2>1, <2>3, <3>3
      <4>. QED
        BY <3>1, <3>2, <3>3, <4>2, <4>3
    <3>4. CASE j # i - 1
      <4>1. j # last - 1 /\ j + 1 < i /\ j - 1 < i
        BY <1>1, <2>1, <2>4, <3>4
      <4>. QED
        BY <2>2, <2>3, <3>1, <3>2, <3>4, <4>1
    <3>. QED
      BY <3>3, <3>4
  <2>5. CASE ~ (j < i)
    <3>1. /\ j + 1 \in 1 .. last /\ j + 1 # i /\ j + 1 # i - 1 /\ j + 1 # 1 /\ j # 1
          /\ (j + 1) + 1 = j + 2 /\ (j + 1) - 1 = j /\ ~ (j + 1 < i)
          /\ j + 1 = last <=> j = last - 1
          /\ j + 1 = i + 1 <=> j = i
      BY <1>1, <2>1, <2>5
    <3>2. t[j] = s[j + 1] /\ (j = i <=> j - 1 < i)
      BY <1>1, <1>4, <2>1, <2>5
    <3>3. n.links[s[j + 1]] = [prev |-> IF j = last - 1 THEN None ELSE s[j + 2],
                               next |-> IF j = i THEN s[i - 1] ELSE s[j]]
      BY <1>13, <3>1
    <3>. QED
      BY <2>2, <2>3, <3>1, <3>2, <3>3
  <2>. QED
    BY <2>4, <2>5
<1>. QED
  BY <1>4, <1>10, <1>11, <1>12, <1>14, ZenonT(60) DEF Chained, t, last
-----------------------------------------------------------------------------
(* Types.                                                                  *)

\* The two maps of the in-memory store.
CacheType == [enabled : MapType, disabled : MapType]

\* Adding to and removing from the in-memory store.
LEMMA CacheOpsType ==
  ASSUME NEW c \in CacheType, NEW id \in TestcaseId, NEW enabled \in BOOLEAN
  PROVE  CacheAdd(c, enabled, id) \in CacheType /\ CacheRemove(c, id) \in CacheType
<1>1. \A m \in MapType : MapAdd(m, id) \in MapType /\ MapRemove(m, id) \in MapType
  BY MapAddType, MapRemoveType
<1>. QED
  BY <1>1 DEF CacheAdd, CacheRemove, CacheType, Map

\* What an eviction leaves.
LEMMA KeptType ==
  ASSUME TypeOK, Full => MaxLen > 0
  PROVE  /\ KeptIds \in Seq(TestcaseId) /\ KeptCache \in CacheType
         /\ Ids(KeptIds) \subseteq Ids(cached_ids)
         /\ Full => Oldest \in TestcaseId
<1>1. cached_ids \in Seq(TestcaseId) /\ cache \in CacheType /\ MaxLen \in Nat
  BY CacheAssumption DEF TypeOK, CacheType
<1>2. CASE Full
  <2>1. Len(cached_ids) \in 1 .. Len(cached_ids) /\ Oldest \in TestcaseId
    BY <1>1, <1>2 DEF Full, Oldest
  <2>2. KeptCache \in CacheType
    BY <1>1, <1>2, <2>1, CacheOpsType DEF KeptCache
  <2>3. KeptIds \in Seq(TestcaseId) /\ Ids(KeptIds) \subseteq Ids(cached_ids)
    BY <1>1, <1>2, <2>1 DEF KeptIds, Ids
  <2>. QED
    BY <2>1, <2>2, <2>3
<1>3. CASE ~ Full
  BY <1>1, <1>3 DEF KeptIds, KeptCache
<1>. QED
  BY <1>2, <1>3

\* Initially.
LEMMA TypeOKInit == Init => TypeOK
<1>1. EmptyMap \in MapType
  BY EmptyMapType
<1>. QED
  BY <1>1 DEF Init, TypeOK, MaybeId

\* A corpus keeps the cache it was built with.
LEMMA PolicyKept == [Next]_vars => policy' = policy
<1>1. ASSUME NEW id \in TestcaseId, NEW enabled \in BOOLEAN, Add(enabled, id)
      PROVE  policy' = policy
  BY <1>1, ZenonT(60) DEF Add, AddDuplicate, AddStored, AddFails, CacheOnAdd, cacheVars
<1>2. ASSUME NEW id \in TestcaseId, NEW enabled \in BOOLEAN, Get(enabled, id)
      PROVE  policy' = policy
  <2>1. CASE FifoGet(enabled, id)
    BY <2>1, ZenonT(60)
    DEF FifoGet, FifoGetCached, FifoGetPanics, FifoGetMissing, FifoGetFetched, cacheVars
  <2>2. CASE IdentityGet(enabled, id)
    BY <2>2, ZenonT(60) DEF IdentityGet
  <2>. QED
    BY <1>2, <2>1, <2>2 DEF Get
<1>3. CASE Schedule
  BY <1>3 DEF Schedule, cacheVars
<1>4. CASE UNCHANGED vars
  BY <1>4 DEF vars, cacheVars
<1>. QED
  BY <1>1, <1>2, <1>3, <1>4 DEF Next

\* Every call keeps the types.
LEMMA TypeOKStep ==
  ASSUME TypeOK, [Next]_vars
  PROVE  TypeOK'
<1>. USE DEF cacheVars, storeVars, scheduler
<1>0. policy' \in Policies
  BY PolicyKept DEF TypeOK
<1>1. cache \in CacheType /\ current \in 0 .. Len(queue) /\ Len(queue) \in Nat
  BY DEF TypeOK, CacheType
<1>2. ASSUME NEW id \in TestcaseId, NEW enabled \in BOOLEAN, Add(enabled, id)
      PROVE  TypeOK'
  <2>1. CacheOnAdd(enabled, id) => cache' \in CacheType /\ cached_ids' \in Seq(TestcaseId)
    BY <1>1, CacheOpsType DEF CacheOnAdd, TypeOK
  <2>2. CASE AddDuplicate(enabled, id)
    BY <1>0, <2>1, <2>2 DEF AddDuplicate, Call, TypeOK, CacheType, MaybeId
  <2>3. CASE AddStored(enabled, id)
    <3>1. queue' \in Seq(TestcaseId) /\ Len(queue') = Len(queue) + 1
      BY <2>3 DEF AddStored, TypeOK
    <3>2. current' \in 0 .. Len(queue')
      BY <1>1, <2>3, <3>1 DEF AddStored
    <3>. QED
      BY <1>0, <2>1, <2>3, <3>1, <3>2, ZenonT(60) DEF AddStored, Call, TypeOK, CacheType, MaybeId, Map
  <2>4. CASE AddFails(enabled, id)
    BY <1>0, <2>1, <2>4 DEF AddFails, Call, TypeOK, CacheType, MaybeId, Map
  <2>. QED
    BY <1>2, <2>2, <2>3, <2>4 DEF Add
<1>3. ASSUME NEW id \in TestcaseId, NEW enabled \in BOOLEAN, Get(enabled, id)
      PROVE  TypeOK'
  <2>1. /\ StoreGet(enabled, id) \in {"not_found", "io_error", "ok"}
        /\ GetName(enabled) \in {"get", "get_from_all"} /\ id \in MaybeId
    BY DEF StoreGet, GetName, MaybeId
  <2>2. ~ FifoPanics(enabled, id) => KeptIds \in Seq(TestcaseId) /\ KeptCache \in CacheType
    BY KeptType, CacheAssumption DEF FifoPanics
  <2>3. CASE FifoGetCached(enabled, id) \/ FifoGetPanics(enabled, id)
    BY <1>0, <2>1, <2>3 DEF FifoGetCached, FifoGetPanics, Call, TypeOK
  <2>4. CASE FifoGetMissing(enabled, id)
    BY <1>0, <2>1, <2>2, <2>4 DEF FifoGetMissing, Call, TypeOK, CacheType
  <2>5. CASE FifoGetFetched(enabled, id)
    <3>1. cache' \in CacheType /\ cached_ids' \in Seq(TestcaseId)
      BY <2>2, <2>5, CacheOpsType DEF FifoGetFetched
    <3>. QED
      BY <1>0, <2>1, <2>5, <3>1 DEF FifoGetFetched, Call, TypeOK, CacheType
  <2>6. CASE IdentityGet(enabled, id)
    <3>1. cache' \in CacheType
      BY <1>1, <2>6, CacheOpsType DEF IdentityGet
    <3>. QED
      BY <2>1, <2>6, <3>1 DEF IdentityGet, Call, TypeOK, CacheType
  <2>. QED
    BY <1>3, <2>3, <2>4, <2>5, <2>6 DEF Get, FifoGet
<1>4. CASE Schedule
  <2>1. queue \in Seq(TestcaseId) /\ Len(queue) >= 1
    BY <1>4 DEF Schedule, TypeOK
  <2>2. current' \in 1 .. Len(queue) /\ queue[current'] \in TestcaseId
    BY <1>1, <1>4, <2>1 DEF Schedule
  <2>. QED
    BY <1>4, <2>2 DEF Schedule, Call, TypeOK, MaybeId
<1>5. CASE UNCHANGED vars
  BY <1>5 DEF vars, TypeOK
<1>. QED
  BY <1>2, <1>3, <1>4, <1>5 DEF Next

\* Whatever is called, and whatever fails, every variable keeps its type.
THEOREM CorpusTypeCorrect == Spec => []TypeOK
<1>1. Init => TypeOK
  BY TypeOKInit
<1>2. TypeOK /\ [Next]_vars => TypeOK'
  BY TypeOKStep
<1>. QED
  BY <1>1, <1>2, PTL DEF Spec

-----------------------------------------------------------------------------
(* A FIFO cache, as long as get_from_all is not called.                    *)

FifoOfTwo == policy = "fifo" /\ MaxLen >= 2

\* The enabled map is chained in the order of cached_ids, all of which are
\* enabled in the store and on disk.
FifoChain ==
    /\ Chained(cache.enabled, cached_ids)
    /\ cached_ids = <<>> => cache.enabled.last = None
    /\ Len(cached_ids) <= MaxLen
    /\ Ids(cached_ids) \subseteq store.enabled
    /\ Ids(cached_ids) \subseteq files
    /\ ~ Panicked
    /\ last_call.call = "get" => last_call.result = StoreGet(TRUE, last_call.id)

FifoInv == (FifoOfTwo /\ "get_from_all" \notin happened) => FifoChain

\* Initially.
LEMMA FifoInvInit == Init => FifoInv
<1>. SUFFICES ASSUME FifoOfTwo, Init PROVE FifoChain
  BY DEF FifoInv
<1>1. Ids(<<>>) = {} /\ Distinct(<<>>) /\ Len(<<>>) = 0 /\ DOMAIN <<>> = {}
  BY DEF Ids, Distinct
<1>2. Chained(EmptyMap, <<>>)
  BY <1>1 DEF Chained, Stored, EmptyMap
<1>. QED
  BY <1>1, <1>2, CacheAssumption
  DEF Init, FifoChain, Panicked, EmptyMap, FifoOfTwo

\* An eviction is safe, and leaves a chain that is not empty.
LEMMA EvictionIsSafe ==
  ASSUME FifoOfTwo, TypeOK, FifoChain
  PROVE  /\ Chained(KeptCache.enabled, KeptIds)
         /\ KeptIds = <<>> => KeptCache.enabled.last = None
         /\ Len(KeptIds) < MaxLen
         /\ KeptIds \in Seq(TestcaseId) /\ KeptCache \in CacheType
         /\ Ids(KeptIds) \subseteq Ids(cached_ids)
         /\ Full => ~ CacheRemovePanics(cache, Oldest)
<1>1. /\ MaxLen \in Nat /\ MaxLen >= 2 /\ cached_ids \in Seq(TestcaseId)
      /\ cache \in CacheType /\ cache.enabled \in MapType
  BY CacheAssumption DEF FifoOfTwo, TypeOK, CacheType
<1>2. /\ KeptIds \in Seq(TestcaseId) /\ KeptCache \in CacheType
      /\ Ids(KeptIds) \subseteq Ids(cached_ids)
  BY <1>1, KeptType
<1>3. CASE ~ Full
  BY <1>1, <1>2, <1>3 DEF KeptIds, KeptCache, Full, FifoChain
<1>4. CASE Full
  <2>1. Len(cached_ids) = MaxLen /\ Len(cached_ids) >= 2
    BY <1>1, <1>4 DEF Full
  <2>2. Chained(cache.enabled, cached_ids)
    BY DEF FifoChain
  <2>3. /\ ~ RemovePanics(cache.enabled, Oldest)
        /\ Chained(MapRemove(cache.enabled, Oldest),
                   SubSeq(cached_ids, 1, Len(cached_ids) - 1))
    BY <1>1, <2>1, <2>2, RemoveOldestChained DEF Oldest
  <2>4. Oldest \in Stored(cache.enabled)
    BY <1>1, <2>1, <2>2 DEF Chained, Ids, Oldest
  <2>5. KeptCache.enabled = MapRemove(cache.enabled, Oldest)
    BY <1>1, <1>4, <2>4 DEF KeptCache, CacheRemove, CacheType
  <2>6. KeptIds = SubSeq(cached_ids, 1, Len(cached_ids) - 1) /\ Len(KeptIds) = MaxLen - 1
    BY <1>1, <1>4, <2>1 DEF KeptIds
  <2>7. KeptIds # <<>> /\ Len(KeptIds) < MaxLen
    <3>1. MaxLen - 1 # 0 /\ MaxLen - 1 < MaxLen
      BY <1>1
    <3>2. Len(<<>>) = 0
      OBVIOUS
    <3>3. Len(KeptIds) = MaxLen - 1
      BY <2>6
    <3>. QED
      BY <3>1, <3>2, <3>3, Zenon
  <2>. QED
    BY <1>2, <2>3, <2>4, <2>5, <2>6, <2>7 DEF CacheRemovePanics
<1>. QED
  BY <1>3, <1>4

\* Every call keeps the chain.
LEMMA FifoInvStep ==
  ASSUME TypeOK, FifoInv, [Next]_vars
  PROVE  FifoInv'
<1>. USE DEF cacheVars, storeVars, scheduler, Panicked
<1>. SUFFICES ASSUME FifoOfTwo, "get_from_all" \notin happened' PROVE FifoChain'
  BY PolicyKept DEF FifoInv, FifoOfTwo
<1>0. FifoChain
  <2>1. \A call, id, result : Call(call, id, result) => happened \subseteq happened'
    BY DEF Call
  <2>2. ASSUME NEW id \in TestcaseId, NEW enabled \in BOOLEAN, Add(enabled, id)
        PROVE  happened \subseteq happened'
    BY <2>1, <2>2 DEF Add, AddDuplicate, AddStored, AddFails
  <2>3. ASSUME NEW id \in TestcaseId, NEW enabled \in BOOLEAN, Get(enabled, id)
        PROVE  happened \subseteq happened'
    BY <2>1, <2>3 DEF Get, FifoGet, FifoGetCached, FifoGetPanics, FifoGetMissing,
                      FifoGetFetched, IdentityGet
  <2>4. Next => happened \subseteq happened'
    BY <2>1, <2>2, <2>3 DEF Next, Schedule
  <2>. QED
    BY <2>4 DEF FifoInv, vars
<1>1. cached_ids \in Seq(TestcaseId) /\ cache \in CacheType
  BY DEF TypeOK, CacheType
<1>2. ASSUME NEW id \in TestcaseId, NEW enabled \in BOOLEAN, Add(enabled, id)
      PROVE  FifoChain'
  <2>1. UNCHANGED <<cached_ids, cache>> /\ last_call'.call = "add" /\ last_call'.result # "panic"
    BY <1>2 DEF Add, AddDuplicate, AddStored, AddFails, CacheOnAdd, FifoOfTwo, Call
  <2>2. store.enabled \subseteq store'.enabled /\ files \subseteq files'
    BY <1>2, SMTT(60) DEF Add, AddDuplicate, AddStored, AddFails, TypeOK, Map
  <2>. QED
    BY <1>0, <2>1, <2>2 DEF FifoChain
<1>3. ASSUME NEW id \in TestcaseId, NEW enabled \in BOOLEAN, Get(enabled, id)
      PROVE  FifoChain'
  <2>1. enabled = TRUE /\ Map(enabled) = "enabled" /\ GetName(enabled) = "get"
    BY <1>3 DEF Get, FifoGet, FifoGetCached, FifoGetPanics, FifoGetMissing, FifoGetFetched,
                IdentityGet, Call, Map, GetName
  <2>2. FifoGet(enabled, id)
    BY <1>3 DEF Get, IdentityGet, FifoOfTwo
  <2>3. UNCHANGED storeVars
    BY <2>2 DEF FifoGet, FifoGetCached, FifoGetPanics, FifoGetMissing, FifoGetFetched
  <2>4. /\ StoreGet(enabled, id)' = StoreGet(enabled, id)
        /\ StoreGet(enabled, id) = StoreGet(TRUE, id)
        /\ StoreGet(enabled, id) \in {"not_found", "io_error", "ok"}
        /\ (id \in store.enabled /\ id \in files) => StoreGet(enabled, id) = "ok"
    BY <2>1, <2>3 DEF StoreGet, StoreHas
  <2>5. ~ FifoPanics(enabled, id)
    <3>1. MaxLen # 0
      BY CacheAssumption DEF FifoOfTwo
    <3>2. Full => ~ CacheRemovePanics(cache, Oldest)
      BY <1>0, EvictionIsSafe
    <3>3. ~ AddPanics(KeptCache.enabled)
      <4>1. CASE KeptIds = <<>>
        BY <1>0, <4>1, EvictionIsSafe DEF AddPanics
      <4>2. CASE KeptIds # <<>>
        <5>1. KeptIds \in Seq(TestcaseId) /\ Chained(KeptCache.enabled, KeptIds)
          BY <1>0, EvictionIsSafe
        <5>2. 1 \in 1 .. Len(KeptIds)
          BY <4>2, <5>1
        <5>. QED
          BY <4>2, <5>1, <5>2 DEF AddPanics, Chained, Ids
      <4>. QED
        BY <4>1, <4>2
    <3>. QED
      BY <2>1, <3>1, <3>2, <3>3 DEF FifoPanics
  <2>6. CASE FifoGetCached(enabled, id)
    <3>1. id \in Stored(cache.enabled) /\ id \in store.enabled /\ id \in files
      BY <1>0, <2>6 DEF FifoGetCached, Cached, FifoChain, Chained
    <3>2. last_call' = [call |-> "get", id |-> id, result |-> "ok"]
      BY <2>1, <2>6, <3>1 DEF FifoGetCached, Call
    <3>. QED
      BY <1>0, <2>1, <2>4, <2>6, <3>1, <3>2 DEF FifoGetCached, FifoChain
  <2>7. CASE FifoGetPanics(enabled, id)
    BY <2>5, <2>7 DEF FifoGetPanics
  <2>8. CASE FifoGetMissing(enabled, id)
    <3>1. /\ cached_ids' = KeptIds /\ cache' = KeptCache
          /\ last_call' = [call |-> "get", id |-> id, result |-> StoreGet(enabled, id)]
      BY <2>1, <2>8 DEF FifoGetMissing, Call
    <3>2. (last_call.result = StoreGet(TRUE, last_call.id))' /\ ~ Panicked'
      BY <2>1, <2>4, <3>1
    <3>3. Len(KeptIds) \in Nat /\ MaxLen \in Nat
      BY <1>0, EvictionIsSafe, CacheAssumption
    <3>4. /\ Chained(KeptCache.enabled, KeptIds) /\ Len(KeptIds) <= MaxLen
          /\ KeptIds = <<>> => KeptCache.enabled.last = None
      BY <1>0, <3>3, EvictionIsSafe
    <3>5. Ids(KeptIds) \subseteq store.enabled /\ Ids(KeptIds) \subseteq files
      BY <1>0, EvictionIsSafe DEF FifoChain
    <3>. QED
      BY <2>3, <3>1, <3>2, <3>4, <3>5 DEF FifoChain
  <2>9. CASE FifoGetFetched(enabled, id)
    <3>1. /\ KeptIds \in Seq(TestcaseId) /\ KeptCache \in CacheType
          /\ KeptCache.enabled \in MapType /\ id \notin Ids(KeptIds)
      BY <1>0, <2>9, EvictionIsSafe DEF FifoGetFetched, Cached, CacheType
    <3>2. /\ cached_ids' = <<id>> \o KeptIds
          /\ cache'.enabled = MapAdd(KeptCache.enabled, id)
      BY <2>1, <2>9, <3>1 DEF FifoGetFetched, CacheAdd, CacheType
    <3>3. Chained(cache'.enabled, cached_ids')
      BY <3>1, <3>2, AddChained, <1>0, EvictionIsSafe
    <3>4. id \in Stored(cache'.enabled)
      BY <3>2 DEF MapAdd, Stored
    <3>5. last_call' = [call |-> "get", id |-> id, result |-> "ok"]
      BY <2>1, <2>9, <3>4 DEF FifoGetFetched, Call
    <3>6. (last_call.result = StoreGet(TRUE, last_call.id))' /\ ~ Panicked'
      BY <2>1, <2>4, <2>9, <3>5 DEF FifoGetFetched
    <3>7. id \in store.enabled \cap files
      BY <2>1, <2>9 DEF FifoGetFetched, StoreGet, StoreHas
    <3>8. Ids(cached_ids') \subseteq store.enabled \cap files
      <4>. SUFFICES ASSUME NEW i \in 1 .. Len(cached_ids') PROVE cached_ids'[i] \in store.enabled \cap files
        BY DEF Ids
      <4>1. CASE i = 1
        BY <3>1, <3>2, <3>7, <4>1
      <4>2. CASE i # 1
        <5>1. i - 1 \in 1 .. Len(KeptIds) /\ cached_ids'[i] = KeptIds[i - 1]
          BY <3>1, <3>2, <4>2
        <5>2. Ids(KeptIds) \subseteq store.enabled \cap files
          BY <1>0, EvictionIsSafe DEF FifoChain
        <5>. QED
          BY <5>1, <5>2 DEF Ids
      <4>. QED
        BY <4>1, <4>2
    <3>9. cached_ids' # <<>> /\ Len(cached_ids') <= MaxLen
      <4>1. Len(KeptIds) < MaxLen /\ MaxLen \in Nat /\ Len(KeptIds) \in Nat
        BY <1>0, <3>1, EvictionIsSafe, CacheAssumption
      <4>2. Len(cached_ids') = Len(KeptIds) + 1
        BY <3>1, <3>2
      <4>. QED
        BY <4>1, <4>2
    <3>. QED
      BY <2>3, <3>3, <3>6, <3>8, <3>9 DEF FifoChain
  <2>. QED
    BY <2>2, <2>6, <2>7, <2>8, <2>9 DEF FifoGet
<1>4. CASE Schedule
  BY <1>0, <1>4 DEF Schedule, Call, FifoChain
<1>5. CASE UNCHANGED vars
  BY <1>0, <1>5 DEF vars, FifoChain, StoreGet, StoreHas
<1>. QED
  BY <1>2, <1>3, <1>4, <1>5 DEF Next

-----------------------------------------------------------------------------
(* An identity cache, as long as every testcase can be written.            *)

\* The enabled map has nothing that the store would not find.
IdentityStored ==
    /\ store.enabled \subseteq files
    /\ Stored(cache.enabled) \subseteq store.enabled
    /\ last_call.call = "get" => last_call.result = StoreGet(TRUE, last_call.id)

IdentityInv ==
    policy = "identity" =>
        /\ ~ Panicked
        /\ "failed_save" \notin happened => IdentityStored

\* What add puts in a map, and that the disabled one is none of get's business.
LEMMA CacheAddEnabled ==
  ASSUME NEW c \in CacheType, NEW id \in TestcaseId
  PROVE  /\ Stored(CacheAdd(c, TRUE, id).enabled) = Stored(c.enabled) \cup {id}
         /\ CacheAdd(c, TRUE, id).disabled = c.disabled
         /\ CacheAdd(c, FALSE, id).enabled = c.enabled
         /\ Stored(CacheAdd(c, FALSE, id).disabled) = Stored(c.disabled) \cup {id}
BY DEF CacheAdd, CacheType, Map, MapAdd, Stored

\* A history grows.
LEMMA HistoryGrows == [Next]_vars => happened \subseteq happened'
<1>1. \A call, id, result : Call(call, id, result) => happened \subseteq happened'
  BY DEF Call
<1>2. ASSUME NEW id \in TestcaseId, NEW enabled \in BOOLEAN, Add(enabled, id)
      PROVE  happened \subseteq happened'
  BY <1>1, <1>2 DEF Add, AddDuplicate, AddStored, AddFails
<1>3. ASSUME NEW id \in TestcaseId, NEW enabled \in BOOLEAN, Get(enabled, id)
      PROVE  happened \subseteq happened'
  BY <1>1, <1>3 DEF Get, FifoGet, FifoGetCached, FifoGetPanics, FifoGetMissing,
                    FifoGetFetched, IdentityGet
<1>. QED
  BY <1>1, <1>2, <1>3 DEF Next, Schedule, vars

\* Initially.
LEMMA IdentityInvInit == Init => IdentityInv
BY DEF Init, IdentityInv, IdentityStored, Panicked, EmptyMap, Stored

\* Every call keeps it.
LEMMA IdentityInvStep ==
  ASSUME TypeOK, IdentityInv, [Next]_vars
  PROVE  IdentityInv'
<1>. USE DEF cacheVars, storeVars, scheduler, Panicked
<1>. SUFFICES ASSUME policy = "identity"
              PROVE  /\ ~ Panicked'
                     /\ "failed_save" \notin happened' => IdentityStored'
  BY PolicyKept DEF IdentityInv
<1>0. cache \in CacheType /\ ~ Panicked
      /\ ("failed_save" \notin happened' => IdentityStored)
  BY HistoryGrows DEF TypeOK, CacheType, IdentityInv
<1>1. ASSUME NEW id \in TestcaseId, NEW enabled \in BOOLEAN, Add(enabled, id)
      PROVE  ~ Panicked' /\ ("failed_save" \notin happened' => IdentityStored')
  <2>1. cache' = CacheAdd(cache, enabled, id)
    BY <1>1 DEF Add, AddDuplicate, AddStored, AddFails, CacheOnAdd
  <2>2. Stored(cache'.enabled) \subseteq Stored(cache.enabled) \cup (IF enabled THEN {id} ELSE {})
    BY <1>0, <2>1, CacheAddEnabled, ZenonT(60)
  <2>3. CASE AddDuplicate(enabled, id)
    BY <1>0, <2>2, <2>3 DEF AddDuplicate, Call, IdentityStored, Map
  <2>4. CASE AddStored(enabled, id)
    <3>1. /\ store'.enabled = store.enabled \cup (IF enabled THEN {id} ELSE {})
          /\ files' = files \cup {id}
          /\ last_call'.call = "add" /\ last_call'.result = "stored"
      BY <2>4 DEF AddStored, Call, Map, TypeOK
    <3>. QED
      BY <1>0, <2>2, <3>1 DEF IdentityStored
  <2>5. CASE AddFails(enabled, id)
    BY <2>5 DEF AddFails, Call
  <2>. QED
    BY <1>1, <2>3, <2>4, <2>5 DEF Add
<1>2. ASSUME NEW id \in TestcaseId, NEW enabled \in BOOLEAN, Get(enabled, id)
      PROVE  ~ Panicked' /\ ("failed_save" \notin happened' => IdentityStored')
  <2> DEFINE found == id \in Stored(cache.enabled)
             fetched == ~ found /\ StoreGet(enabled, id) = "ok"
             answer == IF found THEN "ok" ELSE StoreGet(enabled, id)
  <2>1. /\ cache' = IF fetched THEN CacheAdd(cache, enabled, id) ELSE cache
        /\ last_call' = [call |-> GetName(enabled), id |-> id, result |-> answer]
        /\ UNCHANGED storeVars
    BY <1>2 DEF Get, FifoGet, IdentityGet, Call
  <2>2. StoreGet(enabled, id) \in {"not_found", "io_error", "ok"}
    BY DEF StoreGet
  <2>3. (fetched /\ enabled) => id \in store.enabled
    BY DEF StoreGet, StoreHas
  <2>4. Stored(cache'.enabled) \subseteq
          Stored(cache.enabled) \cup (IF fetched /\ enabled THEN {id} ELSE {})
    BY <1>0, <2>1, CacheAddEnabled, ZenonT(60)
  <2>5. ASSUME IdentityStored, last_call'.call = "get"
        PROVE  (last_call.result = StoreGet(TRUE, last_call.id))'
    <3>1. enabled = TRUE
      BY <2>1, <2>5 DEF GetName
    <3>2. found => StoreGet(TRUE, id) = "ok"
      BY <2>5 DEF IdentityStored, StoreGet, StoreHas
    <3>3. answer = StoreGet(TRUE, id) /\ last_call'.result = answer /\ last_call'.id = id
      BY <2>1, <3>1, <3>2
    <3>. QED
      BY <2>1, <3>3 DEF StoreGet, StoreHas
  <2>6. ~ Panicked'
    BY <2>1, <2>2
  <2>7. IdentityStored => IdentityStored'
    BY <2>1, <2>3, <2>4, <2>5 DEF IdentityStored
  <2>. QED
    BY <1>0, <2>6, <2>7
<1>3. CASE Schedule
  BY <1>0, <1>3 DEF Schedule, Call, IdentityStored
<1>4. CASE UNCHANGED vars
  BY <1>0, <1>4 DEF vars, IdentityStored, StoreGet, StoreHas
<1>. QED
  BY <1>1, <1>2, <1>3, <1>4 DEF Next

-----------------------------------------------------------------------------
(* The list of the FIFO cache, and the queue.                              *)

\* A list that loses its oldest id loses just that one.
LEMMA ShorterList ==
  ASSUME NEW s \in Seq(TestcaseId), Distinct(s), Len(s) > 0
  PROVE  LET t == SubSeq(s, 1, Len(s) - 1) IN
         /\ t \in Seq(TestcaseId) /\ Len(t) = Len(s) - 1 /\ Distinct(t)
         /\ Ids(t) = Ids(s) \ {s[Len(s)]}
<1> DEFINE t == SubSeq(s, 1, Len(s) - 1)
<1>0. Len(s) \in Nat /\ Len(s) \in 1 .. Len(s) /\ Len(s) - 1 \in Nat
  OBVIOUS
<1>1. /\ t \in Seq(TestcaseId) /\ Len(t) = Len(s) - 1
      /\ \A i \in 1 .. Len(t) : t[i] = s[i]
      /\ Len(s) \in 1 .. Len(s)
  <2>1. \A i \in 1 .. Len(s) - 1 : s[i] \in TestcaseId /\ i \in 1 .. Len(s)
    BY <1>0
  <2>2. Len(t) = Len(s) - 1 /\ \A i \in 1 .. Len(s) - 1 : t[i] = s[i]
    <3>1. t = [i \in 1 .. Len(s) - 1 |-> s[i]]
      BY <1>0, SMTT(60)
    <3>. HIDE DEF t
    <3>. QED
      BY <1>0, <3>1, SMTT(60)
  <2>3. t \in Seq(TestcaseId)
    BY <1>0, <2>1
  <2>. QED
    BY <1>0, <2>2, <2>3
<1>2. Distinct(t)
  BY <1>1 DEF Distinct
<1>3. ASSUME NEW i \in 1 .. Len(t) PROVE t[i] \in Ids(s) \ {s[Len(s)]}
  BY <1>1 DEF Distinct, Ids
<1>4. ASSUME NEW i \in 1 .. Len(s), s[i] # s[Len(s)] PROVE s[i] \in Ids(t)
  <2>1. i \in 1 .. Len(t)
    BY <1>1, <1>4
  <2>. QED
    BY <1>1, <2>1 DEF Ids
<1>5. Ids(t) = Ids(s) \ {s[Len(s)]}
  BY <1>3, <1>4 DEF Ids
<1>. QED
  BY <1>1, <1>2, <1>5

\* A list that gets a new id in front.
LEMMA LongerList ==
  ASSUME NEW s \in Seq(TestcaseId), NEW id \in TestcaseId, Distinct(s), id \notin Ids(s)
  PROVE  LET t == <<id>> \o s IN
         Len(t) = Len(s) + 1 /\ Distinct(t) /\ Ids(t) = Ids(s) \cup {id}
<1> DEFINE t == <<id>> \o s
<1>1. /\ Len(t) = Len(s) + 1 /\ t[1] = id /\ Len(s) \in Nat
      /\ \A i \in 1 .. Len(s) : t[i + 1] = s[i] /\ i + 1 \in 1 .. Len(t)
      /\ \A i \in 2 .. Len(t) : t[i] = s[i - 1] /\ i - 1 \in 1 .. Len(s)
  OBVIOUS
<1>2. ASSUME NEW i \in 1 .. Len(t), NEW j \in 1 .. Len(t), t[i] = t[j] PROVE i = j
  <2>1. CASE i = 1 /\ j # 1
    BY <1>1, <1>2, <2>1 DEF Ids
  <2>2. CASE i # 1 /\ j = 1
    BY <1>1, <1>2, <2>2 DEF Ids
  <2>3. CASE i # 1 /\ j # 1
    <3>1. s[i - 1] = s[j - 1] /\ i - 1 \in 1 .. Len(s) /\ j - 1 \in 1 .. Len(s)
      BY <1>1, <1>2, <2>3
    <3>. QED
      BY <3>1 DEF Distinct
  <2>. QED
    BY <2>1, <2>2, <2>3
<1>3. ASSUME NEW i \in 1 .. Len(t) PROVE t[i] \in Ids(s) \cup {id}
  BY <1>1 DEF Ids
<1>4. ASSUME NEW i \in 1 .. Len(s) PROVE s[i] \in Ids(t)
  BY <1>1 DEF Ids
<1>5. id \in Ids(t)
  BY <1>1 DEF Ids
<1>6. Ids(t) = Ids(s) \cup {id}
  BY <1>3, <1>4, <1>5 DEF Ids
<1>. QED
  BY <1>1, <1>2, <1>6 DEF Distinct

\* Initially.
LEMMA CacheIsListedInit == Init => CacheIsListed
<1>1. Ids(<<>>) = {} /\ Distinct(<<>>) /\ Len(<<>>) = 0 /\ DOMAIN <<>> = {}
  BY DEF Ids, Distinct
<1>. QED
  BY <1>1, CacheAssumption DEF Init, CacheIsListed, EmptyMap, Stored

\* What an eviction leaves is listed still.
LEMMA EvictionIsListed ==
  ASSUME TypeOK, CacheIsListed, policy = "fifo", ~ (Full /\ MaxLen = 0)
  PROVE  /\ KeptIds \in Seq(TestcaseId) /\ KeptCache \in CacheType
         /\ Len(KeptIds) + 1 <= MaxLen /\ Len(KeptIds) \in Nat
         /\ Ids(KeptIds) = Stored(KeptCache.enabled) \cup Stored(KeptCache.disabled)
         /\ Stored(KeptCache.enabled) \cap Stored(KeptCache.disabled) = {}
         /\ Distinct(KeptIds) /\ Ids(KeptIds) \subseteq Ids(cached_ids)
<1>1. /\ cached_ids \in Seq(TestcaseId) /\ cache \in CacheType /\ MaxLen \in Nat
      /\ Len(cached_ids) \in Nat /\ Len(cached_ids) <= MaxLen /\ Distinct(cached_ids)
      /\ Ids(cached_ids) = Stored(cache.enabled) \cup Stored(cache.disabled)
      /\ Stored(cache.enabled) \cap Stored(cache.disabled) = {}
  BY CacheAssumption DEF TypeOK, CacheType, CacheIsListed
<1>2. KeptIds \in Seq(TestcaseId) /\ KeptCache \in CacheType /\ Ids(KeptIds) \subseteq Ids(cached_ids)
  BY <1>1, KeptType
<1>3. CASE ~ Full
  BY <1>1, <1>2, <1>3 DEF Full, KeptIds, KeptCache
<1>4. CASE Full
  <2>1. Len(cached_ids) > 0 /\ Len(cached_ids) = MaxLen
    BY <1>1, <1>4 DEF Full
  <2>2. /\ Len(KeptIds) = MaxLen - 1 /\ Distinct(KeptIds)
        /\ Ids(KeptIds) = Ids(cached_ids) \ {Oldest}
    BY <1>1, <1>4, <2>1, ShorterList DEF KeptIds, Oldest
  <2>3. \A m : Oldest \in Stored(m) => Stored(MapRemove(m, Oldest)) = Stored(m) \ {Oldest} \/ m \notin MapType
    BY DEF MapRemove, Stored, MapType
  <2>4. \A m : Oldest \notin Stored(m) => MapRemove(m, Oldest) = m
    BY DEF MapRemove
  <2>5. cache.enabled \in MapType /\ cache.disabled \in MapType
    BY <1>1 DEF CacheType
  <2>6. /\ Stored(KeptCache.enabled) = Stored(cache.enabled) \ {Oldest}
        /\ Stored(KeptCache.disabled) = Stored(cache.disabled) \ {Oldest}
    <3>1. CASE Oldest \in Stored(cache.enabled)
      <4>1. KeptCache = [cache EXCEPT !.enabled = MapRemove(cache.enabled, Oldest)]
        BY <1>1, <1>4, <3>1 DEF KeptCache, CacheRemove, CacheType
      <4>2. /\ KeptCache.enabled = MapRemove(cache.enabled, Oldest)
            /\ KeptCache.disabled = cache.disabled
        BY <1>1, <4>1 DEF CacheType
      <4>. QED
        BY <1>1, <2>3, <2>5, <3>1, <4>2
    <3>2. CASE Oldest \notin Stored(cache.enabled)
      <4>1. KeptCache = [cache EXCEPT !.disabled = MapRemove(cache.disabled, Oldest)]
        BY <1>1, <1>4, <3>2 DEF KeptCache, CacheRemove, CacheType
      <4>2. /\ KeptCache.disabled = MapRemove(cache.disabled, Oldest)
            /\ KeptCache.enabled = cache.enabled
        BY <1>1, <4>1 DEF CacheType
      <4>. QED
        BY <1>1, <2>3, <2>4, <2>5, <3>2, <4>2
    <3>. QED
      BY <3>1, <3>2
  <2>. QED
    BY <1>1, <1>2, <2>1, <2>2, <2>6
<1>. QED
  BY <1>3, <1>4

\* Every call keeps the list.
LEMMA CacheIsListedStep ==
  ASSUME TypeOK, CacheIsListed, [Next]_vars
  PROVE  CacheIsListed'
<1>. USE DEF cacheVars, storeVars, scheduler
<1>. SUFFICES ASSUME policy = "fifo" PROVE CacheIsListed'
  BY PolicyKept DEF CacheIsListed
<1>1. CASE UNCHANGED <<policy, cached_ids, cache>>
  BY <1>1 DEF CacheIsListed
<1>2. ASSUME NEW id \in TestcaseId, NEW enabled \in BOOLEAN, Add(enabled, id)
      PROVE  CacheIsListed'
  BY <1>1, <1>2 DEF Add, AddDuplicate, AddStored, AddFails, CacheOnAdd
<1>3. ASSUME NEW id \in TestcaseId, NEW enabled \in BOOLEAN, Get(enabled, id)
      PROVE  CacheIsListed'
  <2>1. FifoGet(enabled, id)
    BY <1>3 DEF Get, IdentityGet
  <2>2. CASE FifoGetCached(enabled, id) \/ FifoGetPanics(enabled, id)
    BY <1>1, <2>2 DEF FifoGetCached, FifoGetPanics
  <2>3. CASE FifoGetMissing(enabled, id)
    <3>1. cached_ids' = KeptIds /\ cache' = KeptCache /\ ~ (Full /\ MaxLen = 0)
      BY <2>3 DEF FifoGetMissing, FifoPanics
    <3>2. MaxLen \in Nat
      BY CacheAssumption
    <3>. QED
      BY <3>1, <3>2, EvictionIsListed DEF CacheIsListed
  <2>4. CASE FifoGetFetched(enabled, id)
    <3>1. /\ cached_ids' = <<id>> \o KeptIds /\ cache' = CacheAdd(KeptCache, enabled, id)
          /\ ~ (Full /\ MaxLen = 0) /\ id \notin Ids(cached_ids)
      BY <2>4 DEF FifoGetFetched, FifoPanics, Cached
    <3>2. id \notin Ids(KeptIds)
      BY <3>1, EvictionIsListed
    <3>3. /\ Len(cached_ids') = Len(KeptIds) + 1 /\ Distinct(cached_ids')
          /\ Ids(cached_ids') = Ids(KeptIds) \cup {id}
      BY <3>1, <3>2, EvictionIsListed, LongerList
    <3>4. /\ Stored(cache'.enabled) =
               Stored(KeptCache.enabled) \cup (IF enabled THEN {id} ELSE {})
          /\ Stored(cache'.disabled) =
               Stored(KeptCache.disabled) \cup (IF enabled THEN {} ELSE {id})
      <4>1. KeptCache \in CacheType
        BY <3>1, EvictionIsListed
      <4>. QED
        BY <3>1, <4>1, CacheAddEnabled, ZenonT(60)
    <3>5. /\ Len(cached_ids') <= MaxLen
          /\ Ids(cached_ids') = Stored(cache'.enabled) \cup Stored(cache'.disabled)
          /\ Stored(cache'.enabled) \cap Stored(cache'.disabled) = {}
      BY <3>1, <3>2, <3>3, <3>4, EvictionIsListed
    <3>. QED
      BY <3>3, <3>5 DEF CacheIsListed
  <2>. QED
    BY <2>1, <2>2, <2>3, <2>4 DEF FifoGet
<1>4. CASE Schedule \/ UNCHANGED vars
  BY <1>1, <1>4 DEF Schedule, vars
<1>. QED
  BY <1>2, <1>3, <1>4 DEF Next

\* The FIFO cache lists what it holds, each testcase once and never too many,
\* also after get_from_all has put testcases in the disabled map.
THEOREM FifoListsItsCache == Spec => []CacheIsListed
<1>1. Init => TypeOK /\ CacheIsListed
  BY TypeOKInit, CacheIsListedInit
<1>2. (TypeOK /\ CacheIsListed) /\ [Next]_vars => (TypeOK /\ CacheIsListed)'
  BY TypeOKStep, CacheIsListedStep
<1>. QED
  BY <1>1, <1>2, PTL DEF Spec

\* What was saved has its id in one of the maps of the store.
SavedIsKnown == files \subseteq store.enabled \cup store.disabled

\* A queue that gets an id at its end.
LEMMA QueueGrows ==
  ASSUME NEW s \in Seq(TestcaseId), NEW id \in TestcaseId
  PROVE  /\ Ids(Append(s, id)) = Ids(s) \cup {id}
         /\ \A i, j \in 1 .. Len(Append(s, id)) :
              (Append(s, id)[i] = Append(s, id)[j] /\ i # j) =>
                \/ i \in 1 .. Len(s) /\ j \in 1 .. Len(s) /\ s[i] = s[j]
                     /\ Append(s, id)[i] = s[i]
                \/ Append(s, id)[i] = id /\ id \in Ids(s)
<1> DEFINE t == Append(s, id)
<1>1. /\ Len(t) = Len(s) + 1 /\ Len(s) \in Nat /\ t[Len(t)] = id
      /\ \A i \in 1 .. Len(s) : t[i] = s[i]
      /\ \A i \in 1 .. Len(t) : i = Len(t) \/ i \in 1 .. Len(s)
      /\ Len(t) \in 1 .. Len(t) /\ \A i \in 1 .. Len(s) : i \in 1 .. Len(t)
  OBVIOUS
<1>. HIDE DEF t
<1>2. Ids(t) = Ids(s) \cup {id}
  <2>1. ASSUME NEW i \in 1 .. Len(t) PROVE t[i] \in Ids(s) \cup {id}
    BY <1>1 DEF Ids
  <2>2. ASSUME NEW i \in 1 .. Len(s) PROVE s[i] \in Ids(t)
    BY <1>1 DEF Ids
  <2>3. id \in Ids(t)
    BY <1>1 DEF Ids
  <2>. QED
    BY <2>1, <2>2, <2>3 DEF Ids
<1>3. ASSUME NEW i \in 1 .. Len(t), NEW j \in 1 .. Len(t), t[i] = t[j], i # j
      PROVE  \/ i \in 1 .. Len(s) /\ j \in 1 .. Len(s) /\ s[i] = s[j] /\ t[i] = s[i]
             \/ t[i] = id /\ id \in Ids(s)
  BY <1>1, <1>3 DEF Ids
<1>. QED
  BY <1>2, <1>3 DEF t

\* Initially.
LEMMA QueueIsCorpusInit == Init => QueueIsCorpus /\ SavedIsKnown
<1>1. Ids(<<>>) = {} /\ Len(<<>>) = 0
  BY DEF Ids
<1>. QED
  BY <1>1 DEF Init, QueueIsCorpus, SavedIsKnown

\* Every call keeps the queue.
LEMMA QueueIsCorpusStep ==
  ASSUME TypeOK, QueueIsCorpus, SavedIsKnown, [Next]_vars
  PROVE  QueueIsCorpus' /\ SavedIsKnown'
<1>. USE DEF cacheVars, storeVars, scheduler
<1>1. ASSUME UNCHANGED <<store, files, queue>>
      PROVE  QueueIsCorpus' /\ SavedIsKnown'
  BY <1>1, HistoryGrows DEF QueueIsCorpus, SavedIsKnown
<1>2. ASSUME NEW id \in TestcaseId, NEW enabled \in BOOLEAN, Add(enabled, id)
      PROVE  QueueIsCorpus' /\ SavedIsKnown'
  <2>1. CASE AddDuplicate(enabled, id)
    BY <1>1, <2>1 DEF AddDuplicate
  <2>2. CASE AddStored(enabled, id)
    <3>1. /\ store' = [store EXCEPT ![Map(enabled)] = @ \cup {id}]
          /\ files' = files \cup {id} /\ queue' = Append(queue, id)
          /\ id \notin store[Map(enabled)] /\ queue \in Seq(TestcaseId)
      BY <2>2 DEF AddStored, TypeOK
    <3>2. /\ store'.enabled = store.enabled \cup (IF enabled THEN {id} ELSE {})
          /\ store'.disabled = store.disabled \cup (IF enabled THEN {} ELSE {id})
          /\ IF enabled THEN id \notin store.enabled ELSE id \notin store.disabled
      BY <3>1 DEF Map, TypeOK
    <3>3. id \in Ids(queue) => id \in store'.disabled
      BY <3>2 DEF QueueIsCorpus, SavedIsKnown
    <3>4. Ids(queue') = files' /\ SavedIsKnown'
      BY <3>1, <3>2, QueueGrows DEF QueueIsCorpus, SavedIsKnown
    <3>5. "failed_save" \notin happened' => store'.enabled \subseteq files'
      BY <3>1, <3>2, HistoryGrows DEF QueueIsCorpus
    <3>6. ASSUME NEW i \in 1 .. Len(queue'), NEW j \in 1 .. Len(queue'),
                 queue'[i] = queue'[j], i # j
          PROVE  queue'[i] \in store'.disabled
      <4>1. \/ /\ i \in 1 .. Len(queue) /\ j \in 1 .. Len(queue) /\ queue[i] = queue[j]
               /\ queue'[i] = queue[i]
            \/ queue'[i] = id /\ id \in Ids(queue)
        BY <3>1, <3>6, QueueGrows
      <4>. QED
        BY <3>2, <3>3, <3>6, <4>1 DEF QueueIsCorpus
    <3>. QED
      BY <3>4, <3>5, <3>6 DEF QueueIsCorpus
  <2>3. CASE AddFails(enabled, id)
    <3>1. /\ store.disabled \subseteq store'.disabled /\ store.enabled \subseteq store'.enabled
          /\ UNCHANGED <<files, queue>> /\ "failed_save" \in happened'
      BY <2>3 DEF AddFails, Call, Map, TypeOK
    <3>. QED
      BY <3>1 DEF QueueIsCorpus, SavedIsKnown
  <2>. QED
    BY <1>2, <2>1, <2>2, <2>3 DEF Add
<1>3. ASSUME NEW id \in TestcaseId, NEW enabled \in BOOLEAN, Get(enabled, id)
      PROVE  UNCHANGED <<store, files, queue>>
  BY <1>3 DEF Get, FifoGet, FifoGetCached, FifoGetPanics, FifoGetMissing, FifoGetFetched,
              IdentityGet
<1>4. CASE Schedule \/ UNCHANGED vars
  BY <1>1, <1>4 DEF Schedule, vars
<1>. QED
  BY <1>1, <1>2, <1>3, <1>4 DEF Next

\* The scheduler has what was saved, and nothing twice that was only added
\* enabled, whichever writes fail.
THEOREM SchedulerHasTheCorpus == Spec => []QueueIsCorpus
<1>1. Init => TypeOK /\ QueueIsCorpus /\ SavedIsKnown
  BY TypeOKInit, QueueIsCorpusInit
<1>2. /\ TypeOK /\ QueueIsCorpus /\ SavedIsKnown
      /\ [Next]_vars
      => (TypeOK /\ QueueIsCorpus /\ SavedIsKnown)'
  BY TypeOKStep, QueueIsCorpusStep
<1>. QED
  BY <1>1, <1>2, PTL DEF Spec

-----------------------------------------------------------------------------
(* What neither cache lets its user notice.                                *)

\* No call panics: the entries that evictions unwrap are there, if a FIFO
\* cache has room for two and get_from_all is not used.
THEOREM CorpusNeverPanics == Spec => []NeverPanics
<1>1. Init => TypeOK /\ FifoInv /\ IdentityInv
  BY TypeOKInit, FifoInvInit, IdentityInvInit
<1>2. (TypeOK /\ FifoInv /\ IdentityInv) /\ [Next]_vars => (TypeOK /\ FifoInv /\ IdentityInv)'
  BY TypeOKStep, FifoInvStep, IdentityInvStep
<1>3. TypeOK /\ FifoInv /\ IdentityInv => NeverPanics
  BY CacheAssumption DEF TypeOK, FifoInv, FifoChain, FifoOfTwo, IdentityInv, NeverPanics
<1>. QED
  BY <1>1, <1>2, <1>3, PTL DEF Spec

\* get answers what the on-disk store would, whatever is added, evicted or
\* disabled, under the condition that each of the caches has.
THEOREM CacheIsTransparent == Spec => []GetIsTransparent
<1>1. Init => TypeOK /\ FifoInv /\ IdentityInv
  BY TypeOKInit, FifoInvInit, IdentityInvInit
<1>2. (TypeOK /\ FifoInv /\ IdentityInv) /\ [Next]_vars => (TypeOK /\ FifoInv /\ IdentityInv)'
  BY TypeOKStep, FifoInvStep, IdentityInvStep
<1>3. TypeOK /\ FifoInv /\ IdentityInv => GetIsTransparent
  BY CacheAssumption
  DEF TypeOK, FifoInv, FifoChain, FifoOfTwo, IdentityInv, IdentityStored, GetIsTransparent,
      MayBeCached
<1>. QED
  BY <1>1, <1>2, <1>3, PTL DEF Spec

-----------------------------------------------------------------------------
(* The two maps side by side, of CorpusMaps.                               *)

MapsInv ==
    /\ hash \in MapType
    /\ HistoriesAgree
    /\ in_order => /\ order \in Seq(TestcaseId) /\ Chained(hash, order)
                   /\ order = <<>> => hash.last = None

\* Empty maps.
LEMMA MapsInvInit == MapsInit => MapsInv
<1>. SUFFICES ASSUME MapsInit PROVE MapsInv
  OBVIOUS
<1>1. hash = EmptyMap /\ order = <<>> /\ btree = {} /\ history = {}
  BY DEF MapsInit
<1>2. hash \in MapType
  BY <1>1, EmptyMapType
<1>3. Stored(hash) = {} /\ hash.history = {} /\ hash.last = None
  BY <1>1 DEF EmptyMap, Stored
<1>4. Ids(order) = {} /\ Distinct(order) /\ Len(order) = 0 /\ order \in Seq(TestcaseId)
  BY <1>1 DEF Ids, Distinct
<1>. QED
  BY <1>1, <1>2, <1>3, <1>4 DEF MapsInv, HistoriesAgree, Chained

\* The ids in a map after add and after remove, and its history.
LEMMA MapContents ==
  ASSUME NEW m \in MapType, NEW id \in TestcaseId
  PROVE  /\ Stored(MapAdd(m, id)) = Stored(m) \cup {id}
         /\ MapAdd(m, id).history = m.history \cup {id}
         /\ id \in Stored(m) => /\ Stored(MapRemove(m, id)) = Stored(m) \ {id}
                                /\ MapRemove(m, id).history = m.history \ {id}
BY DEF MapAdd, MapRemove, Stored, MapType

\* Every call.
LEMMA MapsInvStep == MapsInv /\ [MapsNext]_(mapVars) => MapsInv'
<1>. SUFFICES ASSUME MapsInv, [MapsNext]_(mapVars) PROVE MapsInv'
  OBVIOUS
<1>1. hash.history = Stored(hash) /\ history = Stored(hash) /\ btree = Stored(hash)
  BY DEF MapsInv, HistoriesAgree
<1>2. ASSUME NEW id \in TestcaseId, AddToMaps(id) PROVE MapsInv'
  <2>1. /\ hash' = MapAdd(hash, id) /\ btree' = btree \cup {id}
        /\ history' = history \cup {id}
        /\ order' = <<id>> \o Without(id)
        /\ in_order' = (in_order /\ id \notin Stored(hash))
    BY <1>2 DEF AddToMaps
  <2>2. hash' \in MapType
    BY <2>1, MapAddType DEF MapsInv
  <2>3. HistoriesAgree'
    <3>1. Stored(hash') = Stored(hash) \cup {id} /\ hash'.history = hash.history \cup {id}
      BY <2>1, MapContents DEF MapsInv
    <3>2. Stored(hash)' = Stored(hash')
      BY DEF Stored, Stored
    <3>. QED
      BY <1>1, <2>1, <3>1, <3>2 DEF HistoriesAgree
  <2>4. ASSUME in_order'
        PROVE  order' \in Seq(TestcaseId) /\ Chained(hash', order') /\ order' # <<>>
    <3>1. in_order /\ id \notin Stored(hash)
      BY <2>1, <2>4
    <3>2. order \in Seq(TestcaseId) /\ Chained(hash, order) /\ (order = <<>> => hash.last = None)
      BY <3>1 DEF MapsInv
    <3>3. id \notin Ids(order)
      BY <3>1, <3>2 DEF Chained
    <3>4. order' = <<id>> \o order
      BY <2>1, <3>3 DEF Without
    <3>5. Chained(MapAdd(hash, id), <<id>> \o order)
      BY <3>2, <3>3, AddChained DEF MapsInv
    <3>6. <<id>> \o order \in Seq(TestcaseId) /\ Len(<<id>> \o order) = 1 + Len(order)
          /\ Len(order) \in Nat
      BY <3>2
    <3>7. <<id>> \o order # <<>>
      <4>1. Len(<<id>> \o order) # 0
        BY <3>6
      <4>. QED
        BY <4>1
    <3>. QED
      BY <2>1, <3>4, <3>5, <3>6, <3>7
  <2>. QED
    BY <2>2, <2>3, <2>4 DEF MapsInv
<1>3. ASSUME NEW id \in TestcaseId, RemoveFromMaps(id) PROVE MapsInv'
  <2>1. /\ id \in Stored(hash) /\ hash' = MapRemove(hash, id) /\ btree' = btree \ {id}
        /\ history' = history \ {id} /\ order' = Without(id)
        /\ in_order' = (in_order /\ id # order[1])
    BY <1>3 DEF RemoveFromMaps
  <2>2. hash' \in MapType
    BY <2>1, MapRemoveType DEF MapsInv
  <2>3. HistoriesAgree'
    <3>1. Stored(hash') = Stored(hash) \ {id} /\ hash'.history = hash.history \ {id}
      BY <2>1, MapContents DEF MapsInv
    <3>2. Stored(hash)' = Stored(hash')
      BY DEF Stored, Stored
    <3>. QED
      BY <1>1, <2>1, <3>1, <3>2 DEF HistoriesAgree
  <2>4. ASSUME in_order'
        PROVE  order' \in Seq(TestcaseId) /\ Chained(hash', order') /\ order' # <<>>
    <3>1. in_order /\ id # order[1]
      BY <2>1, <2>4
    <3>2. order \in Seq(TestcaseId) /\ Chained(hash, order) /\ id \in Ids(order)
      BY <2>1, <3>1 DEF MapsInv, Chained
    <3>. DEFINE i == Place(id)
    <3>3. i \in 1 .. Len(order) /\ order[i] = id
      BY <3>2 DEF Place, Ids
    <3>4. order' = SubSeq(order, 1, i - 1) \o SubSeq(order, i + 1, Len(order))
      BY <2>1, <3>2 DEF Without
    <3>. HIDE DEF i
    <3>5. i \in 2 .. Len(order)
      BY <3>1, <3>2, <3>3
    <3>. QED
      BY <2>1, <3>2, <3>3, <3>4, <3>5, RemoveChained DEF MapsInv
  <2>. QED
    BY <2>2, <2>3, <2>4 DEF MapsInv
<1>4. CASE UNCHANGED mapVars
  BY <1>4 DEF mapVars, MapsInv, HistoriesAgree
<1>. QED
  BY <1>2, <1>3, <1>4 DEF MapsNext

\* Ids that are added once and removed while a newer one is there are linked in the order
\* they were added, in both directions, however many there are.
THEOREM EntriesAreLinked == MapsSpec => []LinkedInOrder
<1>1. MapsInv => LinkedInOrder
  BY DEF MapsInv, LinkedInOrder
<1>. QED
  BY <1>1, MapsInvInit, MapsInvStep, PTL DEF MapsSpec

\* Whatever is added again or removed, the histories of both maps hold the ids that are
\* there.
THEOREM HistoriesAreExact == MapsSpec => []HistoriesAgree
<1>1. MapsInv => HistoriesAgree
  BY DEF MapsInv
<1>. QED
  BY <1>1, MapsInvInit, MapsInvStep, PTL DEF MapsSpec
=============================================================================
