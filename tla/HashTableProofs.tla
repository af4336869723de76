--------------------------- MODULE HashTableProofs ---------------------------
(***************************************************************************)
(* For every set of calls, every hash function and every capacity, what     *)
(* MCHashTable.cfg checks on six calls and three entries: the callsign hash *)
(* table is well formed, its lookups answer with the newest call, and with  *)
(* its shifts and truncations it implements RecentCalls.                    *)
(***************************************************************************)
EXTENDS HashTableSpec, UnpackLemmas, FunctionTheorems, FiniteSetTheorems

\* The table is a well-formed sequence of entries whatever is saved into it, in
\* whatever order (hashTable.Save, unpack.go).
THEOREM TableAlwaysOK == Spec => [](TypeOK /\ TableOK)
<1>1. Init => TypeOK /\ TableOK
  BY MaxHashAssumption DEF Init, TypeOK, TableOK, WellFormed
<1>2. TypeOK /\ TableOK /\ [Next]_calls22 => (TypeOK /\ TableOK)'
  <2> SUFFICES ASSUME TypeOK, TableOK, [Next]_calls22
               PROVE  (TypeOK /\ TableOK)'
    OBVIOUS
  <2>1. CASE Next
    BY <2>1, SaveWellFormed DEF Next, SaveCall, TypeOK, TableOK
  <2>2. CASE UNCHANGED calls22
    BY <2>2 DEF TypeOK, TableOK
  <2> QED BY <2>1, <2>2
<1> QED BY <1>1, <1>2, PTL DEF Spec
------------------------------------------------------------------------------
\* A table read as a map: it holds every entry's call under the entry's hash.
LEMMA HolderReads ==
    ASSUME NEW table \in Seq(Entry), WellFormed(table)
    PROVE  /\ DOMAIN HolderOf(table) = {table[i].hash : i \in 1..Len(table)}
           /\ \A i \in 1..Len(table) : HolderOf(table)[table[i].hash] = table[i].call
           /\ \A i \in 1..Len(table) : Lookup22(table, table[i].hash) = table[i].call
<1>1. Len(table) \in Nat /\ DOMAIN table = 1..Len(table)
  BY LenProperties
<1>2. DOMAIN HolderOf(table) = {table[i].hash : i \in 1..Len(table)}
  BY <1>1 DEF HolderOf
<1>3. ASSUME NEW i \in 1..Len(table)
      PROVE  Lookup22(table, table[i].hash) = table[i].call
  <2>1. i \in Hits(table, table[i].hash)
    BY <1>1 DEF Hits
  <2>2. First(Hits(table, table[i].hash)) \in Hits(table, table[i].hash)
    BY <2>1, FirstHit
  <2>3. First(Hits(table, table[i].hash)) = i
    BY <2>2, <1>1 DEF Hits, WellFormed
  <2> QED BY <2>1, <2>3 DEF Lookup22
<1>4. ASSUME NEW i \in 1..Len(table)
      PROVE  HolderOf(table)[table[i].hash] = table[i].call
  BY <1>1, <1>3 DEF HolderOf
<1> QED BY <1>2, <1>3, <1>4

\* One hash is newer than another exactly when its entry comes first.
LEMMA NewerReads ==
    ASSUME NEW table \in Seq(Entry), WellFormed(table)
    PROVE  /\ \A i, j \in 1..Len(table) :
                  <<table[i].hash, table[j].hash>> \in NewerOf(table) <=> i < j
           /\ \A p \in NewerOf(table) : \E i, j \in 1..Len(table) :
                  i < j /\ p = <<table[i].hash, table[j].hash>>
<1>1. Len(table) \in Nat /\ DOMAIN table = 1..Len(table)
  BY LenProperties
<1>2. ASSUME NEW p \in NewerOf(table)
      PROVE  \E i, j \in 1..Len(table) : i < j /\ p = <<table[i].hash, table[j].hash>>
  BY <1>1 DEF NewerOf
<1>3. ASSUME NEW i \in 1..Len(table), NEW j \in 1..Len(table), i < j
      PROVE  <<table[i].hash, table[j].hash>> \in NewerOf(table)
  <2>1. <<i, j>> \in {q \in (DOMAIN table) \X (DOMAIN table) : q[1] < q[2]}
    BY <1>1, <1>3
  <2> QED BY <2>1 DEF NewerOf
<1>4. ASSUME NEW i \in 1..Len(table), NEW j \in 1..Len(table),
             <<table[i].hash, table[j].hash>> \in NewerOf(table)
      PROVE  i < j
  <2>1. PICK k \in 1..Len(table), l \in 1..Len(table) :
               k < l /\ <<table[i].hash, table[j].hash>> = <<table[k].hash, table[l].hash>>
    BY <1>2, <1>4
  <2>2. table[i].hash = table[k].hash /\ table[j].hash = table[l].hash
    BY <2>1
  <2>3. i = k /\ j = l
    BY <1>1, <2>2 DEF WellFormed
  <2> QED BY <2>1, <2>3
<1> QED BY <1>2, <1>3, <1>4

\* `after` is the call's entry in front of entries of `table` in their old
\* order, from[k] being where the k-th was; `others` are the hashes of those.
PutInFront(table, after, call, from, others) ==
    /\ table \in Seq(Entry) /\ WellFormed(table)
    /\ after \in Seq(Entry) /\ WellFormed(after)
    /\ Len(after) > 0 /\ after[1].hash = Hash22[call] /\ after[1].call = call
    /\ from \in [2..Len(after) -> 1..Len(table)]
    /\ \A k \in 2..Len(after) : after[k] = table[from[k]]
    /\ \A k, l \in 2..Len(after) : k < l => from[k] < from[l]
    /\ \A k \in 2..Len(after) : table[from[k]].hash \in others
    /\ \A h \in others : \E k \in 2..Len(after) : h = table[from[k]].hash

\* The tables read as RecentCalls before and after it hears the call, when it
\* keeps the other hashes: their calls and order stay, the new one is newest.
ReadsAsHeard(table, after, call, others) ==
    /\ HolderOf(after) = [h \in others \cup {Hash22[call]} |->
          IF h = Hash22[call] THEN call ELSE HolderOf(table)[h]]
    /\ NewerOf(after) = (NewerOf(table) \cap (others \X others))
                           \cup ({Hash22[call]} \X others)

\* Such a table reads as RecentCalls does after hearing the new call: the others
\* keep their calls and their order, and the new hash is newer than all of them.
LEMMA FrontReads ==
    ASSUME NEW table, NEW after, NEW call, NEW from, NEW others,
           PutInFront(table, after, call, from, others)
    PROVE  ReadsAsHeard(table, after, call, others)
<1> USE DEF PutInFront
<1> DEFINE n22 == Hash22[call]
           n == Len(after)
<1>1. n \in Nat /\ 1 \in 1..n /\ Len(table) \in Nat
  BY LenProperties
<1>2. ASSUME NEW k \in 2..n
      PROVE  k \in 1..n /\ from[k] \in 1..Len(table) /\ after[k].hash = table[from[k]].hash
  <2>1. k \in 1..n
    BY <1>1
  <2>2. after[k] = table[from[k]]
    OBVIOUS
  <2> QED BY <2>1, <2>2
<1>3. \A k \in 1..n : k = 1 \/ k \in 2..n
  BY <1>1
<1>4. after[1].hash = n22 /\ after[1].call = call
  OBVIOUS
<1>5. n22 \notin others
  <2> SUFFICES ASSUME n22 \in others PROVE FALSE
    OBVIOUS
  <2>1. PICK k \in 2..n : table[from[k]].hash = n22
    OBVIOUS
  <2>2. after[k].hash = after[1].hash /\ k \in 1..n /\ k # 1 /\ DOMAIN after = 1..n
    BY <1>1, <1>2, <1>4, <2>1, LenProperties
  <2> QED BY <1>1, <2>2 DEF WellFormed
<1>6. {after[k].hash : k \in 1..n} = others \cup {n22}
  <2>1. ASSUME NEW k \in 1..n PROVE after[k].hash \in others \cup {n22}
    <3>1. CASE k = 1
      BY <1>4, <3>1
    <3>2. CASE k \in 2..n
      BY <1>2, <3>2
    <3> QED BY <1>3, <3>1, <3>2
  <2>2. n22 \in {after[k].hash : k \in 1..n}
    BY <1>1, <1>4
  <2>3. others \subseteq {after[k].hash : k \in 1..n}
    BY <1>2
  <2> QED BY <2>1, <2>2, <2>3
<1>7. HolderOf(after) = [h \in others \cup {n22} |-> IF h = n22 THEN call ELSE HolderOf(table)[h]]
  <2>1. DOMAIN HolderOf(after) = others \cup {n22}
    BY <1>6, HolderReads
  <2>2. HolderOf(after)[n22] = call
    <3>1. HolderOf(after)[after[1].hash] = after[1].call
      BY <1>1, HolderReads
    <3> QED BY <1>4, <3>1
  <2>3. ASSUME NEW k \in 2..n
        PROVE  HolderOf(after)[table[from[k]].hash] = HolderOf(table)[table[from[k]].hash]
    <3>1. k \in 1..n /\ after[k] = table[from[k]] /\ from[k] \in 1..Len(table)
      BY <1>2
    <3>2. HolderOf(after)[after[k].hash] = after[k].call
      BY <3>1, HolderReads
    <3>3. HolderOf(table)[table[from[k]].hash] = table[from[k]].call
      BY <3>1, HolderReads
    <3> QED BY <3>1, <3>2, <3>3
  <2>4. \A h \in others : HolderOf(after)[h] = HolderOf(table)[h]
    BY <2>3
  <2>5. HolderOf(after) = [h \in DOMAIN HolderOf(after) |-> HolderOf(after)[h]]
    BY DEF HolderOf
  <2> QED BY <1>5, <2>1, <2>2, <2>4, <2>5
<1>8. NewerOf(after) \subseteq (NewerOf(table) \cap (others \X others)) \cup ({n22} \X others)
  <2> SUFFICES ASSUME NEW p \in NewerOf(after)
               PROVE  p \in (NewerOf(table) \cap (others \X others)) \cup ({n22} \X others)
    OBVIOUS
  <2>1. PICK k \in 1..n, l \in 1..n : k < l /\ p = <<after[k].hash, after[l].hash>>
    BY NewerReads
  <2>2. l \in 2..n /\ after[l].hash \in others
    BY <1>1, <1>2, <2>1
  <2>3. CASE k = 1
    BY <1>4, <2>1, <2>2, <2>3
  <2>4. CASE k \in 2..n
    <3>1. from[k] < from[l] /\ after[k].hash \in others
      BY <1>2, <2>1, <2>2, <2>4
    <3>2. <<table[from[k]].hash, table[from[l]].hash>> \in NewerOf(table)
      BY <1>2, <2>2, <2>4, <3>1, NewerReads
    <3>3. p = <<table[from[k]].hash, table[from[l]].hash>>
      BY <1>2, <2>1, <2>2, <2>4
    <3>4. p \in others \X others
      BY <2>1, <2>2, <3>1
    <3>5. p \in NewerOf(table)
      BY <3>2, <3>3
    <3> QED BY <3>4, <3>5
  <2> QED BY <1>3, <2>3, <2>4
<1>9. {n22} \X others \subseteq NewerOf(after)
  <2> SUFFICES ASSUME NEW k \in 2..n
               PROVE  <<n22, table[from[k]].hash>> \in NewerOf(after)
    OBVIOUS
  <2>1. <<after[1].hash, after[k].hash>> \in NewerOf(after)
    BY <1>1, <1>2, NewerReads
  <2> QED BY <1>2, <1>4, <2>1
<1>10. NewerOf(table) \cap (others \X others) \subseteq NewerOf(after)
  <2> SUFFICES ASSUME NEW p \in NewerOf(table) \cap (others \X others)
               PROVE  p \in NewerOf(after)
    OBVIOUS
  <2>1. PICK k \in 2..n, l \in 2..n : p = <<table[from[k]].hash, table[from[l]].hash>>
    OBVIOUS
  <2>2. from[k] < from[l]
    BY <1>2, <2>1, NewerReads
  <2>3. k < l
    <3>1. k = l \/ l < k \/ k < l
      BY <1>1
    <3>2. CASE l < k
      BY <1>2, <2>2, <3>2
    <3> QED BY <1>2, <2>2, <3>1, <3>2
  <2>4. <<after[k].hash, after[l].hash>> \in NewerOf(after)
    BY <1>2, <2>3, NewerReads
  <2> QED BY <1>2, <2>1, <2>4
<1> QED BY <1>7, <1>8, <1>9, <1>10 DEF ReadsAsHeard

\* The hashes that stay when a new one comes in front: all of them, or all but
\* the last when the table is full.
Surviving(table) ==
    {table[i].hash : i \in 1..(IF Len(table) < MaxHash THEN Len(table) ELSE Len(table) - 1)}

\* Saving a call under a new hash reads as hearing it: the last entry is the one
\* cut off, and only when the table is full (hashTable.Save, unpack.go).
LEMMA PushFrontReads ==
    ASSUME NEW table \in Seq(Entry), WellFormed(table),
           NEW call \in Texts, call \notin Unsavable,
           Hits(table, Hash22[call]) = {}
    PROVE  ReadsAsHeard(table, PushFront(table, [hash |-> Hash22[call], call |-> call]),
                        call, Surviving(table))
<1> DEFINE entry == [hash |-> Hash22[call], call |-> call]
           n == IF Len(table) < MaxHash THEN Len(table) + 1 ELSE MaxHash
           pushed == PushFront(table, entry)
           from == [k \in 2..n |-> k - 1]
           others == Surviving(table)
<1>1. Len(table) \in Nat /\ Len(table) <= MaxHash /\ n \in Nat /\ n > 0
  BY LenProperties, MaxHashAssumption DEF WellFormed
<1>2. pushed \in Seq(Entry) /\ WellFormed(pushed)
  BY PushFrontWellFormed
<1>3. pushed = [k \in 1..n |-> IF k = 1 THEN entry ELSE table[k-1]]
  BY DEF PushFront
<1>4. Len(pushed) = n
  BY <1>1, <1>2, <1>3, LenProperties
<1>5. pushed[1] = entry
  BY <1>1, <1>3
<1>6. from \in [2..n -> 1..Len(table)]
  BY <1>1
<1>7. \A k \in 2..n : pushed[k] = table[from[k]]
  BY <1>1, <1>3
<1>8. \A k, l \in 2..n : k < l => from[k] < from[l]
  BY <1>1
<1>9. /\ \A k \in 2..n : table[from[k]].hash \in others
      /\ \A h \in others : \E k \in 2..n : h = table[from[k]].hash
  <2>1. \A i \in 1..(n - 1) : i + 1 \in 2..n /\ from[i + 1] = i
    BY <1>1
  <2>2. \A k \in 2..n : from[k] \in 1..(n - 1)
    BY <1>1
  <2>3. others = {table[i].hash : i \in 1..(n - 1)}
    BY <1>1, MaxHashAssumption DEF Surviving
  <2> HIDE DEF from, n, others
  <2>4. ASSUME NEW h \in others PROVE \E k \in 2..n : h = table[from[k]].hash
    <3>1. PICK i \in 1..(n - 1) : h = table[i].hash
      BY <2>3
    <3> QED BY <2>1, <3>1
  <2> QED BY <2>2, <2>3, <2>4
<1> HIDE DEF from, n
<1>10. PutInFront(table, pushed, call, from, others)
  <2> HIDE DEF pushed
  <2> QED BY <1>1, <1>2, <1>4, <1>5, <1>6, <1>7, <1>8, <1>9 DEF PutInFront
<1> HIDE DEF from
<1> QED BY <1>10, FrontReads

\* So does saving a call under a hash the table has: its entry comes to the
\* front and nothing is forgotten.
LEMMA MoveToFrontReads ==
    ASSUME NEW table \in Seq(Entry), WellFormed(table),
           NEW call \in Texts, call \notin Unsavable,
           NEW hit \in Hits(table, Hash22[call]),
           NEW others,
           others = {table[i].hash : i \in 1..Len(table)} \ {Hash22[call]}
    PROVE  LET moved == MoveToFront(table, hit, [hash |-> Hash22[call], call |-> call])
           IN  ReadsAsHeard(table, moved, call, others)
<1> DEFINE entry == [hash |-> Hash22[call], call |-> call]
           n == Len(table)
           moved == MoveToFront(table, hit, entry)
           from == [k \in 2..n |-> IF k <= hit THEN k - 1 ELSE k]
<1>1. n \in Nat /\ DOMAIN table = 1..n /\ hit \in 1..n /\ table[hit].hash = Hash22[call]
  BY LenProperties DEF Hits
<1>2. moved \in Seq(Entry) /\ WellFormed(moved)
  BY MoveToFrontWellFormed
<1>3. moved = [k \in 1..n |-> IF k = 1 THEN entry ELSE IF k <= hit THEN table[k-1] ELSE table[k]]
  BY DEF MoveToFront
<1>4. Len(moved) = n
  BY <1>1, <1>2, <1>3, LenProperties
<1>5. moved[1] = entry
  BY <1>1, <1>3
<1>6. from \in [2..n -> 1..n]
  BY <1>1
<1>7. \A k \in 2..n : moved[k] = table[from[k]]
  BY <1>1, <1>3
<1>8. \A k, l \in 2..n : k < l => from[k] < from[l]
  BY <1>1
<1>9. /\ \A k \in 2..n : table[from[k]].hash \in others
      /\ \A h \in others : \E k \in 2..n : h = table[from[k]].hash
  <2>1. \A i \in 1..n : i # hit => \E k \in 2..n : from[k] = i
    <3> SUFFICES ASSUME NEW i \in 1..n, i # hit PROVE \E k \in 2..n : from[k] = i
      OBVIOUS
    <3>1. CASE i < hit
      <4>1. i + 1 \in 2..n /\ from[i + 1] = i
        BY <1>1, <3>1
      <4> QED BY <4>1
    <3>2. CASE i > hit
      <4>1. i \in 2..n /\ from[i] = i
        BY <1>1, <3>2
      <4> QED BY <4>1
    <3> QED BY <1>1, <3>1, <3>2
  <2>2. \A k \in 2..n : from[k] \in 1..n /\ from[k] # hit
    BY <1>1
  <2>3. \A i \in 1..n : table[i].hash = Hash22[call] <=> i = hit
    BY <1>1 DEF WellFormed
  <2>4. others = {table[i].hash : i \in (1..n) \ {hit}}
    BY <2>3
  <2> HIDE DEF from
  <2>5. ASSUME NEW h \in others PROVE \E k \in 2..n : h = table[from[k]].hash
    <3>1. PICK i \in (1..n) \ {hit} : h = table[i].hash
      BY <2>4
    <3> QED BY <2>1, <3>1
  <2> QED BY <2>2, <2>4, <2>5
<1> HIDE DEF from
<1>10. PutInFront(table, moved, call, from, others)
  <2> HIDE DEF moved
  <2> QED BY <1>1, <1>2, <1>4, <1>5, <1>6, <1>7, <1>8, <1>9 DEF PutInFront
<1> HIDE DEF from
<1> QED BY <1>10, FrontReads
------------------------------------------------------------------------------
\* RecentCalls remembers as many hashes as the table has entries, and the one it
\* would forget is the last entry's.
LEMMA RememberedCount ==
    ASSUME TypeOK, TableOK
    PROVE  /\ Recent!Remembered = {calls22[i].hash : i \in 1..Len(calls22)}
           /\ Cardinality(Recent!Remembered) = Len(calls22)
<1> DEFINE n == Len(calls22)
           hashes == {calls22[i].hash : i \in 1..n}
           count == [i \in 1..n |-> calls22[i].hash]
<1>1. Recent!Remembered = hashes
  BY HolderReads DEF TypeOK, TableOK, Recent!Remembered
<1>2. n \in Nat /\ DOMAIN calls22 = 1..n
  BY LenProperties DEF TypeOK
<1>3. count \in Bijection(1..n, hashes)
  <2>1. count \in [1..n -> hashes] /\ \A h \in hashes : \E i \in 1..n : count[i] = h
    OBVIOUS
  <2>2. \A i, j \in 1..n : count[i] = count[j] => i = j
    BY <1>2 DEF TableOK, WellFormed
  <2> QED BY <2>1, <2>2, Fun_IsBij
<1>4. Cardinality(hashes) = n
  BY <1>2, <1>3, FS_CountingElements, Fun_ExistsBij
<1> QED BY <1>1, <1>4

\* RecentCalls counts with the same Cardinality.
LEMMA SameCardinality == \A S : Recent!Cardinality(S) = Cardinality(S)
  BY Zenon DEF Recent!Cardinality, Cardinality

LEMMA OldestIsLast ==
    ASSUME TypeOK, TableOK, Len(calls22) > 0
    PROVE  Recent!Oldest = calls22[Len(calls22)].hash
<1> DEFINE n == Len(calls22)
           last == calls22[n].hash
<1>1. n \in Nat /\ n \in 1..n
  BY LenProperties DEF TypeOK
<1>2. Recent!Remembered = {calls22[i].hash : i \in 1..n}
  BY RememberedCount
<1>3. \A i, j \in 1..n : <<calls22[i].hash, calls22[j].hash>> \in NewerOf(calls22) <=> i < j
  BY NewerReads DEF TypeOK, TableOK
<1>4. last \in Recent!Remembered /\ \A g \in Recent!Remembered : <<last, g>> \notin NewerOf(calls22)
  BY <1>1, <1>2, <1>3
<1>5. ASSUME NEW h \in Recent!Remembered, \A g \in Recent!Remembered : <<h, g>> \notin NewerOf(calls22)
      PROVE  h = last
  <2>1. PICK i \in 1..n : h = calls22[i].hash
    BY <1>2
  <2>2. ~(i < n)
    BY <1>1, <1>3, <1>4, <1>5, <2>1
  <2> QED BY <1>1, <2>1, <2>2
<1> QED BY <1>4, <1>5 DEF Recent!Oldest

\* Every lookup, by the 22-bit and by the 12-bit hash, returns the call saved
\* last among those that have it (Lookup22, Lookup12, unpack.go).
LEMMA NewestAnswers == TypeOK /\ TableOK => LookupsAnswerNewest
<1> SUFFICES ASSUME TypeOK, TableOK PROVE LookupsAnswerNewest
  OBVIOUS
<1> DEFINE n == Len(calls22)
<1>1. n \in Nat /\ DOMAIN calls22 = 1..n
  BY LenProperties DEF TypeOK
<1>2. Recent!Remembered = {calls22[i].hash : i \in 1..n}
  BY RememberedCount
<1>3. /\ \A i \in 1..n : HolderOf(calls22)[calls22[i].hash] = calls22[i].call
      /\ \A i \in 1..n : Lookup22(calls22, calls22[i].hash) = calls22[i].call
  BY HolderReads DEF TypeOK, TableOK
<1>4. \A i, j \in 1..n : <<calls22[i].hash, calls22[j].hash>> \in NewerOf(calls22) <=> i < j
  BY NewerReads DEF TypeOK, TableOK
<1>5. ASSUME NEW h
      PROVE  Lookup22(calls22, h) = Recent!Newest22(h)
  <2>1. CASE h \in Recent!Remembered
    BY <1>2, <1>3, <2>1 DEF Recent!Newest22
  <2>2. CASE h \notin Recent!Remembered
    BY <1>1, <1>2, <2>2 DEF Recent!Newest22, Lookup22, Hits
  <2> QED BY <2>1, <2>2
<1>6. ASSUME NEW h
      PROVE  Lookup12(calls22, h) = Recent!Newest12(h)
  <2> DEFINE matches == {i \in 1..n : Hash12(calls22[i].call) = h}
             recent == {g \in Recent!Remembered : g \div 2^10 = h}
             newest == CHOOSE g \in recent : \A f \in recent : <<f, g>> \notin NewerOf(calls22)
  <2>1. \A i \in 1..n : Hash12(calls22[i].call) = calls22[i].hash \div 2^10
    BY <1>1 DEF Hash12, TableOK, WellFormed
  <2>2. \A i \in 1..n : i \in matches <=> calls22[i].hash \in recent
    BY <1>2, <2>1
  <2>3. \A g \in recent : \E i \in matches : g = calls22[i].hash
    BY <1>2, <2>2
  <2>4. CASE matches = {}
    <3>1. recent = {}
      BY <2>3, <2>4
    <3>2. Recent!Newest12(h) = NoCall
      BY <3>1 DEF Recent!Newest12
    <3> QED BY <1>1, <2>4, <3>2 DEF Lookup12
  <2>5. CASE matches # {}
    <3> DEFINE i == First(matches)
    <3>1. i \in matches /\ \A j \in matches : i <= j
      <4>1. matches \subseteq Nat
        OBVIOUS
      <4> HIDE DEF matches
      <4> QED BY <2>5, <4>1, FirstOf
    <3>2. calls22[i].hash \in recent
      BY <2>2, <3>1
    <3> HIDE DEF i, recent
    <3>3. \A f \in recent : <<f, calls22[i].hash>> \notin NewerOf(calls22)
      BY <1>1, <1>4, <2>3, <3>1
    <3>4. ASSUME NEW g \in recent, \A f \in recent : <<f, g>> \notin NewerOf(calls22)
          PROVE  g = calls22[i].hash
      <4>1. PICK j \in matches : g = calls22[j].hash
        BY <2>3
      <4>2. ~(i < j)
        BY <1>4, <3>1, <3>2, <3>4, <4>1
      <4>3. j = i
        BY <1>1, <3>1, <4>1, <4>2
      <4> QED BY <4>1, <4>3
    <3>5. newest = calls22[i].hash
      BY <3>2, <3>3, <3>4
    <3>6. Lookup12(calls22, h) = calls22[i].call
      BY <1>1, <2>5 DEF Lookup12, i
    <3>7. Recent!Newest12(h) = HolderOf(calls22)[newest]
      BY <3>2 DEF Recent!Newest12, recent
    <3> QED BY <1>3, <3>1, <3>5, <3>6, <3>7
  <2> QED BY <2>4, <2>5
<1> QED BY <1>5, <1>6 DEF LookupsAnswerNewest

THEOREM LookupsAlwaysNewest == Spec => []LookupsAnswerNewest
<1>1. TypeOK /\ TableOK => LookupsAnswerNewest
  BY NewestAnswers
<1> QED BY <1>1, TableAlwaysOK, PTL
------------------------------------------------------------------------------
\* Saving a call Save accepts is hearing it: a new hash pushes the least recent
\* one out of a full table, a known one keeps them all.
LEMMA SaveHears ==
    ASSUME TypeOK, TableOK, NEW call \in Texts, call \notin Unsavable, SaveCall(call)
    PROVE  Recent!Hear(call)
<1> DEFINE n   == Len(calls22)
           n22 == Hash22[call]
           kept == IF \/ n22 \in Recent!Remembered
                      \/ Recent!Cardinality(Recent!Remembered) < MaxHash
                   THEN Recent!Remembered ELSE Recent!Remembered \ {Recent!Oldest}
           others == kept \ {n22}
<1>1. n \in Nat /\ n <= MaxHash /\ DOMAIN calls22 = 1..n
  BY LenProperties DEF TypeOK, TableOK, WellFormed
<1>2. Recent!Remembered = {calls22[i].hash : i \in 1..n} /\ Recent!Cardinality(Recent!Remembered) = n
  BY RememberedCount, SameCardinality
<1>3. n22 \in Recent!Remembered <=> Hits(calls22, n22) # {}
  BY <1>1, <1>2 DEF Hits
<1>4. calls22 \in Seq(Entry) /\ WellFormed(calls22)
  BY DEF TypeOK, TableOK
<1>5. ReadsAsHeard(calls22, calls22', call, others)
  <2>1. CASE n22 \in Recent!Remembered
    <3>1. Hits(calls22, n22) # {} /\ First(Hits(calls22, n22)) \in Hits(calls22, n22)
      BY <1>3, <1>4, <2>1, FirstHit
    <3>2. calls22' = MoveToFront(calls22, First(Hits(calls22, n22)), [hash |-> n22, call |-> call])
      BY <3>1 DEF SaveCall, Save
    <3>3. others = {calls22[i].hash : i \in 1..Len(calls22)} \ {n22}
      BY <1>2, <2>1
    <3> HIDE DEF others
    <3> QED BY <1>4, <3>1, <3>2, <3>3, MoveToFrontReads
  <2>2. CASE n22 \notin Recent!Remembered
    <3>1. calls22' = PushFront(calls22, [hash |-> n22, call |-> call])
      BY <1>3, <2>2 DEF SaveCall, Save
    <3>2. others = Surviving(calls22)
      <4>1. CASE n < MaxHash
        BY <1>2, <2>2, <4>1 DEF Surviving
      <4>2. CASE ~(n < MaxHash)
        <5>1. n > 0 /\ n \in 1..n
          <6> HIDE DEF n
          <6> QED BY <1>1, <4>2, MaxHashAssumption
        <5>2. Recent!Oldest = calls22[n].hash
          BY <5>1, OldestIsLast
        <5>3. others = {calls22[i].hash : i \in 1..n} \ {calls22[n].hash}
          <6> HIDE DEF n
          <6> QED BY <1>2, <2>2, <4>2, <5>2
        <5>4. \A i \in 1..n : calls22[i].hash = calls22[n].hash <=> i = n
          <6> HIDE DEF n
          <6> QED BY <1>1, <1>4, <5>1 DEF WellFormed
        <5>5. \A i \in 1..n : i # n <=> i \in 1..(n - 1)
          <6> HIDE DEF n
          <6> QED BY <1>1
        <5>6. \A i \in 1..(n - 1) : i \in 1..n
          BY <1>1
        <5> HIDE DEF others
        <5>7. others = {calls22[i].hash : i \in 1..(n - 1)}
          BY <5>3, <5>4, <5>5, <5>6
        <5> QED BY <4>2, <5>7 DEF Surviving
      <4> QED BY <4>1, <4>2
    <3>3. Hits(calls22, n22) = {}
      BY <1>3, <2>2
    <3> HIDE DEF others
    <3>4. ReadsAsHeard(calls22, PushFront(calls22, [hash |-> n22, call |-> call]), call, others)
      BY <1>4, <3>2, <3>3, PushFrontReads, Zenon
    <3> QED BY <3>1, <3>4
  <2> QED BY <2>1, <2>2
<1>6. /\ call \notin Unsavable
      /\ HolderOf(calls22)' = [h \in others \cup {n22} |->
              IF h = n22 THEN call ELSE HolderOf(calls22)[h]]
      /\ NewerOf(calls22)' = (NewerOf(calls22) \cap (others \X others)) \cup ({n22} \X others)
  <2> HIDE DEF others
  <2> QED BY <1>5 DEF ReadsAsHeard
<1> QED BY <1>6 DEF Recent!Hear

\* The slice with its shifts and truncations implements RecentCalls: every save
\* is a call heard, or ignored, whatever the capacity and the collisions.
THEOREM ImplementsRecentCalls == Spec => RefinesRecentCalls
<1>1. Init => Recent!Init
  <2> SUFFICES ASSUME Init PROVE Recent!Init
    OBVIOUS
  <2>1. calls22 = <<>> /\ DOMAIN calls22 = {}
    BY DEF Init
  <2>2. HolderOf(calls22) = [h \in {} |-> NoCall] /\ NewerOf(calls22) = {}
    BY <2>1 DEF HolderOf, NewerOf
  <2> QED BY <2>2 DEF Recent!Init
<1>2. TypeOK /\ TableOK /\ [Next]_calls22 => [Recent!Next]_Recent!vars
  <2> SUFFICES ASSUME TypeOK, TableOK, [Next]_calls22
               PROVE  [Recent!Next]_Recent!vars
    OBVIOUS
  <2>1. CASE UNCHANGED calls22
    BY <2>1 DEF Recent!vars, HolderOf, NewerOf, Lookup22, Hits
  <2>2. ASSUME NEW call \in Texts, SaveCall(call), call \in Unsavable
        PROVE  UNCHANGED calls22
    BY <2>2 DEF SaveCall, Save
  <2>3. ASSUME NEW call \in Texts, SaveCall(call), call \notin Unsavable
        PROVE  Recent!Next
    BY <2>3, SaveHears DEF Recent!Next
  <2> QED BY <2>1, <2>2, <2>3 DEF Next
<1> QED BY <1>1, <1>2, TableAlwaysOK, PTL DEF Spec, RefinesRecentCalls, Recent!Spec
==============================================================================
