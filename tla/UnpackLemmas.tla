----------------------------- MODULE UnpackLemmas -----------------------------
(***************************************************************************)
(* What the operators of HashTable do to a well-formed callsign table, for  *)
(* every set of calls, every hash function and every capacity; and what     *)
(* unpacking any payload does to such a table.                              *)
(***************************************************************************)
EXTENDS Unpack, SequenceTheorems, WellFoundedInduction, TLAPS

\* Induction over the naturals in the form the provers can use: a set of them
\* that is not empty has a least element.
LEMMA LeastNat ==
    ASSUME NEW T, T \subseteq Nat, T # {}
    PROVE  \E least \in T : \A n \in T : least <= n
<1>1. PICK least \in T : \A n \in T : ~(<<n, least>> \in OpToRel(<, Nat))
  BY NatLessThanWellFounded, WFMin
<1>2. \A n \in T : n \in Nat /\ least \in Nat /\ ~(n < least)
  BY <1>1 DEF OpToRel
<1>3. \A n \in T : least <= n
  BY <1>2
<1> QED BY <1>1, <1>3

\* Two ways to build a table entry by entry give a sequence of entries.
LEMMA FunctionIsSequence ==
    ASSUME NEW S, NEW n \in Nat, NEW f \in [1..n -> S]
    PROVE  f \in Seq(S) /\ Len(f) = n /\ DOMAIN f = 1..n
  OBVIOUS

\* Prepending a call whose hash is new, and cutting the oldest entry when the
\* table is full, keeps the table well formed.
LEMMA PushFrontWellFormed ==
    ASSUME NEW table \in Seq(Entry), WellFormed(table),
           NEW call \in Texts, call \notin Unsavable,
           Hits(table, Hash22[call]) = {}
    PROVE  LET pushed == PushFront(table, [hash |-> Hash22[call], call |-> call])
           IN  pushed \in Seq(Entry) /\ WellFormed(pushed)
<1> DEFINE entry  == [hash |-> Hash22[call], call |-> call]
           n      == IF Len(table) < MaxHash THEN Len(table) + 1 ELSE MaxHash
           pushed == PushFront(table, entry)
<1>1. Len(table) \in Nat /\ table \in [1..Len(table) -> Entry] /\ DOMAIN table = 1..Len(table)
  BY LenProperties
<1>2. entry \in Entry
  BY HashAssumption DEF Entry
<1>3. n \in Nat /\ n - 1 <= Len(table) /\ n <= MaxHash
  BY <1>1, MaxHashAssumption DEF WellFormed
<1>4. pushed = [k \in 1..n |-> IF k = 1 THEN entry ELSE table[k-1]]
  BY DEF PushFront
<1>5. \A k \in 1..n : k = 1 \/ k - 1 \in 1..Len(table)
  BY <1>1, <1>3
<1>6. pushed \in [1..n -> Entry]
  BY <1>1, <1>2, <1>3, <1>4, <1>5
<1>7. pushed \in Seq(Entry) /\ Len(pushed) = n /\ DOMAIN pushed = 1..n
  BY <1>3, <1>6, FunctionIsSequence
<1>8. \A k \in 1..n : pushed[k] = IF k = 1 THEN entry ELSE table[k-1]
  BY <1>4
<1>9. \A k \in 1..Len(table) : table[k].hash # Hash22[call]
  BY <1>1 DEF Hits
<1> HIDE DEF pushed, n
<1>10. WellFormed(pushed)
  <2>1. \A i \in 1..n : pushed[i].call \notin Unsavable
    BY <1>1, <1>5, <1>8 DEF WellFormed
  <2>2. \A i \in 1..n : pushed[i].hash = Hash22[pushed[i].call]
    BY <1>1, <1>5, <1>8 DEF WellFormed
  <2>3. \A i, j \in 1..n : pushed[i].hash = pushed[j].hash => i = j
    <3> TAKE i \in 1..n, j \in 1..n
    <3>1. CASE i = 1 /\ j = 1
      BY <3>1
    <3>2. CASE i = 1 /\ j # 1
      BY <3>2, <1>5, <1>8, <1>9
    <3>3. CASE i # 1 /\ j = 1
      BY <3>3, <1>5, <1>8, <1>9
    <3>4. CASE i # 1 /\ j # 1
      BY <3>4, <1>1, <1>5, <1>8 DEF WellFormed
    <3> QED BY <3>1, <3>2, <3>3, <3>4
  <2> QED BY <1>3, <1>7, <2>1, <2>2, <2>3 DEF WellFormed
<1> HIDE DEF entry
<1> QED BY <1>7, <1>10 DEF pushed, entry

\* Moving the entry of a hash to the front under its new call, everything
\* newer shifted back one place, keeps the table well formed.
LEMMA MoveToFrontWellFormed ==
    ASSUME NEW table \in Seq(Entry), WellFormed(table),
           NEW call \in Texts, call \notin Unsavable,
           NEW hit \in Hits(table, Hash22[call])
    PROVE  LET moved == MoveToFront(table, hit, [hash |-> Hash22[call], call |-> call])
           IN  moved \in Seq(Entry) /\ WellFormed(moved)
<1> DEFINE entry == [hash |-> Hash22[call], call |-> call]
           n     == Len(table)
           moved == MoveToFront(table, hit, entry)
           from(k) == IF k <= hit THEN k - 1 ELSE k
<1>1. n \in Nat /\ table \in [1..n -> Entry] /\ DOMAIN table = 1..n
  BY LenProperties
<1>2. hit \in 1..n /\ table[hit].hash = Hash22[call]
  BY <1>1 DEF Hits
<1>3. entry \in Entry
  BY HashAssumption DEF Entry
<1>4. moved = [k \in 1..n |-> IF k = 1 THEN entry ELSE IF k <= hit THEN table[k-1] ELSE table[k]]
  BY DEF MoveToFront
<1>5. \A k \in 1..n : k # 1 => from(k) \in 1..n /\ from(k) # hit
  BY <1>1, <1>2
<1>6. \A k \in 1..n : moved[k] = IF k = 1 THEN entry ELSE table[from(k)]
  BY <1>4
<1>7. moved \in [1..n -> Entry]
  BY <1>1, <1>3, <1>4, <1>5
<1>8. moved \in Seq(Entry) /\ Len(moved) = n /\ DOMAIN moved = 1..n
  BY <1>1, <1>7, FunctionIsSequence
<1>9. \A k \in 1..n : k # hit => table[k].hash # Hash22[call]
  BY <1>1, <1>2 DEF WellFormed
<1> HIDE DEF moved, n
<1>10. WellFormed(moved)
  <2>1. \A i \in 1..n : moved[i].call \notin Unsavable
    BY <1>1, <1>5, <1>6 DEF WellFormed
  <2>2. \A i \in 1..n : moved[i].hash = Hash22[moved[i].call]
    BY <1>1, <1>5, <1>6 DEF WellFormed
  <2>3. \A i, j \in 1..n : moved[i].hash = moved[j].hash => i = j
    <3> TAKE i \in 1..n, j \in 1..n
    <3>1. CASE i = 1 /\ j = 1
      BY <3>1
    <3>2. CASE i = 1 /\ j # 1
      BY <3>2, <1>5, <1>6, <1>9
    <3>3. CASE i # 1 /\ j = 1
      BY <3>3, <1>5, <1>6, <1>9
    <3>4. CASE i # 1 /\ j # 1
      <4>1. from(i) = from(j) => i = j
        BY <1>2, <3>4
      <4>2. table[from(i)].hash = table[from(j)].hash => from(i) = from(j)
        BY <1>1, <1>5, <3>4 DEF WellFormed
      <4> QED BY <3>4, <1>6, <4>1, <4>2
    <3> QED BY <3>1, <3>2, <3>3, <3>4
  <2> QED BY <1>1, <1>8, <2>1, <2>2, <2>3 DEF WellFormed
<1> HIDE DEF entry
<1> QED BY <1>8, <1>10 DEF moved, entry

\* In a well-formed table the first hit of a hash is its only hit.
LEMMA FirstHit ==
    ASSUME NEW table \in Seq(Entry), WellFormed(table),
           NEW n22, Hits(table, n22) # {}
    PROVE  First(Hits(table, n22)) \in Hits(table, n22)
<1>1. PICK i \in Hits(table, n22) : TRUE
  OBVIOUS
<1>2. DOMAIN table = 1..Len(table) /\ Len(table) \in Nat
  BY LenProperties
<1>3. \A j \in Hits(table, n22) : i <= j
  BY <1>1, <1>2 DEF Hits, WellFormed
<1> QED BY <1>1, <1>3 DEF First

\* Saving any text at all keeps a well-formed table well formed.
LEMMA SaveWellFormed ==
    ASSUME NEW table \in Seq(Entry), WellFormed(table), NEW call \in Texts
    PROVE  Save(table, call) \in Seq(Entry) /\ WellFormed(Save(table, call))
<1>1. CASE call \in Unsavable
  BY <1>1 DEF Save
<1>2. CASE call \notin Unsavable /\ Hits(table, Hash22[call]) = {}
  BY <1>2, PushFrontWellFormed DEF Save
<1>3. CASE call \notin Unsavable /\ Hits(table, Hash22[call]) # {}
  BY <1>3, FirstHit, MoveToFrontWellFormed DEF Save
<1> QED BY <1>1, <1>2, <1>3

\* The first of a set of places is one of them.
LEMMA FirstOf ==
    ASSUME NEW indices, indices \subseteq Nat, indices # {}
    PROVE  First(indices) \in indices /\ \A j \in indices : First(indices) <= j
  BY LeastNat DEF First

\* A lookup that answers at all answers with a call of the table that has the
\* hash it was asked for.
LEMMA LookupsFind ==
    ASSUME NEW table \in Seq(Entry), WellFormed(table), NEW h
    PROVE  /\ Lookup22(table, h) # NoCall =>
                \E i \in DOMAIN table : /\ table[i].call = Lookup22(table, h)
                                        /\ Hash22[table[i].call] = h
           /\ Lookup12(table, h) # NoCall =>
                \E i \in DOMAIN table : /\ table[i].call = Lookup12(table, h)
                                        /\ Hash12(table[i].call) = h
<1>1. DOMAIN table = 1..Len(table) /\ Len(table) \in Nat
  BY LenProperties
<1>2. ASSUME Lookup22(table, h) # NoCall
      PROVE  \E i \in DOMAIN table : table[i].call = Lookup22(table, h) /\ Hash22[table[i].call] = h
  <2> DEFINE i == First(Hits(table, h))
  <2>1. Hits(table, h) # {} /\ Lookup22(table, h) = table[i].call
    BY <1>2 DEF Lookup22
  <2>2. i \in Hits(table, h)
    BY <2>1, FirstHit
  <2> HIDE DEF i
  <2> QED BY <2>1, <2>2 DEF Hits, WellFormed
<1>3. ASSUME Lookup12(table, h) # NoCall
      PROVE  \E i \in DOMAIN table : table[i].call = Lookup12(table, h) /\ Hash12(table[i].call) = h
  <2> DEFINE matches == {i \in DOMAIN table : Hash12(table[i].call) = h}
             i == First(matches)
  <2>1. matches # {} /\ Lookup12(table, h) = table[i].call
    BY <1>3 DEF Lookup12
  <2>2. matches \subseteq Nat
    BY <1>1
  <2> HIDE DEF matches
  <2>3. i \in matches
    BY <2>1, <2>2, FirstOf
  <2> HIDE DEF i
  <2> QED BY <2>1, <2>3 DEF matches
<1> QED BY <1>2, <1>3
------------------------------------------------------------------------------
\* A call shown in plain text is one Save may be handed.
LEMMA Unpack28Shown ==
    ASSUME NEW field \in Field, field.kind # "invalid", NEW table
    PROVE  LET shown == Unpack28(field, table)
           IN  ~shown.hashed => shown.call \in Texts
<1>1. CASE field.kind \in {"token", "directed", "call"}
  BY <1>1 DEF Field, Unpack28, Plain
<1>2. CASE field.kind = "hash"
  BY <1>2 DEF Unpack28, Bracketed
<1>3. CASE field.kind = "reserved"
  BY <1>3 DEF Unpack28, Bracketed
<1> QED BY <1>1, <1>2, <1>3 DEF Field

LEMMA SuffixShown ==
    ASSUME NEW shown, NEW flag, NEW i3 \in {1, 2}, ~shown.hashed => shown.call \in Texts
    PROVE  LET out == AddPortableSuffix(shown, flag, i3)
           IN  ~out.hashed => out.call \in Texts
  BY SuffixAssumption DEF AddPortableSuffix, Plain

\* Whatever a payload holds, and whether or not it unpacks, the table is well
\* formed afterwards if it was before (unpack77WithHashes, unpack.go).
LEMMA UnpackKeepsWellFormed ==
    ASSUME NEW payload \in Payload, NEW table \in Seq(Entry), WellFormed(table)
    PROVE  /\ Unpack77(payload, table).table \in Seq(Entry)
           /\ WellFormed(Unpack77(payload, table).table)
<1>1. CASE payload \in Standard
  <2> DEFINE call2 == AddPortableSuffix(Unpack28(payload.call2, table), payload.ipb, payload.i3)
             saved == IF call2.hashed THEN table ELSE Save(table, call2.call)
  <2>1. Unpack77(payload, table) = UnpackStandard(payload, table)
    BY <1>1 DEF Standard, Unpack77
  <2>2. payload.call2 \in Field /\ payload.i3 \in {1, 2}
    BY <1>1 DEF Standard
  <2>3. UnpackStandard(payload, table).table \in {table, saved}
    BY DEF UnpackStandard, Failed, Unpacked
  <2>4. CASE payload.call2.kind = "invalid"
    BY <2>1, <2>4 DEF UnpackStandard, Failed
  <2>5. CASE payload.call2.kind # "invalid"
    <3>1. ~call2.hashed => call2.call \in Texts
      BY <2>2, <2>5, Unpack28Shown, SuffixShown
    <3> HIDE DEF call2
    <3>2. saved \in Seq(Entry) /\ WellFormed(saved)
      BY <3>1, SaveWellFormed
    <3> QED BY <2>1, <2>3, <3>2
  <2> QED BY <2>4, <2>5
<1>2. CASE payload \in Type4
  <2>1. Unpack77(payload, table) = UnpackType4(payload, table)
    BY <1>2 DEF Type4, Unpack77
  <2>2. payload.text \in Texts \cup {NoCall}
    BY <1>2 DEF Type4
  <2>3. CASE payload.text = NoCall
    BY <2>1, <2>3 DEF UnpackType4, Failed
  <2>4. CASE payload.text # NoCall
    <3>1. UnpackType4(payload, table).table = Save(table, payload.text)
      BY <2>4, Zenon DEF UnpackType4, Unpacked
    <3>2. payload.text \in Texts
      BY <2>2, <2>4
    <3> QED BY <2>1, <3>1, <3>2, SaveWellFormed
  <2> QED BY <2>3, <2>4
<1>3. CASE payload \in FieldDay
  BY <1>3 DEF FieldDay, Unpack77, UnpackFieldDay, Failed, Unpacked
<1>4. CASE payload \in FreeText
  BY <1>4 DEF FreeText, Unpack77, Failed, Unpacked
<1>5. CASE payload \in Unknown
  BY <1>5 DEF Unknown, Unpack77, Failed
<1> QED BY <1>1, <1>2, <1>3, <1>4, <1>5 DEF Payload
==============================================================================
