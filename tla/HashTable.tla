------------------------------ MODULE HashTable ------------------------------
(***************************************************************************)
(* The callsign hash table of src/ft8/unpack.go: the calls heard so far,    *)
(* most recently saved first, each under its 22-bit hash.  A table is a     *)
(* sequence of entries; index 1 here is calls22[0] in the code.  The        *)
(* operators work on any table: HashTableSpec is the table of a stateful    *)
(* decoder saved into again and again, and the candidate, slot and decoder  *)
(* modules use them on the table they carry.                                *)
(***************************************************************************)
EXTENDS Integers, Sequences

CONSTANTS
    Texts,      \* the strings Save may be handed, already trimmed of "<>" and spaces
    Unsavable,  \* those Save ignores: "", "...", shorter than 3, or holding a "<"
    Hash22,     \* hashCall(text, 22) for every text
    MaxHash,    \* ft8MaxHash, the number of entries kept (1000 in the code)
    NoCall      \* the empty string a lookup returns when nothing matches

ASSUME UnsavableAssumption == Unsavable \subseteq Texts
ASSUME HashAssumption == Hash22 \in [Texts -> 0..(2^22 - 1)]
ASSUME MaxHashAssumption == MaxHash \in Nat \ {0}
ASSUME NoCallAssumption == NoCall \notin Texts
------------------------------------------------------------------------------
Entry == [hash : 0..(2^22 - 1), call : Texts]

\* hashCall keeps the top bits of one 64-bit product, so the 12-bit hash of a
\* call is the top 12 bits of its 22-bit hash.
Hash12(call) == Hash22[call] \div 2^10

Hits(table, n22) == {i \in DOMAIN table : table[i].hash = n22}

\* The slice holds each hash at most once, but the code stops at the first.
First(indices) == CHOOSE i \in indices : \A j \in indices : i <= j

\* Forgetting to shift the newer entries: the hit trades places with the front.
MoveToFrontSwapped(table, i, entry) ==
    [k \in 1..Len(table) |-> IF k = 1 THEN entry
                             ELSE IF k = i THEN table[1] ELSE table[k]]

\* copy(calls22[1:i+1], calls22[:i]); calls22[0] = entry
MoveToFront(table, i, entry) ==
    [k \in 1..Len(table) |-> IF k = 1 THEN entry
                             ELSE IF k <= i THEN table[k-1] ELSE table[k]]

\* Truncation one entry late.
PushFrontLong(table, entry) ==
    [k \in 1..(IF Len(table) <= MaxHash THEN Len(table) + 1 ELSE MaxHash + 1)
        |-> IF k = 1 THEN entry ELSE table[k-1]]

\* Prepend, then cut the slice back to ft8MaxHash entries.
PushFront(table, entry) ==
    [k \in 1..(IF Len(table) < MaxHash THEN Len(table) + 1 ELSE MaxHash)
        |-> IF k = 1 THEN entry ELSE table[k-1]]

Save(table, call) ==
    IF call \in Unsavable THEN table
    ELSE LET n22   == Hash22[call]
             entry == [hash |-> n22, call |-> call]
         IN  IF Hits(table, n22) = {}
             THEN PushFront(table, entry)
             ELSE MoveToFront(table, First(Hits(table, n22)), entry)

\* The first entry whose hash or whose call's 12-bit hash matches.
Lookup22(table, h) ==
    IF Hits(table, h) = {} THEN NoCall ELSE table[First(Hits(table, h))].call

\* A 12-bit lookup that returns the oldest match instead of the newest.
Lookup12Oldest(table, h) ==
    LET matches == {i \in DOMAIN table : Hash12(table[i].call) = h}
    IN  IF matches = {} THEN NoCall
        ELSE table[CHOOSE i \in matches : \A j \in matches : j <= i].call

Lookup12(table, h) ==
    LET matches == {i \in DOMAIN table : Hash12(table[i].call) = h}
    IN  IF matches = {} THEN NoCall ELSE table[First(matches)].call
------------------------------------------------------------------------------
\* What every table a decoder can hold looks like: nothing Save ignores is in
\* it; a stored hash is the hash of the stored call, also after another call
\* with that hash took the entry over; a hash has one entry, so a newer call
\* replaces an older one with its hash rather than hiding behind it; and the
\* table never outgrows ft8MaxHash.
WellFormed(table) ==
    /\ \A i \in DOMAIN table : table[i].call \notin Unsavable
    /\ \A i \in DOMAIN table : table[i].hash = Hash22[table[i].call]
    /\ \A i, j \in DOMAIN table : table[i].hash = table[j].hash => i = j
    /\ Len(table) <= MaxHash
==============================================================================
