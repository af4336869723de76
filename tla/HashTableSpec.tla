---------------------------- MODULE HashTableSpec ----------------------------
(***************************************************************************)
(* The life of one hash table (Decoder.hashes in src/ft8/a7.go): it starts  *)
(* empty and every unpacked message may save a call into it.                *)
(***************************************************************************)
EXTENDS HashTable

VARIABLE calls22    \* hashTable.calls22
------------------------------------------------------------------------------
Init == calls22 = <<>>

SaveCall(call) == calls22' = Save(calls22, call)

Next == \E call \in Texts : SaveCall(call)

Spec == Init /\ [][Next]_calls22
------------------------------------------------------------------------------
\* The table is a sequence of hash and call pairs.
TypeOK == calls22 \in Seq(Entry)

\* Every table built by saves alone is well formed.
TableOK == WellFormed(calls22)
------------------------------------------------------------------------------
\* The table read as the abstract RecentCalls: who holds each hash, and which
\* of two hashes was saved more recently.
HolderOf(table) ==
    [h \in {table[i].hash : i \in DOMAIN table} |-> Lookup22(table, h)]

NewerOf(table) ==
    {<<table[p[1]].hash, table[p[2]].hash>> :
        p \in {q \in (DOMAIN table) \X (DOMAIN table) : q[1] < q[2]}}

Recent == INSTANCE RecentCalls
            WITH holder <- HolderOf(calls22), newer <- NewerOf(calls22)

\* The slice of entries, with its shift-and-truncate saves, keeps exactly the
\* MaxHash most recently saved hashes and the last call saved under each.
RefinesRecentCalls == Recent!Spec

\* Both lookups answer with the most recently saved call that has the hash.
LookupsAnswerNewest ==
    /\ \A h \in {Hash22[c] : c \in Texts} : Lookup22(calls22, h) = Recent!Newest22(h)
    /\ \A h \in {Hash12(c) : c \in Texts} : Lookup12(calls22, h) = Recent!Newest12(h)
==============================================================================
