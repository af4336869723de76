--------------------------- MODULE CandidateOutcome ---------------------------
(***************************************************************************)
(* What decoding one candidate promises its caller: it yields nothing, or   *)
(* one codeword whose message unpacks and passes the filter.  Either way    *)
(* the callsign table has gone through the payloads of the codewords that   *)
(* were found and thrown away on the way, and through nothing else.         *)
(***************************************************************************)
EXTENDS Unpack

CONSTANTS
    Payloads,       \* the payloads of the codewords that can be found
    MaxRejected     \* the codewords one candidate can find and throw away

VARIABLES
    result,     \* what the last candidate yielded
    table,      \* the callsign table
    decided     \* the candidates decoded so far

vars == <<result, table, decided>>
------------------------------------------------------------------------------
NoResult == [ok |-> FALSE, text |-> NoText]
Result(payload, text) == [ok |-> TRUE, payload |-> payload, text |-> text]

Rejects(payload, t) ==
    LET got == Unpack77(payload, t) IN ~got.ok \/ Filtered(got.text)

Leaves(payload, t) == Unpack77(payload, t).table

\* These tables, and those that rejecting one more codeword turns them into.
OneMore(tables) ==
    tables \cup UNION {{Leaves(p, t) : p \in {q \in Payloads : Rejects(q, t)}} : t \in tables}

\* The tables that unpacking and rejecting up to n codewords leaves, for each n.
Reached(t) ==
    LET reached[n \in 0..MaxRejected] == IF n = 0 THEN {t} ELSE OneMore(reached[n-1])
    IN  reached

AfterRejects(t) == Reached(t)[MaxRejected]

\* Every result a candidate can have, with the table it leaves behind.
Outcomes(t) ==
    LET accepts(s) == {p \in Payloads : ~Rejects(p, s)}
        outcome(p, s) == [result |-> Result(p, Unpack77(p, s).text), table |-> Leaves(p, s)]
    IN  {[result |-> NoResult, table |-> s] : s \in AfterRejects(t)}
          \cup UNION {{outcome(p, s) : p \in accepts(s)} : s \in AfterRejects(t)}
------------------------------------------------------------------------------
Init == /\ result = NoResult
        /\ table = <<>>
        /\ decided = 0

Decode == \E o \in Outcomes(table) :
            /\ result' = o.result
            /\ table' = o.table
            /\ decided' = decided + 1

Spec == Init /\ [][Decode]_vars
==============================================================================
