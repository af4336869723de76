----------------------------- MODULE SlotOutcome ------------------------------
(***************************************************************************)
(* What decoding one slot promises the Decoder that asked for it: a list of *)
(* texts without repetition, each unpacked from a codeword through the      *)
(* table as it then was or, after all of those, taken from an A7 hint, at   *)
(* most one a hint and in the order of the hints; and a table that has gone *)
(* through the codewords alone.  Buffers, passes, spectra and subtraction   *)
(* are not part of the promise.                                             *)
(***************************************************************************)
EXTENDS Unpack, Functions

CONSTANTS
    Payloads,       \* the payloads of the codewords a slot may hold
    MaxUnpacked     \* the bound on the codewords unpacked in one slot

VARIABLES
    hints,      \* the A7 hints this decode is given and will try
    returned,   \* whether the decode has returned
    texts,      \* the texts it returned
    table       \* the callsign table

vars == <<hints, returned, texts, table>>
------------------------------------------------------------------------------
\* One codeword goes through the table, and its text is returned if it passes
\* the filter and is new.
Unpacking(payload, r) ==
    LET got == Unpack77(payload, r.table)
        new == got.ok /\ ~Filtered(got.text)
                 /\ \A i \in DOMAIN r.texts : r.texts[i] # got.text
    IN  [table |-> got.table,
         texts |-> IF new THEN Append(r.texts, got.text) ELSE r.texts]

\* These outcomes, and those that one more codeword turns them into.
OneCodeword(outcomes) == outcomes \cup {Unpacking(p, r) : p \in Payloads, r \in outcomes}

\* The outcomes of unpacking up to n codewords, for each n.
Reached(t) ==
    LET reached[n \in 0..MaxUnpacked] ==
          IF n = 0 THEN {[table |-> t, texts |-> <<>>]} ELSE OneCodeword(reached[n-1])
    IN  reached

AfterCodewords(t) == Reached(t)[MaxUnpacked]

\* These outcomes, and those that a hint, the set of texts it may yield, turns
\* them into.
OneHint(outcomes, hint) ==
    LET with(r) == {[r EXCEPT !.texts = Append(@, text)] : text \in hint \ Range(r.texts)}
    IN  outcomes \cup UNION {with(r) : r \in outcomes}

\* The outcomes of trying the first n of the hints given, for each n.
Tried(outcomes, given) ==
    LET tried[n \in 0..Len(given)] ==
          IF n = 0 THEN outcomes ELSE OneHint(tried[n-1], given[n])
    IN  tried

AfterHints(outcomes, given) == Tried(outcomes, given)[Len(given)]

Results(t, given) == AfterHints(AfterCodewords(t), given)
------------------------------------------------------------------------------
\* The codewords of a decode that begins with an empty table.
Fresh == AfterCodewords(<<>>)

Init == /\ hints \in Seq(SUBSET MessageText)
        /\ returned = FALSE /\ texts = <<>> /\ table = <<>>

Return == /\ ~returned
          /\ returned' = TRUE
          /\ \E r \in AfterHints(Fresh, hints) : texts' = r.texts /\ table' = r.table
          /\ UNCHANGED hints

Spec == Init /\ [][Return]_vars
==============================================================================
