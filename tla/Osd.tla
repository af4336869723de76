--------------------------------- MODULE Osd ---------------------------------
(***************************************************************************)
(* Ordered-statistics decoding of a small code (osd17491 in src/ft8/osd.go, *)
(* of which the code has 174 bits, 91 of them of the message): the bits in  *)
(* the order of their reliability, the generator brought to the identity on *)
(* the most reliable ones it can be, and the search through the words that  *)
(* differ there from the hard decisions in one bit or two.                  *)
(*                                                                          *)
(* A word is the set of its bits that are 1.  A column is a place in the    *)
(* order, from 1; a row of the generator is the set of its columns.         *)
(***************************************************************************)
EXTENDS Integers, Sequences, SequencesExt, FiniteSets, FiniteSetsExt, Functions

CONSTANTS
    N,              \* bits of a word (174)
    K,              \* bits of a message (91)
    Generator,      \* the codeword of each message bit, by encode17491NoCRC
    GoodChecksums,  \* the codewords whose message has the right CRC
    PivotWindow,    \* how far behind the basis a pivot is looked for (20)
    NT,             \* the columns behind the basis that count for pruning (40)
    NTheta          \* the differences beyond which a word is not measured (10)

ASSUME OsdAssumption ==
    /\ N \in Nat /\ K \in 1..N /\ Generator \in [1..K -> SUBSET (1..N)]
    /\ PivotWindow \in Nat /\ NT \in 0..(N - K) /\ NTheta \in Nat

Bits == 1..N
Magnitude(x) == IF x < 0 THEN -x ELSE x
------------------------------------------------------------------------------
\* sortOSDOrder backwards: the most reliable bit first, of two the later one.
Order(rx) ==
    LET before(a, b) == \/ Magnitude(rx[a]) > Magnitude(rx[b])
                        \/ Magnitude(rx[a]) = Magnitude(rx[b]) /\ a > b
    IN  [col \in Bits |-> CHOOSE b \in Bits : Cardinality({a \in Bits : before(a, b)}) = col - 1]

Swapped(a, b, c) == IF c = a THEN b ELSE IF c = b THEN a ELSE c

\* The columns are swapped, the bits they stand for are not.
DiagonalUnindexed(s, diag) ==
    LET pivots == {col \in diag..(K + PivotWindow) : col <= N /\ col \in s.rows[diag]}
        pivot == Min(pivots)
        swap == [row \in 1..K |-> {Swapped(diag, pivot, col) : col \in s.rows[row]}]
    IN  IF ~s.ok \/ pivots = {} THEN [s EXCEPT !.ok = FALSE]
        ELSE [ok |-> TRUE, indices |-> s.indices,
              rows |-> [row \in 1..K |-> IF row # diag /\ diag \in swap[row]
                                         THEN SymDiff(swap[row], swap[diag]) ELSE swap[row]]]

\* One step of the elimination.  The pivot is looked for in one row, and not far
\* behind the basis: if it is not found, the attempt is given up.
Diagonal(s, diag) ==
    LET pivots == {col \in diag..(K + PivotWindow) : col <= N /\ col \in s.rows[diag]}
        pivot == Min(pivots)
        swap == [row \in 1..K |-> {Swapped(diag, pivot, col) : col \in s.rows[row]}]
    IN  IF ~s.ok \/ pivots = {} THEN [s EXCEPT !.ok = FALSE]
        ELSE [ok |-> TRUE,
              indices |-> [col \in Bits |-> s.indices[Swapped(diag, pivot, col)]],
              rows |-> [row \in 1..K |-> IF row # diag /\ diag \in swap[row]
                                         THEN SymDiff(swap[row], swap[diag]) ELSE swap[row]]]

Diagonalized(rx) ==
    LET order == Order(rx)
    IN  FoldLeft(Diagonal,
                 [ok |-> TRUE, indices |-> order,
                  rows |-> [row \in 1..K |-> {col \in Bits : order[col] \in Generator[row]}]],
                 [diag \in 1..K |-> diag])

\* rhard: the columns whose bit is decided to be 1; a bit that is known a priori
\* is what the channel was made to say.
HardColumns(indices, rx, channel, ap) ==
    {col \in Bits : IF indices[col] \in ap THEN channel[indices[col]] > 0
                                           ELSE rx[indices[col]] > 0}

Weight(indices, rx, columns) ==
    FoldSet(LAMBDA col, sum : sum + Magnitude(rx[indices[col]]), 0, columns)

TailColumns(columns) == columns \cap ((K + 1)..N)
Pruning(columns) == columns \cap ((K + 1)..(K + NT))

\* mrbEncode
Encode(rows, message) == FoldSet(LAMBDA row, word : SymDiff(word, rows[row]), {}, message)

\* The pairs <<base, flip>> in the order of the search.
Pairs == FlattenSeq([i \in 1..K |-> [j \in 1..(K + 1 - i) |-> <<K + 1 - i, K + 2 - i - j>>]])

\* The columns in which the tails of two words that are one row apart differ from
\* the hard decisions.
Differences(rows, e2sub, flip) == SymDiff(e2sub, TailColumns(rows[flip]))

Tried(pair, known) == pair[1] \notin known /\ pair[2] \notin known

\* One pair of the search.  What the first bit changes is kept from the step that
\* flips it alone to those that flip another one, too.
Flip(d, rx, base, hard, known, s, pair) ==
    LET rows == d.rows
        weight(columns) == Weight(d.indices, rx, columns)
        b     == pair[1]
        f     == pair[2]
        e2sub == IF f = b THEN TailColumns(SymDiff(SymDiff(base, rows[b]), hard)) ELSE s.e2sub
        e2    == IF f = b THEN e2sub ELSE Differences(rows, e2sub, f)
        points == Cardinality({b, f}) + Cardinality(Pruning(e2))
        second == IF f # b /\ (f \in SymDiff(SymDiff(base, rows[b]), rows[f])) # (f \in hard)
                  THEN weight({f}) ELSE 0
        distance == weight({b}) + second + weight(e2)
        word == IF f = b THEN SymDiff(base, rows[b])
                ELSE SymDiff(SymDiff(base, rows[b]), rows[f])
    IN  IF ~Tried(pair, known) THEN s
        ELSE IF points > NTheta \/ distance >= s.distance THEN [s EXCEPT !.e2sub = e2sub]
        ELSE [best |-> word, distance |-> distance, e2sub |-> e2sub]

NotFound == [ok |-> FALSE, word |-> {}]

\* osd17491
OSD(rx, channel, ap) ==
    LET d      == Diagonalized(rx)
        hard   == HardColumns(d.indices, rx, channel, ap)
        known  == {col \in Bits : d.indices[col] \in ap}
        base   == Encode(d.rows, hard \cap (1..K))
        weight(columns) == Weight(d.indices, rx, columns)
        found  == FoldLeft(LAMBDA s, pair : Flip(d, rx, base, hard, known, s, pair),
                           [best |-> base, distance |-> weight(SymDiff(base, hard)),
                            e2sub |-> {}],
                           Pairs)
        word   == {d.indices[col] : col \in found.best}
    IN  IF d.ok /\ word \in GoodChecksums THEN [ok |-> TRUE, word |-> word] ELSE NotFound
------------------------------------------------------------------------------
(* What the search is for, without the algebra.                             *)

Codewords == {Encode(Generator, message) : message \in SUBSET (1..K)}

\* The codewords that differ from the hard decisions in none of the basis, or in
\* one or two bits of it that are not known, and then not in too many others.
Searched(rx, channel, ap) ==
    LET d       == Diagonalized(rx)
        hard    == HardColumns(d.indices, rx, channel, ap)
        wrong(word) == {col \in Bits : (d.indices[col] \in word) # (col \in hard)}
    IN  {word \in Codewords :
           LET basis == wrong(word) \cap (1..K)
           IN  \/ basis = {}
               \/ /\ Cardinality(basis) <= 2 /\ \A col \in basis : d.indices[col] \notin ap
                  /\ Cardinality(basis) + Cardinality(Pruning(wrong(word))) <= NTheta}

\* How far a word is from what came in, measured bit by bit.
Distance(rx, channel, ap, word) ==
    LET hard(bit) == IF bit \in ap THEN channel[bit] > 0 ELSE rx[bit] > 0
    IN  Weight([bit \in Bits |-> bit], rx, {bit \in Bits : (bit \in word) # hard(bit)})
==============================================================================
