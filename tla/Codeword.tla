------------------------------- MODULE Codeword -------------------------------
(***************************************************************************)
(* From the 77 bits of a payload to the tones of a frame (src/ft8/pack.go,  *)
(* src/ft8/osd.go, src/ft8/subtract.go), and from the tones that came in to *)
(* the soft metrics of the bits (src/ft8/metrics.go) and the tests a word   *)
(* must pass (src/ft8/ldpc.go).                                             *)
(*                                                                          *)
(* Bits are numbered from 0, as in the source.  A word is the set of its    *)
(* bits that are 1, so that adding words is taking a symmetric difference.  *)
(* The same holds for the register of the checksum.                         *)
(***************************************************************************)
EXTENDS LdpcTables, SequencesExt, Functions, FiniteSets, FiniteSetsExt, TLC

Odd(bits) == Cardinality(bits) % 2 = 1

\* writeBits and readBits: the most significant bit first.
WriteBits(start, width, value) ==
    {start + i : i \in {i \in 0..(width - 1) : (value \div 2^(width - 1 - i)) % 2 = 1}}
ReadBits(word, start, width) ==
    FoldLeft(LAMBDA value, i : 2 * value + (IF start + i - 1 \in word THEN 1 ELSE 0),
             0, [i \in 1..width |-> i])
------------------------------------------------------------------------------
(* The checksum: 14 bits after the payload, five zeros between them.       *)

crc14PolyState == {14, 13, 10, 9, 8, 6, 4, 2, 1, 0}         \* 0x6757

\* A register of 15 bits takes one more bit in.  (A function, so that TLC knows
\* the register before it takes the step, and does not nest the 82 of them.)
crc14Step[state \in SUBSET (0..14), bit \in BOOLEAN] ==
    LET fed == (state \ {0}) \cup (IF bit THEN {0} ELSE {})
    IN  IF 14 \in state THEN {i + 1 : i \in SymDiff(fed, crc14PolyState) \ {14}}
                        ELSE {i + 1 : i \in fed}

\* Of a word of 96 bits: the register starts with the first 15 of them.
crc14Remainder(bits) ==
    LET state[i \in 0..82] == IF i = 0 THEN {14 - pos : pos \in bits \cap (0..14)}
                              ELSE crc14Step[state[i - 1], i + 13 \in bits]
    IN  {i - 1 : i \in state[82] \ {0}}

\* A register whose bits 77 to 81 are those of the word.
crc14OKUnspread(word) == crc14Remainder(word \cap (0..90)) = {}

\* The checksum of a word that is received.
crc14OK(word) ==
    crc14Remainder((word \cap (0..76)) \cup {i + 5 : i \in word \cap (77..90)}) = {}

\* Row by row, which of the 14 bits a bit of the remainder is the sum of.
crc14EncodeRows ==
    [row \in 1..14 |-> {column \in 1..14 : 14 - row \in crc14Remainder({81 + column})}]

\* The row a column is cleared with, brought to its place.
Pivoted(rows, column) ==
    LET pivot == Min({row \in column..14 : column \in rows[row]})
    IN  [rows EXCEPT ![column] = rows[pivot], ![pivot] = rows[column]]

\* One column of the elimination in solveCRC14.  (TLC evaluates a concatenation
\* at once, and the elements of a function again whenever they are used.)
ClearColumn(rows, column) ==
    LET pivoted == Pivoted(rows, column)
    IN  <<>> \o [row \in 1..14 |-> IF row # column /\ column \in pivoted[row]
                                   THEN SymDiff(pivoted[row], pivoted[column])
                                   ELSE pivoted[row]]

\* The checksum bits, by their places in the message, that make `target` vanish;
\* 15 stands for the right-hand side.
solveCRC14[target \in SUBSET (0..13)] ==
    LET rows == <<>> \o [row \in 1..14 |->
                  crc14EncodeRows[row] \cup (IF 14 - row \in target THEN {15} ELSE {})]
        solved[column \in 0..14] ==
          IF column = 0 THEN rows ELSE ClearColumn(solved[column - 1], column)
    IN  {76 + row : row \in {row \in 1..14 : 15 \in solved[14][row]}}

crc14ForMessage(payload) == solveCRC14[crc14Remainder(payload)]
------------------------------------------------------------------------------
(* The codeword: 91 bits of message, then 83 sums of message bits.          *)

\* ldpcGeneratorMatrix: digit by digit, the last one without its last bit.
GeneratorRow ==
    [row \in 0..82 |-> {column \in 0..90 :
        LET group == column \div 24
            width == IF group = 3 THEN 20 ELSE 24
        IN  (ldpcGeneratorHex[row + 1][group + 1] \div 2^(width - 1 - (column % 24))) % 2 = 1}]

encode17491NoCRC(message) ==
    message \cup {91 + row : row \in {row \in 0..82 : Odd(message \cap GeneratorRow[row])}}

encode17491(payload) == encode17491NoCRC(payload \cup crc14ForMessage(payload))

\* hardDecisionAndParity: the checks that a word does not satisfy.
Unsatisfied(word) ==
    {check \in 0..82 : Odd({bit \in word : \E k \in 1..3 : ldpcMn[bit + 1][k] = check})}

\* The same, from the other table, which belief propagation works along.
UnsatisfiedByEdges(word) ==
    {check \in 0..82 : Odd({edge \in 1..ldpcNrw[check + 1] : ldpcNm[check + 1][edge] \in word})}
\* initLDPCNmBitEdge: the place of a check among the three of a bit, from 0, for
\* every edge of the check; -1 where no bit has the check.
ldpcNmBitEdge ==
    [check \in 0..82 |-> [edge \in 1..ldpcNrw[check + 1] |->
       LET places == {k \in 1..3 : ldpcMn[ldpcNm[check + 1][edge] + 1][k] = check}
       IN  IF places = {} THEN -1 ELSE Max(places) - 1]]
------------------------------------------------------------------------------
(* The tones: 29 symbols of three bits, twice, around the Costas arrays.    *)

ft8Costas == <<3, 1, 4, 0, 6, 5, 2>>
ft8GrayMap == <<0, 1, 3, 2, 5, 6, 4, 7>>
Symbols == 0..78

\* The symbol of the j-th group of three bits, j from 1.
DataSymbol(j) == 6 + j + (IF j >= 30 THEN 7 ELSE 0)

tonesFromCodeword(word) ==
    [symbol \in Symbols |->
       IF symbol % 36 < 7 THEN ft8Costas[(symbol % 36) + 1]
       ELSE LET j == CHOOSE j \in 1..58 : DataSymbol(j) = symbol
            IN  ft8GrayMap[ReadBits(word, 3 * j - 3, 3) + 1]]
------------------------------------------------------------------------------
(* Soft metrics.  What came in of a symbol is its tone, or nothing (Lost):  *)
(* noise is left out, so that a magnitude is the number of symbols that     *)
(* have the tones of a guess.                                               *)

Lost == 8

\* Symbols outside the samples are left zero (symbolSpectra); a sample is one of
\* the 2812 after the downsampling, 32 to a symbol.
symbolSpectra(tones, start) ==
    [symbol \in Symbols |->
       LET first == start + 32 * symbol
       IN  IF first >= 0 /\ first + 31 <= 2811 THEN tones[symbol] ELSE Lost]

\* For n symbols that came in as `tones`, each of the 3n bits they carry: the
\* best guess that has a 1 there against the best that has a 0 (splitMax).
SplitMax(n, tones) ==
    LET digit(i, j)  == (i \div 8^(n - j)) % 8
        magnitude(i) == Cardinality({j \in 1..n : ft8GrayMap[digit(i, j) + 1] = tones[j]})
        s2 == <<>> \o [i \in 1..(8^n) |-> magnitude(i - 1)]
        best(bit, value) ==
          Max({s2[i] : i \in {i \in 1..(8^n) : ((i - 1) \div 2^bit) % 2 = value}})
    IN  <<>> \o [ib \in 1..(3 * n) |-> best(3 * n - ib, 1) - best(3 * n - ib, 0)]

\* The second half first.
GroupsSwapped(n) ==
    LET starts == [i \in 1..((28 \div n) + 1) |-> 1 + (i - 1) * n]
    IN  FlattenSeq([half \in 1..2 |-> [i \in DOMAIN starts |-> <<3 - half, starts[i]>>]])

\* The groups of n symbols, in the order the code takes them, as <<half, k>>.
Groups(n) ==
    LET starts == [i \in 1..((28 \div n) + 1) |-> 1 + (i - 1) * n]
    IN  FlattenSeq([half \in 1..2 |-> [i \in DOMAIN starts |-> <<half, starts[i]>>]])

\* What one group writes.  The last groups of a half reach into a Costas array:
\* what they say of bits behind the half is overwritten by the next half, and
\* dropped at the end of the word.
GroupWrites(n, cs, group) ==
    LET half   == group[1]
        k      == group[2]
        first  == k + (IF half = 2 THEN 43 ELSE 7) - 1
        metric == SplitMax(n, <<>> \o [j \in 1..n |-> cs[first + j - 1]])
        base   == (k - 1) * 3 + (half - 1) * 87
    IN  [bit \in {base + ib : ib \in 0..(3 * n - 1)} \cap (0..173) |-> metric[bit - base + 1]]

\* computeSoftMetrics: Single, Double and Triple for n = 1, 2, 3.
SoftMetric(n, cs) ==
    FoldLeft(LAMBDA metric, group : GroupWrites(n, cs, group) @@ metric, <<>>, Groups(n))

Abs(x) == IF x < 0 THEN -x ELSE x

\* Of the three, the one that is surest of the bit.
BestMetric(cs) ==
    LET surer(a, b) == [bit \in 0..173 |-> IF Abs(b[bit]) > Abs(a[bit]) THEN b[bit] ELSE a[bit]]
    IN  surer(surer(SoftMetric(1, cs), SoftMetric(2, cs)), SoftMetric(3, cs))

Metric(kind, cs) ==
    CASE kind = "Single" -> SoftMetric(1, cs)
      [] kind = "Double" -> SoftMetric(2, cs)
      [] kind = "Triple" -> SoftMetric(3, cs)
      [] kind = "Best"   -> BestMetric(cs)

\* The word that belief propagation starts from.
HardDecision(metric) == {bit \in 0..173 : metric[bit] > 0}
==============================================================================
