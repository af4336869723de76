---------------------------- MODULE HintSelection ----------------------------
(***************************************************************************)
(* The hypotheses that the call hints give for one candidate                *)
(* (selectAPCallHintHypotheses in src/ft8/ap_hints.go): every hint in       *)
(* either field is scored by two metrics, and the best few are kept in a    *)
(* list that is sorted as it grows.                                         *)
(***************************************************************************)
EXTENDS Integers, Sequences, SequencesExt, FiniteSets

CONSTANTS
    Hints,          \* the number of hints
    Scores,         \* the levels of a score
    MatchCounts,    \* the counts of matching bits tried
    MinScore,       \* ft8APHintMinScoreRatio, as a level
    MinMatches,     \* ft8APHintMinMatches
    HypothesisLimits \* the values of maxHypotheses tried

ASSUME HintsAssumption ==
    /\ Hints \in Nat \ {0} /\ Scores \subseteq Int /\ MatchCounts \subseteq Nat
    /\ MinScore \in Int /\ MinMatches \in Nat /\ HypothesisLimits \subseteq Nat

VARIABLES
    limit,      \* maxHypotheses
    scored,     \* how many of the hypotheses were scored, two of each hint
    top,        \* the list
    below,      \* belowThreshold
    passed      \* every hypothesis that passed, a history variable

hintVars == <<limit, scored, top, below, passed>>
------------------------------------------------------------------------------
MaxAPCallHypotheses == 8        \* ft8MaxAPCallHypotheses

\* apHintSelectionBetter
Better(a, b) ==
    \/ a.score > b.score
    \/ /\ a.score = b.score
       /\ \/ a.matches > b.matches
          \/ a.matches = b.matches /\ (a.hint < b.hint \/ (a.hint = b.hint /\ a.field < b.field))

\* A full list takes nothing more.
InsertUntilFull(list, selection) ==
    LET after == {i \in DOMAIN list : Better(selection, list[i])}
        at    == IF after = {} THEN Len(list) + 1 ELSE CHOOSE i \in after : \A j \in after : i <= j
    IN  IF Len(list) = limit THEN list ELSE InsertAt(list, at, selection)

\* insertAPHintSelection: before the first that is worse; the last of a full list
\* makes room.
Insert(list, selection) ==
    LET after == {i \in DOMAIN list : Better(selection, list[i])}
        at    == IF after = {} THEN Len(list) + 1 ELSE CHOOSE i \in after : \A j \in after : i <= j
        grown == InsertAt(list, at, selection)
    IN  SubSeq(grown, 1, IF Len(grown) > limit THEN limit ELSE Len(grown))

\* scoreAPCallHintHypothesis: the gates are for the better metric only.
Scored(hint, field, single, triple) ==
    LET second == \/ triple.score > single.score
                  \/ /\ triple.score = single.score
                     /\ triple.matches > single.matches
        best   == IF second THEN triple ELSE single
    IN  [hint |-> hint, field |-> field, metric |-> IF second THEN 1 ELSE 0,
         score |-> best.score, matches |-> best.matches]

HintsInit ==
    /\ limit \in {IF n > MaxAPCallHypotheses THEN MaxAPCallHypotheses ELSE n : n \in HypothesisLimits}
    /\ scored = 0 /\ top = <<>> /\ below = 0 /\ passed = {}

Score ==
    /\ limit > 0 /\ scored < 2 * Hints /\ scored' = scored + 1
    /\ \E single, triple \in [score : Scores, matches : MatchCounts] :
         LET selection == Scored(scored \div 2, scored % 2, single, triple)
         IN  IF selection.matches < MinMatches \/ selection.score < MinScore
             THEN below' = below + 1 /\ UNCHANGED <<top, passed>>
             ELSE /\ top' = Insert(top, selection) /\ passed' = passed \cup {selection}
                  /\ UNCHANGED below
    /\ UNCHANGED limit

HintsSpec == HintsInit /\ [][Score]_hintVars
------------------------------------------------------------------------------
\* Whatever the order they were scored in, the list holds the best hypotheses there
\* are, as many as it can, in the order in which they are tried; and none is counted
\* twice or forgotten (src/ft8/ap_hints.go:87-147).
BestHypotheses ==
    /\ Range(top) \subseteq passed /\ Len(top) = Cardinality(Range(top))
    /\ Len(top) = IF Cardinality(passed) < limit THEN Cardinality(passed) ELSE limit
    /\ \A i, j \in DOMAIN top : i < j => Better(top[i], top[j])
    /\ \A a \in passed \ Range(top), b \in Range(top) : Better(b, a)
    /\ below + Cardinality(passed) = scored
==============================================================================
