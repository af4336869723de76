------------------------------- MODULE A7Hints --------------------------------
(***************************************************************************)
(* The A7 hints of src/ft8/a7.go: what a decoded message suggests for the   *)
(* next slot of the same cadence, and the texts a hint is tried as there.   *)
(* Reports are told apart only as plain or with an R, grids not at all, but *)
(* a trailing RR73 is one: isGrid4 accepts it.                              *)
(***************************************************************************)
EXTENDS Unpack, SequencesExt

CONSTANTS
    StandardCalls,  \* the texts callOK accepts, however long
    Packed,         \* those of them that pack28 packs, of six characters at most
    Slashed,        \* the texts with a "/"
    GuessTails      \* the bound on the tails tried after the calls of a hint

ASSUME CallsAssumption ==
    /\ StandardCalls \subseteq Texts \ (Short \cup DirectedCQ)
    /\ Packed \subseteq StandardCalls
    /\ Rover \subseteq Slashed /\ Slashed \subseteq Texts
    /\ GuessTails \subseteq Tails4 \cup {"report", "R report"}
------------------------------------------------------------------------------
\* Grid is the tail the grid is sent in, "" for none.
Hint == [call1 : Texts, call2 : Texts, grid : {"", "grid", "RR73"}]

\* isGrid4 of the last word.
GridOf(tail) == CASE tail \in {"grid", "R grid"} -> "grid"
                  [] tail = "RR73" -> "RR73"
                  [] OTHER -> ""

\* parseA7Hint: the hints a text gives, none or one.  A directed CQ needs a
\* fourth word, which is then its grid; free text is taken to give none.
ParseA7Hint(text) ==
    LET call(i) == text.calls[i].call
        hint == [call1 |-> call(1), call2 |-> call(2), grid |-> GridOf(text.tail)]
    IN  IF /\ Len(text.calls) = 2
           /\ \A i \in 1..2 : ~text.calls[i].hashed /\ call(i) \notin Slashed
           /\ call(2) \in StandardCalls
           /\ \/ call(1) \in StandardCalls \cup {CQText}
              \/ call(1) \in DirectedCQ /\ text.tail = "grid"
        THEN {hint} ELSE {}

\* Hints kept however often the same exchange was heard.
CollectA7HintsAll(texts) ==
    FoldLeft(LAMBDA hints, text : hints \o SetToSeq(ParseA7Hint(text)), <<>>, texts)

\* collectA7Hints: in the order of the messages, each exchange once.
CollectA7Hints(texts) ==
    FoldLeft(LAMBDA hints, text : hints \o SetToSeq(ParseA7Hint(text) \ Range(hints)),
             <<>>, texts)

\* a7CandidateMessages, as far as the texts can be packed (cachedA7Codeword).
A7TextsUnguarded(hint) ==
    LET base(tail) == Text(<<Plain(hint.call1), Plain(hint.call2)>>, tail)
        cq == Text(<<Plain(IF hint.call1 \in DirectedCQ THEN hint.call1 ELSE CQText),
                     Plain(hint.call2)>>, hint.grid)
    IN  {text \in {base(t) : t \in GuessTails \cup {hint.grid}} \cup {cq} :
           \A i \in 1..2 : text.calls[i].call \in Packed \cup {CQText} \cup DirectedCQ}

IsCQ(text) == Len(text.calls) = 2 /\ text.calls[1].call \in {CQText} \cup DirectedCQ

\* What decodeA7Candidate may accept: with no grid in the hint, no text that
\* begins with CQ.
A7Texts(hint) ==
    {text \in A7TextsUnguarded(hint) : hint.grid = "" => ~IsCQ(text)}
==============================================================================
