------------------------------- MODULE Decoder -------------------------------
(***************************************************************************)
(* The stateful Decoder of src/ft8/a7.go: one receiver stream, decoded slot *)
(* by slot.  It keeps the callsign table, the A7 hints of each of the two   *)
(* cadences, and its options twice: as they were given, for the checked     *)
(* methods, and normalized, for decoding.  A slot's decode is one step of   *)
(* SlotOutcome, which DecodeSlot implements.                                *)
(*                                                                          *)
(* Every step that decodes stands for one 15-second period: its caller      *)
(* hands each period's capture to one of the decode methods.                *)
(***************************************************************************)
EXTENDS A7Hints, Options, FiniteSets

CONSTANTS
    Payloads,       \* the payloads of the codewords on the air
    MaxUnpacked,    \* the bound on the codewords unpacked in one slot
    MaxReturned,    \* the bound on the texts returned for one slot
    Methods,        \* the methods the caller uses: "permissive", "checked"
    Captures,       \* what a period's capture may be: "whole", "malformed"
    HintLists,      \* the AP call hint lists the caller may set
    BlockLists      \* what the caller's Blocks slice may hold

ASSUME DecoderAssumption ==
    /\ Payloads \subseteq Payload /\ {MaxUnpacked, MaxReturned} \subseteq Nat
    /\ Methods \subseteq {"permissive", "checked"}
    /\ Captures \subseteq {"whole", "malformed"}
    /\ HintLists \subseteq Seq(APCallHint)
    /\ BlockLists \subseteq Seq(Int)
    \* Counts whose samples come out negative make a decode panic (Structured).
    /\ \A counts \in BlockLists : \A i \in DOMAIN counts :
         counts[i] > 0 => Samples(counts[i]) >= 0

VARIABLES
    seq,            \* which cadence the next slot is taken to be
    history,        \* the hints collected from the last slot of each cadence
    calls22,        \* hashes.calls22
    rawHints,       \* rawOptions.APCallHints, a copy of the caller's
    apCallHints,    \* options.apCallHints
    callerBlocks,   \* the caller's Blocks slice, which rawOptions.Blocks shares
    blocks,         \* options.blocks[0..blockCount-1]
    returned,       \* how the last decode call returned
    given,          \* auxiliary: the Blocks as given to NewDecoderWithOptions
    heard,          \* auxiliary: the texts of the last period and of the one before
    rejected        \* auxiliary: whether a period was ever rejected

vars == <<seq, history, calls22, rawHints, apCallHints, callerBlocks, blocks,
          returned, given, heard, rejected>>

Slot == INSTANCE SlotOutcome
          WITH hints <- <<>>, returned <- TRUE, texts <- heard[1], table <- calls22
------------------------------------------------------------------------------
\* NewDecoderWithOptions
Init == /\ seq = 0
        /\ history = [p \in {0, 1} |-> <<>>]
        /\ calls22 = <<>>
        /\ rawHints \in HintLists
        /\ apCallHints = NormalizeAPCallHints(rawHints)
        /\ callerBlocks \in BlockLists
        /\ blocks = NormalizeDecoderOptions(
                      [ZeroOptions EXCEPT !.blocks = callerBlocks]).blocks
        /\ returned = "nothing"
        /\ given = callerBlocks
        /\ heard = <<<<>>, <<>>>>
        /\ rejected = FALSE

\* A7 has a say only if the full slot is among the block counts.
HintsTried ==
    IF Contains(blocks, 50)
    THEN [i \in DOMAIN history[seq] |-> A7Texts(history[seq][i])] ELSE <<>>

\* The cadence never changes.
DecodeMessagesStuck ==
    \E r \in Slot!Results(calls22, HintsTried) :
      /\ Len(r.texts) <= MaxReturned
      /\ calls22' = r.table
      /\ history' = [history EXCEPT ![seq] = CollectA7Hints(r.texts)]
      /\ heard' = <<r.texts, heard[1]>>
      /\ returned' = "report"
      /\ UNCHANGED <<seq, rawHints, apCallHints, callerBlocks, blocks, given, rejected>>

\* DecodeMessages, DecodeMessagesWithReport and the structured methods on top of
\* them: hints of this cadence in, this slot's texts out, on to the other one.
DecodeMessages ==
    \E r \in Slot!Results(calls22, HintsTried) :
      /\ Len(r.texts) <= MaxReturned
      /\ calls22' = r.table
      /\ history' = [history EXCEPT ![seq] = CollectA7Hints(r.texts)]
      /\ seq' = 1 - seq
      /\ heard' = <<r.texts, heard[1]>>
      /\ returned' = "report"
      /\ UNCHANGED <<rawHints, apCallHints, callerBlocks, blocks, given, rejected>>

Permissive == "permissive" \in Methods /\ DecodeMessages

\* validateDecodeRequest: the capture first, then the options as supplied.
Validated(capture) ==
    IF capture = "malformed" THEN "ErrInvalidDecodeInput"
    ELSE IF ~ValidBlocks(callerBlocks) THEN "ErrInvalidDecoderOptions" ELSE "valid"

CheckedDecodes ==
    /\ "checked" \in Methods
    /\ \E capture \in Captures : Validated(capture) = "valid"
    /\ DecodeMessages

\* The hints of the slot are dropped before the request is validated.
CheckedRejectsLate ==
    /\ "checked" \in Methods
    /\ \E capture \in Captures : /\ Validated(capture) # "valid"
                                 /\ returned' = Validated(capture)
    /\ history' = [history EXCEPT ![seq] = <<>>]
    /\ heard' = <<<<>>, heard[1]>>
    /\ rejected' = TRUE
    /\ UNCHANGED <<seq, calls22, rawHints, apCallHints, callerBlocks, blocks, given>>

\* DecodeMessagesChecked and DecodeStructuredChecked return the error; a period
\* has gone by and the decoder does not know.
CheckedRejects ==
    /\ "checked" \in Methods
    /\ \E capture \in Captures : /\ Validated(capture) # "valid"
                                 /\ returned' = Validated(capture)
    /\ heard' = <<<<>>, heard[1]>>
    /\ rejected' = TRUE
    /\ UNCHANGED <<seq, history, calls22, rawHints, apCallHints, callerBlocks,
                   blocks, given>>

\* The copy for the checked methods forgotten.
SetAPCallHintsOnce(hints) ==
    /\ apCallHints' = NormalizeAPCallHints(hints)
    /\ UNCHANGED <<seq, history, calls22, rawHints, callerBlocks, blocks,
                   returned, given, heard, rejected>>

SetAPCallHints(hints) ==
    /\ rawHints' = hints
    /\ apCallHints' = NormalizeAPCallHints(hints)
    /\ UNCHANGED <<seq, history, calls22, callerBlocks, blocks,
                   returned, given, heard, rejected>>

\* The caller reuses the slice it passed as Blocks.
CallerWritesBlocks ==
    /\ callerBlocks' \in BlockLists
    /\ Len(callerBlocks') = Len(callerBlocks)
    /\ UNCHANGED <<seq, history, calls22, rawHints, apCallHints, blocks,
                   returned, given, heard, rejected>>
------------------------------------------------------------------------------
DecodeCall == Permissive \/ CheckedDecodes \/ CheckedRejects

Next == \/ DecodeCall
        \/ \E hints \in HintLists : SetAPCallHints(hints)

Spec == Init /\ [][Next]_vars

\* With a caller that goes on using its slice.
SharingSpec == Init /\ [][Next \/ CallerWritesBlocks]_vars
------------------------------------------------------------------------------
\* "A7 hints are keyed by parity and come from the previous slot with the same
\* even/odd cadence": the hints the next decode will use were collected from
\* the period before last, those kept for later from the last one.
HintsFromSameCadence ==
    /\ history[seq] = CollectA7Hints(heard[2])
    /\ history[1 - seq] = CollectA7Hints(heard[1])

\* As long as no period was rejected they do, whichever methods are called, and
\* whether or not the full slot is among the block counts.
HintsWhileNoneRejected == ~rejected => HintsFromSameCadence

\* "Invalid input or options return an error and do not advance decoder state":
\* whatever is called between an error and the next decode, that decode finds
\* the cadence, the hints and the callsign table of before the error.
ErrorsKeepState ==
    [][returned' \in {"ErrInvalidDecodeInput", "ErrInvalidDecoderOptions"} =>
         UNCHANGED <<seq, history, calls22>>]_vars

\* A text no codeword on the air could carry is a guess, and every guess names
\* the stations of a text returned in the same cadence one turn before, if only
\* as a CQ of the second of them, unless a period was rejected.
OnAir(text, tables) ==
    \E payload \in Payloads, table \in tables :
      LET got == Unpack77(payload, table) IN got.ok /\ got.text = text

GuessesHaveSource ==
    [][heard'[2] = heard[1] /\ heard' # heard /\ ~rejected' =>
         \A i \in DOMAIN heard'[1] :
           LET text == heard'[1][i]
           IN  \/ OnAir(text, {calls22, calls22'})
               \/ \E j \in DOMAIN heard[2] :
                    LET source == heard[2][j]
                    IN  /\ Len(source.calls) = 2
                        /\ source.calls[2] = text.calls[2]
                        /\ text.calls[1] \in {source.calls[1], Plain(CQText)}]_vars

\* A text in full that no codeword on the air could carry, whatever is in the
\* table: it names both stations, so no hash had to be resolved.
Guessed(text) ==
    /\ \A i \in DOMAIN text.calls : ~text.calls[i].hashed
    /\ \A payload \in Payloads :
         LET got == Slot!Unpack77(payload, <<>>) IN ~(got.ok /\ got.text = text)

Guesses(texts) == {i \in DOMAIN texts : Guessed(texts[i])}

\* However often an exchange was heard in the slot of the same cadence before, it
\* is guessed at once: a slot returns no more guesses than there were exchanges.
OneGuessPerExchange ==
    [][seq' # seq =>
         Cardinality(Guesses(heard'[1])) <= Cardinality(Range(history[seq]))]_vars

\* A CQ is guessed only of a station heard with a grid in the same cadence one
\* turn before, unless a period was rejected; an RR73 is taken for one.
GuessedCQsHaveGrid ==
    [][seq' # seq /\ ~rejected' =>
         \A i \in Guesses(heard'[1]) :
           LET text == heard'[1][i]
           IN  IsCQ(text) =>
                 \E j \in DOMAIN heard[2] :
                   LET source == heard[2][j]
                   IN  /\ Len(source.calls) = 2 /\ ~source.calls[2].hashed
                       /\ source.calls[2].call = text.calls[2].call
                       /\ GridOf(source.tail) # ""]_vars

\* The normalized options are those of the originals: a decoder whose hints were
\* replaced decodes like one made with the new hints.
OptionsMatchOriginals ==
    LET normalized == NormalizeDecoderOptions([ZeroOptions EXCEPT !.blocks = given,
                                                                  !.hints = rawHints])
    IN  apCallHints = normalized.hints /\ blocks = normalized.blocks

\* "DecodeMessagesChecked validates the original options supplied here."
ValidatesOriginal ==
    returned = "ErrInvalidDecoderOptions" => ~ValidBlocks(given)
==============================================================================
