------------------------------ MODULE Structured ------------------------------
(***************************************************************************)
(* Structured results (src/ft8/result.go and the structured methods of      *)
(* src/ft8/a7.go), permissive and checked (src/ft8/checked.go): a caller    *)
(* fills in options and asks once; a slot is searched in strict mode and    *)
(* perhaps in deep mode, or by a Decoder made with the options; the lists   *)
(* are merged into rows that say which search found what.  A search returns *)
(* a list of texts without repetition (SlotOutcome); the same text from the *)
(* other search is another message, with its own SNR.  A message is tagged  *)
(* with the mode of the search that found it, which the code does not keep. *)
(***************************************************************************)
EXTENDS OptionsSpec

CONSTANTS
    Decodable,      \* the texts that can be decoded from the slot
    MaxEditsHeard   \* the bound on the edits before a slot with messages

ASSUME StructuredAssumption == IsFiniteSet(Decodable) /\ MaxEditsHeard \in Nat

VARIABLES
    asked,      \* how the slot was decoded, NotYet before
    searched,   \* the normalized options of the searches run, in order
    result,     \* the DecodeResult
    ended       \* how the call ended: "returned", "error" or "panic"

askVars == <<options, edits, asked, searched, result, ended>>

Modes == {"strict", "deep"}     \* DecodeMode; options of a caller's own are neither
------------------------------------------------------------------------------
NoMessage == [text |-> "none", search |-> "none"]       \* a nil copy

Row(message, mode) ==
    [message |-> message, Mode |-> mode,
     Strict |-> mode = "strict", Deep |-> mode = "deep", Duplicate |-> FALSE,
     StrictCopy |-> IF mode = "strict" THEN message ELSE NoMessage,
     DeepCopy |-> IF mode = "deep" THEN message ELSE NoMessage]

\* The copies of all rows point at the variable of the loop.
StrictRowsShared(strict) ==
    [i \in DOMAIN strict |->
       [Row(strict[i], "strict") EXCEPT !.StrictCopy = strict[Len(strict)]]]

\* The strict messages first, each a row of its own.
StrictRows(strict) == [i \in DOMAIN strict |-> Row(strict[i], "strict")]

\* The row of a message with the text, 0 if there is none (byText).
RowOf(rows, text) ==
    LET same == {i \in DOMAIN rows : rows[i].message.text = text}
    IN  IF same = {} THEN 0 ELSE CHOOSE i \in same : TRUE

\* A repeated message that takes the row over instead of being added to it.
MergeDeepReplacing(rows, message) ==
    LET i == RowOf(rows, message.text)
    IN  IF i = 0 THEN Append(rows, Row(message, "deep"))
        ELSE [rows EXCEPT ![i] = [Row(message, "deep") EXCEPT !.Duplicate = TRUE]]

\* A text that is looked for in the strict rows alone is known to be a
\* duplicate, but the new row is still added.
MergeDeepAdding(rows, message) ==
    LET i == RowOf(rows, message.text)
    IN  Append(IF i = 0 THEN rows
               ELSE [rows EXCEPT ![i].Deep = TRUE, ![i].Duplicate = TRUE,
                                 ![i].DeepCopy = message],
               Row(message, "deep"))

\* A deep message with a text that has a row is added to that row.
MergeDeep(rows, message) ==
    LET i == RowOf(rows, message.text)
    IN  IF i = 0 THEN Append(rows, Row(message, "deep"))
        ELSE [rows EXCEPT ![i].Deep = TRUE, ![i].Duplicate = TRUE,
                          ![i].DeepCopy = message]

\* mergeStructuredDecode
Merge(strict, deep, includeDeep) ==
    [Messages |-> IF includeDeep THEN FoldLeft(MergeDeep, StrictRows(strict), deep)
                  ELSE StrictRows(strict),
     Strict |-> strict,
     Deep |-> IF includeDeep THEN deep ELSE <<>>]

\* The entries of a list that are picked, in order.
Picked(list, picks) ==
    FoldLeft(LAMBDA out, i : IF i \in picks THEN Append(out, list[i]) ELSE out, <<>>,
             [i \in DOMAIN list |-> i])

StrictMessages(r) == Picked(r.Messages, {i \in DOMAIN r.Messages : r.Messages[i].Strict})
DeepOnly(r) ==
    Picked(r.Messages, {i \in DOMAIN r.Messages : r.Messages[i].Deep /\ ~r.Messages[i].Strict})
------------------------------------------------------------------------------
NotYet == [api |-> "none", deep |-> FALSE, checked |-> FALSE, slotOK |-> FALSE]
Empty == Merge(<<>>, <<>>, FALSE)

\* The mode a Decoder was configured for.
ModeOf(o) == IF decoderOptionsEmpty(o) THEN "strict"
             ELSE IF o = DeepDecoderOptions THEN "deep" ELSE "custom"

\* What a search may find: nothing in a slot of noise, after many edits.
Lists(mode) ==
    {[i \in DOMAIN texts |-> [text |-> texts[i], search |-> mode]] :
       texts \in IF edits <= MaxEditsHeard
                 THEN {t \in SeqOf(Decodable, Cardinality(Decodable)) : IsInjective(t)}
                 ELSE {<<>>}}

structuredDeepOptions(o) == IF decoderOptionsEmpty(o) THEN DeepDecoderOptions ELSE o

\* The options of the searches that a call makes, as they are given.
Given(call) ==
    CASE call.api = "decoder" -> <<options>>
      [] call.api = "package" /\ call.deep -> <<ZeroOptions, structuredDeepOptions(options)>>
      [] call.api = "package" /\ ~call.deep -> <<ZeroOptions>>

Rejects(call) ==
    call.checked /\ ~(call.slotOK /\ \A i \in DOMAIN Given(call) : ValidOptions(Given(call)[i]))

\* A search slices the slot at a negative number of samples (decodeBlocks).
Panics(call) ==
    /\ ~Rejects(call)
    /\ \E i \in DOMAIN Given(call) :
         LET counts == NormalizeDecoderOptions(Given(call)[i]).blocks
         IN  \E j \in DOMAIN counts : Samples(counts[j]) < 0
------------------------------------------------------------------------------
AskInit == /\ InitOptions
           /\ asked = NotYet /\ searched = <<>> /\ result = Empty /\ ended = "not yet"

Fill == asked = NotYet /\ EditOptions /\ UNCHANGED <<asked, searched, result, ended>>

Returns(call) == ~Rejects(call) /\ ~Panics(call) /\ ended' = "returned"

\* The package functions: a strict search, and a deep one if asked for.
DecodeStructured(call) ==
    /\ call.api = "package" /\ Returns(call)
    /\ \E strict \in Lists("strict"), deep \in IF call.deep THEN Lists("deep") ELSE {<<>>} :
         result' = Merge(strict, deep, call.deep)

\* The methods of a Decoder: one search with the options it was made with, in
\* whichever mode they are; what it finds is merged as the strict list.
DecoderDecodeStructured(call) ==
    /\ call.api = "decoder" /\ Returns(call)
    /\ \E found \in Lists(ModeOf(options)) : result' = Merge(found, <<>>, FALSE)

\* A checked call that returns an error.
RejectStructured(call) == Rejects(call) /\ ended' = "error" /\ UNCHANGED result

\* A call that never returns to its caller.
PanicStructured(call) == Panics(call) /\ ended' = "panic" /\ UNCHANGED result

Ask(call) ==
    /\ asked = NotYet /\ asked' = call /\ UNCHANGED <<options, edits>>
    /\ searched' = IF Rejects(call) THEN <<>>
                   ELSE [i \in DOMAIN Given(call) |-> NormalizeDecoderOptions(Given(call)[i])]
    /\ \/ DecodeStructured(call) \/ DecoderDecodeStructured(call)
       \/ RejectStructured(call) \/ PanicStructured(call)

Calls == {call \in [api : {"package", "decoder"}, deep : BOOLEAN,
                    checked : BOOLEAN, slotOK : BOOLEAN] : call.api = "decoder" => ~call.deep}

AskNext == Fill \/ \E call \in Calls : Ask(call)

AskSpec == AskInit /\ [][AskNext]_askVars
------------------------------------------------------------------------------
\* Whatever options are given to a permissive API, each search it makes can run,
\* unless a block count is so large that its samples overflow an int; only then
\* does a call panic.
NormalizedRunnable ==
    /\ \A i \in DOMAIN searched : Runnable(searched[i])
    /\ ended = "panic" =>
         \E i \in DOMAIN searched : \E j \in DOMAIN searched[i].blocks :
           Overflows(searched[i].blocks[j])

\* "entry %d exceeds the 15-second decoder buffer": no block count that a checked
\* API accepts is longer than the buffer.
CheckedBlocksFit ==
    asked.checked =>
      \A i \in DOMAIN searched : \A j \in DOMAIN searched[i].blocks :
        searched[i].blocks[j] * FrameSamples <= BufferSamples

\* A checked API searches only with options that it accepted, and exactly with
\* those; if the slot or the options of one of its searches are bad, none is made
\* and nothing is returned.
AcceptedAsGiven ==
    asked.checked =>
      /\ searched # <<>> => asked.slotOK /\ Len(searched) = Len(Given(asked))
      /\ searched = <<>> => result = Empty
      /\ \A i \in DOMAIN searched : AsGiven(searched[i], Given(asked)[i])

\* The hints of a search are the caller's, by the caller's priority.
HintsByPriority == \A i \in DOMAIN searched : HintsAsGiven(searched[i], Given(asked)[i])

TextsOf(messages) == {messages[i].text : i \in DOMAIN messages}

\* "Messages contains one merged row per unique decoded message text."
OneRowPerText ==
    LET rows == result.Messages
    IN  /\ \A i, j \in DOMAIN rows : rows[i].message.text = rows[j].message.text => i = j
        /\ {rows[i].message.text : i \in DOMAIN rows} =
             TextsOf(result.Strict) \cup TextsOf(result.Deep)

\* The message of a list with the text, NoMessage if it has none.
Found(list, text) ==
    LET same == {i \in DOMAIN list : list[i].text = text}
    IN  IF same = {} THEN NoMessage ELSE list[CHOOSE i \in same : TRUE]

\* A Decoder with options of its own: what it finds is labelled strict, even with
\* the deep options.
OwnOptions == asked.api = "decoder" /\ ~decoderOptionsEmpty(options)

\* A row's flags say exactly which of the two lists its text is in, its copies are
\* those lists' own messages of that text, the row itself is the strict one where
\* there is one, and its mode says so.  That is the mode of the search that found
\* the row's message, but for a Decoder with options of its own.
LabelsTellSource ==
    \A i \in DOMAIN result.Messages :
      LET row == result.Messages[i]
          in(list) == row.message.text \in TextsOf(list)
      IN  /\ row.Strict = in(result.Strict)
          /\ row.Deep = in(result.Deep)
          /\ row.Duplicate = (in(result.Strict) /\ in(result.Deep))
          /\ row.StrictCopy = Found(result.Strict, row.message.text)
          /\ row.DeepCopy = Found(result.Deep, row.message.text)
          /\ row.message = IF row.Strict THEN row.StrictCopy ELSE row.DeepCopy
          /\ row.Mode = IF row.Strict THEN "strict" ELSE "deep"
          /\ OwnOptions \/ row.Mode = row.message.search

\* Merging loses neither list's order: the strict rows are the strict list, and
\* the rows only deep mode found are what the deep list adds to it.
MergeKeepsOrder ==
    /\ [i \in DOMAIN StrictMessages(result) |-> StrictMessages(result)[i].message]
         = result.Strict
    /\ [i \in DOMAIN DeepOnly(result) |-> DeepOnly(result)[i].message]
         = Picked(result.Deep, {j \in DOMAIN result.Deep :
                                  result.Deep[j].text \notin TextsOf(result.Strict)})
==============================================================================
