CONSTANTS
    IntHalf = 8388608
    MaxAPCallHints = 2
    Unpackable <- MCUnpackable
    Spellings <- MCSpellings
    UpperCall <- MCUpperCall
    N28 <- MCN28
    FloatValues <- MCFloatValues
    IntValues <- MCIntValues
    BlockValues <- MCBlockValues
    Hints <- MCHints
    MaxEdits = 5
    Decodable = {t1, t2, t3}
    MaxEditsHeard = 1
SPECIFICATION AskSpec
INVARIANTS
    NormalizedRunnable
    AcceptedAsGiven
    HintsByPriority
    OneRowPerText
    LabelsTellSource
    MergeKeepsOrder
CHECK_DEADLOCK FALSE
