CONSTANTS
    IntHalf = 8388608
    MaxAPCallHints = 2
    Unpackable <- MCUnpackable
    Spellings <- MCSpellings
    UpperCall <- MCUpperCall
    N28 <- MCN28
    FloatValues = {}
    IntValues = {}
    BlockValues <- MCWrapping
    Hints <- MCFewHints
    MaxEdits = 2
    Decodable = {t1, t2}
    MaxEditsHeard = 1
SPECIFICATION AskSpec
INVARIANTS
    CheckedBlocksFit
CHECK_DEADLOCK FALSE
