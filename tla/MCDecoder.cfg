CONSTANTS
    K1 = K1
    W9 = W9
    T5 = T5
    CQ = CQ
    NoCall = NoCall
    CQText = CQ
    MaxHash = 2
    Texts <- MCTexts
    Unsavable = {CQ}
    Short = {CQ}
    DirectedCQ = {}
    Rover = {}
    Slashed = {}
    GuessTails = {"RR73"}
    StandardCalls = {K1, W9, T5}
    Packed = {K1, W9}
    Hash22 <- MCHash22
    Suffixed <- MCSuffixed
    IntHalf = 8388608
    MaxAPCallHints = 2
    Unpackable <- MCUnpackable
    Spellings <- MCSpellings
    UpperCall <- MCUpperCall
    N28 <- MCN28
    Payloads <- MCMorePayloads
    MaxUnpacked = 2
    MaxReturned = 2
    Methods = {"checked", "permissive"}
    Captures = {"whole", "malformed"}
    HintLists <- MCHintLists
    BlockLists <- MCMixedLists
SPECIFICATION Spec
INVARIANTS
    HintsWhileNoneRejected
    OptionsMatchOriginals
PROPERTIES
    ErrorsKeepState
    GuessesHaveSource
    OneGuessPerExchange
    GuessedCQsHaveGrid
CHECK_DEADLOCK FALSE
