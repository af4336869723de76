CONSTANTS
    K1 = K1
    W9 = W9
    T5 = T5
    CQ = CQ
    NoCall = NoCall
    CQText = CQ
    MaxHash = 2
    Texts <- MCTexts
    Unsavable = {CQ}
    Short = {CQ}
    DirectedCQ = {}
    Rover = {}
    Slashed = {}
    GuessTails = {"RR73", "report"}
    StandardCalls = {K1, W9, T5}
    Packed = {K1, W9}
    Hash22 <- MCHash22
    Suffixed <- MCSuffixed
    IntHalf = 8388608
    MaxAPCallHints = 2
    Unpackable <- MCUnpackable
    Spellings <- MCSpellings
    UpperCall <- MCUpperCall
    N28 <- MCN28
    Payloads <- MCPayloads
    MaxUnpacked = 1
    MaxReturned = 2
    Methods = {"checked"}
    Captures = {"whole", "malformed"}
    HintLists <- MCNoHints
    BlockLists <- MCBlockLists
SPECIFICATION Spec
INVARIANTS
    HintsFromSameCadence
CHECK_DEADLOCK FALSE
