CONSTANTS
    Sections <- MCSections
    MaxWords = 5
    WordsAt <- MCWordsAt
    OnAir <- MCOnAir
    Starts <- MCStarts
SPECIFICATION AirSpec
INVARIANTS
    CanonicalTextStays
    TextSaysWhatWasGiven
    SentIsAccepted
    HeardAsSent
CHECK_DEADLOCK FALSE
