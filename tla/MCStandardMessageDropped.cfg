CONSTANTS
    Sections <- MCSections
    MaxWords = 4
    WordsAt <- MCFourWords
SPECIFICATION Spec
INVARIANTS
    NoWordDropped
CHECK_DEADLOCK FALSE
