SPECIFICATION MCSpec
CONSTANTS
    Bytes <- MCBytes
    Numbers <- MCNumbers
    MaxParams = 1
    TitleBytes <- MCTitleBytes
    MAX_OSC_BYTES = 4
    MaxSequences = 2
    Columns = 3
    Styles <- MCStyles
INVARIANTS TerminatorEnds TitleHasNoTerminator RedrawShows
PROPERTY BrokenTextKept
CHECK_DEADLOCK FALSE
