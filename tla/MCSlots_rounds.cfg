SPECIFICATION GameSpec
CONSTANTS
    Resolution = 100
    NotInteger = NotInteger
    Orders <- Calls
    ClassicDraws <- Nines
    VideoDraws <- Fives
CHECK_DEADLOCK FALSE
INVARIANTS WinsAreOnTheGrid CellsFollowWeights PageTellsTheRound
