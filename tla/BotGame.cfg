CONSTANTS
    NumPlayers = 3
    LineCount = 3
    Workers = {w1, w2}
    Ticker = ticker
    TurnLimit = 2
    GraceLimit = 1
    BotDelay = 1
SPECIFICATION Spec
INVARIANTS
    BotTurnAttended
    GraceMatchesAbsence
    TurnNeverOverruns
PROPERTIES
    EndedIsFinal
    EndIsAnnounced
    TurnsEnd
\* Once the game has ended and its clock has stopped there is nothing to do.
CHECK_DEADLOCK FALSE
