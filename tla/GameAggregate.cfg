\* Three players on a 2 x 2 board, every order of moves, timeouts and forfeits.
CONSTANTS
    BoardSize = 2
    NumPlayers = 3
    NoSeat = NoSeat
    Outsider = Outsider
SPECIFICATION Spec
INVARIANTS
    TypeOK
    OwnedIffComplete
    ScoresCountBoxes
    FullBoardIsDecided
    BotTakesTheMost
    ForesightIsExact
PROPERTIES
    ImplementsRules
    ImplementsTurnGame
\* A finished game accepts no command.
CHECK_DEADLOCK FALSE
