\* Two requests at a time on a 2 x 2 board with two lines left, and a restart.
CONSTANTS
    BoardSize = 2
    NumPlayers = 2
    NoSeat = NoSeat
    Outsider = Outsider
    Workers = {w1, w2}
    Opening <- LateGame
    MaxRequests = 3
    MaxFaults = 0
    MaxRestarts = 1
SPECIFICATION Spec
INVARIANTS
    OwnedImpliesComplete
    EndedImpliesFull
    ClashImpliesOverlap
PROPERTIES
    FinishedTakesNoCommand
    EndIsAnnounced
\* The bound on requests and a finished game both end a behaviour.
CHECK_DEADLOCK FALSE
