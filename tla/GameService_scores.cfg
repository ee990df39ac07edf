\* Two requests at a time.
CONSTANTS
    BoardSize = 1
    NumPlayers = 2
    NoSeat = NoSeat
    Outsider = Outsider
    Workers = {w1, w2}
    Opening <- HalfABox
    MaxRequests = 3
    MaxFaults = 0
    MaxRestarts = 0
SPECIFICATION Spec
INVARIANTS
    ScoresAddUp
\* The bound on requests and a finished game both end a behaviour.
CHECK_DEADLOCK FALSE
