\* One request at a time, a failing call and a restart.
CONSTANTS
    BoardSize = 1
    NumPlayers = 2
    NoSeat = NoSeat
    Outsider = Outsider
    Workers = {w1}
    Opening <- NoOpening
    MaxRequests = 6
    MaxFaults = 1
    MaxRestarts = 1
SPECIFICATION Spec
INVARIANTS
    TypeOK
    AllInSync
\* The bound on requests and a finished game both end a behaviour.
CHECK_DEADLOCK FALSE
