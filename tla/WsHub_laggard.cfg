\* Two users; one egress queue can fill.
CONSTANTS
    c1 = c1
    c2 = c2
    u1 = u1
    u2 = u2
    lobbies = lobbies
    page = page
    Conns = {c1, c2}
    Users = {u1, u2}
    Owner <- TwoUsers
    Topics = {lobbies, page}
    Opening <- OpenLobbies
    SubscribeLimit = 2
    BroadcastLimit = 2
    EgressLimit = 1
    NoConn = NoConn
    MaxEvents = 2
    MaxFaults = 0
SPECIFICATION Spec
PROPERTIES
    LaggardIsDropped
\* The hub may have nothing left to do.
CHECK_DEADLOCK FALSE
