\* Two tabs of one user; small queues, so that all of them fill.
CONSTANTS
    c1 = c1
    c2 = c2
    u1 = u1
    u2 = u2
    lobbies = lobbies
    page = page
    Conns = {c1, c2}
    Users = {u1, u2}
    Owner <- OneUser
    Topics = {lobbies, page}
    Opening <- OpenLobbies
    SubscribeLimit = 2
    BroadcastLimit = 1
    EgressLimit = 1
    NoConn = NoConn
    MaxEvents = 2
    MaxFaults = 1
SPECIFICATION Spec
INVARIANTS
    AbsentIsHeardAbsent
    SubscribedOnce
PROPERTIES
    JoinersAreHeard
    HalfClosedIsUnregistered
\* The hub may have nothing left to do.
CHECK_DEADLOCK FALSE
