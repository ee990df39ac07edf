\* Two requests at a time, overlapping or not, and one Redis call that fails.
CONSTANTS
    People = {host, guest, other}
    Host = host
    PlayerLimit = 2
    Workers = {w1, w2}
    NoLobby = NoLobby
    MaxRequests = 5
    MaxFaults = 1
SPECIFICATION Spec
INVARIANTS
    RosterSound
    AcknowledgedAreSeated
    NewsInSync
\* A deleted lobby accepts no request, and the number of requests is bounded.
CHECK_DEADLOCK FALSE
