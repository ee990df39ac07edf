\* A lobby for two that another one may fill: the user of the page and two others.
\* Three inputs and a request of the others, or two and two.
CONSTANTS
    People = {me, ann, bob}
    Me = me
    Hosts = {me, ann}
    PlayerLimit = 2
    NoLobby = NoLobby
    NoCopy = NoCopy
    NoGame = NoGame
    MaxOthers = 2
    MaxEffort = 7
SPECIFICATION Spec
INVARIANTS
    SeatFollowsPage
    StartedTogether
PROPERTIES
    NobodyLeftBehind
CHECK_DEADLOCK FALSE
