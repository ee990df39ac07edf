------------------------------ MODULE LobbyPage ------------------------------
(***************************************************************************)
(* One user's lobby page (web/src/routes/_authenticated/lobby/$lobbyID.tsx) *)
(* against the lobby service, its feed and the other members.              *)
(*                                                                         *)
(* The page keeps a copy of the roster, puts the user back into the lobby   *)
(* when the copy does not name them (once per mount), and takes them out    *)
(* when the page is left.  Joins and leaves are requests of their own: they *)
(* may still be under way when the user has moved on, and the feed may tell *)
(* of their effect before the answer does.                                 *)
(*                                                                         *)
(* The answer to a request comes back to whatever the user looks at by then, *)
(* unless the page was loaded again meanwhile: then nobody waits for it.    *)
(*                                                                         *)
(* Requests are served one at a time here: Lobby has their races.  The two  *)
(* copies of each update (lobby:<id> and global:lobbies both carry the      *)
(* topic of the lobby) are one message.                                    *)
(***************************************************************************)
EXTENDS Roster, Sequences

CONSTANTS
    Me,           \* the user of the page
    Hosts,        \* who may have created the lobby
    NoCopy,       \* the page has fetched nothing yet
    NoGame,
    MaxOthers,    \* bound: requests of the other members
    MaxEffort     \* bound: these, and twice what the user does, together

ASSUME PeopleAssumption == Me \in People /\ Hosts \subseteq People

\* What stands for a missing copy or game is none.
ASSUME NoneAssumption ==
    /\ \A roster \in (SUBSET Entries) \union {NoLobby} : NoCopy # roster
    /\ \A players \in SUBSET People : NoGame # players

VARIABLES
    store,        \* the stored roster, or NoLobby
    host,         \* who created the lobby
    game,         \* the players of the game that was started
    link,         \* the connection: opened, known to the hub, on its own topic
    hears,        \* the hub sends lobby:<id> to the user's connection
    feed,         \* messages under way to the user
    screen,       \* what the user looks at
    visit,        \* which mount of the page
    since,        \* the first mount since the page was loaded
    copy,         \* the cached roster; survives the page
    get,          \* the GET under way
    calls,        \* the user's other requests under way
    hasLeft, attempted, starting,   \* the page's three refs
    others, inputs,
    crossed,      \* history: the user was asking for a seat and giving it up at once
    turnedAway,   \* history: the join of this visit was answered with 409
    summons,      \* history: whether the page shown was called to the game
    agreed        \* history: rosters of two or more, all ready, that were stored

serverVars == <<store, host, game, hears, agreed>>
refVars    == <<hasLeft, attempted, starting>>
pageVars   == <<screen, visit, since, copy, get, hasLeft, attempted, starting>>
boundVars  == <<others, inputs>>
noteVars   == <<turnedAway, summons>>
vars == <<serverVars, link, feed, pageVars, calls, boundVars, crossed, noteVars>>

Seated == IF store = NoLobby THEN {} ELSE Users(store)

AllReady(roster) == Cardinality(roster) >= 2 /\ \A e \in roster : e.ready

------------------------------------------------------------------------------
(* Requests.                                                               *)

\* A request belongs to the mount that sent it; "who" is a start's roster.
Request(kind, who) == [kind |-> kind, visit |-> visit, step |-> "sent", who |-> who]

Leaves == {"leave", "quietLeave"}
Joins  == {"join", "listJoin"}

\* A leave counts until its answer is there, a join until it is served.
Crossing(c, d) == c.kind \in Leaves /\ d.kind \in Joins /\ d.step = "sent"

underWay(after) ==
    /\ calls' = after
    /\ crossed' = (crossed \/ \E c, d \in after : Crossing(c, d))

noCallChanges == UNCHANGED <<calls, crossed>>

\* The user does something (bound: nothing more once a join and a leave cross).
input ==
    /\ others + 2 * (inputs + 1) <= MaxEffort /\ ~crossed
    /\ inputs' = inputs + 1 /\ UNCHANGED others

Pending(kind) == \E c \in calls : c.kind = kind /\ c.visit = visit

------------------------------------------------------------------------------
(* The server.                                                             *)

\* Save and publish.
stored(roster) ==
    /\ store' = roster
    /\ agreed' = IF AllReady(roster) THEN agreed \union {Users(roster)} ELSE agreed
    /\ feed' = IF hears THEN Append(feed, [type |-> "lobby_updated", players |-> roster])
               ELSE feed

\* The last one to leave takes the lobby along.
removed(u) ==
    LET left == RemovePlayer(store, u)
    IN  IF IsEmpty(left)
        THEN store' = NoLobby /\ UNCHANGED <<agreed, feed>>
        ELSE stored(left)

\* Mutant: game:new goes to the lobby's topic only.
toldLobbyOnly(players) ==
    feed' = IF hears THEN Append(feed, [type |-> "game:new"]) ELSE feed

\* game:new goes to the lobby's topic and to each player's own, which a
\* connection hears only after it was registered.
told(players) ==
    feed' = IF hears \/ (link = "registered" /\ Me \in players)
            THEN Append(feed, [type |-> "game:new"]) ELSE feed

\* SubscribeUser subscribes the connections the hub knows.
subscribed == hears' = (hears \/ link \in {"known", "registered"})

\* CreateGame does not ask whether the lobby exists, or who sits in it.
started(players) ==
    /\ game = NoGame
    /\ Cardinality(players) >= 2
    /\ game' = players
    /\ summons' = IF screen = "lobby" /\ link = "registered" /\ Me \in players
                  THEN "called" ELSE summons
    /\ told(players)

\* What another member asks for.
RequestOfOther(u) ==
    \/ /\ store # NoLobby /\ CanJoin(store, u)
       /\ stored(AddPlayer(store, u)) /\ UNCHANGED <<host, game, hears, summons>>
    \/ /\ u \in Seated
       /\ removed(u) /\ UNCHANGED <<host, game, hears, summons>>
    \/ /\ u \in Seated
       /\ \E e \in store : e.user = u /\ stored(SetReady(store, u, ~e.ready))
       /\ UNCHANGED <<host, game, hears, summons>>
    \/ /\ u = host /\ u \in Seated /\ AllReady(store)
       /\ started(Users(store))
       /\ UNCHANGED <<store, host, hears, agreed>>

\* The page of a host who has started the game deletes the lobby.
DeletedByOther(u) ==
    /\ u = host /\ game # NoGame /\ store # NoLobby
    /\ store' = NoLobby
    /\ UNCHANGED <<host, game, hears, agreed, feed, summons>>

OtherMember(u) ==
    /\ u # Me
    /\ \/ /\ others < MaxOthers /\ others + 1 + 2 * inputs <= MaxEffort
          /\ others' = others + 1
          /\ RequestOfOther(u)
       \/ DeletedByOther(u) /\ UNCHANGED others
    /\ UNCHANGED <<link, pageVars, calls, inputs, crossed, turnedAway>>

\* The page does nothing with the answers to these.
Unheeded == {"quietLeave", "ready", "delete"}

\* Whoever sent the request is gone when the page was loaded again.
heeded(c) == c.kind \notin Unheeded /\ c.visit >= since

\* A join that was saved is still to be served further.
answered(c, step) ==
    underWay((calls \ {c})
             \union IF heeded(c) \/ step = "saved" THEN {[c EXCEPT !.step = step]} ELSE {})

\* The join is stored and published; the subscription of the user comes after.
ServeJoin(c) ==
    /\ c.kind \in Joins /\ c.step = "sent"
    /\ \/ /\ store = NoLobby
          /\ answered(c, "missing") /\ UNCHANGED <<store, agreed, feed>>
       \/ /\ store # NoLobby /\ CanJoin(store, Me)
          /\ stored(AddPlayer(store, Me)) /\ answered(c, "saved")
       \/ /\ store # NoLobby /\ ~CanJoin(store, Me)
          /\ answered(c, "conflict") /\ UNCHANGED <<store, agreed, feed>>
    /\ UNCHANGED <<host, game, hears, link, pageVars, boundVars, noteVars>>

JoinSubscribes(c) ==
    /\ c.kind \in Joins /\ c.step = "saved"
    /\ subscribed
    /\ answered(c, "ok")
    /\ UNCHANGED <<store, host, game, agreed, link, feed, pageVars, boundVars, noteVars>>

\* "not in lobby" is answered with 200.
ServeLeave(c) ==
    /\ c.kind \in Leaves /\ c.step = "sent"
    /\ \/ /\ store = NoLobby
          /\ answered(c, "missing") /\ UNCHANGED <<store, agreed, feed>>
       \/ /\ Me \in Seated
          /\ removed(Me) /\ answered(c, "ok")
       \/ /\ store # NoLobby /\ Me \notin Seated
          /\ answered(c, "ok") /\ UNCHANGED <<store, agreed, feed>>
    /\ UNCHANGED <<host, game, hears, link, pageVars, boundVars, noteVars>>

ServeReady(c) ==
    /\ c.kind = "ready" /\ c.step = "sent"
    /\ answered(c, "ok")
    /\ IF Me \in Seated
       THEN \E e \in store : e.user = Me /\ stored(SetReady(store, Me, ~e.ready))
       ELSE UNCHANGED <<store, agreed, feed>>
    /\ UNCHANGED <<host, game, hears, link, pageVars, boundVars, noteVars>>

ServeStart(c) ==
    /\ c.kind = "start" /\ c.step = "sent"
    /\ started(c.who)
    /\ answered(c, "ok")
    /\ UNCHANGED <<store, host, hears, agreed, link, pageVars, boundVars, turnedAway>>

ServeDelete(c) ==
    /\ c.kind = "delete" /\ c.step = "sent"
    /\ store' = NoLobby
    /\ answered(c, "ok")
    /\ UNCHANGED <<host, game, hears, agreed, link, feed, pageVars, boundVars, noteVars>>

\* GetLobby reads first, and subscribes then.
ServeGet ==
    /\ get.step = "sent"
    /\ get' = [step |-> IF store = NoLobby \/ hears THEN "answered" ELSE "read",
               roster |-> store]
    /\ UNCHANGED <<serverVars, link, feed, screen, visit, since, copy, refVars, calls,
                   boundVars, crossed, noteVars>>

GetSubscribes ==
    /\ get.step = "read"
    /\ get' = [get EXCEPT !.step = "answered"]
    /\ subscribed
    /\ UNCHANGED <<store, host, game, agreed, link, feed, screen, visit, since, copy,
                   refVars, calls, boundVars, crossed, noteVars>>

linkOnly == UNCHANGED <<serverVars, feed, screen, visit, since, copy, refVars, calls,
                        boundVars, crossed, noteVars>>

\* ServeWs: the hub learns of the connection, ...
Register ==
    /\ link = "opened"
    /\ link' = "known"
    /\ linkOnly /\ UNCHANGED get

\* ... and subscribes it to the user's own topic.
HearOwnTopic ==
    /\ link = "known"
    /\ link' = "registered"
    /\ linkOnly /\ UNCHANGED get

------------------------------------------------------------------------------
(* The page.                                                               *)

NoGet == [step |-> "none", roster |-> NoLobby]

\* A GET under way is joined, unless it is to be cancelled.
fetchLobby(cancel) ==
    get' = IF get.step = "none" \/ cancel THEN [NoGet EXCEPT !.step = "sent"] ELSE get

\* invalidateQueries cancels a fetch only when there is a copy already.
invalidate == fetchLobby(copy # NoCopy)

\* onopen: the page that is shown fetches the lobby, to be subscribed.
Connect ==
    /\ link = "none"
    /\ link' = "opened"
    /\ IF screen = "lobby" THEN invalidate ELSE UNCHANGED get
    /\ linkOnly

\* A new copy is shown, and the rejoin effect runs on it.
show(roster, pending, tried) ==
    /\ copy' = roster
    /\ IF roster = NoCopy \/ tried \/ Me \in Users(roster)
       THEN attempted' = tried /\ underWay(pending)
       ELSE attempted' = TRUE
            /\ underWay(pending \union {[Request("join", {}) EXCEPT !.visit = visit']})

\* Mutant: the page takes every unmount for the one of React Strict Mode.
leaveQuietlyNever(pending) == pending

\* A page that was called to the game shows another one first.
excused == summons' = IF summons = "called" THEN "excused" ELSE summons

\* What unmounting, and beforeunload, send.
leaveQuietly(pending) ==
    IF starting \/ hasLeft THEN pending ELSE pending \union {Request("quietLeave", {})}

leaveTo(next, pending) ==
    /\ screen' = next
    /\ hasLeft' = (hasLeft \/ ~starting)
    /\ underWay(leaveQuietly(pending))
    /\ UNCHANGED <<visit, since, copy, attempted, starting>>

\* An answer navigates from whatever is shown by then; the page of the lobby
\* is unmounted by it.
goTo(next, pending) ==
    \/ screen = "lobby" /\ leaveTo(next, pending)
    \/ /\ screen # "lobby" /\ screen' = next
       /\ underWay(pending) /\ UNCHANGED <<visit, since, copy, refVars>>

\* Mounting fetches, and where the socket is open the page invalidates too.
mount(pending) ==
    /\ visit' = visit + 1
    /\ screen' = "lobby"
    /\ hasLeft' = FALSE /\ starting' = FALSE
    /\ turnedAway' = FALSE /\ excused
    /\ fetchLobby(copy # NoCopy /\ link # "none")
    /\ show(copy, pending, FALSE)
    /\ UNCHANGED since

\* By a link.
OpenPage ==
    /\ screen = "home" /\ input
    /\ mount(calls)
    /\ UNCHANGED <<serverVars, link, feed>>

\* handleJoinLobby of the list on /play, whose answer opens the page.
JoinFromList ==
    /\ screen = "home" /\ ~Pending("listJoin") /\ input
    /\ underWay(calls \union {Request("listJoin", {})})
    /\ UNCHANGED <<serverVars, link, feed, pageVars, noteVars>>

\* The page of the lobby is not mounted again when it is shown already.
ListJoinAnswered(c) ==
    /\ c.kind = "listJoin" /\ c.step \in {"ok", "conflict", "missing"}
    /\ IF c.step = "ok" /\ screen # "lobby"
       THEN mount(calls \ {c})
       ELSE underWay(calls \ {c}) /\ UNCHANGED <<pageVars, noteVars>>
    /\ UNCHANGED <<serverVars, link, feed, boundVars>>

Navigate ==
    /\ screen = "lobby" /\ input
    /\ leaveTo("home", calls)
    /\ excused
    /\ UNCHANGED <<serverVars, link, feed, get, turnedAway>>

\* The beacon leaves, and the page starts afresh with an empty cache and no
\* connection.  Requests may be cut off before they are served, those that keep
\* alive excepted; nobody waits for the others any more.
Reload ==
    /\ screen = "lobby" /\ input
    /\ visit' = visit + 1 /\ since' = visit'
    /\ hasLeft' = FALSE /\ attempted' = FALSE /\ starting' = FALSE
    /\ turnedAway' = FALSE /\ excused
    /\ copy' = NoCopy
    /\ get' = [NoGet EXCEPT !.step = "sent"]
    /\ link' = "none" /\ hears' = FALSE /\ feed' = <<>>
    /\ \E cutOff \in SUBSET {c \in calls : c.step = "sent" /\ c.kind # "quietLeave"} :
          underWay({c \in leaveQuietly(calls) \ cutOff : c.step \in {"sent", "saved"}})
    /\ UNCHANGED <<store, host, game, agreed, screen>>

\* A lobby that is gone takes the user to /play.
ReceiveGet ==
    /\ get.step = "answered"
    /\ get' = NoGet
    /\ \/ /\ screen = "lobby" /\ get.roster = NoLobby
          /\ leaveTo("home", calls) /\ excused
       \/ /\ screen = "lobby" /\ get.roster # NoLobby
          /\ UNCHANGED <<screen, visit, since, hasLeft, starting, summons>>
          /\ show(get.roster, calls, attempted)
       \/ /\ screen # "lobby"
          /\ copy' = IF get.roster = NoLobby THEN copy ELSE get.roster
          /\ noCallChanges /\ UNCHANGED <<screen, visit, since, refVars, summons>>
    /\ UNCHANGED <<serverVars, link, feed, boundVars, turnedAway>>

\* Only the mounted page listens.
ReceiveMessage ==
    /\ feed # <<>>
    /\ feed' = Tail(feed)
    /\ \/ /\ screen = "lobby" /\ Head(feed).type = "lobby_updated" /\ copy # NoCopy
          /\ UNCHANGED <<screen, visit, since, get, hasLeft, starting>>
          /\ show(Head(feed).players, calls, attempted)
       \/ /\ screen = "lobby" /\ Head(feed).type = "game:new"
          /\ screen' = "game" /\ starting' = TRUE
          /\ noCallChanges /\ UNCHANGED <<visit, since, copy, get, hasLeft, attempted>>
       \/ /\ screen # "lobby" \/ (Head(feed).type = "lobby_updated" /\ copy = NoCopy)
          /\ noCallChanges /\ UNCHANGED pageVars
    /\ UNCHANGED <<serverVars, link, boundVars, noteVars>>

\* Only a page that is shown fetches again; a 404 takes the user home.
RejoinAnswered(c) ==
    /\ c.kind = "join" /\ c.step \in {"ok", "conflict", "missing"}
    /\ turnedAway' = (turnedAway \/ (c.step = "conflict" /\ c.visit = visit))
    /\ \/ /\ c.step \in {"ok", "conflict"}
          /\ IF screen = "lobby" THEN invalidate ELSE UNCHANGED get
          /\ underWay(calls \ {c}) /\ UNCHANGED <<screen, visit, since, copy, refVars, summons>>
       \/ /\ c.step = "missing"
          /\ goTo("home", calls \ {c}) /\ excused /\ UNCHANGED get
    /\ UNCHANGED <<serverVars, link, feed, boundVars>>

handleToggleReady ==
    /\ screen = "lobby" /\ copy # NoCopy /\ link # "none" /\ ~Pending("ready") /\ input
    /\ underWay(calls \union {Request("ready", {})})
    /\ UNCHANGED <<serverVars, link, feed, pageVars, noteVars>>

\* Mutant: the button is enabled before everybody is ready.
mayStartUnready == copy # NoCopy /\ Cardinality(copy) >= 2

mayStart == copy # NoCopy /\ AllReady(copy)

\* The game is started with the roster as the page has it (bound: one game).
handleStartGame ==
    /\ screen = "lobby" /\ host = Me /\ mayStart /\ game = NoGame
    /\ \A c \in calls : c.kind # "start"
    /\ input
    /\ underWay(calls \union {Request("start", Users(copy))})
    /\ UNCHANGED <<serverVars, link, feed, pageVars, noteVars>>

\* The ref that keeps the page from leaving is that of the mount which asked.
StartAnswered(c) ==
    /\ c.kind = "start" /\ c.step = "ok"
    /\ LET pending == (calls \ {c}) \union {Request("delete", {})}
       IN  \/ /\ screen = "lobby" /\ c.visit = visit
              /\ starting' = TRUE /\ screen' = "game"
              /\ underWay(pending) /\ UNCHANGED <<visit, since, copy, hasLeft, attempted>>
           \/ ~(screen = "lobby" /\ c.visit = visit) /\ goTo("game", pending)
    /\ UNCHANGED <<serverVars, link, feed, get, boundVars, noteVars>>

handleLeaveLobby ==
    /\ screen = "lobby" /\ copy # NoCopy /\ ~Pending("leave") /\ input
    /\ hasLeft' = TRUE
    /\ underWay(calls \union {Request("leave", {})})
    /\ UNCHANGED <<serverVars, link, feed, screen, visit, since, copy, get, attempted,
                   starting, noteVars>>

\* The user is taken home, from another mount of the page too, which then
\* leaves on its own; after a 404 they stay, and have not left.
LeaveAnswered(c) ==
    /\ c.kind = "leave"
    /\ \/ /\ c.step = "ok"
          /\ goTo("home", calls \ {c})
          /\ excused
       \/ /\ c.step = "missing"
          /\ hasLeft' = (hasLeft /\ c.visit # visit)
          /\ underWay(calls \ {c})
          /\ UNCHANGED <<screen, visit, since, copy, attempted, starting, summons>>
    /\ UNCHANGED <<serverVars, link, feed, get, boundVars, turnedAway>>

------------------------------------------------------------------------------

\* The lobby was just created, by the user, whom this takes to its page, or
\* by another one.  The socket of a user who has been here for a while is open.
Init ==
    /\ host \in Hosts
    /\ store = AddPlayer({}, host)
    /\ game = NoGame
    /\ link \in {"none", "registered"}
    /\ hears = (host = Me /\ link = "registered")
    /\ feed = <<>>
    /\ screen = (IF host = Me THEN "lobby" ELSE "home")
    /\ visit = (IF host = Me THEN 1 ELSE 0) /\ since = visit
    /\ copy = NoCopy
    /\ get = IF host = Me THEN [NoGet EXCEPT !.step = "sent"] ELSE NoGet
    /\ calls = {}
    /\ hasLeft = FALSE /\ attempted = FALSE /\ starting = FALSE
    /\ others = 0 /\ inputs = 0
    /\ crossed = FALSE /\ turnedAway = FALSE /\ summons = "none"
    /\ agreed = {}

Serve(c) ==
    \/ ServeJoin(c) \/ JoinSubscribes(c) \/ ServeLeave(c)
    \/ ServeReady(c) \/ ServeStart(c) \/ ServeDelete(c)

Answer(c) ==
    \/ ListJoinAnswered(c) \/ RejoinAnswered(c) \/ StartAnswered(c)
    \/ LeaveAnswered(c)

Next ==
    \/ \E u \in People : OtherMember(u)
    \/ \E c \in calls : Serve(c) \/ Answer(c)
    \/ ServeGet \/ GetSubscribes \/ ReceiveGet \/ ReceiveMessage
    \/ Connect \/ Register \/ HearOwnTopic
    \/ OpenPage \/ JoinFromList \/ Navigate \/ Reload
    \/ handleToggleReady \/ handleStartGame \/ handleLeaveLobby

\* Requests are served and answered, messages delivered, and connections made:
\* none of it waits for the user.
Spec ==
    /\ Init /\ [][Next]_vars
    /\ WF_vars(\/ \E c \in calls : Serve(c) \/ Answer(c)
               \/ ServeGet \/ GetSubscribes \/ ReceiveGet \/ ReceiveMessage
               \/ Connect \/ Register \/ HearOwnTopic)

------------------------------------------------------------------------------
(* Properties.                                                             *)

Quiet == calls = {} /\ get.step = "none" /\ feed = <<>>

\* Once nothing is under way, the seat goes with the page: whoever left the
\* page has no seat, and whoever is on it and has an up-to-date copy has one,
\* or found the lobby full; unless the user was asking for a seat while giving
\* it up: a join not yet served and a leave not yet answered at the same time
\* ($lobbyID.tsx: rejoin effect, leaveLobbyQuietly, handleLeaveLobby).
SeatFollowsPage ==
    Quiet /\ ~crossed /\ game = NoGame =>
        /\ screen = "home" => Me \notin Seated
        /\ screen = "lobby" /\ copy = store => Me \in Seated \/ turnedAway

\* A game is started for a roster that was once stored as it is, everybody in
\* it ready: an old copy may start it, a mixture of copies may not
\* ($lobbyID.tsx, handleStartGame and the merge of lobby_updated).
StartedTogether == game # NoGame => game \in agreed

\* Whoever is in the game, on the lobby's page when it is started, and on their
\* own topic by then, is taken to the game, though the host may start it before
\* the user's subscription to the lobby is in force (gameService.go,
\* PublishLobbyGameStarted).  Three may come first: they reload, they go elsewhere
\* (an old click on leave may do it for them), or the page hears that the host
\* has deleted the lobby already.
NobodyLeftBehind == summons = "called" ~> screen = "game" \/ summons = "excused"
=============================================================================
