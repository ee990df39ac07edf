--------------------------------- MODULE Lobby ---------------------------------
(***************************************************************************)
(* One lobby and the requests that work on it (internal/lobby over          *)
(* internal/infra/redisLobbyRepository.go and redisEventBus.go).           *)
(*                                                                         *)
(* A lobby is one JSON value in Redis.  Every operation reads the whole    *)
(* value, changes its copy and writes the whole value back, or deletes the *)
(* key, without a lock or WATCH; the result is then published, and a join  *)
(* or a ready request reads the lobby once more for its answer.  Reading   *)
(* and changing the copy are one action, since the copy is private.        *)
(*                                                                         *)
(* Every Redis call may fail.  A write that fails may have taken effect,   *)
(* its answer lost on the way.  Errors of Publish are ignored by the code. *)
(* An update is published on lobby:<id> and on global:lobbies, and a       *)
(* member's socket gets either: both calls are one action, which fails     *)
(* when both do.  The 24-hour expiry of the key is left out.               *)
(***************************************************************************)
EXTENDS Roster, Integers

CONSTANTS
    Host,           \* who creates the lobby
    Workers,        \* goroutines serving requests at the same time
    MaxRequests,    \* bound: requests accepted in a behaviour
    MaxFaults       \* bound: Redis calls that fail

\* The create form sends 2 to 4; the handler itself checks no limit, but with
\* 0 the host's own AddPlayer fails and no lobby comes into being.
ASSUME LobbyAssumption ==
    /\ PlayerLimit \in Nat \ {0}
    /\ Host \in People
    /\ MaxRequests \in Nat /\ MaxFaults \in Nat

VARIABLES
    store,          \* the players of the stored lobby, or NoLobby
    feed,           \* the players of the last lobby_updated published
    listed,         \* lobby_created minus lobby_deleted, the metrics' gauge
    pc, job,        \* where each goroutine is, and its local variables
    begun, faults,
    \* History, which no step of the code reads:
    alone,          \* the last request accepted found no other being served
    seated,         \* whom the acknowledged requests leave in the lobby
    doubtful,       \* whose seat an overlap or a wrong error left in doubt
    muddled,        \* an overlap or a lost notice may have misled the feed
    miscounted      \* and the gauge

vars == <<store, feed, listed, pc, job, begun, faults,
          alone, seated, doubtful, muddled, miscounted>>

------------------------------------------------------------------------------
(* Goroutines.                                                             *)

NoJob == [op |-> "none", user |-> Host, copy |-> {}, ready |-> FALSE]

\* Creating is not among them: the store has been written by then.
Serving(w) == pc[w] \notin {"idle", "publishCreated"}

Deleting(w) == pc[w] \in {"delete", "publishDeleted"}

\* Whose seat the request is about.
About(op, u) ==
    CASE op \in {"join", "leave"} -> {u}
      [] op = "delete"            -> People
      [] OTHER                    -> {}

Affected(w) == About(job[w].op, job[w].user)

\* Whom the request leaves seated once it is acknowledged.
SeatedBy(w) ==
    CASE job[w].op = "join"   -> seated \union {job[w].user}
      [] job[w].op = "leave"  -> seated \ {job[w].user}
      [] job[w].op = "delete" -> {}
      [] OTHER                -> seated

Goto(w, stage) == pc' = [pc EXCEPT ![w] = stage]

Finish(w) ==
    /\ Goto(w, "idle")
    /\ job' = [job EXCEPT ![w] = NoJob]

\* The client is told that the request was carried out.
Acknowledge(w) ==
    /\ Finish(w)
    /\ seated' = SeatedBy(w)
    /\ doubtful' = IF alone THEN doubtful \ Affected(w) ELSE doubtful

\* The client is told that the request failed, though it was carried out.
Misinform(w) ==
    /\ Finish(w)
    /\ doubtful' = doubtful \union Affected(w)
    /\ UNCHANGED seated

Fault == faults < MaxFaults /\ faults' = faults + 1

\* A request passes its checks and goes on with its copy of the roster.
Accept(w, stage, op, u, copy, ready) ==
    LET others == {v \in Workers : Serving(v)}
    IN  /\ pc[w] = "idle"
        /\ store # NoLobby
        /\ begun < MaxRequests
        /\ begun' = begun + 1
        /\ Goto(w, stage)
        /\ job' = [job EXCEPT ![w] = [op |-> op, user |-> u, copy |-> copy, ready |-> ready]]
        /\ alone' = (others = {})
        /\ doubtful' = IF others = {} THEN doubtful
                       ELSE doubtful \union About(op, u)
                                     \union UNION {Affected(v) : v \in others}
        /\ muddled' = (muddled \/ others # {})
        /\ miscounted' = \/ miscounted
                         \/ stage = "delete" /\ others # {}
                         \/ \E v \in others : Deleting(v)
        /\ UNCHANGED <<store, feed, listed, seated, faults>>

JoinLobby(w, u) ==
    /\ CanJoin(store, u)
    /\ Accept(w, "save", "join", u, AddPlayer(store, u), FALSE)

LeaveLobby(w, u) ==
    /\ u \in Users(store)
    /\ LET copy == RemovePlayer(store, u)
       IN  Accept(w, IF IsEmpty(copy) THEN "delete" ELSE "save", "leave", u, copy, FALSE)

\* No check that the user belongs to the lobby.
DeleteLobby(w, u) == Accept(w, "delete", "delete", u, {}, FALSE)

\* ToggleReady reads the lobby once for the present flag ...
ToggleReady(w, u) ==
    \E e \in store :
        /\ e.user = u
        /\ Accept(w, "reload", "ready", u, {}, ~e.ready)

\* ... and SetPlayerReady reads it again; SetReady's error is ignored.
SetPlayerReady(w) ==
    /\ pc[w] = "reload"
    /\ IF store = NoLobby THEN Finish(w)
       ELSE /\ job' = [job EXCEPT ![w].copy = SetReady(store, job[w].user, job[w].ready)]
            /\ Goto(w, "save")
    /\ UNCHANGED <<store, feed, listed, begun, faults, alone, seated, doubtful, muddled, miscounted>>

------------------------------------------------------------------------------
(* Redis.                                                                  *)

\* Mutant: only a member's own entry is written back.
SaveOwnEntry(w) ==
    /\ pc[w] = "save"
    /\ store' = {e \in job[w].copy : e.user = job[w].user}
    /\ Goto(w, "publish")
    /\ UNCHANGED <<feed, listed, job, begun, faults, alone, seated, doubtful, muddled, miscounted>>

Save(w) ==
    /\ pc[w] = "save"
    /\ store' = job[w].copy
    /\ Goto(w, "publish")
    /\ UNCHANGED <<feed, listed, job, begun, faults, alone, seated, doubtful, muddled, miscounted>>

DeleteKey(w) ==
    /\ pc[w] = "delete"
    /\ store' = NoLobby
    /\ Goto(w, "publishDeleted")
    /\ UNCHANGED <<feed, listed, job, begun, faults, alone, seated, doubtful, muddled, miscounted>>

\* The call fails without effect: the request returns an error and publishes
\* nothing.
StoreFails(w) ==
    /\ pc[w] \in {"reload", "save", "delete"}
    /\ Fault
    /\ Finish(w)
    /\ UNCHANGED <<store, feed, listed, begun, alone, seated, doubtful, muddled, miscounted>>

\* The write took effect and still returns an error: so does the request, and
\* nothing is published.
StoreAnswerLost(w) ==
    /\ \/ /\ pc[w] = "save"
          /\ store' = job[w].copy
          /\ muddled' = TRUE
          /\ UNCHANGED miscounted
       \/ /\ pc[w] = "delete"
          /\ store' = NoLobby
          /\ miscounted' = TRUE
          /\ UNCHANGED muddled
    /\ Fault
    /\ Misinform(w)
    /\ UNCHANGED <<feed, listed, begun, alone>>

\* A join or a ready request goes on to read what it answers with; a leave is
\* answered at once.
AfterNotice(w) ==
    IF job[w].op = "leave" THEN Acknowledge(w)
    ELSE Goto(w, "refetch") /\ UNCHANGED <<job, seated, doubtful>>

\* Mutant: a change of the ready flag is not published.
PublishUpdatedNotReady(w) ==
    /\ pc[w] = "publish"
    /\ feed' = IF job[w].op = "ready" THEN feed ELSE job[w].copy
    /\ AfterNotice(w)
    /\ muddled' = (muddled /\ ~alone)
    /\ UNCHANGED <<store, listed, begun, faults, alone, miscounted>>

\* A request that was served alone tells the members what is stored, whatever
\* they were told before.
PublishUpdated(w) ==
    /\ pc[w] = "publish"
    /\ feed' = job[w].copy
    /\ AfterNotice(w)
    /\ muddled' = (muddled /\ ~alone)
    /\ UNCHANGED <<store, listed, begun, faults, alone, miscounted>>

PublishUpdatedFails(w) ==
    /\ pc[w] = "publish"
    /\ Fault
    /\ AfterNotice(w)
    /\ muddled' = TRUE
    /\ UNCHANGED <<store, feed, listed, begun, alone, miscounted>>

PublishDeleted(w) ==
    /\ pc[w] = "publishDeleted"
    /\ listed' = listed - 1
    /\ Acknowledge(w)
    /\ UNCHANGED <<store, feed, begun, faults, alone, muddled, miscounted>>

\* CreateLobby, after the lobby was stored: others can read it by now.
PublishCreated(w) ==
    /\ pc[w] = "publishCreated"
    /\ listed' = listed + 1
    /\ Finish(w)
    /\ UNCHANGED <<store, feed, begun, faults, alone, seated, doubtful, muddled, miscounted>>

\* The error is ignored: the request is acknowledged all the same.
PublishGaugeFails(w) ==
    /\ \/ pc[w] = "publishDeleted" /\ Acknowledge(w)
       \/ pc[w] = "publishCreated" /\ Finish(w) /\ UNCHANGED <<seated, doubtful>>
    /\ Fault
    /\ miscounted' = TRUE
    /\ UNCHANGED <<store, feed, listed, begun, alone, muddled>>

\* The lobby read for the answer; without one a stored change is answered with
\* an error.
Refetch(w) ==
    /\ pc[w] = "refetch"
    /\ IF store = NoLobby THEN Misinform(w) ELSE Acknowledge(w)
    /\ UNCHANGED <<store, feed, listed, begun, faults, alone, muddled, miscounted>>

RefetchFails(w) ==
    /\ pc[w] = "refetch"
    /\ Fault
    /\ Misinform(w)
    /\ UNCHANGED <<store, feed, listed, begun, alone, muddled, miscounted>>

------------------------------------------------------------------------------

Created == AddPlayer({}, Host)

Init ==
    /\ store = Created /\ feed = Created /\ listed = 0
    /\ begun = 0 /\ faults = 0
    /\ alone = TRUE /\ seated = {Host} /\ doubtful = {}
    /\ muddled = FALSE /\ miscounted = FALSE
    /\ job = [w \in Workers |-> NoJob]
    /\ \E creator \in Workers :
          pc = [w \in Workers |-> IF w = creator THEN "publishCreated" ELSE "idle"]

Work(w) ==
    \/ SetPlayerReady(w)
    \/ Save(w) \/ DeleteKey(w) \/ StoreFails(w) \/ StoreAnswerLost(w)
    \/ PublishUpdated(w) \/ PublishUpdatedFails(w)
    \/ PublishDeleted(w) \/ PublishCreated(w) \/ PublishGaugeFails(w)
    \/ Refetch(w) \/ RefetchFails(w)

Request(w, u) ==
    JoinLobby(w, u) \/ LeaveLobby(w, u) \/ ToggleReady(w, u) \/ DeleteLobby(w, u)

Next ==
    \E w \in Workers :
        \/ Work(w)
        \/ store # NoLobby /\ \E u \in People : Request(w, u)

Spec == Init /\ [][Next]_vars

------------------------------------------------------------------------------
(* Properties.                                                             *)

Stages == {"idle", "reload", "save", "delete", "publish", "publishDeleted",
           "publishCreated", "refetch"}

Jobs == [op : {"none", "join", "leave", "delete", "ready"}, user : People,
         copy : SUBSET Entries, ready : BOOLEAN]

\* Every variable has the type of what it stands for (lobby.go, type Lobby).
TypeOK ==
    /\ store = NoLobby \/ store \in SUBSET Entries
    /\ feed \in SUBSET Entries
    /\ listed \in Int
    /\ pc \in [Workers -> Stages]
    /\ job \in [Workers -> Jobs]
    /\ begun \in 0 .. MaxRequests /\ faults \in 0 .. MaxFaults
    /\ seated \in SUBSET People /\ doubtful \in SUBSET People
    /\ alone \in BOOLEAN /\ muddled \in BOOLEAN /\ miscounted \in BOOLEAN

Quiet == \A w \in Workers : pc[w] = "idle"

\* However requests interleave and lose each other's updates, a stored lobby
\* never exceeds its limit, never holds a user twice and never is empty
\* (lobby.go, AddPlayer; lobbyService.go, LeaveLobby).
RosterSound == store # NoLobby => Sound(store)

InStore(x) == store # NoLobby /\ x \in Users(store)

\* Whoever was told to have joined and has not left since is in the roster, and
\* nobody else is, in spite of failing Redis calls and of other people's
\* requests overwriting the roster at the same time: only those are in doubt
\* whose own join or leave overlapped another request, or was stored and then
\* answered with an error (everybody, if it was a deletion of the lobby), until
\* a request of theirs is served alone (lobbyService.go, JoinLobby, LeaveLobby;
\* lobbyHandler.go:172-175).
AcknowledgedAreSeated ==
    Quiet => \A x \in People \ doubtful : InStore(x) <=> x \in seated

\* The last roster sent to the members is the stored one, once every request
\* has been answered, unless since the last change served alone requests
\* overlapped or a notice was lost (lobbyService.go; $lobbyID.tsx, "The
\* WebSocket will handle updating the UI via lobby_updated event").
FeedInSync == Quiet /\ ~muddled /\ store # NoLobby => feed = store

Gauge == IF store = NoLobby THEN 0 ELSE 1

\* The gauge of active lobbies counts the lobby exactly while it is stored,
\* unless a deletion overlapped another request or a notice was lost
\* (metrics/subscriber.go, handleLobbyEvent).
GaugeInSync == Quiet /\ ~miscounted => listed = Gauge

\* Members and metrics follow the stored lobby (lobbyService.go, the order of
\* saving and publishing).
NewsInSync == FeedInSync /\ GaugeInSync
=============================================================================
