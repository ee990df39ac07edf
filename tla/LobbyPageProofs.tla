--------------------------- MODULE LobbyPageProofs ---------------------------
(***************************************************************************)
(* Proofs about the lobby page, for any number of people, requests and     *)
(* inputs: a game is only ever started for a roster that was stored as it  *)
(* is with everybody ready, though the host starts it with a copy; and the *)
(* user's seat goes with the page.                                         *)
(*                                                                         *)
(* The copy may be old, so the first invariant says of every roster on its *)
(* way to the page (stored, read by a GET, in the feed, cached), and of    *)
(* every start under way, what it shall say of the game.                   *)
(*                                                                         *)
(* The second invariant says which request stands for a seat that is not   *)
(* in step with the page: a leave that is not served yet, a join from the  *)
(* list whose answer will open the page, or the page's own join or leave.  *)
(***************************************************************************)
EXTENDS LobbyPage, FiniteSetTheorems, TLAPS

USE PeopleAssumption, NoLobbyAssumption, NoneAssumption

Rosters == SUBSET Entries

Requests == [kind : Leaves \union Joins \union {"ready", "start", "delete"}, visit : Nat,
             step : {"sent", "saved", "ok", "conflict", "missing"}, who : SUBSET People]

News == [type : {"lobby_updated"}, players : Rosters] \union [type : {"game:new"}]

TypeOK ==
    /\ store \in Rosters \union {NoLobby}
    /\ copy \in Rosters \union {NoCopy}
    /\ get \in [step : {"none", "sent", "read", "answered"},
                roster : Rosters \union {NoLobby}]
    /\ feed \in Seq(News)
    /\ calls \in SUBSET Requests
    /\ visit \in Nat /\ since \in Nat /\ since <= visit

\* The roster, if it would allow a start, was stored.
Vetted(roster) == AllReady(roster) => Users(roster) \in agreed

VettedStarts(requests) == \A c \in requests : c.kind = "start" => c.who \in agreed

VettedFeed ==
    \A i \in 1 .. Len(feed) : feed[i].type = "lobby_updated" => Vetted(feed[i].players)

CopiesVetted ==
    /\ store # NoLobby => Vetted(store)
    /\ copy # NoCopy => Vetted(copy)
    /\ get.roster # NoLobby => Vetted(get.roster)
    /\ VettedFeed
    /\ VettedStarts(calls)

IInv == TypeOK /\ CopiesVetted /\ StartedTogether

------------------------------------------------------------------------------
(* What the server does.                                                   *)

\* The operations of the aggregate stay within the entries there are.
LEMMA RosterTypes ==
    ASSUME NEW r \in Rosters, NEW u \in People
    PROVE  /\ AddPlayer(r, u) \in Rosters /\ RemovePlayer(r, u) \in Rosters
           /\ \A b \in BOOLEAN : SetReady(r, u, b) \in Rosters
           /\ Users(r) \in SUBSET People
  <1>1. AddPlayer(r, u) \in Rosters /\ RemovePlayer(r, u) \in Rosters
    <2>1. [user |-> u, ready |-> FALSE] \in Entries
      BY DEF Entries
    <2> QED
      BY <2>1 DEF Rosters, AddPlayer, RemovePlayer
  <1>2. ASSUME NEW b \in BOOLEAN PROVE SetReady(r, u, b) \in Rosters
    <2>1. [user |-> u, ready |-> b] \in Entries
      BY DEF Entries
    <2>2. \A e \in r : e \in Entries
      BY DEF Rosters
    <2> QED
      BY <2>1, <2>2 DEF SetReady, Rosters
  <1>3. Users(r) \in SUBSET People
    BY DEF Rosters, Entries, Users
  <1> QED
    BY <1>1, <1>2, <1>3

\* The feed stays vetted when its first message is taken, or another appended.
LEMMA FeedTaken ==
    ASSUME feed \in Seq(News), VettedFeed, feed # <<>>, feed' = Tail(feed),
           agreed' = agreed
    PROVE  feed' \in Seq(News) /\ VettedFeed' /\ Head(feed) \in News
           /\ (Head(feed).type = "lobby_updated" => Vetted(Head(feed).players))
  BY DEF VettedFeed, Vetted

LEMMA FeedExtended ==
    ASSUME feed \in Seq(News), VettedFeed, agreed \subseteq agreed',
           NEW m \in News,
           m.type = "lobby_updated" => (AllReady(m.players) => Users(m.players) \in agreed'),
           feed' = Append(feed, m) \/ feed' = feed
    PROVE  feed' \in Seq(News) /\ VettedFeed'
  BY DEF VettedFeed, Vetted

\* Saving a roster vets it, and its publication too.
LEMMA StoredIsVetted ==
    ASSUME feed \in Seq(News), VettedFeed, NEW r \in Rosters, stored(r)
    PROVE  /\ store' = r /\ agreed \subseteq agreed'
           /\ AllReady(r) => Users(r) \in agreed'
           /\ feed' \in Seq(News) /\ VettedFeed'
  <1>1. store' = r /\ agreed \subseteq agreed' /\ (AllReady(r) => Users(r) \in agreed')
    BY DEF stored
  <1> DEFINE m == [type |-> "lobby_updated", players |-> r]
  <1>2. m \in News /\ m.players = r
    BY DEF News
  <1>3. feed' = Append(feed, m) \/ feed' = feed
    BY DEF stored
  <1> HIDE DEF m
  <1> QED
    BY <1>1, <1>2, <1>3, FeedExtended

\* The same when somebody leaves, who may be the last.
LEMMA RemovedIsVetted ==
    ASSUME feed \in Seq(News), VettedFeed, store \in Rosters, NEW u \in People, removed(u)
    PROVE  /\ store' \in Rosters \union {NoLobby} /\ agreed \subseteq agreed'
           /\ store' # NoLobby => (AllReady(store') => Users(store') \in agreed')
           /\ feed' \in Seq(News) /\ VettedFeed'
  <1>1. RemovePlayer(store, u) \in Rosters
    BY RosterTypes
  <1>2. CASE stored(RemovePlayer(store, u))
    BY <1>1, <1>2, StoredIsVetted
  <1>3. CASE store' = NoLobby /\ UNCHANGED <<agreed, feed>>
    BY <1>3 DEF VettedFeed, Vetted
  <1> QED
    BY <1>2, <1>3 DEF removed

\* A start puts one message into the feed, which carries no roster.
LEMMA ToldIsVetted ==
    ASSUME feed \in Seq(News), VettedFeed, agreed' = agreed, NEW players, told(players)
    PROVE  feed' \in Seq(News) /\ VettedFeed'
  <1> DEFINE m == [type |-> "game:new"]
  <1>1. m \in News /\ m.type # "lobby_updated"
    BY DEF News
  <1>2. feed' = Append(feed, m) \/ feed' = feed
    BY DEF told
  <1> HIDE DEF m
  <1> QED
    BY <1>1, <1>2, FeedExtended

------------------------------------------------------------------------------
(* What changes of a state that satisfies the invariant, and keeps it.     *)

\* The server's step: the roster changes, or the feed, or the game.
ServerKeeps ==
    /\ store' \in Rosters \union {NoLobby} /\ agreed \subseteq agreed'
    /\ store' # NoLobby => (AllReady(store') => Users(store') \in agreed')
    /\ feed' \in Seq(News) /\ VettedFeed'
    /\ game' \in {game} \union agreed

CallsKeep == calls' \in SUBSET Requests /\ VettedStarts(calls')

LEMMA ServerStep ==
    ASSUME IInv, ServerKeeps, UNCHANGED <<copy, get, visit, since>>, CallsKeep
    PROVE  IInv'
  <1> USE DEF IInv
  <1>1. TypeOK'
    BY DEF TypeOK, ServerKeeps, CallsKeep
  <1>2. CopiesVetted'
    BY DEF CopiesVetted, ServerKeeps, CallsKeep, Vetted, VettedStarts
  <1>3. StartedTogether'
    BY DEF StartedTogether, ServerKeeps
  <1> QED
    BY <1>1, <1>2, <1>3

\* The page's step: what it shows comes from the cache, a GET or the feed.
PageKeeps ==
    /\ UNCHANGED <<store, game, agreed>>
    /\ feed' \in Seq(News) /\ VettedFeed'
    /\ visit' \in Nat /\ since' \in Nat /\ since' <= visit'
    /\ copy' \in Rosters \union {NoCopy} /\ (copy' # NoCopy => Vetted(copy'))
    /\ get' \in [step : {"none", "sent", "read", "answered"},
                 roster : Rosters \union {NoLobby}]
    /\ get'.roster # NoLobby => Vetted(get'.roster)

LEMMA PageStep ==
    ASSUME IInv, PageKeeps, CallsKeep
    PROVE  IInv'
  <1> USE DEF IInv
  <1>1. TypeOK'
    BY DEF TypeOK, PageKeeps, CallsKeep
  <1>2. CopiesVetted'
    BY DEF CopiesVetted, PageKeeps, CallsKeep, Vetted, VettedStarts
  <1>3. StartedTogether'
    BY DEF StartedTogether, PageKeeps
  <1> QED
    BY <1>1, <1>2, <1>3

\* Requests other than a start may be added and removed freely.
LEMMA CallsChange ==
    ASSUME IInv, agreed \subseteq agreed',
           NEW S \in SUBSET Requests, VettedStarts(S), underWay(S)
    PROVE  CallsKeep
  BY DEF CallsKeep, VettedStarts, underWay

LEMMA CallsStay ==
    ASSUME IInv, agreed \subseteq agreed', calls' = calls
    PROVE  CallsKeep
  BY DEF IInv, TypeOK, CopiesVetted, CallsKeep, VettedStarts

\* The requests the page makes, and their answers, are of the types listed.
LEMMA RequestType ==
    ASSUME visit \in Nat, NEW who \in SUBSET People,
           NEW kind \in Leaves \union Joins \union {"ready", "start", "delete"}
    PROVE  /\ Request(kind, who) \in Requests
           /\ Request(kind, who).kind = kind /\ Request(kind, who).who = who
  BY DEF Request, Requests

LEMMA AnsweredKeeps ==
    ASSUME IInv, agreed \subseteq agreed', NEW c \in calls,
           NEW step \in {"saved", "ok", "conflict", "missing"}, answered(c, step)
    PROVE  CallsKeep
  <1>1. c \in Requests
    BY DEF IInv, TypeOK
  <1>2. [c EXCEPT !.step = step] \in Requests /\ [c EXCEPT !.step = step].kind = c.kind
        /\ [c EXCEPT !.step = step].who = c.who
    BY <1>1 DEF Requests
  <1> DEFINE d == [c EXCEPT !.step = step]
             S == (calls \ {c}) \union IF heeded(c) \/ step = "saved" THEN {d} ELSE {}
  <1>3. VettedStarts(calls) /\ calls \in SUBSET Requests
    BY DEF IInv, CopiesVetted, TypeOK
  <1> HIDE DEF d
  <1>4. S \in SUBSET Requests
    BY <1>2, <1>3 DEF d
  <1>5. VettedStarts(S)
    BY <1>2, <1>3 DEF VettedStarts, d
  <1>6. underWay(S)
    BY DEF answered, d
  <1> HIDE DEF S
  <1> QED
    BY <1>4, <1>5, <1>6, CallsChange

\* On the way out a quiet leave may be added.
LEMMA LeaveQuietlyKeeps ==
    ASSUME visit \in Nat, NEW S \in SUBSET Requests, VettedStarts(S)
    PROVE  leaveQuietly(S) \in SUBSET Requests /\ VettedStarts(leaveQuietly(S))
  <1>1. Request("quietLeave", {}) \in Requests
        /\ Request("quietLeave", {}).kind = "quietLeave"
    BY RequestType DEF Leaves
  <1> QED
    BY <1>1 DEF leaveQuietly, VettedStarts

------------------------------------------------------------------------------
(* The server's steps, one by one.                                         *)

LEMMA OtherMemberKeeps ==
    ASSUME IInv, NEW u \in People, OtherMember(u)
    PROVE  IInv'
  <1> USE DEF IInv
  <1>1. /\ feed \in Seq(News) /\ VettedFeed
        /\ store \in Rosters \union {NoLobby}
        /\ store # NoLobby => Vetted(store)
    BY DEF TypeOK, CopiesVetted
  <1>2. UNCHANGED <<copy, get, visit, since, calls>>
    BY DEF OtherMember, RequestOfOther, DeletedByOther, pageVars
  <1>3. SUFFICES ServerKeeps
    BY <1>2, <1>3, ServerStep, CallsStay DEF ServerKeeps
  <1>4. CASE store # NoLobby /\ stored(AddPlayer(store, u)) /\ game' = game
    <2>1. store \in Rosters /\ AddPlayer(store, u) \in Rosters
      BY <1>1, <1>4, RosterTypes
    <2> QED
      BY <1>1, <1>4, <2>1, StoredIsVetted DEF ServerKeeps
  <1>5. CASE u \in Seated /\ removed(u) /\ game' = game
    <2>1. store \in Rosters
      BY <1>1, <1>5 DEF Seated
    <2> QED
      BY <1>1, <1>5, <2>1, RemovedIsVetted DEF ServerKeeps
  <1>6. ASSUME u \in Seated, game' = game,
               NEW e \in store, stored(SetReady(store, u, ~e.ready))
        PROVE  ServerKeeps
    <2>1. store \in Rosters
      BY <1>1, <1>6 DEF Seated
    <2>2. (~e.ready) \in BOOLEAN
      BY <2>1 DEF Rosters, Entries
    <2>3. SetReady(store, u, ~e.ready) \in Rosters
      BY <2>1, <2>2, RosterTypes
    <2> QED
      BY <1>1, <1>6, <2>1, <2>3, StoredIsVetted DEF ServerKeeps
  <1>7. CASE /\ u \in Seated /\ AllReady(store) /\ started(Users(store))
             /\ UNCHANGED <<store, agreed>>
    <2>1. store # NoLobby /\ Users(store) \in agreed
      BY <1>1, <1>7 DEF Seated, Vetted
    <2>2. game' = Users(store) /\ told(Users(store))
      BY <1>7 DEF started
    <2>3. feed' \in Seq(News) /\ VettedFeed'
      BY <1>1, <1>7, <2>2, ToldIsVetted
    <2> QED
      BY <1>1, <1>7, <2>1, <2>2, <2>3 DEF ServerKeeps, Vetted
  <1>8. CASE store' = NoLobby /\ UNCHANGED <<game, agreed, feed>>
    BY <1>1, <1>8 DEF ServerKeeps, VettedFeed, Vetted
  <1> QED
    BY <1>4, <1>5, <1>6, <1>7, <1>8 DEF OtherMember, RequestOfOther, DeletedByOther

\* A request of the page is served: the roster, and the request itself, change.
LEMMA ServeKeeps ==
    ASSUME IInv, NEW c \in calls, Serve(c)
    PROVE  IInv'
  <1> USE DEF IInv
  <1>1. /\ feed \in Seq(News) /\ VettedFeed
        /\ store \in Rosters \union {NoLobby}
        /\ store # NoLobby => Vetted(store)
    BY DEF TypeOK, CopiesVetted
  <1>2. UNCHANGED <<copy, get, visit, since>>
    BY DEF Serve, ServeJoin, JoinSubscribes, ServeLeave, ServeReady, ServeStart,
           ServeDelete, pageVars
  <1>3. ASSUME UNCHANGED <<store, agreed, feed, game>> PROVE ServerKeeps
    BY <1>1, <1>3 DEF ServerKeeps, VettedFeed, Vetted
  <1>4. CASE ServeJoin(c)
    <2>1. ServerKeeps
      <3>1. game' = game
        BY <1>4 DEF ServeJoin
      <3>2. CASE UNCHANGED <<store, agreed, feed>>
        BY <1>3, <3>1, <3>2
      <3>3. CASE store # NoLobby /\ stored(AddPlayer(store, Me))
        <4>1. store \in Rosters /\ AddPlayer(store, Me) \in Rosters
          BY <1>1, <3>3, RosterTypes
        <4> QED
          BY <1>1, <3>1, <3>3, <4>1, StoredIsVetted DEF ServerKeeps
      <3> QED
        BY <1>4, <3>2, <3>3 DEF ServeJoin
    <2>2. CallsKeep
      BY <1>4, <2>1, AnsweredKeeps DEF ServeJoin, ServerKeeps
    <2> QED
      BY <1>2, <2>1, <2>2, ServerStep
  <1>5. CASE JoinSubscribes(c)
    <2>1. ServerKeeps
      BY <1>3, <1>5 DEF JoinSubscribes
    <2>2. CallsKeep
      BY <1>5, <2>1, AnsweredKeeps DEF JoinSubscribes, ServerKeeps
    <2> QED
      BY <1>2, <2>1, <2>2, ServerStep
  <1>6. CASE ServeLeave(c)
    <2>1. ServerKeeps
      <3>1. game' = game
        BY <1>6 DEF ServeLeave
      <3>2. CASE UNCHANGED <<store, agreed, feed>>
        BY <1>3, <3>1, <3>2
      <3>3. CASE Me \in Seated /\ removed(Me)
        <4>1. store \in Rosters
          BY <1>1, <3>3 DEF Seated
        <4> QED
          BY <1>1, <3>1, <3>3, <4>1, RemovedIsVetted DEF ServerKeeps
      <3> QED
        BY <1>6, <3>2, <3>3 DEF ServeLeave
    <2>2. CallsKeep
      BY <1>6, <2>1, AnsweredKeeps DEF ServeLeave, ServerKeeps
    <2> QED
      BY <1>2, <2>1, <2>2, ServerStep
  <1>7. CASE ServeReady(c)
    <2>1. ServerKeeps
      <3>1. game' = game
        BY <1>7 DEF ServeReady
      <3>2. CASE UNCHANGED <<store, agreed, feed>>
        BY <1>3, <3>1, <3>2
      <3>3. ASSUME Me \in Seated, NEW e \in store, stored(SetReady(store, Me, ~e.ready))
            PROVE  ServerKeeps
        <4>1. store \in Rosters
          BY <1>1, <3>3 DEF Seated
        <4>2. (~e.ready) \in BOOLEAN
          BY <4>1 DEF Rosters, Entries
        <4>3. SetReady(store, Me, ~e.ready) \in Rosters
          BY <4>1, <4>2, RosterTypes
        <4> QED
          BY <1>1, <3>1, <3>3, <4>3, StoredIsVetted DEF ServerKeeps
      <3> QED
        BY <1>7, <3>2, <3>3 DEF ServeReady
    <2>2. CallsKeep
      BY <1>7, <2>1, AnsweredKeeps DEF ServeReady, ServerKeeps
    <2> QED
      BY <1>2, <2>1, <2>2, ServerStep
  <1>8. CASE ServeStart(c)
    <2>1. c.who \in agreed /\ game' = c.who /\ told(c.who) /\ agreed' = agreed
      BY <1>8 DEF ServeStart, started, CopiesVetted, VettedStarts
    <2>2. feed' \in Seq(News) /\ VettedFeed'
      BY <1>1, <2>1, ToldIsVetted
    <2>3. ServerKeeps
      BY <1>1, <1>8, <2>1, <2>2 DEF ServeStart, ServerKeeps, Vetted
    <2>4. CallsKeep
      BY <1>8, <2>1, AnsweredKeeps DEF ServeStart
    <2> QED
      BY <1>2, <2>3, <2>4, ServerStep
  <1>9. CASE ServeDelete(c)
    <2>1. ServerKeeps
      BY <1>1, <1>9 DEF ServeDelete, ServerKeeps, VettedFeed, Vetted
    <2>2. CallsKeep
      BY <1>9, <2>1, AnsweredKeeps DEF ServeDelete, ServerKeeps
    <2> QED
      BY <1>2, <2>1, <2>2, ServerStep
  <1> QED
    BY <1>4, <1>5, <1>6, <1>7, <1>8, <1>9 DEF Serve

------------------------------------------------------------------------------
(* The page's steps.                                                       *)

\* A copy shown is cached, and may send a rejoin, which is not a start.
LEMMA ShowKeeps ==
    ASSUME IInv, agreed' = agreed, visit' \in Nat,
           NEW S \in SUBSET Requests, VettedStarts(S), NEW roster, NEW tried,
           show(roster, S, tried)
    PROVE  copy' = roster /\ CallsKeep
  <1> DEFINE rejoin == [Request("join", {}) EXCEPT !.visit = visit']
  <1>1. rejoin \in Requests /\ rejoin.kind = "join"
    BY DEF Request, Requests, Joins
  <1> HIDE DEF rejoin
  <1>2. underWay(S) \/ underWay(S \union {rejoin})
    BY DEF show, rejoin
  <1>3. S \union {rejoin} \in SUBSET Requests /\ VettedStarts(S \union {rejoin})
    BY <1>1 DEF VettedStarts
  <1>4. CallsKeep
    BY <1>2, <1>3, CallsChange
  <1> QED
    BY <1>4 DEF show

LEMMA MountKeeps ==
    ASSUME IInv, UNCHANGED <<store, game, agreed, feed>>,
           NEW S \in SUBSET Requests, VettedStarts(S), mount(S)
    PROVE  IInv'
  <1>1. visit' \in Nat /\ copy' = copy /\ CallsKeep
    <2>0. visit \in Nat
      BY DEF IInv, TypeOK
    <2>1. visit' \in Nat
      BY <2>0 DEF mount
    <2>2. show(copy, S, FALSE)
      BY Zenon DEF mount
    <2> QED
      BY <2>1, <2>2, ShowKeeps, Zenon
  <1>2. /\ get' = get \/ get' = [step |-> "sent", roster |-> NoLobby]
        /\ since' = since /\ visit' = visit + 1
    BY DEF mount, fetchLobby, NoGet
  <1>3. PageKeeps
    BY <1>1, <1>2 DEF IInv, TypeOK, CopiesVetted, PageKeeps, VettedFeed, Vetted
  <1> QED
    BY <1>1, <1>3, PageStep

\* The page goes on showing and fetching what it did; only its requests change.
LEMMA QuietStep ==
    ASSUME IInv, UNCHANGED <<store, game, agreed, feed, visit, since>>, CallsKeep,
           copy' \in {copy, NoCopy, get.roster} \ {NoLobby} \/ copy' = copy,
           \/ get' = get
           \/ get' \in [step : {"none", "sent"}, roster : {NoLobby}]
           \/ get' \in [step : {"answered"}, roster : {get.roster}]
           \/ get' \in [step : {"read", "answered"}, roster : {store}]
    PROVE  IInv'
  <1> USE DEF IInv
  <1>1. PageKeeps
    BY DEF TypeOK, CopiesVetted, PageKeeps, VettedFeed, Vetted
  <1> QED
    BY <1>1, PageStep

\* Fetching the roster, and the answer.
LEMMA GetKeeps ==
    ASSUME IInv, ServeGet \/ GetSubscribes \/ ReceiveGet
    PROVE  IInv'
  <1>1. /\ visit \in Nat /\ calls \in SUBSET Requests /\ VettedStarts(calls)
        /\ get \in [step : {"none", "sent", "read", "answered"},
                    roster : Rosters \union {NoLobby}]
    BY DEF IInv, TypeOK, CopiesVetted
  <1>2. CASE ServeGet
    <2>1. get' \in [step : {"read", "answered"}, roster : {store}]
      BY <1>2 DEF ServeGet
    <2>2. UNCHANGED <<store, game, agreed, feed, visit, since, copy, calls>>
      BY <1>2 DEF ServeGet, serverVars
    <2> QED
      BY <2>1, <2>2, QuietStep, CallsStay
  <1>3. CASE GetSubscribes
    <2>1. get' \in [step : {"answered"}, roster : {get.roster}]
      BY <1>1, <1>3 DEF GetSubscribes
    <2>2. UNCHANGED <<store, game, agreed, feed, visit, since, copy, calls>>
      BY <1>3 DEF GetSubscribes
    <2> QED
      BY <2>1, <2>2, QuietStep, CallsStay
  <1>4. CASE ReceiveGet
    <2>1. get' = [step |-> "none", roster |-> NoLobby]
      BY <1>4 DEF ReceiveGet, NoGet
    <2>2. UNCHANGED <<store, game, agreed, feed>>
      BY <1>4 DEF ReceiveGet, serverVars
    <2>3. CASE leaveTo("home", calls)
      <3>1. CallsKeep
        BY <1>1, <2>2, <2>3, LeaveQuietlyKeeps, CallsChange DEF leaveTo
      <3> QED
        BY <2>1, <2>2, <2>3, <3>1, QuietStep DEF leaveTo
    <2>4. CASE /\ get.roster # NoLobby /\ UNCHANGED <<visit, since>>
               /\ show(get.roster, calls, attempted)
      <3>1. copy' = get.roster /\ CallsKeep
        BY <1>1, <2>2, <2>4, ShowKeeps
      <3> QED
        BY <2>1, <2>2, <2>4, <3>1, QuietStep
    <2>5. CASE /\ copy' = IF get.roster = NoLobby THEN copy ELSE get.roster
               /\ noCallChanges /\ UNCHANGED <<visit, since>>
      BY <2>1, <2>2, <2>5, QuietStep, CallsStay DEF noCallChanges
    <2> QED
      BY <1>4, <2>3, <2>4, <2>5 DEF ReceiveGet
  <1> QED
    BY <1>2, <1>3, <1>4

\* A message of the feed.
LEMMA MessageKeeps ==
    ASSUME IInv, ReceiveMessage
    PROVE  IInv'
  <1>1. UNCHANGED <<store, game, agreed>> /\ feed # <<>> /\ feed' = Tail(feed)
    BY DEF ReceiveMessage, serverVars
  <1>2. /\ feed' \in Seq(News) /\ VettedFeed' /\ Head(feed) \in News
        /\ Head(feed).type = "lobby_updated" => Vetted(Head(feed).players)
    BY <1>1, FeedTaken DEF IInv, TypeOK, CopiesVetted
  <1>3. UNCHANGED <<get, visit, since>>
    BY DEF ReceiveMessage, pageVars
  <1>4. CASE Head(feed).type = "lobby_updated" /\ show(Head(feed).players, calls, attempted)
    <2>1. copy' = Head(feed).players /\ CallsKeep
      BY <1>1, <1>3, <1>4, ShowKeeps DEF IInv, TypeOK, CopiesVetted
    <2>2. Head(feed).players \in Rosters
      BY <1>2, <1>4 DEF News
    <2>3. PageKeeps
      BY <1>1, <1>2, <1>3, <1>4, <2>1, <2>2
      DEF PageKeeps, IInv, TypeOK, CopiesVetted, Vetted
    <2> QED
      BY <2>1, <2>3, PageStep
  <1>5. CASE noCallChanges /\ copy' = copy
    <2>1. CallsKeep
      BY <1>1, <1>5, CallsStay DEF noCallChanges
    <2>2. PageKeeps
      BY <1>1, <1>2, <1>3, <1>5 DEF PageKeeps, IInv, TypeOK, CopiesVetted, Vetted
    <2> QED
      BY <2>1, <2>2, PageStep
  <1> QED
    BY <1>4, <1>5 DEF ReceiveMessage, pageVars

\* Of the requests under way, and a quiet leave, some survive a reload.
LEMMA ReloadKept ==
    ASSUME Reload
    PROVE  \E S \in SUBSET leaveQuietly(calls) : underWay(S)
  <1>1. PICK cutOff : underWay({c \in leaveQuietly(calls) \ cutOff : c.step \in {"sent", "saved"}})
    BY DEF Reload
  <1> DEFINE S == {c \in leaveQuietly(calls) \ cutOff : c.step \in {"sent", "saved"}}
  <1>2. S \in SUBSET leaveQuietly(calls)
    OBVIOUS
  <1>3. underWay(S)
    BY <1>1
  <1> HIDE DEF S
  <1> QED
    BY <1>2, <1>3

\* The page comes and goes.
LEMMA VisitKeeps ==
    ASSUME IInv, OpenPage \/ JoinFromList \/ Navigate \/ Reload
    PROVE  IInv'
  <1>1. visit \in Nat /\ calls \in SUBSET Requests /\ VettedStarts(calls)
    BY DEF IInv, TypeOK, CopiesVetted
  <1>2. CASE OpenPage
    BY <1>1, <1>2, MountKeeps DEF OpenPage, serverVars
  <1>3. CASE JoinFromList
    <2>1. Request("listJoin", {}) \in Requests /\ Request("listJoin", {}).kind # "start"
      BY <1>1, RequestType DEF Joins
    <2>2. CallsKeep
      <3>1. calls \union {Request("listJoin", {})} \in SUBSET Requests
            /\ VettedStarts(calls \union {Request("listJoin", {})})
        BY <1>1, <2>1 DEF VettedStarts
      <3> QED
        BY <1>3, <3>1, CallsChange DEF JoinFromList, serverVars
    <2> QED
      BY <1>3, <2>2, QuietStep DEF JoinFromList, serverVars, pageVars
  <1>4. CASE Navigate
    <2>1. CallsKeep
      BY <1>1, <1>4, LeaveQuietlyKeeps, CallsChange DEF Navigate, leaveTo, serverVars
    <2> QED
      BY <1>4, <2>1, QuietStep DEF Navigate, leaveTo, serverVars
  <1>5. CASE Reload
    <2>1. PICK S \in SUBSET leaveQuietly(calls) : underWay(S)
      BY <1>5, ReloadKept
    <2>2. agreed' = agreed /\ S \in SUBSET Requests /\ VettedStarts(S)
      BY <1>1, <1>5, LeaveQuietlyKeeps DEF Reload, VettedStarts
    <2>3. CallsKeep
      BY <2>1, <2>2, CallsChange
    <2>4. get' = [step |-> "sent", roster |-> NoLobby]
      BY <1>5 DEF Reload, NoGet
    <2>5. feed' = <<>> /\ copy' = NoCopy /\ visit' \in Nat /\ since' = visit'
      BY <1>1, <1>5 DEF Reload
    <2>6. feed' \in Seq(News) /\ VettedFeed'
      BY <2>5 DEF VettedFeed
    <2>7. UNCHANGED <<store, game, agreed>>
      BY <1>5 DEF Reload
    <2>8. PageKeeps
      BY <2>4, <2>5, <2>6, <2>7 DEF PageKeeps
    <2> QED
      BY <2>3, <2>8, PageStep
  <1> QED
    BY <1>2, <1>3, <1>4, <1>5


\* The user's clicks.
LEMMA ClickKeeps ==
    ASSUME IInv, handleToggleReady \/ handleStartGame \/ handleLeaveLobby
    PROVE  IInv'
  <1>1. /\ visit \in Nat /\ calls \in SUBSET Requests /\ VettedStarts(calls)
        /\ copy \in Rosters \union {NoCopy} /\ (copy # NoCopy => Vetted(copy))
    BY DEF IInv, TypeOK, CopiesVetted
  <1>2. UNCHANGED <<store, game, agreed, feed, visit, since, copy, get>>
    BY DEF handleToggleReady, handleStartGame, handleLeaveLobby, serverVars,
           pageVars
  <1>3. ASSUME NEW r \in Requests, r.kind = "start" => r.who \in agreed,
               underWay(calls \union {r})
        PROVE  IInv'
    <2>1. CallsKeep
      <3>1. calls \union {r} \in SUBSET Requests /\ VettedStarts(calls \union {r})
        BY <1>1, <1>3 DEF VettedStarts
      <3> QED
        BY <1>2, <1>3, <3>1, CallsChange
    <2> QED
      BY <1>2, <2>1, QuietStep
  <1>4. CASE handleToggleReady
    <2>1. Request("ready", {}) \in Requests /\ Request("ready", {}).kind = "ready"
      BY <1>1, RequestType
    <2> QED
      BY <1>3, <1>4, <2>1 DEF handleToggleReady
  <1>5. CASE handleLeaveLobby
    <2>1. Request("leave", {}) \in Requests /\ Request("leave", {}).kind = "leave"
      BY <1>1, RequestType DEF Leaves
    <2> QED
      BY <1>3, <1>5, <2>1 DEF handleLeaveLobby
  <1>6. CASE handleStartGame
    <2>1. copy # NoCopy /\ AllReady(copy)
      BY <1>6 DEF handleStartGame, mayStart
    <2>2. Users(copy) \in agreed /\ Users(copy) \in SUBSET People
      BY <1>1, <2>1, RosterTypes DEF Vetted
    <2>3. /\ Request("start", Users(copy)) \in Requests
          /\ Request("start", Users(copy)).who = Users(copy)
      BY <1>1, <2>2, RequestType
    <2> QED
      BY <1>3, <1>6, <2>2, <2>3 DEF handleStartGame
  <1> QED
    BY <1>4, <1>5, <1>6

\* The answers to its requests.
LEMMA AnswerKeeps ==
    ASSUME IInv, NEW c \in calls, Answer(c)
    PROVE  IInv'
  <1>1. /\ visit \in Nat /\ calls \in SUBSET Requests /\ VettedStarts(calls)
        /\ calls \ {c} \in SUBSET Requests /\ VettedStarts(calls \ {c})
    BY DEF IInv, TypeOK, CopiesVetted, VettedStarts
  <1>2. UNCHANGED <<store, game, agreed, feed>>
    BY DEF Answer, ListJoinAnswered, RejoinAnswered, StartAnswered, LeaveAnswered,
           serverVars
  <1>3. underWay(calls \ {c}) => CallsKeep
    BY <1>1, <1>2, CallsChange
  <1>4. CASE ListJoinAnswered(c)
    <2>1. CASE mount(calls \ {c})
      BY <1>1, <1>2, <2>1, MountKeeps
    <2>2. CASE underWay(calls \ {c}) /\ UNCHANGED pageVars
      BY <1>2, <1>3, <2>2, QuietStep DEF pageVars
    <2> QED
      BY <1>4, <2>1, <2>2 DEF ListJoinAnswered
  <1>5. ASSUME NEW next, NEW S \in SUBSET Requests, VettedStarts(S), goTo(next, S),
               UNCHANGED get
        PROVE  IInv'
    <2>1. CASE leaveTo(next, S)
      <3>1. CallsKeep
        BY <1>1, <1>2, <1>5, <2>1, LeaveQuietlyKeeps, CallsChange DEF leaveTo
      <3> QED
        BY <1>2, <1>5, <2>1, <3>1, QuietStep DEF leaveTo
    <2>2. CASE underWay(S) /\ UNCHANGED <<visit, since, copy>>
      <3>1. CallsKeep
        BY <1>2, <1>5, <2>2, CallsChange
      <3> QED
        BY <1>2, <1>5, <2>2, <3>1, QuietStep
    <2> QED
      BY <1>5, <2>1, <2>2 DEF goTo
  <1>6. CASE RejoinAnswered(c)
    <2>1. CASE /\ invalidate \/ UNCHANGED get
               /\ underWay(calls \ {c}) /\ UNCHANGED <<visit, since, copy>>
      <3>1. get' = get \/ get' = [step |-> "sent", roster |-> NoLobby]
        BY <2>1 DEF invalidate, fetchLobby, NoGet
      <3> QED
        BY <1>2, <1>3, <2>1, <3>1, QuietStep
    <2>2. CASE goTo("home", calls \ {c}) /\ UNCHANGED get
      BY <1>1, <1>5, <2>2
    <2> QED
      BY <1>6, <2>1, <2>2 DEF RejoinAnswered
  <1>7. CASE StartAnswered(c)
    <2>1. Request("delete", {}) \in Requests /\ Request("delete", {}).kind = "delete"
      BY <1>1, RequestType
    <2> DEFINE S == (calls \ {c}) \union {Request("delete", {})}
    <2>2. S \in SUBSET Requests /\ VettedStarts(S)
      BY <1>1, <2>1 DEF VettedStarts
    <2>3. /\ UNCHANGED get
          /\ \/ underWay(S) /\ UNCHANGED <<visit, since, copy>>
             \/ goTo("game", S)
      BY <1>7 DEF StartAnswered
    <2> HIDE DEF S
    <2>4. CASE underWay(S) /\ UNCHANGED <<visit, since, copy>>
      <3>1. CallsKeep
        BY <1>2, <2>2, <2>4, CallsChange
      <3> QED
        BY <1>2, <2>3, <2>4, <3>1, QuietStep
    <2> QED
      BY <1>5, <2>2, <2>3, <2>4
  <1>8. CASE LeaveAnswered(c)
    <2>1. CASE goTo("home", calls \ {c})
      BY <1>1, <1>5, <1>8, <2>1 DEF LeaveAnswered
    <2>2. CASE underWay(calls \ {c}) /\ UNCHANGED <<visit, since, copy>>
      BY <1>2, <1>3, <1>8, <2>2, QuietStep DEF LeaveAnswered
    <2> QED
      BY <1>8, <2>1, <2>2 DEF LeaveAnswered
  <1> QED
    BY <1>4, <1>6, <1>7, <1>8 DEF Answer

\* The connection is made.
LEMMA LinkKeeps ==
    ASSUME IInv, Connect \/ Register \/ HearOwnTopic
    PROVE  IInv'
  <1>1. UNCHANGED <<store, game, agreed, feed, visit, since, copy, calls>>
    BY DEF Connect, Register, HearOwnTopic, linkOnly, serverVars
  <1>2. get' = get \/ get' = [step |-> "sent", roster |-> NoLobby]
    BY DEF Connect, Register, HearOwnTopic, invalidate, fetchLobby, NoGet
  <1> QED
    BY <1>1, <1>2, QuietStep, CallsStay

------------------------------------------------------------------------------
(* The seat and the page.                                                  *)

\* What the seat no longer has to follow the page after: none of it is ever
\* undone.
Excused == crossed \/ game # NoGame \/ store = NoLobby

\* Nothing under way tells of an end of the lobby or of a game.
NoEndKnown ==
    /\ screen \in {"home", "lobby"} /\ ~starting
    /\ get.step \in {"read", "answered"} => get.roster # NoLobby
    /\ \A i \in 1 .. Len(feed) : feed[i].type = "lobby_updated"
    /\ \A c \in calls : /\ c.step # "missing"
                        /\ c.kind = "start" => c.step = "sent"

\* No request for a seat is to be served while one that gives it up is not
\* answered; and a leave that was served has had its effect.
CallsInOrder ==
    /\ \A c, d \in calls : ~Crossing(c, d)
    /\ \A c \in calls : c.kind \in Leaves => \/ c.step = "sent"
                                             \/ c.step = "ok" /\ Me \notin Seated

\* At home, a seat is about to be given up, or was just asked for from the list,
\* by somebody who is still there for the answer.
HomeInOrder ==
    screen = "home" =>
        /\ \A c \in calls : c.kind \in Joins /\ c.step = "sent" =>
                                c.kind = "listJoin" /\ heeded(c)
        /\ Me \in Seated => \E c \in calls :
               \/ c.kind \in Leaves /\ c.step = "sent"
               \/ c.kind = "listJoin" /\ c.step \in {"saved", "ok"} /\ heeded(c)

\* The page has asked for a seat, and has no answer that gives it one.
Asking == \E c \in calls : /\ c.kind = "join" /\ c.visit = visit
                           /\ c.step \in {"sent", "conflict"}

\* On the page, whoever has clicked on leave is leaving; the page has asked for
\* a seat when its copy shows none, and then the user has one, was turned away,
\* is leaving, or still asking.
VisitInOrder ==
    screen = "lobby" =>
        /\ hasLeft => Pending("leave")
        /\ copy # NoCopy /\ Me \notin Users(copy) => attempted
        /\ attempted =>
              /\ \A c \in calls : c.kind \in Leaves => c.kind = "leave" /\ c.visit = visit
              /\ Me \in Seated \/ turnedAway \/ Pending("leave") \/ Asking

SeatInv == ~Excused => NoEndKnown /\ CallsInOrder /\ HomeInOrder /\ VisitInOrder

\* What an orderly state is, once nothing excuses the page.
LEMMA Owed ==
    ASSUME SeatInv, ~Excused
    PROVE  /\ NoEndKnown /\ CallsInOrder /\ HomeInOrder /\ VisitInOrder
           /\ ~crossed /\ game = NoGame /\ store # NoLobby
  BY DEF SeatInv, Excused

\* Who sits where after an operation on the roster.
LEMMA RosterUsers ==
    ASSUME NEW r \in Rosters, NEW u \in People
    PROVE  /\ Users(AddPlayer(r, u)) = Users(r) \union {u}
           /\ Users(RemovePlayer(r, u)) = Users(r) \ {u}
           /\ \A b \in BOOLEAN : Users(SetReady(r, u, b)) = Users(r)
  <1>1. Users(AddPlayer(r, u)) = Users(r) \union {u}
    <2> DEFINE x == [user |-> u, ready |-> FALSE]
    <2>1. x.user = u
      OBVIOUS
    <2> HIDE DEF x
    <2>2. Users(r \union {x}) = Users(r) \union {x.user}
      BY DEF Users
    <2> QED
      BY <2>1, <2>2 DEF AddPlayer, x
  <1>2. Users(RemovePlayer(r, u)) = Users(r) \ {u}
    BY DEF Users, RemovePlayer
  <1>3. ASSUME NEW b \in BOOLEAN PROVE Users(SetReady(r, u, b)) = Users(r)
    <2>1. \A e \in r : (IF e.user = u THEN [user |-> u, ready |-> b] ELSE e).user = e.user
      OBVIOUS
    <2> QED
      BY <2>1 DEF Users, SetReady
  <1> QED
    BY <1>1, <1>2, <1>3

Updates(messages) == \A i \in 1 .. Len(messages) : messages[i].type = "lobby_updated"

\* Saving a roster changes who is seated, and only updates are published.
LEMMA StoredSeats ==
    ASSUME feed \in Seq(News), Updates(feed), NEW r \in Rosters, stored(r)
    PROVE  Seated' = Users(r) /\ Updates(feed')
  <1>1. Seated' = Users(r)
    <2>1. store' = r /\ r # NoLobby
      BY DEF stored, Rosters
    <2> QED
      BY <2>1 DEF Seated, Users
  <1> DEFINE m == [type |-> "lobby_updated", players |-> r]
  <1>2. m \in News /\ m.type = "lobby_updated"
    BY DEF News
  <1>3. feed' = Append(feed, m) \/ feed' = feed
    BY DEF stored
  <1> HIDE DEF m
  <1>4. Updates(feed')
    BY <1>2, <1>3 DEF Updates
  <1> QED
    BY <1>1, <1>4

LEMMA RemovedSeats ==
    ASSUME feed \in Seq(News), Updates(feed), store \in Rosters, NEW u \in People,
           removed(u), store' # NoLobby
    PROVE  Seated' = Users(store) \ {u} /\ Updates(feed')
  <1>1. stored(RemovePlayer(store, u))
    BY DEF removed
  <1>2. RemovePlayer(store, u) \in Rosters
    BY RosterTypes
  <1> QED
    BY <1>1, <1>2, StoredSeats, RosterUsers

\* The other requests stay, and the one that was served stays with its answer,
\* if anybody waits for that.
LEMMA AnsweredCalls ==
    ASSUME IInv, NEW c \in calls, NEW step, answered(c, step)
    PROVE  /\ ~(heeded(c) \/ step = "saved") => calls' = calls \ {c}
           /\ heeded(c) \/ step = "saved" =>
                \E e : /\ e.kind = c.kind /\ e.visit = c.visit /\ e.step = step
                       /\ calls' = (calls \ {c}) \union {e}
  <1>1. c \in Requests
    BY DEF IInv, TypeOK
  <1> DEFINE e == [c EXCEPT !.step = step]
  <1>2. e.kind = c.kind /\ e.visit = c.visit /\ e.step = step
    BY <1>1 DEF Requests
  <1>3. calls' = (calls \ {c}) \union IF heeded(c) \/ step = "saved" THEN {e} ELSE {}
    BY DEF answered, underWay
  <1> HIDE DEF e
  <1> QED
    BY <1>2, <1>3

\* What the page that is shown has asked for is heeded.
LEMMA HeededHere ==
    ASSUME IInv, NEW c, c.visit = visit, c.kind \notin Unheeded
    PROVE  heeded(c)
  BY DEF heeded, IInv, TypeOK

\* A join and a leave that are under way together are noted.
LEMMA NotCrossed ==
    ASSUME NEW S, underWay(S), ~crossed'
    PROVE  calls' = S /\ ~crossed /\ (\A c, d \in calls' : ~Crossing(c, d))
  BY DEF underWay

LEMMA FreshRequest ==
    ASSUME NEW kind, NEW who
    PROVE  /\ Request(kind, who).kind = kind /\ Request(kind, who).step = "sent"
           /\ Request(kind, who).visit = visit
  BY DEF Request

\* Showing a copy leaves the requests alone, or adds a join of this visit.
LEMMA Shows ==
    ASSUME NEW roster, NEW S, NEW tried, show(roster, S, tried), ~crossed'
    PROVE  /\ copy' = roster
           /\ \/ /\ calls' = S /\ attempted' = tried
                 /\ roster = NoCopy \/ tried \/ Me \in Users(roster)
              \/ /\ attempted' = TRUE /\ ~tried
                 /\ \E j : /\ j.kind = "join" /\ j.step = "sent" /\ j.visit = visit'
                           /\ calls' = S \union {j}
  <1> DEFINE j == [Request("join", {}) EXCEPT !.visit = visit']
  <1>1. j.kind = "join" /\ j.step = "sent" /\ j.visit = visit'
    BY DEF Request
  <1>2. copy' = roster
    BY DEF show
  <1>3. CASE roster = NoCopy \/ tried \/ Me \in Users(roster)
    BY <1>2, <1>3, NotCrossed DEF show
  <1>4. CASE ~(roster = NoCopy \/ tried \/ Me \in Users(roster))
    <2>1. attempted' = TRUE /\ underWay(S \union {j})
      BY <1>4 DEF show
    <2> HIDE DEF j
    <2> QED
      BY <1>1, <1>2, <1>4, <2>1, NotCrossed
  <1> QED
    BY <1>3, <1>4

\* The excuses are permanent.
LEMMA ExcusedStays ==
    ASSUME IInv, Next, Excused
    PROVE  Excused'
  <1>1. crossed => crossed'
    <2>1. ASSUME NEW u \in People, OtherMember(u) PROVE crossed' = crossed
      BY <2>1 DEF OtherMember, RequestOfOther, DeletedByOther
    <2>2. ASSUME NEW c \in calls, Serve(c) PROVE crossed => crossed'
      BY <2>2 DEF Serve, ServeJoin, JoinSubscribes, ServeLeave, ServeReady, ServeStart,
                  ServeDelete, answered, underWay
    <2>3. ASSUME NEW c \in calls, Answer(c) PROVE crossed => crossed'
      BY <2>3 DEF Answer, ListJoinAnswered, RejoinAnswered, StartAnswered, LeaveAnswered,
                  mount, show, goTo, leaveTo, underWay
    <2>4. CASE ServeGet \/ GetSubscribes \/ ReceiveGet \/ ReceiveMessage
      BY <2>4 DEF ServeGet, GetSubscribes, ReceiveGet, ReceiveMessage, noCallChanges,
                  show, leaveTo, underWay
    <2>5. CASE OpenPage \/ JoinFromList \/ Navigate \/ Reload
      BY <2>5 DEF OpenPage, JoinFromList, Navigate, Reload, mount, show, leaveTo, underWay
    <2>6. CASE handleToggleReady \/ handleStartGame \/ handleLeaveLobby
      BY <2>6 DEF handleToggleReady, handleStartGame, handleLeaveLobby, underWay
    <2>7. CASE Connect \/ Register \/ HearOwnTopic
      BY <2>7 DEF Connect, Register, HearOwnTopic, linkOnly
    <2> QED
      BY <2>1, <2>2, <2>3, <2>4, <2>5, <2>6, <2>7 DEF Next
  <1>2. game # NoGame => game' # NoGame
    <2>1. ASSUME NEW u \in People, OtherMember(u) PROVE game # NoGame => game' = game
      BY <2>1 DEF OtherMember, RequestOfOther, DeletedByOther, started
    <2>2. ASSUME NEW c \in calls, Serve(c) PROVE game # NoGame => game' = game
      BY <2>2 DEF Serve, ServeJoin, JoinSubscribes, ServeLeave, ServeReady, ServeStart,
                  ServeDelete, started
    <2>3. ASSUME NEW c \in calls, Answer(c) PROVE game' = game
      BY <2>3 DEF Answer, ListJoinAnswered, RejoinAnswered, StartAnswered, LeaveAnswered,
                  serverVars
    <2>4. CASE ServeGet \/ GetSubscribes \/ ReceiveGet \/ ReceiveMessage
      BY <2>4 DEF ServeGet, GetSubscribes, ReceiveGet, ReceiveMessage, serverVars
    <2>5. CASE OpenPage \/ JoinFromList \/ Navigate \/ Reload
      BY <2>5 DEF OpenPage, JoinFromList, Navigate, Reload, serverVars
    <2>6. CASE handleToggleReady \/ handleStartGame \/ handleLeaveLobby
      BY <2>6 DEF handleToggleReady, handleStartGame, handleLeaveLobby, serverVars
    <2>7. CASE Connect \/ Register \/ HearOwnTopic
      BY <2>7 DEF Connect, Register, HearOwnTopic, linkOnly, serverVars
    <2> QED
      BY <2>1, <2>2, <2>3, <2>4, <2>5, <2>6, <2>7 DEF Next
  <1>3. store = NoLobby => store' = NoLobby
    <2>1. ASSUME NEW u \in People, OtherMember(u) PROVE store = NoLobby => store' = NoLobby
      BY <2>1 DEF OtherMember, RequestOfOther, DeletedByOther, Seated
    <2>2. ASSUME NEW c \in calls, Serve(c) PROVE store = NoLobby => store' = NoLobby
      BY <2>2 DEF Serve, ServeJoin, JoinSubscribes, ServeLeave, ServeReady, ServeStart,
                  ServeDelete, Seated
    <2>3. ASSUME NEW c \in calls, Answer(c) PROVE store' = store
      BY <2>3 DEF Answer, ListJoinAnswered, RejoinAnswered, StartAnswered, LeaveAnswered,
                  serverVars
    <2>4. CASE ServeGet \/ GetSubscribes \/ ReceiveGet \/ ReceiveMessage
      BY <2>4 DEF ServeGet, GetSubscribes, ReceiveGet, ReceiveMessage, serverVars
    <2>5. CASE OpenPage \/ JoinFromList \/ Navigate \/ Reload
      BY <2>5 DEF OpenPage, JoinFromList, Navigate, Reload, serverVars
    <2>6. CASE handleToggleReady \/ handleStartGame \/ handleLeaveLobby
      BY <2>6 DEF handleToggleReady, handleStartGame, handleLeaveLobby, serverVars
    <2>7. CASE Connect \/ Register \/ HearOwnTopic
      BY <2>7 DEF Connect, Register, HearOwnTopic, linkOnly, serverVars
    <2> QED
      BY <2>1, <2>2, <2>3, <2>4, <2>5, <2>6, <2>7 DEF Next
  <1> QED
    BY <1>1, <1>2, <1>3 DEF Excused

\* Nothing of the page or its requests changes, nor does the user's seat.
LEMMA FrameOrderly ==
    ASSUME SeatInv, ~Excused, Me \in Seated' <=> Me \in Seated, NoEndKnown',
           UNCHANGED <<screen, calls, visit, since, copy, hasLeft, attempted, turnedAway>>
    PROVE  SeatInv'
  <1>1. CallsInOrder'
    BY Owed DEF CallsInOrder, Crossing
  <1>2. HomeInOrder'
    BY Owed DEF HomeInOrder, heeded
  <1>3. VisitInOrder'
    BY Owed DEF VisitInOrder, Pending, Asking
  <1> QED
    BY <1>1, <1>2, <1>3 DEF SeatInv

\* The other members, who do nothing to the user's seat.
LEMMA OtherMemberOrderly ==
    ASSUME IInv, SeatInv, NEW u \in People, OtherMember(u), ~Excused, ~Excused'
    PROVE  SeatInv'
  <1>1. /\ feed \in Seq(News) /\ Updates(feed) /\ store \in Rosters /\ u # Me
        /\ game' = NoGame /\ store' # NoLobby
    BY Owed DEF IInv, TypeOK, NoEndKnown, Updates, OtherMember, RequestOfOther,
                DeletedByOther, Excused
  <1>2. UNCHANGED <<screen, calls, visit, since, copy, get, hasLeft, attempted, starting,
                    turnedAway>>
    BY DEF OtherMember, RequestOfOther, DeletedByOther, pageVars
  <1>3. Seated = Users(store)
    BY Owed DEF Seated
  <1>4. ASSUME Me \in Seated' <=> Me \in Seated, Updates(feed') PROVE SeatInv'
    <2>1. NoEndKnown'
      BY <1>2, <1>4, Owed DEF NoEndKnown, Updates
    <2> QED
      BY <1>2, <1>4, <2>1, FrameOrderly
  <1>5. CASE stored(AddPlayer(store, u))
    <2>1. AddPlayer(store, u) \in Rosters
      BY <1>1, RosterTypes
    <2> QED
      BY <1>1, <1>3, <1>4, <1>5, <2>1, StoredSeats, RosterUsers
  <1>6. CASE removed(u)
    BY <1>1, <1>3, <1>4, <1>6, RemovedSeats
  <1>7. ASSUME NEW e \in store, stored(SetReady(store, u, ~e.ready))
        PROVE  SeatInv'
    <2>1. (~e.ready) \in BOOLEAN
      BY <1>1 DEF Rosters, Entries
    <2>2. SetReady(store, u, ~e.ready) \in Rosters
          /\ Users(SetReady(store, u, ~e.ready)) = Users(store)
      BY <1>1, <2>1, RosterTypes, RosterUsers
    <2> QED
      BY <1>1, <1>3, <1>4, <1>7, <2>2, StoredSeats
  <1>8. ASSUME started(Users(store)) PROVE FALSE
    <2>1. game' = Users(store) /\ Users(store) \in SUBSET People
      BY <1>1, <1>8, RosterTypes DEF started
    <2> QED
      BY <1>1, <2>1
  <1> QED
    BY <1>1, <1>5, <1>6, <1>7, <1>8 DEF OtherMember, RequestOfOther, DeletedByOther

\* A join is served: it seats the user, or finds the lobby full, or the user in it.
LEMMA ServeJoinOrderly ==
    ASSUME IInv, SeatInv, NEW c \in calls, ServeJoin(c), ~Excused, ~Excused'
    PROVE  SeatInv'
  <1>1. /\ c.kind \in Joins /\ c.kind \notin Unheeded /\ c.kind \notin Leaves
        /\ c.kind # "start" /\ c.step = "sent"
    BY DEF ServeJoin, Joins, Leaves, Unheeded
  <1>2. /\ feed \in Seq(News) /\ Updates(feed) /\ store \in Rosters /\ ~crossed'
        /\ Seated = Users(store)
    BY Owed DEF IInv, TypeOK, NoEndKnown, Updates, Excused, Seated
  <1>3. /\ UNCHANGED <<screen, visit, since, copy, get, hasLeft, attempted, starting>>
        /\ turnedAway' = turnedAway
    BY DEF ServeJoin, pageVars, noteVars
  <1>4. PICK step \in {"saved", "conflict"} :
             /\ answered(c, step) /\ Updates(feed')
             /\ step = "saved" => Me \in Seated'
             /\ step = "conflict" => Seated' = Seated
    <2>1. CASE stored(AddPlayer(store, Me)) /\ answered(c, "saved")
      <3>1. AddPlayer(store, Me) \in Rosters
        BY <1>2, RosterTypes
      <3> QED
        BY <1>2, <2>1, <3>1, StoredSeats, RosterUsers
    <2>2. CASE answered(c, "conflict") /\ UNCHANGED <<store, feed>>
      BY <1>2, <2>2 DEF Seated
    <2> QED
      BY <2>1, <2>2, Owed DEF ServeJoin
  <1>5. /\ \A d \in calls' : \/ d \in calls
                             \/ d.kind = c.kind /\ d.visit = c.visit /\ d.step = step
        /\ \A d \in calls : d = c \/ d \in calls'
    BY <1>4, AnsweredCalls
  <1>6. heeded(c) \/ step = "saved" =>
            \E e \in calls' : e.kind = c.kind /\ e.visit = c.visit /\ e.step = step
    BY <1>4, AnsweredCalls
  <1>7. \A d, f \in calls' : ~Crossing(d, f)
    BY <1>2, <1>4, NotCrossed DEF answered
  <1>8. \A d \in calls' \union calls : d.kind \notin Leaves
    BY <1>1, <1>5, Owed DEF CallsInOrder, Crossing
  <1>9. NoEndKnown'
    BY <1>1, <1>3, <1>4, <1>5, Owed DEF NoEndKnown, Updates
  <1>10. CallsInOrder'
    BY <1>7, <1>8 DEF CallsInOrder
  <1>11. HomeInOrder'
    <2> SUFFICES ASSUME screen = "home" PROVE HomeInOrder'
      BY <1>3 DEF HomeInOrder
    <2>1. c.kind = "listJoin" /\ heeded(c)
      BY <1>1, Owed DEF HomeInOrder
    <2>2. \A d \in calls' : d.kind \in Joins /\ d.step = "sent" => d \in calls
      BY <1>5
    <2>3. \A d \in calls' : d.kind \in Joins /\ d.step = "sent" =>
                                d.kind = "listJoin" /\ heeded(d)'
      BY <1>3, <2>2, Owed DEF HomeInOrder, heeded
    <2>4. CASE step = "saved"
      <3>1. PICK e \in calls' : e.kind = "listJoin" /\ e.visit = c.visit /\ e.step = "saved"
        BY <1>6, <2>1, <2>4
      <3>2. heeded(e)'
        BY <1>3, <2>1, <3>1 DEF heeded
      <3> QED
        BY <2>3, <3>1, <3>2 DEF HomeInOrder
    <2>5. CASE step = "conflict"
      <3> SUFFICES ASSUME Me \in Seated
                   PROVE  \E d \in calls' : /\ d.kind = "listJoin" /\ d.step \in {"saved", "ok"}
                                            /\ heeded(d)'
        BY <1>4, <2>3, <2>5 DEF HomeInOrder
      <3>1. PICK d \in calls : d.kind = "listJoin" /\ d.step \in {"saved", "ok"} /\ heeded(d)
        BY <1>8, Owed DEF HomeInOrder
      <3>2. d \in calls' /\ heeded(d)'
        BY <1>1, <1>3, <1>5, <3>1 DEF heeded
      <3> QED
        BY <3>1, <3>2
    <2> QED
      BY <2>4, <2>5
  <1>12. VisitInOrder'
    <2>1. ~Pending("leave")
      BY <1>8 DEF Pending, Leaves
    <2>2. Asking => Asking' \/ step = "saved"
      <3> SUFFICES ASSUME NEW d \in calls, d.kind = "join", d.visit = visit,
                          d.step \in {"sent", "conflict"}, step = "conflict"
                   PROVE  Asking'
        BY DEF Asking
      <3>1. CASE d = c
        <4>1. heeded(c)
          BY <1>1, <3>1, HeededHere
        <4>2. PICK e \in calls' : e.kind = "join" /\ e.visit = visit /\ e.step = "conflict"
          BY <1>6, <3>1, <4>1
        <4> QED
          BY <1>3, <4>2 DEF Asking
      <3>2. CASE d # c
        BY <1>3, <1>5, <3>2 DEF Asking
      <3> QED
        BY <3>1, <3>2
    <2> QED
      BY <1>3, <1>4, <1>8, <2>1, <2>2, Owed DEF VisitInOrder
  <1> QED
    BY <1>9, <1>10, <1>11, <1>12 DEF SeatInv

\* The subscription of a user who was seated.
LEMMA JoinSubscribesOrderly ==
    ASSUME IInv, SeatInv, NEW c \in calls, JoinSubscribes(c), ~Excused, ~Excused'
    PROVE  SeatInv'
  <1>1. /\ c.kind \in Joins /\ c.kind \notin Unheeded /\ c.kind \notin Leaves
        /\ c.kind # "start" /\ c.step = "saved" /\ answered(c, "ok")
    BY DEF JoinSubscribes, Joins, Leaves, Unheeded
  <1>2. /\ UNCHANGED <<store, feed, screen, visit, since, copy, get, hasLeft, attempted>>
        /\ UNCHANGED <<starting, turnedAway>>
    BY DEF JoinSubscribes, pageVars, noteVars
  <1>3. /\ \A d \in calls' : \/ d \in calls
                             \/ d.kind = c.kind /\ d.visit = c.visit /\ d.step = "ok"
        /\ \A d \in calls : d = c \/ d \in calls'
        /\ heeded(c) => \E e \in calls' : e.kind = c.kind /\ e.visit = c.visit /\ e.step = "ok"
    BY <1>1, AnsweredCalls
  <1>4. Seated' = Seated
    BY <1>2 DEF Seated
  <1>5. NoEndKnown'
    BY <1>1, <1>2, <1>3, Owed DEF NoEndKnown
  <1>6. CallsInOrder'
    BY <1>1, <1>3, <1>4, Owed DEF CallsInOrder, Crossing
  <1>7. HomeInOrder'
    <2> SUFFICES ASSUME screen = "home" PROVE HomeInOrder'
      BY <1>2 DEF HomeInOrder
    <2>1. \A d \in calls' : d.kind \in Joins /\ d.step = "sent" =>
                                d.kind = "listJoin" /\ heeded(d)'
      BY <1>2, <1>3, Owed DEF HomeInOrder, heeded
    <2> SUFFICES ASSUME Me \in Seated
                 PROVE  \E d \in calls' :
                           \/ d.kind \in Leaves /\ d.step = "sent"
                           \/ d.kind = "listJoin" /\ d.step \in {"saved", "ok"} /\ heeded(d)'
      BY <1>4, <2>1 DEF HomeInOrder
    <2>2. PICK d \in calls : \/ d.kind \in Leaves /\ d.step = "sent"
                             \/ d.kind = "listJoin" /\ d.step \in {"saved", "ok"} /\ heeded(d)
      BY Owed DEF HomeInOrder
    <2>3. CASE d = c
      <3>1. c.kind = "listJoin" /\ heeded(c)
        BY <1>1, <2>2, <2>3
      <3>2. PICK e \in calls' : e.kind = "listJoin" /\ e.visit = c.visit /\ e.step = "ok"
        BY <1>3, <3>1
      <3>3. heeded(e)'
        BY <1>2, <3>1, <3>2 DEF heeded
      <3> QED
        BY <3>2, <3>3
    <2>4. CASE d # c
      BY <1>2, <1>3, <2>2, <2>4 DEF heeded
    <2> QED
      BY <2>3, <2>4
  <1>8. Pending("leave")' <=> Pending("leave")
    BY <1>1, <1>2, <1>3 DEF Pending, Leaves
  <1>9. Asking => Asking'
    BY <1>1, <1>2, <1>3 DEF Asking
  <1>10. VisitInOrder'
    BY <1>1, <1>2, <1>3, <1>4, <1>8, <1>9, Owed DEF VisitInOrder
  <1> QED
    BY <1>5, <1>6, <1>7, <1>10 DEF SeatInv

\* A leave is served: no seat is left, and nobody is about to ask for one.
LEMMA ServeLeaveOrderly ==
    ASSUME IInv, SeatInv, NEW c \in calls, ServeLeave(c), ~Excused, ~Excused'
    PROVE  SeatInv'
  <1>1. c.kind \in Leaves /\ c.kind \notin Joins /\ c.kind # "start"
    BY DEF ServeLeave, Joins, Leaves
  <1>2. /\ feed \in Seq(News) /\ Updates(feed) /\ store \in Rosters /\ ~crossed'
        /\ Seated = Users(store) /\ store' # NoLobby
    BY Owed DEF IInv, TypeOK, NoEndKnown, Updates, Excused, Seated
  <1>3. /\ UNCHANGED <<screen, visit, since, copy, get, hasLeft, attempted, starting>>
        /\ turnedAway' = turnedAway
    BY DEF ServeLeave, pageVars, noteVars
  <1>4. answered(c, "ok") /\ Updates(feed') /\ Me \notin Seated'
    <2>1. CASE removed(Me) /\ answered(c, "ok")
      BY <1>2, <2>1, RemovedSeats
    <2>2. CASE Me \notin Seated /\ answered(c, "ok") /\ UNCHANGED <<store, feed>>
      BY <1>2, <2>2 DEF Seated
    <2> QED
      BY <2>1, <2>2, Owed DEF ServeLeave
  <1>5. \A d \in calls : d.kind \in Joins => d.step # "sent"
    BY <1>1, Owed DEF CallsInOrder, Crossing
  <1>6. \A d \in calls' : \/ d \in calls
                          \/ d.kind = c.kind /\ d.visit = c.visit /\ d.step = "ok"
    BY <1>4, AnsweredCalls
  <1>7. Pending("leave") => Pending("leave")'
    <2> SUFFICES ASSUME NEW d \in calls, d.kind = "leave", d.visit = visit
                 PROVE  Pending("leave")'
      BY DEF Pending
    <2>1. CASE d = c
      <3>1. heeded(c)
        BY <2>1, HeededHere DEF Unheeded
      <3>2. PICK e \in calls' : e.kind = "leave" /\ e.visit = visit
        BY <1>4, <2>1, <3>1, AnsweredCalls
      <3> QED
        BY <1>3, <3>2 DEF Pending
    <2>2. CASE d # c
      <3>1. d \in calls'
        BY <1>4, <2>2, AnsweredCalls
      <3> QED
        BY <1>3, <3>1 DEF Pending
    <2> QED
      BY <2>1, <2>2
  <1>8. NoEndKnown'
    BY <1>1, <1>3, <1>4, <1>6, Owed DEF NoEndKnown, Updates
  <1>9. CallsInOrder'
    BY <1>1, <1>4, <1>5, <1>6, Owed DEF CallsInOrder, Crossing
  <1>10. HomeInOrder'
    BY <1>1, <1>3, <1>4, <1>5, <1>6 DEF HomeInOrder
  <1>11. screen = "lobby" /\ attempted => c.kind = "leave" /\ c.visit = visit
    BY <1>1, Owed DEF VisitInOrder
  <1>12. VisitInOrder'
    <2>1. screen = "lobby" /\ attempted => Pending("leave")
      BY <1>11 DEF Pending
    <2> QED
      BY <1>3, <1>6, <1>7, <1>11, <2>1, Owed DEF VisitInOrder
  <1> QED
    BY <1>8, <1>9, <1>10, <1>12 DEF SeatInv

\* What is served without effect on the seat.
LEMMA ServeReadyOrderly ==
    ASSUME IInv, SeatInv, NEW c \in calls, ServeReady(c), ~Excused, ~Excused'
    PROVE  SeatInv'
  <1>1. /\ feed \in Seq(News) /\ Updates(feed) /\ store \in Rosters
        /\ Seated = Users(store) /\ ~crossed'
    BY Owed DEF IInv, TypeOK, NoEndKnown, Updates, Seated, Excused
  <1>2. /\ UNCHANGED <<screen, visit, since, copy, get, hasLeft, attempted, starting>>
        /\ turnedAway' = turnedAway
    BY DEF ServeReady, pageVars, noteVars
  <1>3. calls' = calls \ {c} /\ c.kind = "ready"
    BY AnsweredCalls DEF ServeReady, Unheeded, heeded
  <1>4. Seated' = Seated /\ Updates(feed')
    <2>1. ASSUME NEW e \in store, stored(SetReady(store, Me, ~e.ready))
          PROVE  Seated' = Seated /\ Updates(feed')
      <3>1. (~e.ready) \in BOOLEAN
        BY <1>1 DEF Rosters, Entries
      <3>2. SetReady(store, Me, ~e.ready) \in Rosters
            /\ Users(SetReady(store, Me, ~e.ready)) = Users(store)
        BY <1>1, <3>1, RosterTypes, RosterUsers
      <3> QED
        BY <1>1, <2>1, <3>2, StoredSeats
    <2>2. CASE UNCHANGED <<store, feed>>
      BY <1>1, <2>2 DEF Seated
    <2> QED
      BY <2>1, <2>2 DEF ServeReady
  <1>5. NoEndKnown'
    BY <1>2, <1>3, <1>4, Owed DEF NoEndKnown, Updates
  <1>6. CallsInOrder'
    BY <1>3, <1>4, Owed DEF CallsInOrder, Crossing
  <1>7. HomeInOrder'
    BY <1>2, <1>3, <1>4, Owed DEF HomeInOrder, Leaves, heeded
  <1>8. VisitInOrder'
    BY <1>2, <1>3, <1>4, Owed DEF VisitInOrder, Pending, Asking
  <1> QED
    BY <1>5, <1>6, <1>7, <1>8 DEF SeatInv

LEMMA ServeOrderly ==
    ASSUME IInv, SeatInv, NEW c \in calls, Serve(c), ~Excused, ~Excused'
    PROVE  SeatInv'
  <1>1. ASSUME ServeStart(c) PROVE FALSE
    <2>1. game' = c.who /\ c.who \in SUBSET People
      BY <1>1 DEF ServeStart, started, IInv, TypeOK, Requests
    <2> QED
      BY <2>1 DEF Excused
  <1>2. ASSUME ServeDelete(c) PROVE FALSE
    BY <1>2 DEF ServeDelete, Excused
  <1> QED
    BY <1>1, <1>2, ServeJoinOrderly, JoinSubscribesOrderly, ServeLeaveOrderly,
       ServeReadyOrderly DEF Serve

\* The page is mounted: it has left nothing, and asks for a seat if its copy
\* shows none.
LEMMA MountOrderly ==
    ASSUME IInv, SeatInv, ~Excused, ~crossed', NEW S \in SUBSET calls, mount(S),
           UNCHANGED <<store, feed>>
    PROVE  SeatInv'
  <1>1. /\ screen' = "lobby" /\ hasLeft' = FALSE /\ starting' = FALSE
        /\ get' = get \/ get'.step = "sent"
        /\ show(copy, S, FALSE)
    BY Zenon DEF mount, fetchLobby, NoGet
  <1>2. /\ copy' = copy
        /\ \/ /\ calls' = S /\ attempted' = FALSE /\ (copy = NoCopy \/ Me \in Users(copy))
           \/ /\ attempted' = TRUE
              /\ \E j : /\ j.kind = "join" /\ j.step = "sent" /\ j.visit = visit'
                        /\ calls' = S \union {j}
    <2>1. \A tried : show(copy, S, tried) =>
                      /\ copy' = copy
                      /\ \/ /\ calls' = S /\ attempted' = tried
                            /\ copy = NoCopy \/ tried \/ Me \in Users(copy)
                         \/ /\ attempted' = TRUE /\ ~tried
                            /\ \E j : /\ j.kind = "join" /\ j.step = "sent" /\ j.visit = visit'
                                      /\ calls' = S \union {j}
      BY Shows, Zenon
    <2> QED
      BY <1>1, <2>1, Zenon
  <1>3. Seated' = Seated
    BY DEF Seated
  <1>4. \A c \in calls' : c \in calls \/ (c.kind = "join" /\ c.step = "sent")
    BY <1>2
  <1>5. \A d, f \in calls' : ~Crossing(d, f)
    BY <1>1, NotCrossed DEF show
  <1>6. NoEndKnown'
    BY <1>1, <1>4, Owed DEF NoEndKnown
  <1>7. CallsInOrder'
    BY <1>3, <1>4, <1>5, Owed DEF CallsInOrder, Leaves
  <1>8. HomeInOrder'
    BY <1>1 DEF HomeInOrder
  <1>9. VisitInOrder'
    <2>1. attempted' => Asking'
      BY <1>2 DEF Asking
    <2>2. attempted' => \A c \in calls' : c.kind \notin Leaves
      BY <1>2, <1>5 DEF Crossing, Joins
    <2> QED
      BY <1>1, <1>2, <2>1, <2>2 DEF VisitInOrder
  <1> QED
    BY <1>6, <1>7, <1>8, <1>9 DEF SeatInv

\* A newer, or older, copy is shown on the page.
LEMMA ShowOrderly ==
    ASSUME IInv, SeatInv, ~Excused, ~crossed', screen = "lobby",
           NEW roster, show(roster, calls, attempted),
           UNCHANGED <<store, screen, visit, since, hasLeft, starting, turnedAway>>,
           (get.step \in {"read", "answered"} => get.roster # NoLobby)',
           Updates(feed')
    PROVE  SeatInv'
  <1>1. /\ copy' = roster
        /\ \/ /\ calls' = calls /\ attempted' = attempted
              /\ roster = NoCopy \/ attempted \/ Me \in Users(roster)
           \/ /\ attempted' = TRUE /\ ~attempted
              /\ \E j : /\ j.kind = "join" /\ j.step = "sent" /\ j.visit = visit'
                        /\ calls' = calls \union {j}
    BY Shows
  <1>2. Seated' = Seated
    BY DEF Seated
  <1>3. \A c \in calls' : c \in calls \/ (c.kind = "join" /\ c.step = "sent")
    BY <1>1
  <1>4. calls \subseteq calls'
    BY <1>1
  <1>5. \A d, f \in calls' : ~Crossing(d, f)
    BY NotCrossed DEF show
  <1>6. NoEndKnown'
    BY <1>3, Owed DEF NoEndKnown, Updates
  <1>7. CallsInOrder'
    BY <1>2, <1>3, <1>5, Owed DEF CallsInOrder, Leaves
  <1>8. HomeInOrder'
    BY DEF HomeInOrder
  <1>9. VisitInOrder'
    <2>1. Pending("leave") => Pending("leave")'
      BY <1>4 DEF Pending
    <2>2. CASE calls' = calls /\ attempted' = attempted
               /\ (roster = NoCopy \/ attempted \/ Me \in Users(roster))
      BY <1>1, <1>2, <2>1, <2>2, Owed DEF VisitInOrder, Pending, Asking
    <2>3. ASSUME attempted' = TRUE,
                 NEW j, j.kind = "join", j.step = "sent", j.visit = visit',
                 calls' = calls \union {j}
          PROVE  VisitInOrder'
      <3>1. Asking' /\ \A c \in calls' : c.kind \notin Leaves
        BY <1>5, <2>3 DEF Asking, Crossing, Joins
      <3> QED
        BY <2>1, <2>3, <3>1, Owed DEF VisitInOrder
    <2> QED
      BY <1>1, <2>2, <2>3
  <1> QED
    BY <1>6, <1>7, <1>8, <1>9 DEF SeatInv

\* Fetching the roster, and the answer.
LEMMA GetOrderly ==
    ASSUME IInv, SeatInv, ServeGet \/ GetSubscribes \/ ReceiveGet, ~Excused, ~Excused'
    PROVE  SeatInv'
  <1>1. ~crossed' /\ store' = store /\ feed' = feed /\ Seated' = Seated
    BY DEF ServeGet, GetSubscribes, ReceiveGet, serverVars, Excused, Seated
  <1>2. CASE ServeGet \/ GetSubscribes
    <2>1. /\ UNCHANGED <<screen, calls, visit, since, copy, hasLeft, attempted, starting>>
          /\ turnedAway' = turnedAway
      BY <1>2 DEF ServeGet, GetSubscribes, refVars, noteVars
    <2>2. get'.roster # NoLobby
      <3>1. CASE ServeGet
        BY <3>1, Owed DEF ServeGet
      <3>2. CASE GetSubscribes
        BY <3>2, Owed DEF GetSubscribes, NoEndKnown, IInv, TypeOK
      <3> QED
        BY <1>2, <3>1, <3>2
    <2>3. NoEndKnown'
      BY <1>1, <2>1, <2>2, Owed DEF NoEndKnown
    <2> QED
      BY <1>1, <2>1, <2>3, FrameOrderly
  <1>3. CASE ReceiveGet
    <2>1. get.roster # NoLobby /\ Updates(feed') /\ screen \in {"home", "lobby"}
      BY <1>1, <1>3, Owed DEF ReceiveGet, NoEndKnown, Updates
    <2>2. get'.step = "none" /\ turnedAway' = turnedAway
      BY <1>3 DEF ReceiveGet, NoGet
    <2>3. CASE screen = "lobby"
      <3>1. /\ UNCHANGED <<screen, visit, since, hasLeft, starting>>
            /\ show(get.roster, calls, attempted)
        BY <1>3, <2>1, <2>3 DEF ReceiveGet
      <3> QED
        BY <1>1, <2>1, <2>2, <2>3, <3>1, ShowOrderly
    <2>4. CASE screen = "home"
      <3>1. UNCHANGED <<screen, visit, since, calls, hasLeft, attempted, starting>>
        BY <1>3, <2>4 DEF ReceiveGet, noCallChanges, refVars
      <3>2. NoEndKnown'
        BY <1>1, <2>2, <3>1, Owed DEF NoEndKnown
      <3>3. CallsInOrder'
        BY <1>1, <3>1, Owed DEF CallsInOrder, Crossing
      <3>4. HomeInOrder'
        BY <1>1, <3>1, Owed DEF HomeInOrder, heeded
      <3>5. VisitInOrder'
        BY <2>4, <3>1 DEF VisitInOrder
      <3> QED
        BY <3>2, <3>3, <3>4, <3>5 DEF SeatInv
    <2> QED
      BY <2>1, <2>3, <2>4
  <1> QED
    BY <1>2, <1>3

LEMMA MessageOrderly ==
    ASSUME IInv, SeatInv, ReceiveMessage, ~Excused, ~Excused'
    PROVE  SeatInv'
  <1>1. /\ ~crossed' /\ store' = store /\ feed' = Tail(feed) /\ feed # <<>>
        /\ Seated' = Seated /\ turnedAway' = turnedAway
    BY DEF ReceiveMessage, serverVars, noteVars, Excused, Seated
  <1>2. feed \in Seq(News) /\ Updates(feed)
    BY Owed DEF IInv, TypeOK, NoEndKnown, Updates
  <1>3. Head(feed).type = "lobby_updated" /\ Updates(feed')
    BY <1>1, <1>2 DEF Updates
  <1>4. CASE screen = "lobby" /\ copy # NoCopy
    <2>1. /\ UNCHANGED <<screen, visit, since, get, hasLeft, starting>>
          /\ show(Head(feed).players, calls, attempted)
      BY <1>3, <1>4 DEF ReceiveMessage
    <2> QED
      BY <1>1, <1>3, <1>4, <2>1, ShowOrderly, Owed DEF NoEndKnown
  <1>5. CASE ~(screen = "lobby" /\ copy # NoCopy)
    <2>1. UNCHANGED <<screen, calls, visit, since, copy, get, hasLeft, attempted, starting>>
      BY <1>3, <1>5 DEF ReceiveMessage, noCallChanges, pageVars
    <2>2. NoEndKnown'
      BY <1>3, <2>1, Owed DEF NoEndKnown, Updates
    <2> QED
      BY <1>1, <2>1, <2>2, FrameOrderly
  <1> QED
    BY <1>4, <1>5

\* On the way out, whoever is not leaving already sends a leave.
LEMMA LeavesQuietly ==
    ASSUME NEW S, ~starting
    PROVE  \/ hasLeft /\ leaveQuietly(S) = S
           \/ ~hasLeft /\ \E q : /\ q.kind = "quietLeave" /\ q.step = "sent"
                                 /\ leaveQuietly(S) = S \union {q}
  BY FreshRequest DEF leaveQuietly

\* Going home in order: whatever is under way by then is no join that could
\* seat the user again, and a leave stands for the seat.
LEMMA LeavesHome ==
    ASSUME IInv, SeatInv, ~Excused, ~crossed', screen = "lobby", store' = store,
           NEW S \in SUBSET calls, leaveTo("home", S), UNCHANGED <<feed, get>>,
           \/ S = calls
           \/ Me \notin Seated /\ \A c \in calls : c.kind \in Joins => c.step # "sent"
    PROVE  SeatInv'
  <1>1. /\ screen' = "home" /\ starting' = starting /\ ~starting
        /\ underWay(leaveQuietly(S)) /\ Seated' = Seated
    BY Owed DEF leaveTo, NoEndKnown, Seated
  <1>2. calls' = leaveQuietly(S) /\ \A d, f \in calls' : ~Crossing(d, f)
    BY <1>1, NotCrossed
  <1>3. \/ hasLeft /\ calls' = S /\ Pending("leave")
        \/ \E q : /\ q.kind = "quietLeave" /\ q.step = "sent"
                  /\ calls' = S \union {q}
    BY <1>1, <1>2, LeavesQuietly, Owed DEF VisitInOrder
  <1>4. \A c \in calls' : c \in calls \/ (c.kind = "quietLeave" /\ c.step = "sent")
    BY <1>3
  <1>5. NoEndKnown'
    BY <1>1, <1>4, Owed DEF NoEndKnown
  <1>6. CallsInOrder'
    BY <1>1, <1>2, <1>4, Owed DEF CallsInOrder
  <1>7. \A c \in calls' : c.kind \in Joins => c.step # "sent"
    <2>1. CASE S = calls
      <3>1. \E d \in calls' : d.kind \in Leaves
        BY <1>3, <2>1 DEF Pending, Leaves
      <3> QED
        BY <1>2, <3>1 DEF Crossing
    <2>2. CASE \A c \in calls : c.kind \in Joins => c.step # "sent"
      BY <1>4, <2>2 DEF Joins
    <2> QED
      BY <2>1, <2>2
  <1>8. Me \in Seated => \E d \in calls' : d.kind \in Leaves /\ d.step = "sent"
    <2> SUFFICES ASSUME Me \in Seated, S = calls
                 PROVE  \E d \in calls' : d.kind \in Leaves /\ d.step = "sent"
      OBVIOUS
    <2> QED
      BY <1>3, Owed DEF Pending, CallsInOrder, Leaves
  <1>9. HomeInOrder'
    BY <1>1, <1>7, <1>8 DEF HomeInOrder
  <1>10. VisitInOrder'
    BY <1>1 DEF VisitInOrder
  <1> QED
    BY <1>5, <1>6, <1>9, <1>10 DEF SeatInv

LEMMA VisitOrderly ==
    ASSUME IInv, SeatInv, OpenPage \/ JoinFromList \/ Navigate \/ Reload,
           ~Excused, ~Excused'
    PROVE  SeatInv'
  <1>1. ~crossed' /\ store' = store /\ Seated' = Seated
    BY DEF OpenPage, JoinFromList, Navigate, Reload, serverVars, Excused, Seated
  <1>2. CASE OpenPage
    BY <1>1, <1>2, MountOrderly DEF OpenPage
  <1>3. CASE JoinFromList
    <2>1. PICK r : /\ r.kind = "listJoin" /\ r.step = "sent" /\ r.visit = visit
                   /\ underWay(calls \union {r})
      BY <1>3, FreshRequest DEF JoinFromList
    <2>2. /\ calls' = calls \union {r}
          /\ \A d, f \in calls' : ~Crossing(d, f)
      BY <1>1, <2>1, NotCrossed
    <2>3. UNCHANGED <<feed, screen, visit, since, get, starting>> /\ screen = "home"
      BY <1>3 DEF JoinFromList, pageVars
    <2>4. NoEndKnown'
      BY <2>1, <2>2, <2>3, Owed DEF NoEndKnown
    <2>5. CallsInOrder'
      BY <1>1, <2>1, <2>2, Owed DEF CallsInOrder, Leaves
    <2>6. HomeInOrder'
      <3>1. heeded(r)
        BY <2>1, HeededHere DEF Unheeded
      <3>2. \A c : heeded(c)' <=> heeded(c)
        BY <2>3 DEF heeded
      <3> QED
        BY <1>1, <2>1, <2>2, <2>3, <3>1, <3>2, Owed DEF HomeInOrder
    <2>7. VisitInOrder'
      BY <2>3 DEF VisitInOrder
    <2> QED
      BY <2>4, <2>5, <2>6, <2>7 DEF SeatInv
  <1>4. CASE Navigate
    <2>1. leaveTo("home", calls) /\ UNCHANGED <<feed, get>> /\ screen = "lobby"
      BY <1>4 DEF Navigate
    <2> QED
      BY <1>1, <2>1, LeavesHome
  <1>5. CASE Reload
    <2>0. PICK S \in SUBSET leaveQuietly(calls) : underWay(S)
      BY <1>5, ReloadKept
    <2>1. /\ feed' = <<>> /\ copy' = NoCopy /\ get'.step = "sent"
          /\ hasLeft' = FALSE /\ attempted' = FALSE /\ starting' = FALSE
          /\ screen' = "lobby" /\ ~starting
      BY <1>5, Owed DEF Reload, NoGet, NoEndKnown
    <2>2. \A c \in S : c \in calls \/ (c.kind = "quietLeave" /\ c.step = "sent")
      BY <2>0, <2>1, LeavesQuietly
    <2>3. /\ calls' = S
          /\ \A d, f \in calls' : ~Crossing(d, f)
      BY <1>1, <2>0, NotCrossed
    <2>4. NoEndKnown'
      BY <2>1, <2>2, <2>3, Owed DEF NoEndKnown
    <2>5. CallsInOrder'
      BY <1>1, <2>2, <2>3, Owed DEF CallsInOrder, Joins
    <2>6. HomeInOrder' /\ VisitInOrder'
      BY <2>1 DEF HomeInOrder, VisitInOrder
    <2> QED
      BY <2>4, <2>5, <2>6 DEF SeatInv
  <1> QED
    BY <1>2, <1>3, <1>4, <1>5

LEMMA ClickOrderly ==
    ASSUME IInv, SeatInv, handleToggleReady \/ handleStartGame \/ handleLeaveLobby,
           ~Excused, ~Excused'
    PROVE  SeatInv'
  <1>1. /\ ~crossed' /\ store' = store /\ Seated' = Seated
        /\ UNCHANGED <<feed, screen, visit, copy, get, attempted, starting, turnedAway>>
        /\ screen = "lobby"
    BY DEF handleToggleReady, handleStartGame, handleLeaveLobby, serverVars, pageVars,
           noteVars, Excused, Seated
  <1>2. PICK r : /\ r.step = "sent" /\ r.visit = visit /\ underWay(calls \union {r})
                 /\ \/ r.kind \in {"ready", "start"} /\ hasLeft' = hasLeft
                    \/ r.kind = "leave"
    <2>1. CASE handleToggleReady
      <3> DEFINE r == Request("ready", {})
      <3>1. r.step = "sent" /\ r.visit = visit /\ r.kind = "ready"
        BY FreshRequest
      <3>2. underWay(calls \union {r}) /\ hasLeft' = hasLeft
        BY <2>1 DEF handleToggleReady, pageVars
      <3> HIDE DEF r
      <3> QED
        BY <3>1, <3>2
    <2>2. CASE handleStartGame
      <3> DEFINE r == Request("start", Users(copy))
      <3>1. r.step = "sent" /\ r.visit = visit /\ r.kind = "start"
        BY FreshRequest
      <3>2. underWay(calls \union {r}) /\ hasLeft' = hasLeft
        BY <2>2 DEF handleStartGame, pageVars
      <3> HIDE DEF r
      <3> QED
        BY <3>1, <3>2
    <2>3. CASE handleLeaveLobby
      <3> DEFINE r == Request("leave", {})
      <3>1. r.step = "sent" /\ r.visit = visit /\ r.kind = "leave"
        BY FreshRequest
      <3>2. underWay(calls \union {r})
        BY <2>3 DEF handleLeaveLobby
      <3> HIDE DEF r
      <3> QED
        BY <3>1, <3>2
    <2> QED
      BY <2>1, <2>2, <2>3
  <1>3. /\ calls' = calls \union {r}
        /\ \A d, f \in calls' : ~Crossing(d, f)
    BY <1>1, <1>2, NotCrossed
  <1>4. NoEndKnown'
    BY <1>1, <1>2, <1>3, Owed DEF NoEndKnown
  <1>5. CallsInOrder'
    BY <1>1, <1>2, <1>3, Owed DEF CallsInOrder, Joins
  <1>6. HomeInOrder'
    BY <1>1 DEF HomeInOrder
  <1>7. VisitInOrder'
    <2>1. (Pending("leave") => Pending("leave")') /\ (Asking => Asking')
      BY <1>1, <1>3 DEF Pending, Asking
    <2>2. hasLeft' => hasLeft \/ Pending("leave")'
      BY <1>1, <1>2, <1>3 DEF Pending
    <2>3. \A c \in calls' : c.kind \in Leaves => c \in calls \/ (c.kind = "leave" /\ c.visit = visit)
      BY <1>2, <1>3 DEF Leaves
    <2> QED
      BY <1>1, <2>1, <2>2, <2>3, Owed DEF VisitInOrder
  <1> QED
    BY <1>4, <1>5, <1>6, <1>7 DEF SeatInv

\* The answers: a rejoin has seated the user or turned them away, a leave has
\* taken the seat, and the page goes home.
LEMMA AnswerOrderly ==
    ASSUME IInv, SeatInv, NEW c \in calls, Answer(c), ~Excused, ~Excused'
    PROVE  SeatInv'
  <1>1. ~crossed' /\ store' = store /\ Seated' = Seated /\ feed' = feed
    BY DEF Answer, ListJoinAnswered, RejoinAnswered, StartAnswered, LeaveAnswered,
           serverVars, Excused, Seated
  <1>2. ASSUME underWay(calls \ {c}) PROVE calls' = calls \ {c} /\ CallsInOrder'
    <2>1. calls' = calls \ {c}
      BY <1>1, <1>2, NotCrossed
    <2> QED
      BY <1>1, <2>1, Owed DEF CallsInOrder, Crossing
  <1>3. c.step # "missing"
    BY Owed DEF NoEndKnown
  <1>4. CASE ListJoinAnswered(c)
    <2>1. CASE mount(calls \ {c})
      BY <1>1, <2>1, MountOrderly
    <2>2. CASE ~(c.step = "ok" /\ screen # "lobby")
      <3>1. /\ calls' = calls \ {c} /\ CallsInOrder' /\ c.kind = "listJoin" /\ c.step \in {"ok", "conflict"}
            /\ UNCHANGED <<screen, visit, since, copy, get, hasLeft, attempted, starting>>
            /\ turnedAway' = turnedAway
        BY <1>2, <1>3, <1>4, <2>2 DEF ListJoinAnswered, pageVars, noteVars
      <3>2. NoEndKnown'
        BY <1>1, <3>1, Owed DEF NoEndKnown
      <3>3. HomeInOrder'
        BY <1>1, <2>2, <3>1, Owed DEF HomeInOrder, Leaves, heeded
      <3>4. VisitInOrder'
        BY <1>1, <3>1, Owed DEF VisitInOrder, Pending, Asking
      <3> QED
        BY <3>1, <3>2, <3>3, <3>4 DEF SeatInv
    <2> QED
      BY <1>4, <2>1, <2>2 DEF ListJoinAnswered
  <1>5. CASE RejoinAnswered(c)
    <2>1. /\ calls' = calls \ {c} /\ CallsInOrder' /\ c.kind = "join"
          /\ c.step \in {"ok", "conflict"}
          /\ turnedAway' = (turnedAway \/ (c.step = "conflict" /\ c.visit = visit))
          /\ UNCHANGED <<screen, visit, since, copy, hasLeft, attempted, starting>>
          /\ get' = get \/ get'.step = "sent"
      BY <1>2, <1>3, <1>5 DEF RejoinAnswered, invalidate, fetchLobby, NoGet, refVars
    <2>2. NoEndKnown'
      BY <1>1, <2>1, Owed DEF NoEndKnown
    <2>3. HomeInOrder'
      BY <1>1, <2>1, Owed DEF HomeInOrder, Leaves, heeded
    <2>4. VisitInOrder'
      <3>1. Pending("leave") => Pending("leave")'
        BY <2>1 DEF Pending
      <3>2. Asking => turnedAway' \/ Asking'
        BY <2>1 DEF Asking
      <3> QED
        BY <1>1, <2>1, <3>1, <3>2, Owed DEF VisitInOrder
    <2> QED
      BY <2>1, <2>2, <2>3, <2>4 DEF SeatInv
  <1>6. ASSUME StartAnswered(c) PROVE FALSE
    BY <1>6, Owed DEF StartAnswered, NoEndKnown
  <1>7. CASE LeaveAnswered(c)
    <2>1. c.kind \in Leaves /\ c.step = "ok" /\ goTo("home", calls \ {c}) /\ get' = get
      BY <1>3, <1>7 DEF LeaveAnswered, Leaves
    <2>2. Me \notin Seated /\ \A d \in calls : d.kind \in Joins => d.step # "sent"
      BY <2>1, Owed DEF CallsInOrder, Crossing
    <2>3. CASE screen = "lobby" /\ leaveTo("home", calls \ {c})
      BY <1>1, <2>1, <2>2, <2>3, LeavesHome
    <2>4. CASE screen # "lobby" /\ screen' = "home" /\ underWay(calls \ {c})
      <3>1. calls' = calls \ {c} /\ CallsInOrder' /\ starting' = starting
        BY <1>2, <2>1, <2>4 DEF goTo, refVars
      <3>2. NoEndKnown'
        BY <1>1, <2>1, <2>4, <3>1, Owed DEF NoEndKnown
      <3>3. HomeInOrder' /\ VisitInOrder'
        BY <1>1, <2>2, <2>4, <3>1 DEF HomeInOrder, VisitInOrder
      <3> QED
        BY <3>1, <3>2, <3>3 DEF SeatInv
    <2> QED
      BY <2>1, <2>3, <2>4 DEF goTo
  <1> QED
    BY <1>4, <1>5, <1>6, <1>7 DEF Answer

\* The connection is made; the page may fetch its copy again.
LEMMA LinkOrderly ==
    ASSUME IInv, SeatInv, Connect \/ Register \/ HearOwnTopic, ~Excused
    PROVE  SeatInv'
  <1>1. /\ UNCHANGED <<screen, calls, visit, since, copy, feed, hasLeft, attempted, starting>>
        /\ turnedAway' = turnedAway /\ Seated' = Seated
    BY DEF Connect, Register, HearOwnTopic, linkOnly, serverVars, refVars, noteVars, Seated
  <1>2. get' = get \/ get'.step = "sent"
    BY DEF Connect, Register, HearOwnTopic, invalidate, fetchLobby, NoGet
  <1>3. NoEndKnown'
    BY <1>1, <1>2, Owed DEF NoEndKnown
  <1> QED
    BY <1>1, <1>3, FrameOrderly

LEMMA NextOrderly == IInv /\ SeatInv /\ [Next]_vars => SeatInv'
  <1> SUFFICES ASSUME IInv, SeatInv, [Next]_vars, ~Excused' PROVE SeatInv'
    BY DEF SeatInv
  <1>1. CASE UNCHANGED vars
    <2>1. /\ ~Excused /\ Seated' = Seated
          /\ UNCHANGED <<screen, calls, visit, since, copy, get, feed, hasLeft, attempted,
                         starting, turnedAway>>
      BY <1>1 DEF vars, serverVars, pageVars, noteVars, Excused, Seated
    <2>2. NoEndKnown'
      BY <2>1, Owed DEF NoEndKnown
    <2> QED
      BY <2>1, <2>2, FrameOrderly
  <1>2. CASE Next
    <2>1. ~Excused
      BY <1>2, ExcusedStays
    <2>2. ASSUME NEW u \in People, OtherMember(u) PROVE SeatInv'
      BY <2>1, <2>2, OtherMemberOrderly
    <2>3. ASSUME NEW c \in calls, Serve(c) \/ Answer(c) PROVE SeatInv'
      BY <2>1, <2>3, ServeOrderly, AnswerOrderly
    <2> QED
      BY <1>2, <2>1, <2>2, <2>3, GetOrderly, MessageOrderly, VisitOrderly, ClickOrderly,
         LinkOrderly DEF Next
  <1> QED
    BY <1>1, <1>2

------------------------------------------------------------------------------
(* The theorems.                                                           *)

\* The lobby that was just created allows no start.
LEMMA Initially == Init => IInv
  <1> SUFFICES ASSUME Init PROVE IInv
    OBVIOUS
  <1>1. host \in People /\ store = AddPlayer({}, host)
    BY DEF Init
  <1>2. store \in Rosters
    BY <1>1, RosterTypes DEF Rosters
  <1>3. ~AllReady(store)
    BY <1>1 DEF AllReady, AddPlayer
  <1>4. /\ get \in [step : {"none", "sent"}, roster : {NoLobby}]
        /\ feed = <<>> /\ copy = NoCopy /\ calls = {} /\ visit \in Nat /\ since = visit
        /\ game = NoGame
    BY DEF Init, NoGet
  <1>5. TypeOK
    BY <1>2, <1>4 DEF TypeOK
  <1>6. CopiesVetted
    BY <1>3, <1>4 DEF CopiesVetted, Vetted, VettedFeed, VettedStarts
  <1> QED
    BY <1>4, <1>5, <1>6 DEF IInv, StartedTogether

LEMMA Always == IInv /\ [Next]_vars => IInv'
  <1> SUFFICES ASSUME IInv, [Next]_vars PROVE IInv'
    OBVIOUS
  <1>1. ASSUME NEW u \in People, OtherMember(u) PROVE IInv'
    BY <1>1, OtherMemberKeeps
  <1>2. ASSUME NEW c \in calls, Serve(c) \/ Answer(c) PROVE IInv'
    BY <1>2, ServeKeeps, AnswerKeeps
  <1>3. CASE ServeGet \/ GetSubscribes \/ ReceiveGet
    BY <1>3, GetKeeps
  <1>4. CASE ReceiveMessage
    BY <1>4, MessageKeeps
  <1>5. CASE OpenPage \/ JoinFromList \/ Navigate \/ Reload
    BY <1>5, VisitKeeps
  <1>6. CASE handleToggleReady \/ handleStartGame \/ handleLeaveLobby
    BY <1>6, ClickKeeps
  <1>7. CASE Connect \/ Register \/ HearOwnTopic
    BY <1>7, LinkKeeps
  <1>8. CASE UNCHANGED vars
    BY <1>8, QuietStep, CallsStay DEF vars, serverVars, pageVars
  <1> QED
    BY <1>1, <1>2, <1>3, <1>4, <1>5, <1>6, <1>7, <1>8 DEF Next

\* The variables keep their types, for any people, requests and inputs.
THEOREM TypeCorrect == Spec => []TypeOK
  <1>1. IInv => TypeOK
    BY DEF IInv
  <1> QED
    BY Initially, Always, <1>1, PTL DEF Spec

\* However old the copy the host starts the game with, its players once were
\* the stored roster, and all of them ready (handleStartGame).
THEOREM GameOfTheReady == Spec => []StartedTogether
  <1>1. IInv => StartedTogether
    BY DEF IInv
  <1> QED
    BY Initially, Always, <1>1, PTL DEF Spec

\* Whatever is served, answered and shown in whatever order, the seat is kept
\* in step with the page until something excuses it.
THEOREM SeatInvariance == Spec => []SeatInv
  <1>1. Init => SeatInv
    <2> SUFFICES ASSUME Init PROVE SeatInv
      OBVIOUS
    <2>1. /\ calls = {} /\ feed = <<>> /\ copy = NoCopy /\ ~hasLeft /\ ~attempted /\ ~starting
          /\ screen \in {"home", "lobby"} /\ get.step \in {"none", "sent"}
      BY Zenon DEF Init, NoGet
    <2>2. screen = "home" => Me \notin Seated
      <3> SUFFICES ASSUME screen = "home" PROVE Me \notin Seated
        OBVIOUS
      <3>1. host # Me /\ host \in People /\ store = AddPlayer({}, host)
        BY DEF Init
      <3>2. Users(store) = Users({}) \union {host}
        BY <3>1, RosterUsers DEF Rosters
      <3> QED
        BY <3>1, <3>2 DEF Seated, Users
    <2> QED
      BY <2>1, <2>2
         DEF SeatInv, NoEndKnown, CallsInOrder, HomeInOrder, VisitInOrder
  <1>2. Spec => []IInv
    BY Initially, Always, PTL DEF Spec
  <1> QED
    BY <1>1, <1>2, NextOrderly, PTL DEF Spec

\* Once nothing is under way, whoever left the page has no seat, and whoever
\* is on it with an up-to-date copy has one or was turned away, unless a join
\* of theirs was to be served while a leave was to be answered: for any number
\* of requests, reloads and other members ($lobbyID.tsx: rejoin effect,
\* leaveLobbyQuietly, handleLeaveLobby).
THEOREM SeatGoesWithThePage == Spec => []SeatFollowsPage
  <1>1. IInv /\ SeatInv => SeatFollowsPage
    <2> SUFFICES ASSUME IInv, SeatInv, Quiet, ~crossed, game = NoGame
                 PROVE  /\ screen = "home" => Me \notin Seated
                        /\ screen = "lobby" /\ copy = store => Me \in Seated \/ turnedAway
      BY DEF SeatFollowsPage
    <2>1. store \in Rosters \union {NoLobby} /\ copy \in Rosters \union {NoCopy}
      BY DEF IInv, TypeOK
    <2>2. CASE store = NoLobby
      BY <2>1, <2>2 DEF Seated, Rosters
    <2>3. CASE store # NoLobby
      <3>1. HomeInOrder /\ VisitInOrder
        BY <2>3 DEF SeatInv, Excused
      <3>2. calls = {} /\ Seated = Users(store) /\ store # NoCopy
        BY <2>1, <2>3 DEF Quiet, Seated, Rosters
      <3> QED
        BY <3>1, <3>2 DEF HomeInOrder, VisitInOrder, Pending, Asking
    <2> QED
      BY <2>2, <2>3
  <1>2. Spec => []IInv
    BY Initially, Always, PTL DEF Spec
  <1> QED
    BY <1>1, <1>2, SeatInvariance, PTL
=============================================================================
