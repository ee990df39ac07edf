# Dots and Boxes: a TLA+ model of the game server

This directory holds TLA+ modules for the multiplayer Dots and Boxes program in
this repository (a Go backend under `internal/` and `cmd/`, a React front end
under `web/src/`), the TLC configurations that check them on small instances,
and TLAPS proofs for every value of the constants. Paths below are relative to
the root of the repository.

## 1. The system

| part | where | state | operations | hard because |
|---|---|---|---|---|
| Game aggregate | `internal/game/game.go`, `domain_events.go`, `internal/events/aggregate.go` | grid (each inner line stored twice), owners, scores, turn, winner, version | `ApplyMove`, `PassTurnOnTimeout`, `Forfeit`, replay by `applyEvent` | two copies of a line, two boxes closed by one line, ties, a score kept beside the owners |
| Event store and projection | `internal/game/pgGameRepository.go`, `initdb/schema.sql` | `game_events`, `games`, `game_details` | `Create`, `LoadEvents`, `AppendEvents`, `UpdateProjection` | no lock, no version check, two transactions, ties in `ORDER BY version` |
| Game service | `internal/game/gameService.go`, `gameHandler.go` | goroutines with a private copy of the game | `CreateGame`, `MakeMove`, `PassTurnOnTimeout`, `ForfeitGame` | load, append, project, clock, publish are separate steps |
| Turn clock | `internal/game/timer.go` | a timer per game in memory, grace timers per user | `StartTimer`, `SwitchTurn`, `StopTimer`, `tick`, `HandleDisconnect`, `HandleReconnect` | the deadline is read under a lock and used after it; `AfterFunc` against `Stop` |
| Bot games | `internal/game/bot.go` | games in a map behind one mutex | `PlayBotTurn`, `withGameExclusive` | sleeps unlocked; several bot goroutines; never tells the clock |
| Bot choice | `internal/game/bot_ai.go` | none (pure) | `chooseBotMove` | a second copy of the rules on simulated grids |
| Lobbies | `internal/lobby/`, `internal/infra/redisLobbyRepository.go` | one JSON value per lobby in Redis | create, join, leave, ready, delete | read-modify-write without a lock or `WATCH` |
| WebSocket hub | `internal/websocket/` | connections, sessions per user, subscriptions, channels | `Manager.Run`, `Connection.Send`, readers and writers | unbuffered channels read only by the sender's own loop |
| Event bus | `internal/infra/redisEventBus.go` | Redis pub/sub | publish, subscribe | at most once; ordered per channel only |
| Chat | `internal/chat/`, `connection.go` | messages | save worker, rate limit | saved asynchronously |
| Metrics | `internal/metrics/` | gauges | counts events | counts what may be announced twice or never |
| Users, login, sessions | `internal/user/`, `internal/auth/`, `internal/httpsession/`, `web/src/AuthContext.tsx`, `web/src/api/fetchUser.ts` | accounts, the session cookie, the query `["me"]` and `sessionStorage` of each tab | guest sign-in, sign-out, reload, expiry | the cookie is shared by the tabs, what they show is not |
| Statistics | `internal/stats/` | none | SQL queries | nothing |
| Game page | `web/src/routes/game/$gameID.tsx`, `lib/optimisticGameGrid.ts` | cached game, optimistic line | click, rollback, feed, refetch | four writers, none of which looks at the age of a copy |
| Lobby page | `web/src/routes/_authenticated/lobby/$lobbyID.tsx`, `components/Lobby.tsx` | cached roster, three refs | start, ready, leave, rejoin, leave on unmount and unload | requests that outlive the page; a cached roster |
| Replay page | `web/src/routes/_authenticated/replay/$gameID.tsx` | frames, the step shown | `buildReplayStates`, playback | guesses where a command ends; another copy of `applyEvent` |
| WebSocket client | `web/src/WebSocketContext.tsx` | socket, reconnect timer, listeners | connect, reconnect after 1 s, cleanup | events of a socket that was given up; events missed while away |

HTTP requests and the clock call the game service; the service writes Postgres
and publishes on the Redis bus; the hub, the clock, the chat worker and the
metrics subscribe to the bus; the hub forwards events to browsers.

What makes each part correct:

- **Game aggregate.** The two copies of a line agree; a box has an owner exactly
  when it is complete; scores count boxes; a full board is a finished game with
  the sole leader, or nobody, as winner; a forfeit makes somebody else win;
  there is always a legal move until the end; in short, it plays the rules.
- **Game service, event store, projection.** Requests that do not overlap leave
  log, query tables, feed and clock in agreement. Requests that do overlap must
  at least never produce an owned box with a side missing or an early end.
  Once an ending is committed, nothing more is accepted, and it is announced.
- **Bot games and turn clock.** While it is a bot's turn some goroutine drives
  the bots; no turn lasts for ever, nor on an idle machine longer than its
  limit; a finished game is left alone, announced, and its clock removed; grace
  periods run exactly for absent players.
- **Lobbies.** A stored roster respects its limit, holds nobody twice and is
  never empty; whoever was told to have joined is in it; members and the
  metrics see what is stored.
- **WebSocket hub.** A user without a session is known to be away; no topic is
  subscribed twice; who connects comes to hear its topics; broken and lagging
  connections are dropped.
- **Bot choice.** A bot takes a legal line that captures most, and its copy of
  the rules foresees what the rules then do.
- **Game page.** No line is shown that the server refused; when all is quiet the
  page shows the newest state; the end of the game gets through.
- **Lobby page.** Who is on the page has a seat, who has left has none; a game
  starts only for people who all were ready, and takes them along.
- **Replay page.** The frames are boards that stood between two commands, none
  is missing, and the controls stay within them.
- **Sessions and WebSocket client.** A tab shows whom the server takes it for;
  a signed-in tab has, or comes to, a connection of that user.

## 2. Plan

| order | module | state |
|---|---|---|
| 1 | `Grid`, `GameRules`, `GameAggregate` | done: the aggregate; proofs, also of the two refinements, in `GameAggregateProofs` |
| 2 | `GameService` | done: stored games; proofs, also for a goroutine that is alone, in `GameServiceProofs` |
| 3 | `TurnGame`, `BotGame` | done, proofs in `BotGameProofs` |
| 4 | `Roster`, `Lobby` | done, proofs in `LobbyProofs` |
| 5 | `WsHub` | done, proofs in `WsHubProofs` |
| 6 | `BotChoice`, `BotForesight` | done, on top of `GameAggregate`; proofs of the first in `GameAggregateProofs` |
| 7 | `Replay` | done, on top of `GameAggregate`; proofs in `GameAggregateProofs` |
| 8 | `GamePage` | done: one page, the game's states, the hub as the page sees it; proofs in `GamePageProofs` |
| 9 | `LobbyPage` | done, on top of `Roster`, proofs in `LobbyPageProofs` |
| 10 | `Session` | done: tabs, cookie, sockets, proofs in `SessionProofs` |
| 11 | chat, the connections gauge, the list of lobbies on `/play` | open |

Every safety property of a passing run is proved, but for `ForesightIsExact`,
which compares two recursive searches; section 5 says what remains for TLC.

## 3. Modules

`Grid`, `GameRules` and `Roster` are pure operators; every other module is a
state machine. `GameAggregate` and `GameService` extend `GameRules`; `Replay`,
`BotChoice` and, through it, `BotForesight` extend `GameAggregate`;
`BotGame` extends `TurnGame`, a reduction of the game that `GameAggregate` is
shown to implement, so what `BotGame` shows for every choice of moves holds for
the real rules. `Lobby` and `LobbyPage` share `Roster`: the first has requests
that overlap on the server, the second a page and its requests over time.

- **`Grid`**: the board. `edges[cell]` is the set of sides recorded in a box;
  `setEdge` writes both copies, as `game.go` does.
- **`GameRules`**: `applyEvent` and the commands as functions from a game to a
  game and to the events they raise. `ApplyMove` is drawing, claiming the moved
  box and its neighbours, settling the turn and ending the game, in the code's
  order.
- **`GameAggregate`**: one game in memory under a lock (`withGameExclusive`):
  one action per command. `DotsAndBoxes` is its abstract specification: one set
  of lines on paper, no score, no second copies.
- **`GameService`**: one stored game. `rows` is the table `game_events` in
  insertion order, `proj` the tables `games` and `game_details`, `clock` the
  entry of the turn clock, `feed` the last published state. A goroutine goes
  through the stages load-and-apply, append, project, switch or stop the clock,
  publish, complete; each is an action, since no lock is held across them.
  `LoadedFrom` returns every replay `ORDER BY version` allows. Database and bus
  calls may fail; `Restart` forgets goroutines and clock. `MCGameService` holds
  the openings the runs start from.
- **`BotGame`**: a game of one human against bots. A command changes the game in
  one action, under `BotService.mu`; what it does after unlocking (clock, bots,
  announcements) are further actions. The ticker is a goroutine of its own.
  Time is what is left of each timer; `Elapse` may happen at any moment. The
  history variable `delayed` remembers whether time ever passed while some
  goroutine could have run, and `spent` how long the present turn has lasted
  before that.
- **`Lobby`**: one lobby as a value in Redis that each request reads, changes in
  private and writes back. Each Redis call may fail: a read, a save whose answer
  is lost though it took effect (`StoreAnswerLost`), a publish, whose error the
  code ignores (`PublishUpdatedFails`, `PublishGaugeFails`), and the read after a
  join or ready request was saved (`RefetchFails`). `seated` is what the
  acknowledged requests promise. The other histories name the exceptions one by
  one: whose seat an overlap or a wrong error left in doubt (`doubtful`), whether
  an overlap or a lost notice may have misled the members (`muddled`) or the
  metrics (`miscounted`). Whom a request that was served alone (`alone`) is about
  is out of doubt again.
- **`WsHub`**: `Manager.Run` at its `select`, or inside a broadcast (`sending`,
  `dropping`); readers, writers and opening subscriptions of each connection;
  `SubscribeUser` outside the hub; the goroutines of bus subscriptions. A send
  on an unbuffered channel is one action with its receive. `heard` is who was
  last published as connected. `MCWsHub` says whose the connections are.
- **`BotChoice`**: the operators of `bot_ai.go` on the games of
  `GameAggregate`. `movePool` is the set of moves `chooseBotMove` may return:
  noise and softmax give every candidate some weight.
- **`BotForesight`**: the search of `bot_ai.go` for what a quiet line would give
  away, in a module of its own since it is RECURSIVE. `MostTaken` is the
  definition the bot's greedy simulation is compared with: the best order of
  captures by the rules of the aggregate, found by trying all.
- **`Replay`**: a recorded game that still goes on by the commands of
  `GameAggregate`, and the page that makes frames of its events.
  `ReplaySpec` starts it from an opening. `buildReplayStates` follows the loop of the page, event
  by event, with its `hasPendingMove`; `reached` collects the boards that really
  stood between two commands. `MCReplay` opens games close to their end.
- **`GamePage`**: the page's cache and its four writers. `hist` holds all states
  the server had, so a copy is a place in it and "older" is a comparison. The
  connection loses what is under way on it; `page:join`, the subscription it
  asks for and the one that `GetGameState` asks for are separate steps. The hub
  may drop a state on the way to its room (`DropState`), and a refetch may fail
  and leave the old copy (`FetchFails`). The history `overtaken` says that an older
  copy has replaced a newer one, `missed` that a state has gone past the page:
  broadcast before the subscription was in force, dropped, or left out by a
  failed refetch. Both end when the page shows the newest state.
- **`LobbyPage`**: one user, who opens, leaves, reloads and reopens the page
  while requests of earlier visits are still under way; other members act on
  the server directly. A request remembers its mount (`visit`), as the closures
  of the page do; the refs `hasLeft`, `attempted`, `starting` start anew with
  each mount, the cached roster `copy` does not. The answer to a request
  navigates from whatever is shown by then (`goTo`), unless the page was loaded
  again meanwhile (`since`): then nobody waits for it. A reload also may cut
  requests off before they are served. `link` is the connection, made anew after
  a reload: `ServeWs` registers it, and only then subscribes it to the user's own
  topic; `SubscribeUser` finds only registered connections.
- **`Session`**: tabs with the shared cookie, each with its cached user,
  `sessionStorage`, socket, reconnect timer and page. A socket that was closed
  by the cleanup stays in `wires` until its `onclose` has run (`cancelled`).

An operator commented "Mutant" is a plausible mistake in the definition after
it. No specification uses it: it is there to show that a property notices.

## 4. Runs

| run | instance | states | shows |
|---|---|---|---|
| `aggregate` | 2 x 2 board, 3 players | 62 000 | invariants of the aggregate, refinement of `DotsAndBoxes` and of `TurnGame`; what the bot would choose and foresee in each game (the module is `BotForesight`, which adds no step to the aggregate) |
| `service_serial` | 1 box, one goroutine, 6 requests, 1 fault, 1 restart | 435 000 | everything agrees when requests do not overlap (`AllInSync`) |
| `service_race` | 2 x 2 board with two lines left, two goroutines, 3 requests, 1 restart | 189 000 | what survives overlapping requests; endings are announced |
| `service_scores` | 1 box half drawn, two goroutines | violation | a box is scored twice |
| `bot` | 3 seats, 3 lines, clock and two goroutines, limits 2/1/1 | 576 000 | bots are always driven, turns end, finished games stay and are announced |
| `lobby` | 3 people, limit 2, two requests at a time, 5 in all, 1 fault | 2 290 000 | stored rosters are sound; seats and news are as told, but for who is in doubt |
| `hub` | two tabs of one user, two topics, queues of 2/1/1, 2 events, 1 fault | 294 000 | presence, subscriptions, cleanup |
| `hub_laggard` | one connection each of two users, queues of 2/2/1 | violation | the hub waits for itself |
| `replay` | 2 x 2 board from two openings with 3 and 2 lines left, 1 timeout | 79 000 | the film is the game; the step moves along it; playback ends |
| `game_page` | 2 lines, 1 timeout, 1 fault | 1 600 000 | no phantom lines; why a page may be stale; the end is shown |
| `lobby_page` | lobby for two, two others, 3 inputs and 1 of their requests, or 2 and 2 | 1 139 000 | seat and page go together; fair start; nobody left behind |
| `session` | two tabs, 3 accounts, 4 inputs, 1 fault | 331 000 | identity, sockets, getting a connection |

**Bounds.** A 2 x 2 board is the smallest with shared lines and with a move that
closes two boxes; three players are the fewest among whom two can tie behind a
leader; every order of its 12 moves, passes and forfeits is explored. The races
need two goroutines, a third request to observe the damage and the last two
lines of a board; longer openings add nothing to them, since nothing in the
service looks at more than the loaded game. In `BotGame` three lines let each
kind of player keep and pass the turn; a goroutine that the ticker starts waits
for a free slot of `Workers`, which is the bound on simultaneous goroutines. In
`Lobby`, limit 2 makes a full lobby out of two joins, and five requests suffice to
delete, resurrect and refill it; one fault leaves every later request to show
what became of it. In `WsHub` queues of length 1 or 2 fill within
two events. In `Replay` the first opening lets one turn
take all boxes, so that no turn is passed between the moves; in the second a
line closes two boxes; both are followed by timeouts and forfeits. In `GamePage`
two lines give the player and the others one each, or one of them both, and one
fault is enough to lose an answer, a connection, a state or a refetch, or to
overtake by one on focus. In `LobbyPage` an input
counts as much as two requests of others (`MaxEffort`). With one of these, which
fills the lobby or empties it, the user has three inputs: to click on leave, say,
to go home and to open the page again before the answer comes. With two of them
either host can start a game: two inputs of the user (be ready, and start, or open
the page first) and two requests of the other player (join or be ready, start),
whose page then deletes the lobby. An old start that is answered to a page opened
again lies beyond this; the theorems hold for any bound. In `Session`
two tabs are the fewest that share a cookie. Every bound is a constant
(`MaxRequests`, `MaxFaults`, `MaxRestarts`, `MaxEvents`, `MaxPasses`,
`MaxOthers`, `MaxEffort`, `MaxInputs`, `MaxAccounts`, `Workers`), except that `spent` stops counting one
above the limit.

Runs in which the program may stop do not check for deadlock: a finished game
accepts nothing, and the bounds end a behaviour. What must happen is stated as
liveness instead.

**Fairness.** `GameService`: each goroutine's `Work` is weakly fair, because
goroutines are scheduled and calls return; clients need not send anything and
nothing has to fail. `BotGame`: the steps of workers and of the ticker are
weakly fair, and so is time; the human need not move, leave or come back.
`WsHub`: `Run`, bus subscriptions that do not fail, and the blocked steps of
connections are weakly fair; a closed socket ends its reader and its writer
(the deferred `Close`). Publishing, page changes and closing are not. `Lobby`
has no liveness property and no fairness. `Replay`: a started interval fires
until it is cleared; nobody has to press anything. `GamePage`: the hub and the
handlers run, and the browser delivers messages and answers, notices a close and
connects again; nobody moves or clicks, nothing is lost and nothing refetched on
focus out of fairness. `LobbyPage`: requests are served and answered, messages
delivered, and a connection is made, registered and subscribed, as `ServeWs`
does in one go, all under one weak fairness; the user and the other members do as they like. `Session`: each
handshake is answered, each close event, timer and request comes up; signing in
or out, expiry and lost connections are not assumed.

## 5. Proofs

All proofs hold for every value of the constants that satisfies the named
`ASSUME`s, which the runs evaluate. Beside sizes and types these are: names that
stand for nothing (`NoSeat`, `NoLobby`, `NoCopy`, `NoGame`) are no value of the
kind they are missing from (`NamesAssumption`, `NoLobbyAssumption`,
`NoneAssumption`), bounds are numbers (`BoundsAssumption`), and openings can be played: that of a
stored game draws no line twice and leaves the game going on
(`OpeningAssumption`, `OpeningsAssumption`).

- **`GameAggregateProofs`** (any board size, 2 to 4 players).
  - `TypeCorrect`, `LinesAgree`, `BoxesAccounted`, `ScoresRight`, `EndedRight`,
    `AlwaysAMove`, `ForfeitRight`. The invariant is the conjunction of the types
    and of all these facts, with a score equal to the number of boxes owned.
    Lemmas first say what each helper does to a grid or a game: crossing a line
    twice leads back, two sides of a box never lead to the same neighbour,
    `setEdge` keeps copies equal, only the moved box and its neighbours can become
    complete. They need finite cardinalities: a box that is claimed adds one to
    one count. The winner is right because the scan's first leader is the only one
    unless a later seat equals it.
  - `PlaysTheRules`: the aggregate implements `DotsAndBoxes`, step by step. A line
    is drawn on paper exactly when a box beside it records it
    (`RecordedIffDrawn`), so a move draws one line, and the boxes it completes are
    those the rules close. That no step decides an unfinished game needs one more
    invariant, `Undecided`.
  - `IsATurnGame`: the aggregate implements `TurnGame`, so what `BotGame` assumes
    of the game is so. The lines that are left are counted: all lines are
    2n(n + 1) (`CountLines`), a move takes one away (`MoveTakesALine`), and no line
    is left exactly when the board is full (`FullWhenDrawn`).
  - `BotChoosesRight`: in every game the aggregate reaches, the bot has a line, it
    is legal, none captures more, and none is a candidate under both its names
    (`BotTakesTheMost`). The bot's copy of the rules is shown to draw and close what
    the rules do. A line has two names exactly when it lies between two boxes, and
    `physicalEdgeKey` gives both the same key and different lines different ones.
  - `ReplayShowsTheGame`, `ReplayStaysOnFilm`: `FilmIsTheGame` and `StepOnFilm`
    of `Replay`, for any openings and timeouts. The page's loop over the events is a
    fold, and a fold over a longer log goes on from the fold over the shorter one.
    So `FilmInv` says that the loop, run over all that is recorded, has caught up
    with the game: its frame is the board as it is, and is either the last one pushed
    already or pending and one line ahead of it. Each command adds events that bring
    the loop from one such place to the next (`FilmInvariance`). A page that has
    fetched less has a film that is no longer, so its step stays on the next; each
    action then moves the step to a frame (`StepInBounds`).
- **`GameServiceProofs`** (any board, opening, goroutines, requests, faults and
  restarts). `TypeCorrect`, `OwnedAreComplete`, `EndedAreFull`, `OnlyOverlapsClash`,
  `FinishedIsFinished`, `LoneAgrees`. Overlapping commands write rows that contradict each other,
  and a load may apply rows of one version in either order, so nothing follows from
  the game loaded before. The invariant is about the log, and about every batch of
  events still to be appended: each event rests on events before it, a completed box
  on its four sides drawn, an end on all boxes completed. `LoadTells` then says of
  any replay of such a log what it shows. What one command adds comes from the
  lemmas of `GameAggregateProofs`, instantiated for the loaded game. `replay`,
  `LoadedFrom` and the opening are recursive; what holds of all their values is
  proved by counting up (`CountingUp`: a set of numbers with 0 and every successor
  is all of them, from the cardinality of its initial segments), since the
  library's induction rule cannot be applied by the provers here.
  `LoneAgrees` states `AllInSync` for one goroutine (`Workers = {w}`), with any
  number of requests; with two it is false, as `service_scores` shows. Rows that
  only one goroutine wrote have the versions 1, 2, 3 ... (`Numbered`), so they load
  in one way only (`SerialLoads`), and replaying the events of a command gives the
  game the command made (`MoveReplays`, `OthersReplay`). `Orderly` says that, with
  the counting of boxes, of the log and of what is about to be appended; `Synced`
  says at each stage of a request which of tables, feed, clock and notices are new
  already and which still old, as long as nothing failed and nothing restarted. A
  forfeit stops the clock before it publishes, a last move after.
- **`BotGameProofs`** (any seats, lines, goroutines and timers).
  `TypeCorrect`, `BotsAlwaysAttended`, `GraceRight`, `EndedStays`, `TurnsInTime`.
  The game being attended is not inductive alone: a goroutine that saw the end of
  the game will not start the bots, so the invariant adds that what goroutines
  remember of the end is still true (`OverIsEnded`), which in turn needs that ended
  games stay. For the time of a turn `TimeInv` adds that what was spent and what
  the clock leaves never exceed the limit, that the clock runs while the game
  does, and that whoever is about to renew it does so at the start of a turn.
- **`LobbyProofs`** (any people, limit, goroutines). `TypeCorrect`,
  `RosterAlwaysSound`, `SeatsAsAcknowledged`, `NewsAsStored`. As updates get lost,
  soundness cannot follow from the previous roster: the invariant says it of every
  copy about to be saved. For the last two `SyncInv` says the same of seats: in the
  store and in every copy under way those are seated who were told so, for all
  who are not in doubt, since a request that reads while another is served leaves
  only that one's user, and its own, in doubt. Feed and gauge lack what is about
  to be published, or an overlap or a lost notice is noted.
- **`WsHubProofs`** (any connections, owners, topics, capacities).
  `TypeCorrect`, `AbsenceIsHeard`, `OneSubscription`. A connection is registered
  exactly from the start to the end of its reader's life, and only a reader
  announces presence; the subscription flag outlives the room.
- **`GamePageProofs`** (any board, timeouts, faults). `TypeCorrect`,
  `CopiesStay`, `NoLineStaysBehind`, `StaleOnlyWithCause`. Lines are only added to
  the stored game, so every copy of it, however old, is part of it. The copy a
  rollback brings back was taken when the click was made; the page was then waiting
  for no other, so it held no line of the player's own. For the last one
  `NewsUnderway` follows the newest broadcast: shown, at the end of the feed, in a
  fetch, or about to be fetched, unless an older copy replaced it or it went past
  the page, which every drop and every failed refetch that matters does note.
- **`LobbyPageProofs`** (any people, hosts, limits). `TypeCorrect`,
  `GameOfTheReady`, `SeatGoesWithThePage`. The host's copy may be old, so the
  invariant speaks of every roster on its way to the page (stored, read, in the
  feed, shown) and of every start under way: each that would allow a start has been
  stored. What has been stored only grows. For the seat, `SeatInv` names the request
  that stands for a difference between seat and page: at home a leave not served
  yet, or a join from the list whose answer opens the page and is still waited for;
  on the page its own join or leave. An old leave whose answer takes the user off a
  page mounted again does no harm: while it was out, no join could be served without
  crossing it. None of it holds after a join to be served and a leave to be answered
  have crossed, which is the exception `SeatFollowsPage` makes.
- **`SessionProofs`** (any tabs, accounts, inputs, faults). `TypeCorrect`,
  `IdentityAgrees`, `NeverMute`. The first needs the id of a new socket to be
  free, by counting those in use, so that no socket of an earlier sign-in can be
  taken for it. The second strengthens "a socket or a timer" to exactly one of
  the two: a timer and no socket still wanted, or one, the one the tab knows.

Only model-checked: the liveness properties, which are out of reach of the prover
(`EndIsAnnounced` of `GameService` and of `BotGame`, `TurnsEnd`, `JoinersAreHeard`,
`HalfClosedIsUnregistered`, `PlaybackEnds`, `EndIsShown`, `NobodyLeftBehind`,
`SignedInGetsThrough`), and `ForesightIsExact`: what a recursive search over games
computes for all boards would need an induction over games, and no module with
proofs may use RECURSIVE operators. It is checked in every game of a 2 x 2 board.

## 6. Where the code differs from what it says

1. `service_scores`: `MakeMove` has neither lock nor version check, so the last
   line of a box submitted twice counts twice (`gameService.go:194`).
2. `hub_laggard`: `Send` runs in the hub's goroutine and sends on a channel that
   only this goroutine receives from (`connection.go:69`).

The models also show the following, which no run of its own records.

- **Stored games.** Versions stay unique, and the projection the newest state,
  only without overlap: versions are stored and never compared, and projection
  and feed are written in another order than the log. A forfeit or a timeout
  takes no lock either. A projection write that fails, or that crosses a later
  one, leaves the query tables behind. A move that arrives between the
  announcement of a game and the start of its clock switches no clock
  (`gameService.go:104`), and the first player's time goes on. A process that
  stops after the last move was appended never announces the end.
- **Turn clock.** Bots never call `SwitchTurn`, so a human can inherit an old
  deadline and lose a turn to it (`bot.go:200`, `timer.go:126`). When a bot ends
  the game nobody removes its timer, which goes on ticking (`bot.go:212`). A
  grace callback that has started forfeits a user who is back (`timer.go:197`).
  More than one goroutine may announce the end of a bot game (`bot.go:213`).
- **Lobbies.** Of two joins that overlap, both answered with success, one is
  lost: `Save` overwrites what another request has saved
  (`redisLobbyRepository.go:57`). A join that was saved is answered with 500 when
  the lobby cannot be read again (`lobbyHandler.go:172`). When a publish fails the
  members keep the old roster, or the gauge counts a deleted lobby, until the next
  notice, or for good (`lobbyService.go:94`, `:124`). Events that go to `global:lobbies` carry the
  topic `lobby:<id>`, so members get each twice. `CreateGame` asks neither
  whether the lobby exists nor who sits in it.
- **Hub.** A connection whose subscription is still queued when it unregisters
  is put into a room afterwards (`handler.go:115`). `page:leave` of one tab marks
  a user as gone who plays on in another (`connection.go:129`).
- **Lobby page.** A leave and a rejoin that cross are served in either
  order: without the condition `~crossed`, `SeatFollowsPage` fails in both
  directions. It takes no slow network: after a click on leave the feed may show
  the page a roster without the user before the answer comes, the page then
  rejoins (`$lobbyID.tsx:237`) by a request that nobody waits for (`:245`), and the
  user goes home with a seat, in a lobby where nobody can make them ready. The answer to an
  old leave takes the user off the page they have opened again (`:389`), which
  leaves once more; that of an old start takes them to the game (`:296`). A player
  whose connection is not on its own topic yet, right after a reload, misses
  `game:new` unless the lobby's topic brings it; one whose page fetches the lobby
  after the host has deleted it is sent to `/play` instead of to the game. The page does not heed `lobby_deleted`. When the host leaves,
  `host_id` stays, and no remaining player can start the game.
- **Game page.** Without `overtaken` and `missed`, `StaleHasCause` and
  `EndIsShown` fail: the rollback (`$gameID.tsx:391`), the answer and a refetch
  may put an older copy over a newer one, and no copy says how old it is; a
  state that is broadcast after the refetch has read the game and before the
  subscription is in force is missed, and so is one that the hub drops because
  its channel is full (`handler.go:146`) or that only a refetch that failed would
  have brought (`$gameID.tsx:190`). Nothing but a later state repairs it.
- **Sockets.** The `onclose` of a socket that was given up at a sign-out clears
  the reference to the next one (`WebSocketContext.tsx:85`), which then stays
  open, unused by `send`, and its `onopen` may clear the next one's timer.
  A second guest sign-in in one tab keeps the first one's socket. The cleanup
  at a sign-out clears the subscribers of pages that stay mounted, although a
  comment (`WebSocketContext.tsx:86`) asks that they survive.
- **Replay.** A key pressed while the events are loading sets the step to -1;
  `StepOnFilm` allows for that and for no other way off the film, and the next
  tick or key leads back.
- **Chat**, read rather than modelled: the text is escaped at the socket and
  once more before it is stored, and its length is measured again after the
  first time, so history and live text differ, and some messages are shown and
  not stored (`chatService.go:57`). A frame of more than 512 bytes ends the
  connection (`connection.go:79`), while 500 characters are allowed.

## 7. Not modelled

- The data race on a bot game that is marshalled after unlocking (`bot.go:200`):
  the feed of bot games is left out of `BotGame`.
- Which candidate a bot picks by chance; the floating point weights.
- A user in several games, who shares a presence event among their clocks; game
  ids of bots and stored games; the database failing during a grace forfeit.
- After a restart stored games have no clock. `GameService` models that and
  claims nothing for it.
- The index of lobbies and its page `/play`, private lobbies, invite links and
  the 24-hour expiry; connections lost while the lobby page is open.
- A presence event that fails to be published (`handler.go:73`, `:95` ignore the
  error): `WsHub` assumes that these calls succeed.
- The request for a token before a socket is opened (`apiOrigin.ts:49`): `Session`
  has it as a part of `connect`, which a sign-out that comes in between cancels.
- The turn timer on the game page; presentation of every page.
- The set of WebSocket subscribers; registration with a password and the
  uniqueness of user names (a check before an insert; the schema has no unique
  index behind it, so two equal names at the same moment both go in).
- Chat and statistics: single steps and queries without shared state;
  drawing, animation and HTTP glue.
