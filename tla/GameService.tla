----------------------------- MODULE GameService -----------------------------
(***************************************************************************)
(* One stored (non-bot) game and the requests that work on it               *)
(* (internal/game/gameService.go over pgGameRepository.go).                *)
(*                                                                         *)
(* Every command runs in a goroutine of its own: it loads the events,      *)
(* replays them, applies the command to its private copy, appends the new  *)
(* events in one transaction, updates the projection in a second one,      *)
(* moves the turn clock and publishes the result.  Nothing holds a lock    *)
(* across these steps, so each of them is an action and the goroutines     *)
(* interleave between any two.  Loading and applying are one action, since *)
(* the private copy is not shared.                                         *)
(*                                                                         *)
(* The turn clock is kept as far as these handlers see it: whether it runs *)
(* and for which seat.  Whether its deadline has passed is left open, so a *)
(* tick may find it expired at any time.                                   *)
(***************************************************************************)
EXTENDS GameRules, SequencesExt

CONSTANTS
    Workers,        \* goroutines serving requests at the same time
    Opening,        \* moves already made, one at a time, when the run starts
    MaxRequests,    \* bound: commands started in a behaviour
    MaxFaults,      \* bound: database or event-bus calls that fail
    MaxRestarts     \* bound: process restarts

ASSUME BoundsAssumption ==
    MaxRequests \in Nat /\ MaxFaults \in Nat /\ MaxRestarts \in Nat

VARIABLES
    rows,           \* table game_events, in insertion order
    proj,           \* tables games and game_details
    clock,          \* GameTimerService.timers[gameID]: running?, active seat
    feed,           \* the last game:state published on game:<id>
    announced,      \* game_created has been published
    completions,    \* number of game_completed published
    pc, job,        \* where each goroutine is, and its local variables
    begun, faults, restarts

vars == <<rows, proj, clock, feed, announced, completions, pc, job,
          begun, faults, restarts>>

\* A row also remembers how many rows its writer had loaded (a history
\* variable: the code does not store it).
Row(version, event, seen) == [version |-> version, event |-> event, seen |-> seen]

------------------------------------------------------------------------------
(* The event store.                                                        *)

replay(g, evts) ==
    LET after[n \in 0 .. Len(evts)] ==
            IF n = 0 THEN g ELSE applyEvent(after[n - 1], evts[n])
    IN  after[Len(evts)]

\* What FindByID may return.  The query orders by version only, so rows with
\* the same version are applied in either order.
LoadedFrom(rs) ==
    LET at(v) == {i \in DOMAIN rs : rs[i].version = v}
        upTo[v \in 0 .. Len(rs)] ==
            IF v = 0 THEN {newGame}
            ELSE {replay(g, [i \in DOMAIN o |-> rs[o[i]].event]) :
                     g \in upTo[v - 1], o \in SetToSeqs(at(v))}
    IN  upTo[Len(rs)]

\* The rows a command adds: versions continue from the loaded ones.
NewRows(seen, evts) == [i \in DOMAIN evts |-> Row(seen + i, evts[i], seen)]

Projection(g) == [turn |-> g.turn, winner |-> g.winner, ended |-> g.ended,
                  score |-> g.score]

------------------------------------------------------------------------------
(* Goroutines.                                                             *)

NoJob == [op |-> "none"]

NewJob(op, g, after, evts) ==
    [op |-> op, before |-> g.turn, seen |-> Len(rows), game |-> after, events |-> evts]

Goto(w, stage) == pc' = [pc EXCEPT ![w] = stage]

Finish(w) ==
    /\ Goto(w, "idle")
    /\ job' = [job EXCEPT ![w] = NoJob]

Fault ==
    /\ faults < MaxFaults
    /\ faults' = faults + 1

\* A command may start: the game is known to clients and the bound allows it.
Start(w) ==
    /\ pc[w] = "idle"
    /\ announced
    /\ begun < MaxRequests
    /\ begun' = begun + 1

Accept(w, op, g, after, evts) ==
    /\ Goto(w, "append")
    /\ job' = [job EXCEPT ![w] = NewJob(op, g, after, evts)]

------------------------------------------------------------------------------
(* CreateGame after the row and the first event are committed.             *)

AnnounceGame(w) ==
    /\ pc[w] = "announce"
    /\ announced' = TRUE
    /\ Goto(w, "startTimer")
    /\ UNCHANGED <<rows, proj, clock, feed, completions, job, begun, faults, restarts>>

StartTimer(w) ==
    /\ pc[w] = "startTimer"
    /\ clock' = [on |-> TRUE, seat |-> 0]
    /\ Finish(w)
    /\ UNCHANGED <<rows, proj, feed, announced, completions, begun, faults, restarts>>

------------------------------------------------------------------------------
(* Load, validate and apply.  A rejected command leaves no trace.          *)

BeginMove(w, move) ==
    /\ Start(w)
    /\ \E g \in LoadedFrom(rows) :
          /\ validateMove(g, move)
          /\ Accept(w, "move", g, ApplyMove(g, move), MoveEvents(g, move))
    /\ UNCHANGED <<rows, proj, clock, feed, announced, completions, faults, restarts>>

\* Mutant: the ended test of ForfeitGame is dropped.
BeginForfeitUnchecked(w, u) ==
    /\ Start(w)
    /\ \E g \in LoadedFrom(rows) :
          Accept(w, "forfeit", g, Forfeit(g, u), ForfeitEvents(g, u))
    /\ UNCHANGED <<rows, proj, clock, feed, announced, completions, faults, restarts>>

BeginForfeit(w, u) ==
    /\ Start(w)
    /\ \E g \in LoadedFrom(rows) :
          /\ ~g.ended
          /\ Accept(w, "forfeit", g, Forfeit(g, u), ForfeitEvents(g, u))
    /\ UNCHANGED <<rows, proj, clock, feed, announced, completions, faults, restarts>>

\* The clock's own goroutine finds the deadline passed.  It makes one call at
\* a time, and calls after it has let go of the timer's lock.
TickExpired(w) ==
    /\ Start(w)
    /\ clock.on
    /\ \A other \in Workers : job[other].op # "pass"
    /\ Goto(w, "expired")
    /\ job' = [job EXCEPT ![w] = [op |-> "pass"]]
    /\ UNCHANGED <<rows, proj, clock, feed, announced, completions, faults, restarts>>

BeginPass(w) ==
    /\ pc[w] = "expired"
    /\ \E g \in LoadedFrom(rows) :
          IF g.ended THEN Finish(w)
          ELSE Accept(w, "pass", g, PassTurnOnTimeout(g), TimeoutEvents(g))
    /\ UNCHANGED <<rows, proj, clock, feed, announced, completions,
                   begun, faults, restarts>>

------------------------------------------------------------------------------
(* Persist.                                                                *)

AppendEvents(w) ==
    /\ pc[w] = "append"
    /\ rows' = rows \o NewRows(job[w].seen, job[w].events)
    /\ Goto(w, "project")
    /\ UNCHANGED <<proj, clock, feed, announced, completions, job, begun, faults, restarts>>

\* The transaction fails: the command returns an error.
AppendFails(w) ==
    /\ pc[w] = "append"
    /\ Fault
    /\ Finish(w)
    /\ UNCHANGED <<rows, proj, clock, feed, announced, completions, begun, restarts>>

AfterProjection(w) == IF job[w].op = "forfeit" THEN "stop" ELSE "switch"

UpdateProjection(w) ==
    /\ pc[w] = "project"
    /\ proj' = Projection(job[w].game)
    /\ Goto(w, AfterProjection(w))
    /\ UNCHANGED <<rows, clock, feed, announced, completions, job, begun, faults, restarts>>

\* A failure is logged, and the command carries on.
UpdateProjectionFails(w) ==
    /\ pc[w] = "project"
    /\ Fault
    /\ Goto(w, AfterProjection(w))
    /\ UNCHANGED <<rows, proj, clock, feed, announced, completions, job, begun, restarts>>

------------------------------------------------------------------------------
(* The turn clock and the event bus.                                       *)

\* Mutant: the clock is switched to the seat that just moved.
SwitchTurnBack(w) ==
    /\ pc[w] = "switch"
    /\ clock' = IF clock.on /\ job[w].game.turn # job[w].before
                THEN [clock EXCEPT !.seat = job[w].before] ELSE clock
    /\ Goto(w, "publish")
    /\ UNCHANGED <<rows, proj, feed, announced, completions, job, begun, faults, restarts>>

SwitchTurn(w) ==
    /\ pc[w] = "switch"
    /\ clock' = IF clock.on /\ job[w].game.turn # job[w].before
                THEN [clock EXCEPT !.seat = job[w].game.turn] ELSE clock
    /\ Goto(w, "publish")
    /\ UNCHANGED <<rows, proj, feed, announced, completions, job, begun, faults, restarts>>

StopTimer(w) ==
    /\ pc[w] = "stop"
    /\ clock' = [clock EXCEPT !.on = FALSE]
    /\ Goto(w, IF job[w].op = "forfeit" THEN "publish" ELSE "complete")
    /\ UNCHANGED <<rows, proj, feed, announced, completions, job, begun, faults, restarts>>

\* A finished move or pass still stops the clock; a forfeit did so before.
AfterPublish(w) ==
    IF ~job[w].game.ended THEN Finish(w)
    ELSE /\ Goto(w, IF job[w].op = "forfeit" THEN "complete" ELSE "stop")
         /\ UNCHANGED job

\* Mutant: a finished game is not followed up.
PublishStateAndLeave(w) ==
    /\ pc[w] = "publish"
    /\ feed' = job[w].game
    /\ Finish(w)
    /\ UNCHANGED <<rows, proj, clock, announced, completions, begun, faults, restarts>>

PublishState(w) ==
    /\ pc[w] = "publish"
    /\ feed' = job[w].game
    /\ AfterPublish(w)
    /\ UNCHANGED <<rows, proj, clock, announced, completions, begun, faults, restarts>>

\* publishIntegrationEvent ignores the error of Publish.
PublishStateFails(w) ==
    /\ pc[w] = "publish"
    /\ Fault
    /\ AfterPublish(w)
    /\ UNCHANGED <<rows, proj, clock, feed, announced, completions, begun, restarts>>

PublishCompleted(w) ==
    /\ pc[w] = "complete"
    /\ completions' = completions + 1
    /\ Finish(w)
    /\ UNCHANGED <<rows, proj, clock, feed, announced, begun, faults, restarts>>

\* Its error is ignored as well.
PublishCompletedFails(w) ==
    /\ pc[w] = "complete"
    /\ Fault
    /\ Finish(w)
    /\ UNCHANGED <<rows, proj, clock, feed, announced, completions, begun, restarts>>

\* The process dies and comes back: goroutines and the in-memory clock are
\* gone, and nothing starts a clock for a game that already exists.
Restart ==
    /\ restarts < MaxRestarts
    /\ restarts' = restarts + 1
    /\ pc' = [w \in Workers |-> "idle"]
    /\ job' = [w \in Workers |-> NoJob]
    /\ clock' = [clock EXCEPT !.on = FALSE]
    /\ UNCHANGED <<rows, proj, feed, announced, completions, begun, faults>>

------------------------------------------------------------------------------

\* A game and its rows after one more move that nothing else disturbs.
Played(p, move) ==
    [game |-> ApplyMove(p.game, move),
     rows |-> p.rows \o NewRows(Len(p.rows), MoveEvents(p.game, move))]

\* The game and its rows after creating it and playing the first n moves of the
\* opening, one after the other.
Opened[n \in 0 .. Len(Opening)] ==
    IF n = 0 THEN [game |-> newGame, rows |-> NewRows(0, <<GameCreated>>)]
    ELSE Played(Opened[n - 1], Opening[n])

OpeningRows == Opened[Len(Opening)]

\* No move of the opening draws a line that is there already, and the game goes
\* on after it.
ASSUME OpeningAssumption ==
    /\ Opening \in Seq(Moves)
    /\ \A n \in 1 .. Len(Opening) :
          isEdgeAvailable(Opened[n - 1].game.edges, Opening[n].cell, Opening[n].side)
    /\ ~OpeningRows.game.ended

Init ==
    /\ rows = OpeningRows.rows
    /\ proj = Projection(OpeningRows.game)
    /\ feed = OpeningRows.game
    /\ completions = 0
    /\ begun = 0 /\ faults = 0 /\ restarts = 0
    /\ job = [w \in Workers |-> NoJob]
    /\ IF Opening = <<>>
       THEN /\ announced = FALSE
            /\ clock = [on |-> FALSE, seat |-> 0]
            /\ \E creator \in Workers :
                  pc = [w \in Workers |-> IF w = creator THEN "announce" ELSE "idle"]
       ELSE /\ announced = TRUE
            /\ clock = [on |-> TRUE, seat |-> OpeningRows.game.turn]
            /\ pc = [w \in Workers |-> "idle"]

\* What a goroutine does without waiting for anybody.
Work(w) ==
    \/ AnnounceGame(w) \/ StartTimer(w)
    \/ BeginPass(w)
    \/ AppendEvents(w) \/ AppendFails(w)
    \/ UpdateProjection(w) \/ UpdateProjectionFails(w)
    \/ SwitchTurn(w) \/ StopTimer(w)
    \/ PublishState(w) \/ PublishStateFails(w)
    \/ PublishCompleted(w) \/ PublishCompletedFails(w)

Next ==
    \/ \E w \in Workers :
          \/ Work(w)
          \/ \E move \in Moves : BeginMove(w, move)
          \/ \E u \in Users : BeginForfeit(w, u)
          \/ TickExpired(w)
    \/ Restart

\* A goroutine that can run is eventually scheduled and its database and bus
\* calls return.  No client has to send anything, and nothing has to fail.
Spec == Init /\ [][Next]_vars /\ \A w \in Workers : WF_vars(Work(w))

------------------------------------------------------------------------------
(* Properties.                                                             *)

Stages == {"idle", "announce", "startTimer", "expired", "append", "project",
           "switch", "stop", "publish", "complete"}

\* The variables have the shapes the tables and structs give them.
TypeOK ==
    /\ \A i \in DOMAIN rows : rows[i].version \in 1 .. Len(rows)
    /\ proj \in [turn : Seats, winner : Seats \union {NoSeat}, ended : BOOLEAN,
                 score : [Seats -> Nat]]
    /\ clock \in [on : BOOLEAN, seat : Seats]
    /\ feed \in Games
    /\ announced \in BOOLEAN
    /\ pc \in [Workers -> Stages]
    /\ completions \in 0 .. MaxRequests
    /\ begun \in 0 .. MaxRequests /\ faults \in 0 .. MaxFaults
    /\ restarts \in 0 .. MaxRestarts

Quiet == announced /\ \A w \in Workers : pc[w] = "idle"

IsMove(i) == rows[i].event.type = "MoveApplied"
IsEnding(i) == rows[i].event.type \in {"GameEnded", "GameForfeited"}

SameLine(e, f) ==
    \/ e.cell = f.cell /\ e.side = f.side
    \/ getAdjacentBox(e.cell, e.side) = f.cell /\ Opposite(e.side) = f.side

\* However the requests interleave, no replay shows an owned box with a
\* missing side: a BoxCompleted row never travels without the moves it rests
\* on (pgGameRepository.go, AppendEvents).
OwnedImpliesComplete ==
    \A g \in LoadedFrom(rows), cell \in Cells :
        g.owner[cell] # NoSeat => g.edges[cell] = Sides

\* A GameEnded row stands only in a log whose every replay owns all boxes: an
\* early GameEnded can not come from a race (game.go, ApplyMove).
EndedImpliesFull ==
    (\E i \in DOMAIN rows : rows[i].event.type = "GameEnded")
        => \A g \in LoadedFrom(rows), cell \in Cells : g.owner[cell] # NoSeat

\* Two rows clash, by recording the same line or carrying the same version,
\* only if the later writer had loaded the game before the earlier row was
\* committed: requests that do not overlap never lose an update.
ClashImpliesOverlap ==
    \A i, j \in DOMAIN rows :
        /\ i < j
        /\ \/ rows[i].version = rows[j].version
           \/ IsMove(i) /\ IsMove(j) /\ SameLine(rows[i].event, rows[j].event)
        => rows[j].seen < i

\* Once an ending is committed, no command that loads the game afterwards
\* gets past its checks (gameService.go, ForfeitGame; game.go, validateMove).
FinishedTakesNoCommand ==
    [][(\E i \in DOMAIN rows : IsEnding(i))
         => \A w \in Workers : pc'[w] = "append" => pc[w] = "append"]_vars

\* Every game that ends is announced as completed, unless the process dies or
\* a call fails in between.
EndIsAnnounced ==
    (\E i \in DOMAIN rows : IsEnding(i)) ~> (completions > 0 \/ restarts > 0 \/ faults > 0)

\* Versions number the events of a game: no two rows carry the same one.
VersionsUnique ==
    \A i, j \in DOMAIN rows : rows[i].version = rows[j].version => i = j

\* The points of all players.
Total(g) ==
    LET upTo[n \in 0 .. NumPlayers] ==
            IF n = 0 THEN 0 ELSE upTo[n - 1] + g.score[n - 1]
    IN  upTo[NumPlayers]

\* In a finished board every box has been counted once.
ScoresAddUp ==
    \A g \in LoadedFrom(rows) : isGameOver(g) => Total(g) = Cardinality(Cells)

\* When nothing is in flight the query tables show the replayed game.
ProjectionInSync ==
    Quiet /\ faults = 0 /\ restarts = 0
        => \E g \in LoadedFrom(rows) : proj = Projection(g)

\* When nothing is in flight the last published state is the replayed game.
FeedInSync ==
    Quiet /\ faults = 0 /\ restarts = 0 => feed \in LoadedFrom(rows)

\* When nothing is in flight the clock runs exactly while the game does, and
\* for the seat whose turn it is.
ClockInSync ==
    Quiet /\ faults = 0 /\ restarts = 0
        => \A g \in LoadedFrom(rows) :
              /\ clock.on <=> ~g.ended
              /\ clock.on => clock.seat = g.turn

\* A finished game is announced as completed exactly once.
CompletedOnce ==
    Quiet /\ faults = 0 /\ restarts = 0
        => completions = IF \E i \in DOMAIN rows : IsEnding(i) THEN 1 ELSE 0

\* Requests that do not overlap leave everything in agreement, and count every
\* box once (gameService.go, MakeMove, PassTurnOnTimeout and ForfeitGame).
AllInSync ==
    /\ VersionsUnique /\ ScoresAddUp
    /\ ProjectionInSync /\ FeedInSync /\ ClockInSync /\ CompletedOnce
=============================================================================
