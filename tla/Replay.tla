------------------------------- MODULE Replay -------------------------------
(***************************************************************************)
(* The replay page (web/src/routes/_authenticated/replay/$gameID.tsx).      *)
(*                                                                         *)
(* The page fetches the recorded domain events of a game and rebuilds from *)
(* them, with its own copy of the board, one frame after every command of  *)
(* the game.  Nothing in the events says where a command ends: the page     *)
(* guesses it from the types of the events that follow.  The player then   *)
(* steps through the frames by hand or lets an interval do it.             *)
(*                                                                         *)
(* The game may still be played while it is watched: its commands are those *)
(* of the aggregate, with the events they record.  "reached" collects      *)
(* what the board really looked like between two commands; it exists for   *)
(* the properties only.  The speed of the playback is left out.            *)
(***************************************************************************)
EXTENDS GameAggregate, SequencesExt

CONSTANTS
    Openings,   \* the sequences of lines the recorded games may start with
    MaxPasses   \* bound: how often the turn clock passes the turn

VARIABLES
    log,          \* the events of the game, as GET /games/:id/events returns them
    reached,      \* what the board looked like after each command
    passes,       \* timeouts so far
    fetched,      \* how many of them the page has fetched
    replayStates, \* the frames it made of them
    currentStep,  \* the frame shown
    isPlaying     \* the interval is running

gameVars == <<game, log, reached, passes>>
filmVars == <<fetched, replayStates>>
pageVars == <<fetched, replayStates, currentStep, isPlaying>>
vars == <<game, log, reached, passes, fetched, replayStates, currentStep, isPlaying>>

------------------------------------------------------------------------------
(* The frames.                                                             *)

\* The page's own setEdge.
setEdgeOnPage(grid, cell, side) ==
    LET other == getAdjacentBox(cell, side)
        near  == [grid EXCEPT ![cell] = @ \union {side}]
    IN  IF other \in Cells
        THEN [near EXCEPT ![other] = @ \union {Opposite(side)}]
        ELSE near

View(g) == [edges |-> g.edges, owner |-> g.owner, score |-> g.score, turn |-> g.turn]

\* An empty grid, no score, and the first seat to move.
EmptyFrame == View(newGame)

pushFrame(b) == [b EXCEPT !.states = Append(@, b.frame), !.hasPendingMove = FALSE]

\* Mutant: the frame of a move that kept the turn is not pushed.
pushPendingNever(b, e) == b

\* A move that kept the turn is followed at once by the next move.
pushPending(b, e) ==
    IF e.type = "MoveApplied" /\ b.hasPendingMove THEN pushFrame(b) ELSE b

showEvent(b, e) ==
    CASE e.type = "GameCreated" ->
            [b EXCEPT !.frame = EmptyFrame, !.states = Append(@, EmptyFrame)]
      [] e.type = "MoveApplied" ->
            [b EXCEPT !.frame.edges = setEdgeOnPage(@, e.cell, e.side),
                      !.hasPendingMove = TRUE]
      [] e.type = "BoxCompleted" ->
            [b EXCEPT !.frame.owner[e.cell] = e.seat, !.frame.score[e.seat] = @ + 1]
      [] e.type = "TurnPassed" -> pushFrame([b EXCEPT !.frame.turn = e.seat])
      [] e.type \in {"GameEnded", "GameForfeited"} -> pushFrame(b)

show(b, e) == showEvent(pushPending(b, e), e)

\* What the loop has made of b when it has been through all events.
showAll(b, es) ==
    LET after[n \in 0 .. Len(es)] ==
            IF n = 0 THEN b ELSE show(after[n - 1], es[n])
    IN  after[Len(es)]

NoFrames == [states |-> <<>>, frame |-> EmptyFrame, hasPendingMove |-> FALSE]

\* A move at the end of the log still has its frame pending.
developed(b) == IF b.hasPendingMove THEN pushFrame(b).states ELSE b.states

buildReplayStates(domainEvents) == developed(showAll(NoFrames, domainEvents))

totalSteps == Len(replayStates)

------------------------------------------------------------------------------
(* The game goes on, recorded.                                             *)

record(recorded) ==
    /\ log' = log \o recorded
    /\ reached' = reached \union {View(game')}
    /\ UNCHANGED pageVars

Play(move) ==
    /\ MakeMove(move)
    /\ record(MoveEvents(game, move))
    /\ UNCHANGED passes

PassOnTimeout ==
    /\ TimeoutPass
    /\ record(TimeoutEvents(game))
    /\ passes < MaxPasses
    /\ passes' = passes + 1

GiveUp(u) ==
    /\ ForfeitGame(u)
    /\ record(ForfeitEvents(game, u))
    /\ UNCHANGED passes

------------------------------------------------------------------------------
(* The page.  Before the events have arrived totalSteps is 0; the keys are  *)
(* active from the first moment.                                           *)

FetchEvents ==
    /\ fetched < Len(log)
    /\ fetched' = Len(log)
    /\ replayStates' = buildReplayStates(log)
    /\ UNCHANGED <<gameVars, currentStep, isPlaying>>

\* The buttons and the slider appear with the second frame.
ControlsShown == totalSteps > 1

stopPlayback == isPlaying' = FALSE

startPlayback ==
    /\ currentStep' = IF currentStep >= totalSteps - 1 THEN 0 ELSE currentStep
    /\ isPlaying' = TRUE

togglePlay ==
    /\ IF isPlaying THEN stopPlayback /\ UNCHANGED currentStep ELSE startPlayback
    /\ UNCHANGED <<gameVars, filmVars>>

\* Mutant: the interval starts the film again instead of stopping.
tickRewinds ==
    /\ isPlaying
    /\ currentStep' = IF currentStep >= totalSteps - 1 THEN 0 ELSE currentStep + 1
    /\ UNCHANGED <<gameVars, filmVars, isPlaying>>

\* Mutant: one frame too many.
tickOverruns ==
    /\ isPlaying
    /\ IF currentStep >= totalSteps
       THEN stopPlayback /\ UNCHANGED currentStep
       ELSE currentStep' = currentStep + 1 /\ UNCHANGED isPlaying
    /\ UNCHANGED <<gameVars, filmVars>>

\* The interval's callback.
tick ==
    /\ isPlaying
    /\ IF currentStep >= totalSteps - 1
       THEN stopPlayback /\ UNCHANGED currentStep
       ELSE currentStep' = currentStep + 1 /\ UNCHANGED isPlaying
    /\ UNCHANGED <<gameVars, filmVars>>

showStep(step) ==
    /\ stopPlayback
    /\ currentStep' = step
    /\ UNCHANGED <<gameVars, filmVars>>

stepForward ==
    showStep(IF currentStep + 1 < totalSteps THEN currentStep + 1 ELSE totalSteps - 1)

stepBackward == showStep(IF currentStep > 0 THEN currentStep - 1 ELSE 0)

goToStart == showStep(0)

goToEnd == showStep(totalSteps - 1)

dragSlider ==
    /\ ControlsShown
    /\ \E step \in 0 .. totalSteps - 1 : showStep(step)

------------------------------------------------------------------------------

\* The player to move draws a line.
lineDrawn(o, line) ==
    LET move == [seat |-> o.game.turn, cell |-> line[1], side |-> line[2]]
        next == ApplyMove(o.game, move)
    IN  [game    |-> next,
         log     |-> o.log \o MoveEvents(o.game, move),
         reached |-> o.reached \union {View(next)}]

\* The game after the first n of some lines, with everything it recorded.
openedBy(lines, upto) ==
    LET after[n \in 0 .. upto] ==
            IF n = 0 THEN [game |-> newGame, log |-> <<GameCreated>>, reached |-> {View(newGame)}]
            ELSE lineDrawn(after[n - 1], lines[n])
    IN  after[upto]

\* An opening is a game that can be played.
ASSUME OpeningsAssumption ==
    \A lines \in Openings :
        /\ lines \in Seq(Cells \X Sides)
        /\ \A n \in 1 .. Len(lines) :
              LET g == openedBy(lines, n - 1).game
              IN  ~g.ended /\ isEdgeAvailable(g.edges, lines[n][1], lines[n][2])

ASSUME MaxPassesAssumption == MaxPasses \in Nat

ReplayInit ==
    /\ \E lines \in Openings :
          LET o == openedBy(lines, Len(lines))
          IN  game = o.game /\ log = o.log /\ reached = o.reached
    /\ passes = 0
    /\ fetched = 0
    /\ replayStates = <<>>
    /\ currentStep = 0
    /\ isPlaying = FALSE

ReplayNext ==
    \/ \E move \in Moves : Play(move)
    \/ PassOnTimeout
    \/ \E u \in Users : GiveUp(u)
    \/ FetchEvents
    \/ togglePlay \/ tick
    \/ stepForward \/ stepBackward \/ goToStart \/ goToEnd \/ dragSlider

\* A started interval fires until it is cleared.
ReplaySpec == ReplayInit /\ [][ReplayNext]_vars /\ WF_vars(tick)

------------------------------------------------------------------------------
(* Properties.                                                             *)

\* Once everything is fetched, the film is the game: it starts with the empty
\* board and ends with the board as it is, every frame is a board that really
\* stood between two commands, and no two frames are more than one line apart,
\* so no move is skipped (buildReplayStates, which has to guess where a command
\* ends).
FilmIsTheGame ==
    fetched = Len(log) =>
    LET film == replayStates
    IN  /\ Head(film) = EmptyFrame /\ Last(film) = View(game)
        /\ Range(film) \subseteq reached
        /\ \A i \in 1 .. Len(film) - 1 :
              LET drawnNow == {e \in Cells \X Sides : e[2] \in film[i + 1].edges[e[1]]
                                                   /\ e[2] \notin film[i].edges[e[1]]}
              IN  \A e, f \in drawnNow :
                     e = f \/ f = <<getAdjacentBox(e[1], e[2]), Opposite(e[2])>>

\* The step moves to a frame of the film, and only while there is no film yet
\* (totalSteps = 0) to 0 or, by stepForward and goToEnd, to -1.  With a film, a
\* tick of the interval and every key but the space bar leave the page on a
\* frame: a -1 from before is not met again.
StepsAlong ==
    /\ currentStep' # currentStep =>
          \/ currentStep' \in 0 .. totalSteps - 1
          \/ totalSteps = 0 /\ currentStep' \in {-1, 0}
    /\ totalSteps > 0 /\ (tick \/ stepForward \/ stepBackward \/ goToStart \/ goToEnd) =>
          currentStep' \in 0 .. totalSteps - 1

\* The frame shown is one of the film, whatever is pressed and however the film
\* grows; what was pressed while the events were loading is put right by the
\* first step (replay/$gameID.tsx, the playback effect and the keys).
StepOnFilm == [][StepsAlong]_vars

\* Whatever the player presses meanwhile, and however the game grows under
\* the page, a started playback comes to a stop.
PlaybackEnds == isPlaying ~> ~isPlaying
=============================================================================
