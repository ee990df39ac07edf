------------------------------ MODULE GameRules ------------------------------
(***************************************************************************)
(* The Game aggregate of internal/game/game.go as operators on a value.     *)
(*                                                                         *)
(* The aggregate changes only through domain events.  A command validates  *)
(* its input, raises events one after the other and each event is applied  *)
(* by applyEvent as it is raised; LoadFromEvents applies the same events   *)
(* again.  The commands are therefore given twice: as the state they       *)
(* produce (ApplyMove, PassTurnOnTimeout, Forfeit) and as the events they  *)
(* record (MoveEvents, TimeoutEvents, ForfeitEvents).                      *)
(*                                                                         *)
(* Users are named by their seat (turn_order): CreateGame rejects a roster *)
(* with the same user twice.  Outsider stands for a signed-in user who has *)
(* no seat, whom the forfeit endpoint does not turn away.  Names, times,   *)
(* ids and the text of errors are left out.                                *)
(***************************************************************************)
EXTENDS Grid, Sequences, FiniteSets

CONSTANTS NumPlayers, NoSeat, Outsider

\* CreateGame and CreateBotGame accept 2 to 4 seats.
ASSUME NumPlayersAssumption == NumPlayers \in 2 .. 4

Seats == 0 .. NumPlayers - 1
Users == Seats \union {Outsider}

ASSUME NamesAssumption == NoSeat \notin Seats /\ Outsider \notin Seats

Moves == [seat : Seats, cell : Cells, side : Sides]

Games == [edges  : [Cells -> SUBSET Sides],
          owner  : [Cells -> Seats \union {NoSeat}],
          score  : [Seats -> Nat],
          turn   : Seats,
          ended  : BOOLEAN,
          winner : Seats \union {NoSeat}]

------------------------------------------------------------------------------
(* Domain events and their effect (domain_events.go, applyEvent).          *)

GameCreated            == [type |-> "GameCreated"]
MoveApplied(move)      == [type |-> "MoveApplied", cell |-> move.cell, side |-> move.side]
BoxCompleted(box, p)   == [type |-> "BoxCompleted", cell |-> box, seat |-> p]
TurnPassed(p)          == [type |-> "TurnPassed", seat |-> p]
GameEnded(w)           == [type |-> "GameEnded", winner |-> w]
GameForfeited(u, w)    == [type |-> "GameForfeited", user |-> u, winner |-> w]

newGame == [edges  |-> makeEmptyGrid,
            owner  |-> [cell \in Cells |-> NoSeat],
            score  |-> [p \in Seats |-> 0],
            turn   |-> 0,
            ended  |-> FALSE,
            winner |-> NoSeat]

drawEdge(g, cell, side) == [g EXCEPT !.edges = setEdge(@, cell, side)]

\* Mutant: the box gets its owner, the owner does not get the point.
claimBoxNoPoint(g, box, p) == [g EXCEPT !.owner[box] = p]

claimBox(g, box, p) == [g EXCEPT !.owner[box] = p, !.score[p] = @ + 1]

passTurn(g, p) == [g EXCEPT !.turn = p]

endGame(g, w) == [g EXCEPT !.ended = TRUE, !.winner = w]

applyEvent(g, e) ==
    CASE e.type = "GameCreated"   -> newGame
      [] e.type = "MoveApplied"   -> drawEdge(g, e.cell, e.side)
      [] e.type = "BoxCompleted"  -> claimBox(g, e.cell, e.seat)
      [] e.type = "TurnPassed"    -> passTurn(g, e.seat)
      [] e.type = "GameEnded"     -> endGame(g, e.winner)
      [] e.type = "GameForfeited" -> endGame(g, e.winner)

------------------------------------------------------------------------------
(* Questions a command asks of the current state.                          *)

\* Mutant: one side of the four is not looked at.
findCompletableBoxEarly(g, cell) ==
    /\ cell \in Cells
    /\ g.owner[cell] = NoSeat
    /\ Sides \ {"right"} \subseteq g.edges[cell]

findCompletableBox(g, cell) ==
    /\ cell \in Cells
    /\ g.owner[cell] = NoSeat
    /\ isBoxComplete(g.edges, cell)

\* Mutant: a board with one box left counts as finished.
isGameOverAlmost(g) ==
    \E last \in Cells : \A cell \in Cells \ {last} : g.owner[cell] # NoSeat

isGameOver(g) == \A cell \in Cells : g.owner[cell] # NoSeat

\* Mutant: the turn runs past the last seat.
nextSeatNoWrap(g) == g.turn + 1

nextSeat(g) == (g.turn + 1) % NumPlayers

\* Where a scan for the largest score stops: the loops replace the candidate
\* only on a strictly larger score, so the first of several leaders wins.
firstLeader(score, among) ==
    CHOOSE p \in among :
        /\ \A q \in among : score[q] <= score[p]
        /\ \A q \in among : q < p => score[q] < score[p]

\* Mutant: a tie between two losers counts.
determineWinnerAnyTie(g) ==
    IF \E p, q \in Seats : p # q /\ g.score[p] = g.score[q] THEN NoSeat
    ELSE firstLeader(g.score, Seats)

\* The tie flag is raised by a later seat that equals the leader.
determineWinner(g) ==
    LET leader == firstLeader(g.score, Seats)
        tie    == \E q \in Seats : q > leader /\ g.score[q] = g.score[leader]
    IN  IF tie THEN NoSeat ELSE leader

forfeitWinner(g, u) == firstLeader(g.score, Seats \ {u})

\* Mutant: the availability test is dropped.
validateMoveTaken(g, move) ==
    move.seat = g.turn /\ move.cell \in Cells /\ ~g.ended

validateMove(g, move) ==
    /\ move.seat = g.turn
    /\ move.cell \in Cells
    /\ isEdgeAvailable(g.edges, move.cell, move.side)
    /\ ~g.ended

------------------------------------------------------------------------------
(* Commands, one domain event at a time.                                   *)

\* The state once the line is drawn.
drawn(g, move) == drawEdge(g, move.cell, move.side)

ownCompleted(g, move) == findCompletableBox(drawn(g, move), move.cell)

\* Mutant: the box on the other side of the line is forgotten.
adjacentForgotten(g, move) == FALSE

adjacentCompleted(g, move) ==
    findCompletableBox(drawn(g, move), getAdjacentBox(move.cell, move.side))

completedNone(g, move) == ~ownCompleted(g, move) /\ ~adjacentCompleted(g, move)

ownClaimed(g, move) ==
    IF ownCompleted(g, move)
    THEN claimBox(drawn(g, move), move.cell, move.seat)
    ELSE drawn(g, move)

boxesClaimed(g, move) ==
    IF adjacentCompleted(g, move)
    THEN claimBox(ownClaimed(g, move),
                  getAdjacentBox(move.cell, move.side), move.seat)
    ELSE ownClaimed(g, move)

\* Mutant: the turn passes even when the move completed a box.
turnAlwaysSettled(g, move) == passTurn(boxesClaimed(g, move), nextSeat(g))

turnSettled(g, move) ==
    IF completedNone(g, move)
    THEN passTurn(boxesClaimed(g, move), nextSeat(g))
    ELSE boxesClaimed(g, move)

endIfFull(g) == IF isGameOver(g) THEN endGame(g, determineWinner(g)) ELSE g

ApplyMove(g, move) == endIfFull(turnSettled(g, move))

PassTurnOnTimeout(g) == endIfFull(passTurn(g, nextSeat(g)))

Forfeit(g, u) == endGame(g, forfeitWinner(g, u))

------------------------------------------------------------------------------
(* The events the same commands leave in uncommittedEvents, in order.      *)

eventIf(cond, e) == IF cond THEN <<e>> ELSE <<>>

MoveEvents(g, move) ==
    LET settled == turnSettled(g, move)
    IN  <<MoveApplied(move)>>
        \o eventIf(ownCompleted(g, move), BoxCompleted(move.cell, move.seat))
        \o eventIf(adjacentCompleted(g, move),
                   BoxCompleted(getAdjacentBox(move.cell, move.side), move.seat))
        \o eventIf(completedNone(g, move), TurnPassed(nextSeat(g)))
        \o eventIf(isGameOver(settled), GameEnded(determineWinner(settled)))

TimeoutEvents(g) ==
    LET passed == passTurn(g, nextSeat(g))
    IN  <<TurnPassed(nextSeat(g))>>
        \o eventIf(isGameOver(passed), GameEnded(determineWinner(passed)))

ForfeitEvents(g, u) == <<GameForfeited(u, forfeitWinner(g, u))>>

------------------------------------------------------------------------------
(* What a consistent game looks like; GameAggregate and GameService state   *)
(* their properties with these.                                            *)

\* Both copies of every inner line agree.
Mirrored(grid) ==
    \A cell \in Cells, side \in Sides :
        getAdjacentBox(cell, side) \in Cells =>
            (side \in grid[cell]
               <=> Opposite(side) \in grid[getAdjacentBox(cell, side)])

OwnedExactlyIfComplete(g) ==
    \A cell \in Cells : g.owner[cell] # NoSeat <=> isBoxComplete(g.edges, cell)

BoxesOf(g, p) == {cell \in Cells : g.owner[cell] = p}

Counted(g) == \A p \in Seats : g.score[p] = Cardinality(BoxesOf(g, p))

SoleLeader(g, p) == \A q \in Seats \ {p} : g.score[q] < g.score[p]

\* The winner by definition: the one player ahead of all others, if any.
RightWinner(g) ==
    IF \E p \in Seats : SoleLeader(g, p)
    THEN CHOOSE p \in Seats : SoleLeader(g, p)
    ELSE NoSeat
=============================================================================
