---------------------------- MODULE GameAggregate ----------------------------
(***************************************************************************)
(* One Game value used by one command at a time.  This is exactly how a    *)
(* bot game lives (every command runs in BotService.withGameExclusive) and *)
(* what each request sees of a stored game between loading it and          *)
(* appending its events.                                                   *)
(*                                                                         *)
(* A rejected command returns an error and changes nothing, so it is no    *)
(* step.                                                                   *)
(***************************************************************************)
EXTENDS GameRules

VARIABLE game

Init == game = newGame

MakeMove(move) ==
    /\ validateMove(game, move)
    /\ game' = ApplyMove(game, move)

TimeoutPass ==
    /\ ~game.ended
    /\ game' = PassTurnOnTimeout(game)

\* ForfeitGame checks EndedAt, and nothing about the user's seat.
ForfeitGame(u) ==
    /\ ~game.ended
    /\ game' = Forfeit(game, u)

Next ==
    \/ \E move \in Moves : MakeMove(move)
    \/ TimeoutPass
    \/ \E u \in Users : ForfeitGame(u)

Spec == Init /\ [][Next]_game

------------------------------------------------------------------------------
(* Properties.                                                             *)

\* Every field of the aggregate has the type the Go struct and the roster
\* give it (game.go, type Game).
TypeOK == game \in Games

\* A line between two boxes is stored on both of them or on neither: no
\* sequence of moves makes setEdge's two copies disagree (game.go, setEdge).
EdgesMirrored == Mirrored(game.edges)

\* A box has an owner exactly when its four sides are drawn: the search for
\* newly completed boxes looks at two boxes only and must never miss one
\* (game.go, findNewlyCompletedBoxes).
OwnedIffComplete == OwnedExactlyIfComplete(game)

\* The score a player carries equals the number of boxes with that owner,
\* although the two are updated separately (game.go, applyEvent).
ScoresCountBoxes == Counted(game)

\* A full board is a finished game, won by the player strictly ahead of all
\* the others, and by nobody on a tie (game.go, isGameOver, determineWinner).
FullBoardIsDecided ==
    isGameOver(game) => game.ended /\ game.winner = RightWinner(game)

\* An unfinished game always has a legal move for the player to move, so
\* neither a human nor PlayBotTurn can run out of moves (bot.go, the branch
\* for a nil move).
NeverStuck == ~game.ended => \E move \in Moves : validateMove(game, move)

\* Forfeiting never makes the forfeiting player the winner, and always makes
\* somebody else the winner (game.go, Forfeit).
ForfeitBenefitsOthers ==
    [][\A u \in Users : ForfeitGame(u) => game'.winner \in Seats \ {u}]_game

------------------------------------------------------------------------------
(* The aggregate implements the rules of the game: forget which box a line *)
(* was recorded on.                                                        *)

LineOf(cell, side) ==
    CASE side = "top"    -> <<"across", cell[1], cell[2]>>
      [] side = "bottom" -> <<"across", cell[1] + 1, cell[2]>>
      [] side = "left"   -> <<"down", cell[1], cell[2]>>
      [] side = "right"  -> <<"down", cell[1], cell[2] + 1>>

DrawnLines == UNION { {LineOf(cell, side) : side \in game.edges[cell]} : cell \in Cells }

SeatAfter(p) == (p + 1) % NumPlayers

Rules == INSTANCE DotsAndBoxes
    WITH Size <- BoardSize, Players <- Seats, Nobody <- NoSeat, Next <- SeatAfter,
         lines <- DrawnLines, claimed <- game.owner, toMove <- game.turn,
         over <- game.ended, victor <- game.winner

\* Every behaviour of the aggregate is a behaviour of the game on paper.
ImplementsRules == Rules!Spec

\* The module that drives bots and the turn clock sees less of the game still.
LineCount == 2 * BoardSize * (BoardSize + 1)

TurnView == [left  |-> LineCount - Cardinality(DrawnLines),
             turn  |-> game.turn,
             ended |-> game.ended]

Turns == INSTANCE TurnGame WITH game <- TurnView

\* Every move draws one new line and keeps or passes the turn, and the last
\* line ends the game: the aggregate is a TurnGame.
ImplementsTurnGame == Turns!TurnSpec
=============================================================================
