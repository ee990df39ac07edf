------------------------------- MODULE TurnGame -------------------------------
(***************************************************************************)
(* A game reduced to what the turn clock and the bots react to: how many   *)
(* lines are left, whose turn it is and whether the game has ended.  A     *)
(* move keeps the turn or passes it, according to whether it completed a   *)
(* box, which is left open here.  GameAggregate is shown to implement this *)
(* module, so what holds for every choice holds for the real rules.        *)
(***************************************************************************)
EXTENDS Integers

CONSTANTS NumPlayers, LineCount

ASSUME TurnGameAssumption == NumPlayers \in Nat \ {0, 1} /\ LineCount \in Nat \ {0}

VARIABLE game

Places == 0 .. NumPlayers - 1
TurnGames == [left : 0 .. LineCount, turn : Places, ended : BOOLEAN]

following(g) == (g.turn + 1) % NumPlayers

\* The last line always completes a box, so its player keeps the turn.
AfterMove(g) ==
    IF g.ended \/ g.left = 0 THEN {}
    ELSE IF g.left = 1 THEN {[left |-> 0, turn |-> g.turn, ended |-> TRUE]}
    ELSE {[g EXCEPT !.left = @ - 1, !.turn = t] : t \in {g.turn, following(g)}}

AfterPass(g) == [g EXCEPT !.turn = following(g)]

AfterForfeit(g) == [g EXCEPT !.ended = TRUE]

StartOfGame == [left |-> LineCount, turn |-> 0, ended |-> FALSE]

TurnInit == game = StartOfGame

TurnNext ==
    \/ game' \in AfterMove(game)
    \/ ~game.ended /\ game' = AfterPass(game)
    \/ ~game.ended /\ game' = AfterForfeit(game)

TurnSpec == TurnInit /\ [][TurnNext]_game
=============================================================================
