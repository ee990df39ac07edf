----------------------------- MODULE BotChoice -----------------------------
(***************************************************************************)
(* How a bot chooses its line (internal/game/bot_ai.go), over every game    *)
(* the aggregate can reach.                                                *)
(*                                                                         *)
(* The bot works on copies of the grid, with its own code for drawing a    *)
(* line, finding the boxes it closes and telling two names of one line     *)
(* apart: nothing of game.go is called.  So the copy of the rules in the   *)
(* bot can drift from the rules, and that is what is checked here.         *)
(*                                                                         *)
(* Among the candidates the bot picks by chance (shuffle, noise, softmax), *)
(* with weights that favour some of them and exclude none; the model lets  *)
(* it pick any.  The floating point weights themselves are left out.       *)
(***************************************************************************)
EXTENDS GameAggregate, FiniteSetsExt

edgeTypeRank == [top |-> 0, right |-> 1, bottom |-> 2, left |-> 3]

moveLess(a, b) ==
    \/ a.cell[1] < b.cell[1]
    \/ a.cell[1] = b.cell[1] /\ a.cell[2] < b.cell[2]
    \/ a.cell = b.cell /\ edgeTypeRank[a.side] < edgeTypeRank[b.side]

\* The name of a line that does not depend on the box it is seen from.
physicalEdgeKey(cell, side) ==
    CASE side = "top"    -> IF cell[1] = 0 THEN <<"t", cell[2]>>
                            ELSE <<"v", cell[1] - 1, cell[2]>>
      [] side = "bottom" -> IF cell[1] = BoardSize - 1 THEN <<"b", cell[2]>>
                            ELSE <<"v", cell[1], cell[2]>>
      [] side = "left"   -> IF cell[2] = 0 THEN <<"l", cell[1]>>
                            ELSE <<"h", cell[1], cell[2] - 1>>
      [] side = "right"  -> IF cell[2] = BoardSize - 1 THEN <<"r", cell[1]>>
                            ELSE <<"h", cell[1], cell[2]>>

KeyOf(m) == physicalEdgeKey(m.cell, m.side)

------------------------------------------------------------------------------
(* The simulated board: edges and owners of a game, drawn on by the bot.   *)

applyEdgeToSimGrid(grid, cell, side) ==
    LET other == getAdjacentBox(cell, side)
        near  == [grid EXCEPT ![cell] = @ \union {side}]
    IN  IF other \in Cells
        THEN [near EXCEPT ![other] = @ \union {Opposite(side)}]
        ELSE near

Unclaimed(sim) == {cell \in Cells : sim.owner[cell] = NoSeat}

newlyClosed(sim, cell, side) ==
    LET grid == applyEdgeToSimGrid(sim.edges, cell, side)
    IN  {d \in Unclaimed(sim) : grid[d] = Sides}

countNewCompletions(sim, m) == Cardinality(newlyClosed(sim, m.cell, m.side))

countUnclaimedBoxesWithThreeEdges(sim, m) ==
    LET grid == applyEdgeToSimGrid(sim.edges, m.cell, m.side)
    IN  Cardinality({d \in Unclaimed(sim) : Cardinality(grid[d]) = 3})

\* Draw the line, then give every box that is now closed to the player.
simulate(sim, m, p) ==
    LET grid == applyEdgeToSimGrid(sim.edges, m.cell, m.side)
    IN  [edges |-> grid,
         owner |-> [d \in Cells |-> IF sim.owner[d] = NoSeat /\ grid[d] = Sides
                                    THEN p ELSE sim.owner[d]]]

collectAllLegalMoves(sim, p) ==
    {m \in [seat : {p}, cell : Cells, side : Sides] :
        isEdgeAvailable(sim.edges, m.cell, m.side)}

------------------------------------------------------------------------------
(* The choice.                                                             *)

dedupeMovesByPhysicalEdge(moves) ==
    {m \in moves : \A o \in moves : KeyOf(o) = KeyOf(m) => ~moveLess(o, m)}

\* Mutant: the candidates are not restricted to the largest capture.
movePoolAll(g, p) == dedupeMovesByPhysicalEdge(collectAllLegalMoves(g, p))

\* Every move chooseBotMove may return; none stands for the nil result.
movePool(g, p) ==
    LET candidates == dedupeMovesByPhysicalEdge(collectAllLegalMoves(g, p))
        most == Max({0} \union {countNewCompletions(g, m) : m \in candidates})
    IN  {m \in candidates : most > 0 => countNewCompletions(g, m) = most}

------------------------------------------------------------------------------
(* Properties.                                                             *)

Gain(g, m) == ApplyMove(g, m).score[m.seat] - g.score[m.seat]

LegalNow(g) == {m \in Moves : validateMove(g, m)}

\* While the game is on, the bot to move always finds a line, ApplyMove takes
\* whichever it picks, no legal line would have captured more boxes, and no
\* line is a candidate under both its names, which would make it twice as
\* likely (chooseBotMove, dedupeMovesByPhysicalEdge; without a line PlayBotTurn
\* would give up the turn).
BotTakesTheMost ==
    ~game.ended =>
        LET most == Max({Gain(game, m) : m \in LegalNow(game)})
            pool == movePool(game, game.turn)
        IN  /\ pool # {}
            /\ \A m \in pool :
                  /\ validateMove(game, m) /\ Gain(game, m) = most
                  /\ \A o \in pool :
                        LineOf(m.cell, m.side) = LineOf(o.cell, o.side) => m = o
=============================================================================
