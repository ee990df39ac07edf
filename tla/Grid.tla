-------------------------------- MODULE Grid --------------------------------
(***************************************************************************)
(* The board of a Dots and Boxes game (internal/game/game.go).             *)
(*                                                                         *)
(* The code keeps a BoardSize x BoardSize array of Box values, each with    *)
(* four booleans, so a line between two boxes is stored twice: as the      *)
(* right edge of one box and the left edge of the next.  Here a grid maps  *)
(* every cell to the set of its sides that are drawn, and the duplication  *)
(* is kept: setEdge has to write both copies.                              *)
(***************************************************************************)
EXTENDS Integers

CONSTANT BoardSize

\* CreateGame accepts 5..10; nothing below depends on those two numbers, so
\* the model checker may use smaller boards and the proofs cover every size.
ASSUME BoardSizeAssumption == BoardSize \in Nat \ {0}

Lines == 0 .. BoardSize - 1
Cells == Lines \X Lines
Sides == {"top", "right", "bottom", "left"}

makeEmptyGrid == [cell \in Cells |-> {}]

\* The same side as seen from the box on the other side of the line.
Opposite(side) ==
    CASE side = "top"    -> "bottom"
      [] side = "right"  -> "left"
      [] side = "bottom" -> "top"
      [] side = "left"   -> "right"

\* May lie outside the board: the callers test it against Cells.
getAdjacentBox(cell, side) ==
    CASE side = "top"    -> <<cell[1] - 1, cell[2]>>
      [] side = "right"  -> <<cell[1], cell[2] + 1>>
      [] side = "bottom" -> <<cell[1] + 1, cell[2]>>
      [] side = "left"   -> <<cell[1], cell[2] - 1>>

isEdgeAvailable(grid, cell, side) ==
    cell \in Cells /\ side \in Sides /\ side \notin grid[cell]

isBoxComplete(grid, cell) == grid[cell] = Sides

\* Draws a line: on the named box, and on the box that shares it, if any.
setEdge(grid, cell, side) ==
    [d \in Cells |->
        IF d = cell THEN grid[d] \union {side}
        ELSE IF d = getAdjacentBox(cell, side)
             THEN grid[d] \union {Opposite(side)}
             ELSE grid[d]]
=============================================================================
