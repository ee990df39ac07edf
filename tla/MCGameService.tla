---------------------------- MODULE MCGameService ----------------------------
(* Openings for the model checker.                                         *)
EXTENDS GameService

M(seat, row, col, side) == [seat |-> seat, cell |-> <<row, col>>, side |-> side]

\* The game has only just been created.
NoOpening == <<>>

\* One box, two of its sides drawn.
HalfABox == << M(0, 0, 0, "top"), M(1, 0, 0, "left") >>

\* Four boxes, one of them owned, and two lines left: either closes a box, and
\* the last box needs both.  Seat 1 is to move.
LateGame ==
    << M(0, 0, 0, "top"), M(1, 0, 0, "left"), M(0, 1, 0, "left"), M(1, 1, 0, "bottom"),
       M(0, 0, 1, "top"), M(1, 0, 1, "right"), M(0, 0, 1, "left"),
       M(1, 0, 1, "bottom"), M(1, 1, 1, "right"), M(0, 1, 1, "bottom") >>
=============================================================================
