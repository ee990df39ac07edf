---------------------------- MODULE DotsAndBoxes ----------------------------
(***************************************************************************)
(* The rules of the game, stated without the program's data structures: a  *)
(* set of lines on paper, boxes bounded by four of them, and who claimed   *)
(* which box.  There is one copy of every line, no stored score and no     *)
(* list of completed boxes.  GameAggregate is shown to implement it.       *)
(***************************************************************************)
EXTENDS Integers, FiniteSets

CONSTANTS Size, Players, Nobody, Next(_)

VARIABLES lines, claimed, toMove, over, victor

vars == <<lines, claimed, toMove, over, victor>>

Boxes == (0 .. Size - 1) \X (0 .. Size - 1)

\* The four lines around a box; neighbouring boxes have one in common.
Boundary(b) == { <<"across", b[1], b[2]>>, <<"across", b[1] + 1, b[2]>>,
                 <<"down", b[1], b[2]>>, <<"down", b[1], b[2] + 1>> }

Paper == UNION { Boundary(b) : b \in Boxes }

Points(claims, p) == Cardinality({b \in Boxes : claims[b] = p})

SoleLeader(claims, p) ==
    \A q \in Players \ {p} : Points(claims, q) < Points(claims, p)

Victor(claims) ==
    IF \E p \in Players : SoleLeader(claims, p)
    THEN CHOOSE p \in Players : SoleLeader(claims, p)
    ELSE Nobody

Init ==
    /\ lines = {}
    /\ claimed = [b \in Boxes |-> Nobody]
    /\ toMove = 0
    /\ over = FALSE
    /\ victor = Nobody

\* Player p draws one missing line and takes every box it closes.
Draw(p, line) ==
    LET closed == {b \in Boxes : line \in Boundary(b)
                                 /\ Boundary(b) \subseteq lines \union {line}}
        claims == [b \in Boxes |-> IF b \in closed THEN p ELSE claimed[b]]
        full   == \A b \in Boxes : claims[b] # Nobody
    IN  /\ ~over
        /\ toMove = p
        /\ line \notin lines
        /\ lines' = lines \union {line}
        /\ claimed' = claims
        /\ toMove' = IF closed = {} THEN Next(p) ELSE p
        /\ over' = full
        /\ victor' = IF full THEN Victor(claims) ELSE Nobody

Skip ==
    /\ ~over
    /\ toMove' = Next(toMove)
    /\ UNCHANGED <<lines, claimed, over, victor>>

\* Somebody gives up; a leader among the others wins.
Resign ==
    /\ ~over
    /\ over' = TRUE
    /\ \E rest \in {Players} \union {Players \ {p} : p \in Players} :
          \E w \in rest :
              /\ \A q \in rest : Points(claimed, q) <= Points(claimed, w)
              /\ victor' = w
    /\ UNCHANGED <<lines, claimed, toMove>>

Play ==
    \/ \E p \in Players, line \in Paper : Draw(p, line)
    \/ Skip
    \/ Resign

Spec == Init /\ [][Play]_vars
=============================================================================
