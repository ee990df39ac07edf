------------------------- MODULE GameAggregateProofs -------------------------
(***************************************************************************)
(* Proofs about the Game aggregate, for every board size and 2 to 4        *)
(* players.  The inductive invariant is the conjunction of the properties  *)
(* the model checker checks on a 2 x 2 board.  They need each other: that  *)
(* scores count boxes needs that a box is claimed once, so that an owned   *)
(* box is complete; that a player can always move needs that a board whose *)
(* boxes are all complete has been noticed to be full.                     *)
(*                                                                         *)
(* Two parts show that the aggregate implements DotsAndBoxes, the game on   *)
(* paper, and TurnGame, the game as the turn clock and the bots see it.     *)
(* The first forgets on which boxes a line was recorded; the second counts  *)
(* the lines that are left, of 2n(n + 1) on a board of n x n boxes.         *)
(*                                                                         *)
(* Two more are about programs that read the aggregate.  The film of the    *)
(* replay page: the loop that guesses from the recorded events where a      *)
(* command ends has caught up with the game after each command, whatever    *)
(* the command was.  The choice of the bots: their own copy of the rules    *)
(* finds the same boxes closed as the aggregate.                            *)
(***************************************************************************)
EXTENDS BotChoice, Replay, FiniteSetTheorems, TLAPS

USE BoardSizeAssumption, NumPlayersAssumption, NamesAssumption

------------------------------------------------------------------------------
(* Geometry.                                                               *)

\* Crossing a line and crossing it back returns to the same box, and to the
\* same line (game.go, getAdjacentBox and setEdge).
LEMMA CrossAndBack ==
    ASSUME NEW cell \in Cells, NEW side \in Sides
    PROVE  /\ Opposite(side) \in Sides
           /\ Opposite(Opposite(side)) = side
           /\ getAdjacentBox(cell, side) # cell
           /\ getAdjacentBox(getAdjacentBox(cell, side), Opposite(side)) = cell
  BY DEF Cells, Lines, Sides, Opposite, getAdjacentBox

\* From a given box two sides never lead to the same neighbour.
LEMMA OneSharedLine ==
    ASSUME NEW cell \in Cells, NEW s \in Sides, NEW t \in Sides,
           getAdjacentBox(cell, s) = getAdjacentBox(cell, t)
    PROVE  s = t
  BY DEF Cells, Lines, Sides, getAdjacentBox

\* Drawing a line on a grid gives a grid (game.go, setEdge).
LEMMA SetEdgeType ==
    ASSUME NEW grid \in [Cells -> SUBSET Sides], NEW cell \in Cells, NEW side \in Sides
    PROVE  setEdge(grid, cell, side) \in [Cells -> SUBSET Sides]
  BY CrossAndBack DEF setEdge

\* Drawing a line keeps the two copies of every line equal (game.go, setEdge).
LEMMA SetEdgeMirrored ==
    ASSUME NEW grid \in [Cells -> SUBSET Sides], NEW cell \in Cells, NEW side \in Sides,
           Mirrored(grid)
    PROVE  Mirrored(setEdge(grid, cell, side))
  <1> DEFINE new == setEdge(grid, cell, side)
             adj == getAdjacentBox(cell, side)
  <1> SUFFICES ASSUME NEW c \in Cells, NEW s \in Sides, getAdjacentBox(c, s) \in Cells
               PROVE  s \in new[c] <=> Opposite(s) \in new[getAdjacentBox(c, s)]
    BY DEF Mirrored
  <1> DEFINE d == getAdjacentBox(c, s)
  <1>1. s \in grid[c] <=> Opposite(s) \in grid[d]
    BY DEF Mirrored
  <1>2. s \in new[c] <=> s \in grid[c] \/ (c = cell /\ s = side)
                                       \/ (c = adj /\ s = Opposite(side))
    BY CrossAndBack DEF setEdge
  <1>3. Opposite(s) \in new[d] <=>
            Opposite(s) \in grid[d] \/ (d = cell /\ Opposite(s) = side)
                                    \/ (d = adj /\ Opposite(s) = Opposite(side))
    BY CrossAndBack DEF setEdge
  <1>4. (c = cell /\ s = side) <=> (d = adj /\ Opposite(s) = Opposite(side))
    BY CrossAndBack
  <1>5. (c = adj /\ s = Opposite(side)) <=> (d = cell /\ Opposite(s) = side)
    BY CrossAndBack
  <1>6. QED
    BY <1>1, <1>2, <1>3, <1>4, <1>5

------------------------------------------------------------------------------
(* One domain event at a time.                                             *)

\* The set of boxes is finite, so boxes can be counted.
LEMMA CellsFinite == IsFiniteSet(Cells)
  <1>1. IsFiniteSet(Lines)
    BY FS_Interval DEF Lines
  <1>2. QED
    BY <1>1, FS_Product DEF Cells

\* MoveApplied changes the grid only (game.go, applyEvent).
LEMMA DrawnFields ==
    ASSUME NEW g \in Games, NEW move \in Moves
    PROVE  /\ drawn(g, move) \in Games
           /\ drawn(g, move).edges = setEdge(g.edges, move.cell, move.side)
           /\ drawn(g, move).owner = g.owner
           /\ drawn(g, move).score = g.score
           /\ drawn(g, move).turn = g.turn
           /\ drawn(g, move).ended = g.ended
           /\ drawn(g, move).winner = g.winner
  BY SetEdgeType DEF drawn, drawEdge, Games, Moves

\* BoxCompleted on an unowned box keeps scores equal to box counts
\* (game.go, applyEvent).
LEMMA ClaimBoxCounted ==
    ASSUME NEW g \in Games, NEW box \in Cells, NEW p \in Seats,
           g.owner[box] = NoSeat
    PROVE  /\ claimBox(g, box, p) \in Games
           /\ claimBox(g, box, p).edges = g.edges
           /\ claimBox(g, box, p).owner = [g.owner EXCEPT ![box] = p]
           /\ claimBox(g, box, p).turn = g.turn
           /\ claimBox(g, box, p).ended = g.ended
           /\ claimBox(g, box, p).winner = g.winner
           /\ Counted(g) => Counted(claimBox(g, box, p))
  <1> DEFINE h == claimBox(g, box, p)
  <1>1. /\ h \in Games
        /\ h.edges = g.edges
        /\ h.owner = [g.owner EXCEPT ![box] = p]
        /\ h.score = [g.score EXCEPT ![p] = @ + 1]
        /\ h.turn = g.turn
        /\ h.ended = g.ended
        /\ h.winner = g.winner
    <2> DEFINE owner == [g.owner EXCEPT ![box] = p]
               score == [g.score EXCEPT ![p] = @ + 1]
    <2>1. /\ owner \in [Cells -> Seats \union {NoSeat}]
          /\ score \in [Seats -> Nat]
      BY DEF Games
    <2>2. h = [g EXCEPT !.owner = owner, !.score = score]
      BY DEF claimBox, Games
    <2> HIDE DEF owner, score
    <2>3. /\ h \in Games
          /\ h.edges = g.edges
          /\ h.owner = owner
          /\ h.score = score
          /\ h.turn = g.turn
          /\ h.ended = g.ended
          /\ h.winner = g.winner
      BY <2>1, <2>2 DEF Games
    <2>4. QED
      BY <2>3 DEF owner, score
  <1>2. ASSUME Counted(g), NEW q \in Seats
        PROVE  h.score[q] = Cardinality(BoxesOf(h, q))
    <2>1. g.owner \in [Cells -> Seats \union {NoSeat}] /\ g.score \in [Seats -> Nat]
      BY DEF Games
    <2>2. IsFiniteSet(BoxesOf(g, q)) /\ g.score[q] = Cardinality(BoxesOf(g, q))
      BY <1>2, CellsFinite, FS_Subset DEF BoxesOf, Counted
    <2>3. CASE q = p
      <3>1. BoxesOf(h, q) = BoxesOf(g, q) \union {box} /\ box \notin BoxesOf(g, q)
        BY <1>1, <2>1, <2>3 DEF BoxesOf
      <3>2. Cardinality(BoxesOf(h, q)) = Cardinality(BoxesOf(g, q)) + 1
        BY <3>1, <2>2, FS_AddElement
      <3>3. h.score[q] = g.score[q] + 1
        BY <1>1, <2>1, <2>3
      <3>4. QED
        BY <3>2, <3>3, <2>2
    <2>4. CASE q # p
      <3>1. BoxesOf(h, q) = BoxesOf(g, q)
        BY <1>1, <2>1, <2>4 DEF BoxesOf
      <3>2. h.score[q] = g.score[q]
        BY <1>1, <2>1, <2>4
      <3>3. QED
        BY <3>1, <3>2, <2>2
    <2>5. QED
      BY <2>3, <2>4
  <1>3. QED
    BY <1>1, <1>2 DEF Counted

\* The boxes a move completes: unowned, and complete once the line is drawn.
Completed(g, move) ==
    {cell \in Cells : /\ cell = move.cell \/ cell = getAdjacentBox(move.cell, move.side)
                      /\ g.owner[cell] = NoSeat
                      /\ isBoxComplete(setEdge(g.edges, move.cell, move.side), cell)}

\* The state after the BoxCompleted events: the completed boxes have the
\* mover as owner, every other box keeps its owner, and the scores still
\* count the boxes (game.go, findNewlyCompletedBoxes and ApplyMove).
LEMMA BoxesClaimedFields ==
    ASSUME NEW g \in Games, NEW move \in Moves
    PROVE  LET h == boxesClaimed(g, move)
           IN  /\ h \in Games
               /\ h.edges = setEdge(g.edges, move.cell, move.side)
               /\ h.owner = [cell \in Cells |-> IF cell \in Completed(g, move)
                                                THEN move.seat ELSE g.owner[cell]]
               /\ h.turn = g.turn
               /\ h.ended = g.ended
               /\ h.winner = g.winner
               /\ Counted(g) => Counted(h)
               /\ completedNone(g, move) <=> Completed(g, move) = {}
  <1> DEFINE cell == move.cell
             adj == getAdjacentBox(move.cell, move.side)
             d == drawn(g, move)
             k == ownClaimed(g, move)
             h == boxesClaimed(g, move)
  <1>1. cell \in Cells /\ move.side \in Sides /\ move.seat \in Seats /\ adj # cell
    BY CrossAndBack DEF Moves
  <1>2. /\ d \in Games
        /\ d.edges = setEdge(g.edges, move.cell, move.side)
        /\ d.owner = g.owner
        /\ d.score = g.score
        /\ d.turn = g.turn
        /\ d.ended = g.ended
        /\ d.winner = g.winner
    BY DrawnFields
  <1>3. g.owner \in [Cells -> Seats \union {NoSeat}]
    BY DEF Games
  <1>4. ownCompleted(g, move) <=> cell \in Completed(g, move)
    BY <1>1, <1>2 DEF ownCompleted, findCompletableBox, Completed
  <1>5. adjacentCompleted(g, move) <=> adj \in Completed(g, move)
    BY <1>1, <1>2 DEF adjacentCompleted, findCompletableBox, Completed
  <1>6. Completed(g, move) \subseteq {cell, adj}
    BY DEF Completed
  <1>7. Counted(g) => Counted(d)
    BY <1>2 DEF Counted, BoxesOf
  <1>8. /\ k \in Games
        /\ k.edges = d.edges
        /\ k.owner = [c \in Cells |-> IF c = cell /\ ownCompleted(g, move)
                                      THEN move.seat ELSE g.owner[c]]
        /\ k.turn = g.turn
        /\ k.ended = g.ended
        /\ k.winner = g.winner
        /\ Counted(g) => Counted(k)
    <2>1. CASE ownCompleted(g, move)
      <3>1. k = claimBox(d, cell, move.seat)
        BY <2>1 DEF ownClaimed
      <3>2. d.owner[cell] = NoSeat
        BY <2>1 DEF ownCompleted, findCompletableBox
      <3>3. /\ k \in Games
            /\ k.edges = d.edges
            /\ k.owner = [d.owner EXCEPT ![cell] = move.seat]
            /\ k.turn = d.turn
            /\ k.ended = d.ended
            /\ k.winner = d.winner
            /\ Counted(d) => Counted(k)
        BY <3>1, <3>2, <1>1, <1>2, ClaimBoxCounted
      <3>4. QED
        BY <3>3, <2>1, <1>1, <1>2, <1>3, <1>7
    <2>2. CASE ~ownCompleted(g, move)
      <3>1. k = d
        BY <2>2 DEF ownClaimed
      <3>2. QED
        BY <3>1, <2>2, <1>2, <1>3, <1>7
    <2>3. QED
      BY <2>1, <2>2
  <1>9. /\ h \in Games
        /\ h.edges = d.edges
        /\ h.owner = [c \in Cells |-> IF c = adj /\ adjacentCompleted(g, move)
                                      THEN move.seat ELSE k.owner[c]]
        /\ h.turn = g.turn
        /\ h.ended = g.ended
        /\ h.winner = g.winner
        /\ Counted(g) => Counted(h)
    <2>1. CASE adjacentCompleted(g, move)
      <3>1. h = claimBox(k, adj, move.seat)
        BY <2>1 DEF boxesClaimed
      <3>2. adj \in Cells /\ k.owner[adj] = NoSeat
        BY <2>1, <1>1, <1>2, <1>8 DEF adjacentCompleted, findCompletableBox
      <3>3. /\ h \in Games
            /\ h.edges = k.edges
            /\ h.owner = [k.owner EXCEPT ![adj] = move.seat]
            /\ h.turn = k.turn
            /\ h.ended = k.ended
            /\ h.winner = k.winner
            /\ Counted(k) => Counted(h)
        BY <3>1, <3>2, <1>1, <1>8, ClaimBoxCounted
      <3>4. k.owner \in [Cells -> Seats \union {NoSeat}]
        BY <1>8 DEF Games
      <3>5. QED
        BY <3>2, <3>3, <3>4, <2>1, <1>8
    <2>2. CASE ~adjacentCompleted(g, move)
      <3>1. h = k
        BY <2>2 DEF boxesClaimed
      <3>2. k.owner \in [Cells -> Seats \union {NoSeat}]
        BY <1>8 DEF Games
      <3>3. QED
        BY <3>1, <3>2, <2>2, <1>8
    <2>3. QED
      BY <2>1, <2>2
  <1>10. h.owner = [c \in Cells |-> IF c \in Completed(g, move)
                                    THEN move.seat ELSE g.owner[c]]
    BY <1>1, <1>4, <1>5, <1>6, <1>8, <1>9
  <1>11. completedNone(g, move) <=> Completed(g, move) = {}
    BY <1>4, <1>5, <1>6 DEF completedNone
  <1>12. QED
    BY <1>2, <1>9, <1>10, <1>11

------------------------------------------------------------------------------
(* The end of a game.                                                      *)

\* The scan for the largest score always finds a seat: with two to four
\* seats some seat is the first of the leaders (game.go, determineWinner
\* and Forfeit).
LEMMA FirstLeaderFound ==
    ASSUME NEW score \in [Seats -> Nat], NEW among \in SUBSET Seats, among # {}
    PROVE  /\ firstLeader(score, among) \in among
           /\ \A q \in among : score[q] <= score[firstLeader(score, among)]
           /\ \A q \in among : q < firstLeader(score, among)
                                => score[q] < score[firstLeader(score, among)]
  <1> DEFINE Leads(p, S) == /\ \A q \in S : score[q] <= score[p]
                            /\ \A q \in S : q < p => score[q] < score[p]
  <1>1. \E p \in among : Leads(p, among)
    <2> DEFINE Upto(n) == {p \in among : p <= n}
               Found(n) == Upto(n) # {} => \E p \in Upto(n) : Leads(p, Upto(n))
    <2>1. \A q \in among : q \in Int /\ 0 <= q /\ q <= 3 /\ score[q] \in Nat
      BY DEF Seats
    <2>2. Found(0)
      <3>1. \A q \in Upto(0) : q = 0
        BY <2>1
      <3>2. \A p \in Upto(0) : Leads(p, Upto(0))
        BY <3>1, <2>1
      <3>3. QED
        BY <3>2
    <2>3. ASSUME NEW n \in {1, 2, 3}, Found(n - 1)
          PROVE  Found(n)
      <3>1. Upto(n) = IF n \in among THEN Upto(n - 1) \union {n} ELSE Upto(n - 1)
        BY <2>1
      <3>2. CASE n \notin among
        BY <2>3, <3>1, <3>2
      <3>3. CASE n \in among /\ Upto(n - 1) = {}
        BY <2>1, <3>1, <3>3
      <3>4. CASE n \in among /\ Upto(n - 1) # {}
        <4>1. PICK p \in Upto(n - 1) : Leads(p, Upto(n - 1))
          BY <2>3, <3>4
        <4>2. CASE score[p] < score[n]
          <5>1. Leads(n, Upto(n))
            BY <2>1, <3>1, <3>4, <4>1, <4>2
          <5>2. QED
            BY <5>1, <3>1, <3>4
        <4>3. CASE ~(score[p] < score[n])
          <5>1. Leads(p, Upto(n))
            BY <2>1, <3>1, <3>4, <4>1, <4>3
          <5>2. QED
            BY <5>1, <4>1, <3>1, <3>4
        <4>4. QED
          BY <4>2, <4>3
      <3>5. QED
        BY <3>2, <3>3, <3>4
    <2>4. Found(1)
      <3>1. Found(1 - 1) BY <2>2
      <3>2. QED BY <3>1, <2>3
    <2>5. Found(2)
      <3>1. Found(2 - 1) BY <2>4
      <3>2. QED BY <3>1, <2>3
    <2>6. Found(3)
      <3>1. Found(3 - 1) BY <2>5
      <3>2. QED BY <3>1, <2>3
    <2>7. Upto(3) = among
      BY <2>1
    <2>8. QED
      BY <2>6, <2>7
  <1>2. QED
    BY <1>1 DEF firstLeader

\* The scan with a tie flag finds the sole leader, if there is one
\* (game.go, determineWinner).
LEMMA WinnerIsRight ==
    ASSUME NEW g \in Games
    PROVE  determineWinner(g) = RightWinner(g) /\ determineWinner(g) \in Seats \union {NoSeat}
  <1> DEFINE l == firstLeader(g.score, Seats)
             tie == \E q \in Seats : q > l /\ g.score[q] = g.score[l]
  <1>1. g.score \in [Seats -> Nat] /\ Seats # {} /\ Seats \subseteq Nat
    BY DEF Games, Seats
  <1>2. /\ l \in Seats
        /\ \A q \in Seats : g.score[q] <= g.score[l]
        /\ \A q \in Seats : q < l => g.score[q] < g.score[l]
    BY <1>1, FirstLeaderFound
  <1>3. determineWinner(g) = IF tie THEN NoSeat ELSE l
    BY DEF determineWinner
  <1> HIDE DEF l
  <1>4. CASE tie
    <2>1. PICK q \in Seats : q > l /\ g.score[q] = g.score[l]
      BY <1>4
    <2>2. ASSUME NEW p \in Seats PROVE ~SoleLeader(g, p)
      <3>1. \E r \in Seats \ {p} : g.score[r] = g.score[l]
        BY <2>1, <1>1, <1>2
      <3>2. QED
        BY <3>1, <1>1, <1>2 DEF SoleLeader
    <2>3. QED
      BY <1>3, <1>4, <2>2 DEF RightWinner
  <1>5. CASE ~tie
    <2>1. SoleLeader(g, l)
      BY <1>1, <1>2, <1>5 DEF SoleLeader
    <2>2. ASSUME NEW p \in Seats, SoleLeader(g, p) PROVE p = l
      BY <1>1, <1>2, <2>2 DEF SoleLeader
    <2>3. QED
      BY <1>2, <1>3, <1>5, <2>1, <2>2 DEF RightWinner
  <1>6. QED
    BY <1>4, <1>5

\* GameEnded changes the result only (game.go, applyEvent).
LEMMA EndIfFullFields ==
    ASSUME NEW g \in Games
    PROVE  LET h == endIfFull(g)
           IN  /\ h \in Games
               /\ h.edges = g.edges
               /\ h.owner = g.owner
               /\ h.score = g.score
               /\ h.turn = g.turn
               /\ h.ended = (g.ended \/ isGameOver(g))
               /\ h.winner = IF isGameOver(g) THEN RightWinner(g) ELSE g.winner
  BY WinnerIsRight DEF endIfFull, endGame, Games

\* TurnPassed changes the turn only (game.go, applyEvent).
LEMMA PassTurnFields ==
    ASSUME NEW g \in Games
    PROVE  LET h == passTurn(g, nextSeat(g))
           IN  /\ h \in Games
               /\ h.edges = g.edges
               /\ h.owner = g.owner
               /\ h.score = g.score
               /\ h.turn = nextSeat(g)
               /\ h.ended = g.ended
               /\ h.winner = g.winner
  <1>1. nextSeat(g) \in Seats
    BY DEF nextSeat, Seats, Games
  <1>2. QED
    BY <1>1 DEF passTurn, Games

\* What one whole move does to every field (game.go, ApplyMove).
LEMMA ApplyMoveFields ==
    ASSUME NEW g \in Games, NEW move \in Moves
    PROVE  LET h == ApplyMove(g, move)
           IN  /\ h \in Games
               /\ h.edges = setEdge(g.edges, move.cell, move.side)
               /\ h.owner = [cell \in Cells |-> IF cell \in Completed(g, move)
                                                THEN move.seat ELSE g.owner[cell]]
               /\ h.turn = IF Completed(g, move) = {} THEN nextSeat(g) ELSE g.turn
               /\ h.ended = (g.ended \/ isGameOver(h))
               /\ h.winner = IF isGameOver(h) THEN RightWinner(h) ELSE g.winner
               /\ Counted(g) => Counted(h)
  <1> DEFINE b == boxesClaimed(g, move)
             t == turnSettled(g, move)
             h == ApplyMove(g, move)
  <1>1. /\ b \in Games
        /\ b.edges = setEdge(g.edges, move.cell, move.side)
        /\ b.owner = [cell \in Cells |-> IF cell \in Completed(g, move)
                                         THEN move.seat ELSE g.owner[cell]]
        /\ b.turn = g.turn
        /\ b.ended = g.ended
        /\ b.winner = g.winner
        /\ Counted(g) => Counted(b)
        /\ completedNone(g, move) <=> Completed(g, move) = {}
    BY BoxesClaimedFields
  <1>2. nextSeat(g) \in Seats
    BY DEF nextSeat, Seats, Games
  <1>3. /\ t \in Games
        /\ t.edges = b.edges
        /\ t.owner = b.owner
        /\ t.score = b.score
        /\ t.turn = IF Completed(g, move) = {} THEN nextSeat(g) ELSE g.turn
        /\ t.ended = g.ended
        /\ t.winner = g.winner
    BY <1>1, <1>2 DEF turnSettled, passTurn, Games
  <1>4. /\ h \in Games
        /\ h.edges = t.edges
        /\ h.owner = t.owner
        /\ h.score = t.score
        /\ h.turn = t.turn
        /\ h.ended = (t.ended \/ isGameOver(t))
        /\ h.winner = IF isGameOver(t) THEN RightWinner(t) ELSE t.winner
    BY <1>3, EndIfFullFields DEF ApplyMove
  <1>5. isGameOver(t) <=> isGameOver(h)
    BY <1>4 DEF isGameOver
  <1>6. RightWinner(t) = RightWinner(h)
    BY <1>4 DEF RightWinner, SoleLeader
  <1>7. Counted(b) => Counted(h)
    BY <1>3, <1>4 DEF Counted, BoxesOf
  <1>8. QED
    BY <1>1, <1>3, <1>4, <1>5, <1>6, <1>7

------------------------------------------------------------------------------
(* The inductive invariant: the checked properties, together.              *)

IInv ==
    /\ TypeOK
    /\ EdgesMirrored
    /\ OwnedIffComplete
    /\ ScoresCountBoxes
    /\ FullBoardIsDecided

\* The empty board is consistent (game.go, NewGame).
LEMMA InitInv == Init => IInv
  <1> SUFFICES ASSUME Init PROVE IInv
    OBVIOUS
  <1> USE DEF Init
  <1>1. 0 \in Seats /\ <<0, 0>> \in Cells
    BY DEF Seats, Cells, Lines
  <1>2. TypeOK
    BY <1>1 DEF TypeOK, Games, newGame, makeEmptyGrid
  <1>3. EdgesMirrored
    BY DEF EdgesMirrored, Mirrored, newGame, makeEmptyGrid
  <1>4. OwnedIffComplete
    BY DEF OwnedIffComplete, OwnedExactlyIfComplete, isBoxComplete, Sides,
           newGame, makeEmptyGrid
  <1>5. ScoresCountBoxes
    <2> SUFFICES ASSUME NEW p \in Seats
                 PROVE  game.score[p] = Cardinality(BoxesOf(game, p))
      BY DEF ScoresCountBoxes, Counted
    <2>1. BoxesOf(game, p) = {}
      BY DEF BoxesOf, newGame
    <2>2. QED
      BY <2>1, FS_EmptySet DEF newGame
  <1>6. FullBoardIsDecided
    BY <1>1 DEF FullBoardIsDecided, isGameOver, newGame
  <1>7. QED
    BY <1>2, <1>3, <1>4, <1>5, <1>6 DEF IInv

\* A move keeps the game consistent (game.go, ApplyMove).
LEMMA MoveInv ==
    ASSUME IInv, NEW move \in Moves, MakeMove(move)
    PROVE  IInv'
  <1> DEFINE cell == move.cell
             adj == getAdjacentBox(move.cell, move.side)
  <1>1. game \in Games /\ game' = ApplyMove(game, move)
    BY DEF IInv, TypeOK, MakeMove
  <1>2. /\ game' \in Games
        /\ game'.edges = setEdge(game.edges, move.cell, move.side)
        /\ game'.owner = [c \in Cells |-> IF c \in Completed(game, move)
                                          THEN move.seat ELSE game.owner[c]]
        /\ game'.ended = (game.ended \/ isGameOver(game'))
        /\ game'.winner = IF isGameOver(game') THEN RightWinner(game') ELSE game.winner
        /\ Counted(game) => Counted(game')
    BY <1>1, ApplyMoveFields
  <1>3. cell \in Cells /\ move.side \in Sides /\ move.seat \in Seats
    BY DEF Moves
  <1>4. game.edges \in [Cells -> SUBSET Sides]
    BY <1>1 DEF Games
  <1>5. TypeOK'
    BY <1>2 DEF TypeOK
  <1>6. EdgesMirrored'
    BY <1>2, <1>3, <1>4, SetEdgeMirrored DEF IInv, EdgesMirrored
  <1>7. OwnedIffComplete'
    <2> SUFFICES ASSUME NEW c \in Cells
                 PROVE  game'.owner[c] # NoSeat <=> isBoxComplete(game'.edges, c)
      BY DEF OwnedIffComplete, OwnedExactlyIfComplete
    <2>1. game.owner[c] # NoSeat <=> isBoxComplete(game.edges, c)
      BY DEF IInv, OwnedIffComplete, OwnedExactlyIfComplete
    <2>2. CASE c # cell /\ c # adj
      <3>1. game'.edges[c] = game.edges[c]
        BY <1>2, <2>2 DEF setEdge
      <3>2. game'.owner[c] = game.owner[c]
        BY <1>2, <2>2 DEF Completed
      <3>3. QED
        BY <2>1, <3>1, <3>2 DEF isBoxComplete
    <2>3. CASE (c = cell \/ c = adj) /\ game.owner[c] = NoSeat
      BY <1>2, <1>3, <2>3, NamesAssumption DEF Completed
    <2>4. CASE (c = cell \/ c = adj) /\ game.owner[c] # NoSeat
      <3>1. game'.owner[c] = game.owner[c]
        BY <1>2, <2>4 DEF Completed
      <3>2. game.edges[c] \subseteq game'.edges[c]
        BY <1>2 DEF setEdge
      <3>3. game'.edges[c] \subseteq Sides
        BY <1>2 DEF Games
      <3>4. QED
        BY <2>1, <2>4, <3>1, <3>2, <3>3 DEF isBoxComplete
    <2>5. QED
      BY <2>2, <2>3, <2>4
  <1>8. ScoresCountBoxes'
    BY <1>2 DEF IInv, ScoresCountBoxes
  <1>9. FullBoardIsDecided'
    BY <1>2 DEF FullBoardIsDecided
  <1>10. QED
    BY <1>5, <1>6, <1>7, <1>8, <1>9 DEF IInv

\* An unfinished game never has a full board, so the board check after a
\* timeout pass changes nothing in a game that is used by one command at a
\* time (game.go, PassTurnOnTimeout).
LEMMA TimeoutInv ==
    ASSUME IInv, TimeoutPass
    PROVE  IInv'
  <1> DEFINE passed == passTurn(game, nextSeat(game))
  <1>1. game \in Games /\ ~game.ended /\ ~isGameOver(game)
    BY DEF IInv, TypeOK, TimeoutPass, FullBoardIsDecided
  <1>2. /\ passed \in Games
        /\ passed.edges = game.edges
        /\ passed.owner = game.owner
        /\ passed.score = game.score
        /\ passed.ended = game.ended
    BY <1>1, PassTurnFields
  <1>3. game' = passed
    BY <1>1, <1>2 DEF TimeoutPass, PassTurnOnTimeout, endIfFull, isGameOver
  <1>4. TypeOK'
    BY <1>2, <1>3 DEF TypeOK
  <1>5. EdgesMirrored' /\ OwnedIffComplete'
    BY <1>2, <1>3 DEF IInv, EdgesMirrored, OwnedIffComplete,
                      OwnedExactlyIfComplete
  <1>6. ScoresCountBoxes'
    BY <1>2, <1>3 DEF IInv, ScoresCountBoxes, Counted, BoxesOf
  <1>7. FullBoardIsDecided'
    BY <1>1, <1>2, <1>3 DEF FullBoardIsDecided, isGameOver
  <1>8. QED
    BY <1>4, <1>5, <1>6, <1>7 DEF IInv

\* A forfeit names another seat as the winner and touches nothing else
\* (game.go, Forfeit).
LEMMA ForfeitFields ==
    ASSUME NEW g \in Games, NEW u \in Users
    PROVE  LET h == Forfeit(g, u)
           IN  /\ h \in Games
               /\ h.edges = g.edges
               /\ h.owner = g.owner
               /\ h.score = g.score
               /\ h.turn = g.turn
               /\ h.ended = TRUE
               /\ h.winner \in Seats \ {u}
  <1>1. g.score \in [Seats -> Nat]
    BY DEF Games
  <1>2. Seats \ {u} # {} /\ Seats \ {u} \subseteq Seats
    BY DEF Seats
  <1>3. forfeitWinner(g, u) \in Seats \ {u}
    BY <1>1, <1>2, FirstLeaderFound DEF forfeitWinner
  <1>4. QED
    BY <1>3 DEF Forfeit, endGame, Games

\* A forfeit keeps the game consistent (game.go, Forfeit).
LEMMA ForfeitInv ==
    ASSUME IInv, NEW u \in Users, ForfeitGame(u)
    PROVE  IInv'
  <1>1. game \in Games /\ ~isGameOver(game) /\ game' = Forfeit(game, u)
    BY DEF IInv, TypeOK, ForfeitGame, FullBoardIsDecided
  <1>2. /\ game' \in Games
        /\ game'.edges = game.edges
        /\ game'.owner = game.owner
        /\ game'.score = game.score
    BY <1>1, ForfeitFields
  <1>3. TypeOK'
    BY <1>2 DEF TypeOK
  <1>4. EdgesMirrored' /\ OwnedIffComplete'
    BY <1>2 DEF IInv, EdgesMirrored, OwnedIffComplete, OwnedExactlyIfComplete
  <1>5. ScoresCountBoxes'
    BY <1>2 DEF IInv, ScoresCountBoxes, Counted, BoxesOf
  <1>6. FullBoardIsDecided'
    BY <1>1, <1>2 DEF FullBoardIsDecided, isGameOver
  <1>7. QED
    BY <1>3, <1>4, <1>5, <1>6 DEF IInv

\* Every state of every game satisfies the inductive invariant.
THEOREM Invariance == Spec => []IInv
  <1>1. IInv /\ [Next]_game => IInv'
    <2> SUFFICES ASSUME IInv, [Next]_game PROVE IInv'
      OBVIOUS
    <2>1. ASSUME NEW move \in Moves, MakeMove(move) PROVE IInv'
      BY <2>1, MoveInv
    <2>2. CASE TimeoutPass
      BY <2>2, TimeoutInv
    <2>3. ASSUME NEW u \in Users, ForfeitGame(u) PROVE IInv'
      BY <2>3, ForfeitInv
    <2>4. CASE UNCHANGED game
      BY <2>4 DEF IInv, TypeOK, EdgesMirrored, OwnedIffComplete,
                  ScoresCountBoxes, FullBoardIsDecided
    <2>5. QED
      BY <2>1, <2>2, <2>3, <2>4 DEF Next
  <1>2. QED
    BY <1>1, InitInv, PTL DEF Spec

------------------------------------------------------------------------------
(* The results.                                                            *)

\* The aggregate keeps its types (game.go, type Game).
THEOREM TypeCorrect == Spec => []TypeOK
  BY Invariance, PTL DEF IInv

\* The two copies of a line never disagree (game.go, setEdge).
THEOREM LinesAgree == Spec => []EdgesMirrored
  BY Invariance, PTL DEF IInv

\* No completed box is missed and none is given away early
\* (game.go, findNewlyCompletedBoxes).
THEOREM BoxesAccounted == Spec => []OwnedIffComplete
  BY Invariance, PTL DEF IInv

\* Scores always equal the number of boxes owned (game.go, applyEvent).
THEOREM ScoresRight == Spec => []ScoresCountBoxes
  BY Invariance, PTL DEF IInv

\* A full board ends the game with the right winner (game.go, ApplyMove,
\* determineWinner).
THEOREM EndedRight == Spec => []FullBoardIsDecided
  BY Invariance, PTL DEF IInv

\* An unfinished board has an unowned box, and that box has a free side.
LEMMA MoveLeft == IInv => NeverStuck
  <1> SUFFICES ASSUME IInv, ~game.ended
               PROVE  \E move \in Moves : validateMove(game, move)
    BY DEF NeverStuck
  <1>1. game \in Games
    BY DEF IInv, TypeOK
  <1>2. PICK cell \in Cells : game.owner[cell] = NoSeat
    BY DEF IInv, FullBoardIsDecided, isGameOver
  <1>3. PICK side \in Sides : side \notin game.edges[cell]
    <2>1. ~isBoxComplete(game.edges, cell)
      BY <1>2 DEF IInv, OwnedIffComplete, OwnedExactlyIfComplete
    <2> QED
      BY <1>1, <2>1 DEF isBoxComplete, Games
  <1> DEFINE move == [seat |-> game.turn, cell |-> cell, side |-> side]
  <1>4. move \in Moves
    BY <1>1, <1>2, <1>3 DEF Moves, Games
  <1>5. validateMove(game, move)
    BY <1>2, <1>3 DEF validateMove, isEdgeAvailable
  <1> QED
    BY <1>4, <1>5

\* Whoever is to move in an unfinished game has a legal move (bot.go,
\* PlayBotTurn, the branch for a nil move).
THEOREM AlwaysAMove == Spec => []NeverStuck
  BY MoveLeft, Invariance, PTL

\* Forfeiting hands the game to somebody else (game.go, Forfeit).
THEOREM ForfeitRight == Spec => ForfeitBenefitsOthers
  <1>1. IInv /\ [Next]_game
           => [\A u \in Users : ForfeitGame(u) => game'.winner \in Seats \ {u}]_game
    <2> SUFFICES ASSUME IInv, NEW u \in Users, ForfeitGame(u)
                 PROVE  game'.winner \in Seats \ {u}
      OBVIOUS
    <2>1. game \in Games /\ game' = Forfeit(game, u)
      BY DEF IInv, TypeOK, ForfeitGame
    <2>2. QED
      BY <2>1, ForfeitFields
  <1>2. QED
    BY <1>1, Invariance, PTL DEF Spec, ForfeitBenefitsOthers

------------------------------------------------------------------------------
(* The aggregate implements the rules of the game on paper.                *)

\* Two boxes record the same line only when it lies between them.
LEMMA SameLine ==
    ASSUME NEW c \in Cells, NEW s \in Sides, NEW d \in Cells, NEW t \in Sides
    PROVE  LineOf(c, s) = LineOf(d, t)
              <=> \/ c = d /\ s = t
                  \/ d = getAdjacentBox(c, s) /\ t = Opposite(s)
  <1>1. PICK i \in Int, j \in Int, k \in Int, l \in Int : c = <<i, j>> /\ d = <<k, l>>
    BY DEF Cells, Lines
  <1> QED
    BY <1>1 DEF Sides, LineOf, Opposite, getAdjacentBox

LinesOn(grid) == UNION { {LineOf(cell, side) : side \in grid[cell]} : cell \in Cells }

\* A box records exactly those of its lines that are drawn on paper: nothing
\* is lost by forgetting on which box a line was recorded (game.go, setEdge).
LEMMA RecordedIffDrawn ==
    ASSUME NEW grid \in [Cells -> SUBSET Sides], Mirrored(grid),
           NEW cell \in Cells, NEW side \in Sides
    PROVE  LineOf(cell, side) \in LinesOn(grid) <=> side \in grid[cell]
  <1>1. side \in grid[cell] => LineOf(cell, side) \in LinesOn(grid)
    BY DEF LinesOn
  <1>2. ASSUME LineOf(cell, side) \in LinesOn(grid) PROVE side \in grid[cell]
    <2>1. PICK d \in Cells : \E t \in grid[d] : LineOf(cell, side) = LineOf(d, t)
      BY <1>2 DEF LinesOn
    <2>2. PICK t \in grid[d] : LineOf(cell, side) = LineOf(d, t)
      BY <2>1
    <2>3. \/ cell = d /\ side = t
          \/ d = getAdjacentBox(cell, side) /\ t = Opposite(side)
      BY <2>2, SameLine
    <2> QED
      BY <2>2, <2>3 DEF Mirrored
  <1> QED
    BY <1>1, <1>2

\* Drawing on the grid draws one line on paper, whether one box or two
\* record it (game.go, setEdge).
LEMMA SetEdgeDraws ==
    ASSUME NEW grid \in [Cells -> SUBSET Sides], NEW cell \in Cells, NEW side \in Sides
    PROVE  LinesOn(setEdge(grid, cell, side)) = LinesOn(grid) \union {LineOf(cell, side)}
  <1> DEFINE new == setEdge(grid, cell, side)
             adj == getAdjacentBox(cell, side)
  <1>1. \A d \in Cells : /\ grid[d] \subseteq new[d]
                         /\ \A t \in new[d] \ grid[d] : \/ d = cell /\ t = side
                                                        \/ d = adj /\ t = Opposite(side)
    BY DEF setEdge
  <1>2. side \in new[cell] /\ new \in [Cells -> SUBSET Sides]
    BY SetEdgeType DEF setEdge
  <1> HIDE DEF new
  <1>3. ASSUME NEW line \in LinesOn(new)
        PROVE  line \in LinesOn(grid) \union {LineOf(cell, side)}
    <2>1. PICK d \in Cells : \E t \in new[d] : line = LineOf(d, t)
      BY DEF LinesOn
    <2>2. PICK t \in new[d] : line = LineOf(d, t)
      BY <2>1
    <2>3. CASE t \in grid[d]
      BY <2>2, <2>3 DEF LinesOn
    <2>4. CASE t \notin grid[d]
      <3>1. LineOf(cell, side) = LineOf(d, t)
        BY <1>1, <1>2, <2>2, <2>4, SameLine
      <3> QED
        BY <2>2, <3>1
    <2> QED
      BY <2>3, <2>4
  <1>4. LinesOn(grid) \subseteq LinesOn(new)
    BY <1>1 DEF LinesOn
  <1>5. LineOf(cell, side) \in LinesOn(new)
    BY <1>2 DEF LinesOn
  <1> QED
    BY <1>3, <1>4, <1>5 DEF new

\* The boxes and their boundaries on paper are the cells and their sides.
LEMMA BoundaryIsSides ==
    /\ Rules!Boxes = Cells
    /\ \A b \in Cells : Rules!Boundary(b) = {LineOf(b, side) : side \in Sides}
  <1>1. Rules!Boxes = Cells
    BY DEF Rules!Boxes, Cells, Lines
  <1>2. ASSUME NEW b \in Cells
        PROVE  Rules!Boundary(b) = {LineOf(b, side) : side \in Sides}
    BY DEF Rules!Boundary, LineOf, Sides
  <1> QED
    BY <1>1, <1>2

\* A box is bounded on paper exactly when the grid has all its sides.
LEMMA BoundedIffComplete ==
    ASSUME NEW grid \in [Cells -> SUBSET Sides], Mirrored(grid), NEW b \in Cells
    PROVE  Rules!Boundary(b) \subseteq LinesOn(grid) <=> isBoxComplete(grid, b)
  <1>1. Rules!Boundary(b) \subseteq LinesOn(grid) <=> \A side \in Sides : side \in grid[b]
    BY BoundaryIsSides, RecordedIffDrawn
  <1> QED
    BY <1>1 DEF isBoxComplete

\* The boxes the code finds completed, by looking at two boxes only, are all
\* the boxes the line closes on paper (game.go, findNewlyCompletedBoxes).
LEMMA CompletedIsClosed ==
    ASSUME IInv, NEW move \in Moves, validateMove(game, move)
    PROVE  LET line == LineOf(move.cell, move.side)
           IN  Completed(game, move) =
                   {b \in Rules!Boxes : /\ line \in Rules!Boundary(b)
                                        /\ Rules!Boundary(b) \subseteq DrawnLines \union {line}}
  <1> DEFINE cell == move.cell
             side == move.side
             adj  == getAdjacentBox(cell, side)
             line == LineOf(cell, side)
             new  == setEdge(game.edges, cell, side)
  <1>1. /\ game.edges \in [Cells -> SUBSET Sides] /\ Mirrored(game.edges)
        /\ cell \in Cells /\ side \in Sides /\ side \notin game.edges[cell]
    BY DEF IInv, TypeOK, Games, EdgesMirrored, Moves, validateMove, isEdgeAvailable
  <1>2. new \in [Cells -> SUBSET Sides] /\ Mirrored(new)
    BY <1>1, SetEdgeType, SetEdgeMirrored
  <1>3. LinesOn(new) = DrawnLines \union {line}
    BY <1>1, SetEdgeDraws DEF DrawnLines, LinesOn
  <1>4. ASSUME NEW b \in Cells
        PROVE  line \in Rules!Boundary(b) <=> b = cell \/ b = adj
    <2>1. line \in Rules!Boundary(b) <=> \E t \in Sides : line = LineOf(b, t)
      BY BoundaryIsSides
    <2> QED
      BY <1>1, <2>1, SameLine, CrossAndBack
  <1>5. ASSUME NEW b \in Cells, b = cell \/ b = adj
        PROVE  game.owner[b] = NoSeat
    <2>1. ~isBoxComplete(game.edges, b)
      BY <1>1, <1>5, CrossAndBack DEF isBoxComplete, Mirrored
    <2> QED
      BY <2>1 DEF IInv, OwnedIffComplete, OwnedExactlyIfComplete
  <1>6. ASSUME NEW b \in Cells
        PROVE  Rules!Boundary(b) \subseteq DrawnLines \union {line} <=> isBoxComplete(new, b)
    <2> HIDE DEF new
    <2> QED
      BY <1>2, <1>3, BoundedIffComplete
  <1> QED
    BY <1>4, <1>5, <1>6, BoundaryIsSides DEF Completed

\* The winner by the carried scores is the winner by counting boxes.
LEMMA VictorIsWinner ==
    ASSUME NEW g \in Games, Counted(g)
    PROVE  /\ \A p \in Seats : Rules!Points(g.owner, p) = g.score[p]
           /\ Rules!Victor(g.owner) = RightWinner(g)
  <1>0. \A S : Rules!Cardinality(S) = Cardinality(S)
    BY Zenon DEF Rules!Cardinality, Cardinality
  <1>1. \A p \in Seats : Rules!Points(g.owner, p) = g.score[p]
    BY <1>0, BoundaryIsSides DEF Rules!Points, Counted, BoxesOf
  <1>2. \A p \in Seats : Rules!SoleLeader(g.owner, p) <=> SoleLeader(g, p)
    BY <1>1 DEF Rules!SoleLeader, SoleLeader
  <1>3. CASE \E p \in Seats : SoleLeader(g, p)
    <2>1. PICK l \in Seats : SoleLeader(g, l)
      BY <1>3
    <2>2. \A p \in Seats : SoleLeader(g, p) => p = l
      BY <2>1 DEF SoleLeader, Games
    <2>3. RightWinner(g) = l
      BY <2>1, <2>2 DEF RightWinner
    <2>4. Rules!Victor(g.owner) = l
      BY <1>2, <2>1, <2>2 DEF Rules!Victor
    <2> QED
      BY <1>1, <2>3, <2>4
  <1>4. CASE ~\E p \in Seats : SoleLeader(g, p)
    BY <1>1, <1>2, <1>4 DEF RightWinner, Rules!Victor
  <1> QED
    BY <1>3, <1>4

\* Nobody has won a game that goes on.
Undecided == ~game.ended => game.winner = NoSeat

LEMMA NextUndecided == IInv /\ Undecided /\ [Next]_game => Undecided'
  <1> SUFFICES ASSUME IInv, Undecided, Next PROVE Undecided'
    BY DEF Undecided
  <1>1. game \in Games /\ (~game.ended => ~isGameOver(game))
    BY DEF IInv, TypeOK, FullBoardIsDecided
  <1>2. ASSUME NEW move \in Moves, MakeMove(move) PROVE Undecided'
    BY <1>1, <1>2, ApplyMoveFields DEF MakeMove, Undecided
  <1>3. CASE TimeoutPass
    <2> DEFINE passed == passTurn(game, nextSeat(game))
    <2>1. /\ passed \in Games /\ passed.owner = game.owner
          /\ passed.ended = game.ended /\ passed.winner = game.winner
      BY <1>1, PassTurnFields
    <2>2. game' = passed
      BY <1>1, <1>3, <2>1 DEF TimeoutPass, PassTurnOnTimeout, endIfFull, isGameOver
    <2> QED
      BY <2>1, <2>2 DEF Undecided
  <1>4. ASSUME NEW u \in Users, ForfeitGame(u) PROVE Undecided'
    BY <1>1, <1>4, ForfeitFields DEF ForfeitGame, Undecided
  <1> QED
    BY <1>2, <1>3, <1>4 DEF Next

THEOREM UndecidedInvariance == Spec => []Undecided
  <1>1. Init => Undecided
    BY DEF Init, Undecided, newGame
  <1> QED
    BY <1>1, NextUndecided, Invariance, PTL DEF Spec

\* A move is one line drawn on paper, with all that follows from it.
LEMMA MoveDraws ==
    ASSUME IInv, Undecided, NEW move \in Moves, MakeMove(move)
    PROVE  Rules!Draw(move.seat, LineOf(move.cell, move.side))
  <1> DEFINE line   == LineOf(move.cell, move.side)
             closed == {b \in Rules!Boxes :
                            /\ line \in Rules!Boundary(b)
                            /\ Rules!Boundary(b) \subseteq DrawnLines \union {line}}
             claims == [b \in Rules!Boxes |-> IF b \in closed THEN move.seat
                                              ELSE game.owner[b]]
             full   == \A b \in Rules!Boxes : claims[b] # NoSeat
  <1>1. /\ game \in Games /\ Mirrored(game.edges) /\ Counted(game)
        /\ game' = ApplyMove(game, move) /\ validateMove(game, move)
        /\ move.cell \in Cells /\ move.side \in Sides /\ move.seat \in Seats
    BY DEF IInv, TypeOK, EdgesMirrored, ScoresCountBoxes, MakeMove, Moves
  <1>2. closed = Completed(game, move)
    BY <1>1, CompletedIsClosed
  <1>3. /\ game' \in Games /\ Counted(game')
        /\ game'.edges = setEdge(game.edges, move.cell, move.side)
        /\ game'.owner = claims
        /\ game'.turn = IF closed = {} THEN nextSeat(game) ELSE game.turn
        /\ game'.ended = (game.ended \/ isGameOver(game'))
        /\ game'.winner = IF isGameOver(game') THEN RightWinner(game') ELSE game.winner
    <2> HIDE DEF closed
    <2> QED
      BY <1>1, <1>2, ApplyMoveFields, BoundaryIsSides
  <1> HIDE DEF closed
  <1>4. ~game.ended /\ game.turn = move.seat /\ game.winner = NoSeat
    BY <1>1 DEF validateMove, Undecided
  <1>5. line \notin DrawnLines /\ DrawnLines' = DrawnLines \union {line}
    <2>1. game.edges \in [Cells -> SUBSET Sides] /\ move.side \notin game.edges[move.cell]
      BY <1>1 DEF Games, validateMove, isEdgeAvailable
    <2>2. DrawnLines = LinesOn(game.edges) /\ DrawnLines' = LinesOn(game'.edges)
      BY DEF DrawnLines, LinesOn
    <2> QED
      BY <1>1, <1>3, <2>1, <2>2, RecordedIffDrawn, SetEdgeDraws
  <1>6. game'.turn = IF closed = {} THEN SeatAfter(move.seat) ELSE move.seat
    BY <1>3, <1>4 DEF nextSeat, SeatAfter
  <1>7. isGameOver(game') <=> full
    BY <1>3, BoundaryIsSides DEF isGameOver
  <1>8. Rules!Victor(claims) = RightWinner(game')
    BY <1>3, VictorIsWinner
  <1>9. /\ game'.ended = full
        /\ game'.winner = IF full THEN Rules!Victor(claims) ELSE NoSeat
    BY <1>3, <1>4, <1>7, <1>8 DEF Games
  <1> QED
    BY <1>3, <1>4, <1>5, <1>6, <1>9 DEF Rules!Draw, closed

\* A timeout is a skipped turn.
LEMMA TimeoutSkips ==
    ASSUME IInv, TimeoutPass
    PROVE  Rules!Skip
  <1> DEFINE passed == passTurn(game, nextSeat(game))
  <1>1. game \in Games /\ ~game.ended /\ ~isGameOver(game)
    BY DEF IInv, TypeOK, TimeoutPass, FullBoardIsDecided
  <1>2. /\ passed \in Games /\ passed.edges = game.edges /\ passed.owner = game.owner
        /\ passed.turn = nextSeat(game) /\ passed.ended = game.ended
        /\ passed.winner = game.winner
    BY <1>1, PassTurnFields
  <1>3. game' = passed
    BY <1>1, <1>2 DEF TimeoutPass, PassTurnOnTimeout, endIfFull, isGameOver
  <1> HIDE DEF passed
  <1>4. DrawnLines' = DrawnLines
    BY <1>2, <1>3 DEF DrawnLines
  <1> QED
    BY <1>1, <1>2, <1>3, <1>4 DEF Rules!Skip, nextSeat, SeatAfter

\* A forfeit is a resignation: a leader of the others wins, or of all when
\* the caller has no seat (game.go, Forfeit).
LEMMA ForfeitResigns ==
    ASSUME IInv, NEW u \in Users, ForfeitGame(u)
    PROVE  Rules!Resign
  <1> DEFINE rest == Seats \ {u}
             w == forfeitWinner(game, u)
  <1>1. game \in Games /\ Counted(game) /\ ~game.ended /\ game' = Forfeit(game, u)
    BY DEF IInv, TypeOK, ScoresCountBoxes, ForfeitGame
  <1>2. /\ game'.edges = game.edges /\ game'.owner = game.owner
        /\ game'.turn = game.turn /\ game'.ended = TRUE
    BY <1>1, ForfeitFields
  <1>3. game'.winner = w
    BY <1>1 DEF Forfeit, endGame, Games
  <1>4. rest # {} /\ rest \subseteq Seats
    BY DEF Seats
  <1>5. w \in rest /\ \A q \in rest : game.score[q] <= game.score[w]
    <2>1. game.score \in [Seats -> Nat]
      BY <1>1 DEF Games
    <2> QED
      BY <1>4, <2>1, FirstLeaderFound DEF forfeitWinner
  <1>6. rest \in {Seats} \union {Seats \ {p} : p \in Seats}
    BY DEF Users
  <1>7. \A q \in rest : Rules!Points(game.owner, q) <= Rules!Points(game.owner, w)
    <2> HIDE DEF w
    <2> QED
      BY <1>1, <1>4, <1>5, VictorIsWinner
  <1>8. DrawnLines' = DrawnLines
    BY <1>2 DEF DrawnLines
  <1> HIDE DEF rest, w
  <1> QED
    BY <1>1, <1>2, <1>3, <1>5, <1>6, <1>7, <1>8 DEF Rules!Resign

\* The aggregate, with its doubled lines, carried scores and search of two
\* boxes, plays dots and boxes: every behaviour is one of the game on paper,
\* for every board and 2 to 4 players (game.go).
THEOREM PlaysTheRules == Spec => ImplementsRules
  <1>1. Init => Rules!Init
    <2> SUFFICES ASSUME Init PROVE Rules!Init
      OBVIOUS
    <2>1. DrawnLines = {}
      BY DEF Init, newGame, makeEmptyGrid, DrawnLines
    <2> QED
      BY <2>1, BoundaryIsSides DEF Init, newGame, Rules!Init
  <1>2. IInv /\ Undecided /\ [Next]_game => [Rules!Play]_(Rules!vars)
    <2> SUFFICES ASSUME IInv, Undecided, [Next]_game
                 PROVE  [Rules!Play]_(Rules!vars)
      OBVIOUS
    <2>1. ASSUME NEW move \in Moves, MakeMove(move) PROVE Rules!Play
      <3>1. move.seat \in Seats /\ LineOf(move.cell, move.side) \in Rules!Paper
        BY BoundaryIsSides DEF Moves, Rules!Paper
      <3> QED
        BY <2>1, <3>1, MoveDraws DEF Rules!Play
    <2>2. CASE TimeoutPass
      BY <2>2, TimeoutSkips DEF Rules!Play
    <2>3. ASSUME NEW u \in Users, ForfeitGame(u) PROVE Rules!Play
      BY <2>3, ForfeitResigns DEF Rules!Play
    <2>4. CASE UNCHANGED game
      BY <2>4 DEF Rules!vars, DrawnLines
    <2> QED
      BY <2>1, <2>2, <2>3, <2>4 DEF Next
  <1> QED
    BY <1>1, <1>2, Invariance, UndecidedInvariance, PTL
       DEF Spec, ImplementsRules, Rules!Spec

------------------------------------------------------------------------------
(* The aggregate implements what the clock and the bots see of a game.     *)

\* Every line of the board, as LineOf names them.
Tagged(tag, R, C) == {tag} \X R \X C

Across == Tagged("across", 0 .. BoardSize, Lines)
Down == Tagged("down", Lines, 0 .. BoardSize)

LEMMA EveryLineIsASide ==
    /\ \A cell \in Cells, side \in Sides : LineOf(cell, side) \in Across \union Down
    /\ \A line \in Across \union Down :
          \E cell \in Cells, side \in Sides : line = LineOf(cell, side)
  <1>1. ASSUME NEW cell \in Cells, NEW side \in Sides
        PROVE  LineOf(cell, side) \in Across \union Down
    BY DEF Cells, Lines, Sides, LineOf, Across, Down, Tagged
  <1>2. ASSUME NEW r \in 0 .. BoardSize, NEW c \in Lines
        PROVE  \E cell \in Cells, side \in Sides : <<"across", r, c>> = LineOf(cell, side)
    <2>1. CASE r < BoardSize
      <3>1. <<r, c>> \in Cells /\ "top" \in Sides
        BY <2>1 DEF Cells, Lines, Sides
      <3> QED
        BY <3>1 DEF LineOf
    <2>2. CASE r = BoardSize
      <3>1. <<r - 1, c>> \in Cells /\ "bottom" \in Sides
        BY <2>2 DEF Cells, Lines, Sides
      <3>2. LineOf(<<r - 1, c>>, "bottom") = <<"across", r, c>>
        BY DEF LineOf
      <3> QED
        BY <3>1, <3>2
    <2> QED
      BY <2>1, <2>2
  <1>3. ASSUME NEW r \in Lines, NEW c \in 0 .. BoardSize
        PROVE  \E cell \in Cells, side \in Sides : <<"down", r, c>> = LineOf(cell, side)
    <2>1. CASE c < BoardSize
      <3>1. <<r, c>> \in Cells /\ "left" \in Sides
        BY <2>1 DEF Cells, Lines, Sides
      <3> QED
        BY <3>1 DEF LineOf
    <2>2. CASE c = BoardSize
      <3>1. <<r, c - 1>> \in Cells /\ "right" \in Sides
        BY <2>2 DEF Cells, Lines, Sides
      <3>2. LineOf(<<r, c - 1>>, "right") = <<"down", r, c>>
        BY DEF LineOf
      <3> QED
        BY <3>1, <3>2
    <2> QED
      BY <2>1, <2>2
  <1>4. ASSUME NEW line \in Across
        PROVE  \E cell \in Cells, side \in Sides : line = LineOf(cell, side)
    <2>1. PICK r \in 0 .. BoardSize, c \in Lines : line = <<"across", r, c>>
      BY DEF Across, Tagged
    <2> QED
      BY <1>2, <2>1
  <1>5. ASSUME NEW line \in Down
        PROVE  \E cell \in Cells, side \in Sides : line = LineOf(cell, side)
    <2>1. PICK r \in Lines, c \in 0 .. BoardSize : line = <<"down", r, c>>
      BY DEF Down, Tagged
    <2> QED
      BY <1>3, <2>1
  <1> QED
    BY <1>1, <1>4, <1>5

\* Naming the pairs does not change their number.
LEMMA CountTagged ==
    ASSUME NEW tag, NEW R, IsFiniteSet(R), NEW C, IsFiniteSet(C)
    PROVE  /\ IsFiniteSet(Tagged(tag, R, C))
           /\ Cardinality(Tagged(tag, R, C)) = Cardinality(R) * Cardinality(C)
  <1> DEFINE S == R \X C
             T == Tagged(tag, R, C)
             f == [x \in S |-> <<tag, x[1], x[2]>>]
  <1>1. f \in [S -> T] /\ \A x \in S : f[x] = <<tag, x[1], x[2]>>
    BY DEF Tagged
  <1>2. \A t \in T : \E x \in S : f[x] = t
    <2> SUFFICES ASSUME NEW t \in T PROVE \E x \in S : f[x] = t
      OBVIOUS
    <2>1. PICK r \in R, c \in C : t = <<tag, r, c>>
      BY DEF Tagged
    <2>2. <<r, c>> \in S /\ f[<<r, c>>] = <<tag, r, c>>
      OBVIOUS
    <2> QED
      BY <2>1, <2>2, Zenon
  <1>3. \A x, y \in S : f[x] = f[y] => x = y
    <2> SUFFICES ASSUME NEW a \in R, NEW b \in C, NEW c \in R, NEW d \in C,
                        f[<<a, b>>] = f[<<c, d>>]
                 PROVE  a = c /\ b = d
      OBVIOUS
    <2>1. f[<<a, b>>] = <<tag, a, b>> /\ f[<<c, d>>] = <<tag, c, d>>
      OBVIOUS
    <2> QED
      BY <2>1
  <1>4. IsFiniteSet(S) /\ Cardinality(S) = Cardinality(R) * Cardinality(C)
    BY FS_Product
  <1> HIDE DEF f, S, T
  <1>5. ExistsBijection(S, T)
    BY <1>1, <1>2, <1>3
       DEF ExistsBijection, Bijection, Injection, IsInjective, Surjection
  <1>6. IsFiniteSet(T) /\ Cardinality(T) = Cardinality(S)
    BY <1>4, <1>5, FS_Bijection
  <1> QED
    BY <1>4, <1>6 DEF T

\* A board of n x n boxes has 2n(n + 1) lines.
LEMMA CountLines ==
    IsFiniteSet(Across \union Down) /\ Cardinality(Across \union Down) = LineCount
  <1>1. /\ IsFiniteSet(Lines) /\ Cardinality(Lines) = BoardSize
        /\ IsFiniteSet(0 .. BoardSize) /\ Cardinality(0 .. BoardSize) = BoardSize + 1
    BY FS_Interval DEF Lines
  <1>2. IsFiniteSet(Across) /\ Cardinality(Across) = (BoardSize + 1) * BoardSize
    BY <1>1, CountTagged DEF Across
  <1>3. IsFiniteSet(Down) /\ Cardinality(Down) = BoardSize * (BoardSize + 1)
    BY <1>1, CountTagged DEF Down
  <1>4. Across \cap Down = {}
    BY DEF Across, Down, Tagged
  <1>5. IsFiniteSet(Across \union Down)
        /\ Cardinality(Across \union Down) = Cardinality(Across) + Cardinality(Down)
    BY <1>2, <1>3, <1>4, FS_Union, FS_EmptySet
  <1> QED
    BY <1>2, <1>3, <1>5 DEF LineCount

\* The lines drawn can be counted, and the board is full exactly when all
\* lines are drawn.
LEMMA FullWhenDrawn ==
    ASSUME NEW g \in Games, Mirrored(g.edges), OwnedExactlyIfComplete(g)
    PROVE  /\ IsFiniteSet(LinesOn(g.edges))
           /\ Cardinality(LinesOn(g.edges)) \in 0 .. LineCount
           /\ isGameOver(g) <=> Cardinality(LinesOn(g.edges)) = LineCount
  <1> DEFINE drawnLines == LinesOn(g.edges)
             all == Across \union Down
  <1>1. g.edges \in [Cells -> SUBSET Sides]
    BY DEF Games
  <1>2. drawnLines \subseteq all
    BY <1>1, EveryLineIsASide DEF LinesOn
  <1>3. \A cell \in Cells, side \in Sides :
            LineOf(cell, side) \in drawnLines <=> side \in g.edges[cell]
    BY <1>1, RecordedIffDrawn
  <1> HIDE DEF drawnLines
  <1>4. isGameOver(g) <=> drawnLines = all
    <2>1. isGameOver(g) <=> \A cell \in Cells : g.edges[cell] = Sides
      BY DEF OwnedExactlyIfComplete, isGameOver, isBoxComplete
    <2>2. drawnLines = all
             <=> \A cell \in Cells, side \in Sides : LineOf(cell, side) \in drawnLines
      BY <1>2, EveryLineIsASide
    <2> QED
      BY <1>1, <1>3, <2>1, <2>2
  <1>5. IsFiniteSet(all) /\ Cardinality(all) = LineCount /\ LineCount \in Nat
    BY CountLines DEF LineCount
  <1> HIDE DEF all
  <1>6. /\ IsFiniteSet(drawnLines) /\ Cardinality(drawnLines) \in Nat
        /\ Cardinality(drawnLines) <= LineCount
        /\ Cardinality(drawnLines) = LineCount => drawnLines = all
    BY <1>2, <1>5, FS_Subset, FS_CardinalityType
  <1> QED
    BY <1>4, <1>5, <1>6 DEF drawnLines

\* A move takes one of the lines left, and the last one ends the game in its
\* player's turn (game.go, ApplyMove).
LEMMA MoveTakesALine ==
    ASSUME IInv, IInv', Undecided, NEW move \in Moves, MakeMove(move)
    PROVE  TurnView' \in Turns!AfterMove(TurnView)
  <1> DEFINE line == LineOf(move.cell, move.side)
             drawnBefore == Cardinality(DrawnLines)
  <1>1. Rules!Draw(move.seat, line)
    BY MoveDraws
  <1>2. /\ ~game.ended /\ line \notin DrawnLines /\ DrawnLines' = DrawnLines \union {line}
        /\ game'.turn \in {game.turn, SeatAfter(game.turn)}
    BY <1>1 DEF Rules!Draw
  <1>3. /\ IsFiniteSet(DrawnLines) /\ drawnBefore \in 0 .. LineCount
        /\ Cardinality(DrawnLines') \in 0 .. LineCount
        /\ isGameOver(game') <=> Cardinality(DrawnLines') = LineCount
    <2>1. /\ DrawnLines = LinesOn(game.edges) /\ DrawnLines' = LinesOn(game'.edges)
          /\ game \in Games /\ Mirrored(game.edges) /\ OwnedExactlyIfComplete(game)
          /\ game' \in Games /\ Mirrored(game'.edges) /\ OwnedExactlyIfComplete(game')
      BY DEF DrawnLines, LinesOn, IInv, TypeOK, EdgesMirrored, OwnedIffComplete
    <2> QED
      BY <2>1, FullWhenDrawn
  <1>4. Cardinality(DrawnLines') = drawnBefore + 1
    BY <1>2, <1>3, FS_AddElement
  <1>5. /\ game' \in Games /\ game'.ended = isGameOver(game')
        /\ game'.turn = IF Completed(game, move) = {} THEN nextSeat(game) ELSE game.turn
        /\ game'.edges = setEdge(game.edges, move.cell, move.side)
    <2>1. /\ game'.ended = (game.ended \/ isGameOver(game')) /\ game' \in Games
          /\ game'.turn = IF Completed(game, move) = {} THEN nextSeat(game) ELSE game.turn
          /\ game'.edges = setEdge(game.edges, move.cell, move.side)
      BY ApplyMoveFields DEF IInv, TypeOK, MakeMove
    <2> QED
      BY <1>2, <2>1 DEF Games, isGameOver
  <1>6. ASSUME isGameOver(game') PROVE game'.turn = game.turn
    <2>1. /\ game \in Games /\ move.cell \in Cells /\ move.side \in Sides
          /\ move.side \notin game.edges[move.cell]
      BY DEF IInv, TypeOK, Moves, MakeMove, validateMove, isEdgeAvailable
    <2>2. game.owner[move.cell] = NoSeat
      BY <2>1 DEF IInv, OwnedIffComplete, OwnedExactlyIfComplete, isBoxComplete
    <2>3. isBoxComplete(game'.edges, move.cell)
      BY <1>6, <2>1 DEF IInv, OwnedIffComplete, OwnedExactlyIfComplete, isGameOver
    <2>4. move.cell \in Completed(game, move)
      BY <1>5, <2>1, <2>2, <2>3 DEF Completed
    <2> QED
      BY <1>5, <2>4
  <1> DEFINE left == LineCount - drawnBefore
  <1>7. left # 0 /\ left \in Nat /\ (isGameOver(game') <=> left = 1)
    BY <1>2, <1>3, <1>4 DEF LineCount
  <1>8. TurnView = [left |-> left, turn |-> game.turn, ended |-> FALSE]
    BY <1>2 DEF TurnView, IInv, TypeOK, Games
  <1>9. TurnView' = [left |-> left - 1, turn |-> game'.turn, ended |-> game'.ended]
    <2>1. LineCount - Cardinality(DrawnLines') = left - 1
      BY <1>3, <1>4 DEF LineCount
    <2> QED
      BY <2>1 DEF TurnView
  <1>10. SeatAfter(game.turn) = Turns!following(TurnView)
    BY <1>8 DEF SeatAfter, Turns!following
  <1> HIDE DEF left
  <1>11. CASE left = 1
    <2>1. left - 1 = 0 /\ game'.ended = TRUE /\ game'.turn = game.turn
      BY <1>5, <1>6, <1>7, <1>11
    <2>2. Turns!AfterMove(TurnView) = {[left |-> 0, turn |-> game.turn, ended |-> TRUE]}
      BY <1>8, <1>11 DEF Turns!AfterMove
    <2> QED
      BY <1>9, <2>1, <2>2, Zenon
  <1>12. CASE left # 1
    <2>1. game'.ended = FALSE
      BY <1>5, <1>7, <1>12
    <2>2. TurnView' = [left |-> left - 1, turn |-> game'.turn, ended |-> FALSE]
      BY <1>9, <2>1, Zenon
    <2>3. TurnView' = [TurnView EXCEPT !.left = @ - 1, !.turn = game'.turn]
      <3>1. ASSUME NEW h, h = [TurnView EXCEPT !.left = @ - 1, !.turn = game'.turn]
            PROVE  h = [left |-> left - 1, turn |-> game'.turn, ended |-> FALSE]
        BY <1>8, <3>1
      <3> QED
        BY <2>2, <3>1, Zenon
    <2>4. Turns!AfterMove(TurnView) = {[TurnView EXCEPT !.left = @ - 1, !.turn = t] :
                                          t \in {TurnView.turn, Turns!following(TurnView)}}
      BY <1>7, <1>8, <1>12 DEF Turns!AfterMove
    <2>5. game'.turn \in {TurnView.turn, Turns!following(TurnView)}
      BY <1>2, <1>8, <1>10
    <2> QED
      BY <2>3, <2>4, <2>5, Zenon
  <1> QED
    BY <1>11, <1>12

\* What the clock and the bots rely on is what the aggregate does, for every
\* board and 2 to 4 players (game.go).
THEOREM IsATurnGame == Spec => ImplementsTurnGame
  <1>1. Init => Turns!TurnInit
    <2> SUFFICES ASSUME Init PROVE Turns!TurnInit
      OBVIOUS
    <2>1. DrawnLines = {}
      BY DEF Init, newGame, makeEmptyGrid, DrawnLines
    <2>2. Cardinality(DrawnLines) = 0 /\ LineCount \in Nat
      BY <2>1, FS_EmptySet DEF LineCount
    <2> QED
      BY <2>2 DEF Init, newGame, Turns!TurnInit, Turns!StartOfGame, TurnView
  <1>2. IInv /\ IInv' /\ Undecided /\ [Next]_game => [Turns!TurnNext]_TurnView
    <2> SUFFICES ASSUME IInv, IInv', Undecided, [Next]_game
                 PROVE  [Turns!TurnNext]_TurnView
      OBVIOUS
    <2>1. ASSUME NEW move \in Moves, MakeMove(move) PROVE Turns!TurnNext
      BY <2>1, MoveTakesALine DEF Turns!TurnNext
    <2>2. CASE TimeoutPass
      <3>1. Rules!Skip
        BY <2>2, TimeoutSkips
      <3>2. ~TurnView.ended /\ TurnView' = Turns!AfterPass(TurnView)
        BY <3>1 DEF Rules!Skip, TurnView, Turns!AfterPass, Turns!following, SeatAfter
      <3> QED
        BY <3>2 DEF Turns!TurnNext
    <2>3. ASSUME NEW u \in Users, ForfeitGame(u) PROVE Turns!TurnNext
      <3>1. Rules!Resign
        BY <2>3, ForfeitResigns
      <3>2. game'.ended = TRUE /\ UNCHANGED <<DrawnLines, game.turn>> /\ ~game.ended
        BY <3>1 DEF Rules!Resign
      <3>3. TurnView' = [left  |-> LineCount - Cardinality(DrawnLines),
                         turn  |-> game.turn,
                         ended |-> TRUE]
        BY <3>2, Zenon DEF TurnView
      <3>4. ~TurnView.ended /\ TurnView' = Turns!AfterForfeit(TurnView)
        <4>1. TurnView = [left  |-> LineCount - Cardinality(DrawnLines),
                          turn  |-> game.turn,
                          ended |-> game.ended]
          BY DEF TurnView
        <4>2. ~TurnView.ended
          BY <3>2, <4>1
        <4> QED
          <5>1. ASSUME NEW h, h = [TurnView EXCEPT !.ended = TRUE]
                PROVE  h = [left  |-> LineCount - Cardinality(DrawnLines),
                            turn  |-> game.turn,
                            ended |-> TRUE]
            BY <4>1, <5>1
          <5> QED
            BY <3>3, <4>2, <5>1, Zenon DEF Turns!AfterForfeit
      <3> QED
        BY <3>4 DEF Turns!TurnNext
    <2>4. CASE UNCHANGED game
      BY <2>4 DEF TurnView, DrawnLines
    <2> QED
      BY <2>1, <2>2, <2>3, <2>4 DEF Next
  <1> QED
    BY <1>1, <1>2, Invariance, UndecidedInvariance, PTL
       DEF Spec, ImplementsTurnGame, Turns!TurnSpec

------------------------------------------------------------------------------
(* The film of the replay page.                                            *)

\* A set of numbers with 0 and the successor of each of its members has them
\* all: below a number it misses, adding one would map a finite part of it into
\* the same part without 0.
LEMMA CountingUp ==
    ASSUME NEW S \in SUBSET Nat, 0 \in S, \A n \in S : n + 1 \in S
    PROVE  S = Nat
  <1> SUFFICES ASSUME NEW n \in Nat, n \notin S PROVE FALSE
    OBVIOUS
  <1> DEFINE A == S \intersect (0 .. n)
             up == [m \in A |-> m + 1]
  <1>1. IsFiniteSet(A)
    <2>1. IsFiniteSet(0 .. n)
      BY FS_Interval
    <2> QED
      BY <2>1, FS_Subset
  <1>2. IsFiniteSet(A \ {0}) /\ Cardinality(A \ {0}) = Cardinality(A) - 1
    <2>1. 0 \in A
      OBVIOUS
    <2> HIDE DEF A
    <2> QED
      BY <1>1, <2>1, FS_RemoveElement
  <1>3. up \in Injection(A, A \ {0})
    BY DEF Injection, IsInjective
  <1>4. Cardinality(A) <= Cardinality(A \ {0})
    BY <1>1, <1>2, <1>3, FS_Injection
  <1>5. Cardinality(A) \in Nat
    BY <1>1, FS_CardinalityType
  <1> QED
    BY <1>2, <1>4, <1>5

\* f holds what the loop has made of b after each event.
Shows(f, b, es, n) ==
    f = [v \in 0 .. n |-> IF v = 0 THEN b ELSE show(f[v - 1], es[v])]

\* The recursion of showAll has a solution.
LEMMA ShowDefined ==
    ASSUME NEW b, NEW es, NEW n \in Nat
    PROVE  \E f : Shows(f, b, es, n)
  <1> DEFINE S == {m \in Nat : \E f : Shows(f, b, es, m)}
  <1>1. 0 \in S
    <2>1. Shows([v \in 0 .. 0 |-> b], b, es, 0)
      BY DEF Shows
    <2> QED
      BY <2>1
  <1>2. ASSUME NEW m \in S PROVE m + 1 \in S
    <2>1. PICK f : Shows(f, b, es, m)
      OBVIOUS
    <2>2. m \in Nat
      OBVIOUS
    <2> HIDE DEF S
    <2> DEFINE h == [v \in 0 .. m + 1 |-> IF v <= m THEN f[v] ELSE show(f[m], es[m + 1])]
    <2>3. \A v \in 0 .. m : f[v] = IF v = 0 THEN b ELSE show(f[v - 1], es[v])
      BY <2>1 DEF Shows
    <2>4. /\ \A v \in 0 .. m : h[v] = f[v]
          /\ h[m + 1] = show(f[m], es[m + 1])
          /\ h = [v \in 0 .. m + 1 |-> h[v]]
      BY <2>2
    <2> HIDE DEF h
    <2>5. ASSUME NEW v \in 0 .. m + 1
          PROVE  h[v] = IF v = 0 THEN b ELSE show(h[v - 1], es[v])
      <3>1. CASE v = m + 1
        <4>1. v # 0 /\ v - 1 = m /\ m \in 0 .. m
          BY <2>2, <3>1
        <4> QED
          BY <2>4, <3>1, <4>1
      <3>2. CASE v \in 0 .. m
        <4>1. v = 0 \/ v - 1 \in 0 .. m
          BY <2>2, <3>2
        <4> QED
          BY <2>3, <2>4, <3>2, <4>1
      <3> QED
        BY <2>2, <3>1, <3>2
    <2>6. [v \in 0 .. m + 1 |-> h[v]]
            = [v \in 0 .. m + 1 |-> IF v = 0 THEN b ELSE show(h[v - 1], es[v])]
      BY <2>5, Zenon
    <2>7. Shows(h, b, es, m + 1)
      BY <2>4, <2>6, Zenon DEF Shows
    <2> QED
      BY <2>2, <2>7 DEF S
  <1>3. S = Nat
    <2> HIDE DEF S
    <2>1. S \in SUBSET Nat
      BY DEF S
    <2> QED
      BY <1>1, <1>2, <2>1, CountingUp
  <1> QED
    BY <1>3

\* What the loop over the events computes (replay/$gameID.tsx, buildReplayStates).
LEMMA ShowUnfolds ==
    ASSUME NEW b, NEW es, Len(es) \in Nat
    PROVE  \E f : /\ f[0] = b
                  /\ \A v \in 1 .. Len(es) : f[v] = show(f[v - 1], es[v])
                  /\ showAll(b, es) = f[Len(es)]
  <1> DEFINE after == CHOOSE f : Shows(f, b, es, Len(es))
  <1>1. Shows(after, b, es, Len(es))
    BY ShowDefined, Zenon
  <1>2. showAll(b, es) = after[Len(es)]
    BY DEF showAll, Shows
  <1> HIDE DEF after
  <1>3. \A v \in 0 .. Len(es) :
            after[v] = IF v = 0 THEN b ELSE show(after[v - 1], es[v])
    BY <1>1 DEF Shows
  <1>4. after[0] = b
    BY <1>3
  <1>5. \A v \in 1 .. Len(es) : after[v] = show(after[v - 1], es[v])
    BY <1>3
  <1> QED
    BY <1>2, <1>4, <1>5

\* No event, and one event.
LEMMA ShowFew ==
    ASSUME NEW b, NEW e
    PROVE  showAll(b, <<>>) = b /\ showAll(b, <<e>>) = show(b, e)
  <1>1. showAll(b, <<>>) = b
    <2>1. Len(<<>>) = 0
      OBVIOUS
    <2> QED
      BY <2>1, ShowUnfolds
  <1>2. showAll(b, <<e>>) = show(b, e)
    <2>1. Len(<<e>>) = 1 /\ <<e>>[1] = e /\ 1 \in 1 .. 1 /\ 1 - 1 = 0
      OBVIOUS
    <2>2. PICK f : /\ f[0] = b
                   /\ \A v \in 1 .. Len(<<e>>) : f[v] = show(f[v - 1], <<e>>[v])
                   /\ showAll(b, <<e>>) = f[Len(<<e>>)]
      BY <2>1, ShowUnfolds
    <2> QED
      BY <2>1, <2>2
  <1> QED
    BY <1>1, <1>2

\* Events in two portions are shown one portion after the other.
LEMMA ShowConcat ==
    ASSUME NEW E, NEW s \in Seq(E), NEW t \in Seq(E), NEW b
    PROVE  showAll(b, s \o t) = showAll(showAll(b, s), t)
  <1> DEFINE m == Len(s)
             n == Len(t)
             es == s \o t
  <1>1. /\ m \in Nat /\ n \in Nat /\ Len(es) = m + n
        /\ \A v \in 1 .. m : es[v] = s[v]
        /\ \A v \in 1 .. n : es[m + v] = t[v]
    OBVIOUS
  <1>2. PICK f : /\ f[0] = b
                 /\ \A v \in 1 .. m : f[v] = show(f[v - 1], s[v])
                 /\ showAll(b, s) = f[m]
    <2>1. Len(s) \in Nat
      OBVIOUS
    <2> QED
      BY <2>1, ShowUnfolds, Zenon
  <1>3. PICK h : /\ h[0] = f[m]
                 /\ \A v \in 1 .. n : h[v] = show(h[v - 1], t[v])
                 /\ showAll(f[m], t) = h[n]
    BY <1>1, ShowUnfolds
  <1>4. PICK k : /\ k[0] = b
                 /\ \A v \in 1 .. m + n : k[v] = show(k[v - 1], es[v])
                 /\ showAll(b, es) = k[m + n]
    <2>1. Len(es) \in Nat
      BY <1>1
    <2>2. \E k : /\ k[0] = b
                 /\ \A v \in 1 .. Len(es) : k[v] = show(k[v - 1], es[v])
                 /\ showAll(b, es) = k[Len(es)]
      BY <2>1, ShowUnfolds, Zenon
    <2> QED
      BY <1>1, <2>2
  <1> HIDE DEF m, n, es
  <1> DEFINE S == {v \in Nat : v <= m => k[v] = f[v]}
             T == {v \in Nat : v <= n => k[m + v] = h[v]}
  <1>5. S = Nat
    <2>1. 0 \in S
      BY <1>2, <1>4
    <2>2. ASSUME NEW v \in S PROVE v + 1 \in S
      <3> SUFFICES ASSUME v + 1 <= m PROVE k[v + 1] = f[v + 1]
        OBVIOUS
      <3>1. /\ v \in Nat /\ k[v] = f[v] /\ (v + 1) - 1 = v
            /\ v + 1 \in 1 .. m /\ v + 1 \in 1 .. m + n
        BY <1>1
      <3> QED
        BY <1>1, <1>2, <1>4, <3>1
    <2> HIDE DEF S
    <2>3. S \in SUBSET Nat
      BY DEF S
    <2> QED
      BY <2>1, <2>2, <2>3, CountingUp
  <1>6. T = Nat
    <2>1. 0 \in T
      <3>1. m \in S /\ m + 0 = m
        BY <1>1, <1>5
      <3> QED
        BY <1>1, <1>3, <3>1
    <2>2. ASSUME NEW v \in T PROVE v + 1 \in T
      <3> SUFFICES ASSUME v + 1 <= n PROVE k[m + (v + 1)] = h[v + 1]
        OBVIOUS
      <3>1. /\ v \in Nat /\ k[m + v] = h[v] /\ (v + 1) - 1 = v
            /\ v + 1 \in 1 .. n /\ m + (v + 1) \in 1 .. m + n
            /\ (m + (v + 1)) - 1 = m + v
        BY <1>1
      <3> QED
        BY <1>1, <1>3, <1>4, <3>1
    <2> HIDE DEF T
    <2>3. T \in SUBSET Nat
      BY DEF T
    <2> QED
      BY <2>1, <2>2, <2>3, CountingUp
  <1>7. n \in T /\ n <= n
    BY <1>1, <1>6
  <1> QED
    BY <1>2, <1>3, <1>4, <1>7 DEF es

Views == [edges : [Cells -> SUBSET Sides],
          owner : [Cells -> Seats \union {NoSeat}],
          score : [Seats -> Nat],
          turn  : Seats]

\* At most one line was drawn between two frames.
OneLine(v, w) ==
    LET drawnNow == {e \in Cells \X Sides : e[2] \in w.edges[e[1]] /\ e[2] \notin v.edges[e[1]]}
    IN  \A e, f \in drawnNow :
           e = f \/ f = <<getAdjacentBox(e[1], e[2]), Opposite(e[2])>>

\* A film that begins with the empty board, shows boards that were reached, and
\* skips no line.
Chain(film, seen) ==
    /\ film \in Seq(Views)
    /\ film # <<>>
    /\ film[1] = EmptyFrame
    /\ \A i \in 1 .. Len(film) : film[i] \in seen
    /\ \A i \in 1 .. Len(film) - 1 : OneLine(film[i], film[i + 1])

Strips == [states : Seq(Views), frame : Views, hasPendingMove : BOOLEAN]

\* The loop of buildReplayStates between two commands: the frame it works on is
\* the game as it is, and is pushed already or waits for the next event.
Follows(b, g, seen) ==
    /\ b \in Strips
    /\ b.frame = View(g)
    /\ Chain(b.states, seen)
    /\ IF b.hasPendingMove THEN OneLine(b.states[Len(b.states)], View(g))
       ELSE b.states[Len(b.states)] = View(g)

\* How many frames there are, with the one that is pending.
FrameCount(b) == IF b.hasPendingMove THEN Len(b.states) + 1 ELSE Len(b.states)

\* What a page knows of a game that is one.
LEMMA ViewType ==
    ASSUME NEW g \in Games
    PROVE  View(g) \in Views
  BY DEF View, Views, Games

\* Between two boards of which one has one line more, one line was drawn.
LEMMA DrawnIsOneLine ==
    ASSUME NEW v, NEW w, NEW grid \in [Cells -> SUBSET Sides], v.edges = grid,
           NEW cell \in Cells, NEW side \in Sides,
           w.edges = grid \/ w.edges = setEdge(grid, cell, side)
    PROVE  OneLine(v, w)
  <1> DEFINE adj == getAdjacentBox(cell, side)
             drawnNow == {e \in Cells \X Sides : /\ e[2] \in w.edges[e[1]]
                                               /\ e[2] \notin v.edges[e[1]]}
  <1> SUFFICES ASSUME NEW e \in drawnNow, NEW f \in drawnNow
               PROVE  e = f \/ f = <<getAdjacentBox(e[1], e[2]), Opposite(e[2])>>
    BY DEF OneLine
  <1>1. \A x \in drawnNow : x = <<cell, side>> \/ x = <<adj, Opposite(side)>>
    <2> SUFFICES ASSUME NEW x \in drawnNow
                 PROVE  x = <<cell, side>> \/ x = <<adj, Opposite(side)>>
      OBVIOUS
    <2>1. PICK c \in Cells, s \in Sides : x = <<c, s>>
      OBVIOUS
    <2>2. s \in w.edges[c] /\ s \notin grid[c]
      BY <2>1
    <2> QED
      BY <2>1, <2>2 DEF setEdge
  <1>2. getAdjacentBox(adj, Opposite(side)) = cell /\ Opposite(Opposite(side)) = side
    BY CrossAndBack
  <1> QED
    BY <1>1, <1>2

\* A film stays one when more boards have been reached.
LEMMA ChainKeeps ==
    ASSUME NEW S, NEW seen, NEW more, Chain(S, seen), seen \subseteq more
    PROVE  Chain(S, more)
  BY DEF Chain

\* Another frame, one line further at most, makes it longer.
LEMMA ChainGrows ==
    ASSUME NEW S, NEW seen, Chain(S, seen), NEW w \in Views, w \in seen,
           OneLine(S[Len(S)], w)
    PROVE  /\ Chain(Append(S, w), seen)
           /\ Append(S, w) \in Seq(Views)
           /\ Append(S, w)[Len(Append(S, w))] = w
           /\ Len(Append(S, w)) = Len(S) + 1
  <1> DEFINE T == Append(S, w)
             n == Len(S)
  <1>1. S \in Seq(Views) /\ S # <<>>
    BY DEF Chain
  <1>2. /\ T \in Seq(Views) /\ Len(T) = n + 1 /\ n \in Nat /\ n >= 1
        /\ T[n + 1] = w /\ \A i \in 1 .. n : T[i] = S[i]
    BY <1>1
  <1> HIDE DEF T, n
  <1>3. /\ S[1] = EmptyFrame
        /\ \A i \in 1 .. n : S[i] \in seen
        /\ \A i \in 1 .. n - 1 : OneLine(S[i], S[i + 1])
    BY DEF Chain, n
  <1>4. T # <<>> /\ T[1] = EmptyFrame
    BY <1>2, <1>3
  <1>5. \A i \in 1 .. Len(T) : T[i] \in seen
    BY <1>2, <1>3
  <1>6. ASSUME NEW i \in 1 .. Len(T) - 1 PROVE OneLine(T[i], T[i + 1])
    <2>1. CASE i = n
      BY <1>2, <2>1 DEF n
    <2>2. CASE i \in 1 .. n - 1
      <3>1. T[i] = S[i] /\ T[i + 1] = S[i + 1]
        BY <1>2, <2>2
      <3> QED
        BY <1>3, <2>2, <3>1
    <2> QED
      BY <1>2, <2>1, <2>2
  <1>7. Chain(T, seen)
    BY <1>2, <1>4, <1>5, <1>6 DEF Chain
  <1> QED
    BY <1>2, <1>7 DEF T, n

\* The same frame may be shown twice.
LEMMA SameFrame ==
    ASSUME NEW v \in Views
    PROVE  OneLine(v, v)
  BY DEF OneLine

------------------------------------------------------------------------------
(* One event on the page.                                                  *)

\* The page's copy of setEdge draws the same line (replay/$gameID.tsx, setEdge).
LEMMA PageDraws ==
    ASSUME NEW grid \in [Cells -> SUBSET Sides], NEW cell \in Cells, NEW side \in Sides
    PROVE  setEdgeOnPage(grid, cell, side) = setEdge(grid, cell, side)
  <1> DEFINE adj == getAdjacentBox(cell, side)
             near == [grid EXCEPT ![cell] = @ \union {side}]
             far == [near EXCEPT ![adj] = @ \union {Opposite(side)}]
  <1>1. adj # cell
    BY CrossAndBack
  <1>2. near = [d \in Cells |-> IF d = cell THEN grid[d] \union {side} ELSE grid[d]]
    OBVIOUS
  <1> HIDE DEF near
  <1>3. far = [d \in Cells |-> IF d = adj THEN near[d] \union {Opposite(side)} ELSE near[d]]
    BY <1>2
  <1> HIDE DEF far, adj
  <1> QED
    BY <1>1, <1>2, <1>3 DEF setEdgeOnPage, setEdge, far, adj, near

\* Two frames with the same fields are the same.
LEMMA SameView ==
    ASSUME NEW v \in Views, NEW w \in Views, v.edges = w.edges, v.owner = w.owner,
           v.score = w.score, v.turn = w.turn
    PROVE  v = w
  BY DEF Views

\* Pushing the frame leaves it as it is.
LEMMA Pushed ==
    ASSUME NEW b \in Strips
    PROVE  /\ pushFrame(b) \in Strips
           /\ pushFrame(b).states = Append(b.states, b.frame)
           /\ pushFrame(b).frame = b.frame
           /\ ~pushFrame(b).hasPendingMove
  <1> DEFINE more == Append(b.states, b.frame)
  <1>1. more \in Seq(Views)
    BY DEF Strips
  <1>2. pushFrame(b) = [b EXCEPT !.states = more, !.hasPendingMove = FALSE]
    BY DEF pushFrame
  <1> HIDE DEF more
  <1>3. /\ pushFrame(b) \in Strips
        /\ pushFrame(b).states = more
        /\ pushFrame(b).frame = b.frame
        /\ ~pushFrame(b).hasPendingMove
    BY <1>1, <1>2 DEF Strips
  <1> QED
    BY <1>3 DEF more

\* A move: the pending frame is pushed, the line drawn, the frame left pending.
LEMMA ShowMove ==
    ASSUME NEW b \in Strips, NEW g \in Games, b.frame = View(g), NEW move \in Moves
    PROVE  LET r == show(b, MoveApplied(move))
           IN  /\ r \in Strips
               /\ r.states = IF b.hasPendingMove THEN Append(b.states, View(g)) ELSE b.states
               /\ r.frame = View(drawn(g, move))
               /\ r.hasPendingMove
  <1> DEFINE e == MoveApplied(move)
             c == pushPending(b, e)
             r == show(b, e)
             grid == setEdge(g.edges, move.cell, move.side)
  <1>1. e.type = "MoveApplied" /\ e.cell = move.cell /\ e.side = move.side
    BY DEF MoveApplied
  <1>2. /\ c \in Strips
        /\ c.states = IF b.hasPendingMove THEN Append(b.states, View(g)) ELSE b.states
        /\ c.frame = View(g)
    <2>1. c = IF b.hasPendingMove THEN pushFrame(b) ELSE b
      BY <1>1 DEF pushPending
    <2> QED
      BY <2>1, Pushed
  <1>3. r = [c EXCEPT !.frame.edges = setEdgeOnPage(@, e.cell, e.side), !.hasPendingMove = TRUE]
    BY <1>1 DEF showEvent, show
  <1> HIDE DEF c, r
  <1>4. setEdgeOnPage(c.frame.edges, e.cell, e.side) = grid
    <2>1. c.frame.edges = g.edges
      BY <1>2 DEF View
    <2> QED
      BY <1>1, <2>1, PageDraws DEF Games, Moves
  <1>5. grid \in [Cells -> SUBSET Sides]
    BY SetEdgeType DEF Games, Moves
  <1> HIDE DEF grid, e
  <1>6. /\ r \in Strips
        /\ r.states = c.states
        /\ r.hasPendingMove
        /\ r.frame \in Views
        /\ r.frame.edges = grid
        /\ r.frame.owner = c.frame.owner
        /\ r.frame.score = c.frame.score
        /\ r.frame.turn = c.frame.turn
    <2>1. r = [c EXCEPT !.frame.edges = grid, !.hasPendingMove = TRUE]
      BY <1>3, <1>4
    <2> QED
      BY <1>2, <1>5, <2>1 DEF Strips, Views
  <1>7. r.frame = View(drawn(g, move))
    <2>1. View(drawn(g, move)) \in Views
      BY DrawnFields, ViewType
    <2>2. /\ View(drawn(g, move)).edges = grid
          /\ View(drawn(g, move)).owner = g.owner
          /\ View(drawn(g, move)).score = g.score
          /\ View(drawn(g, move)).turn = g.turn
      BY DrawnFields DEF View, grid
    <2>3. c.frame.owner = g.owner /\ c.frame.score = g.score /\ c.frame.turn = g.turn
      BY <1>2 DEF View
    <2> QED
      BY <1>6, <2>1, <2>2, <2>3, SameView
  <1> QED
    BY <1>2, <1>6, <1>7 DEF r, e

\* A completed box gets its owner and its point.
LEMMA ShowBox ==
    ASSUME NEW b \in Strips, NEW g \in Games, b.frame = View(g),
           NEW box \in Cells, NEW p \in Seats
    PROVE  LET r == show(b, BoxCompleted(box, p))
           IN  /\ r \in Strips
               /\ r.states = b.states
               /\ r.frame = View(claimBox(g, box, p))
               /\ r.hasPendingMove <=> b.hasPendingMove
  <1> DEFINE e == BoxCompleted(box, p)
             r == show(b, e)
             k == claimBox(g, box, p)
  <1>1. e.type = "BoxCompleted" /\ e.cell = box /\ e.seat = p
    BY DEF BoxCompleted
  <1>2. r = [b EXCEPT !.frame.owner[e.cell] = e.seat, !.frame.score[e.seat] = @ + 1]
    BY <1>1 DEF show, pushPending, showEvent
  <1> HIDE DEF e, r
  <1>3. r = [b EXCEPT !.frame.owner[box] = p, !.frame.score[p] = @ + 1]
    BY <1>1, <1>2
  <1> DEFINE owner == [g.owner EXCEPT ![box] = p]
             score == [g.score EXCEPT ![p] = @ + 1]
  <1>0. owner \in [Cells -> Seats \union {NoSeat}] /\ score \in [Seats -> Nat]
    BY DEF Games
  <1>4. /\ r \in Strips
        /\ r.states = b.states
        /\ r.hasPendingMove <=> b.hasPendingMove
        /\ r.frame \in Views
        /\ r.frame.edges = b.frame.edges
        /\ r.frame.owner = owner
        /\ r.frame.score = score
        /\ r.frame.turn = b.frame.turn
    <2>1. b.frame.owner = g.owner /\ b.frame.score = g.score /\ b.frame \in Views
      BY DEF View, Strips
    <2>2. r = [b EXCEPT !.frame = [@ EXCEPT !.owner = owner, !.score = score]]
      BY <1>3, <2>1 DEF Strips, Views
    <2> HIDE DEF owner, score
    <2> QED
      BY <1>0, <2>1, <2>2 DEF Strips, Views
  <1>5. /\ k \in Games
        /\ k.edges = g.edges
        /\ k.owner = owner
        /\ k.score = score
        /\ k.turn = g.turn
    <2>1. k = [g EXCEPT !.owner = owner, !.score = score]
      BY DEF claimBox, Games
    <2> HIDE DEF k, owner, score
    <2> QED
      BY <1>0, <2>1 DEF Games
  <1> HIDE DEF k
  <1>6. r.frame = View(k)
    <2>1. View(k) \in Views
      BY <1>5, ViewType
    <2>2. /\ View(k).edges = k.edges /\ View(k).owner = k.owner
          /\ View(k).score = k.score /\ View(k).turn = k.turn
      BY DEF View
    <2>3. /\ b.frame.edges = g.edges /\ b.frame.owner = g.owner
          /\ b.frame.score = g.score /\ b.frame.turn = g.turn
      BY DEF View
    <2> QED
      BY <1>4, <1>5, <2>1, <2>2, <2>3, SameView
  <1> QED
    BY <1>4, <1>6 DEF r, e, k

\* Passing the turn pushes the frame, with the next player to move.
LEMMA ShowPass ==
    ASSUME NEW b \in Strips, NEW g \in Games, b.frame = View(g), NEW p \in Seats
    PROVE  LET r == show(b, TurnPassed(p))
               v == View(passTurn(g, p))
           IN  /\ r \in Strips
               /\ r.states = Append(b.states, v)
               /\ r.frame = v
               /\ ~r.hasPendingMove
  <1> DEFINE e == TurnPassed(p)
             r == show(b, e)
             k == passTurn(g, p)
             c == [b EXCEPT !.frame.turn = p]
  <1>1. e.type = "TurnPassed" /\ e.seat = p
    BY DEF TurnPassed
  <1>2. r = pushFrame(c)
    BY <1>1 DEF show, pushPending, showEvent
  <1>3. /\ c \in Strips
        /\ c.states = b.states
        /\ c.frame \in Views
        /\ c.frame.edges = b.frame.edges
        /\ c.frame.owner = b.frame.owner
        /\ c.frame.score = b.frame.score
        /\ c.frame.turn = p
    BY DEF Strips, Views
  <1> HIDE DEF e, r, c
  <1>4. /\ k \in Games
        /\ k.edges = g.edges
        /\ k.owner = g.owner
        /\ k.score = g.score
        /\ k.turn = p
    BY DEF passTurn, Games
  <1> HIDE DEF k
  <1>5. c.frame = View(k)
    <2>1. View(k) \in Views
      BY <1>4, ViewType
    <2>2. /\ View(k).edges = k.edges /\ View(k).owner = k.owner
          /\ View(k).score = k.score /\ View(k).turn = k.turn
      BY DEF View
    <2>3. /\ b.frame.edges = g.edges /\ b.frame.owner = g.owner
          /\ b.frame.score = g.score
      BY DEF View
    <2> QED
      BY <1>3, <1>4, <2>1, <2>2, <2>3, SameView
  <1> QED
    BY <1>2, <1>3, <1>5, Pushed DEF r, e, k

\* The end of the game pushes the frame as it is.
LEMMA ShowEnd ==
    ASSUME NEW b \in Strips, NEW e, e.type \in {"GameEnded", "GameForfeited"}
    PROVE  LET r == show(b, e)
           IN  /\ r \in Strips
               /\ r.states = Append(b.states, b.frame)
               /\ r.frame = b.frame
               /\ ~r.hasPendingMove
  <1>1. show(b, e) = pushFrame(b)
    BY DEF show, pushPending, showEvent
  <1> QED
    BY <1>1, Pushed

------------------------------------------------------------------------------
(* One command on the page.                                                *)

\* The last frame pushed is at most one line behind the game.
LEMMA LastFrame ==
    ASSUME NEW b, NEW g \in Games, NEW seen, Follows(b, g, seen)
    PROVE  /\ b \in Strips /\ b.frame = View(g) /\ View(g) \in Views
           /\ Chain(b.states, seen)
           /\ Len(b.states) \in Nat
           /\ b.states[Len(b.states)] \in Views
           /\ OneLine(b.states[Len(b.states)], View(g))
           /\ FrameCount(b) \in Nat /\ FrameCount(b) >= 1
  <1>1. b \in Strips /\ b.frame = View(g) /\ Chain(b.states, seen) /\ View(g) \in Views
    BY ViewType DEF Follows
  <1>2. b.states \in Seq(Views) /\ b.states # <<>> /\ b.hasPendingMove \in BOOLEAN
    BY <1>1 DEF Chain, Strips
  <1>3. Len(b.states) \in Nat /\ Len(b.states) >= 1
    BY <1>2
  <1>4. b.states[Len(b.states)] \in Views
    BY <1>2, <1>3
  <1>5. OneLine(b.states[Len(b.states)], View(g))
    BY <1>1, SameFrame DEF Follows
  <1>6. FrameCount(b) \in Nat /\ FrameCount(b) >= 1
    BY <1>3 DEF FrameCount
  <1> QED
    BY <1>1, <1>3, <1>4, <1>5, <1>6

\* A line is drawn; whatever was pending is shown first.
LEMMA MoveFollows ==
    ASSUME NEW b, NEW g \in Games, NEW seen, Follows(b, g, seen), View(g) \in seen,
           NEW move \in Moves
    PROVE  LET r == show(b, MoveApplied(move))
           IN  /\ Follows(r, drawn(g, move), seen)
               /\ r.hasPendingMove
               /\ FrameCount(r) >= FrameCount(b)
  <1> DEFINE r == show(b, MoveApplied(move))
             d == drawn(g, move)
             S == b.states
  <1>1. /\ b \in Strips /\ b.frame = View(g) /\ View(g) \in Views
        /\ Chain(S, seen)
        /\ Len(S) \in Nat
        /\ OneLine(S[Len(S)], View(g))
    BY LastFrame
  <1>2. /\ r \in Strips
        /\ r.states = IF b.hasPendingMove THEN Append(S, View(g)) ELSE S
        /\ r.frame = View(d)
        /\ r.hasPendingMove
    BY <1>1, ShowMove
  <1> HIDE DEF r
  <1>3. /\ Chain(r.states, seen) /\ r.states[Len(r.states)] = View(g)
        /\ Len(r.states) = IF b.hasPendingMove THEN Len(S) + 1 ELSE Len(S)
    <2>1. CASE b.hasPendingMove
      BY <1>1, <1>2, <2>1, ChainGrows
    <2>2. CASE ~b.hasPendingMove
      <3>1. S[Len(S)] = View(g)
        BY <2>2 DEF Follows
      <3> QED
        BY <1>1, <1>2, <2>2, <3>1
    <2> QED
      BY <2>1, <2>2
  <1>4. OneLine(View(g), View(d))
    <2>1. View(g).edges = g.edges /\ View(d).edges = d.edges
      BY DEF View
    <2>2. d.edges = setEdge(g.edges, move.cell, move.side)
      BY DrawnFields
    <2>3. g.edges \in [Cells -> SUBSET Sides] /\ move.cell \in Cells /\ move.side \in Sides
      BY DEF Games, Moves
    <2> QED
      BY <2>1, <2>2, <2>3, DrawnIsOneLine
  <1>5. Follows(r, d, seen)
    BY <1>2, <1>3, <1>4 DEF Follows
  <1>6. FrameCount(r) >= FrameCount(b)
    BY <1>1, <1>2, <1>3 DEF FrameCount
  <1> QED
    BY <1>2, <1>5, <1>6 DEF r

\* A box is given away on the frame that is pending.
LEMMA BoxFollows ==
    ASSUME NEW b, NEW g \in Games, NEW seen, Follows(b, g, seen), b.hasPendingMove,
           NEW box \in Cells, NEW p \in Seats
    PROVE  LET r == show(b, BoxCompleted(box, p))
           IN  /\ Follows(r, claimBox(g, box, p), seen)
               /\ r.hasPendingMove
               /\ FrameCount(r) >= FrameCount(b)
  <1> DEFINE r == show(b, BoxCompleted(box, p))
             k == claimBox(g, box, p)
  <1>1. /\ b \in Strips /\ b.frame = View(g) /\ Chain(b.states, seen)
        /\ Len(b.states) \in Nat
        /\ OneLine(b.states[Len(b.states)], View(g))
    BY LastFrame
  <1>2. /\ r \in Strips
        /\ r.states = b.states
        /\ r.frame = View(k)
        /\ r.hasPendingMove
    BY <1>1, ShowBox
  <1> HIDE DEF r
  <1>3. View(k).edges = View(g).edges
    BY DEF View, claimBox, Games
  <1>4. OneLine(b.states[Len(b.states)], View(k))
    BY <1>1, <1>3 DEF OneLine
  <1>5. Follows(r, k, seen)
    BY <1>1, <1>2, <1>4 DEF Follows
  <1>6. FrameCount(r) >= FrameCount(b)
    BY <1>1, <1>2 DEF FrameCount
  <1> QED
    BY <1>2, <1>5, <1>6 DEF r

\* The turn is passed, by a move or by the clock.
LEMMA PassFollows ==
    ASSUME NEW b, NEW g \in Games, NEW seen, Follows(b, g, seen), NEW p \in Seats,
           View(passTurn(g, p)) \in seen
    PROVE  LET r == show(b, TurnPassed(p))
           IN  /\ Follows(r, passTurn(g, p), seen)
               /\ FrameCount(r) >= FrameCount(b)
  <1> DEFINE r == show(b, TurnPassed(p))
             t == passTurn(g, p)
  <1>1. /\ b \in Strips /\ b.frame = View(g) /\ Chain(b.states, seen)
        /\ Len(b.states) \in Nat
        /\ OneLine(b.states[Len(b.states)], View(g))
    BY LastFrame
  <1>2. /\ r \in Strips
        /\ r.states = Append(b.states, View(t))
        /\ r.frame = View(t)
        /\ ~r.hasPendingMove
    BY <1>1, ShowPass
  <1> HIDE DEF r
  <1>3. View(t).edges = View(g).edges /\ View(t) \in Views
    BY ViewType DEF View, passTurn, Games
  <1>4. OneLine(b.states[Len(b.states)], View(t))
    BY <1>1, <1>3 DEF OneLine
  <1>5. /\ Chain(r.states, seen) /\ r.states[Len(r.states)] = View(t)
        /\ Len(r.states) = Len(b.states) + 1
    BY <1>1, <1>2, <1>3, <1>4, ChainGrows
  <1>6. Follows(r, t, seen)
    BY <1>2, <1>5 DEF Follows
  <1>7. FrameCount(r) >= FrameCount(b)
    BY <1>1, <1>2, <1>5 DEF FrameCount
  <1> QED
    BY <1>6, <1>7 DEF r

\* The game ends, on a full board or by a forfeit: the board stays as it is.
LEMMA EndFollows ==
    ASSUME NEW b, NEW g \in Games, NEW seen, Follows(b, g, seen), View(g) \in seen,
           NEW e, e.type \in {"GameEnded", "GameForfeited"}, NEW w
    PROVE  LET r == show(b, e)
           IN  /\ Follows(r, endGame(g, w), seen)
               /\ FrameCount(r) >= FrameCount(b)
  <1> DEFINE r == show(b, e)
  <1>1. /\ b \in Strips /\ b.frame = View(g) /\ View(g) \in Views /\ Chain(b.states, seen)
        /\ Len(b.states) \in Nat
        /\ OneLine(b.states[Len(b.states)], View(g))
    BY LastFrame
  <1>2. /\ r \in Strips
        /\ r.states = Append(b.states, View(g))
        /\ r.frame = View(g)
        /\ ~r.hasPendingMove
    BY <1>1, ShowEnd
  <1> HIDE DEF r
  <1>3. View(endGame(g, w)) = View(g)
    BY DEF View, endGame, Games
  <1>4. /\ Chain(r.states, seen) /\ r.states[Len(r.states)] = View(g)
        /\ Len(r.states) = Len(b.states) + 1
    BY <1>1, <1>2, ChainGrows
  <1>5. Follows(r, endGame(g, w), seen)
    BY <1>2, <1>3, <1>4 DEF Follows
  <1>6. FrameCount(r) >= FrameCount(b)
    BY <1>1, <1>2, <1>4 DEF FrameCount
  <1> QED
    BY <1>5, <1>6 DEF r

\* The events the page may have to show.
Recordable ==
    {GameCreated}
    \union {MoveApplied(move) : move \in Moves}
    \union {BoxCompleted(box, p) : box \in Cells, p \in Seats}
    \union {TurnPassed(p) : p \in Seats}
    \union {GameEnded(w) : w \in Seats \union {NoSeat}}
    \union {GameForfeited(u, w) : u \in Users, w \in Seats}

\* An event that is there only if a condition holds.
LEMMA ShowIf ==
    ASSUME NEW b, NEW c, NEW e, c => e \in Recordable
    PROVE  /\ showAll(b, eventIf(c, e)) = IF c THEN show(b, e) ELSE b
           /\ eventIf(c, e) \in Seq(Recordable)
  BY ShowFew DEF eventIf

\* One portion more.
LEMMA ShowMore ==
    ASSUME NEW s \in Seq(Recordable), Len(s) >= 1, NEW t \in Seq(Recordable),
           NEW b, NEW r, showAll(b, s) = r
    PROVE  /\ s \o t \in Seq(Recordable)
           /\ Len(s \o t) >= 1
           /\ showAll(b, s \o t) = showAll(r, t)
  <1>1. s \o t \in Seq(Recordable) /\ Len(s \o t) >= 1
    OBVIOUS
  <1>2. showAll(b, s \o t) = showAll(showAll(b, s), t)
    BY ShowConcat
  <1> QED
    BY <1>1, <1>2

\* Showing what a move recorded catches up with the move (game.go, ApplyMove).
LEMMA MoveShown ==
    ASSUME NEW b, NEW g \in Games, NEW seen, Follows(b, g, seen), View(g) \in seen,
           NEW move \in Moves, NEW more, seen \subseteq more, View(ApplyMove(g, move)) \in more
    PROVE  LET r == showAll(b, MoveEvents(g, move))
           IN  /\ Follows(r, ApplyMove(g, move), more)
               /\ FrameCount(r) >= FrameCount(b)
               /\ MoveEvents(g, move) \in Seq(Recordable)
               /\ MoveEvents(g, move) # <<>>
  <1> DEFINE adj == getAdjacentBox(move.cell, move.side)
             x1 == drawn(g, move)
             x2 == ownClaimed(g, move)
             x3 == boxesClaimed(g, move)
             x4 == turnSettled(g, move)
             p1 == <<MoveApplied(move)>>
             p2 == eventIf(ownCompleted(g, move), BoxCompleted(move.cell, move.seat))
             p3 == eventIf(adjacentCompleted(g, move), BoxCompleted(adj, move.seat))
             p4 == eventIf(completedNone(g, move), TurnPassed(nextSeat(g)))
             p5 == eventIf(isGameOver(x4), GameEnded(determineWinner(x4)))
             r1 == show(b, MoveApplied(move))
             r2 == showAll(r1, p2)
             r3 == showAll(r2, p3)
             r4 == showAll(r3, p4)
             r5 == showAll(r4, p5)
  <1>1. /\ move.cell \in Cells /\ move.side \in Sides /\ move.seat \in Seats
        /\ nextSeat(g) \in Seats
    <2>1. move.cell \in Cells /\ move.side \in Sides /\ move.seat \in Seats
      BY DEF Moves
    <2>2. nextSeat(g) \in Seats
      BY PassTurnFields DEF nextSeat, Seats, Games
    <2> QED
      BY <2>1, <2>2
  <1>2. /\ x1 \in Games
        /\ ownCompleted(g, move) => x1.owner[move.cell] = NoSeat
        /\ adjacentCompleted(g, move) => adj \in Cells
    BY DrawnFields DEF ownCompleted, adjacentCompleted, findCompletableBox
  <1>3. /\ x2 = (IF ownCompleted(g, move) THEN claimBox(x1, move.cell, move.seat) ELSE x1)
        /\ x2 \in Games
    BY <1>1, <1>2, ClaimBoxCounted DEF ownClaimed
  <1>4. /\ x3 = (IF adjacentCompleted(g, move) THEN claimBox(x2, adj, move.seat) ELSE x2)
        /\ x3 \in Games
    BY BoxesClaimedFields DEF boxesClaimed
  <1>5. x4 = (IF completedNone(g, move) THEN passTurn(x3, nextSeat(g)) ELSE x3) /\ x4 \in Games
    <2>1. passTurn(x3, nextSeat(g)) \in Games
      BY <1>1, <1>4 DEF passTurn, Games
    <2> QED
      BY <1>4, <2>1 DEF turnSettled
  <1>6. ApplyMove(g, move) = IF isGameOver(x4) THEN endGame(x4, determineWinner(x4)) ELSE x4
    BY DEF ApplyMove, endIfFull
  <1>7. View(ApplyMove(g, move)) = View(x4)
    BY <1>6 DEF View, endGame, Games
  <1>8. Follows(b, g, more) /\ View(g) \in more
    BY ChainKeeps DEF Follows
  <1>9. /\ MoveApplied(move) \in Recordable
        /\ BoxCompleted(move.cell, move.seat) \in Recordable
        /\ adjacentCompleted(g, move) => BoxCompleted(adj, move.seat) \in Recordable
        /\ TurnPassed(nextSeat(g)) \in Recordable
        /\ GameEnded(determineWinner(x4)) \in Recordable
    BY <1>1, <1>2, <1>5, WinnerIsRight DEF Recordable
  <1>10. /\ r2 = (IF ownCompleted(g, move)
                   THEN show(r1, BoxCompleted(move.cell, move.seat)) ELSE r1)
         /\ r3 = (IF adjacentCompleted(g, move)
                   THEN show(r2, BoxCompleted(adj, move.seat)) ELSE r2)
         /\ r4 = (IF completedNone(g, move) THEN show(r3, TurnPassed(nextSeat(g))) ELSE r3)
         /\ r5 = (IF isGameOver(x4) THEN show(r4, GameEnded(determineWinner(x4))) ELSE r4)
         /\ p2 \in Seq(Recordable) /\ p3 \in Seq(Recordable)
         /\ p4 \in Seq(Recordable) /\ p5 \in Seq(Recordable)
    BY <1>9, ShowIf
  <1>11. /\ p1 \in Seq(Recordable) /\ Len(p1) = 1
         /\ showAll(b, p1) = r1
    BY <1>9, ShowFew
  <1>12. /\ MoveEvents(g, move) = (((p1 \o p2) \o p3) \o p4) \o p5
         /\ MoveEvents(g, move) \in Seq(Recordable)
         /\ MoveEvents(g, move) # <<>>
         /\ showAll(b, MoveEvents(g, move)) = r5
    <2>1. MoveEvents(g, move) = (((p1 \o p2) \o p3) \o p4) \o p5
      BY DEF MoveEvents
    <2> HIDE DEF p1, p2, p3, p4, p5, r1
    <2> DEFINE q2 == p1 \o p2
               q3 == q2 \o p3
               q4 == q3 \o p4
               q5 == q4 \o p5
    <2> HIDE DEF r2, r3, r4, r5
    <2>2. /\ p2 \in Seq(Recordable) /\ p3 \in Seq(Recordable)
          /\ p4 \in Seq(Recordable) /\ p5 \in Seq(Recordable)
      BY <1>10
    <2>3. q2 \in Seq(Recordable) /\ Len(q2) >= 1 /\ showAll(b, q2) = r2
      <3>1. p1 \in Seq(Recordable) /\ Len(p1) >= 1 /\ showAll(b, p1) = r1
        BY <1>11
      <3> QED
        BY <2>2, <3>1, ShowMore DEF r2
    <2> HIDE DEF q2
    <2>4. q3 \in Seq(Recordable) /\ Len(q3) >= 1 /\ showAll(b, q3) = r3
      BY <2>2, <2>3, ShowMore DEF r3
    <2> HIDE DEF q3
    <2>5. q4 \in Seq(Recordable) /\ Len(q4) >= 1 /\ showAll(b, q4) = r4
      BY <2>2, <2>4, ShowMore DEF r4
    <2> HIDE DEF q4
    <2>6. q5 \in Seq(Recordable) /\ Len(q5) >= 1 /\ showAll(b, q5) = r5
      BY <2>2, <2>5, ShowMore DEF r5
    <2>7. MoveEvents(g, move) = q5
      BY <2>1 DEF q2, q3, q4, q5
    <2> HIDE DEF q5
    <2>8. q5 # <<>>
      BY <2>6
    <2> QED
      BY <2>1, <2>6, <2>7, <2>8
  <1> HIDE DEF p1, p2, p3, p4, p5, r1, r2, r3, r4, r5, x1, x2, x3, x4, adj
  <1>13. Follows(r1, x1, more) /\ r1.hasPendingMove /\ FrameCount(r1) >= FrameCount(b)
    BY <1>8, MoveFollows DEF r1, x1
  <1>14. Follows(r2, x2, more) /\ r2.hasPendingMove /\ FrameCount(r2) >= FrameCount(r1)
    <2>1. FrameCount(r1) \in Nat
      BY <1>2, <1>13, LastFrame
    <2>2. CASE ownCompleted(g, move)
      BY <1>1, <1>2, <1>3, <1>10, <1>13, <2>2, BoxFollows
    <2>3. CASE ~ownCompleted(g, move)
      BY <1>3, <1>10, <1>13, <2>1, <2>3
    <2> QED
      BY <2>2, <2>3
  <1>15. Follows(r3, x3, more) /\ r3.hasPendingMove /\ FrameCount(r3) >= FrameCount(r2)
    <2>1. FrameCount(r2) \in Nat
      BY <1>3, <1>14, LastFrame
    <2>2. CASE adjacentCompleted(g, move)
      BY <1>1, <1>2, <1>3, <1>4, <1>10, <1>14, <2>2, BoxFollows
    <2>3. CASE ~adjacentCompleted(g, move)
      BY <1>4, <1>10, <1>14, <2>1, <2>3
    <2> QED
      BY <2>2, <2>3
  <1>16. Follows(r4, x4, more) /\ FrameCount(r4) >= FrameCount(r3)
    <2>1. FrameCount(r3) \in Nat
      BY <1>4, <1>15, LastFrame
    <2>2. CASE completedNone(g, move)
      <3>1. View(passTurn(x3, nextSeat(g))) \in more
        BY <1>5, <1>7, <2>2
      <3> QED
        BY <1>1, <1>4, <1>5, <1>10, <1>15, <2>2, <3>1, PassFollows
    <2>3. CASE ~completedNone(g, move)
      BY <1>5, <1>10, <1>15, <2>1, <2>3
    <2> QED
      BY <2>2, <2>3
  <1>17. Follows(r5, ApplyMove(g, move), more) /\ FrameCount(r5) >= FrameCount(r4)
    <2>1. FrameCount(r4) \in Nat
      BY <1>5, <1>16, LastFrame
    <2>2. CASE isGameOver(x4)
      <3>1. GameEnded(determineWinner(x4)).type = "GameEnded"
        BY DEF GameEnded
      <3> QED
        BY <1>5, <1>6, <1>7, <1>10, <1>16, <2>2, <3>1, EndFollows
    <2>3. CASE ~isGameOver(x4)
      BY <1>6, <1>10, <1>16, <2>1, <2>3
    <2> QED
      BY <2>2, <2>3
  <1>18. FrameCount(r5) >= FrameCount(b)
    <2>1. /\ FrameCount(b) \in Nat /\ FrameCount(r1) \in Nat /\ FrameCount(r2) \in Nat
          /\ FrameCount(r3) \in Nat /\ FrameCount(r4) \in Nat
      BY <1>2, <1>3, <1>4, <1>5, <1>8, <1>13, <1>14, <1>15, <1>16, LastFrame
    <2>2. FrameCount(r5) \in Nat
      <3>1. ApplyMove(g, move) \in Games
        BY ApplyMoveFields
      <3> QED
        BY <1>17, <3>1, LastFrame
    <2> QED
      BY <1>13, <1>14, <1>15, <1>16, <1>17, <2>1, <2>2
  <1> QED
    BY <1>12, <1>17, <1>18

\* Showing what a timeout recorded catches up with it (game.go, PassTurnOnTimeout).
LEMMA TimeoutShown ==
    ASSUME NEW b, NEW g \in Games, NEW seen, Follows(b, g, seen),
           NEW more, seen \subseteq more, View(PassTurnOnTimeout(g)) \in more
    PROVE  LET r == showAll(b, TimeoutEvents(g))
           IN  /\ Follows(r, PassTurnOnTimeout(g), more)
               /\ FrameCount(r) >= FrameCount(b)
               /\ TimeoutEvents(g) \in Seq(Recordable)
               /\ TimeoutEvents(g) # <<>>
  <1> DEFINE t == passTurn(g, nextSeat(g))
             p1 == <<TurnPassed(nextSeat(g))>>
             p2 == eventIf(isGameOver(t), GameEnded(determineWinner(t)))
             r1 == show(b, TurnPassed(nextSeat(g)))
             r2 == showAll(r1, p2)
  <1>1. nextSeat(g) \in Seats /\ t \in Games
    BY PassTurnFields DEF nextSeat, Seats, Games
  <1>2. PassTurnOnTimeout(g) = IF isGameOver(t) THEN endGame(t, determineWinner(t)) ELSE t
    BY DEF PassTurnOnTimeout, endIfFull
  <1>3. View(PassTurnOnTimeout(g)) = View(t)
    BY <1>2 DEF View, endGame, Games
  <1>4. Follows(b, g, more)
    BY ChainKeeps DEF Follows
  <1>5. TurnPassed(nextSeat(g)) \in Recordable /\ GameEnded(determineWinner(t)) \in Recordable
    BY <1>1, WinnerIsRight DEF Recordable
  <1>6. /\ r2 = (IF isGameOver(t) THEN show(r1, GameEnded(determineWinner(t))) ELSE r1)
        /\ p2 \in Seq(Recordable)
    BY <1>5, ShowIf
  <1>7. p1 \in Seq(Recordable) /\ Len(p1) = 1 /\ showAll(b, p1) = r1
    BY <1>5, ShowFew
  <1>8. TimeoutEvents(g) = p1 \o p2
    BY DEF TimeoutEvents
  <1> HIDE DEF p1, p2, r1, r2, t
  <1>9. /\ TimeoutEvents(g) \in Seq(Recordable)
        /\ TimeoutEvents(g) # <<>>
        /\ showAll(b, TimeoutEvents(g)) = r2
    <2>1. p1 \o p2 \in Seq(Recordable) /\ Len(p1 \o p2) >= 1
      BY <1>6, <1>7
    <2>2. showAll(b, p1 \o p2) = r2
      BY <1>6, <1>7, ShowConcat DEF r2
    <2>3. p1 \o p2 # <<>>
      BY <2>1
    <2> QED
      BY <1>8, <2>1, <2>2, <2>3
  <1>10. Follows(r1, t, more) /\ FrameCount(r1) >= FrameCount(b)
    BY <1>1, <1>3, <1>4, PassFollows DEF r1, t
  <1>11. FrameCount(b) \in Nat /\ FrameCount(r1) \in Nat
    BY <1>1, <1>4, <1>10, LastFrame
  <1>12. Follows(r2, PassTurnOnTimeout(g), more) /\ FrameCount(r2) >= FrameCount(r1)
    <2>1. CASE isGameOver(t)
      <3>1. GameEnded(determineWinner(t)).type = "GameEnded"
        BY DEF GameEnded
      <3> QED
        BY <1>1, <1>2, <1>3, <1>6, <1>10, <2>1, <3>1, EndFollows
    <2>2. CASE ~isGameOver(t)
      BY <1>2, <1>6, <1>10, <1>11, <2>2
    <2> QED
      BY <2>1, <2>2
  <1>13. FrameCount(r2) \in Nat
    <2>1. PassTurnOnTimeout(g) \in Games
      BY <1>1, EndIfFullFields DEF PassTurnOnTimeout, t
    <2> QED
      BY <1>12, <2>1, LastFrame
  <1> QED
    BY <1>9, <1>10, <1>11, <1>12, <1>13

\* Showing what a forfeit recorded catches up with it (game.go, Forfeit).
LEMMA ForfeitShown ==
    ASSUME NEW b, NEW g \in Games, NEW seen, Follows(b, g, seen), View(g) \in seen,
           NEW u \in Users, NEW more, seen \subseteq more
    PROVE  LET r == showAll(b, ForfeitEvents(g, u))
           IN  /\ Follows(r, Forfeit(g, u), more)
               /\ View(Forfeit(g, u)) = View(g)
               /\ FrameCount(r) >= FrameCount(b)
               /\ ForfeitEvents(g, u) \in Seq(Recordable)
               /\ ForfeitEvents(g, u) # <<>>
  <1> DEFINE e == GameForfeited(u, forfeitWinner(g, u))
  <1>1. e.type = "GameForfeited"
    BY DEF GameForfeited
  <1>2. e \in Recordable
    <2>1. /\ Seats \ {u} \in SUBSET Seats /\ Seats \ {u} # {}
          /\ g.score \in [Seats -> Nat]
      BY NumPlayersAssumption DEF Seats, Games
    <2>2. firstLeader(g.score, Seats \ {u}) \in Seats
      BY <2>1, FirstLeaderFound
    <2>3. forfeitWinner(g, u) \in Seats
      BY <2>2 DEF forfeitWinner
    <2> QED
      BY <2>3 DEF Recordable
  <1>3. Follows(b, g, more) /\ View(g) \in more
    BY ChainKeeps DEF Follows
  <1>4. ForfeitEvents(g, u) = <<e>> /\ Forfeit(g, u) = endGame(g, forfeitWinner(g, u))
    BY DEF ForfeitEvents, Forfeit
  <1>5. View(Forfeit(g, u)) = View(g)
    BY <1>4 DEF View, endGame, Games
  <1>6. showAll(b, <<e>>) = show(b, e)
    BY ShowFew
  <1> HIDE DEF e
  <1>7. Follows(show(b, e), Forfeit(g, u), more) /\ FrameCount(show(b, e)) >= FrameCount(b)
    BY <1>1, <1>3, <1>4, EndFollows
  <1>8. <<e>> \in Seq(Recordable) /\ <<e>> # <<>>
    BY <1>2
  <1> QED
    BY <1>4, <1>5, <1>6, <1>7, <1>8

------------------------------------------------------------------------------
(* The openings.                                                           *)

\* A game that is set up, with what it recorded.
SetUp == [game |-> newGame, log |-> <<GameCreated>>, reached |-> {View(newGame)}]

\* f holds the game after each of the first n lines.
Opens(f, lines, n) ==
    f = [v \in 0 .. n |-> IF v = 0 THEN SetUp ELSE lineDrawn(f[v - 1], lines[v])]

\* The recursion of openedBy has a solution.
LEMMA OpensDefined ==
    ASSUME NEW lines, NEW n \in Nat
    PROVE  \E f : Opens(f, lines, n)
  <1> DEFINE S == {m \in Nat : \E f : Opens(f, lines, m)}
  <1>1. 0 \in S
    <2>1. Opens([v \in 0 .. 0 |-> SetUp], lines, 0)
      BY DEF Opens
    <2> QED
      BY <2>1
  <1>2. ASSUME NEW m \in S PROVE m + 1 \in S
    <2>1. PICK f : Opens(f, lines, m)
      OBVIOUS
    <2>2. m \in Nat
      OBVIOUS
    <2> HIDE DEF S
    <2> DEFINE h == [v \in 0 .. m + 1 |-> IF v <= m THEN f[v] ELSE lineDrawn(f[m], lines[m + 1])]
    <2>3. \A v \in 0 .. m : f[v] = IF v = 0 THEN SetUp ELSE lineDrawn(f[v - 1], lines[v])
      BY <2>1 DEF Opens
    <2>4. /\ \A v \in 0 .. m : h[v] = f[v]
          /\ h[m + 1] = lineDrawn(f[m], lines[m + 1])
          /\ h = [v \in 0 .. m + 1 |-> h[v]]
      BY <2>2
    <2> HIDE DEF h
    <2>5. ASSUME NEW v \in 0 .. m + 1
          PROVE  h[v] = IF v = 0 THEN SetUp ELSE lineDrawn(h[v - 1], lines[v])
      <3>1. CASE v = m + 1
        <4>1. v # 0 /\ v - 1 = m /\ m \in 0 .. m
          BY <2>2, <3>1
        <4> QED
          BY <2>4, <3>1, <4>1
      <3>2. CASE v \in 0 .. m
        <4>1. v = 0 \/ v - 1 \in 0 .. m
          BY <2>2, <3>2
        <4> QED
          BY <2>3, <2>4, <3>2, <4>1
      <3> QED
        BY <2>2, <3>1, <3>2
    <2>6. [v \in 0 .. m + 1 |-> h[v]]
            = [v \in 0 .. m + 1 |-> IF v = 0 THEN SetUp ELSE lineDrawn(h[v - 1], lines[v])]
      BY <2>5, Zenon
    <2>7. Opens(h, lines, m + 1)
      BY <2>4, <2>6, Zenon DEF Opens
    <2> QED
      BY <2>2, <2>7 DEF S
  <1>3. S = Nat
    <2> HIDE DEF S
    <2>1. S \in SUBSET Nat
      BY DEF S
    <2> QED
      BY <1>1, <1>2, <2>1, CountingUp
  <1> QED
    BY <1>3

\* Two solutions agree as far as they both go.
LEMMA OpensOneWay ==
    ASSUME NEW lines, NEW m \in Nat, NEW n \in Nat, NEW f, NEW h,
           Opens(f, lines, m), Opens(h, lines, n), NEW k \in Nat, k <= m, k <= n
    PROVE  f[k] = h[k]
  <1>1. /\ \A v \in 0 .. m : f[v] = IF v = 0 THEN SetUp ELSE lineDrawn(f[v - 1], lines[v])
        /\ \A v \in 0 .. n : h[v] = IF v = 0 THEN SetUp ELSE lineDrawn(h[v - 1], lines[v])
    BY DEF Opens
  <1> DEFINE S == {v \in Nat : v <= m /\ v <= n => f[v] = h[v]}
  <1>2. S \in SUBSET Nat
    OBVIOUS
  <1>3. 0 \in S
    BY <1>1
  <1>4. ASSUME NEW v \in S PROVE v + 1 \in S
    <2>1. SUFFICES ASSUME v + 1 <= m, v + 1 <= n
                   PROVE  f[v + 1] = h[v + 1]
      OBVIOUS
    <2>2. v \in Nat /\ f[v] = h[v]
      BY <2>1
    <2>3. v + 1 \in 0 .. m /\ v + 1 \in 0 .. n /\ v + 1 # 0 /\ (v + 1) - 1 = v
      BY <2>1, <2>2
    <2> QED
      BY <1>1, <2>2, <2>3
  <1>5. S = Nat
    <2> HIDE DEF S
    <2> QED
      BY <1>2, <1>3, <1>4, CountingUp
  <1> QED
    BY <1>5

\* The game after no line and after one more.
LEMMA OpenedStep ==
    ASSUME NEW lines
    PROVE  /\ openedBy(lines, 0) = SetUp
           /\ \A n \in Nat : openedBy(lines, n + 1) = lineDrawn(openedBy(lines, n), lines[n + 1])
  <1> DEFINE After(n) == CHOOSE f : Opens(f, lines, n)
  <1>1. ASSUME NEW n \in Nat
        PROVE  openedBy(lines, n) = After(n)[n] /\ Opens(After(n), lines, n)
    <2>1. openedBy(lines, n) = After(n)[n]
      BY DEF openedBy, Opens, SetUp
    <2>2. Opens(After(n), lines, n)
      BY OpensDefined, Zenon
    <2> QED
      BY <2>1, <2>2
  <1> HIDE DEF After
  <1>2. openedBy(lines, 0) = SetUp
    BY <1>1 DEF Opens
  <1>3. ASSUME NEW n \in Nat
        PROVE  openedBy(lines, n + 1) = lineDrawn(openedBy(lines, n), lines[n + 1])
    <2>1. n + 1 \in Nat
      OBVIOUS
    <2>2. /\ openedBy(lines, n + 1) = After(n + 1)[n + 1] /\ Opens(After(n + 1), lines, n + 1)
          /\ openedBy(lines, n) = After(n)[n] /\ Opens(After(n), lines, n)
      BY <1>1, <2>1
    <2>3. After(n)[n] = After(n + 1)[n]
      BY <2>1, <2>2, OpensOneWay
    <2>4. After(n + 1)[n + 1] = lineDrawn(After(n + 1)[n], lines[n + 1])
      BY <2>2 DEF Opens
    <2> QED
      BY <2>2, <2>3, <2>4
  <1> QED
    BY <1>2, <1>3

\* The loop has caught up with an opened game (replay/$gameID.tsx).
Shown(o) ==
    /\ o.game \in Games
    /\ o.log \in Seq(Recordable) /\ o.log # <<>>
    /\ Follows(showAll(NoFrames, o.log), o.game, o.reached)
    /\ View(o.game) \in o.reached

\* A game that is set up shows as the empty frame.
LEMMA SetUpShown == Shown(SetUp)
  <1> DEFINE v == EmptyFrame
             b == show(NoFrames, GameCreated)
  <1>1. newGame \in Games
    <2>1. 0 \in Seats
      BY DEF Seats
    <2> QED
      BY <2>1 DEF newGame, Games, makeEmptyGrid
  <1>2. v = View(newGame) /\ v \in Views
    BY <1>1, ViewType DEF EmptyFrame
  <1>3. GameCreated.type = "GameCreated"
    BY DEF GameCreated
  <1>4. b = [NoFrames EXCEPT !.frame = v, !.states = Append(@, v)]
    BY <1>3 DEF show, showEvent, pushPending
  <1>5. NoFrames \in Strips /\ NoFrames.states = <<>> /\ ~NoFrames.hasPendingMove
    BY <1>2 DEF NoFrames, Strips
  <1> HIDE DEF v
  <1>6. /\ <<v>> \in Seq(Views) /\ <<v>> # <<>> /\ <<v>>[1] = v /\ Len(<<v>>) = 1
        /\ Append(<<>>, v) = <<v>>
    BY <1>2
  <1>7. b \in Strips /\ b.states = <<v>> /\ b.frame = v /\ ~b.hasPendingMove
    BY <1>2, <1>4, <1>5, <1>6 DEF Strips
  <1>8. showAll(NoFrames, <<GameCreated>>) = b
    BY ShowFew
  <1> HIDE DEF b
  <1>9. Chain(<<v>>, {v})
    <2>1. \A i \in 1 .. 1 : <<v>>[i] \in {v}
      BY <1>6
    <2> QED
      BY <1>6, <2>1 DEF Chain, v
  <1>10. Follows(b, newGame, {v})
    BY <1>2, <1>6, <1>7, <1>9 DEF Follows
  <1>11. <<GameCreated>> \in Seq(Recordable) /\ <<GameCreated>> # <<>>
    BY DEF Recordable
  <1> QED
    BY <1>1, <1>2, <1>10, <1>11, <1>8 DEF Shown, SetUp

\* And so does a game in which one more line was drawn.
LEMMA LineShown ==
    ASSUME NEW o, Shown(o), NEW line \in Cells \X Sides
    PROVE  Shown(lineDrawn(o, line))
  <1> DEFINE move == [seat |-> o.game.turn, cell |-> line[1], side |-> line[2]]
             next == ApplyMove(o.game, move)
             es == MoveEvents(o.game, move)
             more == o.reached \union {View(next)}
             n == lineDrawn(o, line)
  <1>1. /\ o.game \in Games /\ o.log \in Seq(Recordable) /\ o.log # <<>>
        /\ Follows(showAll(NoFrames, o.log), o.game, o.reached)
        /\ View(o.game) \in o.reached
    BY DEF Shown
  <1>2. move \in Moves
    BY <1>1 DEF Moves, Games
  <1>3. n.game = next /\ n.log = o.log \o es /\ n.reached = more
    BY DEF lineDrawn
  <1> HIDE DEF move, n
  <1>4. next \in Games
    BY <1>1, <1>2, ApplyMoveFields
  <1>5. o.reached \subseteq more /\ View(next) \in more
    OBVIOUS
  <1> HIDE DEF more, next
  <1>6. /\ Follows(showAll(showAll(NoFrames, o.log), es), next, more)
        /\ es \in Seq(Recordable) /\ es # <<>>
    BY <1>1, <1>2, <1>5, MoveShown DEF next
  <1> HIDE DEF es
  <1>7. showAll(NoFrames, o.log \o es) = showAll(showAll(NoFrames, o.log), es)
    BY <1>1, <1>6, ShowConcat
  <1>8. o.log \o es \in Seq(Recordable) /\ o.log \o es # <<>>
    BY <1>1, <1>6
  <1> QED
    BY <1>3, <1>4, <1>5, <1>6, <1>7, <1>8 DEF Shown, n

\* Every opening can be shown.
LEMMA OpeningsShown ==
    ASSUME NEW lines \in Openings
    PROVE  Shown(openedBy(lines, Len(lines)))
  <1>1. lines \in Seq(Cells \X Sides) /\ Len(lines) \in Nat
    BY OpeningsAssumption
  <1> DEFINE S == {n \in Nat : n <= Len(lines) => Shown(openedBy(lines, n))}
  <1>2. S \in SUBSET Nat
    OBVIOUS
  <1>3. 0 \in S
    BY OpenedStep, SetUpShown
  <1>4. ASSUME NEW n \in S PROVE n + 1 \in S
    <2>1. SUFFICES ASSUME n + 1 <= Len(lines)
                   PROVE  Shown(openedBy(lines, n + 1))
      OBVIOUS
    <2>2. n \in Nat /\ Shown(openedBy(lines, n))
      BY <1>1, <2>1
    <2>3. lines[n + 1] \in Cells \X Sides
      BY <1>1, <2>1, <2>2
    <2>4. openedBy(lines, n + 1) = lineDrawn(openedBy(lines, n), lines[n + 1])
      BY <2>2, OpenedStep
    <2> QED
      BY <2>2, <2>3, <2>4, LineShown
  <1>5. S = Nat
    <2> HIDE DEF S
    <2> QED
      BY <1>2, <1>3, <1>4, CountingUp
  <1> QED
    BY <1>1, <1>5

------------------------------------------------------------------------------
(* The film.                                                               *)

\* What the loop over all the recorded events has come to.
Strip == showAll(NoFrames, log)

\* Where the step may be: left of the film until it has been moved once.
StepInBounds ==
    /\ currentStep >= -1
    /\ fetched > 0 => currentStep <= totalSteps - 1
    /\ fetched = 0 => currentStep \in {-1, 0}

\* The invariant: the loop has caught up with the game; what was fetched is a
\* part of it, with no more frames than there would be now.
FilmInv ==
    /\ game \in Games
    /\ log \in Seq(Recordable) /\ log # <<>>
    /\ Follows(Strip, game, reached) /\ View(game) \in reached
    /\ fetched \in 0 .. Len(log)
    /\ fetched = 0 => replayStates = <<>>
    /\ fetched > 0 => totalSteps \in 1 .. FrameCount(Strip)
    /\ fetched = Len(log) => replayStates = developed(Strip)
    /\ currentStep \in Int
    /\ StepInBounds

\* What the page has when it has developed the film.
LEMMA FilmDeveloped ==
    ASSUME NEW b, NEW g \in Games, NEW seen, Follows(b, g, seen), View(g) \in seen
    PROVE  /\ Chain(developed(b), seen)
           /\ Len(developed(b)) = FrameCount(b)
           /\ developed(b)[Len(developed(b))] = View(g)
  <1> DEFINE S == b.states
  <1>1. /\ b \in Strips /\ b.frame = View(g) /\ View(g) \in Views
        /\ Chain(S, seen)
        /\ Len(S) \in Nat
        /\ OneLine(S[Len(S)], View(g))
    BY LastFrame
  <1>2. CASE b.hasPendingMove
    <2>1. developed(b) = Append(S, View(g))
      BY <1>1, <1>2, Pushed DEF developed
    <2> QED
      BY <1>1, <1>2, <2>1, ChainGrows DEF FrameCount
  <1>3. CASE ~b.hasPendingMove
    <2>1. developed(b) = S /\ S[Len(S)] = View(g)
      BY <1>3 DEF developed, Follows
    <2> QED
      BY <1>1, <1>3, <2>1 DEF FrameCount
  <1> QED
    BY <1>2, <1>3

\* A command of the game that the loop catches up with.
LEMMA GameGrows ==
    ASSUME FilmInv, game' \in Games, NEW es \in Seq(Recordable), es # <<>>, record(es),
           Follows(showAll(Strip, es), game', reached'),
           FrameCount(showAll(Strip, es)) >= FrameCount(Strip)
    PROVE  FilmInv'
  <1>1. /\ log \in Seq(Recordable) /\ log # <<>>
        /\ log' = log \o es
        /\ fetched \in 0 .. Len(log)
    BY DEF FilmInv, record
  <1>2. /\ UNCHANGED <<fetched, replayStates, currentStep>>
        /\ View(game') \in reached'
    BY DEF record, pageVars
  <1>3. /\ log' \in Seq(Recordable) /\ log' # <<>>
        /\ Len(log') > Len(log)
    BY <1>1
  <1>4. fetched' \in 0 .. Len(log') /\ fetched' # Len(log')
    BY <1>1, <1>2, <1>3
  <1>5. Strip' = showAll(Strip, es)
    BY <1>1, ShowConcat DEF Strip
  <1>6. FrameCount(Strip) \in Nat /\ FrameCount(Strip') \in Nat
    <2>1. Follows(Strip, game, reached) /\ game \in Games
      BY DEF FilmInv
    <2>2. FrameCount(Strip) \in Nat
      BY <2>1, LastFrame
    <2>3. FrameCount(showAll(Strip, es)) \in Nat
      BY LastFrame
    <2> QED
      BY <1>5, <2>2, <2>3
  <1>7. fetched' > 0 => totalSteps' \in 1 .. FrameCount(Strip')
    <2>1. fetched > 0 => totalSteps \in 1 .. FrameCount(Strip)
      BY DEF FilmInv
    <2>2. totalSteps' = totalSteps /\ fetched' = fetched
      BY <1>2 DEF totalSteps
    <2>3. FrameCount(Strip') >= FrameCount(Strip)
      BY <1>5
    <2> QED
      BY <1>6, <2>1, <2>2, <2>3
  <1>8. /\ fetched' = 0 => replayStates' = <<>>
        /\ currentStep' \in Int
        /\ StepInBounds'
    BY <1>2 DEF FilmInv, StepInBounds, totalSteps
  <1> QED
    BY <1>2, <1>3, <1>4, <1>5, <1>7, <1>8 DEF FilmInv

\* The events arrive.
LEMMA FetchKeeps == FilmInv /\ FetchEvents => FilmInv'
  <1> SUFFICES ASSUME FilmInv, FetchEvents PROVE FilmInv'
    OBVIOUS
  <1>1. /\ UNCHANGED <<game, log, reached, currentStep>>
        /\ fetched < Len(log) /\ fetched' = Len(log)
        /\ replayStates' = developed(Strip)
    BY DEF FetchEvents, gameVars, buildReplayStates, Strip
  <1>2. /\ game \in Games /\ log \in Seq(Recordable) /\ log # <<>>
        /\ Follows(Strip, game, reached) /\ View(game) \in reached
        /\ fetched \in 0 .. Len(log)
        /\ fetched > 0 => totalSteps \in 1 .. FrameCount(Strip)
        /\ currentStep \in Int
    BY DEF FilmInv
  <1>3. Strip' = Strip
    BY <1>1 DEF Strip
  <1>4. totalSteps' = FrameCount(Strip) /\ FrameCount(Strip) \in Nat /\ FrameCount(Strip) >= 1
    BY <1>1, <1>2, FilmDeveloped, LastFrame DEF totalSteps
  <1>5. fetched' \in 0 .. Len(log') /\ fetched' > 0
    BY <1>1, <1>2
  <1>6. StepInBounds'
    <2>1. currentStep' >= -1
      BY <1>1 DEF FilmInv, StepInBounds
    <2>2. currentStep <= FrameCount(Strip) - 1
      <3>1. CASE fetched = 0
        BY <1>2, <1>4, <3>1 DEF FilmInv, StepInBounds
      <3>2. CASE fetched > 0
        <4>1. totalSteps \in Int /\ totalSteps <= FrameCount(Strip)
          BY <1>2, <1>4, <3>2
        <4>2. currentStep <= totalSteps - 1
          BY <3>2 DEF FilmInv, StepInBounds
        <4> QED
          BY <1>2, <1>4, <4>1, <4>2
      <3> QED
        BY <1>2, <3>1, <3>2
    <2> QED
      BY <1>1, <1>4, <1>5, <2>1, <2>2 DEF StepInBounds
  <1>7. totalSteps' \in 1 .. FrameCount(Strip')
    BY <1>3, <1>4
  <1>8. game' \in Games /\ log' \in Seq(Recordable) /\ log' # <<>>
        /\ Follows(Strip', game', reached') /\ View(game') \in reached'
        /\ currentStep' \in Int
    BY <1>1, <1>2, <1>3
  <1>9. fetched' = 0 => replayStates' = <<>>
    BY <1>5
  <1> QED
    BY <1>1, <1>3, <1>5, <1>6, <1>7, <1>8, <1>9 DEF FilmInv

\* The player, or the interval, turns to another frame.
LEMMA StepKeeps ==
    ASSUME FilmInv, UNCHANGED <<gameVars, filmVars>>,
           \/ currentStep' \in {currentStep, 0, totalSteps - 1}
           \/ currentStep' \in 0 .. totalSteps - 1
           \/ /\ currentStep > 0
              /\ currentStep' = currentStep - 1
    PROVE  FilmInv'
  <1>1. UNCHANGED <<game, log, reached, fetched, replayStates>>
    BY DEF gameVars, filmVars
  <1>2. totalSteps' = totalSteps /\ Strip' = Strip
    BY <1>1 DEF totalSteps, Strip
  <1>3. /\ fetched \in 0 .. Len(log) /\ Len(log) \in Nat
        /\ fetched = 0 => totalSteps = 0
        /\ fetched > 0 => totalSteps \in Int /\ totalSteps >= 1
        /\ currentStep \in Int
        /\ StepInBounds
    <2>1. /\ log \in Seq(Recordable) /\ fetched \in 0 .. Len(log)
          /\ currentStep \in Int /\ StepInBounds
          /\ fetched = 0 => replayStates = <<>>
          /\ fetched > 0 => totalSteps \in 1 .. FrameCount(Strip)
      BY DEF FilmInv
    <2>2. Len(log) \in Nat
      BY <2>1
    <2>3. fetched = 0 => totalSteps = 0
      BY <2>1 DEF totalSteps
    <2> QED
      BY <2>1, <2>2, <2>3
  <1>4. currentStep' \in Int /\ StepInBounds'
    <2>1. CASE fetched = 0
      BY <1>1, <1>2, <1>3, <2>1 DEF StepInBounds
    <2>2. CASE fetched > 0
      BY <1>1, <1>2, <1>3, <2>2 DEF StepInBounds
    <2> QED
      BY <1>3, <2>1, <2>2
  <1> QED
    BY <1>1, <1>2, <1>4 DEF FilmInv

\* The page and the game it shows start out right, and every step keeps them so.
THEOREM FilmInvariance == ReplaySpec => []FilmInv
  <1>1. ReplayInit => FilmInv
    <2> SUFFICES ASSUME ReplayInit PROVE FilmInv
      OBVIOUS
    <2>1. PICK lines \in Openings :
             LET o == openedBy(lines, Len(lines))
             IN  game = o.game /\ log = o.log /\ reached = o.reached
      BY DEF ReplayInit
    <2>2. /\ game \in Games /\ log \in Seq(Recordable) /\ log # <<>>
          /\ Follows(Strip, game, reached) /\ View(game) \in reached
      BY <2>1, OpeningsShown DEF Shown, Strip
    <2>3. fetched = 0 /\ replayStates = <<>> /\ currentStep = 0
      BY DEF ReplayInit
    <2>4. fetched \in 0 .. Len(log) /\ fetched # Len(log)
      BY <2>2, <2>3
    <2> QED
      BY <2>2, <2>3, <2>4 DEF FilmInv, StepInBounds
  <1>2. FilmInv /\ [ReplayNext]_vars => FilmInv'
    <2> SUFFICES ASSUME FilmInv, [ReplayNext]_vars PROVE FilmInv'
      OBVIOUS
    <2>1. /\ game \in Games /\ Follows(Strip, game, reached) /\ View(game) \in reached
      BY DEF FilmInv
    <2>2. ASSUME NEW move \in Moves, Play(move) PROVE FilmInv'
      <3> DEFINE es == MoveEvents(game, move)
      <3>1. game' = ApplyMove(game, move) /\ record(es)
        BY <2>2 DEF Play, MakeMove
      <3>2. reached \subseteq reached' /\ View(game') \in reached'
        BY <3>1 DEF record
      <3>3. /\ Follows(showAll(Strip, es), game', reached')
            /\ FrameCount(showAll(Strip, es)) >= FrameCount(Strip)
            /\ es \in Seq(Recordable) /\ es # <<>>
        BY <2>1, <3>1, <3>2, MoveShown
      <3>4. game' \in Games
        BY <2>1, <3>1, ApplyMoveFields
      <3> HIDE DEF es
      <3> QED
        BY <3>1, <3>3, <3>4, GameGrows
    <2>3. ASSUME PassOnTimeout PROVE FilmInv'
      <3> DEFINE es == TimeoutEvents(game)
      <3>1. game' = PassTurnOnTimeout(game) /\ record(es)
        BY <2>3 DEF PassOnTimeout, TimeoutPass
      <3>2. reached \subseteq reached' /\ View(game') \in reached'
        BY <3>1 DEF record
      <3>3. /\ Follows(showAll(Strip, es), game', reached')
            /\ FrameCount(showAll(Strip, es)) >= FrameCount(Strip)
            /\ es \in Seq(Recordable) /\ es # <<>>
        BY <2>1, <3>1, <3>2, TimeoutShown
      <3>4. game' \in Games
        BY <2>1, <3>1, PassTurnFields, EndIfFullFields DEF PassTurnOnTimeout
      <3> HIDE DEF es
      <3> QED
        BY <3>1, <3>3, <3>4, GameGrows
    <2>4. ASSUME NEW u \in Users, GiveUp(u) PROVE FilmInv'
      <3> DEFINE es == ForfeitEvents(game, u)
      <3>1. game' = Forfeit(game, u) /\ record(es)
        BY <2>4 DEF GiveUp, ForfeitGame
      <3>2. reached \subseteq reached'
        BY <3>1 DEF record
      <3>3. /\ Follows(showAll(Strip, es), game', reached')
            /\ FrameCount(showAll(Strip, es)) >= FrameCount(Strip)
            /\ es \in Seq(Recordable) /\ es # <<>>
        BY <2>1, <3>1, <3>2, ForfeitShown
      <3>4. game' \in Games
        BY <2>1, <3>1, ForfeitFields
      <3> HIDE DEF es
      <3> QED
        BY <3>1, <3>3, <3>4, GameGrows
    <2>5. CASE FetchEvents
      BY <2>5, FetchKeeps
    <2>6. CASE togglePlay
      BY <2>6, StepKeeps DEF togglePlay, startPlayback
    <2>7. CASE tick
      <3>1. totalSteps \in Nat /\ currentStep \in Int /\ currentStep >= -1
        BY DEF FilmInv, StepInBounds, totalSteps
      <3>2. UNCHANGED <<gameVars, filmVars>>
        BY <2>7 DEF tick
      <3>3. \/ currentStep' = currentStep
            \/ currentStep' \in 0 .. totalSteps - 1
        <4>1. CASE currentStep >= totalSteps - 1
          BY <2>7, <4>1 DEF tick
        <4>2. CASE ~(currentStep >= totalSteps - 1)
          <5>1. currentStep' = currentStep + 1
            BY <2>7, <4>2 DEF tick
          <5> QED
            BY <3>1, <4>2, <5>1
        <4> QED
          BY <4>1, <4>2
      <3> QED
        BY <3>2, <3>3, StepKeeps
    <2>8. CASE stepForward
      <3>1. totalSteps \in Nat /\ currentStep \in Int /\ currentStep >= -1
        BY DEF FilmInv, StepInBounds, totalSteps
      <3>2. UNCHANGED <<gameVars, filmVars>>
        BY <2>8 DEF stepForward, showStep
      <3>3. \/ currentStep' = totalSteps - 1
            \/ currentStep' \in 0 .. totalSteps - 1
        BY <2>8, <3>1 DEF stepForward, showStep
      <3> QED
        BY <3>2, <3>3, StepKeeps
    <2>9. CASE stepBackward
      BY <2>9, StepKeeps DEF stepBackward, showStep
    <2>10. CASE goToStart
      BY <2>10, StepKeeps DEF goToStart, showStep
    <2>11. CASE goToEnd
      BY <2>11, StepKeeps DEF goToEnd, showStep
    <2>12. CASE dragSlider
      BY <2>12, StepKeeps DEF dragSlider, showStep
    <2>13. CASE UNCHANGED vars
      <3>1. UNCHANGED <<gameVars, filmVars>> /\ currentStep' = currentStep
        BY <2>13 DEF vars, gameVars, filmVars
      <3> QED
        BY <3>1, StepKeeps
    <2> QED
      BY <2>2, <2>3, <2>4, <2>5, <2>6, <2>7, <2>8, <2>9, <2>10, <2>11, <2>12, <2>13
      DEF ReplayNext
  <1> QED
    BY <1>1, <1>2, PTL DEF ReplaySpec

\* However the events of the commands interleave with the ends of the turns, the
\* guess the replay page makes of where a command ends is right: the film begins
\* with the empty board, ends with the board as it is, shows only boards that
\* stood, and skips no line (replay/$gameID.tsx, buildReplayStates).
THEOREM ReplayShowsTheGame == ReplaySpec => []FilmIsTheGame
  <1>1. FilmInv => FilmIsTheGame
    <2> SUFFICES ASSUME FilmInv, fetched = Len(log)
                 PROVE  /\ Head(replayStates) = EmptyFrame /\ Last(replayStates) = View(game)
                        /\ Range(replayStates) \subseteq reached
                        /\ \A i \in 1 .. Len(replayStates) - 1 :
                              OneLine(replayStates[i], replayStates[i + 1])
      BY DEF FilmIsTheGame, OneLine
    <2>1. Chain(replayStates, reached) /\ replayStates[Len(replayStates)] = View(game)
      BY FilmDeveloped DEF FilmInv
    <2>2. replayStates \in Seq(Views) /\ replayStates # <<>>
      BY <2>1 DEF Chain
    <2>3. Head(replayStates) = EmptyFrame /\ Last(replayStates) = View(game)
      BY <2>1, <2>2 DEF Chain, Last
    <2>4. Range(replayStates) \subseteq reached
      BY <2>1, <2>2 DEF Chain, Range
    <2> QED
      BY <2>1, <2>3, <2>4 DEF Chain
  <1> QED
    BY <1>1, FilmInvariance, PTL

\* Whatever is pressed, and however the film grows under the page, its step moves
\* along the film; only before there is one can it be left of the first frame,
\* and the first tick or key after that leads back (replay/$gameID.tsx, the
\* playback effect and the keys).
THEOREM ReplayStaysOnFilm == ReplaySpec => StepOnFilm
  <1>1. FilmInv /\ [ReplayNext]_vars => [StepsAlong]_vars
    <2> SUFFICES ASSUME FilmInv, ReplayNext PROVE StepsAlong
      BY DEF StepsAlong, vars, tick, stepForward, stepBackward, goToStart, goToEnd, showStep
    <2>1. /\ totalSteps \in Nat /\ currentStep \in Int /\ currentStep >= -1
          /\ totalSteps > 0 => currentStep <= totalSteps - 1
          /\ totalSteps = 0 => currentStep \in {-1, 0}
      <3>1. fetched \in Nat /\ totalSteps \in Nat /\ (fetched > 0 => totalSteps > 0)
        <4>1. Len(log) \in Nat
          BY DEF FilmInv
        <4>2. fetched > 0 => totalSteps \in 1 .. FrameCount(Strip)
          BY DEF FilmInv
        <4>3. fetched \in 0 .. Len(log)
          BY DEF FilmInv
        <4>4. FrameCount(Strip) \in Int
          BY FilmDeveloped DEF FilmInv
        <4>5. fetched = 0 => totalSteps = 0
          BY DEF FilmInv, totalSteps
        <4> HIDE DEF totalSteps
        <4> QED
          BY <4>1, <4>2, <4>3, <4>4, <4>5
      <3>2. fetched = 0 => totalSteps = 0
        BY DEF FilmInv, totalSteps
      <3> QED
        BY <3>1, <3>2 DEF FilmInv, StepInBounds, totalSteps
    <2> HIDE DEF totalSteps
    <2> DEFINE OnFilm == \/ currentStep' = currentStep
                         \/ currentStep' \in 0 .. totalSteps - 1
                         \/ totalSteps = 0 /\ currentStep' \in {-1, 0}
    <2>2. OnFilm
      <3>1. CASE \E move \in Moves : Play(move)
        BY <3>1 DEF Play, record, pageVars
      <3>2. CASE PassOnTimeout \/ (\E u \in Users : GiveUp(u)) \/ FetchEvents
        BY <3>2 DEF PassOnTimeout, GiveUp, FetchEvents, record, pageVars
      <3>3. CASE togglePlay
        BY <2>1, <3>3 DEF togglePlay, startPlayback, stopPlayback
      <3>4. CASE tick
        <4>1. CASE currentStep >= totalSteps - 1
          BY <3>4, <4>1 DEF tick
        <4>2. CASE ~(currentStep >= totalSteps - 1)
          <5>1. currentStep' = currentStep + 1
            BY <3>4, <4>2 DEF tick
          <5> QED
            BY <2>1, <4>2, <5>1
        <4> QED
          BY <4>1, <4>2
      <3>5. CASE stepForward
        BY <2>1, <3>5 DEF stepForward, showStep
      <3>6. CASE stepBackward \/ goToStart
        BY <2>1, <3>6 DEF stepBackward, goToStart, showStep
      <3>7. CASE goToEnd \/ dragSlider
        BY <2>1, <3>7 DEF goToEnd, dragSlider, showStep
      <3> QED
        BY <3>1, <3>2, <3>3, <3>4, <3>5, <3>6, <3>7 DEF ReplayNext
    <2>3. ASSUME totalSteps > 0, tick \/ stepForward \/ stepBackward \/ goToStart \/ goToEnd
          PROVE  currentStep' \in 0 .. totalSteps - 1
      BY <2>1, <2>3 DEF tick, stepForward, stepBackward, goToStart, goToEnd, showStep
    <2> QED
      BY <2>2, <2>3 DEF StepsAlong
  <1> QED
    BY <1>1, FilmInvariance, PTL DEF ReplaySpec, StepOnFilm

------------------------------------------------------------------------------
(* The bot's choice.                                                       *)

\* A set of numbers up to 2 has a largest one.
LEMMA MaxFound ==
    ASSUME NEW S \in SUBSET (0 .. 2), S # {}
    PROVE  Max(S) \in S /\ \A n \in S : n <= Max(S)
  <1>1. \E n \in S : \A k \in S : n >= k
    <2>1. CASE 2 \in S
      BY <2>1
    <2>2. CASE 2 \notin S /\ 1 \in S
      BY <2>2
    <2>3. CASE 2 \notin S /\ 1 \notin S
      <3>1. \A n \in S : n = 0
        BY <2>3
      <3>2. PICK n \in S : TRUE
        OBVIOUS
      <3>3. \A k \in S : n >= k
        BY <3>1
      <3> QED
        BY <3>3
    <2> QED
      BY <2>1, <2>2, <2>3
  <1>2. Max(S) \in S /\ \A k \in S : Max(S) >= k
    BY <1>1, Zenon DEF Max
  <1>3. \A k \in S : k \in Int
    OBVIOUS
  <1> QED
    BY <1>2, <1>3

\* A line closes at most the two boxes it lies between.
LEMMA AtMostTwo ==
    ASSUME NEW g, NEW move
    PROVE  IsFiniteSet(Completed(g, move)) /\ Cardinality(Completed(g, move)) \in 0 .. 2
  <1> DEFINE adj == getAdjacentBox(move.cell, move.side)
             D == Completed(g, move)
  <1>1. /\ IsFiniteSet({}) /\ Cardinality({}) = 0
        /\ IsFiniteSet({move.cell}) /\ Cardinality({move.cell}) = 1
        /\ IsFiniteSet({adj}) /\ Cardinality({adj}) = 1
    BY FS_EmptySet, FS_Singleton
  <1>2. /\ IsFiniteSet({move.cell} \union {adj})
        /\ Cardinality({move.cell} \union {adj}) \in {1, 2}
    BY <1>1, FS_AddElement
  <1>3. D = {} \/ D = {move.cell} \/ D = {adj} \/ D = {move.cell} \union {adj}
    <2>1. \A d \in D : d = move.cell \/ d = adj
      BY DEF Completed
    <2> HIDE DEF D
    <2> QED
      BY <2>1
  <1> HIDE DEF D
  <1> QED
    BY <1>1, <1>2, <1>3 DEF D

\* The bot draws as the aggregate does (bot_ai.go, applyEdgeToSimGrid).
LEMMA BotDraws ==
    ASSUME NEW grid \in [Cells -> SUBSET Sides], NEW cell \in Cells, NEW side \in Sides
    PROVE  applyEdgeToSimGrid(grid, cell, side) = setEdge(grid, cell, side)
  <1>1. setEdgeOnPage(grid, cell, side) = setEdge(grid, cell, side)
    BY PageDraws
  <1> QED
    BY <1>1 DEF applyEdgeToSimGrid, setEdgeOnPage

\* The boxes the bot finds closed by looking at the whole board are those the
\* aggregate finds by looking at two (bot_ai.go, countNewCompletions).
LEMMA BotFindsCompleted ==
    ASSUME IInv, NEW move \in Moves
    PROVE  newlyClosed(game, move.cell, move.side) = Completed(game, move)
  <1> DEFINE new == setEdge(game.edges, move.cell, move.side)
             adj == getAdjacentBox(move.cell, move.side)
  <1>1. /\ game.edges \in [Cells -> SUBSET Sides]
        /\ move.cell \in Cells /\ move.side \in Sides
    BY DEF IInv, TypeOK, Games, Moves
  <1>2. applyEdgeToSimGrid(game.edges, move.cell, move.side) = new
    BY <1>1, BotDraws
  <1>3. ASSUME NEW d \in Cells, game.owner[d] = NoSeat, new[d] = Sides
        PROVE  d = move.cell \/ d = adj
    <2>1. game.edges[d] # Sides
      BY <1>3 DEF IInv, OwnedIffComplete, OwnedExactlyIfComplete, isBoxComplete
    <2> QED
      BY <1>3, <2>1 DEF setEdge
  <1> HIDE DEF new
  <1> QED
    BY <1>2, <1>3 DEF newlyClosed, Unclaimed, Completed, isBoxComplete, new

\* What a move adds to the score is what the bot counts (bot_ai.go,
\* countNewCompletions).
LEMMA BotCountsGain ==
    ASSUME IInv, NEW move \in Moves
    PROVE  countNewCompletions(game, move) = Gain(game, move) /\ Gain(game, move) \in 0 .. 2
  <1> DEFINE h == ApplyMove(game, move)
             D == Completed(game, move)
             p == move.seat
             B == BoxesOf(game, p)
  <1>1. game \in Games /\ Counted(game) /\ p \in Seats
    BY DEF IInv, TypeOK, ScoresCountBoxes, Moves
  <1>2. /\ Counted(h)
        /\ h.owner = [cell \in Cells |-> IF cell \in D THEN p ELSE game.owner[cell]]
    BY <1>1, ApplyMoveFields
  <1>3. game.score[p] = Cardinality(B) /\ h.score[p] = Cardinality(BoxesOf(h, p))
    BY <1>1, <1>2 DEF Counted
  <1>4. BoxesOf(h, p) = B \union D
    BY <1>2 DEF BoxesOf, Completed
  <1>5. B \intersect D = {}
    BY <1>1 DEF BoxesOf, Completed
  <1>6. IsFiniteSet(B) /\ Cardinality(B) \in Nat
    <2>1. B \subseteq Cells
      BY DEF BoxesOf
    <2>2. IsFiniteSet(B)
      BY <2>1, CellsFinite, FS_Subset
    <2> QED
      BY <2>2, FS_CardinalityType
  <1>7. IsFiniteSet(D) /\ Cardinality(D) \in 0 .. 2
    BY AtMostTwo
  <1>8. Cardinality(B \union D) = Cardinality(B) + Cardinality(D) - Cardinality(B \intersect D)
    BY <1>6, <1>7, FS_Union
  <1>9. Cardinality(B \intersect D) = 0
    BY <1>5, FS_EmptySet
  <1> HIDE DEF B, D, h, p
  <1>10. h.score[p] - game.score[p] = Cardinality(D)
    BY <1>3, <1>4, <1>6, <1>7, <1>8, <1>9
  <1>11. Gain(game, move) = Cardinality(D)
    BY <1>10 DEF Gain, h, p
  <1>12. countNewCompletions(game, move) = Cardinality(D)
    BY BotFindsCompleted DEF countNewCompletions, D
  <1> QED
    BY <1>7, <1>11, <1>12

\* Two moves are known by the same key exactly when they name the same line
\* (bot_ai.go, physicalEdgeKey).
LEMMA SameKey ==
    ASSUME NEW c \in Cells, NEW s \in Sides, NEW d \in Cells, NEW t \in Sides
    PROVE  physicalEdgeKey(c, s) = physicalEdgeKey(d, t) <=> LineOf(c, s) = LineOf(d, t)
  <1>1. /\ c = <<c[1], c[2]>> /\ c[1] \in Lines /\ c[2] \in Lines
        /\ d = <<d[1], d[2]>> /\ d[1] \in Lines /\ d[2] \in Lines
    BY DEF Cells
  <1>2. BoardSize \in Int
    OBVIOUS
  <1> QED
    BY <1>1, <1>2 DEF Sides, LineOf, physicalEdgeKey, Lines

\* The two names of a line lead to the same board.
LEMMA SameDrawing ==
    ASSUME NEW grid, NEW c \in Cells, NEW s \in Sides, NEW d \in Cells, NEW t \in Sides,
           LineOf(c, s) = LineOf(d, t)
    PROVE  setEdge(grid, c, s) = setEdge(grid, d, t)
  <1>1. CASE c = d /\ s = t
    BY <1>1
  <1>2. CASE d = getAdjacentBox(c, s) /\ t = Opposite(s)
    <2>1. /\ c = getAdjacentBox(d, t) /\ s = Opposite(t) /\ c # d
      BY <1>2, CrossAndBack
    <2> QED
      BY <1>2, <2>1 DEF setEdge
  <1> QED
    BY <1>1, <1>2, SameLine

\* Of two moves one comes first, and only one.
LEMMA OneFirst ==
    ASSUME NEW a \in Moves, NEW b \in Moves
    PROVE  /\ ~(moveLess(a, b) /\ moveLess(b, a))
           /\ a.cell = b.cell \/ moveLess(a, b) \/ moveLess(b, a)
  <1>1. /\ a.cell = <<a.cell[1], a.cell[2]>> /\ a.cell[1] \in Int /\ a.cell[2] \in Int
        /\ b.cell = <<b.cell[1], b.cell[2]>> /\ b.cell[1] \in Int /\ b.cell[2] \in Int
    BY DEF Moves, Cells, Lines
  <1>2. edgeTypeRank[a.side] \in Int /\ edgeTypeRank[b.side] \in Int
    BY DEF Moves, Sides, edgeTypeRank
  <1> QED
    BY <1>1, <1>2 DEF moveLess

\* While the game is on, the bot collects exactly the legal moves.
LEMMA BotKnowsLegal ==
    ASSUME IInv, ~game.ended
    PROVE  /\ collectAllLegalMoves(game, game.turn) = LegalNow(game)
           /\ LegalNow(game) # {} /\ LegalNow(game) \subseteq Moves
           /\ \A m \in LegalNow(game) : m.seat = game.turn
  <1>1. game.turn \in Seats
    BY DEF IInv, TypeOK, Games
  <1>2. collectAllLegalMoves(game, game.turn) = LegalNow(game)
    BY <1>1 DEF collectAllLegalMoves, LegalNow, Moves, validateMove
  <1>3. NeverStuck
    BY MoveLeft
  <1> QED
    BY <1>2, <1>3 DEF NeverStuck, LegalNow, validateMove

\* What the bot keeps after it has thrown out second names: every line under one
\* name (bot_ai.go, dedupeMovesByPhysicalEdge).
LEMMA OneNameKept ==
    ASSUME NEW L \in SUBSET Moves, NEW p, \A m \in L : m.seat = p
    PROVE  LET C == dedupeMovesByPhysicalEdge(L)
           IN  /\ \A m \in L : \E k \in C : LineOf(k.cell, k.side) = LineOf(m.cell, m.side)
               /\ \A m, o \in C : LineOf(m.cell, m.side) = LineOf(o.cell, o.side) => m = o
  <1> DEFINE C == dedupeMovesByPhysicalEdge(L)
             Line(m) == LineOf(m.cell, m.side)
  <1>1. \A m \in L : m.cell \in Cells /\ m.side \in Sides
    BY DEF Moves
  <1>2. \A m, o \in L : KeyOf(m) = KeyOf(o) <=> Line(m) = Line(o)
    BY <1>1, SameKey DEF KeyOf
  <1>3. C = {m \in L : \A o \in L : Line(o) = Line(m) => ~moveLess(o, m)}
    BY <1>2 DEF dedupeMovesByPhysicalEdge
  <1>4. ASSUME NEW m \in L, NEW o \in L, Line(m) = Line(o), m.cell = o.cell
        PROVE  m = o
    <2>1. m.side = o.side
      BY <1>1, <1>4, SameLine, CrossAndBack
    <2> QED
      BY <1>4, <2>1 DEF Moves
  <1>5. ASSUME NEW m \in L, NEW o \in L, NEW k \in L, Line(m) = Line(o), Line(m) = Line(k),
               m # o, m # k
        PROVE  o = k
    <2>1. m.cell # o.cell /\ m.cell # k.cell
      BY <1>4, <1>5
    <2>2. o.cell = getAdjacentBox(m.cell, m.side)
      <3>1. /\ m.cell \in Cells /\ m.side \in Sides /\ o.cell \in Cells /\ o.side \in Sides
            /\ LineOf(m.cell, m.side) = LineOf(o.cell, o.side)
        BY <1>1, <1>5
      <3> QED
        BY <2>1, <3>1, SameLine
    <2>3. k.cell = getAdjacentBox(m.cell, m.side)
      BY <1>1, <1>5, <2>1, SameLine
    <2> QED
      BY <1>4, <1>5, <2>2, <2>3
  <1> HIDE DEF C, Line
  <1>6. ASSUME NEW m \in L
        PROVE  \E k \in C : Line(k) = Line(m)
    <2>1. CASE m \in C
      BY <2>1
    <2>2. CASE m \notin C
      <3>1. PICK o \in L : Line(o) = Line(m) /\ moveLess(o, m)
        BY <1>3, <1>6, <2>2
      <3>2. m # o
        BY <3>1, OneFirst
      <3>3. ASSUME NEW k \in L, Line(k) = Line(o) PROVE ~moveLess(k, o)
        <4>1. k = m \/ k = o
          BY <1>5, <1>6, <3>1, <3>2, <3>3
        <4>2. ~moveLess(m, o) /\ ~moveLess(o, o)
          BY <1>6, <3>1, OneFirst
        <4> QED
          BY <4>1, <4>2
      <3>4. o \in C
        BY <1>3, <3>3
      <3> QED
        BY <3>1, <3>4
    <2> QED
      BY <2>1, <2>2
  <1>7. ASSUME NEW m \in C, NEW o \in C, Line(m) = Line(o)
        PROVE  m = o
    <2>1. m \in L /\ o \in L /\ ~moveLess(o, m) /\ ~moveLess(m, o)
      BY <1>3, <1>7
    <2>2. m.cell = o.cell
      BY <2>1, OneFirst
    <2> QED
      BY <1>4, <1>7, <2>1, <2>2
  <1> QED
    BY <1>6, <1>7 DEF C, Line

\* The bot to move never runs out of lines, the aggregate takes whichever line it
\* picks, no legal line captures more, and no line is a candidate twice
\* (bot_ai.go, chooseBotMove).
THEOREM BotChoosesRight == Spec => []BotTakesTheMost
  <1>1. IInv => BotTakesTheMost
    <2> SUFFICES ASSUME IInv, ~game.ended
                 PROVE  LET most == Max({Gain(game, m) : m \in LegalNow(game)})
                            pool == movePool(game, game.turn)
                        IN  /\ pool # {}
                            /\ \A m \in pool :
                                  /\ validateMove(game, m) /\ Gain(game, m) = most
                                  /\ \A o \in pool :
                                        LineOf(m.cell, m.side) = LineOf(o.cell, o.side) => m = o
      BY DEF BotTakesTheMost
    <2> DEFINE L == LegalNow(game)
               C == dedupeMovesByPhysicalEdge(L)
               G == {Gain(game, m) : m \in L}
               K == {countNewCompletions(game, m) : m \in C}
               pool == movePool(game, game.turn)
    <2>1. /\ collectAllLegalMoves(game, game.turn) = L
          /\ L # {} /\ L \subseteq Moves
          /\ \A m \in L : m.seat = game.turn
      BY BotKnowsLegal
    <2>2. \A m \in L : validateMove(game, m)
      BY DEF LegalNow
    <2>3. \A m \in L : countNewCompletions(game, m) = Gain(game, m) /\ Gain(game, m) \in 0 .. 2
      BY <2>1, BotCountsGain
    <2>4. C \subseteq L
      BY DEF dedupeMovesByPhysicalEdge
    <2>5. /\ \A m \in L : \E k \in C : LineOf(k.cell, k.side) = LineOf(m.cell, m.side)
          /\ \A m, o \in C : LineOf(m.cell, m.side) = LineOf(o.cell, o.side) => m = o
      BY <2>1, OneNameKept
    <2>6. ASSUME NEW m \in L, NEW k \in L, LineOf(k.cell, k.side) = LineOf(m.cell, m.side)
          PROVE  countNewCompletions(game, m) = countNewCompletions(game, k)
      <3>1. /\ m.cell \in Cells /\ m.side \in Sides /\ k.cell \in Cells /\ k.side \in Sides
            /\ game.edges \in [Cells -> SUBSET Sides]
        BY <2>1 DEF Moves, IInv, TypeOK, Games
      <3>2. applyEdgeToSimGrid(game.edges, m.cell, m.side)
              = applyEdgeToSimGrid(game.edges, k.cell, k.side)
        BY <2>6, <3>1, BotDraws, SameDrawing
      <3> QED
        BY <3>2 DEF countNewCompletions, newlyClosed
    <2> HIDE DEF L, C
    <2>7. G = K
      <3>1. ASSUME NEW m \in L PROVE Gain(game, m) \in K
        <4>1. PICK k \in C : LineOf(k.cell, k.side) = LineOf(m.cell, m.side)
          BY <2>5
        <4>2. countNewCompletions(game, k) = Gain(game, m)
          BY <2>3, <2>4, <2>6, <4>1
        <4> QED
          BY <4>2
      <3>2. ASSUME NEW k \in C PROVE countNewCompletions(game, k) \in G
        BY <2>3, <2>4
      <3> QED
        BY <3>1, <3>2
    <2>8. G \in SUBSET (0 .. 2) /\ G # {}
      BY <2>1, <2>3
    <2>9. ({0} \union K) \in SUBSET (0 .. 2) /\ {0} \union K # {}
      BY <2>7, <2>8
    <2>10. /\ Max(G) \in G /\ \A n \in G : n <= Max(G)
           /\ Max({0} \union K) \in {0} \union K
           /\ \A n \in {0} \union K : n <= Max({0} \union K)
           /\ Max(G) \in 0 .. 2 /\ Max({0} \union K) \in 0 .. 2
      <3> HIDE DEF G, K
      <3>1. Max(G) \in G /\ \A n \in G : n <= Max(G)
        BY <2>8, MaxFound
      <3>2. /\ Max({0} \union K) \in {0} \union K
            /\ \A n \in {0} \union K : n <= Max({0} \union K)
        BY <2>9, MaxFound
      <3> QED
        BY <2>8, <2>9, <3>1, <3>2
    <2>11. pool = {m \in C : Max({0} \union K) > 0
                               => countNewCompletions(game, m) = Max({0} \union K)}
      BY <2>1 DEF movePool, C
    <2> HIDE DEF pool
    <2>12. \A m \in C : countNewCompletions(game, m) \in K
      OBVIOUS
    <2>13. PICK best \in C : countNewCompletions(game, best) = Max(G)
      <3>1. Max(G) \in K
        BY <2>7, <2>10
      <3> QED
        BY <3>1
    <2> HIDE DEF G, K
    <2>14. Max({0} \union K) = Max(G)
      <3>1. /\ Max(G) \in Int /\ Max(G) >= 0 /\ Max({0} \union K) \in Int
        BY <2>8, <2>9, <2>10
      <3>2. Max(G) <= Max({0} \union K)
        BY <2>7, <2>10
      <3>3. Max({0} \union K) <= Max(G)
        BY <2>7, <2>10, <3>1
      <3> QED
        BY <3>1, <3>2, <3>3
    <2>15. \A m \in C : m \in pool <=> countNewCompletions(game, m) = Max(G)
      <3>1. ASSUME NEW m \in C
            PROVE  /\ countNewCompletions(game, m) \in Int
                   /\ 0 <= countNewCompletions(game, m)
                   /\ countNewCompletions(game, m) <= Max(G)
        <4>1. countNewCompletions(game, m) \in G
          BY <2>7, <2>12
        <4>2. countNewCompletions(game, m) \in 0 .. 2
          BY <2>8, <4>1
        <4> QED
          BY <2>10, <4>1, <4>2
      <3>2. Max(G) \in Int
        BY <2>8, <2>10
      <3> QED
        BY <2>11, <2>14, <3>1, <3>2
    <2>16. pool # {}
      BY <2>13, <2>15
    <2>17. \A m \in pool : m \in C
      BY <2>11
    <2>18. \A m \in pool : validateMove(game, m) /\ Gain(game, m) = Max(G)
      BY <2>2, <2>3, <2>4, <2>15, <2>17
    <2>19. \A m, o \in pool : LineOf(m.cell, m.side) = LineOf(o.cell, o.side) => m = o
      BY <2>5, <2>17
    <2> QED
      BY <2>16, <2>18, <2>19 DEF G, L, pool
  <1> QED
    BY <1>1, Invariance, PTL

=============================================================================
