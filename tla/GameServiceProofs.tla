-------------------------- MODULE GameServiceProofs --------------------------
(***************************************************************************)
(* Proofs about a stored game, for every board, opening and number of      *)
(* goroutines, requests, faults and restarts.                              *)
(*                                                                         *)
(* What a load returns is only known by what the rows say, as commands     *)
(* that overlap write rows that contradict each other.  So the invariant   *)
(* speaks of the log: every event in it rests on events before it (a box   *)
(* completed on its four sides drawn, an ended game on all boxes           *)
(* completed), and so does every batch of events a goroutine is about to   *)
(* append.  LoadTells then reads off the log what any replay of it shows,  *)
(* in whatever order rows with equal versions are applied.                 *)
(*                                                                         *)
(* replay, LoadedFrom and the opening are functions defined by recursion   *)
(* on a number.  Facts about all their values are proved by counting up:   *)
(* the set of numbers for which a fact holds is everything, CountingUp.    *)
(*                                                                         *)
(* With one goroutine, no fault and no restart the copies agree.  Its rows *)
(* have the versions 1, 2, 3 ..., so they load in one way only, and        *)
(* applying a command's events is the command (MoveReplays).  LoneInv says *)
(* at each stage of a request which copies are new and which still old.    *)
(***************************************************************************)
EXTENDS GameService, FiniteSetTheorems, TLAPS

USE BoardSizeAssumption, NumPlayersAssumption, NamesAssumption

------------------------------------------------------------------------------
(* Counting up.                                                            *)

\* A set of numbers with 0 and the successor of each of its members has them
\* all: below a number it misses, adding one would map a finite part of it into
\* the same part without 0.
LEMMA CountingUp ==
    ASSUME NEW S \in SUBSET Nat, 0 \in S, \A n \in S : n + 1 \in S
    PROVE  S = Nat
  <1> SUFFICES ASSUME NEW n \in Nat, n \notin S PROVE FALSE
    OBVIOUS
  <1> DEFINE A == S \intersect (0 .. n)
             up == [m \in A |-> m + 1]
  <1>1. IsFiniteSet(A)
    <2>1. IsFiniteSet(0 .. n)
      BY FS_Interval
    <2> QED
      BY <2>1, FS_Subset
  <1>2. IsFiniteSet(A \ {0}) /\ Cardinality(A \ {0}) = Cardinality(A) - 1
    <2>1. 0 \in A
      OBVIOUS
    <2> HIDE DEF A
    <2> QED
      BY <1>1, <2>1, FS_RemoveElement
  <1>3. up \in Injection(A, A \ {0})
    BY DEF Injection, IsInjective
  <1>4. Cardinality(A) <= Cardinality(A \ {0})
    BY <1>1, <1>2, <1>3, FS_Injection
  <1>5. Cardinality(A) \in Nat
    BY <1>1, FS_CardinalityType
  <1> QED
    BY <1>2, <1>4, <1>5

\* f holds the games that replay passes through.
Replays(f, g, evts, n) ==
    f = [v \in 0 .. n |-> IF v = 0 THEN g ELSE applyEvent(f[v - 1], evts[v])]

\* The recursion of replay has a solution.
LEMMA ReplayDefined ==
    ASSUME NEW g, NEW evts, NEW n \in Nat
    PROVE  \E f : Replays(f, g, evts, n)
  <1> DEFINE S == {m \in Nat : \E f : Replays(f, g, evts, m)}
  <1>1. 0 \in S
    <2>1. Replays([v \in 0 .. 0 |-> g], g, evts, 0)
      BY DEF Replays
    <2> QED
      BY <2>1
  <1>2. ASSUME NEW m \in S PROVE m + 1 \in S
    <2>1. PICK f : Replays(f, g, evts, m)
      OBVIOUS
    <2>2. m \in Nat
      OBVIOUS
    <2> HIDE DEF S
    <2> DEFINE h == [v \in 0 .. m + 1 |-> IF v <= m THEN f[v] ELSE applyEvent(f[m], evts[m + 1])]
    <2>3. \A v \in 0 .. m : f[v] = IF v = 0 THEN g ELSE applyEvent(f[v - 1], evts[v])
      BY <2>1 DEF Replays
    <2>4. /\ \A v \in 0 .. m : h[v] = f[v]
          /\ h[m + 1] = applyEvent(f[m], evts[m + 1])
          /\ h = [v \in 0 .. m + 1 |-> h[v]]
      BY <2>2
    <2> HIDE DEF h
    <2>5. ASSUME NEW v \in 0 .. m + 1
          PROVE  h[v] = IF v = 0 THEN g ELSE applyEvent(h[v - 1], evts[v])
      <3>1. CASE v = m + 1
        <4>1. v # 0 /\ v - 1 = m /\ m \in 0 .. m
          BY <2>2, <3>1
        <4> QED
          BY <2>4, <3>1, <4>1
      <3>2. CASE v \in 0 .. m
        <4>1. v = 0 \/ v - 1 \in 0 .. m
          BY <2>2, <3>2
        <4> QED
          BY <2>3, <2>4, <3>2, <4>1
      <3> QED
        BY <2>2, <3>1, <3>2
    <2>6. [v \in 0 .. m + 1 |-> h[v]]
            = [v \in 0 .. m + 1 |-> IF v = 0 THEN g ELSE applyEvent(h[v - 1], evts[v])]
      BY <2>5, Zenon
    <2>7. Replays(h, g, evts, m + 1)
      BY <2>4, <2>6, Zenon DEF Replays
    <2> QED
      BY <2>2, <2>7 DEF S
  <1>3. S = Nat
    <2> HIDE DEF S
    <2>1. S \in SUBSET Nat
      BY DEF S
    <2> QED
      BY <1>1, <1>2, <2>1, CountingUp
  <1> QED
    BY <1>3

\* What replay computes, one event at a time (gameRepository, LoadFromEvents).
LEMMA ReplayUnfolds ==
    ASSUME NEW g, NEW evts, Len(evts) \in Nat
    PROVE  \E f : /\ f[0] = g
                  /\ \A v \in 1 .. Len(evts) : f[v] = applyEvent(f[v - 1], evts[v])
                  /\ replay(g, evts) = f[Len(evts)]
  <1> DEFINE after == CHOOSE f : Replays(f, g, evts, Len(evts))
  <1>1. Replays(after, g, evts, Len(evts))
    BY ReplayDefined, Zenon
  <1>2. replay(g, evts) = after[Len(evts)]
    BY DEF replay, Replays
  <1> HIDE DEF after
  <1>3. \A v \in 0 .. Len(evts) :
            after[v] = IF v = 0 THEN g ELSE applyEvent(after[v - 1], evts[v])
    BY <1>1 DEF Replays
  <1>4. after[0] = g
    BY <1>3
  <1>5. \A v \in 1 .. Len(evts) : after[v] = applyEvent(after[v - 1], evts[v])
    BY <1>3
  <1> QED
    BY <1>2, <1>4, <1>5

------------------------------------------------------------------------------
(* What the events say.                                                    *)

\* The events a command may add to a game that exists.
Events ==
    [type : {"MoveApplied"}, cell : Cells, side : Sides]
    \union [type : {"BoxCompleted"}, cell : Cells, seat : Seats]
    \union [type : {"TurnPassed"}, seat : Seats]
    \union [type : {"GameEnded"}, winner : Seats \union {NoSeat}]
    \union [type : {"GameForfeited"}, user : Users, winner : Seats]

Draws(e, cell, side) ==
    /\ e.type = "MoveApplied"
    /\ \/ e.cell = cell /\ e.side = side
       \/ getAdjacentBox(e.cell, e.side) = cell /\ Opposite(e.side) = side

Claims(e, cell) == e.type = "BoxCompleted" /\ e.cell = cell

Ends(e) == e.type \in {"GameEnded", "GameForfeited"}

\* The game shows what the events say, and no more.
Told(g, E) ==
    /\ g \in Games
    /\ \A cell \in Cells, side \in Sides :
          side \in g.edges[cell] <=> \E e \in E : Draws(e, cell, side)
    /\ \A cell \in Cells : g.owner[cell] # NoSeat <=> \E e \in E : Claims(e, cell)
    /\ g.ended <=> \E e \in E : Ends(e)

\* A new game shows nothing (game.go, NewGame).
LEMMA NewGameTells ==
    ASSUME NEW E, \A e \in E : e = GameCreated
    PROVE  Told(newGame, E)
  <1>1. newGame \in Games
    BY DEF newGame, Games, makeEmptyGrid, Seats
  <1>2. \A e \in E : e.type = "GameCreated"
    BY DEF GameCreated
  <1>3. \A cell \in Cells : newGame.edges[cell] = {} /\ newGame.owner[cell] = NoSeat
    BY DEF newGame, makeEmptyGrid
  <1>4. newGame.ended = FALSE
    BY DEF newGame
  <1> QED
    BY <1>1, <1>2, <1>3, <1>4 DEF Told, Draws, Claims, Ends

\* Applying an event adds what it says (game.go, applyEvent).
LEMMA ApplyTells ==
    ASSUME NEW g, NEW E, Told(g, E), NEW e \in Events
    PROVE  Told(applyEvent(g, e), E \union {e})
  <1> DEFINE h == applyEvent(g, e)
  <1>0. /\ g \in Games
        /\ g.edges \in [Cells -> SUBSET Sides]
        /\ g.owner \in [Cells -> Seats \union {NoSeat}]
        /\ g.score \in [Seats -> Nat]
    BY DEF Told, Games
  <1>1. CASE e \in [type : {"MoveApplied"}, cell : Cells, side : Sides]
    <2>1. h = [g EXCEPT !.edges = setEdge(g.edges, e.cell, e.side)]
      BY <1>1 DEF applyEvent, drawEdge
    <2> DEFINE grid == setEdge(g.edges, e.cell, e.side)
    <2>2. \A side \in Sides : Opposite(side) \in Sides
      BY DEF Sides, Opposite
    <2>3. grid \in [Cells -> SUBSET Sides]
      BY <1>0, <1>1, <2>2 DEF setEdge
    <2>4. ASSUME NEW cell \in Cells, NEW side \in Sides
          PROVE  side \in grid[cell] <=> side \in g.edges[cell] \/ Draws(e, cell, side)
      <3>1. getAdjacentBox(e.cell, e.side) # e.cell
        BY <1>1 DEF Cells, Lines, Sides, getAdjacentBox
      <3> QED
        BY <1>0, <1>1, <3>1 DEF setEdge, Draws
    <2>5. ~Ends(e) /\ \A cell \in Cells : ~Claims(e, cell)
      BY <1>1 DEF Ends, Claims
    <2> HIDE DEF grid
    <2>6. h \in Games /\ h.edges = grid /\ h.owner = g.owner /\ h.ended = g.ended
      BY <1>0, <2>1, <2>3 DEF Games, grid
    <2> QED
      BY <2>4, <2>5, <2>6 DEF Told
  <1>2. CASE e \in [type : {"BoxCompleted"}, cell : Cells, seat : Seats]
    <2> DEFINE owner == [g.owner EXCEPT ![e.cell] = e.seat]
               score == [g.score EXCEPT ![e.seat] = @ + 1]
    <2>1. h = [g EXCEPT !.owner = owner, !.score = score]
      BY <1>0, <1>2 DEF applyEvent, claimBox, Games
    <2>2. owner \in [Cells -> Seats \union {NoSeat}] /\ score \in [Seats -> Nat]
      BY <1>0, <1>2
    <2>3. \A cell \in Cells :
             owner[cell] # NoSeat <=> g.owner[cell] # NoSeat \/ Claims(e, cell)
      BY <1>0, <1>2 DEF Claims
    <2>4. ~Ends(e) /\ \A cell \in Cells, side \in Sides : ~Draws(e, cell, side)
      BY <1>2 DEF Ends, Draws
    <2> HIDE DEF owner, score
    <2>5. h \in Games /\ h.edges = g.edges /\ h.owner = owner /\ h.ended = g.ended
      BY <1>0, <2>1, <2>2 DEF Games
    <2> QED
      BY <2>3, <2>4, <2>5 DEF Told
  <1>3. CASE e \in [type : {"TurnPassed"}, seat : Seats]
    <2>1. h = [g EXCEPT !.turn = e.seat]
      BY <1>3 DEF applyEvent, passTurn
    <2>2. /\ ~Ends(e)
          /\ \A cell \in Cells : ~Claims(e, cell)
          /\ \A cell \in Cells, side \in Sides : ~Draws(e, cell, side)
      BY <1>3 DEF Ends, Claims, Draws
    <2>3. h \in Games /\ h.edges = g.edges /\ h.owner = g.owner /\ h.ended = g.ended
      BY <1>0, <1>3, <2>1 DEF Games
    <2> QED
      BY <2>2, <2>3 DEF Told
  <1>4. CASE e \in [type : {"GameEnded"}, winner : Seats \union {NoSeat}]
             \/ e \in [type : {"GameForfeited"}, user : Users, winner : Seats]
    <2>1. h = [g EXCEPT !.ended = TRUE, !.winner = e.winner]
      BY <1>4 DEF applyEvent, endGame
    <2>2. /\ Ends(e)
          /\ \A cell \in Cells : ~Claims(e, cell)
          /\ \A cell \in Cells, side \in Sides : ~Draws(e, cell, side)
          /\ e.winner \in Seats \union {NoSeat}
      BY <1>4 DEF Ends, Claims, Draws
    <2>3. h \in Games /\ h.edges = g.edges /\ h.owner = g.owner /\ h.ended = TRUE
      BY <1>0, <2>1, <2>2 DEF Games
    <2> QED
      BY <2>2, <2>3 DEF Told
  <1> QED
    BY <1>1, <1>2, <1>3, <1>4 DEF Events

\* Replaying some events adds what they say (gameRepository, LoadFromEvents).
LEMMA ReplayTells ==
    ASSUME NEW g, NEW E, Told(g, E), NEW n \in Nat, NEW evts \in [1 .. n -> Events]
    PROVE  Told(replay(g, evts), E \union {evts[i] : i \in 1 .. n})
  <1>1. Len(evts) = n
    OBVIOUS
  <1>2. PICK f : /\ f[0] = g
                 /\ \A v \in 1 .. n : f[v] = applyEvent(f[v - 1], evts[v])
                 /\ replay(g, evts) = f[n]
    BY <1>1, ReplayUnfolds
  <1> DEFINE Said(v) == E \union {evts[i] : i \in 1 .. v}
             S == {v \in Nat : v <= n => Told(f[v], Said(v))}
  <1>3. 0 \in S
    <2>1. Said(0) = E
      OBVIOUS
    <2> QED
      BY <1>2, <2>1
  <1>4. ASSUME NEW v \in S PROVE v + 1 \in S
    <2> SUFFICES ASSUME v + 1 <= n PROVE Told(f[v + 1], Said(v + 1))
      OBVIOUS
    <2>1. v \in Nat /\ v + 1 \in 1 .. n /\ evts[v + 1] \in Events
      OBVIOUS
    <2>2. Told(f[v], Said(v))
      BY <2>1
    <2>3. f[v + 1] = applyEvent(f[v], evts[v + 1])
      BY <1>2, <2>1
    <2>4. Said(v + 1) = Said(v) \union {evts[v + 1]}
      <3>1. 1 .. v + 1 = (1 .. v) \union {v + 1}
        BY <2>1
      <3> QED
        BY <3>1
    <2> HIDE DEF Said
    <2> QED
      BY <2>1, <2>2, <2>3, <2>4, ApplyTells
  <1>5. S = Nat
    <2> HIDE DEF S
    <2>1. S \in SUBSET Nat
      BY DEF S
    <2> QED
      BY <1>3, <1>4, <2>1, CountingUp
  <1>6. n \in S
    BY <1>5
  <1> QED
    BY <1>2, <1>6

------------------------------------------------------------------------------
(* Loading a game.                                                         *)

\* The rows with one version.
At(rs, v) == {i \in DOMAIN rs : rs[i].version = v}

\* The rows at some positions, applied in any order to one of the games gs.
Reloaded(rs, at, gs) ==
    {replay(g, [i \in DOMAIN o |-> rs[o[i]].event]) : g \in gs, o \in SetToSeqs(at)}

\* f holds the games that loading passes through, version by version.
Loads(f, rs, n) ==
    f = [v \in 0 .. n |-> IF v = 0 THEN {newGame} ELSE Reloaded(rs, At(rs, v), f[v - 1])]

\* The recursion of LoadedFrom has a solution.
LEMMA LoadDefined ==
    ASSUME NEW rs, NEW n \in Nat
    PROVE  \E f : Loads(f, rs, n)
  <1> DEFINE S == {m \in Nat : \E f : Loads(f, rs, m)}
  <1>1. 0 \in S
    <2>1. Loads([v \in 0 .. 0 |-> {newGame}], rs, 0)
      BY DEF Loads
    <2> QED
      BY <2>1
  <1>2. ASSUME NEW m \in S PROVE m + 1 \in S
    <2>1. PICK f : Loads(f, rs, m)
      OBVIOUS
    <2>2. m \in Nat
      OBVIOUS
    <2> HIDE DEF S
    <2> DEFINE h == [v \in 0 .. m + 1 |-> IF v <= m THEN f[v] ELSE Reloaded(rs, At(rs, m + 1), f[m])]
    <2>3. \A v \in 0 .. m : f[v] = IF v = 0 THEN {newGame} ELSE Reloaded(rs, At(rs, v), f[v - 1])
      BY <2>1 DEF Loads
    <2>4. /\ \A v \in 0 .. m : h[v] = f[v]
          /\ h[m + 1] = Reloaded(rs, At(rs, m + 1), f[m])
          /\ h = [v \in 0 .. m + 1 |-> h[v]]
      BY <2>2
    <2> HIDE DEF h
    <2>5. ASSUME NEW v \in 0 .. m + 1
          PROVE  h[v] = IF v = 0 THEN {newGame} ELSE Reloaded(rs, At(rs, v), h[v - 1])
      <3>1. CASE v = m + 1
        <4>1. v # 0 /\ v - 1 = m /\ m \in 0 .. m
          BY <2>2, <3>1
        <4> QED
          BY <2>4, <3>1, <4>1
      <3>2. CASE v \in 0 .. m
        <4>1. v = 0 \/ v - 1 \in 0 .. m
          BY <2>2, <3>2
        <4> QED
          BY <2>3, <2>4, <3>2, <4>1
      <3> QED
        BY <2>2, <3>1, <3>2
    <2>6. [v \in 0 .. m + 1 |-> h[v]]
            = [v \in 0 .. m + 1 |-> IF v = 0 THEN {newGame} ELSE Reloaded(rs, At(rs, v), h[v - 1])]
      BY <2>5, Zenon
    <2>7. Loads(h, rs, m + 1)
      BY <2>4, <2>6, Zenon DEF Loads
    <2> QED
      BY <2>2, <2>7 DEF S
  <1>3. S = Nat
    <2> HIDE DEF S
    <2>1. S \in SUBSET Nat
      BY DEF S
    <2> QED
      BY <1>1, <1>2, <2>1, CountingUp
  <1> QED
    BY <1>3

\* What LoadedFrom computes (pgGameRepository.go, FindByID).
LEMMA LoadUnfolds ==
    ASSUME NEW rs, Len(rs) \in Nat
    PROVE  \E f : /\ f[0] = {newGame}
                  /\ \A v \in 1 .. Len(rs) : f[v] = Reloaded(rs, At(rs, v), f[v - 1])
                  /\ LoadedFrom(rs) = f[Len(rs)]
  <1> DEFINE upTo == CHOOSE f : Loads(f, rs, Len(rs))
  <1>1. Loads(upTo, rs, Len(rs))
    BY LoadDefined, Zenon
  <1>2. LoadedFrom(rs) = upTo[Len(rs)]
    BY DEF LoadedFrom, Loads, Reloaded, At
  <1> HIDE DEF upTo
  <1>3. \A v \in 0 .. Len(rs) :
            upTo[v] = IF v = 0 THEN {newGame} ELSE Reloaded(rs, At(rs, v), upTo[v - 1])
    BY <1>1 DEF Loads
  <1>4. upTo[0] = {newGame}
    BY <1>3
  <1>5. \A v \in 1 .. Len(rs) : upTo[v] = Reloaded(rs, At(rs, v), upTo[v - 1])
    BY <1>3
  <1> QED
    BY <1>2, <1>4, <1>5

\* An ordering of a finite set leaves nothing out.
LEMMA OrderingsCover ==
    ASSUME NEW S, IsFiniteSet(S), NEW o \in SetToSeqs(S)
    PROVE  /\ Cardinality(S) \in Nat
           /\ o \in [1 .. Cardinality(S) -> S]
           /\ S = {o[i] : i \in 1 .. Cardinality(S)}
  <1> DEFINE D == 1 .. Cardinality(S)
  <1>1. Cardinality(S) \in Nat
    BY FS_CardinalityType
  <1>2. o \in [D -> S] /\ \A i, j \in D : i # j => o[i] # o[j]
    BY DEF SetToSeqs
  <1>3. o \in Injection(D, S)
    BY <1>2 DEF Injection, IsInjective
  <1>4. Cardinality(D) = Cardinality(S)
    BY <1>1, FS_Interval
  <1> HIDE DEF D
  <1>5. o \in Surjection(D, S)
    BY <1>3, <1>4, FS_Injection
  <1>6. S = {o[i] : i \in D}
    BY <1>2, <1>5 DEF Surjection
  <1> QED
    BY <1>1, <1>2, <1>6 DEF D

\* The log of a game: its creation, then the events of the commands.  A writer
\* numbers its rows from the ones it had loaded.
Log(rs) ==
    /\ rs \in Seq([version : Nat, event : Events \union {GameCreated}, seen : Nat])
    /\ Len(rs) >= 1
    /\ rs[1] = Row(1, GameCreated, 0)
    /\ \A i \in 2 .. Len(rs) : /\ rs[i].event \in Events
                               /\ 1 <= rs[i].seen
                               /\ rs[i].seen < rs[i].version
                               /\ rs[i].version <= i

Said(rs) == {rs[i].event : i \in DOMAIN rs}

\* Whatever order the rows of one version are applied in, the loaded game shows
\* what the log says (pgGameRepository.go, FindByID).
LEMMA LoadTells ==
    ASSUME NEW rs, Log(rs), NEW g \in LoadedFrom(rs)
    PROVE  Told(g, Said(rs))
  <1> DEFINE n == Len(rs)
             at(v) == {i \in 1 .. n : rs[i].version = v}
             below(v) == {rs[i].event : i \in {j \in 1 .. n : rs[j].version <= v}}
  <1>1. /\ n \in Nat /\ n >= 1 /\ DOMAIN rs = 1 .. n
        /\ \A i \in 1 .. n : rs[i].version \in Nat
        /\ rs[1].version = 1 /\ rs[1].event = GameCreated
        /\ \A i \in 2 .. n : /\ rs[i].event \in Events
                             /\ rs[i].version >= 2 /\ rs[i].version <= i
    <2> DEFINE R == [version : Nat, event : Events \union {GameCreated}, seen : Nat]
    <2>1. rs \in Seq(R)
      BY DEF Log
    <2>2. \A r \in R : r.version \in Nat /\ r.seen \in Nat
      OBVIOUS
    <2> HIDE DEF R
    <2>3. n \in Nat /\ DOMAIN rs = 1 .. n /\ \A i \in 1 .. n : rs[i] \in R
      BY <2>1
    <2>4. n >= 1 /\ rs[1].version = 1 /\ rs[1].event = GameCreated
      BY DEF Log, Row
    <2>5. ASSUME NEW i \in 2 .. n
          PROVE  rs[i].event \in Events /\ rs[i].version >= 2 /\ rs[i].version <= i
      <3>1. rs[i] \in R
        BY <2>3
      <3> QED
        BY <2>2, <3>1 DEF Log
    <2> QED
      BY <2>2, <2>3, <2>4, <2>5
  <1>2. PICK f : /\ f[0] = {newGame}
                 /\ \A v \in 1 .. n : f[v] = Reloaded(rs, At(rs, v), f[v - 1])
                 /\ LoadedFrom(rs) = f[n]
    BY <1>1, LoadUnfolds
  <1> HIDE DEF n
  <1> DEFINE S == {v \in Nat : v <= n => \A h \in f[v] : Told(h, below(v))}
  <1>3. 0 \in S
    <2>1. below(0) = {}
      BY <1>1
    <2>2. Told(newGame, {})
      BY NewGameTells
    <2> QED
      BY <1>2, <2>1, <2>2
  <1>4. ASSUME NEW v \in S PROVE v + 1 \in S
    <2> SUFFICES ASSUME v + 1 <= n, NEW h \in f[v + 1] PROVE Told(h, below(v + 1))
      OBVIOUS
    <2> DEFINE A == at(v + 1)
    <2>1. v \in Nat /\ v + 1 \in 1 .. n /\ (v + 1) - 1 = v
      BY <1>1
    <2>2. \A k \in f[v] : Told(k, below(v))
      BY <1>1, <2>1
    <2>3. h \in Reloaded(rs, At(rs, v + 1), f[v])
      BY <1>2, <2>1
    <2>4. PICK k \in f[v], o \in SetToSeqs(A) :
             h = replay(k, [i \in DOMAIN o |-> rs[o[i]].event])
      <3>1. A = At(rs, v + 1)
        BY <1>1 DEF At
      <3> HIDE DEF A
      <3> QED
        BY <2>3, <3>1 DEF Reloaded
    <2>5. IsFiniteSet(A)
      <3>1. IsFiniteSet(1 .. n)
        BY <1>1, FS_Interval
      <3> QED
        BY <3>1, FS_Subset
    <2> HIDE DEF A
    <2> DEFINE c == Cardinality(A)
               evts == [i \in 1 .. c |-> rs[o[i]].event]
    <2>6. /\ c \in Nat
          /\ o \in [1 .. c -> A]
          /\ A = {o[i] : i \in 1 .. c}
      BY <2>4, <2>5, OrderingsCover
    <2>7. h = replay(k, evts)
      BY <2>4, <2>6
    <2>8. below(v + 1) = below(v) \union {evts[i] : i \in 1 .. c}
      <3>1. \A i \in 1 .. n : rs[i].version <= v + 1 <=> rs[i].version <= v \/ i \in A
        BY <1>1, <2>1 DEF A
      <3>2. {evts[i] : i \in 1 .. c} = {rs[i].event : i \in A}
        BY <2>6
      <3>3. A \subseteq 1 .. n
        BY DEF A
      <3> QED
        BY <3>1, <3>2, <3>3
    <2> HIDE DEF c
    <2>9. CASE v = 0
      <3>1. A = {1}
        BY <1>1, <2>9 DEF A
      <3>2. c = 1
        BY <3>1, FS_Singleton DEF c
      <3>3. Len(evts) = 1 /\ evts[1] = GameCreated
        <4>1. o[1] = 1
          BY <2>6, <3>1, <3>2
        <4> QED
          BY <1>1, <3>2, <4>1
      <3>4. h = newGame
        <4> HIDE DEF evts
        <4>1. PICK a : /\ a[0] = k
                       /\ \A i \in 1 .. Len(evts) : a[i] = applyEvent(a[i - 1], evts[i])
                       /\ replay(k, evts) = a[Len(evts)]
          BY <3>3, ReplayUnfolds
        <4>2. \A x : applyEvent(x, GameCreated) = newGame
          BY DEF applyEvent, GameCreated
        <4> QED
          BY <2>7, <3>3, <4>1, <4>2
      <3>5. \A e \in below(v + 1) : e = GameCreated
        BY <1>1, <2>9
      <3> QED
        BY <3>4, <3>5, NewGameTells
    <2>10. CASE v # 0
      <3>1. \A i \in A : rs[i].event \in Events
        BY <1>1, <2>1, <2>10 DEF A
      <3>2. evts \in [1 .. c -> Events]
        BY <2>6, <3>1
      <3>3. Told(k, below(v))
        BY <2>2, <2>4
      <3> HIDE DEF evts, below
      <3>4. Told(replay(k, evts), below(v) \union {evts[i] : i \in 1 .. c})
        BY <2>6, <3>2, <3>3, ReplayTells
      <3> QED
        BY <2>7, <2>8, <3>4
    <2> QED
      BY <2>9, <2>10
  <1>5. S = Nat
    <2> HIDE DEF S
    <2>1. S \in SUBSET Nat
      BY DEF S
    <2> QED
      BY <1>3, <1>4, <2>1, CountingUp
  <1>6. n \in S
    BY <1>1, <1>5
  <1>7. below(n) = Said(rs)
    <2>1. \A i \in 1 .. n : rs[i].version <= n
      BY <1>1
    <2> QED
      BY <1>1, <2>1 DEF Said
  <1> QED
    BY <1>1, <1>2, <1>6, <1>7

------------------------------------------------------------------------------
(* What the commands record.                                               *)

\* The lemmas about one game do not depend on which game it is, nor on the page
\* that replays it.
Aggregate == INSTANCE GameAggregateProofs WITH
    game <- feed, Openings <- {}, MaxPasses <- 0, log <- <<>>, reached <- {}, passes <- 0,
    fetched <- 0, replayStates <- <<>>, currentStep <- 0, isPlaying <- FALSE

\* The winner a command names is a seat, or nobody (game.go, determineWinner and
\* Forfeit).
LEMMA WinnersTyped ==
    ASSUME NEW g \in Games
    PROVE  /\ determineWinner(g) \in Seats \union {NoSeat}
           /\ \A u \in Users : forfeitWinner(g, u) \in Seats
  <1>1. /\ Aggregate!BoardSizeAssumption /\ Aggregate!NumPlayersAssumption
        /\ Aggregate!NamesAssumption
        /\ Aggregate!Seats = Seats /\ Aggregate!Games = Games
    BY DEF Aggregate!BoardSizeAssumption, Aggregate!NumPlayersAssumption,
           Aggregate!NamesAssumption, Aggregate!Seats, Seats, Aggregate!Games, Games,
           Aggregate!Cells, Cells, Aggregate!Lines, Lines, Aggregate!Sides, Sides
  <1>2. determineWinner(g) \in Seats \union {NoSeat}
    <2>1. Aggregate!determineWinner(g) \in Seats \union {NoSeat}
      BY <1>1, Aggregate!WinnerIsRight
    <2> QED
      BY <1>1, <2>1 DEF determineWinner, firstLeader,
                        Aggregate!determineWinner, Aggregate!firstLeader
  <1>3. ASSUME NEW u \in Users PROVE forfeitWinner(g, u) \in Seats
    <2>1. g.score \in [Seats -> Nat]
      BY DEF Games
    <2>2. Seats \ {u} # {} /\ Seats \ {u} \in SUBSET Seats
      <3>1. 0 \in Seats /\ 1 \in Seats
        BY DEF Seats
      <3> QED
        BY <3>1
    <2>3. Aggregate!firstLeader(g.score, Seats \ {u}) \in Seats \ {u}
      BY <1>1, <2>1, <2>2, Aggregate!FirstLeaderFound
    <2> QED
      BY <2>3 DEF forfeitWinner, firstLeader, Aggregate!firstLeader
  <1> QED
    BY <1>2, <1>3

SaidBy(evts) == {evts[i] : i \in DOMAIN evts}

\* A box is only given away once its sides are drawn, and the game only ended
\* by count once every box is given away.
Backed(e, E) ==
    /\ e.type = "BoxCompleted" => \A side \in Sides : \E d \in E : Draws(d, e.cell, side)
    /\ e.type = "GameEnded" => \A cell \in Cells : \E d \in E : Claims(d, cell)

\* A line is drawn once.
Fresh(e, E) == e.type = "MoveApplied" => \A d \in E : ~Draws(d, e.cell, e.side)

LEMMA BackedByMore ==
    ASSUME NEW e, NEW E, NEW F, Backed(e, E), E \subseteq F
    PROVE  Backed(e, F)
  BY DEF Backed

\* One batch of events after another.
LEMMA SaidByBoth ==
    ASSUME NEW s \in Seq(Events), NEW t \in Seq(Events)
    PROVE  /\ s \o t \in Seq(Events)
           /\ SaidBy(s \o t) = SaidBy(s) \union SaidBy(t)
           /\ Len(s \o t) >= Len(s)
  <1> HIDE DEF Events
  <1>1. s \o t \in Seq(Events) /\ Len(s \o t) = Len(s) + Len(t)
    OBVIOUS
  <1>2. \A i \in 1 .. Len(s) : (s \o t)[i] = s[i]
    OBVIOUS
  <1>3. \A i \in 1 .. Len(t) : (s \o t)[Len(s) + i] = t[i]
    OBVIOUS
  <1>4. \A j \in 1 .. Len(s) + Len(t) :
            j \in 1 .. Len(s) \/ (j - Len(s) \in 1 .. Len(t) /\ j = Len(s) + (j - Len(s)))
    OBVIOUS
  <1>5. ASSUME NEW e \in SaidBy(s \o t) PROVE e \in SaidBy(s) \union SaidBy(t)
    <2>1. PICK j \in 1 .. Len(s) + Len(t) : e = (s \o t)[j]
      BY <1>1 DEF SaidBy
    <2>2. CASE j \in 1 .. Len(s)
      BY <1>2, <2>1, <2>2 DEF SaidBy
    <2>3. CASE j - Len(s) \in 1 .. Len(t) /\ j = Len(s) + (j - Len(s))
      BY <1>3, <2>1, <2>3 DEF SaidBy
    <2> QED
      BY <1>4, <2>1, <2>2, <2>3
  <1>6. ASSUME NEW e \in SaidBy(s) PROVE e \in SaidBy(s \o t)
    <2>1. PICK j \in 1 .. Len(s) : e = s[j]
      BY DEF SaidBy
    <2>2. j \in 1 .. Len(s \o t) /\ DOMAIN (s \o t) = 1 .. Len(s \o t)
      BY <1>1
    <2> QED
      BY <1>2, <2>1, <2>2 DEF SaidBy
  <1>7. ASSUME NEW e \in SaidBy(t) PROVE e \in SaidBy(s \o t)
    <2>1. PICK j \in 1 .. Len(t) : e = t[j]
      BY DEF SaidBy
    <2>2. Len(s) + j \in 1 .. Len(s \o t) /\ DOMAIN (s \o t) = 1 .. Len(s \o t)
      BY <1>1
    <2> QED
      BY <1>3, <2>1, <2>2 DEF SaidBy
  <1> QED
    BY <1>1, <1>5, <1>6, <1>7

\* An event that is only sometimes recorded.
LEMMA SometimesTells ==
    ASSUME NEW g, NEW E, Told(g, E), NEW cond \in BOOLEAN, NEW e, cond => e \in Events
    PROVE  /\ eventIf(cond, e) \in Seq(Events)
           /\ SaidBy(eventIf(cond, e)) = IF cond THEN {e} ELSE {}
           /\ Told(IF cond THEN applyEvent(g, e) ELSE g, E \union SaidBy(eventIf(cond, e)))
  <1> HIDE DEF Events
  <1>1. CASE cond
    <2>1. eventIf(cond, e) = <<e>>
      BY <1>1 DEF eventIf
    <2>2. SaidBy(<<e>>) = {e} /\ <<e>> \in Seq(Events)
      BY <1>1 DEF SaidBy
    <2> QED
      BY <1>1, <2>1, <2>2, ApplyTells
  <1>2. CASE ~cond
    <2>1. eventIf(cond, e) = <<>>
      BY <1>2 DEF eventIf
    <2>2. SaidBy(<<>>) = {} /\ <<>> \in Seq(Events)
      BY DEF SaidBy
    <2>3. E \union {} = E
      OBVIOUS
    <2> QED
      BY <1>2, <2>1, <2>2, <2>3
  <1> QED
    BY <1>1, <1>2

\* A move leaves the game its events tell, draws a line nobody drew, and gives
\* away boxes and ends the game only with cause (game.go, ApplyMove).
LEMMA MoveTells ==
    ASSUME NEW g, NEW E, Told(g, E), NEW move \in Moves,
           isEdgeAvailable(g.edges, move.cell, move.side)
    PROVE  LET evts == MoveEvents(g, move)
           IN  /\ evts \in Seq(Events) /\ Len(evts) >= 1
               /\ Told(ApplyMove(g, move), E \union SaidBy(evts))
               /\ \A e \in SaidBy(evts) : Fresh(e, E) /\ Backed(e, E \union SaidBy(evts))
  <1> DEFINE cell == move.cell
             side == move.side
             adj  == getAdjacentBox(move.cell, move.side)
             own  == ownCompleted(g, move)
             far  == adjacentCompleted(g, move)
             none == completedNone(g, move)
             d == drawn(g, move)
             k == ownClaimed(g, move)
             b == boxesClaimed(g, move)
             t == turnSettled(g, move)
             h == ApplyMove(g, move)
             over == isGameOver(t)
             e1 == MoveApplied(move)
             e2 == BoxCompleted(cell, move.seat)
             e3 == BoxCompleted(adj, move.seat)
             e4 == TurnPassed(nextSeat(g))
             e5 == GameEnded(determineWinner(t))
             s1 == <<e1>>
             s2 == eventIf(own, e2)
             s3 == eventIf(far, e3)
             s4 == eventIf(none, e4)
             s5 == eventIf(over, e5)
             evts == MoveEvents(g, move)
             E1 == E \union {e1}
             E2 == E1 \union SaidBy(s2)
             E3 == E2 \union SaidBy(s3)
             E4 == E3 \union SaidBy(s4)
             E5 == E4 \union SaidBy(s5)
  <1>1. cell \in Cells /\ side \in Sides /\ move.seat \in Seats
    BY DEF Moves
  <1>2. evts = s1 \o s2 \o s3 \o s4 \o s5
    BY DEF MoveEvents
  <1>3. own \in BOOLEAN /\ far \in BOOLEAN /\ none \in BOOLEAN /\ over \in BOOLEAN
    BY DEF ownCompleted, adjacentCompleted, findCompletableBox, completedNone, isGameOver
  <1>4. /\ d = applyEvent(g, e1)
        /\ k = IF own THEN applyEvent(d, e2) ELSE d
        /\ b = IF far THEN applyEvent(k, e3) ELSE k
        /\ t = IF none THEN applyEvent(b, e4) ELSE b
        /\ h = IF over THEN applyEvent(t, e5) ELSE t
    BY DEF drawn, ownClaimed, boxesClaimed, turnSettled, ApplyMove, endIfFull,
           applyEvent, MoveApplied, BoxCompleted, TurnPassed, GameEnded
  <1>5. e1 \in Events /\ Told(d, E1)
    <2>1. e1 \in Events
      BY <1>1 DEF MoveApplied, Events
    <2> QED
      BY <1>4, <2>1, ApplyTells
  <1>6. s2 \in Seq(Events) /\ SaidBy(s2) = (IF own THEN {e2} ELSE {}) /\ Told(k, E2)
    <2>1. e2 \in Events
      BY <1>1 DEF BoxCompleted, Events
    <2> HIDE DEF E1, e2, d, k
    <2> QED
      BY <1>3, <1>4, <1>5, <2>1, SometimesTells
  <1>7. s3 \in Seq(Events) /\ SaidBy(s3) = (IF far THEN {e3} ELSE {}) /\ Told(b, E3)
    <2>1. far => e3 \in Events
      BY <1>1 DEF adjacentCompleted, findCompletableBox, BoxCompleted, Events
    <2> HIDE DEF E2, e3, k, b
    <2> QED
      BY <1>3, <1>4, <1>6, <2>1, SometimesTells
  <1>8. s4 \in Seq(Events) /\ SaidBy(s4) = (IF none THEN {e4} ELSE {}) /\ Told(t, E4)
    <2>1. g.turn \in Seats
      BY DEF Told, Games
    <2>2. e4 \in Events
      BY <2>1 DEF nextSeat, Seats, TurnPassed, Events
    <2> HIDE DEF E3, e4, b, t
    <2> QED
      BY <1>3, <1>4, <1>7, <2>2, SometimesTells
  <1>9. s5 \in Seq(Events) /\ SaidBy(s5) = (IF over THEN {e5} ELSE {}) /\ Told(h, E5)
    <2>1. determineWinner(t) \in Seats \union {NoSeat}
      BY <1>8, WinnersTyped DEF Told
    <2>2. e5 \in Events
      BY <2>1 DEF GameEnded, Events
    <2> HIDE DEF E4, e5, t, h
    <2> QED
      BY <1>3, <1>4, <1>8, <2>2, SometimesTells
  <1>10. s1 \in Seq(Events) /\ SaidBy(s1) = {e1} /\ Len(s1) = 1
    <2> HIDE DEF e1
    <2> QED
      BY <1>5 DEF SaidBy
  <1>11. /\ evts \in Seq(Events) /\ Len(evts) >= 1
         /\ SaidBy(evts) = {e1} \union SaidBy(s2) \union SaidBy(s3)
                                \union SaidBy(s4) \union SaidBy(s5)
    <2> DEFINE p2 == s1 \o s2
               p3 == p2 \o s3
               p4 == p3 \o s4
               p5 == p4 \o s5
    <2> HIDE DEF s1, s2, s3, s4, s5, p2, p3, p4, p5, e1, evts
    <2>1. p2 \in Seq(Events) /\ SaidBy(p2) = {e1} \union SaidBy(s2) /\ Len(p2) >= 1
      BY <1>6, <1>10, SaidByBoth DEF p2
    <2>2. p3 \in Seq(Events) /\ SaidBy(p3) = SaidBy(p2) \union SaidBy(s3) /\ Len(p3) >= Len(p2)
      BY <1>7, <2>1, SaidByBoth DEF p3
    <2>3. p4 \in Seq(Events) /\ SaidBy(p4) = SaidBy(p3) \union SaidBy(s4) /\ Len(p4) >= Len(p3)
      BY <1>8, <2>2, SaidByBoth DEF p4
    <2>4. p5 \in Seq(Events) /\ SaidBy(p5) = SaidBy(p4) \union SaidBy(s5) /\ Len(p5) >= Len(p4)
      BY <1>9, <2>3, SaidByBoth DEF p5
    <2>5. Len(p5) >= 1
      <3>1. Len(p2) \in Nat /\ Len(p3) \in Nat /\ Len(p4) \in Nat /\ Len(p5) \in Nat
        BY <2>1, <2>2, <2>3, <2>4
      <3> QED
        BY <2>1, <2>2, <2>3, <2>4, <3>1
    <2>6. evts = p5
      BY <1>2 DEF p2, p3, p4, p5
    <2> QED
      BY <2>1, <2>2, <2>3, <2>4, <2>5, <2>6
  <1>12. E5 = E \union SaidBy(evts)
    <2> HIDE DEF s1, s2, s3, s4, s5, evts, e1
    <2> QED
      BY <1>11
  <1>13. ASSUME NEW e \in SaidBy(evts)
         PROVE  \/ e = e1
                \/ own /\ e = e2
                \/ far /\ e = e3
                \/ none /\ e = e4
                \/ over /\ e = e5
    <2> HIDE DEF s1, s2, s3, s4, s5, evts, e1, e2, e3, e4, e5
    <2> QED
      BY <1>6, <1>7, <1>8, <1>9, <1>11, <1>13
  <1>14. \A c \in Cells : isBoxComplete(d.edges, c)
            => \A x \in Sides : \E f \in E1 : Draws(f, c, x)
    BY <1>5 DEF Told, isBoxComplete
  <1>15. over => \A c \in Cells : \E f \in E4 : Claims(f, c)
    <2> HIDE DEF E4, t
    <2> QED
      BY <1>8 DEF Told, isGameOver
  <1>16. \A f \in E : ~Draws(f, cell, side)
    BY <1>1 DEF Told, isEdgeAvailable
  <1>17. E1 \subseteq E5 /\ E4 \subseteq E5
    OBVIOUS
  <1>18. ASSUME NEW e \in SaidBy(evts) PROVE Fresh(e, E) /\ Backed(e, E5)
    <2> HIDE DEF evts, d, t, E1, E4, E5, own, far, none, over
    <2>1. CASE e = e1
      BY <1>16, <2>1 DEF MoveApplied, Fresh, Backed
    <2>2. CASE own /\ e = e2
      <3>1. isBoxComplete(d.edges, cell)
        BY <2>2 DEF own, d, ownCompleted, findCompletableBox
      <3> QED
        BY <1>1, <1>14, <1>17, <2>2, <3>1 DEF BoxCompleted, Fresh, Backed
    <2>3. CASE far /\ e = e3
      <3>1. adj \in Cells /\ isBoxComplete(d.edges, adj)
        BY <2>3 DEF far, d, adjacentCompleted, findCompletableBox
      <3> HIDE DEF adj
      <3> QED
        BY <1>14, <1>17, <2>3, <3>1 DEF BoxCompleted, Fresh, Backed
    <2>4. CASE none /\ e = e4
      BY <2>4 DEF TurnPassed, Fresh, Backed
    <2>5. CASE over /\ e = e5
      BY <1>15, <1>17, <2>5 DEF GameEnded, Fresh, Backed
    <2> QED
      BY <1>13, <2>1, <2>2, <2>3, <2>4, <2>5
  <1> HIDE DEF evts, E5, h
  <1> QED
    BY <1>9, <1>11, <1>12, <1>18 DEF evts, h

\* A pass tells a turn, and ends the game only if every box is given away
\* (game.go, PassTurnOnTimeout).
LEMMA PassTells ==
    ASSUME NEW g, NEW E, Told(g, E)
    PROVE  LET evts == TimeoutEvents(g)
           IN  /\ evts \in Seq(Events) /\ Len(evts) >= 1
               /\ Told(PassTurnOnTimeout(g), E \union SaidBy(evts))
               /\ \A e \in SaidBy(evts) : Fresh(e, E) /\ Backed(e, E \union SaidBy(evts))
  <1> DEFINE t == passTurn(g, nextSeat(g))
             h == PassTurnOnTimeout(g)
             over == isGameOver(t)
             e1 == TurnPassed(nextSeat(g))
             e2 == GameEnded(determineWinner(t))
             s1 == <<e1>>
             s2 == eventIf(over, e2)
             evts == TimeoutEvents(g)
             E1 == E \union {e1}
             E2 == E1 \union SaidBy(s2)
  <1>1. evts = s1 \o s2
    BY DEF TimeoutEvents
  <1>2. /\ t = applyEvent(g, e1)
        /\ h = IF over THEN applyEvent(t, e2) ELSE t
    BY DEF PassTurnOnTimeout, endIfFull, applyEvent, TurnPassed, GameEnded
  <1>3. e1 \in Events /\ Told(t, E1)
    <2>1. g.turn \in Seats
      BY DEF Told, Games
    <2>2. e1 \in Events
      BY <2>1 DEF nextSeat, Seats, TurnPassed, Events
    <2> QED
      BY <1>2, <2>2, ApplyTells
  <1>4. s2 \in Seq(Events) /\ SaidBy(s2) = (IF over THEN {e2} ELSE {}) /\ Told(h, E2)
    <2>1. over \in BOOLEAN
      BY DEF isGameOver
    <2>2. determineWinner(t) \in Seats \union {NoSeat}
      BY <1>3, WinnersTyped DEF Told
    <2>3. e2 \in Events
      BY <2>2 DEF GameEnded, Events
    <2> HIDE DEF E1, e2, t, h
    <2> QED
      BY <1>2, <1>3, <2>1, <2>3, SometimesTells
  <1>5. s1 \in Seq(Events) /\ SaidBy(s1) = {e1} /\ Len(s1) = 1
    <2> HIDE DEF e1
    <2> QED
      BY <1>3 DEF SaidBy
  <1>6. /\ evts \in Seq(Events) /\ Len(evts) >= 1
        /\ SaidBy(evts) = {e1} \union SaidBy(s2)
    <2> HIDE DEF s1, s2, e1, evts
    <2> QED
      BY <1>1, <1>4, <1>5, SaidByBoth
  <1>7. E2 = E \union SaidBy(evts)
    <2> HIDE DEF s1, s2, e1, evts
    <2> QED
      BY <1>6
  <1>8. over => \A c \in Cells : \E f \in E1 : Claims(f, c)
    <2> HIDE DEF E1, t
    <2> QED
      BY <1>3 DEF Told, isGameOver
  <1>9. ASSUME NEW e \in SaidBy(evts) PROVE Fresh(e, E) /\ Backed(e, E2)
    <2>1. e = e1 \/ (over /\ e = e2)
      <3>1. e \in SaidBy(evts)
        BY <1>9
      <3> HIDE DEF s1, s2, e1, e2, evts, over
      <3> QED
        BY <1>4, <1>6, <3>1
    <2>2. CASE e = e1
      BY <2>2 DEF TurnPassed, Fresh, Backed
    <2>3. CASE over /\ e = e2
      <3>1. E1 \subseteq E2
        OBVIOUS
      <3> HIDE DEF E1, E2, t, over
      <3> QED
        BY <1>8, <2>3, <3>1 DEF GameEnded, Fresh, Backed
    <2> QED
      BY <2>1, <2>2, <2>3
  <1> HIDE DEF evts, E2, h
  <1> QED
    BY <1>4, <1>6, <1>7, <1>9 DEF evts, h

\* A forfeit tells that the game is over (game.go, Forfeit).
LEMMA ForfeitTells ==
    ASSUME NEW g, NEW E, Told(g, E), NEW u \in Users
    PROVE  LET evts == ForfeitEvents(g, u)
           IN  /\ evts \in Seq(Events) /\ Len(evts) >= 1
               /\ Told(Forfeit(g, u), E \union SaidBy(evts))
               /\ \A e \in SaidBy(evts) : Fresh(e, E) /\ Backed(e, E \union SaidBy(evts))
  <1> DEFINE e1 == GameForfeited(u, forfeitWinner(g, u))
  <1>1. ForfeitEvents(g, u) = <<e1>>
    BY DEF ForfeitEvents
  <1>2. forfeitWinner(g, u) \in Seats
    BY WinnersTyped DEF Told
  <1>3. e1 \in Events
    BY <1>2 DEF GameForfeited, Events
  <1>4. Forfeit(g, u) = applyEvent(g, e1)
    BY DEF Forfeit, applyEvent, GameForfeited
  <1>5. Fresh(e1, E) /\ Backed(e1, E \union {e1})
    BY DEF GameForfeited, Fresh, Backed
  <1>6. <<e1>> \in Seq(Events) /\ SaidBy(<<e1>>) = {e1} /\ Len(<<e1>>) = 1
    <2> HIDE DEF e1
    <2> QED
      BY <1>3 DEF SaidBy
  <1>7. Told(Forfeit(g, u), E \union {e1})
    BY <1>3, <1>4, ApplyTells
  <1> HIDE DEF e1
  <1> QED
    BY <1>1, <1>5, <1>6, <1>7

------------------------------------------------------------------------------
(* The log.                                                                *)

SaidFirst(rs, n) == {rs[i].event : i \in 1 .. n}

\* A log that tells of boxes and endings with cause, and in which no writer draws
\* a line that was among the rows it had loaded.
Sound(rs) ==
    /\ Log(rs)
    /\ \A i \in DOMAIN rs : Backed(rs[i].event, Said(rs))
    /\ \A i \in 2 .. Len(rs) : Fresh(rs[i].event, SaidFirst(rs, rs[i].seen))

\* A batch written by somebody who had loaded the first seen rows.
Batch(rs, seen, evts) ==
    /\ seen \in 1 .. Len(rs)
    /\ evts \in Seq(Events)
    /\ \A e \in SaidBy(evts) : /\ Fresh(e, SaidFirst(rs, seen))
                               /\ Backed(e, Said(rs) \union SaidBy(evts))

\* What the rows of a log are.
LEMMA LogRows ==
    ASSUME NEW rs, Log(rs)
    PROVE  /\ Len(rs) \in Nat /\ Len(rs) >= 1 /\ DOMAIN rs = 1 .. Len(rs)
           /\ rs[1] = Row(1, GameCreated, 0)
           /\ \A i \in 1 .. Len(rs) : /\ rs[i].version \in Nat /\ rs[i].seen \in Nat
                                      /\ rs[i].seen < rs[i].version
                                      /\ 1 <= rs[i].version /\ rs[i].version <= i
           /\ \A i \in 2 .. Len(rs) : rs[i].event \in Events /\ 1 <= rs[i].seen
  <1> DEFINE R == [version : Nat, event : Events \union {GameCreated}, seen : Nat]
  <1>1. rs \in Seq(R)
    BY DEF Log
  <1>2. \A r \in R : r.version \in Nat /\ r.seen \in Nat
    OBVIOUS
  <1> HIDE DEF R
  <1>3. Len(rs) \in Nat /\ DOMAIN rs = 1 .. Len(rs) /\ \A i \in 1 .. Len(rs) : rs[i] \in R
    BY <1>1
  <1>4. Len(rs) >= 1 /\ rs[1] = Row(1, GameCreated, 0)
    BY DEF Log
  <1>5. \A i \in 2 .. Len(rs) : /\ rs[i].event \in Events /\ 1 <= rs[i].seen
                                /\ rs[i].seen < rs[i].version
                                /\ rs[i].version <= i
    BY DEF Log
  <1>6. rs[1].version = 1 /\ rs[1].seen = 0
    BY <1>4 DEF Row
  <1>7. ASSUME NEW i \in 1 .. Len(rs)
        PROVE  /\ rs[i].version \in Nat /\ rs[i].seen \in Nat
               /\ rs[i].seen < rs[i].version
               /\ 1 <= rs[i].version /\ rs[i].version <= i
    <2>1. rs[i].version \in Nat /\ rs[i].seen \in Nat
      BY <1>2, <1>3
    <2>2. i = 1 \/ i \in 2 .. Len(rs)
      BY <1>3
    <2> QED
      BY <1>5, <1>6, <2>1, <2>2
  <1> QED
    BY <1>3, <1>4, <1>5, <1>7

\* Appending a batch keeps the log sound, whoever wrote in between
\* (pgGameRepository.go, AppendEvents).
LEMMA AppendKeepsSound ==
    ASSUME NEW rs, Sound(rs), NEW seen, NEW evts, Batch(rs, seen, evts)
    PROVE  LET new == rs \o NewRows(seen, evts)
           IN  /\ Sound(new)
               /\ Said(new) = Said(rs) \union SaidBy(evts)
               /\ Len(new) = Len(rs) + Len(evts)
               /\ \A i \in 1 .. Len(rs) : new[i] = rs[i]
  <1> DEFINE R == [version : Nat, event : Events \union {GameCreated}, seen : Nat]
             n == Len(rs)
             m == Len(evts)
             add == NewRows(seen, evts)
             new == rs \o add
  <1>1. /\ Log(rs) /\ rs \in Seq(R)
        /\ \A i \in 1 .. n : Backed(rs[i].event, Said(rs))
        /\ \A i \in 2 .. n : Fresh(rs[i].event, SaidFirst(rs, rs[i].seen))
    <2>1. Log(rs) /\ DOMAIN rs = 1 .. n
      BY LogRows DEF Sound
    <2> QED
      BY <2>1 DEF Sound, Log
  <1>2. /\ n \in Nat /\ n >= 1 /\ DOMAIN rs = 1 .. n
        /\ rs[1] = Row(1, GameCreated, 0)
        /\ \A i \in 1 .. n : rs[i].seen < i /\ rs[i].seen \in Nat
        /\ \A i \in 2 .. n : /\ rs[i].event \in Events /\ 1 <= rs[i].seen
                             /\ rs[i].seen < rs[i].version
                             /\ rs[i].version <= i
    BY <1>1, LogRows
  <1>3. seen \in Nat /\ 1 <= seen /\ seen <= n
    BY <1>2 DEF Batch
  <1>4. /\ m \in Nat /\ DOMAIN evts = 1 .. m
        /\ \A i \in 1 .. m : evts[i] \in Events /\ evts[i] \in SaidBy(evts)
    <2>1. evts \in Seq(Events)
      BY DEF Batch
    <2> HIDE DEF Events
    <2> QED
      BY <2>1 DEF SaidBy
  <1>5. add \in Seq(R) /\ Len(add) = m /\ \A i \in 1 .. m : add[i] = Row(seen + i, evts[i], seen)
    <2>1. add = [i \in 1 .. m |-> Row(seen + i, evts[i], seen)]
      BY <1>4 DEF NewRows
    <2>2. \A i \in 1 .. m : Row(seen + i, evts[i], seen) \in R
      BY <1>3, <1>4 DEF Row
    <2> HIDE DEF R, add
    <2> QED
      BY <1>4, <2>1, <2>2
  <1> HIDE DEF R, add
  <1>6. /\ new \in Seq(R) /\ Len(new) = n + m /\ DOMAIN new = 1 .. n + m
        /\ \A i \in 1 .. n : new[i] = rs[i]
        /\ \A i \in 1 .. m : new[n + i] = add[i]
    BY <1>1, <1>5
  <1> HIDE DEF n, m, new
  <1>7. \A j \in 1 .. n + m : j \in 1 .. n \/ (j - n \in 1 .. m /\ j = n + (j - n))
    BY <1>2, <1>4
  <1>8. ASSUME NEW j \in 1 .. n + m, j \notin 1 .. n
        PROVE  /\ new[j].event \in SaidBy(evts) /\ new[j].event \in Events
               /\ new[j].seen = seen
               /\ seen < new[j].version /\ new[j].version <= j
    <2>1. j - n \in 1 .. m /\ j = n + (j - n)
      BY <1>7, <1>8
    <2>2. new[j] = Row(seen + (j - n), evts[j - n], seen)
      BY <1>5, <1>6, <2>1
    <2>3. new[j].version = seen + (j - n) /\ new[j].event = evts[j - n] /\ new[j].seen = seen
      BY <2>2 DEF Row
    <2> QED
      BY <1>2, <1>3, <1>4, <2>1, <2>3
  <1>9. Log(new)
    <2>1. Len(new) >= 1 /\ new[1] = Row(1, GameCreated, 0)
      BY <1>2, <1>4, <1>6
    <2>2. ASSUME NEW i \in 2 .. Len(new)
          PROVE  /\ new[i].event \in Events /\ 1 <= new[i].seen
                 /\ new[i].seen < new[i].version /\ new[i].version <= i
      <3>1. i \in 1 .. n + m
        BY <1>2, <1>4, <1>6
      <3>2. CASE i \in 1 .. n
        <4>1. i \in 2 .. n
          BY <1>2, <3>2
        <4> QED
          BY <1>2, <1>6, <3>2, <4>1
      <3>3. CASE i \notin 1 .. n
        BY <1>3, <1>8, <3>1, <3>3
      <3> QED
        BY <3>2, <3>3
    <2> QED
      BY <1>6, <2>1, <2>2 DEF Log, R
  <1>10. Said(new) = Said(rs) \union SaidBy(evts)
    <2>1. ASSUME NEW e \in Said(new) PROVE e \in Said(rs) \union SaidBy(evts)
      <3>1. PICK j \in 1 .. n + m : e = new[j].event
        BY <1>6 DEF Said
      <3>2. CASE j \in 1 .. n
        BY <1>2, <1>6, <3>1, <3>2 DEF Said
      <3>3. CASE j \notin 1 .. n
        BY <1>8, <3>1, <3>3
      <3> QED
        BY <3>2, <3>3
    <2>2. ASSUME NEW e \in Said(rs) PROVE e \in Said(new)
      <3>1. PICK j \in 1 .. n : e = rs[j].event
        BY <1>2 DEF Said
      <3>2. j \in 1 .. n + m
        BY <1>2, <1>4
      <3> QED
        BY <1>6, <3>1, <3>2 DEF Said
    <2>3. ASSUME NEW e \in SaidBy(evts) PROVE e \in Said(new)
      <3>1. PICK j \in 1 .. m : e = evts[j]
        BY <1>4 DEF SaidBy
      <3>2. n + j \in 1 .. n + m /\ new[n + j].event = evts[j]
        BY <1>2, <1>4, <1>5, <1>6 DEF Row
      <3> QED
        BY <1>6, <3>1, <3>2 DEF Said
    <2> QED
      BY <2>1, <2>2, <2>3
  <1>11. ASSUME NEW i \in DOMAIN new PROVE Backed(new[i].event, Said(new))
    <2>1. CASE i \in 1 .. n
      <3>1. Backed(rs[i].event, Said(rs))
        BY <1>1, <2>1 DEF n
      <3> QED
        BY <1>6, <1>10, <2>1, <3>1, BackedByMore
    <2>2. CASE i \notin 1 .. n
      <3>1. new[i].event \in SaidBy(evts)
        BY <1>6, <1>8, <2>2
      <3> QED
        BY <1>10, <3>1 DEF Batch
    <2> QED
      BY <2>1, <2>2
  <1>12. \A k \in 1 .. n : SaidFirst(new, k) = SaidFirst(rs, k)
    <2> SUFFICES ASSUME NEW k \in 1 .. n PROVE SaidFirst(new, k) = SaidFirst(rs, k)
      OBVIOUS
    <2>1. \A i \in 1 .. k : new[i] = rs[i]
      BY <1>2, <1>6
    <2> QED
      BY <2>1 DEF SaidFirst
  <1>13. ASSUME NEW i \in 2 .. Len(new)
         PROVE  Fresh(new[i].event, SaidFirst(new, new[i].seen))
    <2>1. i \in 1 .. n + m
      BY <1>2, <1>4, <1>6
    <2>2. CASE i \in 1 .. n
      <3>1. i \in 2 .. n /\ rs[i].seen \in 1 .. n
        BY <1>2, <2>1, <2>2
      <3>2. Fresh(rs[i].event, SaidFirst(rs, rs[i].seen))
        BY <1>1, <3>1 DEF n
      <3> QED
        BY <1>6, <1>12, <2>2, <3>1, <3>2
    <2>3. CASE i \notin 1 .. n
      <3>1. new[i].event \in SaidBy(evts) /\ new[i].seen = seen
        BY <1>8, <2>1, <2>3
      <3>2. Fresh(new[i].event, SaidFirst(rs, seen))
        BY <3>1 DEF Batch
      <3>3. seen \in 1 .. n
        BY <1>2, <1>3
      <3> QED
        BY <1>12, <3>1, <3>2, <3>3
    <2> QED
      BY <2>2, <2>3
  <1>14. Sound(new)
    BY <1>9, <1>11, <1>13 DEF Sound
  <1>15. new = rs \o NewRows(seen, evts) /\ n = Len(rs) /\ m = Len(evts)
    BY DEF new, add, n, m
  <1> QED
    BY <1>6, <1>10, <1>14, <1>15

\* A writer's batch stays one while others write.
LEMMA BatchStays ==
    ASSUME NEW rs, Sound(rs), NEW new, Sound(new),
           Said(rs) \subseteq Said(new), Len(rs) <= Len(new),
           \A i \in 1 .. Len(rs) : new[i] = rs[i],
           NEW seen, NEW evts, Batch(rs, seen, evts)
    PROVE  Batch(new, seen, evts)
  <1>1. /\ Len(rs) \in Nat /\ Len(new) \in Nat
    BY LogRows DEF Sound
  <1>2. seen \in 1 .. Len(rs) /\ seen \in 1 .. Len(new)
    BY <1>1 DEF Batch
  <1>3. SaidFirst(new, seen) = SaidFirst(rs, seen)
    <2>1. \A i \in 1 .. seen : new[i] = rs[i]
      BY <1>1, <1>2
    <2> QED
      BY <2>1 DEF SaidFirst
  <1>4. Said(rs) \union SaidBy(evts) \subseteq Said(new) \union SaidBy(evts)
    OBVIOUS
  <1> QED
    BY <1>2, <1>3, <1>4, BackedByMore DEF Batch

------------------------------------------------------------------------------
(* The opening.                                                            *)

\* f holds the games and rows the opening passes through.
Opens(f, n) ==
    f = [v \in 0 .. n |->
            IF v = 0 THEN [game |-> newGame, rows |-> NewRows(0, <<GameCreated>>)]
            ELSE Played(f[v - 1], Opening[v])]

\* The recursion of Opened has a solution.
LEMMA OpenedDefined ==
    ASSUME NEW n \in Nat
    PROVE  \E f : Opens(f, n)
  <1> DEFINE S == {m \in Nat : \E f : Opens(f, m)}
             start == [game |-> newGame, rows |-> NewRows(0, <<GameCreated>>)]
  <1> HIDE DEF start
  <1>1. 0 \in S
    <2>1. Opens([v \in 0 .. 0 |-> start], 0)
      BY DEF Opens, start
    <2> QED
      BY <2>1
  <1>2. ASSUME NEW m \in S PROVE m + 1 \in S
    <2>1. PICK f : Opens(f, m)
      OBVIOUS
    <2>2. m \in Nat
      OBVIOUS
    <2> HIDE DEF S
    <2> DEFINE h == [v \in 0 .. m + 1 |-> IF v <= m THEN f[v] ELSE Played(f[m], Opening[m + 1])]
    <2>3. \A v \in 0 .. m : f[v] = IF v = 0 THEN start ELSE Played(f[v - 1], Opening[v])
      BY <2>1 DEF Opens, start
    <2>4. /\ \A v \in 0 .. m : h[v] = f[v]
          /\ h[m + 1] = Played(f[m], Opening[m + 1])
          /\ h = [v \in 0 .. m + 1 |-> h[v]]
      BY <2>2
    <2> HIDE DEF h
    <2>5. ASSUME NEW v \in 0 .. m + 1
          PROVE  h[v] = IF v = 0 THEN start ELSE Played(h[v - 1], Opening[v])
      <3>1. CASE v = m + 1
        <4>1. v # 0 /\ v - 1 = m /\ m \in 0 .. m
          BY <2>2, <3>1
        <4> QED
          BY <2>4, <3>1, <4>1
      <3>2. CASE v \in 0 .. m
        <4>1. v = 0 \/ v - 1 \in 0 .. m
          BY <2>2, <3>2
        <4> QED
          BY <2>3, <2>4, <3>2, <4>1
      <3> QED
        BY <2>2, <3>1, <3>2
    <2>6. [v \in 0 .. m + 1 |-> h[v]]
            = [v \in 0 .. m + 1 |-> IF v = 0 THEN start ELSE Played(h[v - 1], Opening[v])]
      BY <2>5, Zenon
    <2>7. Opens(h, m + 1)
      BY <2>4, <2>6, Zenon DEF Opens, start
    <2> QED
      BY <2>2, <2>7 DEF S
  <1>3. S = Nat
    <2> HIDE DEF S
    <2>1. S \in SUBSET Nat
      BY DEF S
    <2> QED
      BY <1>1, <1>2, <2>1, CountingUp
  <1> QED
    BY <1>3

\* The rows of a new game (pgGameRepository.go, Create).
LEMMA NewGameSound ==
    LET rs == NewRows(0, <<GameCreated>>)
    IN  Sound(rs) /\ Told(newGame, Said(rs)) /\ Len(rs) = 1
  <1> DEFINE rs == NewRows(0, <<GameCreated>>)
             row == Row(1, GameCreated, 0)
  <1>1. rs = <<row>>
    <2>1. rs = [i \in {1} |-> Row(0 + i, <<GameCreated>>[i], 0)]
      <3>1. DOMAIN <<GameCreated>> = {1}
        OBVIOUS
      <3> QED
        BY <3>1 DEF NewRows
    <2>2. rs = [i \in {1} |-> row]
      <3>1. \A i \in {1} : Row(0 + i, <<GameCreated>>[i], 0) = row
        OBVIOUS
      <3> QED
        BY <2>1, <3>1
    <2> HIDE DEF rs, row
    <2> QED
      BY <2>2
  <1>2. row.event = GameCreated /\ row \in [version : Nat, event : {GameCreated}, seen : Nat]
    BY DEF Row
  <1> HIDE DEF rs, row
  <1>3. Len(rs) = 1 /\ DOMAIN rs = {1} /\ rs[1] = row
    BY <1>1
  <1>4. Said(rs) = {GameCreated}
    BY <1>2, <1>3 DEF Said
  <1>5. Told(newGame, Said(rs))
    BY <1>4, NewGameTells
  <1>6. Log(rs)
    <2>1. rs \in Seq([version : Nat, event : Events \union {GameCreated}, seen : Nat])
      <3> DEFINE R == [version : Nat, event : Events \union {GameCreated}, seen : Nat]
      <3>1. row \in R
        BY <1>2
      <3> HIDE DEF R
      <3>2. rs \in Seq(R)
        BY <1>1, <3>1
      <3> QED
        BY <3>2 DEF R
    <2>2. 2 .. Len(rs) = {}
      BY <1>3
    <2> QED
      BY <1>3, <2>1, <2>2 DEF Log, row
  <1>7. \A E : Backed(GameCreated, E)
    BY DEF Backed, GameCreated
  <1>8. Sound(rs)
    <2>1. 2 .. Len(rs) = {}
      BY <1>3
    <2> QED
      BY <1>2, <1>3, <1>6, <1>7, <2>1 DEF Sound
  <1> QED
    BY <1>3, <1>5, <1>8 DEF rs

\* What Opened computes.
LEMMA OpenedUnfolds ==
    /\ Len(Opening) \in Nat
    /\ Opened[0] = [game |-> newGame, rows |-> NewRows(0, <<GameCreated>>)]
    /\ \A v \in 1 .. Len(Opening) :
          /\ Opened[v] = Played(Opened[v - 1], Opening[v])
          /\ Opening[v] \in Moves
          /\ isEdgeAvailable(Opened[v - 1].game.edges, Opening[v].cell, Opening[v].side)
  <1> DEFINE n == Len(Opening)
  <1>1. n \in Nat /\ \A v \in 1 .. n : Opening[v] \in Moves
    BY OpeningAssumption DEF OpeningAssumption
  <1>2. Opens(Opened, n)
    <2>1. Opened = CHOOSE f : Opens(f, n)
      BY DEF Opened, Opens
    <2> HIDE DEF n
    <2> QED
      BY <1>1, <2>1, OpenedDefined, Zenon
  <1> HIDE DEF n
  <1>3. \A v \in 0 .. n :
            Opened[v] = IF v = 0 THEN [game |-> newGame, rows |-> NewRows(0, <<GameCreated>>)]
                        ELSE Played(Opened[v - 1], Opening[v])
    BY <1>2 DEF Opens
  <1>4. Opened[0] = [game |-> newGame, rows |-> NewRows(0, <<GameCreated>>)]
    BY <1>1, <1>3
  <1>5. \A v \in 1 .. n : Opened[v] = Played(Opened[v - 1], Opening[v])
    BY <1>1, <1>3
  <1>6. \A v \in 1 .. n :
           isEdgeAvailable(Opened[v - 1].game.edges, Opening[v].cell, Opening[v].side)
    BY OpeningAssumption DEF OpeningAssumption, n
  <1> QED
    BY <1>1, <1>4, <1>5, <1>6 DEF n

\* Commands that follow one another leave a sound log and the game it tells.
LEMMA OpenedSound ==
    \A v \in 0 .. Len(Opening) :
        Sound(Opened[v].rows) /\ Told(Opened[v].game, Said(Opened[v].rows))
  <1> DEFINE n == Len(Opening)
             OK(p) == Sound(p.rows) /\ Told(p.game, Said(p.rows))
  <1>1. n \in Nat
    BY OpenedUnfolds
  <1> HIDE DEF n
  <1> DEFINE S == {v \in Nat : v <= n => OK(Opened[v])}
  <1>2. 0 \in S
    BY OpenedUnfolds, NewGameSound
  <1>3. ASSUME NEW v \in S PROVE v + 1 \in S
    <2> SUFFICES ASSUME v + 1 <= n PROVE OK(Opened[v + 1])
      OBVIOUS
    <2> DEFINE p == Opened[v]
               move == Opening[v + 1]
               evts == MoveEvents(p.game, move)
    <2>1. v \in Nat /\ v + 1 \in 1 .. n /\ v + 1 \in 0 .. n /\ v + 1 # 0 /\ (v + 1) - 1 = v
      BY <1>1
    <2>2. OK(p)
      BY <1>1, <2>1
    <2>3. /\ Opened[v + 1] = Played(p, move)
          /\ isEdgeAvailable(p.game.edges, move.cell, move.side) /\ move \in Moves
      BY <2>1, OpenedUnfolds DEF n
    <2> HIDE DEF p, move, S
    <2>4. /\ evts \in Seq(Events)
          /\ Told(ApplyMove(p.game, move), Said(p.rows) \union SaidBy(evts))
          /\ \A e \in SaidBy(evts) : /\ Fresh(e, Said(p.rows))
                                     /\ Backed(e, Said(p.rows) \union SaidBy(evts))
      BY <2>2, <2>3, MoveTells
    <2> HIDE DEF evts
    <2> DEFINE rs == p.rows
    <2>5. Len(rs) \in Nat /\ Len(rs) >= 1 /\ DOMAIN rs = 1 .. Len(rs)
      BY <2>2, LogRows DEF Sound
    <2>6. SaidFirst(rs, Len(rs)) = Said(rs)
      BY <2>5 DEF SaidFirst, Said
    <2>7. Batch(rs, Len(rs), evts)
      <3>1. \A e \in SaidBy(evts) : /\ Fresh(e, SaidFirst(rs, Len(rs)))
                                     /\ Backed(e, Said(rs) \union SaidBy(evts))
        BY <2>4, <2>6
      <3>2. Len(rs) \in 1 .. Len(rs)
        BY <2>5
      <3> HIDE DEF rs
      <3> QED
        BY <2>4, <3>1, <3>2 DEF Batch
    <2>8. /\ Sound(rs \o NewRows(Len(rs), evts))
          /\ Said(rs \o NewRows(Len(rs), evts)) = Said(rs) \union SaidBy(evts)
      BY <2>2, <2>7, AppendKeepsSound
    <2>9. /\ Played(p, move).rows = rs \o NewRows(Len(rs), evts)
           /\ Played(p, move).game = ApplyMove(p.game, move)
      BY DEF Played, evts
    <2> QED
      BY <2>3, <2>4, <2>8, <2>9
  <1>4. S = Nat
    <2> HIDE DEF S
    <2>1. S \in SUBSET Nat
      BY DEF S
    <2> QED
      BY <1>2, <1>3, <2>1, CountingUp
  <1>5. ASSUME NEW v \in 0 .. n PROVE OK(Opened[v])
    <2>1. v \in S /\ v <= n
      BY <1>1, <1>4
    <2> QED
      BY <2>1
  <1> QED
    BY <1>5 DEF n

------------------------------------------------------------------------------
(* The inductive invariant.                                                *)

\* The stages at which a goroutine holds a game it has changed.
Working == {"append", "project", "switch", "stop", "publish", "complete"}

\* The goroutines that work on a command.
Busy == {w \in Workers : pc[w] \in Working \union {"expired"}}

Shapes ==
    /\ proj \in [turn : Seats, winner : Seats \union {NoSeat}, ended : BOOLEAN,
                 score : [Seats -> Nat]]
    /\ clock \in [on : BOOLEAN, seat : Seats]
    /\ feed \in Games
    /\ announced \in BOOLEAN
    /\ pc \in [Workers -> Stages]
    /\ DOMAIN job = Workers
    /\ \A w \in Workers : pc[w] \in Working => job[w].game \in Games
    /\ faults \in 0 .. MaxFaults
    /\ restarts \in 0 .. MaxRestarts

\* Every completion belongs to a command of its own.
Counts ==
    /\ begun \in 0 .. MaxRequests
    /\ completions \in Nat
    /\ IsFiniteSet(Busy)
    /\ completions + Cardinality(Busy) <= begun

Writers ==
    /\ Sound(rows)
    /\ \A w \in Workers : pc[w] = "append" => Batch(rows, job[w].seen, job[w].events)

IInv == Shapes /\ Counts /\ Writers

LEMMA ProjectionTyped ==
    ASSUME NEW g \in Games
    PROVE  Projection(g) \in [turn : Seats, winner : Seats \union {NoSeat}, ended : BOOLEAN,
                              score : [Seats -> Nat]]
  BY DEF Projection, Games

\* The state after the opening.
LEMMA InitInv == Init => IInv
  <1> SUFFICES ASSUME Init PROVE IInv
    OBVIOUS
  <1>1. /\ Sound(rows) /\ OpeningRows.game \in Games
        /\ feed = OpeningRows.game /\ proj = Projection(OpeningRows.game)
    <2>1. Sound(OpeningRows.rows) /\ Told(OpeningRows.game, Said(OpeningRows.rows))
      <3>1. Len(Opening) \in 0 .. Len(Opening)
        BY OpenedUnfolds
      <3> QED
        BY <3>1, OpenedSound DEF OpeningRows
    <2> QED
      BY <2>1 DEF Init, Told
  <1>2. /\ pc \in [Workers -> {"idle", "announce"}] /\ announced \in BOOLEAN
        /\ clock \in [on : BOOLEAN, seat : Seats]
    <2>1. OpeningRows.game.turn \in Seats /\ 0 \in Seats
      BY <1>1 DEF Games, Seats
    <2>2. CASE Opening = <<>>
      <3>1. announced = FALSE /\ clock = [on |-> FALSE, seat |-> 0]
        BY <2>2, Zenon DEF Init
      <3>2. PICK creator \in Workers :
               pc = [w \in Workers |-> IF w = creator THEN "announce" ELSE "idle"]
        BY <2>2, Zenon DEF Init
      <3> QED
        BY <2>1, <3>1, <3>2
    <2>3. CASE Opening # <<>>
      <3>1. /\ announced = TRUE
            /\ clock = [on |-> TRUE, seat |-> OpeningRows.game.turn]
            /\ pc = [w \in Workers |-> "idle"]
        BY <2>3, Zenon DEF Init
      <3> QED
        BY <2>1, <3>1
    <2> QED
      BY <2>2, <2>3
  <1>3. \A w \in Workers : pc[w] \notin Working \union {"expired"} /\ pc[w] \in Stages
    BY <1>2 DEF Working, Stages
  <1>4. Shapes
    <2>1. 0 \in 0 .. MaxFaults /\ 0 \in 0 .. MaxRestarts
      BY BoundsAssumption DEF BoundsAssumption
    <2>2. faults = 0 /\ restarts = 0 /\ DOMAIN job = Workers
      BY DEF Init
    <2> QED
      BY <1>1, <1>2, <1>3, <2>1, <2>2, ProjectionTyped DEF Shapes
  <1>5. Counts
    <2>1. Busy = {}
      BY <1>3 DEF Busy
    <2>2. begun = 0 /\ completions = 0
      BY DEF Init
    <2> QED
      BY <2>1, <2>2, FS_EmptySet, BoundsAssumption DEF Counts, BoundsAssumption
  <1>6. Writers
    BY <1>1, <1>3 DEF Writers, Working
  <1> QED
    BY <1>4, <1>5, <1>6 DEF IInv

\* A goroutine that works on, or is done, adds nobody to the busy ones.
LEMMA FewerBusy ==
    ASSUME IsFiniteSet(Busy), Busy' \subseteq Busy
    PROVE  IsFiniteSet(Busy') /\ Cardinality(Busy') <= Cardinality(Busy)
                /\ Cardinality(Busy') \in Nat /\ Cardinality(Busy) \in Nat
  BY FS_Subset, FS_CardinalityType

\* A command starts with a game that shows the whole log.
LEMMA LoadedGame ==
    ASSUME Sound(rows), NEW g \in LoadedFrom(rows)
    PROVE  /\ Told(g, Said(rows)) /\ g \in Games
           /\ Len(rows) \in Nat /\ Len(rows) >= 1
           /\ SaidFirst(rows, Len(rows)) = Said(rows)
  <1>1. Log(rows)
    BY DEF Sound
  <1>2. Len(rows) \in Nat /\ Len(rows) >= 1 /\ DOMAIN rows = 1 .. Len(rows)
    BY <1>1, LogRows
  <1>3. SaidFirst(rows, Len(rows)) = Said(rows)
    BY <1>2 DEF SaidFirst, Said
  <1> QED
    BY <1>1, <1>2, <1>3, LoadTells DEF Told

\* A command that got past its checks holds a sound batch (gameService.go, the
\* three commands up to AppendEvents).
LEMMA AcceptKeeps ==
    ASSUME IInv, NEW w \in Workers, NEW op, NEW g \in LoadedFrom(rows), NEW after, NEW evts,
           evts \in Seq(Events),
           Told(after, Said(rows) \union SaidBy(evts)),
           \A e \in SaidBy(evts) : /\ Fresh(e, Said(rows))
                                   /\ Backed(e, Said(rows) \union SaidBy(evts)),
           Accept(w, op, g, after, evts),
           UNCHANGED <<rows, proj, clock, feed, announced, faults, restarts>>
    PROVE  Shapes' /\ Writers' /\ pc' = [pc EXCEPT ![w] = "append"]
  <1>1. /\ Len(rows) \in Nat /\ Len(rows) >= 1
        /\ SaidFirst(rows, Len(rows)) = Said(rows)
    BY LoadedGame DEF IInv, Writers
  <1>2. Batch(rows, Len(rows), evts)
    <2>1. Len(rows) \in 1 .. Len(rows)
      BY <1>1
    <2> QED
      BY <1>1, <2>1 DEF Batch
  <1>3. /\ pc' = [pc EXCEPT ![w] = "append"] /\ pc \in [Workers -> Stages]
        /\ job' = [job EXCEPT ![w] = NewJob(op, g, after, evts)] /\ DOMAIN job = Workers
    BY DEF Accept, Goto, IInv, Shapes
  <1>4. /\ NewJob(op, g, after, evts).seen = Len(rows)
        /\ NewJob(op, g, after, evts).events = evts
        /\ NewJob(op, g, after, evts).game = after
    BY DEF NewJob
  <1>5. \A x \in Workers : /\ pc'[x] = IF x = w THEN "append" ELSE pc[x]
                           /\ job'[x] = IF x = w THEN NewJob(op, g, after, evts) ELSE job[x]
    BY <1>3
  <1>6. Shapes'
    <2>1. after \in Games
      BY DEF Told
    <2>2. pc' \in [Workers -> Stages] /\ DOMAIN job' = Workers
      BY <1>3 DEF Stages
    <2>3. \A x \in Workers : pc'[x] \in Working => job'[x].game \in Games
      BY <1>4, <1>5, <2>1 DEF IInv, Shapes
    <2> QED
      BY <2>2, <2>3 DEF IInv, Shapes
  <1>7. Writers'
    <2>1. ASSUME NEW x \in Workers, pc'[x] = "append"
          PROVE  Batch(rows, job'[x].seen, job'[x].events)
      <3>1. CASE x = w
        BY <1>2, <1>4, <1>5, <3>1
      <3>2. CASE x # w
        BY <1>5, <2>1, <3>2 DEF IInv, Writers
      <3> QED
        BY <3>1, <3>2
    <2> QED
      BY <2>1 DEF IInv, Writers
  <1> QED
    BY <1>3, <1>6, <1>7

\* One more command is under way.
LEMMA OneMoreBusy ==
    ASSUME IInv, NEW w \in Workers, Start(w), NEW stage \in Working \union {"expired"},
           pc' = [pc EXCEPT ![w] = stage], completions' = completions
    PROVE  Counts'
  <1>1. /\ pc \in [Workers -> Stages] /\ pc[w] = "idle"
        /\ begun < MaxRequests /\ begun' = begun + 1 /\ begun \in 0 .. MaxRequests
        /\ completions \in Nat /\ IsFiniteSet(Busy)
        /\ completions + Cardinality(Busy) <= begun
    BY DEF Start, IInv, Shapes, Counts
  <1>2. w \notin Busy
    BY <1>1 DEF Busy, Working
  <1>3. Busy' = Busy \union {w}
    BY <1>1 DEF Busy
  <1>4. /\ IsFiniteSet(Busy \union {w}) /\ Cardinality(Busy) \in Nat
        /\ Cardinality(Busy \union {w}) = Cardinality(Busy) + 1
    BY <1>1, <1>2, FS_AddElement, FS_CardinalityType
  <1> QED
    BY <1>1, <1>3, <1>4, BoundsAssumption DEF Counts, BoundsAssumption

\* Nothing more is under way.
LEMMA NoMoreBusy ==
    ASSUME IInv, Busy' \subseteq Busy, UNCHANGED <<begun, completions>>
    PROVE  Counts'
  <1>1. /\ begun \in 0 .. MaxRequests /\ completions \in Nat /\ IsFiniteSet(Busy)
        /\ completions + Cardinality(Busy) <= begun
    BY DEF IInv, Counts
  <1>2. /\ IsFiniteSet(Busy') /\ Cardinality(Busy') <= Cardinality(Busy)
        /\ Cardinality(Busy') \in Nat /\ Cardinality(Busy) \in Nat
    BY <1>1, FewerBusy
  <1> QED
    BY <1>1, <1>2, BoundsAssumption DEF Counts, BoundsAssumption

\* Nobody writes and nobody is given a batch.
LEMMA NobodyWrites ==
    ASSUME IInv, rows' = rows,
           \A w \in Workers : pc'[w] = "append" => pc[w] = "append" /\ job'[w] = job[w]
    PROVE  Writers'
  BY DEF IInv, Writers

\* One goroutine moves on from a stage at which it works, without a new game.
LEMMA MovesOn ==
    ASSUME IInv, NEW w \in Workers, NEW stage \in Working \ {"append"},
           pc[w] \in Working, pc' = [pc EXCEPT ![w] = stage],
           UNCHANGED <<job, begun, completions>>
    PROVE  /\ pc' \in [Workers -> Stages]
           /\ \A x \in Workers : pc'[x] \in Working => job'[x].game \in Games
           /\ \A x \in Workers : pc'[x] = "append" => pc[x] = "append" /\ job'[x] = job[x]
           /\ Counts'
  <1>1. pc \in [Workers -> Stages]
    BY DEF IInv, Shapes
  <1>2. \A x \in Workers : pc'[x] = IF x = w THEN stage ELSE pc[x]
    BY <1>1
  <1>3. pc' \in [Workers -> Stages]
    BY <1>1 DEF Working, Stages
  <1>4. Busy' \subseteq Busy
    BY <1>2 DEF Busy
  <1> QED
    BY <1>2, <1>3, <1>4, NoMoreBusy DEF IInv, Shapes, Working

\* One goroutine is done.
LEMMA IsDone ==
    ASSUME IInv, NEW w \in Workers, Finish(w)
    PROVE  /\ pc' \in [Workers -> Stages] /\ DOMAIN job' = Workers
           /\ \A x \in Workers : pc'[x] \in Working => job'[x].game \in Games
           /\ \A x \in Workers : pc'[x] = "append" => pc[x] = "append" /\ job'[x] = job[x]
           /\ Busy' = Busy \ {w}
  <1>1. /\ pc \in [Workers -> Stages] /\ DOMAIN job = Workers
        /\ pc' = [pc EXCEPT ![w] = "idle"] /\ job' = [job EXCEPT ![w] = NoJob]
    BY DEF IInv, Shapes, Finish, Goto
  <1>2. \A x \in Workers : /\ pc'[x] = IF x = w THEN "idle" ELSE pc[x]
                           /\ x # w => job'[x] = job[x]
    BY <1>1
  <1>3. pc' \in [Workers -> Stages] /\ DOMAIN job' = Workers
    BY <1>1 DEF Stages
  <1>4. "idle" \notin Working \union {"expired"}
    BY DEF Working
  <1>5. Busy' = Busy \ {w}
    BY <1>2, <1>4 DEF Busy
  <1> QED
    BY <1>2, <1>3, <1>4, <1>5 DEF IInv, Shapes

\* A finished command has left the invariant as it was.
LEMMA DoneKeeps ==
    ASSUME IInv, NEW w \in Workers, Finish(w), UNCHANGED <<rows, begun, completions>>
    PROVE  Counts' /\ Writers'
  BY IsDone, NoMoreBusy, NobodyWrites

\* Creating the game (gameService.go, CreateGame).
LEMMA CreateInv ==
    ASSUME IInv, NEW w \in Workers, AnnounceGame(w) \/ StartTimer(w)
    PROVE  IInv'
  <1>1. CASE AnnounceGame(w)
    <2>1. /\ pc' = [pc EXCEPT ![w] = "startTimer"] /\ pc \in [Workers -> Stages]
          /\ pc[w] = "announce" /\ announced' = TRUE
          /\ UNCHANGED <<rows, proj, clock, feed, completions, job, begun, faults, restarts>>
      BY <1>1 DEF AnnounceGame, Goto, IInv, Shapes
    <2>2. \A x \in Workers : pc'[x] = IF x = w THEN "startTimer" ELSE pc[x]
      BY <2>1
    <2>3. pc' \in [Workers -> Stages]
      BY <2>1 DEF Stages
    <2>4. Busy' \subseteq Busy
      BY <2>2 DEF Busy, Working
    <2>5. Counts'
      BY <2>1, <2>4, NoMoreBusy
    <2>6. Writers'
      BY <2>1, <2>2, NobodyWrites
    <2>7. Shapes'
      BY <2>1, <2>2, <2>3 DEF IInv, Shapes, Working
    <2> QED
      BY <2>5, <2>6, <2>7 DEF IInv
  <1>2. CASE StartTimer(w)
    <2>1. /\ Finish(w) /\ clock' = [on |-> TRUE, seat |-> 0]
          /\ UNCHANGED <<rows, proj, feed, announced, completions, begun, faults, restarts>>
      BY <1>2 DEF StartTimer
    <2>2. clock' \in [on : BOOLEAN, seat : Seats]
      BY <2>1 DEF Seats
    <2>3. Counts' /\ Writers'
      BY <2>1, DoneKeeps
    <2>4. Shapes'
      BY <2>1, <2>2, IsDone DEF IInv, Shapes
    <2> QED
      BY <2>3, <2>4 DEF IInv
  <1> QED
    BY <1>1, <1>2

\* A command loads, validates and applies (gameService.go, MakeMove,
\* ForfeitGame).
LEMMA BeginInv ==
    ASSUME IInv, NEW w \in Workers,
           (\E move \in Moves : BeginMove(w, move)) \/ (\E u \in Users : BeginForfeit(w, u))
    PROVE  IInv'
  <1>1. ASSUME NEW move \in Moves, BeginMove(w, move) PROVE IInv'
    <2>1. PICK g \in LoadedFrom(rows) :
             /\ validateMove(g, move)
             /\ Accept(w, "move", g, ApplyMove(g, move), MoveEvents(g, move))
      BY <1>1 DEF BeginMove
    <2> DEFINE evts == MoveEvents(g, move)
               after == ApplyMove(g, move)
    <2>2. /\ Start(w) /\ UNCHANGED <<rows, proj, clock, feed, announced, completions,
                                     faults, restarts>>
      BY <1>1 DEF BeginMove
    <2>3. Told(g, Said(rows))
      BY LoadedGame DEF IInv, Writers
    <2>4. isEdgeAvailable(g.edges, move.cell, move.side)
      BY <2>1 DEF validateMove
    <2>5. /\ evts \in Seq(Events)
          /\ Told(after, Said(rows) \union SaidBy(evts))
          /\ \A e \in SaidBy(evts) : /\ Fresh(e, Said(rows))
                                     /\ Backed(e, Said(rows) \union SaidBy(evts))
      BY <2>3, <2>4, MoveTells
    <2>6. Accept(w, "move", g, after, evts)
      BY <2>1
    <2> HIDE DEF evts, after
    <2>7. Shapes' /\ Writers' /\ pc' = [pc EXCEPT ![w] = "append"]
      BY <2>2, <2>5, <2>6, AcceptKeeps
    <2>8. Counts'
      BY <2>2, <2>7, OneMoreBusy DEF Working
    <2> QED
      BY <2>7, <2>8 DEF IInv
  <1>2. ASSUME NEW u \in Users, BeginForfeit(w, u) PROVE IInv'
    <2>1. PICK g \in LoadedFrom(rows) :
             Accept(w, "forfeit", g, Forfeit(g, u), ForfeitEvents(g, u))
      BY <1>2 DEF BeginForfeit
    <2> DEFINE evts == ForfeitEvents(g, u)
               after == Forfeit(g, u)
    <2>2. /\ Start(w) /\ UNCHANGED <<rows, proj, clock, feed, announced, completions,
                                     faults, restarts>>
      BY <1>2 DEF BeginForfeit
    <2>3. Told(g, Said(rows))
      BY LoadedGame DEF IInv, Writers
    <2>4. /\ evts \in Seq(Events)
          /\ Told(after, Said(rows) \union SaidBy(evts))
          /\ \A e \in SaidBy(evts) : /\ Fresh(e, Said(rows))
                                     /\ Backed(e, Said(rows) \union SaidBy(evts))
      BY <2>3, ForfeitTells
    <2>5. Accept(w, "forfeit", g, after, evts)
      BY <2>1
    <2> HIDE DEF evts, after
    <2>6. Shapes' /\ Writers' /\ pc' = [pc EXCEPT ![w] = "append"]
      BY <2>2, <2>4, <2>5, AcceptKeeps
    <2>7. Counts'
      BY <2>2, <2>6, OneMoreBusy DEF Working
    <2> QED
      BY <2>6, <2>7 DEF IInv
  <1> QED
    BY <1>1, <1>2

\* The clock's goroutine finds the deadline passed, and passes the turn
\* (gameTimerService.go, checkExpired; gameService.go, PassTurnOnTimeout).
LEMMA ExpiryInv ==
    ASSUME IInv, NEW w \in Workers, TickExpired(w) \/ BeginPass(w)
    PROVE  IInv'
  <1>1. CASE TickExpired(w)
    <2>1. /\ Start(w) /\ pc' = [pc EXCEPT ![w] = "expired"] /\ pc \in [Workers -> Stages]
          /\ job' = [job EXCEPT ![w] = [op |-> "pass"]] /\ DOMAIN job = Workers
          /\ UNCHANGED <<rows, proj, clock, feed, announced, completions, faults, restarts>>
      BY <1>1 DEF TickExpired, Goto, IInv, Shapes
    <2>2. \A x \in Workers : /\ pc'[x] = IF x = w THEN "expired" ELSE pc[x]
                             /\ x # w => job'[x] = job[x]
      BY <2>1
    <2>3. pc' \in [Workers -> Stages] /\ DOMAIN job' = Workers
      BY <2>1 DEF Stages
    <2>4. Counts'
      BY <2>1, OneMoreBusy
    <2>5. Writers'
      BY <2>1, <2>2, NobodyWrites
    <2>6. Shapes'
      BY <2>1, <2>2, <2>3 DEF IInv, Shapes, Working
    <2> QED
      BY <2>4, <2>5, <2>6 DEF IInv
  <1>2. CASE BeginPass(w)
    <2>1. PICK g \in LoadedFrom(rows) :
             IF g.ended THEN Finish(w)
             ELSE Accept(w, "pass", g, PassTurnOnTimeout(g), TimeoutEvents(g))
      BY <1>2 DEF BeginPass
    <2>2. /\ pc[w] = "expired"
          /\ UNCHANGED <<rows, proj, clock, feed, announced, completions,
                         begun, faults, restarts>>
      BY <1>2 DEF BeginPass
    <2>3. CASE g.ended
      <3>1. Finish(w)
        BY <2>1, <2>3
      <3>2. Counts' /\ Writers'
        BY <2>2, <3>1, DoneKeeps
      <3>3. Shapes'
        BY <2>2, <3>1, IsDone DEF IInv, Shapes
      <3> QED
        BY <3>2, <3>3 DEF IInv
    <2>4. CASE ~g.ended
      <3> DEFINE evts == TimeoutEvents(g)
                 after == PassTurnOnTimeout(g)
      <3>1. Told(g, Said(rows))
        BY LoadedGame DEF IInv, Writers
      <3>2. /\ evts \in Seq(Events)
            /\ Told(after, Said(rows) \union SaidBy(evts))
            /\ \A e \in SaidBy(evts) : /\ Fresh(e, Said(rows))
                                       /\ Backed(e, Said(rows) \union SaidBy(evts))
        BY <3>1, PassTells
      <3>3. Accept(w, "pass", g, after, evts)
        BY <2>1, <2>4
      <3> HIDE DEF evts, after
      <3>4. Shapes' /\ Writers' /\ pc' = [pc EXCEPT ![w] = "append"]
        BY <2>2, <3>2, <3>3, AcceptKeeps
      <3>5. Busy' \subseteq Busy
        <4>1. pc \in [Workers -> Stages]
          BY DEF IInv, Shapes
        <4> QED
          BY <2>2, <3>4, <4>1 DEF Busy
      <3>6. Counts'
        BY <2>2, <3>5, NoMoreBusy
      <3> QED
        BY <3>4, <3>6 DEF IInv
    <2> QED
      BY <2>3, <2>4
  <1> QED
    BY <1>1, <1>2

\* The batch is committed, or the transaction fails (pgGameRepository.go,
\* AppendEvents).
LEMMA AppendInv ==
    ASSUME IInv, NEW w \in Workers, AppendEvents(w) \/ AppendFails(w)
    PROVE  IInv'
  <1>1. CASE AppendEvents(w)
    <2>1. /\ pc[w] = "append" /\ rows' = rows \o NewRows(job[w].seen, job[w].events)
          /\ pc' = [pc EXCEPT ![w] = "project"] /\ pc \in [Workers -> Stages]
          /\ UNCHANGED <<proj, clock, feed, announced, completions, job,
                         begun, faults, restarts>>
      BY <1>1 DEF AppendEvents, Goto, IInv, Shapes
    <2>2. pc[w] \in Working /\ "project" \in Working \ {"append"}
      BY <2>1 DEF Working
    <2>3. /\ pc' \in [Workers -> Stages]
          /\ \A x \in Workers : pc'[x] \in Working => job'[x].game \in Games
          /\ \A x \in Workers : pc'[x] = "append" => pc[x] = "append" /\ job'[x] = job[x]
          /\ Counts'
      BY <2>1, <2>2, MovesOn
    <2>4. Sound(rows) /\ Batch(rows, job[w].seen, job[w].events)
      BY <2>1 DEF IInv, Writers
    <2>5. /\ Sound(rows')
          /\ Said(rows') = Said(rows) \union SaidBy(job[w].events)
          /\ Len(rows') = Len(rows) + Len(job[w].events)
          /\ \A i \in 1 .. Len(rows) : rows'[i] = rows[i]
      BY <2>1, <2>4, AppendKeepsSound
    <2>6. Len(rows) <= Len(rows')
      <3>1. Len(rows) \in Nat
        BY <2>4, LogRows DEF Sound
      <3>2. Len(job[w].events) \in Nat
        <4>1. job[w].events \in Seq(Events)
          BY <2>4 DEF Batch
        <4> HIDE DEF Events
        <4> QED
          BY <4>1
      <3> QED
        BY <2>5, <3>1, <3>2
    <2>7. ASSUME NEW x \in Workers, pc'[x] = "append"
          PROVE  Batch(rows', job'[x].seen, job'[x].events)
      <3>1. Batch(rows, job[x].seen, job[x].events) /\ job'[x] = job[x]
        BY <2>3, <2>7 DEF IInv, Writers
      <3>2. Said(rows) \subseteq Said(rows')
        BY <2>5
      <3> QED
        BY <2>4, <2>5, <2>6, <3>1, <3>2, BatchStays
    <2>8. Writers'
      BY <2>5, <2>7 DEF Writers
    <2>9. Shapes'
      BY <2>1, <2>3 DEF IInv, Shapes
    <2> QED
      BY <2>3, <2>8, <2>9 DEF IInv
  <1>2. CASE AppendFails(w)
    <2>1. /\ Finish(w) /\ Fault
          /\ UNCHANGED <<rows, proj, clock, feed, announced, completions, begun, restarts>>
      BY <1>2 DEF AppendFails
    <2>2. Counts' /\ Writers'
      BY <2>1, DoneKeeps
    <2>3. Shapes'
      BY <2>1, IsDone, BoundsAssumption DEF IInv, Shapes, Fault, BoundsAssumption
    <2> QED
      BY <2>2, <2>3 DEF IInv
  <1> QED
    BY <1>1, <1>2

\* The projection is updated, or its error logged (gameService.go, the three
\* commands after AppendEvents).
LEMMA ProjectInv ==
    ASSUME IInv, NEW w \in Workers, UpdateProjection(w) \/ UpdateProjectionFails(w)
    PROVE  IInv'
  <1> DEFINE stage == AfterProjection(w)
  <1>1. /\ pc[w] = "project" /\ pc' = [pc EXCEPT ![w] = stage]
        /\ UNCHANGED <<rows, clock, feed, announced, completions, job, begun, restarts>>
    BY DEF UpdateProjection, UpdateProjectionFails, Goto
  <1>2. pc[w] \in Working /\ stage \in Working \ {"append"}
    BY <1>1 DEF Working, AfterProjection
  <1> HIDE DEF stage
  <1>3. /\ pc' \in [Workers -> Stages]
        /\ \A x \in Workers : pc'[x] \in Working => job'[x].game \in Games
        /\ \A x \in Workers : pc'[x] = "append" => pc[x] = "append" /\ job'[x] = job[x]
        /\ Counts'
    BY <1>1, <1>2, MovesOn
  <1>4. Writers'
    BY <1>1, <1>3, NobodyWrites
  <1>5. job[w].game \in Games
    BY <1>2 DEF IInv, Shapes
  <1>6. /\ proj' \in [turn : Seats, winner : Seats \union {NoSeat}, ended : BOOLEAN,
                      score : [Seats -> Nat]]
        /\ faults' \in 0 .. MaxFaults
    <2>1. CASE UpdateProjection(w)
      BY <1>5, <2>1, ProjectionTyped DEF UpdateProjection, IInv, Shapes
    <2>2. CASE UpdateProjectionFails(w)
      BY <2>2, BoundsAssumption
         DEF UpdateProjectionFails, Fault, IInv, Shapes, BoundsAssumption
    <2> QED
      BY <2>1, <2>2
  <1>7. Shapes'
    BY <1>1, <1>3, <1>6 DEF IInv, Shapes
  <1> QED
    BY <1>3, <1>4, <1>7 DEF IInv

\* The turn clock is switched or stopped (gameTimerService.go, SwitchTurn,
\* StopTimer).
LEMMA ClockInv ==
    ASSUME IInv, NEW w \in Workers, SwitchTurn(w) \/ StopTimer(w)
    PROVE  IInv'
  <1>1. PICK stage \in Working \ {"append"} :
           /\ pc[w] \in Working /\ pc' = [pc EXCEPT ![w] = stage]
    BY DEF SwitchTurn, StopTimer, Goto, Working
  <1>2. UNCHANGED <<rows, proj, feed, announced, completions, job, begun, faults, restarts>>
    BY DEF SwitchTurn, StopTimer
  <1>3. /\ pc' \in [Workers -> Stages]
        /\ \A x \in Workers : pc'[x] \in Working => job'[x].game \in Games
        /\ \A x \in Workers : pc'[x] = "append" => pc[x] = "append" /\ job'[x] = job[x]
        /\ Counts'
    BY <1>1, <1>2, MovesOn
  <1>4. Writers'
    BY <1>2, <1>3, NobodyWrites
  <1>5. job[w].game.turn \in Seats /\ clock \in [on : BOOLEAN, seat : Seats]
    BY <1>1 DEF IInv, Shapes, Games
  <1>6. clock' \in [on : BOOLEAN, seat : Seats]
    <2>1. CASE SwitchTurn(w)
      BY <1>5, <2>1 DEF SwitchTurn
    <2>2. CASE StopTimer(w)
      BY <1>5, <2>2 DEF StopTimer
    <2> QED
      BY <2>1, <2>2
  <1>7. Shapes'
    BY <1>2, <1>3, <1>6 DEF IInv, Shapes
  <1> QED
    BY <1>3, <1>4, <1>7 DEF IInv

\* The new state is published, or not, and the goroutine goes on if the game is
\* over (gameService.go, publishGameState).
LEMMA PublishInv ==
    ASSUME IInv, NEW w \in Workers, PublishState(w) \/ PublishStateFails(w)
    PROVE  IInv'
  <1>1. /\ pc[w] = "publish" /\ AfterPublish(w)
        /\ UNCHANGED <<rows, proj, clock, announced, completions, begun, restarts>>
    BY DEF PublishState, PublishStateFails
  <1>2. pc[w] \in Working /\ job[w].game \in Games
    BY <1>1 DEF Working, IInv, Shapes
  <1>3. feed' \in Games /\ faults' \in 0 .. MaxFaults
    <2>1. CASE PublishState(w)
      BY <1>2, <2>1 DEF PublishState, IInv, Shapes
    <2>2. CASE PublishStateFails(w)
      BY <2>2, BoundsAssumption
         DEF PublishStateFails, Fault, IInv, Shapes, BoundsAssumption
    <2> QED
      BY <2>1, <2>2
  <1>4. CASE ~job[w].game.ended
    <2>1. Finish(w)
      BY <1>1, <1>4 DEF AfterPublish
    <2>2. Counts' /\ Writers'
      BY <1>1, <2>1, DoneKeeps
    <2>3. Shapes'
      BY <1>1, <1>3, <2>1, IsDone DEF IInv, Shapes
    <2> QED
      BY <2>2, <2>3 DEF IInv
  <1>5. CASE job[w].game.ended
    <2>1. PICK stage \in Working \ {"append"} : pc' = [pc EXCEPT ![w] = stage]
      BY <1>1, <1>5 DEF AfterPublish, Goto, Working
    <2>2. UNCHANGED job
      BY <1>1, <1>5 DEF AfterPublish
    <2>3. /\ pc' \in [Workers -> Stages]
          /\ \A x \in Workers : pc'[x] \in Working => job'[x].game \in Games
          /\ \A x \in Workers : pc'[x] = "append" => pc[x] = "append" /\ job'[x] = job[x]
          /\ Counts'
      BY <1>1, <1>2, <2>1, <2>2, MovesOn
    <2>4. Writers'
      BY <1>1, <2>3, NobodyWrites
    <2>5. Shapes'
      BY <1>1, <1>3, <2>2, <2>3 DEF IInv, Shapes
    <2> QED
      BY <2>3, <2>4, <2>5 DEF IInv
  <1> QED
    BY <1>4, <1>5

\* The end is announced, or not (gameService.go, publishGameCompleted).
LEMMA CompleteInv ==
    ASSUME IInv, NEW w \in Workers, PublishCompleted(w) \/ PublishCompletedFails(w)
    PROVE  IInv'
  <1>1. /\ pc[w] = "complete" /\ Finish(w)
        /\ UNCHANGED <<rows, proj, clock, feed, announced, begun, restarts>>
    BY DEF PublishCompleted, PublishCompletedFails
  <1>2. Writers'
    BY <1>1, IsDone, NobodyWrites
  <1>3. faults' \in 0 .. MaxFaults
    BY BoundsAssumption
       DEF PublishCompleted, PublishCompletedFails, Fault, IInv, Shapes, BoundsAssumption
  <1>4. Shapes'
    BY <1>1, <1>3, IsDone DEF IInv, Shapes
  <1>5. completions' \in {completions, completions + 1}
    BY DEF PublishCompleted, PublishCompletedFails
  <1>6. Counts'
    <2>1. /\ begun \in 0 .. MaxRequests /\ completions \in Nat /\ IsFiniteSet(Busy)
          /\ completions + Cardinality(Busy) <= begun
      BY DEF IInv, Counts
    <2>2. w \in Busy /\ Busy' = Busy \ {w}
      BY <1>1, IsDone DEF Busy, Working
    <2>3. /\ IsFiniteSet(Busy \ {w}) /\ Cardinality(Busy) \in Nat
          /\ Cardinality(Busy \ {w}) = Cardinality(Busy) - 1
      BY <2>1, <2>2, FS_RemoveElement, FS_CardinalityType
    <2> QED
      BY <1>1, <1>5, <2>1, <2>2, <2>3, BoundsAssumption DEF Counts, BoundsAssumption
  <1> QED
    BY <1>2, <1>4, <1>6 DEF IInv

\* The process dies: the rows stay, the goroutines go (gameTimerService.go keeps
\* its timers in memory).
LEMMA RestartInv ==
    ASSUME IInv, Restart
    PROVE  IInv'
  <1>1. /\ pc' = [w \in Workers |-> "idle"] /\ job' = [w \in Workers |-> NoJob]
        /\ clock' = [clock EXCEPT !.on = FALSE]
        /\ restarts < MaxRestarts /\ restarts' = restarts + 1
        /\ UNCHANGED <<rows, proj, feed, announced, completions, begun, faults>>
    BY DEF Restart
  <1>2. \A w \in Workers : pc'[w] \notin Working \union {"expired"} /\ pc'[w] # "append"
    BY <1>1 DEF Working
  <1>3. Writers'
    BY <1>1, <1>2, NobodyWrites
  <1>4. Busy' \subseteq Busy
    BY <1>2 DEF Busy
  <1>5. Counts'
    BY <1>1, <1>4, NoMoreBusy
  <1>6. Shapes'
    <2>1. pc' \in [Workers -> Stages] /\ DOMAIN job' = Workers
      BY <1>1 DEF Stages
    <2>2. clock' \in [on : BOOLEAN, seat : Seats]
      BY <1>1 DEF IInv, Shapes
    <2>3. restarts' \in 0 .. MaxRestarts
      BY <1>1, BoundsAssumption DEF IInv, Shapes, BoundsAssumption
    <2> QED
      BY <1>1, <1>2, <2>1, <2>2, <2>3 DEF IInv, Shapes
  <1> QED
    BY <1>3, <1>5, <1>6 DEF IInv

\* Nothing happens.
LEMMA StutterInv ==
    ASSUME IInv, UNCHANGED vars
    PROVE  IInv'
  <1>1. Busy' = Busy
    BY DEF vars, Busy
  <1> QED
    BY <1>1 DEF vars, IInv, Shapes, Counts, Writers

\* Every state of every behaviour satisfies the inductive invariant.
THEOREM Invariance == Spec => []IInv
  <1>1. IInv /\ [Next]_vars => IInv'
    <2> SUFFICES ASSUME IInv, [Next]_vars PROVE IInv'
      OBVIOUS
    <2>1. ASSUME NEW w \in Workers, Work(w) PROVE IInv'
      BY <2>1, CreateInv, ExpiryInv, AppendInv, ProjectInv, ClockInv, PublishInv, CompleteInv
         DEF Work
    <2>2. ASSUME NEW w \in Workers,
                 \/ \E move \in Moves : BeginMove(w, move)
                 \/ \E u \in Users : BeginForfeit(w, u)
          PROVE  IInv'
      BY <2>2, BeginInv
    <2>3. ASSUME NEW w \in Workers, TickExpired(w) PROVE IInv'
      BY <2>3, ExpiryInv
    <2>4. CASE Restart
      BY <2>4, RestartInv
    <2>5. CASE UNCHANGED vars
      BY <2>5, StutterInv
    <2> QED
      BY <2>1, <2>2, <2>3, <2>4, <2>5 DEF Next
  <1> QED
    BY <1>1, InitInv, PTL DEF Spec

------------------------------------------------------------------------------
(* The results.                                                            *)

\* Tables, clock, feed and goroutines keep their types, and there are never more
\* completions than commands (gameService.go).
THEOREM TypeCorrect == Spec => []TypeOK
  <1>1. IInv => TypeOK
    <2> SUFFICES ASSUME IInv PROVE TypeOK
      OBVIOUS
    <2>1. \A i \in DOMAIN rows : rows[i].version \in 1 .. Len(rows)
      <3>1. /\ Len(rows) \in Nat /\ DOMAIN rows = 1 .. Len(rows)
            /\ \A i \in 1 .. Len(rows) : /\ rows[i].version \in Nat
                                         /\ 1 <= rows[i].version /\ rows[i].version <= i
        BY LogRows DEF IInv, Writers, Sound
      <3> QED
        BY <3>1
    <2>2. completions \in 0 .. MaxRequests
      <3>1. Cardinality(Busy) \in Nat
        BY FS_CardinalityType DEF IInv, Counts
      <3> QED
        BY <3>1, BoundsAssumption DEF IInv, Counts, BoundsAssumption
    <2> QED
      BY <2>1, <2>2 DEF TypeOK, IInv, Shapes, Counts
  <1> QED
    BY <1>1, Invariance, PTL

\* However many requests race, fail or die half-way, no replay of the log shows
\* an owned box with a missing side (pgGameRepository.go, AppendEvents).
THEOREM OwnedAreComplete == Spec => []OwnedImpliesComplete
  <1>1. IInv => OwnedImpliesComplete
    <2> SUFFICES ASSUME IInv, NEW g \in LoadedFrom(rows), NEW cell \in Cells,
                        g.owner[cell] # NoSeat
                 PROVE  g.edges[cell] = Sides
      BY DEF OwnedImpliesComplete
    <2>1. Told(g, Said(rows)) /\ g \in Games
      BY LoadedGame DEF IInv, Writers
    <2>2. PICK i \in DOMAIN rows : Claims(rows[i].event, cell)
      BY <2>1 DEF Told, Said
    <2>3. \A side \in Sides : \E d \in Said(rows) : Draws(d, cell, side)
      <3>1. Backed(rows[i].event, Said(rows))
        BY DEF IInv, Writers, Sound
      <3> QED
        BY <2>2, <3>1 DEF Backed, Claims
    <2>4. \A side \in Sides : side \in g.edges[cell]
      BY <2>1, <2>3 DEF Told
    <2>5. g.edges[cell] \subseteq Sides
      BY <2>1 DEF Games
    <2> QED
      BY <2>4, <2>5
  <1> QED
    BY <1>1, Invariance, PTL

\* A GameEnded row never comes from a race: every replay of a log that has one
\* owns all boxes (game.go, ApplyMove).
THEOREM EndedAreFull == Spec => []EndedImpliesFull
  <1>1. IInv => EndedImpliesFull
    <2> SUFFICES ASSUME IInv, NEW i \in DOMAIN rows, rows[i].event.type = "GameEnded",
                        NEW g \in LoadedFrom(rows), NEW cell \in Cells
                 PROVE  g.owner[cell] # NoSeat
      BY DEF EndedImpliesFull
    <2>1. Told(g, Said(rows))
      BY LoadedGame DEF IInv, Writers
    <2>2. \E d \in Said(rows) : Claims(d, cell)
      <3>1. Backed(rows[i].event, Said(rows))
        BY DEF IInv, Writers, Sound
      <3> QED
        BY <3>1 DEF Backed
    <2> QED
      BY <2>1, <2>2 DEF Told
  <1> QED
    BY <1>1, Invariance, PTL

\* Requests that do not overlap never write one version twice or draw one line
\* twice, whatever the others do (pgGameRepository.go, AppendEvents).
THEOREM OnlyOverlapsClash == Spec => []ClashImpliesOverlap
  <1>1. IInv => ClashImpliesOverlap
    <2> SUFFICES ASSUME IInv, NEW i \in DOMAIN rows, NEW j \in DOMAIN rows, i < j,
                        \/ rows[i].version = rows[j].version
                        \/ IsMove(i) /\ IsMove(j) /\ SameLine(rows[i].event, rows[j].event)
                 PROVE  rows[j].seen < i
      BY DEF ClashImpliesOverlap
    <2>1. /\ Len(rows) \in Nat /\ DOMAIN rows = 1 .. Len(rows)
          /\ \A k \in 1 .. Len(rows) : /\ rows[k].version \in Nat /\ rows[k].seen \in Nat
                                       /\ rows[k].seen < rows[k].version
                                       /\ rows[k].version <= k
      BY LogRows DEF IInv, Writers, Sound
    <2>2. i \in 1 .. Len(rows) /\ j \in 2 .. Len(rows) /\ j \in 1 .. Len(rows)
      BY <2>1
    <2>3. CASE rows[i].version = rows[j].version
      BY <2>1, <2>2, <2>3
    <2>4. CASE IsMove(i) /\ IsMove(j) /\ SameLine(rows[i].event, rows[j].event)
      <3> SUFFICES ASSUME i <= rows[j].seen PROVE FALSE
        BY <2>1, <2>2
      <3>1. Fresh(rows[j].event, SaidFirst(rows, rows[j].seen))
        BY <2>2 DEF IInv, Writers, Sound
      <3>2. rows[i].event \in SaidFirst(rows, rows[j].seen)
        <4>1. i \in 1 .. rows[j].seen
          BY <2>1, <2>2
        <4> QED
          BY <4>1 DEF SaidFirst
      <3>3. Draws(rows[i].event, rows[j].event.cell, rows[j].event.side)
        BY <2>4 DEF IsMove, SameLine, Draws
      <3> QED
        BY <2>4, <3>1, <3>2, <3>3 DEF Fresh, IsMove
    <2> QED
      BY <2>3, <2>4
  <1> QED
    BY <1>1, Invariance, PTL

\* Nothing gets past the checks once an ending is committed (gameService.go,
\* ForfeitGame, PassTurnOnTimeout; game.go, validateMove).
THEOREM FinishedIsFinished == Spec => FinishedTakesNoCommand
  <1>1. IInv /\ [Next]_vars
           => [(\E i \in DOMAIN rows : IsEnding(i))
                 => \A w \in Workers : pc'[w] = "append" => pc[w] = "append"]_vars
    <2> SUFFICES ASSUME IInv, Next, NEW i \in DOMAIN rows, IsEnding(i),
                        NEW x \in Workers, pc'[x] = "append"
                 PROVE  pc[x] = "append"
      BY DEF vars
    <2>1. pc \in [Workers -> Stages]
      BY DEF IInv, Shapes
    <2>2. \A g \in LoadedFrom(rows) : g.ended
      <3> SUFFICES ASSUME NEW g \in LoadedFrom(rows) PROVE g.ended
        OBVIOUS
      <3>1. Told(g, Said(rows))
        BY LoadedGame DEF IInv, Writers
      <3>2. Ends(rows[i].event) /\ rows[i].event \in Said(rows)
        BY DEF IsEnding, Ends, Said
      <3> QED
        BY <3>1, <3>2 DEF Told
    <2>3. ASSUME NEW w \in Workers,
                 \/ \E move \in Moves : BeginMove(w, move)
                 \/ \E u \in Users : BeginForfeit(w, u)
          PROVE  FALSE
      BY <2>2, <2>3 DEF BeginMove, BeginForfeit, validateMove
    <2>4. ASSUME NEW w \in Workers, BeginPass(w) PROVE Finish(w)
      BY <2>2, <2>4 DEF BeginPass
    <2>5. ASSUME NEW w \in Workers, NEW stage \in Stages \ {"append"},
                 pc' = [pc EXCEPT ![w] = stage]
          PROVE  pc[x] = "append"
      BY <2>1, <2>5
    <2>6. ASSUME NEW w \in Workers, Finish(w) PROVE pc[x] = "append"
      BY <2>5, <2>6 DEF Finish, Goto, Stages
    <2>7. ASSUME NEW w \in Workers, Work(w) PROVE pc[x] = "append"
      <3>1. CASE AnnounceGame(w)
        BY <2>5, <3>1 DEF AnnounceGame, Goto, Stages
      <3>2. CASE StartTimer(w) \/ AppendFails(w) \/ PublishCompleted(w) \/ PublishCompletedFails(w)
        BY <2>6, <3>2 DEF StartTimer, AppendFails, PublishCompleted, PublishCompletedFails
      <3>3. CASE BeginPass(w)
        BY <2>4, <2>6, <3>3
      <3>4. CASE AppendEvents(w)
        BY <2>5, <3>4 DEF AppendEvents, Goto, Stages
      <3>5. CASE UpdateProjection(w) \/ UpdateProjectionFails(w)
        BY <2>5, <3>5 DEF UpdateProjection, UpdateProjectionFails, AfterProjection, Goto, Stages
      <3>6. CASE SwitchTurn(w) \/ StopTimer(w)
        BY <2>5, <3>6 DEF SwitchTurn, StopTimer, Goto, Stages
      <3>7. CASE PublishState(w) \/ PublishStateFails(w)
        BY <2>5, <2>6, <3>7 DEF PublishState, PublishStateFails, AfterPublish, Goto, Stages
      <3> QED
        BY <2>7, <3>1, <3>2, <3>3, <3>4, <3>5, <3>6, <3>7 DEF Work
    <2>8. ASSUME NEW w \in Workers, TickExpired(w) PROVE pc[x] = "append"
      BY <2>5, <2>8 DEF TickExpired, Goto, Stages
    <2>9. CASE Restart
      BY <2>9 DEF Restart
    <2> QED
      BY <2>3, <2>7, <2>8, <2>9 DEF Next
  <1> QED
    BY <1>1, Invariance, PTL DEF Spec, FinishedTakesNoCommand

------------------------------------------------------------------------------
(* The rules, as the lemmas about one game state them.                     *)

\* The board, the games and the counting of boxes are the same.
LEMMA SameBoard ==
    /\ Aggregate!BoardSizeAssumption /\ Aggregate!NumPlayersAssumption
    /\ Aggregate!NamesAssumption
    /\ Aggregate!Cells = Cells /\ Aggregate!Sides = Sides /\ Aggregate!Seats = Seats
    /\ Aggregate!Games = Games /\ Aggregate!Moves = Moves
    /\ \A g : Aggregate!Counted(g) <=> Counted(g)
  <1>1. /\ Aggregate!Cells = Cells /\ Aggregate!Sides = Sides /\ Aggregate!Seats = Seats
    BY DEF Aggregate!Cells, Cells, Aggregate!Lines, Lines, Aggregate!Sides, Sides,
           Aggregate!Seats, Seats
  <1>2. /\ Aggregate!BoardSizeAssumption /\ Aggregate!NumPlayersAssumption
        /\ Aggregate!NamesAssumption
    BY <1>1 DEF Aggregate!BoardSizeAssumption, Aggregate!NumPlayersAssumption,
                Aggregate!NamesAssumption
  <1>3. Aggregate!Games = Games /\ Aggregate!Moves = Moves
    BY <1>1 DEF Aggregate!Games, Games, Aggregate!Moves, Moves
  <1>4. \A g : Aggregate!Counted(g) <=> Counted(g)
    <2>1. \A S : Aggregate!Cardinality(S) = Cardinality(S)
      BY Zenon DEF Aggregate!Cardinality, Cardinality
    <2> QED
      BY <1>1, <2>1 DEF Aggregate!Counted, Counted, Aggregate!BoxesOf, BoxesOf
  <1> QED
    BY <1>1, <1>2, <1>3, <1>4

\* So is the effect of a move (game.go, ApplyMove).
LEMMA SameMove ==
    ASSUME NEW g, NEW move
    PROVE  Aggregate!ApplyMove(g, move) = ApplyMove(g, move)
  <1>1. \A cell, side : Aggregate!getAdjacentBox(cell, side) = getAdjacentBox(cell, side)
    BY DEF Aggregate!getAdjacentBox, getAdjacentBox
  <1>2. \A side : Aggregate!Opposite(side) = Opposite(side)
    BY DEF Aggregate!Opposite, Opposite
  <1>3. \A grid, cell, side : Aggregate!setEdge(grid, cell, side) = setEdge(grid, cell, side)
    BY <1>1, <1>2, SameBoard DEF Aggregate!setEdge, setEdge
  <1>4. Aggregate!drawn(g, move) = drawn(g, move)
    BY <1>3 DEF Aggregate!drawn, drawn, Aggregate!drawEdge, drawEdge
  <1>5. \A x, box : Aggregate!findCompletableBox(x, box) <=> findCompletableBox(x, box)
    BY SameBoard DEF Aggregate!findCompletableBox, findCompletableBox,
                     Aggregate!isBoxComplete, isBoxComplete
  <1>6. /\ Aggregate!ownCompleted(g, move) <=> ownCompleted(g, move)
        /\ Aggregate!adjacentCompleted(g, move) <=> adjacentCompleted(g, move)
    BY <1>1, <1>4, <1>5 DEF Aggregate!ownCompleted, ownCompleted,
                            Aggregate!adjacentCompleted, adjacentCompleted
  <1>7. \A x, box, p : Aggregate!claimBox(x, box, p) = claimBox(x, box, p)
    BY DEF Aggregate!claimBox, claimBox
  <1>8. Aggregate!ownClaimed(g, move) = ownClaimed(g, move)
    BY <1>4, <1>6, <1>7 DEF Aggregate!ownClaimed, ownClaimed
  <1>9. Aggregate!boxesClaimed(g, move) = boxesClaimed(g, move)
    BY <1>1, <1>6, <1>7, <1>8 DEF Aggregate!boxesClaimed, boxesClaimed
  <1>10. /\ Aggregate!completedNone(g, move) <=> completedNone(g, move)
         /\ Aggregate!nextSeat(g) = nextSeat(g)
    BY <1>6 DEF Aggregate!completedNone, completedNone, Aggregate!nextSeat, nextSeat
  <1>11. Aggregate!turnSettled(g, move) = turnSettled(g, move)
    BY <1>9, <1>10 DEF Aggregate!turnSettled, turnSettled, Aggregate!passTurn, passTurn
  <1>12. \A x : /\ Aggregate!isGameOver(x) <=> isGameOver(x)
                /\ Aggregate!determineWinner(x) = determineWinner(x)
    BY SameBoard DEF Aggregate!isGameOver, isGameOver, Aggregate!determineWinner,
                     determineWinner, Aggregate!firstLeader, firstLeader
  <1>13. \A x : Aggregate!endIfFull(x) = endIfFull(x)
    BY <1>12 DEF Aggregate!endIfFull, endIfFull, Aggregate!endGame, endGame
  <1> QED
    BY <1>11, <1>13 DEF Aggregate!ApplyMove, ApplyMove

\* A game whose scores are right.
Balanced(g) == g \in Games /\ Counted(g)

\* A move counts the boxes it gives away (game.go, applyEvent).
LEMMA MoveBalanced ==
    ASSUME NEW g, Balanced(g), NEW move \in Moves
    PROVE  Balanced(ApplyMove(g, move))
  <1>1. LET h == Aggregate!ApplyMove(g, move)
        IN  h \in Aggregate!Games /\ (Aggregate!Counted(g) => Aggregate!Counted(h))
    BY SameBoard, Aggregate!ApplyMoveFields DEF Balanced
  <1> QED
    BY <1>1, SameBoard, SameMove DEF Balanced

\* Passing the turn and ending the game leave the scores alone (game.go,
\* PassTurnOnTimeout, Forfeit).
LEMMA OthersBalanced ==
    ASSUME NEW g, Balanced(g)
    PROVE  /\ Balanced(PassTurnOnTimeout(g))
           /\ \A u \in Users : Balanced(Forfeit(g, u)) /\ Forfeit(g, u).ended
  <1> DEFINE t == passTurn(g, nextSeat(g))
  <1>1. nextSeat(g) \in Seats
    BY DEF nextSeat, Seats, Balanced, Games
  <1>2. t \in Games /\ t.owner = g.owner /\ t.score = g.score
    BY <1>1 DEF passTurn, Balanced, Games
  <1>3. ASSUME NEW x \in Games, NEW v \in Seats \union {NoSeat}
        PROVE  /\ endGame(x, v) \in Games /\ endGame(x, v).ended
               /\ endGame(x, v).owner = x.owner /\ endGame(x, v).score = x.score
    BY DEF endGame, Games
  <1>4. ASSUME NEW x, x \in Games, x.owner = g.owner, x.score = g.score PROVE Balanced(x)
    BY <1>4 DEF Balanced, Counted, BoxesOf
  <1>5. Balanced(PassTurnOnTimeout(g))
    <2> HIDE DEF t
    <2>1. endIfFull(t) = t \/ endIfFull(t) = endGame(t, determineWinner(t))
      BY DEF endIfFull
    <2>2. determineWinner(t) \in Seats \union {NoSeat}
      BY <1>2, WinnersTyped
    <2>3. Balanced(endIfFull(t))
      BY <1>2, <1>3, <1>4, <2>1, <2>2
    <2> QED
      BY <2>3 DEF PassTurnOnTimeout, t
  <1>6. ASSUME NEW u \in Users PROVE Balanced(Forfeit(g, u)) /\ Forfeit(g, u).ended
    <2>1. g \in Games /\ forfeitWinner(g, u) \in Seats \union {NoSeat}
      BY WinnersTyped DEF Balanced
    <2> QED
      BY <1>3, <1>4, <2>1 DEF Forfeit
  <1> QED
    BY <1>5, <1>6

------------------------------------------------------------------------------
(* Replaying what a command recorded.                                      *)

\* No event, and one event.
LEMMA ReplayFew ==
    ASSUME NEW g, NEW e
    PROVE  replay(g, <<>>) = g /\ replay(g, <<e>>) = applyEvent(g, e)
  <1>1. replay(g, <<>>) = g
    <2>1. Len(<<>>) = 0
      OBVIOUS
    <2> QED
      BY <2>1, ReplayUnfolds
  <1>2. replay(g, <<e>>) = applyEvent(g, e)
    <2>1. Len(<<e>>) = 1 /\ <<e>>[1] = e /\ 1 \in 1 .. 1 /\ 1 - 1 = 0
      OBVIOUS
    <2>2. PICK f : /\ f[0] = g
                   /\ \A v \in 1 .. Len(<<e>>) : f[v] = applyEvent(f[v - 1], <<e>>[v])
                   /\ replay(g, <<e>>) = f[Len(<<e>>)]
      BY <2>1, ReplayUnfolds
    <2> QED
      BY <2>1, <2>2
  <1> QED
    BY <1>1, <1>2

\* Events in two portions are replayed one portion after the other.
LEMMA ReplayConcat ==
    ASSUME NEW E, NEW s \in Seq(E), NEW t \in Seq(E), NEW g
    PROVE  replay(g, s \o t) = replay(replay(g, s), t)
  <1> DEFINE m == Len(s)
             n == Len(t)
             es == s \o t
  <1>1. /\ m \in Nat /\ n \in Nat /\ Len(es) = m + n
        /\ \A v \in 1 .. m : es[v] = s[v]
        /\ \A v \in 1 .. n : es[m + v] = t[v]
    OBVIOUS
  <1>2. PICK f : /\ f[0] = g
                 /\ \A v \in 1 .. m : f[v] = applyEvent(f[v - 1], s[v])
                 /\ replay(g, s) = f[m]
    <2>1. Len(s) \in Nat
      OBVIOUS
    <2> QED
      BY <2>1, ReplayUnfolds, Zenon
  <1>3. PICK h : /\ h[0] = f[m]
                 /\ \A v \in 1 .. n : h[v] = applyEvent(h[v - 1], t[v])
                 /\ replay(f[m], t) = h[n]
    BY <1>1, ReplayUnfolds
  <1>4. PICK k : /\ k[0] = g
                 /\ \A v \in 1 .. m + n : k[v] = applyEvent(k[v - 1], es[v])
                 /\ replay(g, es) = k[m + n]
    <2>1. Len(es) \in Nat
      BY <1>1
    <2>2. \E k : /\ k[0] = g
                 /\ \A v \in 1 .. Len(es) : k[v] = applyEvent(k[v - 1], es[v])
                 /\ replay(g, es) = k[Len(es)]
      BY <2>1, ReplayUnfolds, Zenon
    <2> QED
      BY <1>1, <2>2
  <1> HIDE DEF m, n, es
  <1> DEFINE S == {v \in Nat : v <= m => k[v] = f[v]}
             T == {v \in Nat : v <= n => k[m + v] = h[v]}
  <1>5. S = Nat
    <2>1. 0 \in S
      BY <1>2, <1>4
    <2>2. ASSUME NEW v \in S PROVE v + 1 \in S
      <3> SUFFICES ASSUME v + 1 <= m PROVE k[v + 1] = f[v + 1]
        OBVIOUS
      <3>1. /\ v \in Nat /\ k[v] = f[v] /\ (v + 1) - 1 = v
            /\ v + 1 \in 1 .. m /\ v + 1 \in 1 .. m + n
        BY <1>1
      <3> QED
        BY <1>1, <1>2, <1>4, <3>1
    <2> HIDE DEF S
    <2>3. S \in SUBSET Nat
      BY DEF S
    <2> QED
      BY <2>1, <2>2, <2>3, CountingUp
  <1>6. T = Nat
    <2>1. 0 \in T
      <3>1. m \in S /\ m + 0 = m
        BY <1>1, <1>5
      <3> QED
        BY <1>1, <1>3, <3>1
    <2>2. ASSUME NEW v \in T PROVE v + 1 \in T
      <3> SUFFICES ASSUME v + 1 <= n PROVE k[m + (v + 1)] = h[v + 1]
        OBVIOUS
      <3>1. /\ v \in Nat /\ k[m + v] = h[v] /\ (v + 1) - 1 = v
            /\ v + 1 \in 1 .. n /\ m + (v + 1) \in 1 .. m + n
            /\ (m + (v + 1)) - 1 = m + v
        BY <1>1
      <3> QED
        BY <1>1, <1>3, <1>4, <3>1
    <2> HIDE DEF T
    <2>3. T \in SUBSET Nat
      BY DEF T
    <2> QED
      BY <2>1, <2>2, <2>3, CountingUp
  <1>7. n \in T /\ n <= n
    BY <1>1, <1>6
  <1> QED
    BY <1>2, <1>3, <1>4, <1>7 DEF es

\* An event that is only sometimes recorded.
LEMMA ReplayIf ==
    ASSUME NEW E, NEW e \in E, NEW cond \in BOOLEAN, NEW s \in Seq(E), NEW g, NEW h,
           replay(g, s) = h
    PROVE  /\ s \o eventIf(cond, e) \in Seq(E)
           /\ replay(g, s \o eventIf(cond, e)) = IF cond THEN applyEvent(h, e) ELSE h
  <1>1. eventIf(cond, e) \in Seq(E)
    BY DEF eventIf
  <1>2. s \o eventIf(cond, e) \in Seq(E)
    BY <1>1
  <1>3. replay(g, s \o eventIf(cond, e)) = replay(h, eventIf(cond, e))
    BY <1>1, ReplayConcat
  <1>4. replay(h, eventIf(cond, e)) = IF cond THEN applyEvent(h, e) ELSE h
    BY ReplayFew DEF eventIf
  <1> QED
    BY <1>2, <1>3, <1>4

\* Replaying what a move recorded is making the move (game.go, raise and
\* applyEvent).
LEMMA MoveReplays ==
    ASSUME NEW g, NEW move
    PROVE  replay(g, MoveEvents(g, move)) = ApplyMove(g, move)
  <1> DEFINE own  == ownCompleted(g, move)
             far  == adjacentCompleted(g, move)
             none == completedNone(g, move)
             d == drawn(g, move)
             k == ownClaimed(g, move)
             b == boxesClaimed(g, move)
             t == turnSettled(g, move)
             over == isGameOver(t)
             e1 == MoveApplied(move)
             e2 == BoxCompleted(move.cell, move.seat)
             e3 == BoxCompleted(getAdjacentBox(move.cell, move.side), move.seat)
             e4 == TurnPassed(nextSeat(g))
             e5 == GameEnded(determineWinner(t))
             E == {e1, e2, e3, e4, e5}
             s1 == <<e1>>
             s2 == s1 \o eventIf(own, e2)
             s3 == s2 \o eventIf(far, e3)
             s4 == s3 \o eventIf(none, e4)
             s5 == s4 \o eventIf(over, e5)
  <1>1. MoveEvents(g, move) = s5
    BY DEF MoveEvents
  <1>2. own \in BOOLEAN /\ far \in BOOLEAN /\ none \in BOOLEAN /\ over \in BOOLEAN
    BY DEF ownCompleted, adjacentCompleted, findCompletableBox, completedNone, isGameOver
  <1>3. /\ d = applyEvent(g, e1)
        /\ k = IF own THEN applyEvent(d, e2) ELSE d
        /\ b = IF far THEN applyEvent(k, e3) ELSE k
        /\ t = IF none THEN applyEvent(b, e4) ELSE b
        /\ ApplyMove(g, move) = IF over THEN applyEvent(t, e5) ELSE t
    BY DEF drawn, ownClaimed, boxesClaimed, turnSettled, ApplyMove, endIfFull,
           applyEvent, MoveApplied, BoxCompleted, TurnPassed, GameEnded
  <1>4. e1 \in E /\ e2 \in E /\ e3 \in E /\ e4 \in E /\ e5 \in E
    OBVIOUS
  <1> HIDE DEF own, far, none, over, d, k, b, t, e1, e2, e3, e4, e5, E
  <1>5. s1 \in Seq(E) /\ replay(g, s1) = d
    BY <1>3, <1>4, ReplayFew
  <1> HIDE DEF s1, s2, s3, s4, s5
  <1>6. s2 \in Seq(E) /\ replay(g, s2) = k
    <2>1. /\ s1 \o eventIf(own, e2) \in Seq(E)
          /\ replay(g, s1 \o eventIf(own, e2)) = IF own THEN applyEvent(d, e2) ELSE d
      <3>1. own \in BOOLEAN /\ e2 \in E /\ s1 \in Seq(E) /\ replay(g, s1) = d
        BY <1>2, <1>4, <1>5
      <3> QED
        BY <3>1, ReplayIf
    <2> QED
      BY <1>3, <2>1 DEF s2
  <1>7. s3 \in Seq(E) /\ replay(g, s3) = b
    <2>1. /\ s2 \o eventIf(far, e3) \in Seq(E)
          /\ replay(g, s2 \o eventIf(far, e3)) = IF far THEN applyEvent(k, e3) ELSE k
      <3>1. far \in BOOLEAN /\ e3 \in E /\ s2 \in Seq(E) /\ replay(g, s2) = k
        BY <1>2, <1>4, <1>6
      <3> QED
        BY <3>1, ReplayIf
    <2> QED
      BY <1>3, <2>1 DEF s3
  <1>8. s4 \in Seq(E) /\ replay(g, s4) = t
    <2>1. /\ s3 \o eventIf(none, e4) \in Seq(E)
          /\ replay(g, s3 \o eventIf(none, e4)) = IF none THEN applyEvent(b, e4) ELSE b
      <3>1. none \in BOOLEAN /\ e4 \in E /\ s3 \in Seq(E) /\ replay(g, s3) = b
        BY <1>2, <1>4, <1>7
      <3> QED
        BY <3>1, ReplayIf
    <2> QED
      BY <1>3, <2>1 DEF s4
  <1>9. replay(g, s5) = ApplyMove(g, move)
    <2>1. /\ s4 \o eventIf(over, e5) \in Seq(E)
          /\ replay(g, s4 \o eventIf(over, e5)) = IF over THEN applyEvent(t, e5) ELSE t
      <3>1. over \in BOOLEAN /\ e5 \in E /\ s4 \in Seq(E) /\ replay(g, s4) = t
        BY <1>2, <1>4, <1>8
      <3> QED
        BY <3>1, ReplayIf
    <2> QED
      BY <1>3, <2>1 DEF s5
  <1> QED
    BY <1>1, <1>9

\* So it is for a pass and a forfeit (game.go, PassTurnOnTimeout, Forfeit).
LEMMA OthersReplay ==
    ASSUME NEW g
    PROVE  /\ replay(g, TimeoutEvents(g)) = PassTurnOnTimeout(g)
           /\ \A u : replay(g, ForfeitEvents(g, u)) = Forfeit(g, u)
  <1>1. replay(g, TimeoutEvents(g)) = PassTurnOnTimeout(g)
    <2> DEFINE t == passTurn(g, nextSeat(g))
               over == isGameOver(t)
               e1 == TurnPassed(nextSeat(g))
               e2 == GameEnded(determineWinner(t))
               E == {e1, e2}
               s1 == <<e1>>
    <2>1. TimeoutEvents(g) = s1 \o eventIf(over, e2) /\ over \in BOOLEAN
      BY DEF TimeoutEvents, isGameOver
    <2>2. /\ t = applyEvent(g, e1)
          /\ PassTurnOnTimeout(g) = IF over THEN applyEvent(t, e2) ELSE t
      BY DEF PassTurnOnTimeout, endIfFull, applyEvent, TurnPassed, GameEnded
    <2>3. e1 \in E /\ e2 \in E
      OBVIOUS
    <2> HIDE DEF t, over, e1, e2, E
    <2>4. s1 \in Seq(E) /\ replay(g, s1) = t
      BY <2>2, <2>3, ReplayFew
    <2> HIDE DEF s1
    <2> QED
      BY <2>1, <2>2, <2>3, <2>4, ReplayIf
  <1>2. ASSUME NEW u PROVE replay(g, ForfeitEvents(g, u)) = Forfeit(g, u)
    <2> DEFINE e == GameForfeited(u, forfeitWinner(g, u))
    <2>1. ForfeitEvents(g, u) = <<e>> /\ Forfeit(g, u) = applyEvent(g, e)
      BY DEF ForfeitEvents, Forfeit, applyEvent, GameForfeited
    <2> HIDE DEF e
    <2> QED
      BY <2>1, ReplayFew
  <1> QED
    BY <1>1, <1>2

------------------------------------------------------------------------------
(* A log nobody else writes to.                                            *)

\* The events of a log.
Logged(rs) == [i \in DOMAIN rs |-> rs[i].event]

\* The game the rows show, applied in their order.
Shown(rs) == replay(newGame, Logged(rs))

\* The versions number the rows.
Numbered(rs) == \A i \in DOMAIN rs : rs[i].version = i

LEMMA LoggedType ==
    ASSUME NEW rs, Log(rs)
    PROVE  /\ Logged(rs) \in Seq(Events \union {GameCreated})
           /\ Len(Logged(rs)) = Len(rs)
           /\ \A i \in 1 .. Len(rs) : Logged(rs)[i] = rs[i].event
  <1> DEFINE R == [version : Nat, event : Events \union {GameCreated}, seen : Nat]
             E == Events \union {GameCreated}
  <1>1. rs \in Seq(R)
    BY DEF Log
  <1>2. \A r \in R : r.event \in E
    OBVIOUS
  <1> HIDE DEF R, E
  <1>3. Len(rs) \in Nat /\ DOMAIN rs = 1 .. Len(rs) /\ \A i \in 1 .. Len(rs) : rs[i].event \in E
    BY <1>1, <1>2
  <1>4. Logged(rs) = [i \in 1 .. Len(rs) |-> rs[i].event]
    BY <1>3 DEF Logged
  <1>5. Logged(rs) \in Seq(E) /\ Len(Logged(rs)) = Len(rs)
    BY <1>3, <1>4
  <1> QED
    BY <1>4, <1>5 DEF E

\* A row that is alone with its version is applied once.
LEMMA OneRowLoads ==
    ASSUME NEW rs, NEW v, NEW g
    PROVE  Reloaded(rs, {v}, {g}) = {applyEvent(g, rs[v].event)}
  <1>1. SetToSeqs({v}) = {<<v>>}
    <2>1. Cardinality({v}) = 1
      BY FS_Singleton
    <2>2. SetToSeqs({v}) = {f \in [1 .. 1 -> {v}] : \A i, j \in 1 .. 1 : i # j => f[i] # f[j]}
      BY <2>1 DEF SetToSeqs
    <2>3. \A f \in [1 .. 1 -> {v}] : f = <<v>>
      OBVIOUS
    <2>4. <<v>> \in [1 .. 1 -> {v}]
      OBVIOUS
    <2> QED
      BY <2>2, <2>3, <2>4
  <1>2. [i \in DOMAIN <<v>> |-> rs[<<v>>[i]].event] = <<rs[v].event>>
    OBVIOUS
  <1>3. Reloaded(rs, {v}, {g}) = {replay(g, <<rs[v].event>>)}
    <2> DEFINE at == {v}
               gs == {g}
               once == [i \in DOMAIN <<v>> |-> rs[<<v>>[i]].event]
    <2>1. /\ SetToSeqs(at) = {<<v>>} /\ gs = {g}
          /\ once = <<rs[v].event>>
      BY <1>1, <1>2
    <2> HIDE DEF at, gs
    <2>2. ASSUME NEW x \in Reloaded(rs, at, gs) PROVE x = replay(g, once)
      <3>1. PICK h \in gs, o \in SetToSeqs(at) :
               x = replay(h, [i \in DOMAIN o |-> rs[o[i]].event])
        BY DEF Reloaded
      <3>2. h = g /\ o = <<v>>
        BY <2>1, <3>1
      <3> QED
        BY <3>1, <3>2, Zenon
    <2>3. replay(g, once) \in Reloaded(rs, at, gs)
      <3> DEFINE R(h, o) == replay(h, [i \in DOMAIN o |-> rs[o[i]].event])
      <3>1. Reloaded(rs, at, gs) = {R(h, o) : h \in gs, o \in SetToSeqs(at)}
        BY DEF Reloaded
      <3>2. R(g, <<v>>) = replay(g, once)
        OBVIOUS
      <3> HIDE DEF R, once
      <3>3. R(g, <<v>>) \in {R(h, o) : h \in gs, o \in SetToSeqs(at)}
        BY <2>1
      <3> QED
        BY <3>1, <3>2, <3>3
    <2> HIDE DEF once
    <2>4. Reloaded(rs, at, gs) = {replay(g, once)}
      BY <2>2, <2>3
    <2> QED
      BY <2>1, <2>4 DEF at, gs
  <1> QED
    BY <1>3, ReplayFew

\* A log whose rows are numbered is loaded in one way only
\* (pgGameRepository.go, FindByID).
LEMMA SerialLoads ==
    ASSUME NEW rs, Log(rs), Numbered(rs)
    PROVE  LoadedFrom(rs) = {Shown(rs)}
  <1> DEFINE n == Len(rs)
             es == Logged(rs)
  <1>1. /\ n \in Nat /\ Len(es) = n
        /\ \A v \in 1 .. n : es[v] = rs[v].event
    BY LoggedType, LogRows
  <1>2. \A v \in 1 .. n : At(rs, v) = {v}
    BY LogRows DEF At, Numbered
  <1>3. PICK f : /\ f[0] = {newGame}
                 /\ \A v \in 1 .. n : f[v] = Reloaded(rs, At(rs, v), f[v - 1])
                 /\ LoadedFrom(rs) = f[n]
    BY <1>1, LoadUnfolds
  <1>4. PICK k : /\ k[0] = newGame
                 /\ \A v \in 1 .. n : k[v] = applyEvent(k[v - 1], es[v])
                 /\ Shown(rs) = k[n]
    <2> HIDE DEF n, es
    <2>1. Len(es) \in Nat
      BY <1>1
    <2>2. \E k : /\ k[0] = newGame
                 /\ \A v \in 1 .. Len(es) : k[v] = applyEvent(k[v - 1], es[v])
                 /\ replay(newGame, es) = k[Len(es)]
      BY <2>1, ReplayUnfolds, Zenon
    <2> QED
      BY <1>1, <2>2 DEF Shown, es
  <1> HIDE DEF n, es
  <1> DEFINE S == {v \in Nat : v <= n => f[v] = {k[v]}}
  <1>5. 0 \in S
    BY <1>3, <1>4
  <1>6. ASSUME NEW v \in S PROVE v + 1 \in S
    <2> SUFFICES ASSUME v + 1 <= n PROVE f[v + 1] = {k[v + 1]}
      OBVIOUS
    <2>1. /\ v \in Nat /\ v + 1 \in 1 .. n /\ (v + 1) - 1 = v /\ f[v] = {k[v]}
      BY <1>1
    <2>2. f[v + 1] = Reloaded(rs, {v + 1}, {k[v]})
      BY <1>2, <1>3, <2>1
    <2>3. k[v + 1] = applyEvent(k[v], rs[v + 1].event)
      BY <1>1, <1>4, <2>1
    <2>4. Reloaded(rs, {v + 1}, {k[v]}) = {applyEvent(k[v], rs[v + 1].event)}
      BY OneRowLoads
    <2> QED
      BY <2>2, <2>3, <2>4
  <1>7. S = Nat
    <2> HIDE DEF S
    <2>1. S \in SUBSET Nat
      BY DEF S
    <2> QED
      BY <1>5, <1>6, <2>1, CountingUp
  <1>8. n \in S
    BY <1>1, <1>7
  <1> QED
    BY <1>1, <1>3, <1>4, <1>8

\* Two logs, one after the other.
LEMMA JoinParts ==
    ASSUME NEW R, NEW s \in Seq(R), NEW t \in Seq(R)
    PROVE  /\ s \o t \in Seq(R)
           /\ Len(s \o t) = Len(s) + Len(t)
           /\ DOMAIN (s \o t) = 1 .. Len(s) + Len(t)
           /\ \A i \in 1 .. Len(s) : (s \o t)[i] = s[i]
           /\ \A i \in 1 .. Len(t) : (s \o t)[Len(s) + i] = t[i]
  OBVIOUS

\* The rows of a command that had loaded everything continue the numbers, and
\* the game they show is replayed from there (pgGameRepository.go,
\* AppendEvents).
LEMMA SerialAppends ==
    ASSUME NEW rs, Log(rs), Numbered(rs), NEW evts \in Seq(Events),
           NEW new, new = rs \o NewRows(Len(rs), evts), Log(new)
    PROVE  Numbered(new) /\ Shown(new) = replay(Shown(rs), evts)
  <1> DEFINE n == Len(rs)
             m == Len(evts)
             add == NewRows(n, evts)
             E == Events \union {GameCreated}
             R == [version : Nat, event : E, seen : Nat]
  <1>1. /\ n \in Nat /\ DOMAIN rs = 1 .. n
        /\ \A i \in 1 .. n : rs[i].version = i
    BY LogRows DEF Numbered
  <1>2. m \in Nat /\ DOMAIN evts = 1 .. m /\ evts \in Seq(E) /\ \A i \in 1 .. m : evts[i] \in E
    <2>1. evts \in Seq(Events) /\ Events \subseteq E
      OBVIOUS
    <2> HIDE DEF Events, E
    <2> QED
      BY <2>1
  <1>3. add \in Seq(R) /\ Len(add) = m /\ \A i \in 1 .. m : add[i] = Row(n + i, evts[i], n)
    <2>1. add = [i \in 1 .. m |-> Row(n + i, evts[i], n)]
      BY <1>2 DEF NewRows
    <2> HIDE DEF n
    <2>2. \A i \in 1 .. m : Row(n + i, evts[i], n) \in R
      BY <1>1, <1>2 DEF Row
    <2> HIDE DEF R, add
    <2> QED
      BY <1>2, <2>1, <2>2
  <1>4. rs \in Seq(R) /\ new = rs \o add /\ Len(rs) = n
    BY DEF Log
  <1> HIDE DEF R, add, E, n, m
  <1>5. /\ Len(new) = n + m /\ DOMAIN new = 1 .. n + m
        /\ \A i \in 1 .. n : new[i] = rs[i]
        /\ \A i \in 1 .. m : new[n + i] = add[i]
    <2>1. /\ Len(rs \o add) = Len(rs) + Len(add)
          /\ DOMAIN (rs \o add) = 1 .. Len(rs) + Len(add)
          /\ \A i \in 1 .. Len(rs) : (rs \o add)[i] = rs[i]
          /\ \A i \in 1 .. Len(add) : (rs \o add)[Len(rs) + i] = add[i]
      <3>1. rs \in Seq(R) /\ add \in Seq(R)
        BY <1>3, <1>4
      <3> QED
        BY <3>1, JoinParts
    <2> QED
      BY <1>3, <1>4, <2>1
  <1>6. \A j \in 1 .. n + m : j \in 1 .. n \/ (j - n \in 1 .. m /\ j = n + (j - n))
    BY <1>1, <1>2
  <1>7. \A i \in 1 .. m : new[n + i].version = n + i /\ new[n + i].event = evts[i]
    <2> SUFFICES ASSUME NEW i \in 1 .. m
                 PROVE  new[n + i].version = n + i /\ new[n + i].event = evts[i]
      OBVIOUS
    <2>1. new[n + i] = Row(n + i, evts[i], n)
      BY <1>3, <1>5
    <2> QED
      BY <2>1 DEF Row
  <1>8. Numbered(new)
    <2> SUFFICES ASSUME NEW j \in 1 .. n + m PROVE new[j].version = j
      BY <1>5 DEF Numbered
    <2>1. CASE j \in 1 .. n
      BY <1>1, <1>5, <2>1
    <2>2. CASE j - n \in 1 .. m /\ j = n + (j - n)
      BY <1>7, <2>2
    <2> QED
      BY <1>6, <2>1, <2>2
  <1>9. /\ Logged(rs) \in Seq(E) /\ Len(Logged(rs)) = n
        /\ \A i \in 1 .. n : Logged(rs)[i] = rs[i].event
        /\ Logged(new) \in Seq(E) /\ Len(Logged(new)) = n + m
        /\ \A i \in 1 .. n + m : Logged(new)[i] = new[i].event
    BY <1>5, LoggedType DEF n, E
  <1>10. Logged(new) = Logged(rs) \o evts
    <2> DEFINE s == Logged(rs)
               t == Logged(new)
    <2>1. \A j \in 1 .. n + m : t[j] = (s \o evts)[j]
      <3> SUFFICES ASSUME NEW j \in 1 .. n + m PROVE t[j] = (s \o evts)[j]
        OBVIOUS
      <3>1. CASE j \in 1 .. n
        <4>1. (s \o evts)[j] = s[j]
          <5> HIDE DEF s
          <5> QED
            BY <1>2, <1>9, <3>1 DEF s, m
        <4>2. j \in 1 .. n + m
          OBVIOUS
        <4> QED
          BY <1>5, <1>9, <3>1, <4>1, <4>2
      <3>2. CASE j - n \in 1 .. m /\ j = n + (j - n)
        <4>1. (s \o evts)[n + (j - n)] = evts[j - n]
          <5> HIDE DEF s
          <5> QED
            BY <1>1, <1>2, <1>9, <3>2 DEF s, m
        <4>2. j \in 1 .. n + m
          OBVIOUS
        <4> QED
          BY <1>7, <1>9, <3>2, <4>1, <4>2
      <3> QED
        BY <1>6, <3>1, <3>2
    <2> HIDE DEF s, t
    <2>2. s \o evts \in Seq(E) /\ Len(s \o evts) = n + m
      BY <1>2, <1>9 DEF s, m
    <2>3. t \in Seq(E) /\ Len(t) = n + m
      BY <1>9 DEF t
    <2>4. t = s \o evts
      BY <2>1, <2>2, <2>3
    <2> QED
      BY <2>4 DEF s, t
  <1>11. replay(newGame, Logged(rs) \o evts) = replay(replay(newGame, Logged(rs)), evts)
    BY <1>2, <1>9, ReplayConcat
  <1> QED
    BY <1>8, <1>10, <1>11 DEF Shown

------------------------------------------------------------------------------
(* The points of all players.                                              *)

\* The boxes owned by the first n seats.
BoxesBelow(g, n) == {cell \in Cells : g.owner[cell] \in 0 .. n - 1}

\* f adds the points up.
Adds(f, g) ==
    f = [n \in 0 .. NumPlayers |-> IF n = 0 THEN 0 ELSE f[n - 1] + g.score[n - 1]]

\* One seat more.
LEMMA BoxesAdded ==
    ASSUME NEW g, Balanced(g)
    PROVE  /\ IsFiniteSet(Cells)
           /\ BoxesBelow(g, 0) = {}
           /\ \A n \in 1 .. NumPlayers :
                 /\ Cardinality(BoxesBelow(g, n - 1)) \in Nat /\ g.score[n - 1] \in Nat
                 /\ Cardinality(BoxesBelow(g, n))
                       = Cardinality(BoxesBelow(g, n - 1)) + g.score[n - 1]
           /\ isGameOver(g) => BoxesBelow(g, NumPlayers) = Cells
  <1>1. IsFiniteSet(Cells)
    <2>1. IsFiniteSet(Lines)
      BY FS_Interval DEF Lines
    <2> QED
      BY <2>1, FS_Product DEF Cells
  <1>2. BoxesBelow(g, 0) = {}
    BY DEF BoxesBelow
  <1>3. /\ g.owner \in [Cells -> Seats \union {NoSeat}] /\ g.score \in [Seats -> Nat]
        /\ \A p \in Seats : g.score[p] = Cardinality(BoxesOf(g, p))
    BY DEF Balanced, Games, Counted
  <1>4. ASSUME NEW n \in 1 .. NumPlayers
        PROVE  /\ Cardinality(BoxesBelow(g, n - 1)) \in Nat /\ g.score[n - 1] \in Nat
               /\ Cardinality(BoxesBelow(g, n))
                     = Cardinality(BoxesBelow(g, n - 1)) + g.score[n - 1]
    <2> DEFINE A == BoxesBelow(g, n - 1)
               B == BoxesOf(g, n - 1)
    <2>1. IsFiniteSet(A) /\ IsFiniteSet(B)
      BY <1>1, FS_Subset DEF BoxesBelow, BoxesOf
    <2>2. BoxesBelow(g, n) = A \union B
      BY NumPlayersAssumption DEF BoxesBelow, BoxesOf
    <2>3. A \intersect B = {}
      BY NumPlayersAssumption DEF BoxesBelow, BoxesOf
    <2>4. n - 1 \in Seats
      BY NumPlayersAssumption DEF Seats
    <2>5. g.score[n - 1] = Cardinality(B) /\ g.score[n - 1] \in Nat
      BY <1>3, <2>4
    <2> HIDE DEF A, B
    <2>6. Cardinality(A \union B) = Cardinality(A) + Cardinality(B) - Cardinality(A \intersect B)
      BY <2>1, FS_Union
    <2>7. Cardinality(A) \in Nat /\ Cardinality(B) \in Nat /\ Cardinality(A \intersect B) = 0
      BY <2>1, <2>3, FS_CardinalityType, FS_EmptySet
    <2> QED
      BY <2>2, <2>5, <2>6, <2>7 DEF A
  <1>5. isGameOver(g) => BoxesBelow(g, NumPlayers) = Cells
    BY <1>3 DEF isGameOver, BoxesBelow, Seats
  <1> QED
    BY <1>1, <1>2, <1>4, <1>5

\* When every box has an owner, the points add up to the boxes.
LEMMA TotalCounts ==
    ASSUME NEW g, Balanced(g), isGameOver(g)
    PROVE  Total(g) = Cardinality(Cells)
  <1> DEFINE c(n) == Cardinality(BoxesBelow(g, n))
             sum == [n \in 0 .. NumPlayers |-> c(n)]
             upTo == CHOOSE f : Adds(f, g)
  <1>1. /\ c(0) = 0
        /\ \A n \in 1 .. NumPlayers : c(n) = c(n - 1) + g.score[n - 1]
        /\ c(NumPlayers) = Cardinality(Cells)
    BY BoxesAdded, FS_EmptySet
  <1> HIDE DEF c
  <1>2. Adds(sum, g)
    <2>1. ASSUME NEW n \in 0 .. NumPlayers
          PROVE  sum[n] = IF n = 0 THEN 0 ELSE sum[n - 1] + g.score[n - 1]
      <3>1. CASE n = 0
        BY <1>1, <3>1
      <3>2. CASE n # 0
        <4>1. n \in 1 .. NumPlayers /\ n - 1 \in 0 .. NumPlayers
          BY <3>2, NumPlayersAssumption
        <4> QED
          BY <1>1, <3>2, <4>1
      <3> QED
        BY <3>1, <3>2
    <2>2. sum = [n \in 0 .. NumPlayers |-> sum[n]]
      OBVIOUS
    <2> HIDE DEF sum
    <2>3. [n \in 0 .. NumPlayers |-> sum[n]]
             = [n \in 0 .. NumPlayers |-> IF n = 0 THEN 0 ELSE sum[n - 1] + g.score[n - 1]]
      BY <2>1, Zenon
    <2> QED
      BY <2>2, <2>3, Zenon DEF Adds
  <1>3. Adds(upTo, g)
    BY <1>2, Zenon
  <1>4. Total(g) = upTo[NumPlayers]
    BY DEF Total, Adds
  <1> HIDE DEF upTo, sum
  <1>5. \A n \in 0 .. NumPlayers :
            upTo[n] = IF n = 0 THEN 0 ELSE upTo[n - 1] + g.score[n - 1]
    BY <1>3 DEF Adds
  <1> DEFINE S == {n \in Nat : n <= NumPlayers => upTo[n] = c(n)}
  <1>6. 0 \in S
    BY <1>1, <1>5, NumPlayersAssumption
  <1>7. ASSUME NEW n \in S PROVE n + 1 \in S
    <2> SUFFICES ASSUME n + 1 <= NumPlayers PROVE upTo[n + 1] = c(n + 1)
      OBVIOUS
    <2>1. /\ n \in Nat /\ n + 1 \in 1 .. NumPlayers /\ n + 1 \in 0 .. NumPlayers
          /\ (n + 1) - 1 = n /\ n + 1 # 0 /\ upTo[n] = c(n)
      BY NumPlayersAssumption
    <2> QED
      BY <1>1, <1>5, <2>1
  <1>8. S = Nat
    <2> HIDE DEF S
    <2>1. S \in SUBSET Nat
      BY DEF S
    <2> QED
      BY <1>6, <1>7, <2>1, CountingUp
  <1>9. NumPlayers \in S
    BY <1>8, NumPlayersAssumption
  <1> QED
    BY <1>1, <1>4, <1>9, NumPlayersAssumption

------------------------------------------------------------------------------
(* The opening, as one goroutine writes it.                                *)

\* A command applied to the game its log shows, and its rows appended.
LEMMA SerialCommand ==
    ASSUME NEW rs, Sound(rs), Numbered(rs), NEW evts \in Seq(Events),
           Sound(rs \o NewRows(Len(rs), evts))
    PROVE  LET new == rs \o NewRows(Len(rs), evts)
           IN  Numbered(new) /\ Shown(new) = replay(Shown(rs), evts)
  BY SerialAppends DEF Sound

\* A new game owns nothing (game.go, NewGame).
LEMMA NewGameBalanced ==
    LET rs == NewRows(0, <<GameCreated>>)
    IN  Balanced(newGame) /\ Numbered(rs) /\ Shown(rs) = newGame
  <1> DEFINE rs == NewRows(0, <<GameCreated>>)
  <1>1. Balanced(newGame)
    <2>1. newGame \in Games
      BY DEF newGame, Games, makeEmptyGrid, Seats
    <2>2. \A p \in Seats : BoxesOf(newGame, p) = {} /\ newGame.score[p] = 0
      BY NamesAssumption DEF BoxesOf, newGame
    <2> QED
      BY <2>1, <2>2, FS_EmptySet DEF Balanced, Counted
  <1>2. Sound(rs) /\ Len(rs) = 1
    BY NewGameSound
  <1> HIDE DEF rs
  <1>3. Log(rs) /\ DOMAIN rs = {1} /\ rs[1] = Row(1, GameCreated, 0)
    BY <1>2, LogRows DEF Sound
  <1>4. rs[1].version = 1 /\ rs[1].event = GameCreated
    BY <1>3 DEF Row
  <1>5. Numbered(rs)
    BY <1>3, <1>4 DEF Numbered
  <1>6. Logged(rs) = <<GameCreated>>
    <2>1. Logged(rs) = [i \in {1} |-> GameCreated]
      BY <1>3, <1>4 DEF Logged
    <2> QED
      BY <2>1
  <1>7. applyEvent(newGame, GameCreated) = newGame
    BY DEF applyEvent, GameCreated
  <1>8. Shown(rs) = newGame
    BY <1>6, <1>7, ReplayFew DEF Shown
  <1> QED
    BY <1>1, <1>5, <1>8 DEF rs

\* The opening leaves a numbered log that shows the game.
LEMMA OpeningSerial ==
    /\ Sound(OpeningRows.rows) /\ Numbered(OpeningRows.rows)
    /\ Balanced(OpeningRows.game)
    /\ Shown(OpeningRows.rows) = OpeningRows.game
  <1> DEFINE n == Len(Opening)
             OK(p) == Numbered(p.rows) /\ Balanced(p.game) /\ Shown(p.rows) = p.game
             S == {v \in Nat : v <= n => OK(Opened[v])}
  <1>1. n \in Nat
    BY OpenedUnfolds
  <1> HIDE DEF n
  <1>2. 0 \in S
    BY OpenedUnfolds, NewGameBalanced
  <1>3. ASSUME NEW v \in S PROVE v + 1 \in S
    <2> SUFFICES ASSUME v + 1 <= n PROVE OK(Opened[v + 1])
      OBVIOUS
    <2> DEFINE p == Opened[v]
               move == Opening[v + 1]
               evts == MoveEvents(p.game, move)
               rs == p.rows
    <2>1. /\ v \in Nat /\ v + 1 \in 1 .. n /\ (v + 1) - 1 = v
          /\ v \in 0 .. n /\ v + 1 \in 0 .. n
      BY <1>1
    <2>2. OK(p)
      BY <1>1, <2>1
    <2>3. /\ Opened[v + 1] = Played(p, move) /\ move \in Moves
          /\ isEdgeAvailable(p.game.edges, move.cell, move.side)
      BY <2>1, OpenedUnfolds DEF n
    <2>4. Sound(rs) /\ Told(p.game, Said(rs)) /\ Sound(Opened[v + 1].rows)
      BY <2>1, OpenedSound DEF n
    <2> HIDE DEF p, move, S
    <2>5. /\ Played(p, move).rows = rs \o NewRows(Len(rs), evts)
           /\ Played(p, move).game = ApplyMove(p.game, move)
      BY DEF Played
    <2>6. /\ Opened[v + 1].rows = rs \o NewRows(Len(rs), evts)
          /\ Opened[v + 1].game = ApplyMove(p.game, move)
      BY <2>3, <2>5
    <2>7. evts \in Seq(Events)
      BY <2>3, <2>4, MoveTells
    <2>8. replay(p.game, evts) = ApplyMove(p.game, move)
      BY MoveReplays
    <2> HIDE DEF evts
    <2>9. Balanced(ApplyMove(p.game, move))
      BY <2>2, <2>3, MoveBalanced
    <2>10. Numbered(Opened[v + 1].rows) /\ Shown(Opened[v + 1].rows) = replay(Shown(rs), evts)
      BY <2>2, <2>4, <2>6, <2>7, SerialCommand
    <2> QED
      BY <2>2, <2>6, <2>8, <2>9, <2>10
  <1>4. S = Nat
    <2> HIDE DEF S
    <2>1. S \in SUBSET Nat
      BY DEF S
    <2> QED
      BY <1>2, <1>3, <2>1, CountingUp
  <1>5. OK(Opened[n])
    BY <1>1, <1>4
  <1>6. Sound(Opened[n].rows)
    BY <1>1, OpenedSound DEF n
  <1> QED
    BY <1>5, <1>6 DEF OpeningRows, n

------------------------------------------------------------------------------
(* A goroutine that is alone.                                              *)

\* The game the log shows.
Now == Shown(rows)

\* What a goroutine without rivals writes follows from what is there.
Orderly(w) ==
    /\ Numbered(rows) /\ Balanced(Now)
    /\ pc[w] = "append" => /\ job[w].seen = Len(rows)
                           /\ job[w].game = replay(Now, job[w].events)
                           /\ Balanced(job[w].game)

\* Query tables, feed, clock and notice as they are between two commands.
AtRest ==
    /\ proj = Projection(Now)
    /\ feed = Now
    /\ clock.on <=> ~Now.ended
    /\ clock.on => clock.seat = Now.turn
    /\ completions = IF Now.ended THEN 1 ELSE 0

\* What is already new, and what is still old, at each stage of a command.
Synced(w) ==
    /\ pc[w] \in {"idle", "expired"} => AtRest
    /\ pc[w] \in {"announce", "startTimer"} =>
          /\ proj = Projection(Now) /\ feed = Now /\ completions = 0
          /\ ~Now.ended /\ Now.turn = 0
    /\ pc[w] = "append" =>
          /\ AtRest /\ ~Now.ended
          /\ job[w].before = Now.turn
          /\ job[w].op = "forfeit" => job[w].game.ended
    /\ pc[w] \in {"project", "switch", "stop", "publish", "complete"} =>
          /\ job[w].game = Now /\ completions = 0
          /\ job[w].op = "forfeit" => Now.ended
    /\ pc[w] \in {"switch", "stop", "publish", "complete"} => proj = Projection(Now)
    /\ pc[w] \in {"project", "switch"} => clock.on /\ clock.seat = job[w].before
    /\ pc[w] = "switch" => job[w].op # "forfeit"
    /\ pc[w] = "stop" => Now.ended /\ (job[w].op # "forfeit" => feed = Now)
    /\ pc[w] = "publish" =>
          /\ job[w].op = "forfeit" => ~clock.on
          /\ job[w].op # "forfeit" => clock.on /\ clock.seat = Now.turn
    /\ pc[w] = "complete" => ~clock.on /\ feed = Now /\ Now.ended

LoneInv(w) == Orderly(w) /\ (faults = 0 /\ restarts = 0 => Synced(w))

\* What a lone goroutine loads (pgGameRepository.go, FindByID).
LEMMA LoneLoads ==
    ASSUME IInv, NEW w, Orderly(w)
    PROVE  /\ LoadedFrom(rows) = {Now}
           /\ Now \in Games /\ Told(Now, Said(rows))
  <1>1. Log(rows) /\ Numbered(rows)
    BY DEF IInv, Writers, Sound, Orderly
  <1>2. LoadedFrom(rows) = {Now}
    BY <1>1, SerialLoads DEF Now
  <1>3. Told(Now, Said(rows))
    BY <1>1, <1>2, LoadTells
  <1> QED
    BY <1>2, <1>3 DEF Told

\* The game stays while no row is added.
LEMMA LoneStays ==
    ASSUME NEW w, Orderly(w), rows' = rows,
           pc'[w] = "append" => pc[w] = "append" /\ job'[w] = job[w]
    PROVE  Now' = Now /\ Orderly(w)'
  BY DEF Orderly, Now

\* After the opening.
LEMMA LoneInit ==
    ASSUME Init, NEW w, Workers = {w}
    PROVE  LoneInv(w)
  <1>1. /\ Numbered(rows) /\ Balanced(Now) /\ Now = OpeningRows.game
        /\ proj = Projection(Now) /\ feed = Now /\ completions = 0
    BY OpeningSerial DEF Init, Now
  <1>2. CASE Opening = <<>>
    <2>1. clock = [on |-> FALSE, seat |-> 0]
      BY <1>2, Zenon DEF Init
    <2>2. pc[w] = "announce"
      <3>1. PICK creator \in Workers :
               pc = [x \in Workers |-> IF x = creator THEN "announce" ELSE "idle"]
        BY <1>2, Zenon DEF Init
      <3> QED
        BY <3>1
    <2>3. ~Now.ended /\ Now.turn = 0
      <3>1. OpeningRows = Opened[0]
        BY <1>2 DEF OpeningRows
      <3>2. OpeningRows.game = newGame
        BY <3>1, OpenedUnfolds
      <3> QED
        BY <1>1, <3>2 DEF newGame
    <2> QED
      BY <1>1, <2>1, <2>2, <2>3 DEF LoneInv, Orderly, Synced
  <1>3. CASE Opening # <<>>
    <2>1. /\ clock = [on |-> TRUE, seat |-> OpeningRows.game.turn]
          /\ pc = [x \in Workers |-> "idle"]
      BY <1>3, Zenon DEF Init
    <2>2. pc[w] = "idle" /\ clock.on = TRUE /\ clock.seat = Now.turn
      BY <1>1, <2>1
    <2>3. ~Now.ended
      BY <1>1, OpeningAssumption DEF OpeningAssumption
    <2>4. AtRest
      BY <1>1, <2>2, <2>3 DEF AtRest
    <2> QED
      BY <1>1, <2>2, <2>4 DEF LoneInv, Orderly, Synced
  <1> QED
    BY <1>2, <1>3

\* Creating the game (gameService.go, CreateGame).
LEMMA LoneCreates ==
    ASSUME IInv, NEW w \in Workers, LoneInv(w), AnnounceGame(w) \/ StartTimer(w)
    PROVE  LoneInv(w)'
  <1>1. /\ rows' = rows /\ UNCHANGED <<proj, feed, completions, faults, restarts>>
        /\ pc \in [Workers -> Stages]
    BY DEF AnnounceGame, StartTimer, IInv, Shapes
  <1>2. CASE AnnounceGame(w)
    <2>1. pc[w] = "announce" /\ pc'[w] = "startTimer"
      BY <1>1, <1>2 DEF AnnounceGame, Goto
    <2>2. Now' = Now /\ Orderly(w)'
      BY <1>1, <2>1, LoneStays DEF LoneInv
    <2>3. Synced(w) => Synced(w)'
      BY <1>1, <2>1, <2>2 DEF Synced
    <2> QED
      BY <1>1, <2>2, <2>3 DEF LoneInv
  <1>3. CASE StartTimer(w)
    <2>1. /\ pc[w] = "startTimer" /\ pc'[w] = "idle"
          /\ clock' = [on |-> TRUE, seat |-> 0]
      BY <1>1, <1>3 DEF StartTimer, Finish, Goto
    <2>2. Now' = Now /\ Orderly(w)'
      BY <1>1, <2>1, LoneStays DEF LoneInv
    <2>3. Synced(w) => AtRest'
      BY <1>1, <2>1, <2>2 DEF Synced, AtRest
    <2>4. Synced(w) => Synced(w)'
      BY <2>1, <2>3 DEF Synced
    <2> QED
      BY <1>1, <2>2, <2>4 DEF LoneInv
  <1> QED
    BY <1>2, <1>3

\* A command that gets past its checks starts from the game of the log
\* (gameService.go, the three commands up to AppendEvents).
LEMMA LoneAccepts ==
    ASSUME IInv, NEW w \in Workers, Orderly(w),
           NEW op, NEW g \in LoadedFrom(rows), NEW after, NEW evts,
           ~g.ended, after = replay(g, evts), Balanced(after),
           op = "forfeit" => after.ended,
           Accept(w, op, g, after, evts),
           UNCHANGED <<rows, proj, clock, feed, completions, faults, restarts>>
    PROVE  /\ Orderly(w)'
           /\ AtRest => Synced(w)'
  <1>1. g = Now
    BY LoneLoads
  <1>2. pc'[w] = "append" /\ job'[w] = NewJob(op, g, after, evts)
    BY DEF Accept, Goto, IInv, Shapes
  <1>3. /\ job'[w].op = op /\ job'[w].before = g.turn /\ job'[w].seen = Len(rows)
        /\ job'[w].game = after /\ job'[w].events = evts
    BY <1>2 DEF NewJob
  <1>4. Now' = Now
    BY DEF Now
  <1>5. Orderly(w)'
    BY <1>1, <1>2, <1>3, <1>4 DEF Orderly
  <1>6. AtRest => AtRest'
    BY <1>4 DEF AtRest
  <1>7. AtRest => Synced(w)'
    BY <1>1, <1>2, <1>3, <1>4, <1>6 DEF Synced
  <1> QED
    BY <1>5, <1>7

\* A move or a forfeit begins (gameService.go, MakeMove, ForfeitGame).
LEMMA LoneBegins ==
    ASSUME IInv, NEW w \in Workers, LoneInv(w),
           (\E move \in Moves : BeginMove(w, move)) \/ (\E u \in Users : BeginForfeit(w, u))
    PROVE  LoneInv(w)'
  <1>1. /\ pc[w] = "idle"
        /\ UNCHANGED <<rows, proj, clock, feed, completions, faults, restarts>>
    BY DEF BeginMove, BeginForfeit, Start
  <1>2. Synced(w) => AtRest
    BY <1>1 DEF Synced
  <1>3. \A g \in LoadedFrom(rows) : Balanced(g)
    BY LoneLoads DEF LoneInv, Orderly
  <1>4. Orderly(w)' /\ (AtRest => Synced(w)')
    <2>1. ASSUME NEW move \in Moves, BeginMove(w, move)
          PROVE  Orderly(w)' /\ (AtRest => Synced(w)')
      <3>1. PICK g \in LoadedFrom(rows) :
               /\ validateMove(g, move)
               /\ Accept(w, "move", g, ApplyMove(g, move), MoveEvents(g, move))
        BY <2>1 DEF BeginMove
      <3> DEFINE after == ApplyMove(g, move)
                 evts == MoveEvents(g, move)
      <3>2. ~g.ended
        BY <3>1 DEF validateMove
      <3>3. after = replay(g, evts) /\ Balanced(after)
        BY <1>3, MoveReplays, MoveBalanced
      <3>4. Accept(w, "move", g, after, evts) /\ Orderly(w)
        BY <3>1 DEF LoneInv
      <3> HIDE DEF after, evts
      <3> QED
        BY <1>1, <3>2, <3>3, <3>4, LoneAccepts
    <2>2. ASSUME NEW u \in Users, BeginForfeit(w, u)
          PROVE  Orderly(w)' /\ (AtRest => Synced(w)')
      <3>1. PICK g \in LoadedFrom(rows) :
               /\ ~g.ended
               /\ Accept(w, "forfeit", g, Forfeit(g, u), ForfeitEvents(g, u))
        BY <2>2 DEF BeginForfeit
      <3> DEFINE after == Forfeit(g, u)
                 evts == ForfeitEvents(g, u)
      <3>2. after = replay(g, evts) /\ Balanced(after) /\ after.ended
        BY <1>3, OthersReplay, OthersBalanced
      <3>3. Accept(w, "forfeit", g, after, evts) /\ Orderly(w)
        BY <3>1 DEF LoneInv
      <3> HIDE DEF after, evts
      <3> QED
        BY <1>1, <3>1, <3>2, <3>3, LoneAccepts
    <2> QED
      BY <2>1, <2>2
  <1> QED
    BY <1>1, <1>2, <1>4 DEF LoneInv

\* The deadline is found passed, and the turn is passed if the game goes on
\* (gameTimerService.go, checkExpired; gameService.go, PassTurnOnTimeout).
LEMMA LoneExpires ==
    ASSUME IInv, NEW w \in Workers, LoneInv(w), TickExpired(w) \/ BeginPass(w)
    PROVE  LoneInv(w)'
  <1>1. /\ pc[w] \in {"idle", "expired"} /\ pc \in [Workers -> Stages]
        /\ UNCHANGED <<rows, proj, clock, feed, completions, faults, restarts>>
    BY DEF TickExpired, BeginPass, Start, IInv, Shapes
  <1>2. Synced(w) => AtRest
    BY <1>1 DEF Synced
  <1>3. ASSUME pc'[w] \in {"idle", "expired"} PROVE LoneInv(w)'
    <2>1. Now' = Now /\ Orderly(w)'
      BY <1>1, <1>3, LoneStays DEF LoneInv
    <2>2. AtRest => AtRest'
      BY <1>1, <2>1 DEF AtRest
    <2>3. AtRest' => Synced(w)'
      BY <1>3 DEF Synced
    <2> QED
      BY <1>1, <1>2, <2>1, <2>2, <2>3 DEF LoneInv
  <1>4. CASE TickExpired(w)
    <2>1. pc'[w] = "expired"
      BY <1>1, <1>4 DEF TickExpired, Goto
    <2> QED
      BY <1>3, <2>1
  <1>5. CASE BeginPass(w)
    <2>1. PICK g \in LoadedFrom(rows) :
             IF g.ended THEN Finish(w)
             ELSE Accept(w, "pass", g, PassTurnOnTimeout(g), TimeoutEvents(g))
      BY <1>5 DEF BeginPass
    <2>2. CASE g.ended
      <3>1. pc'[w] = "idle"
        BY <1>1, <2>1, <2>2 DEF Finish, Goto
      <3> QED
        BY <1>3, <3>1
    <2>3. CASE ~g.ended
      <3> DEFINE after == PassTurnOnTimeout(g)
                 evts == TimeoutEvents(g)
      <3>1. Balanced(g)
        BY LoneLoads DEF LoneInv, Orderly
      <3>2. after = replay(g, evts) /\ Balanced(after)
        BY <3>1, OthersReplay, OthersBalanced
      <3>3. Accept(w, "pass", g, after, evts) /\ Orderly(w)
        BY <2>1, <2>3 DEF LoneInv
      <3> HIDE DEF after, evts
      <3>4. Orderly(w)' /\ (AtRest => Synced(w)')
        BY <1>1, <2>3, <3>2, <3>3, LoneAccepts
      <3> QED
        BY <1>1, <1>2, <3>4 DEF LoneInv
    <2> QED
      BY <2>2, <2>3
  <1> QED
    BY <1>4, <1>5

\* The batch is committed, or the transaction fails (pgGameRepository.go,
\* AppendEvents).
LEMMA LoneAppends ==
    ASSUME IInv, IInv', NEW w \in Workers, LoneInv(w), AppendEvents(w) \/ AppendFails(w)
    PROVE  LoneInv(w)'
  <1>1. CASE AppendEvents(w)
    <2>1. /\ pc[w] = "append" /\ pc'[w] = "project"
          /\ rows' = rows \o NewRows(job[w].seen, job[w].events)
          /\ UNCHANGED <<proj, clock, feed, completions, job, faults, restarts>>
      BY <1>1 DEF AppendEvents, Goto, IInv, Shapes
    <2>2. /\ job[w].seen = Len(rows) /\ job[w].game = replay(Now, job[w].events)
          /\ Balanced(job[w].game) /\ Numbered(rows)
      BY <2>1 DEF LoneInv, Orderly
    <2>3. Sound(rows) /\ Sound(rows') /\ job[w].events \in Seq(Events)
      BY <2>1 DEF IInv, Writers, Batch
    <2>4. Numbered(rows') /\ Now' = job[w].game
      <3>1. rows' = rows \o NewRows(Len(rows), job[w].events)
        BY <2>1, <2>2
      <3>2. Numbered(rows') /\ Shown(rows') = replay(Shown(rows), job[w].events)
        BY <2>2, <2>3, <3>1, SerialCommand
      <3> QED
        BY <2>2, <3>2 DEF Now
    <2>5. Orderly(w)'
      BY <2>1, <2>2, <2>4 DEF Orderly
    <2>6. ASSUME Synced(w) PROVE Synced(w)'
      <3>1. /\ AtRest /\ ~Now.ended /\ job[w].before = Now.turn
            /\ job[w].op = "forfeit" => job[w].game.ended
        BY <2>1, <2>6 DEF Synced
      <3>2. clock.on /\ clock.seat = job[w].before /\ completions = 0
        BY <3>1 DEF AtRest
      <3> QED
        BY <2>1, <2>4, <3>1, <3>2 DEF Synced
    <2> QED
      BY <2>1, <2>5, <2>6 DEF LoneInv
  <1>2. CASE AppendFails(w)
    <2>1. faults' # 0
      BY <1>2 DEF AppendFails, Fault, IInv, Shapes
    <2>2. rows' = rows /\ pc'[w] = "idle"
      BY <1>2 DEF AppendFails, Finish, Goto, IInv, Shapes
    <2> QED
      BY <2>1, <2>2, LoneStays DEF LoneInv
  <1> QED
    BY <1>1, <1>2

\* The projection is updated (gameService.go, the three commands after
\* AppendEvents).
LEMMA LoneProjects ==
    ASSUME IInv, NEW w \in Workers, LoneInv(w), UpdateProjection(w) \/ UpdateProjectionFails(w)
    PROVE  LoneInv(w)'
  <1>1. /\ rows' = rows /\ pc[w] = "project" /\ pc'[w] = AfterProjection(w)
        /\ UNCHANGED <<clock, feed, completions, job, restarts>>
    BY DEF UpdateProjection, UpdateProjectionFails, Goto, IInv, Shapes
  <1>2. Now' = Now /\ Orderly(w)'
    BY <1>1, LoneStays DEF LoneInv, AfterProjection
  <1>3. CASE UpdateProjection(w)
    <2>1. proj' = Projection(job[w].game) /\ faults' = faults
      BY <1>3 DEF UpdateProjection
    <2>2. Synced(w) => Synced(w)'
      BY <1>1, <1>2, <2>1 DEF Synced, AfterProjection
    <2> QED
      BY <1>1, <1>2, <2>1, <2>2 DEF LoneInv
  <1>4. CASE UpdateProjectionFails(w)
    <2>1. faults' # 0
      BY <1>4 DEF UpdateProjectionFails, Fault, IInv, Shapes
    <2> QED
      BY <1>2, <2>1 DEF LoneInv
  <1> QED
    BY <1>3, <1>4

\* The turn clock follows the game (gameTimerService.go, SwitchTurn, StopTimer).
LEMMA LoneClocks ==
    ASSUME IInv, NEW w \in Workers, LoneInv(w), SwitchTurn(w) \/ StopTimer(w)
    PROVE  LoneInv(w)'
  <1>1. /\ rows' = rows /\ pc \in [Workers -> Stages]
        /\ clock \in [on : BOOLEAN, seat : Seats]
        /\ UNCHANGED <<proj, feed, completions, job, faults, restarts>>
    BY DEF SwitchTurn, StopTimer, IInv, Shapes
  <1>2. CASE SwitchTurn(w)
    <2>1. /\ pc[w] = "switch" /\ pc'[w] = "publish"
          /\ clock' = IF clock.on /\ job[w].game.turn # job[w].before
                      THEN [clock EXCEPT !.seat = job[w].game.turn] ELSE clock
      BY <1>1, <1>2 DEF SwitchTurn, Goto
    <2>2. Now' = Now /\ Orderly(w)'
      BY <1>1, <2>1, LoneStays DEF LoneInv
    <2>3. ASSUME Synced(w) PROVE Synced(w)'
      <3>1. /\ job[w].game = Now /\ completions = 0 /\ job[w].op # "forfeit"
            /\ proj = Projection(Now) /\ clock.on /\ clock.seat = job[w].before
        BY <2>1, <2>3 DEF Synced
      <3>2. clock'.on /\ clock'.seat = Now.turn
        BY <1>1, <2>1, <3>1
      <3> QED
        BY <1>1, <2>1, <2>2, <3>1, <3>2 DEF Synced
    <2> QED
      BY <1>1, <2>2, <2>3 DEF LoneInv
  <1>3. CASE StopTimer(w)
    <2>1. /\ pc[w] = "stop"
          /\ pc'[w] = IF job[w].op = "forfeit" THEN "publish" ELSE "complete"
          /\ clock' = [clock EXCEPT !.on = FALSE]
      BY <1>1, <1>3 DEF StopTimer, Goto
    <2>2. Now' = Now /\ Orderly(w)'
      BY <1>1, <2>1, LoneStays DEF LoneInv
    <2>3. ~clock'.on
      BY <1>1, <2>1
    <2>4. Synced(w) => Synced(w)'
      BY <1>1, <2>1, <2>2, <2>3 DEF Synced
    <2> QED
      BY <1>1, <2>2, <2>4 DEF LoneInv
  <1> QED
    BY <1>2, <1>3

\* The new state is published, and the command is done unless the game is over
\* (gameService.go, publishGameState).
LEMMA LonePublishes ==
    ASSUME IInv, NEW w \in Workers, LoneInv(w), PublishState(w) \/ PublishStateFails(w)
    PROVE  LoneInv(w)'
  <1>1. /\ pc[w] = "publish" /\ AfterPublish(w) /\ rows' = rows
        /\ pc \in [Workers -> Stages] /\ DOMAIN job = Workers
        /\ UNCHANGED <<proj, clock, completions, restarts>>
    BY DEF PublishState, PublishStateFails, IInv, Shapes
  <1>2. /\ ~job[w].game.ended => pc'[w] = "idle"
        /\ job[w].game.ended =>
              /\ pc'[w] = IF job[w].op = "forfeit" THEN "complete" ELSE "stop"
              /\ job' = job
    BY <1>1 DEF AfterPublish, Finish, Goto
  <1>3. pc'[w] # "append"
    BY <1>2
  <1>4. Now' = Now /\ Orderly(w)'
    BY <1>1, <1>3, LoneStays DEF LoneInv
  <1>5. CASE PublishState(w)
    <2>1. feed' = job[w].game /\ faults' = faults
      BY <1>5 DEF PublishState
    <2>2. ASSUME Synced(w) PROVE Synced(w)'
      <3>1. /\ job[w].game = Now /\ completions = 0 /\ proj = Projection(Now)
            /\ job[w].op = "forfeit" => Now.ended /\ ~clock.on
            /\ job[w].op # "forfeit" => clock.on /\ clock.seat = Now.turn
        BY <1>1, <2>2 DEF Synced
      <3>2. CASE Now.ended
        BY <1>1, <1>2, <1>4, <2>1, <3>1, <3>2 DEF Synced
      <3>3. CASE ~Now.ended
        <4>1. AtRest'
          BY <1>1, <1>4, <2>1, <3>1, <3>3 DEF AtRest
        <4> QED
          BY <1>2, <3>1, <3>3, <4>1 DEF Synced
      <3> QED
        BY <3>2, <3>3
    <2> QED
      BY <1>1, <1>4, <2>1, <2>2 DEF LoneInv
  <1>6. CASE PublishStateFails(w)
    <2>1. faults' # 0
      BY <1>6 DEF PublishStateFails, Fault, IInv, Shapes
    <2> QED
      BY <1>4, <2>1 DEF LoneInv
  <1> QED
    BY <1>5, <1>6

\* The end is announced (gameService.go, publishGameCompleted).
LEMMA LoneCompletes ==
    ASSUME IInv, NEW w \in Workers, LoneInv(w), PublishCompleted(w) \/ PublishCompletedFails(w)
    PROVE  LoneInv(w)'
  <1>1. /\ pc[w] = "complete" /\ pc'[w] = "idle" /\ rows' = rows
        /\ UNCHANGED <<proj, clock, feed, restarts>>
    BY DEF PublishCompleted, PublishCompletedFails, Finish, Goto, IInv, Shapes
  <1>2. Now' = Now /\ Orderly(w)'
    BY <1>1, LoneStays DEF LoneInv
  <1>3. CASE PublishCompleted(w)
    <2>1. completions' = completions + 1 /\ faults' = faults
      BY <1>3 DEF PublishCompleted
    <2>2. ASSUME Synced(w) PROVE Synced(w)'
      <3>1. /\ completions = 0 /\ proj = Projection(Now) /\ ~clock.on
            /\ feed = Now /\ Now.ended
        BY <1>1, <2>2 DEF Synced
      <3>2. AtRest'
        BY <1>1, <1>2, <2>1, <3>1 DEF AtRest
      <3> QED
        BY <1>1, <3>2 DEF Synced
    <2> QED
      BY <1>1, <1>2, <2>1, <2>2 DEF LoneInv
  <1>4. CASE PublishCompletedFails(w)
    <2>1. faults' # 0
      BY <1>4 DEF PublishCompletedFails, Fault, IInv, Shapes
    <2> QED
      BY <1>2, <2>1 DEF LoneInv
  <1> QED
    BY <1>3, <1>4

\* After a restart nothing is promised of the clock, and the log still shows one
\* game.
LEMMA LoneRestarts ==
    ASSUME IInv, NEW w \in Workers, LoneInv(w), Restart
    PROVE  LoneInv(w)'
  <1>1. rows' = rows /\ pc'[w] = "idle" /\ restarts' # 0
    BY DEF Restart, IInv, Shapes
  <1>2. Orderly(w)'
    BY <1>1, LoneStays DEF LoneInv
  <1> QED
    BY <1>1, <1>2 DEF LoneInv

\* Nothing happens.
LEMMA LoneStutters ==
    ASSUME NEW w, LoneInv(w), UNCHANGED vars
    PROVE  LoneInv(w)'
  BY DEF vars, LoneInv, Orderly, Synced, AtRest, Now

\* What the invariant of a lone goroutine promises.
LEMMA LoneInSync ==
    ASSUME IInv, NEW w, Workers = {w}, LoneInv(w)
    PROVE  AllInSync
  <1>1. /\ LoadedFrom(rows) = {Now} /\ Told(Now, Said(rows)) /\ Balanced(Now)
        /\ Numbered(rows)
    BY LoneLoads DEF LoneInv, Orderly
  <1>2. VersionsUnique
    BY <1>1 DEF VersionsUnique, Numbered
  <1>3. ScoresAddUp
    BY <1>1, TotalCounts DEF ScoresAddUp
  <1>4. Now.ended <=> \E i \in DOMAIN rows : IsEnding(i)
    BY <1>1 DEF Told, Said, Ends, IsEnding
  <1>5. Quiet /\ faults = 0 /\ restarts = 0 => AtRest
    BY DEF Quiet, LoneInv, Synced
  <1>6. ProjectionInSync /\ FeedInSync /\ ClockInSync
    BY <1>1, <1>5 DEF AtRest, ProjectionInSync, FeedInSync, ClockInSync
  <1>7. CompletedOnce
    BY <1>4, <1>5 DEF AtRest, CompletedOnce
  <1> QED
    BY <1>2, <1>3, <1>6, <1>7 DEF AllInSync

\* Requests that come one at a time leave rows, tables, feed, clock and notices in
\* agreement, and count every box once (gameService.go, MakeMove,
\* PassTurnOnTimeout, ForfeitGame).
THEOREM LoneAgrees ==
    ASSUME NEW CONSTANT w, Workers = {w}
    PROVE  Spec => []AllInSync
  <1>1. w \in Workers
    OBVIOUS
  <1>2. IInv /\ IInv' /\ LoneInv(w) /\ [Next]_vars => LoneInv(w)'
    <2> SUFFICES ASSUME IInv, IInv', LoneInv(w), [Next]_vars PROVE LoneInv(w)'
      OBVIOUS
    <2>1. ASSUME Work(w) PROVE LoneInv(w)'
      BY <1>1, <2>1, LoneCreates, LoneExpires, LoneAppends, LoneProjects, LoneClocks,
         LonePublishes, LoneCompletes DEF Work
    <2>2. ASSUME \/ \E move \in Moves : BeginMove(w, move)
                 \/ \E u \in Users : BeginForfeit(w, u)
          PROVE  LoneInv(w)'
      BY <1>1, <2>2, LoneBegins
    <2>3. ASSUME TickExpired(w) PROVE LoneInv(w)'
      BY <1>1, <2>3, LoneExpires
    <2>4. CASE Restart
      BY <1>1, <2>4, LoneRestarts
    <2>5. CASE UNCHANGED vars
      BY <2>5, LoneStutters
    <2>6. \A x \in Workers : x = w
      OBVIOUS
    <2> QED
      BY <2>1, <2>2, <2>3, <2>4, <2>5, <2>6 DEF Next
  <1>3. Init => LoneInv(w)
    BY LoneInit
  <1>4. IInv /\ LoneInv(w) => AllInSync
    BY LoneInSync
  <1> QED
    BY <1>2, <1>3, <1>4, Invariance, PTL DEF Spec

=============================================================================
