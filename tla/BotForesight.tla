---------------------------- MODULE BotForesight ----------------------------
(***************************************************************************)
(* How far a bot looks ahead (internal/game/bot_ai.go): what a quiet line  *)
(* would give away to the next player, found by playing the captures of     *)
(* that player on the simulated board, the largest first.                  *)
(***************************************************************************)
EXTENDS BotChoice

\* The scan of the simulation: most boxes, and the first such move in the
\* order of rows, columns and sides.
greedyMove(sim, p) ==
    LET moves == collectAllLegalMoves(sim, p)
        most  == Max({countNewCompletions(sim, m) : m \in moves})
        best  == {m \in moves : countNewCompletions(sim, m) = most}
    IN  CHOOSE m \in best : \A o \in best \ {m} : moveLess(m, o)

\* The loop of estimateOpponentChain.  The player who captures keeps the
\* turn, so all of it belongs to the player the loop starts with.
RECURSIVE harvest(_, _)
harvest(sim, p) ==
    IF collectAllLegalMoves(sim, p) = {} THEN 0
    ELSE LET m     == greedyMove(sim, p)
             taken == countNewCompletions(sim, m)
         IN  IF taken = 0 THEN 0 ELSE taken + harvest(simulate(sim, m, p), p)

\* Mutant: the opponent is taken to have one move only.
estimateOpponentChainShort(g, m) ==
    LET sim  == simulate(g, m, m.seat)
        next == (m.seat + 1) % NumPlayers
    IN  IF countNewCompletions(g, m) > 0 \/ collectAllLegalMoves(sim, next) = {} THEN 0
        ELSE countNewCompletions(sim, greedyMove(sim, next))

\* After a capture the loop runs for the bot itself and counts nothing.
estimateOpponentChain(g, m) ==
    IF countNewCompletions(g, m) > 0 THEN 0
    ELSE harvest(simulate(g, m, m.seat), (m.seat + 1) % NumPlayers)

------------------------------------------------------------------------------
(* Properties.                                                             *)

\* The most boxes the player to move can take before losing the turn, by the
\* rules of the aggregate and trying every order.
RECURSIVE MostTaken(_)
MostTaken(g) ==
    LET takers == {m \in dedupeMovesByPhysicalEdge(LegalNow(g)) : Gain(g, m) > 0}
    IN  IF takers = {} THEN 0
        ELSE Max({Gain(g, m) + MostTaken(ApplyMove(g, m)) : m \in takers})

\* What the bot fears a quiet move gives away is what the next player can
\* really take: the greedy simulation on copied grids agrees with the rules,
\* and a move that leaves no box with three sides gives nothing away
\* (estimateOpponentChain, countUnclaimedBoxesWithThreeEdges).
ForesightIsExact ==
    ~game.ended =>
        \A m \in dedupeMovesByPhysicalEdge(LegalNow(game)) :
            /\ countNewCompletions(game, m) = Gain(game, m)
            /\ Gain(game, m) = 0 =>
                 LET fear == estimateOpponentChain(game, m)
                 IN  /\ fear = MostTaken(ApplyMove(game, m))
                     /\ fear = 0 <=> countUnclaimedBoxesWithThreeEdges(game, m) = 0
=============================================================================
