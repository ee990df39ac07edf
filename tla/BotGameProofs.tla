----------------------------- MODULE BotGameProofs -----------------------------
(***************************************************************************)
(* Proofs about a game against bots, for any number of players, lines and  *)
(* goroutines and any lengths of the timers.                               *)
(*                                                                         *)
(* That somebody always drives the bots rests on one fact about the local  *)
(* variables: a goroutine that has seen the game end when it moved is      *)
(* right about it later, because an ended game never changes again.        *)
(*                                                                         *)
(* That a turn never overruns its limit needs more than the turn itself:   *)
(* what is left on the clock and what was spent add up to at most the      *)
(* limit, and the clock is only renewed when nothing has been spent yet.   *)
(***************************************************************************)
EXTENDS BotGame, TLAPS

USE TurnGameAssumption, TimesAssumption

------------------------------------------------------------------------------
(* The invariant.                                                          *)

Results == [op : {"move", "pass"}, next : Places, changed : BOOLEAN, over : BOOLEAN]
Pauses == [op : {"bot"}, wait : Nat]

\* The local variables a goroutine has at the stage it is at.
JobsKnown ==
    /\ job = [p \in Goroutines |-> job[p]]
    /\ \A p \in Goroutines :
          /\ pc[p] = "switch" => job[p] \in Results
          /\ pc[p] = "asleep" => job[p] \in Pauses
          /\ job[p].op = "grace" => pc[p] \in {"forfeit", "stop", "complete", "stopAgain"}

\* What a goroutine remembers of the end of the game is still true.
OverIsEnded == \A p \in Goroutines : pc[p] = "switch" /\ job[p].over => game.ended

IInv ==
    /\ TypeOK /\ JobsKnown /\ OverIsEnded
    /\ BotTurnAttended /\ GraceMatchesAbsence

\* Whoever is about to stop the clock or to announce the end is right.
DoneIsOver ==
    \A p \in Goroutines : pc[p] \in {"stop", "complete", "stopAgain"} => game.ended

\* While the game lasts, its clock runs and somebody looks at it.
ClockRuns ==
    /\ ~game.ended => clock.on /\ pc[Ticker] # "gone"
    /\ pc[Ticker] \notin {"idle", "asleep"}

\* Until a delay, the clock leaves a turn no more than is left of its limit,
\* and the clock is renewed only at the beginning of a turn.
OnTime ==
    ~game.ended /\ ~delayed =>
        /\ spent + clock.endsIn <= TurnLimit
        /\ \A p \in Goroutines : pc[p] = "switch" /\ job[p].changed => spent = 0

TimeInv == DoneIsOver /\ ClockRuns /\ OnTime

------------------------------------------------------------------------------
(* The game.                                                               *)

LEMMA FollowingType ==
    ASSUME NEW g \in TurnGames
    PROVE  following(g) \in Places
  BY DEF following, TurnGames, Places

\* Each command leads from a game to a game, and none starts from an ended one.
LEMMA CommandsType ==
    ASSUME NEW g \in TurnGames
    PROVE  /\ AfterMove(g) \in SUBSET TurnGames
           /\ AfterPass(g) \in TurnGames
           /\ AfterForfeit(g) \in TurnGames
           /\ g.ended => AfterMove(g) = {}
  <1>1. following(g) \in Places
    BY FollowingType
  <1>2. AfterMove(g) \in SUBSET TurnGames
    <2>1. CASE g.ended \/ g.left = 0
      BY <2>1 DEF AfterMove
    <2>2. CASE ~(g.ended \/ g.left = 0) /\ g.left = 1
      BY <2>2 DEF AfterMove, TurnGames
    <2>3. CASE ~(g.ended \/ g.left = 0) /\ g.left # 1
      <3> SUFFICES ASSUME NEW h \in AfterMove(g) PROVE h \in TurnGames
        OBVIOUS
      <3>1. PICK t \in {g.turn, following(g)} : h = [g EXCEPT !.left = @ - 1, !.turn = t]
        BY <2>3 DEF AfterMove
      <3>2. t \in Places /\ g.left - 1 \in 0 .. LineCount
        BY <1>1, <2>3 DEF TurnGames
      <3> QED
        BY <3>1, <3>2 DEF TurnGames
    <2> QED
      BY <2>1, <2>2, <2>3
  <1> QED
    BY <1>1, <1>2 DEF AfterPass, AfterForfeit, AfterMove, TurnGames

\* Set keeps the types of the game and of the history of its turn.
LEMMA SetType ==
    ASSUME TypeOK, NEW g \in TurnGames, Set(g)
    PROVE  game' \in TurnGames /\ spent' \in 0 .. TurnLimit + 1 /\ game' = g
  BY DEF Set, TypeOK

LEMMA ResultType ==
    ASSUME NEW op \in {"move", "pass"}, NEW g \in TurnGames, TypeOK
    PROVE  Result(op, g) \in Results /\ Result(op, g).over = g.ended
  BY DEF Result, Results, TurnGames, TypeOK

------------------------------------------------------------------------------
(* Initial states.                                                         *)

LEMMA InitIInv == Init => IInv
  <1> SUFFICES ASSUME Init PROVE IInv
    OBVIOUS
  <1>0. PICK w \in Workers :
          /\ pc = [p \in Goroutines |->
                      IF p = Ticker THEN "waiting"
                      ELSE IF p = w /\ BotsTurn THEN "check" ELSE "idle"]
          /\ job = [p \in Goroutines |->
                      IF p = w /\ BotsTurn THEN [op |-> "bot"] ELSE NoJob]
    BY DEF Init
  <1>1. TypeOK
    <2>1. game \in TurnGames /\ 0 \in Places
      BY DEF Init, TurnInit, StartOfGame, TurnGames, Places
    <2>2. pc \in [Goroutines -> Stages]
      BY <1>0 DEF Stages
    <2>3. clock \in [on : BOOLEAN, seat : Places, endsIn : 0 .. TurnLimit]
      BY <2>1 DEF Init
    <2>4. grace \in NoTimer .. GraceLimit
      BY DEF Init, NoTimer
    <2>5. spent \in 0 .. TurnLimit + 1 /\ completions \in Nat
      BY DEF Init
    <2>6. human \in Places /\ away \in BOOLEAN /\ delayed \in BOOLEAN
      BY DEF Init
    <2> QED
      BY <2>1, <2>2, <2>3, <2>4, <2>5, <2>6 DEF TypeOK
  <1>2. JobsKnown /\ OverIsEnded
    BY <1>0 DEF JobsKnown, OverIsEnded, NoJob
  <1>3. BotTurnAttended
    BY <1>0 DEF BotTurnAttended, Playing, Goroutines
  <1>4. GraceMatchesAbsence
    BY DEF Init, GraceMatchesAbsence
  <1> QED
    BY <1>1, <1>2, <1>3, <1>4 DEF IInv

------------------------------------------------------------------------------
(* Steps.                                                                  *)

Attending(p) == WillKick(p) \/ Playing(p)

\* If the game stays and nobody who attends to the bots stops, they are
\* attended to.
LEMMA StillAttended ==
    ASSUME BotTurnAttended, UNCHANGED <<game, human>>,
           \A p \in Goroutines : Attending(p) => Attending(p)'
    PROVE  BotTurnAttended'
  BY DEF BotTurnAttended, BotsTurn, Attending

\* If the timers stay and no grace callback ends, absences are on the clock.
LEMMA StillGraced ==
    ASSUME GraceMatchesAbsence, UNCHANGED <<clock, away, grace>>,
           \A w \in Workers : job[w].op = "grace" => job'[w].op = "grace"
    PROVE  GraceMatchesAbsence'
  BY DEF GraceMatchesAbsence

\* Going to another stage is becoming what one was, at another stage.
LEMMA GotoIsBecome ==
    ASSUME JobsKnown, NEW p \in Goroutines, NEW stage, Goto(p, stage), UNCHANGED job
    PROVE  Become(p, stage, job[p])
  BY DEF JobsKnown, Become, Goto

\* What a step of one goroutine does to what is known of all of them.
LEMMA BecomeKeeps ==
    ASSUME IInv, NEW p \in Goroutines, NEW stage \in Stages, NEW j,
           Become(p, stage, j), game.ended => game'.ended,
           stage = "switch" => j \in Results /\ (j.over => game'.ended),
           stage = "asleep" => j \in Pauses,
           j.op = "grace" => stage \in {"forfeit", "stop", "complete", "stopAgain"}
    PROVE  /\ JobsKnown' /\ OverIsEnded'
           /\ pc' \in [Goroutines -> Stages]
           /\ pc'[p] = stage /\ job'[p] = j
           /\ \A q \in Goroutines \ {p} : pc'[q] = pc[q] /\ job'[q] = job[q]
  <1>1. pc' = [pc EXCEPT ![p] = stage] /\ job' = [job EXCEPT ![p] = j]
    BY DEF Become, Goto
  <1>2. /\ pc' \in [Goroutines -> Stages]
        /\ pc'[p] = stage /\ job'[p] = j
        /\ \A q \in Goroutines \ {p} : pc'[q] = pc[q] /\ job'[q] = job[q]
    BY <1>1 DEF IInv, TypeOK, JobsKnown
  <1>3. JobsKnown'
    <2>1. job' = [q \in Goroutines |-> job'[q]]
      BY <1>1 DEF IInv, JobsKnown
    <2> QED
      BY <1>2, <2>1 DEF IInv, JobsKnown
  <1>4. OverIsEnded'
    BY <1>2 DEF IInv, OverIsEnded
  <1> QED
    BY <1>2, <1>3, <1>4

\* A step of one goroutine that leaves the game and the timers alone.
LEMMA LocalStepKeeps ==
    ASSUME IInv, NEW p \in Goroutines, NEW stage \in Stages \ {"switch"}, NEW j,
           Become(p, stage, j), UNCHANGED <<game, human, delayed, away, spent>>,
           UNCHANGED <<clock, grace>>, completions' \in Nat,
           stage = "asleep" => j \in Pauses,
           j.op = "grace" => stage \in {"forfeit", "stop", "complete", "stopAgain"},
           job[p].op = "grace" => j.op = "grace",
           Attending(p) /\ ~game.ended /\ BotsTurn => stage \in {"kick", "check", "asleep"}
    PROVE  IInv'
  <1>1. /\ JobsKnown' /\ OverIsEnded'
        /\ pc' \in [Goroutines -> Stages]
        /\ pc'[p] = stage /\ job'[p] = j
        /\ \A q \in Goroutines \ {p} : pc'[q] = pc[q] /\ job'[q] = job[q]
    BY BecomeKeeps
  <1>2. TypeOK'
    BY <1>1 DEF IInv, TypeOK
  <1>3. BotTurnAttended'
    <2>1. CASE game.ended \/ ~BotsTurn
      BY <2>1 DEF BotTurnAttended, BotsTurn
    <2>2. CASE ~game.ended /\ BotsTurn
      <3>1. \A q \in Goroutines : Attending(q) => Attending(q)'
        BY <1>1, <2>2 DEF Attending, WillKick, Playing
      <3> QED
        BY <3>1, StillAttended DEF IInv
    <2> QED
      BY <2>1, <2>2
  <1>4. GraceMatchesAbsence'
    BY <1>1, StillGraced DEF IInv, Goroutines
  <1> QED
    BY <1>1, <1>2, <1>3, <1>4 DEF IInv

\* A step of one goroutine that changes the game, which had not ended.
LEMMA GameStepKeeps ==
    ASSUME IInv, NEW p \in Goroutines, NEW stage \in Stages \ {"asleep"}, NEW j,
           NEW g \in TurnGames, ~game.ended, Set(g), Become(p, stage, j),
           UNCHANGED <<human, delayed, clock, away, grace, completions>>,
           stage = "switch" => j \in Results /\ j.over = g.ended,
           j.op = "grace" => stage \in {"forfeit", "stop", "complete", "stopAgain"},
           job[p].op = "grace" => j.op = "grace",
           g.ended \/ stage \in {"switch", "check"}
    PROVE  IInv'
  <1>1. game' = g /\ game' \in TurnGames /\ spent' \in 0 .. TurnLimit + 1
    BY SetType DEF IInv
  <1>2. /\ JobsKnown' /\ OverIsEnded'
        /\ pc' \in [Goroutines -> Stages]
        /\ pc'[p] = stage /\ job'[p] = j
        /\ \A q \in Goroutines \ {p} : pc'[q] = pc[q] /\ job'[q] = job[q]
    BY <1>1, BecomeKeeps
  <1>3. TypeOK'
    BY <1>1, <1>2 DEF IInv, TypeOK
  <1>4. BotTurnAttended'
    BY <1>1, <1>2 DEF BotTurnAttended, WillKick, Playing
  <1>5. GraceMatchesAbsence'
    BY <1>2, StillGraced DEF IInv, Goroutines
  <1> QED
    BY <1>2, <1>3, <1>4, <1>5 DEF IInv

------------------------------------------------------------------------------
(* The actions.                                                            *)

LEMMA SubmitMoveKeeps ==
    ASSUME IInv, NEW w \in Workers, SubmitMove(w)
    PROVE  IInv'
  <1>1. PICK g \in AfterMove(game) :
            /\ Set(g) /\ Become(w, "switch", Result("move", g))
            /\ UNCHANGED <<human, delayed, clock, away, grace, completions>>
    BY DEF SubmitMove
  <1>2. g \in TurnGames /\ ~game.ended
    BY CommandsType DEF IInv, TypeOK
  <1>3. Result("move", g) \in Results /\ Result("move", g).over = g.ended
    BY <1>2, ResultType DEF IInv
  <1>4. Result("move", g).op # "grace" /\ job[w].op # "grace"
    BY DEF Result, SubmitMove, IInv, JobsKnown, Goroutines
  <1>5. w \in Goroutines /\ "switch" \in Stages
    BY DEF Goroutines, Stages
  <1> QED
    BY <1>1, <1>2, <1>3, <1>4, <1>5, GameStepKeeps

LEMMA SubmitForfeitKeeps ==
    ASSUME IInv, NEW w \in Workers, SubmitForfeit(w)
    PROVE  IInv'
  <1>1. AfterForfeit(game) \in TurnGames /\ AfterForfeit(game).ended
    BY CommandsType DEF IInv, TypeOK, AfterForfeit, TurnGames
  <1>2. job[w].op # "grace"
    BY DEF SubmitForfeit, IInv, JobsKnown, Goroutines
  <1>3. w \in Goroutines /\ "stop" \in Stages
    BY DEF Goroutines, Stages
  <1> QED
    BY <1>1, <1>2, <1>3, GameStepKeeps DEF SubmitForfeit

LEMMA SwitchTurnKeeps ==
    ASSUME IInv, NEW p \in Goroutines, SwitchTurn(p)
    PROVE  IInv'
  <1> DEFINE stage == IF job[p].over THEN "stop" ELSE "kick"
  <1>1. /\ pc[p] = "switch" /\ job[p] \in Results
        /\ UNCHANGED <<game, human, delayed, away, grace, job, completions, spent>>
    BY DEF SwitchTurn, IInv, JobsKnown
  <1>2. Become(p, stage, job[p])
    BY GotoIsBecome DEF SwitchTurn, IInv
  <1>3. stage \in Stages /\ stage \notin {"switch", "asleep"} /\ job[p].op # "grace"
    BY <1>1 DEF Stages, IInv, JobsKnown
  <1>4. /\ JobsKnown' /\ OverIsEnded'
        /\ pc' \in [Goroutines -> Stages]
        /\ pc'[p] = stage
        /\ \A q \in Goroutines \ {p} : pc'[q] = pc[q] /\ job'[q] = job[q]
    <2> HIDE DEF stage
    <2> QED
      BY <1>1, <1>2, <1>3, BecomeKeeps
  <1>5. /\ clock' \in [on : BOOLEAN, seat : Places, endsIn : 0 .. TurnLimit]
        /\ clock'.on = clock.on
    <2>1. job[p].next \in Places /\ TurnLimit \in 0 .. TurnLimit
      BY <1>1 DEF Results
    <2>2. clock \in [on : BOOLEAN, seat : Places, endsIn : 0 .. TurnLimit]
      BY DEF IInv, TypeOK
    <2>3. clock' \in {clock, [clock EXCEPT !.seat = job[p].next, !.endsIn = TurnLimit]}
      BY DEF SwitchTurn
    <2> QED
      BY <2>1, <2>2, <2>3
  <1>6. TypeOK'
    BY <1>1, <1>4, <1>5 DEF IInv, TypeOK
  <1>7. BotTurnAttended'
    <2>1. CASE job[p].over
      BY <1>1, <2>1 DEF IInv, OverIsEnded, BotTurnAttended
    <2>2. CASE ~job[p].over
      BY <1>4, <2>2 DEF BotTurnAttended, WillKick
    <2> QED
      BY <2>1, <2>2
  <1>8. GraceMatchesAbsence'
    BY <1>1, <1>5 DEF IInv, GraceMatchesAbsence
  <1> QED
    BY <1>4, <1>6, <1>7, <1>8 DEF IInv

LEMMA KickKeeps ==
    ASSUME IInv, NEW p \in Goroutines, Kick(p)
    PROVE  IInv'
  <1>1. /\ pc[p] = "kick" /\ job[p].op # "grace"
        /\ UNCHANGED <<game, human, delayed, clock, away, grace, completions, spent>>
        /\ completions' \in Nat
    BY DEF Kick, IInv, JobsKnown, TypeOK
  <1>2. CASE ~BotsTurn
    <2> DEFINE stage == IF p = Ticker THEN "waiting" ELSE "idle"
    <2>1. Become(p, stage, NoJob)
      BY <1>2 DEF Kick, Done
    <2>2. stage \in Stages \ {"switch", "asleep"}
      BY DEF Stages
    <2>3. NoJob.op # "grace"
      BY DEF NoJob
    <2> HIDE DEF stage
    <2> QED
      BY <1>1, <1>2, <2>1, <2>2, <2>3, LocalStepKeeps
  <1>3. CASE BotsTurn /\ p # Ticker
    <2>1. Become(p, "check", [op |-> "bot"])
      BY <1>3 DEF Kick
    <2>2. "check" \in Stages
      BY DEF Stages
    <2> QED
      BY <1>1, <2>1, <2>2, LocalStepKeeps
  <1>4. CASE BotsTurn /\ p = Ticker
    <2>1. PICK w \in Workers :
              /\ pc[w] = "idle"
              /\ pc' = [pc EXCEPT ![p] = "waiting", ![w] = "check"]
              /\ job' = [job EXCEPT ![p] = NoJob, ![w] = [op |-> "bot"]]
      BY <1>4 DEF Kick
    <2>2. w \in Goroutines /\ w # p /\ job[w].op # "grace"
      BY <1>4, <2>1 DEF Goroutines, IInv, JobsKnown
    <2>3. /\ pc' \in [Goroutines -> Stages]
          /\ pc'[p] = "waiting" /\ job'[p] = NoJob
          /\ pc'[w] = "check" /\ job'[w] = [op |-> "bot"]
          /\ \A q \in Goroutines \ {p, w} : pc'[q] = pc[q] /\ job'[q] = job[q]
      BY <2>1, <2>2 DEF IInv, TypeOK, JobsKnown, Stages
    <2>4. job' = [q \in Goroutines |-> job'[q]]
      BY <2>1 DEF IInv, JobsKnown
    <2>5. JobsKnown'
      BY <2>3, <2>4 DEF IInv, JobsKnown, NoJob
    <2>6. OverIsEnded'
      BY <1>1, <2>3 DEF IInv, OverIsEnded
    <2>7. TypeOK'
      BY <1>1, <2>3 DEF IInv, TypeOK
    <2>8. BotTurnAttended'
      BY <2>2, <2>3 DEF BotTurnAttended, Playing
    <2>9. GraceMatchesAbsence'
      BY <1>1, <1>4, <2>2, <2>3, StillGraced DEF IInv, Goroutines
    <2> QED
      BY <2>5, <2>6, <2>7, <2>8, <2>9 DEF IInv
  <1> QED
    BY <1>2, <1>3, <1>4

LEMMA StopTimerKeeps ==
    ASSUME IInv, NEW p \in Goroutines, StopTimer(p)
    PROVE  IInv'
  <1>1. /\ pc[p] \in {"stop", "stopAgain"}
        /\ clock' = [clock EXCEPT !.on = FALSE] /\ grace' = NoTimer
        /\ UNCHANGED <<game, human, delayed, away, completions, spent>>
    BY DEF StopTimer
  <1>2. PICK stage, j :
            /\ stage \in {"complete", "waiting", "idle"}
            /\ Become(p, stage, j)
            /\ j.op = "grace" => stage = "complete"
    <2>1. CASE pc[p] = "stop"
      <3>1. Become(p, "complete", job[p])
        BY <2>1, GotoIsBecome DEF StopTimer, IInv
      <3> QED
        BY <3>1
    <2>2. CASE pc[p] = "stopAgain"
      <3>1. Done(p) /\ NoJob.op # "grace"
        BY <2>2 DEF StopTimer, NoJob
      <3>2. Become(p, IF p = Ticker THEN "waiting" ELSE "idle", NoJob)
        BY <3>1 DEF Done
      <3> QED
        BY <3>1, <3>2
    <2> QED
      BY <1>1, <2>1, <2>2
  <1>3. stage \in Stages
    BY <1>2 DEF Stages
  <1>4. /\ JobsKnown' /\ OverIsEnded'
        /\ pc' \in [Goroutines -> Stages]
        /\ \A q \in Goroutines \ {p} : pc'[q] = pc[q] /\ job'[q] = job[q]
    BY <1>1, <1>2, <1>3, BecomeKeeps
  <1>5. TypeOK'
    <2>1. clock' \in [on : BOOLEAN, seat : Places, endsIn : 0 .. TurnLimit]
      BY <1>1 DEF IInv, TypeOK
    <2>2. grace' \in NoTimer .. GraceLimit
      BY <1>1 DEF NoTimer
    <2> QED
      BY <1>1, <1>4, <2>1, <2>2 DEF IInv, TypeOK
  <1>6. BotTurnAttended'
    <2>1. \A q \in Goroutines : Attending(q) => Attending(q)'
      BY <1>1, <1>4 DEF Attending, WillKick, Playing
    <2> QED
      BY <1>1, <2>1, StillAttended DEF IInv
  <1>7. GraceMatchesAbsence'
    BY <1>1 DEF GraceMatchesAbsence, IInv, TypeOK, NoTimer
  <1> QED
    BY <1>4, <1>5, <1>6, <1>7 DEF IInv

LEMMA PublishCompletedKeeps ==
    ASSUME IInv, NEW p \in Goroutines, PublishCompleted(p)
    PROVE  IInv'
  <1>1. /\ pc[p] = "complete" /\ completions' \in Nat
        /\ UNCHANGED <<game, human, delayed, clock, away, grace, spent>>
    BY DEF PublishCompleted, IInv, TypeOK
  <1>2. CASE job[p].op = "grace"
    <2>1. Become(p, "stopAgain", job[p])
      BY <1>2, GotoIsBecome DEF PublishCompleted, IInv
    <2>2. "stopAgain" \in Stages \ {"switch", "asleep"}
      BY DEF Stages
    <2>3. ~Attending(p)
      BY <1>1 DEF Attending, WillKick, Playing
    <2> QED
      BY <1>1, <1>2, <2>1, <2>2, <2>3, LocalStepKeeps
  <1>3. CASE job[p].op # "grace"
    <2> DEFINE stage == IF p = Ticker THEN "waiting" ELSE "idle"
    <2>1. Become(p, stage, NoJob)
      BY <1>3 DEF PublishCompleted, Done
    <2>2. stage \in Stages \ {"switch", "asleep"} /\ NoJob.op # "grace"
      BY DEF Stages, NoJob
    <2>3. ~Attending(p)
      BY <1>1 DEF Attending, WillKick, Playing
    <2> HIDE DEF stage
    <2> QED
      BY <1>1, <1>3, <2>1, <2>2, <2>3, LocalStepKeeps
  <1> QED
    BY <1>2, <1>3

LEMMA BotCheckKeeps ==
    ASSUME IInv, NEW w \in Workers, BotCheck(w)
    PROVE  IInv'
  <1>1. /\ pc[w] = "check" /\ job[w].op # "grace" /\ w \in Goroutines
        /\ completions' \in Nat
        /\ UNCHANGED <<game, human, delayed, clock, away, grace, completions, spent>>
    BY DEF BotCheck, IInv, JobsKnown, TypeOK, Goroutines
  <1>2. CASE PlayersTurnIsOver
    <2>1. Become(w, "final", [op |-> "bot"])
      BY <1>2 DEF BotCheck
    <2>2. "final" \in Stages \ {"switch"}
      BY DEF Stages
    <2> QED
      BY <1>1, <1>2, <2>1, <2>2, LocalStepKeeps DEF PlayersTurnIsOver
  <1>3. CASE ~PlayersTurnIsOver
    <2>1. Become(w, "asleep", [op |-> "bot", wait |-> BotDelay])
      BY <1>3 DEF BotCheck
    <2>2. "asleep" \in Stages \ {"switch"}
      BY DEF Stages
    <2>3. [op |-> "bot", wait |-> BotDelay] \in Pauses
      BY DEF Pauses
    <2> QED
      BY <1>1, <2>1, <2>2, <2>3, LocalStepKeeps
  <1> QED
    BY <1>2, <1>3

LEMMA BotMoveKeeps ==
    ASSUME IInv, NEW w \in Workers, BotMove(w)
    PROVE  IInv'
  <1>1. /\ pc[w] = "asleep" /\ job[w].op # "grace" /\ w \in Goroutines
        /\ completions' \in Nat
        /\ UNCHANGED <<human, delayed, clock, away, grace, completions>>
    BY DEF BotMove, IInv, JobsKnown, TypeOK, Goroutines
  <1>2. {"check", "final"} \subseteq Stages
    BY DEF Stages
  <1>3. CASE PlayersTurnIsOver
    <2>1. Become(w, "final", [op |-> "bot"]) /\ UNCHANGED <<game, spent>>
      BY <1>3 DEF BotMove
    <2> QED
      BY <1>1, <1>2, <1>3, <2>1, LocalStepKeeps DEF PlayersTurnIsOver
  <1>4. CASE ~PlayersTurnIsOver
    <2>1. PICK g \in AfterMove(game) :
            /\ Set(g)
            /\ Become(w, IF g.ended THEN "final" ELSE "check", [op |-> "bot"])
      BY <1>4 DEF BotMove
    <2>2. g \in TurnGames /\ ~game.ended
      BY CommandsType DEF IInv, TypeOK
    <2>3. PICK stage \in {"check", "final"} :
            Become(w, stage, [op |-> "bot"]) /\ (g.ended \/ stage = "check")
      BY <2>1
    <2> QED
      BY <1>1, <1>2, <2>1, <2>2, <2>3, GameStepKeeps
  <1> QED
    BY <1>3, <1>4

LEMMA BotFinalKeeps ==
    ASSUME IInv, NEW w \in Workers, BotFinal(w)
    PROVE  IInv'
  <1>0. /\ pc[w] = "final" /\ w \in Goroutines
        /\ completions' \in {completions, completions + 1}
        /\ UNCHANGED <<game, human, delayed, clock, away, grace, spent>>
    BY DEF BotFinal, Goroutines
  <1>1. job[w].op # "grace" /\ completions' \in Nat
    BY <1>0 DEF IInv, JobsKnown, TypeOK
  <1>2. Become(w, "idle", NoJob)
    BY DEF BotFinal, Done
  <1>3. "idle" \in Stages \ {"switch"} /\ NoJob.op # "grace"
    BY DEF Stages, NoJob
  <1>4. ~Attending(w)
    BY <1>0 DEF Attending, WillKick, Playing
  <1> QED
    BY <1>0, <1>1, <1>2, <1>3, <1>4, LocalStepKeeps

LEMMA GraceFiresKeeps ==
    ASSUME IInv, NEW w \in Workers, GraceFires(w)
    PROVE  IInv'
  <1>1. /\ pc[w] = "idle" /\ grace' = NoTimer
        /\ Become(w, "forfeit", [op |-> "grace"])
        /\ UNCHANGED <<game, human, delayed, clock, away, completions, spent>>
    BY DEF GraceFires
  <1>2. w \in Goroutines /\ "forfeit" \in Stages
    BY DEF Goroutines, Stages
  <1>3. /\ JobsKnown' /\ OverIsEnded'
        /\ pc' \in [Goroutines -> Stages] /\ job'[w].op = "grace"
        /\ \A q \in Goroutines \ {w} : pc'[q] = pc[q] /\ job'[q] = job[q]
    BY <1>1, <1>2, BecomeKeeps
  <1>4. TypeOK'
    <2>1. grace' \in NoTimer .. GraceLimit
      BY <1>1 DEF NoTimer
    <2> QED
      BY <1>1, <1>3, <2>1 DEF IInv, TypeOK
  <1>5. BotTurnAttended'
    <2>1. \A q \in Goroutines : Attending(q) => Attending(q)'
      BY <1>1, <1>3 DEF Attending, WillKick, Playing
    <2> QED
      BY <1>1, <2>1, StillAttended DEF IInv
  <1>6. GraceMatchesAbsence'
    BY <1>1, <1>3 DEF GraceMatchesAbsence
  <1> QED
    BY <1>3, <1>4, <1>5, <1>6 DEF IInv

LEMMA GraceForfeitKeeps ==
    ASSUME IInv, NEW w \in Workers, GraceForfeit(w)
    PROVE  IInv'
  <1>1. /\ pc[w] = "forfeit" /\ w \in Goroutines /\ completions' \in Nat
        /\ UNCHANGED <<human, delayed, clock, away, grace, job, completions>>
    BY DEF GraceForfeit, IInv, TypeOK, Goroutines
  <1>2. {"stop", "stopAgain"} \subseteq Stages
    BY DEF Stages
  <1>3. CASE game.ended
    <2>1. Become(w, "stopAgain", job[w]) /\ UNCHANGED <<game, spent>>
      BY <1>1, <1>3, GotoIsBecome DEF GraceForfeit, IInv
    <2>2. ~Attending(w)
      BY <1>1 DEF Attending, WillKick, Playing
    <2> QED
      BY <1>1, <1>2, <2>1, <2>2, LocalStepKeeps
  <1>4. CASE ~game.ended
    <2>1. Become(w, "stop", job[w]) /\ Set(AfterForfeit(game))
      BY <1>1, <1>4, GotoIsBecome DEF GraceForfeit, IInv
    <2>2. AfterForfeit(game) \in TurnGames /\ AfterForfeit(game).ended
      BY CommandsType DEF IInv, TypeOK, AfterForfeit, TurnGames
    <2> QED
      BY <1>1, <1>2, <1>4, <2>1, <2>2, GameStepKeeps
  <1> QED
    BY <1>3, <1>4

LEMMA TickExpiredKeeps ==
    ASSUME IInv, TickExpired
    PROVE  IInv'
  <1>1. /\ pc[Ticker] = "waiting" /\ Ticker \in Goroutines /\ completions' \in Nat
        /\ UNCHANGED <<game, human, delayed, clock, away, grace, completions, spent>>
    BY DEF TickExpired, IInv, TypeOK, Goroutines
  <1>2. Become(Ticker, "calling", job[Ticker])
    BY <1>1, GotoIsBecome DEF TickExpired, IInv
  <1>3. "calling" \in Stages \ {"switch"} /\ job[Ticker].op # "grace"
    BY <1>1 DEF Stages, IInv, JobsKnown
  <1>4. ~Attending(Ticker)
    BY <1>1 DEF Attending, WillKick, Playing
  <1> QED
    BY <1>1, <1>2, <1>3, <1>4, LocalStepKeeps

LEMMA TickGoneKeeps ==
    ASSUME IInv, TickGone
    PROVE  IInv'
  <1>1. /\ pc[Ticker] = "waiting" /\ Ticker \in Goroutines /\ completions' \in Nat
        /\ UNCHANGED <<game, human, delayed, clock, away, grace, completions, spent>>
    BY DEF TickGone, IInv, TypeOK, Goroutines
  <1>2. Become(Ticker, "gone", job[Ticker])
    BY <1>1, GotoIsBecome DEF TickGone, IInv
  <1>3. "gone" \in Stages \ {"switch"} /\ job[Ticker].op # "grace"
    BY <1>1 DEF Stages, IInv, JobsKnown
  <1>4. ~Attending(Ticker)
    BY <1>1 DEF Attending, WillKick, Playing
  <1> QED
    BY <1>1, <1>2, <1>3, <1>4, LocalStepKeeps

LEMMA TickPassKeeps ==
    ASSUME IInv, TickPass
    PROVE  IInv'
  <1>1. /\ pc[Ticker] = "calling" /\ Ticker \in Goroutines /\ completions' \in Nat
        /\ job[Ticker].op # "grace"
        /\ UNCHANGED <<human, delayed, clock, away, grace, completions>>
    BY DEF TickPass, IInv, JobsKnown, TypeOK, Goroutines
  <1>2. CASE game.ended
    <2>1. Become(Ticker, "waiting", NoJob) /\ UNCHANGED <<game, spent>>
      BY <1>2 DEF TickPass, Done
    <2>2. "waiting" \in Stages \ {"switch"} /\ NoJob.op # "grace"
      BY DEF Stages, NoJob
    <2>3. ~Attending(Ticker)
      BY <1>1 DEF Attending, WillKick, Playing
    <2> QED
      BY <1>1, <2>1, <2>2, <2>3, LocalStepKeeps
  <1>3. CASE ~game.ended
    <2> DEFINE j == Result("pass", AfterPass(game))
    <2>1. Become(Ticker, "switch", j) /\ Set(AfterPass(game))
      BY <1>3 DEF TickPass
    <2>2. AfterPass(game) \in TurnGames
      BY CommandsType DEF IInv, TypeOK
    <2>3. j \in Results /\ j.over = AfterPass(game).ended
      BY <2>2, ResultType DEF IInv
    <2>4. j.op # "grace" /\ "switch" \in Stages
      BY DEF Result, Stages
    <2> HIDE DEF j
    <2> QED
      BY <1>1, <1>3, <2>1, <2>2, <2>3, <2>4, GameStepKeeps
  <1> QED
    BY <1>2, <1>3

\* Steps that leave the game and the goroutines' stages alone.
LEMMA TimersStepKeeps ==
    ASSUME IInv, TypeOK', GraceMatchesAbsence', UNCHANGED <<game, human, pc>>,
           UNCHANGED job
    PROVE  IInv'
  <1>1. JobsKnown' /\ OverIsEnded'
    BY DEF IInv, JobsKnown, OverIsEnded
  <1>2. BotTurnAttended'
    BY StillAttended DEF IInv, Attending, WillKick, Playing
  <1> QED
    BY <1>1, <1>2 DEF IInv

LEMMA ConnectionKeeps ==
    ASSUME IInv, HandleDisconnect \/ HandleReconnect
    PROVE  IInv'
  <1>1. /\ clock.on /\ away' \in BOOLEAN /\ (away' => grace' = GraceLimit)
        /\ (~away' => grace' = NoTimer)
        /\ UNCHANGED <<game, human, delayed, clock, pc, job, completions, spent>>
    BY DEF HandleDisconnect, HandleReconnect
  <1>2. grace' \in NoTimer .. GraceLimit /\ GraceLimit # NoTimer
    BY <1>1 DEF NoTimer
  <1>3. TypeOK'
    BY <1>1, <1>2 DEF IInv, TypeOK
  <1>4. GraceMatchesAbsence'
    BY <1>1, <1>2 DEF GraceMatchesAbsence
  <1> QED
    BY <1>1, <1>3, <1>4, TimersStepKeeps

LEMMA ElapseKeeps ==
    ASSUME IInv, Elapse
    PROVE  IInv'
  <1>1. /\ clock' = [clock EXCEPT !.endsIn = less(@)] /\ grace' = less(grace)
        /\ job' = [p \in Goroutines |-> IF pc[p] = "asleep"
                                        THEN [job[p] EXCEPT !.wait = less(@)] ELSE job[p]]
        /\ UNCHANGED <<game, human, away, pc, completions>>
    BY DEF Elapse
  <1>2. \A p \in Goroutines : /\ job'[p].op = job[p].op
                              /\ pc[p] # "asleep" => job'[p] = job[p]
                              /\ pc[p] = "asleep" => job'[p] \in Pauses
    <2> SUFFICES ASSUME NEW p \in Goroutines
                 PROVE  /\ job'[p].op = job[p].op
                        /\ pc[p] # "asleep" => job'[p] = job[p]
                        /\ pc[p] = "asleep" => job'[p] \in Pauses
      OBVIOUS
    <2>1. CASE pc[p] = "asleep"
      <3>1. PICK n \in Nat : job[p] = [op |-> "bot", wait |-> n]
        BY <2>1 DEF IInv, JobsKnown, Pauses
      <3>2. job'[p] = [op |-> "bot", wait |-> less(n)]
        BY <1>1, <2>1, <3>1
      <3>3. less(n) \in Nat
        BY DEF less
      <3> QED
        BY <2>1, <3>1, <3>2, <3>3 DEF Pauses
    <2>2. CASE pc[p] # "asleep"
      BY <1>1, <2>2
    <2> QED
      BY <2>1, <2>2
  <1>3. JobsKnown' /\ OverIsEnded'
    <2>1. job' = [p \in Goroutines |-> job'[p]]
      BY <1>1
    <2>2. JobsKnown'
      BY <1>1, <1>2, <2>1 DEF IInv, JobsKnown
    <2>3. OverIsEnded'
      BY <1>1, <1>2 DEF IInv, OverIsEnded
    <2> QED
      BY <2>2, <2>3
  <1>4. TypeOK'
    <2>1. clock' \in [on : BOOLEAN, seat : Places, endsIn : 0 .. TurnLimit]
      <3>1. less(clock.endsIn) \in 0 .. TurnLimit
        BY DEF IInv, TypeOK, less
      <3> QED
        BY <1>1, <3>1 DEF IInv, TypeOK
    <2>2. grace' \in NoTimer .. GraceLimit
      BY <1>1 DEF IInv, TypeOK, less, NoTimer
    <2>3. delayed' \in BOOLEAN /\ spent' \in 0 .. TurnLimit + 1
      BY DEF IInv, TypeOK, Elapse
    <2> QED
      BY <1>1, <2>1, <2>2, <2>3 DEF IInv, TypeOK
  <1>5. BotTurnAttended'
    <2>1. \A p \in Goroutines : Attending(p) => Attending(p)'
      BY <1>1, <1>2 DEF Attending, WillKick, Playing
    <2> QED
      BY <1>1, <2>1, StillAttended DEF IInv
  <1>6. GraceMatchesAbsence'
    <2>1. clock'.on = clock.on /\ (grace' = NoTimer <=> grace = NoTimer)
      BY <1>1 DEF IInv, TypeOK, less, NoTimer
    <2> QED
      BY <1>1, <1>2, <2>1 DEF IInv, GraceMatchesAbsence, Goroutines
  <1> QED
    BY <1>3, <1>4, <1>5, <1>6 DEF IInv

LEMMA NextIInv == IInv /\ [Next]_vars => IInv'
  <1> SUFFICES ASSUME IInv, [Next]_vars PROVE IInv'
    OBVIOUS
  <1>1. ASSUME NEW w \in Workers, WorkerStep(w) \/ SubmitMove(w) \/ SubmitForfeit(w)
        PROVE  IInv'
    <2>1. w \in Goroutines
      BY DEF Goroutines
    <2> QED
      BY <1>1, <2>1, SwitchTurnKeeps, KickKeeps, StopTimerKeeps, PublishCompletedKeeps,
         BotCheckKeeps, BotMoveKeeps, BotFinalKeeps, GraceFiresKeeps, GraceForfeitKeeps,
         SubmitMoveKeeps, SubmitForfeitKeeps DEF WorkerStep, Work
  <1>2. ASSUME TickerStep PROVE IInv'
    <2>1. Ticker \in Goroutines
      BY DEF Goroutines
    <2> QED
      BY <1>2, <2>1, SwitchTurnKeeps, KickKeeps, StopTimerKeeps, PublishCompletedKeeps,
         TickExpiredKeeps, TickPassKeeps, TickGoneKeeps DEF TickerStep, Work
  <1>3. CASE UNCHANGED vars
    BY <1>3, TimersStepKeeps DEF vars, IInv, TypeOK, GraceMatchesAbsence
  <1> QED
    BY <1>1, <1>2, <1>3, ConnectionKeeps, ElapseKeeps DEF Next

------------------------------------------------------------------------------
(* Time.                                                                   *)

LEMMA InitTimeInv == Init => TimeInv
  <1> SUFFICES ASSUME Init PROVE TimeInv
    OBVIOUS
  <1>1. /\ clock.on /\ clock.endsIn = TurnLimit /\ spent = 0
        /\ Ticker \in Goroutines
    BY DEF Init, Goroutines
  <1>2. pc[Ticker] = "waiting"
        /\ \A p \in Goroutines : pc[p] \in {"waiting", "check", "idle"}
    BY <1>1 DEF Init
  <1> QED
    BY <1>1, <1>2 DEF TimeInv, DoneIsOver, ClockRuns, OnTime

\* What a step of one goroutine that leaves the clock alone does to what is
\* known of time.
LEMMA BecomeOnTime ==
    ASSUME IInv, TimeInv, NEW p \in Goroutines, NEW stage, NEW j,
           Become(p, stage, j), UNCHANGED <<clock, delayed>>,
           game.ended => game'.ended, spent' \in {0, spent},
           stage \in {"stop", "complete", "stopAgain", "gone"} => game'.ended,
           p = Ticker => stage \notin {"idle", "asleep"},
           stage = "switch" => (j.changed => spent' = 0)
    PROVE  TimeInv'
  <1>1. /\ pc'[p] = stage /\ job'[p] = j
        /\ \A q \in Goroutines \ {p} : pc'[q] = pc[q] /\ job'[q] = job[q]
    BY DEF Become, Goto, IInv, TypeOK, JobsKnown
  <1>2. Ticker \in Goroutines
    BY DEF Goroutines
  <1>3. DoneIsOver'
    BY <1>1 DEF TimeInv, DoneIsOver
  <1>4. ClockRuns'
    BY <1>1, <1>2 DEF TimeInv, ClockRuns
  <1>5. OnTime'
    <2>1. clock.endsIn \in 0 .. TurnLimit /\ spent \in Nat
      BY DEF IInv, TypeOK
    <2> QED
      BY <1>1, <2>1 DEF TimeInv, OnTime
  <1> QED
    BY <1>3, <1>4, <1>5 DEF TimeInv

\* A turn that begins starts its history anew.
LEMMA SetSpent ==
    ASSUME NEW g, Set(g)
    PROVE  /\ game' = g /\ spent' \in {0, spent}
           /\ \A op : Result(op, g).changed => spent' = 0
  BY DEF Set, Result

LEMMA SubmitOnTime ==
    ASSUME IInv, TimeInv, NEW w \in Workers, SubmitMove(w) \/ SubmitForfeit(w)
    PROVE  TimeInv'
  <1>1. w \in Goroutines /\ w # Ticker /\ AfterForfeit(game).ended
    BY DEF Goroutines, AfterForfeit, IInv, TypeOK, TurnGames
  <1>2. CASE SubmitMove(w)
    <2>1. PICK g \in AfterMove(game) :
            /\ Set(g) /\ Become(w, "switch", Result("move", g))
            /\ UNCHANGED <<human, delayed, clock, away, grace, completions>>
      BY <1>2 DEF SubmitMove
    <2>2. ~game.ended
      BY <2>1, CommandsType DEF IInv, TypeOK
    <2> QED
      BY <1>1, <2>1, <2>2, SetSpent, BecomeOnTime
  <1>3. CASE SubmitForfeit(w)
    <2>1. /\ Set(AfterForfeit(game)) /\ Become(w, "stop", [op |-> "forfeit"])
          /\ UNCHANGED <<clock, delayed>>
      BY <1>3 DEF SubmitForfeit
    <2> QED
      BY <1>1, <2>1, SetSpent, BecomeOnTime
  <1> QED
    BY <1>2, <1>3

LEMMA SwitchTurnOnTime ==
    ASSUME IInv, TimeInv, NEW p \in Goroutines, SwitchTurn(p)
    PROVE  TimeInv'
  <1>1. /\ pc[p] = "switch" /\ job[p] \in Results
        /\ UNCHANGED <<game, delayed, job, spent>>
        /\ clock' \in {clock, [clock EXCEPT !.seat = job[p].next, !.endsIn = TurnLimit]}
        /\ clock' # clock => job[p].changed
    BY DEF SwitchTurn, IInv, JobsKnown
  <1>2. /\ pc'[p] = IF job[p].over THEN "stop" ELSE "kick"
        /\ \A q \in Goroutines \ {p} : pc'[q] = pc[q]
    BY DEF SwitchTurn, Goto, IInv, TypeOK
  <1>3. Ticker \in Goroutines /\ clock'.on = clock.on
    BY <1>1 DEF Goroutines, IInv, TypeOK
  <1>4. DoneIsOver'
    BY <1>1, <1>2 DEF TimeInv, DoneIsOver, IInv, OverIsEnded
  <1>5. ClockRuns'
    BY <1>1, <1>2, <1>3 DEF TimeInv, ClockRuns
  <1>6. OnTime'
    <2>1. clock'.endsIn = clock.endsIn \/ (clock'.endsIn = TurnLimit /\ job[p].changed)
      BY <1>1 DEF IInv, TypeOK
    <2>2. ~game.ended /\ ~delayed => spent' + clock'.endsIn <= TurnLimit
      BY <1>1, <2>1 DEF TimeInv, OnTime
    <2>3. \A q \in Goroutines : pc'[q] = "switch" => pc[q] = "switch"
      BY <1>1, <1>2
    <2> QED
      BY <1>1, <2>2, <2>3 DEF TimeInv, OnTime
  <1> QED
    BY <1>4, <1>5, <1>6 DEF TimeInv

LEMMA KickOnTime ==
    ASSUME IInv, TimeInv, NEW p \in Goroutines, Kick(p)
    PROVE  TimeInv'
  <1>1. UNCHANGED <<game, delayed, clock, spent>>
    BY DEF Kick
  <1>2. CASE ~BotsTurn
    <2> DEFINE stage == IF p = Ticker THEN "waiting" ELSE "idle"
    <2>1. Become(p, stage, NoJob)
      BY <1>2 DEF Kick, Done
    <2>2. /\ stage \in {"waiting", "idle"}
          /\ p = Ticker => stage = "waiting"
      OBVIOUS
    <2> HIDE DEF stage
    <2> QED
      BY <1>1, <2>1, <2>2, BecomeOnTime
  <1>3. CASE BotsTurn /\ p # Ticker
    <2>1. Become(p, "check", [op |-> "bot"])
      BY <1>3 DEF Kick
    <2> QED
      BY <1>1, <1>3, <2>1, BecomeOnTime
  <1>4. CASE BotsTurn /\ p = Ticker
    <2>1. PICK w \in Workers :
              /\ pc[w] = "idle"
              /\ pc' = [pc EXCEPT ![p] = "waiting", ![w] = "check"]
              /\ job' = [job EXCEPT ![p] = NoJob, ![w] = [op |-> "bot"]]
      BY <1>4 DEF Kick
    <2>2. w \in Goroutines /\ w # p
      BY <1>4, <2>1 DEF Goroutines
    <2>3. /\ pc'[p] = "waiting" /\ pc'[w] = "check"
          /\ \A q \in Goroutines \ {p, w} : pc'[q] = pc[q] /\ job'[q] = job[q]
      BY <2>1, <2>2 DEF IInv, TypeOK, JobsKnown
    <2>4. DoneIsOver'
      BY <1>1, <2>3 DEF TimeInv, DoneIsOver
    <2>5. ClockRuns'
      BY <1>1, <1>4, <2>3 DEF TimeInv, ClockRuns
    <2>6. OnTime'
      BY <1>1, <2>3 DEF TimeInv, OnTime
    <2> QED
      BY <2>4, <2>5, <2>6 DEF TimeInv
  <1> QED
    BY <1>2, <1>3, <1>4

LEMMA StopTimerOnTime ==
    ASSUME IInv, TimeInv, NEW p \in Goroutines, StopTimer(p)
    PROVE  TimeInv'
  <1>1. /\ game.ended /\ UNCHANGED game
        /\ pc' \in {[pc EXCEPT ![p] = "complete"],
                    [pc EXCEPT ![p] = IF p = Ticker THEN "waiting" ELSE "idle"]}
    BY DEF StopTimer, Goto, Done, Become, TimeInv, DoneIsOver
  <1>2. Ticker \in Goroutines /\ pc \in [Goroutines -> Stages]
    BY DEF Goroutines, IInv, TypeOK
  <1>3. pc'[Ticker] \notin {"idle", "asleep"}
    BY <1>1, <1>2 DEF TimeInv, ClockRuns
  <1> QED
    BY <1>1, <1>3 DEF TimeInv, DoneIsOver, ClockRuns, OnTime

LEMMA PublishCompletedOnTime ==
    ASSUME IInv, TimeInv, NEW p \in Goroutines, PublishCompleted(p)
    PROVE  TimeInv'
  <1>1. /\ game.ended
        /\ UNCHANGED <<game, human, delayed, clock, away, grace, spent>>
    BY DEF PublishCompleted, TimeInv, DoneIsOver
  <1>2. CASE job[p].op = "grace"
    <2>1. Become(p, "stopAgain", job[p])
      BY <1>2, GotoIsBecome DEF PublishCompleted, IInv
    <2> QED
      BY <1>1, <2>1, BecomeOnTime
  <1>3. CASE job[p].op # "grace"
    <2> DEFINE stage == IF p = Ticker THEN "waiting" ELSE "idle"
    <2>1. Become(p, stage, NoJob)
      BY <1>3 DEF PublishCompleted, Done
    <2>2. /\ stage \in {"waiting", "idle"}
          /\ p = Ticker => stage = "waiting"
      OBVIOUS
    <2> HIDE DEF stage
    <2> QED
      BY <1>1, <2>1, <2>2, BecomeOnTime
  <1> QED
    BY <1>2, <1>3

LEMMA BotOnTime ==
    ASSUME IInv, TimeInv, NEW w \in Workers, BotCheck(w) \/ BotMove(w) \/ BotFinal(w)
    PROVE  TimeInv'
  <1>1. /\ w \in Goroutines /\ w # Ticker
        /\ UNCHANGED <<delayed, clock>>
    BY DEF Goroutines, BotCheck, BotMove, BotFinal
  <1>2. CASE UNCHANGED <<game, spent>>
    <2>1. \E stage \in {"final", "asleep", "check", "idle"} :
            \E j : Become(w, stage, j)
      <3>1. CASE BotCheck(w)
        BY <3>1 DEF BotCheck
      <3>2. CASE BotMove(w)
        BY <3>2 DEF BotMove
      <3>3. CASE BotFinal(w)
        BY <1>1, <3>3 DEF BotFinal, Done
      <3> QED
        BY <3>1, <3>2, <3>3
    <2>2. PICK stage \in {"final", "asleep", "check", "idle"} :
            \E j : Become(w, stage, j)
      BY <2>1
    <2>3. PICK j : Become(w, stage, j)
      BY <2>2
    <2> QED
      BY <1>1, <1>2, <2>3, BecomeOnTime
  <1>3. CASE ~UNCHANGED <<game, spent>>
    <2>1. BotMove(w) /\ ~PlayersTurnIsOver
      BY <1>3 DEF BotCheck, BotMove, BotFinal
    <2>2. PICK g \in AfterMove(game) :
            /\ Set(g)
            /\ Become(w, IF g.ended THEN "final" ELSE "check", [op |-> "bot"])
      BY <2>1 DEF BotMove
    <2>3. ~game.ended
      BY <2>2, CommandsType DEF IInv, TypeOK
    <2>4. PICK stage \in {"check", "final"} : Become(w, stage, [op |-> "bot"])
      BY <2>2
    <2> QED
      BY <1>1, <2>2, <2>3, <2>4, SetSpent, BecomeOnTime
  <1> QED
    BY <1>2, <1>3

LEMMA GraceOnTime ==
    ASSUME IInv, TimeInv, NEW w \in Workers, GraceFires(w) \/ GraceForfeit(w)
    PROVE  TimeInv'
  <1>1. /\ w \in Goroutines /\ w # Ticker
        /\ UNCHANGED <<delayed, clock>>
    BY DEF Goroutines, GraceFires, GraceForfeit
  <1>2. CASE GraceFires(w)
    BY <1>1, <1>2, BecomeOnTime DEF GraceFires
  <1>3. CASE GraceForfeit(w) /\ game.ended
    <2>1. Become(w, "stopAgain", job[w]) /\ UNCHANGED <<game, spent>>
      BY <1>1, <1>3, GotoIsBecome DEF GraceForfeit, IInv
    <2> QED
      BY <1>1, <1>3, <2>1, BecomeOnTime
  <1>4. CASE GraceForfeit(w) /\ ~game.ended
    <2>1. Become(w, "stop", job[w]) /\ Set(AfterForfeit(game))
      BY <1>1, <1>4, GotoIsBecome DEF GraceForfeit, IInv
    <2>2. AfterForfeit(game).ended
      BY DEF AfterForfeit, IInv, TypeOK, TurnGames
    <2> QED
      BY <1>1, <1>4, <2>1, <2>2, SetSpent, BecomeOnTime
  <1> QED
    BY <1>2, <1>3, <1>4

LEMMA TickOnTime ==
    ASSUME IInv, TimeInv, TickExpired \/ TickPass \/ TickGone
    PROVE  TimeInv'
  <1>1. Ticker \in Goroutines /\ UNCHANGED <<delayed, clock>>
    BY DEF Goroutines, TickExpired, TickPass, TickGone
  <1>2. CASE TickExpired
    <2>1. Become(Ticker, "calling", job[Ticker]) /\ UNCHANGED <<game, spent>>
      BY <1>1, <1>2, GotoIsBecome DEF TickExpired, IInv
    <2> QED
      BY <1>1, <2>1, BecomeOnTime
  <1>3. CASE TickGone
    <2>1. Become(Ticker, "gone", job[Ticker]) /\ UNCHANGED <<game, spent>>
      BY <1>1, <1>3, GotoIsBecome DEF TickGone, IInv
    <2>2. game.ended
      BY <1>3 DEF TickGone, TimeInv, ClockRuns
    <2> QED
      BY <1>1, <2>1, <2>2, BecomeOnTime
  <1>4. CASE TickPass /\ game.ended
    <2>1. Become(Ticker, "waiting", NoJob) /\ UNCHANGED <<game, spent>>
      BY <1>4 DEF TickPass, Done
    <2> QED
      BY <1>1, <2>1, BecomeOnTime
  <1>5. CASE TickPass /\ ~game.ended
    <2>1. /\ Set(AfterPass(game))
          /\ Become(Ticker, "switch", Result("pass", AfterPass(game)))
      BY <1>5 DEF TickPass
    <2> QED
      BY <1>1, <1>5, <2>1, SetSpent, BecomeOnTime
  <1> QED
    BY <1>2, <1>3, <1>4, <1>5

LEMMA ConnectionOnTime ==
    ASSUME TimeInv, UNCHANGED <<game, clock, delayed, pc, job, spent>>
    PROVE  TimeInv'
  BY DEF TimeInv, DoneIsOver, ClockRuns, OnTime

\* While nobody is late, the clock runs down as fast as the turn grows: the
\* ticker waits only for a deadline that is still ahead.
LEMMA ElapseOnTime ==
    ASSUME IInv, TimeInv, Elapse
    PROVE  TimeInv'
  <1>1. /\ clock' = [clock EXCEPT !.endsIn = less(@)]
        /\ delayed' = (delayed \/ grace = 0 \/ \E p \in Goroutines : ~Waiting(p))
        /\ spent' = IF delayed' THEN 0
                    ELSE IF spent > TurnLimit THEN spent ELSE spent + 1
        /\ UNCHANGED <<game, pc>>
    BY DEF Elapse
  <1>2. /\ clock.endsIn \in 0 .. TurnLimit /\ spent \in Nat /\ Ticker \in Goroutines
        /\ clock'.on = clock.on /\ clock'.endsIn = less(clock.endsIn)
    BY <1>1 DEF IInv, TypeOK, Goroutines
  <1>3. DoneIsOver' /\ ClockRuns'
    BY <1>1, <1>2 DEF TimeInv, DoneIsOver, ClockRuns
  <1>4. OnTime'
    <2> SUFFICES ASSUME ~game.ended, ~delayed'
                 PROVE  /\ spent' + clock'.endsIn <= TurnLimit
                        /\ \A p \in Goroutines : pc[p] # "switch"
      BY <1>1 DEF OnTime
    <2>1. \A p \in Goroutines : Waiting(p)
      BY <1>1
    <2>2. \A p \in Goroutines : pc[p] # "switch"
      BY <2>1 DEF Waiting
    <2>3. clock.endsIn > 0
      BY <1>2, <2>1 DEF Waiting, TimeInv, ClockRuns
    <2>4. spent + clock.endsIn <= TurnLimit
      BY <1>1 DEF TimeInv, OnTime
    <2>5. spent' = spent + 1 /\ clock'.endsIn = clock.endsIn - 1
      BY <1>1, <1>2, <2>3, <2>4 DEF less
    <2> QED
      BY <1>2, <2>2, <2>4, <2>5
  <1> QED
    BY <1>3, <1>4 DEF TimeInv

LEMMA NextTimeInv == IInv /\ TimeInv /\ [Next]_vars => TimeInv'
  <1> SUFFICES ASSUME IInv, TimeInv, [Next]_vars PROVE TimeInv'
    OBVIOUS
  <1>1. ASSUME NEW p \in Goroutines, Work(p) PROVE TimeInv'
    BY <1>1, SwitchTurnOnTime, KickOnTime, StopTimerOnTime, PublishCompletedOnTime
       DEF Work
  <1>2. ASSUME NEW w \in Workers, WorkerStep(w) \/ SubmitMove(w) \/ SubmitForfeit(w)
        PROVE  TimeInv'
    BY <1>1, <1>2, SubmitOnTime, BotOnTime, GraceOnTime DEF WorkerStep, Goroutines
  <1>3. CASE TickerStep
    BY <1>1, <1>3, TickOnTime DEF TickerStep, Goroutines
  <1>4. CASE HandleDisconnect \/ HandleReconnect
    BY <1>4, ConnectionOnTime DEF HandleDisconnect, HandleReconnect
  <1>5. CASE UNCHANGED vars
    BY <1>5, ConnectionOnTime DEF vars
  <1> QED
    BY <1>2, <1>3, <1>4, <1>5, ElapseOnTime DEF Next

------------------------------------------------------------------------------
(* Theorems.                                                               *)

\* The strengthened invariant holds in every state.
THEOREM Invariance == Spec => []IInv
  <1>1. Init => IInv
    BY InitIInv
  <1>2. IInv /\ [Next]_vars => IInv'
    BY NextIInv
  <1> QED
    BY <1>1, <1>2, PTL DEF Spec

\* Every variable has its type, whatever the timers and the goroutines do.
THEOREM TypeCorrect == Spec => []TypeOK
  <1>1. IInv => TypeOK
    BY DEF IInv
  <1> QED
    BY <1>1, Invariance, PTL

\* A game is never left to a bot that nobody drives, for any number of
\* seats, goroutines and lines (gameService.go and bot.go).
THEOREM BotsAlwaysAttended == Spec => []BotTurnAttended
  <1>1. IInv => BotTurnAttended
    BY DEF IInv
  <1> QED
    BY <1>1, Invariance, PTL

\* Grace periods and absences belong together (timer.go).
THEOREM GraceRight == Spec => []GraceMatchesAbsence
  <1>1. IInv => GraceMatchesAbsence
    BY DEF IInv
  <1> QED
    BY <1>1, Invariance, PTL

\* Until a delay, what the clock leaves a turn and what the turn has taken
\* are never more than the limit.
THEOREM TimeInvariance == Spec => []TimeInv
  <1>1. Init => TimeInv
    BY InitTimeInv
  <1>2. IInv /\ TimeInv /\ [Next]_vars => TimeInv'
    BY NextTimeInv
  <1> QED
    BY <1>1, <1>2, Invariance, PTL DEF Spec

\* On an idle machine no turn outlasts its limit, for any limit, any number
\* of bots and any pause of theirs (timer.go, TurnTimeLimit).
THEOREM TurnsInTime == Spec => []TurnNeverOverruns
  <1>1. IInv /\ TimeInv => TurnNeverOverruns
    BY DEF IInv, TypeOK, TimeInv, OnTime, TurnNeverOverruns
  <1> QED
    BY <1>1, Invariance, TimeInvariance, PTL

\* A finished game is never touched again, by a late move, tick, bot or
\* grace callback (gameService.go, bot.go).
THEOREM EndedStays == Spec => EndedIsFinal
  <1>1. IInv /\ [Next]_vars => [game.ended => game' = game]_vars
    <2> SUFFICES ASSUME IInv, Next, game.ended PROVE game' = game
      BY DEF vars
    <2>1. AfterMove(game) = {}
      BY CommandsType DEF IInv, TypeOK
    <2>2. ASSUME NEW p, Work(p) PROVE game' = game
      BY <2>2 DEF Work, SwitchTurn, Kick, StopTimer, PublishCompleted
    <2>3. ASSUME NEW w, WorkerStep(w) \/ SubmitMove(w) \/ SubmitForfeit(w)
          PROVE  game' = game
      BY <2>1, <2>2, <2>3 DEF WorkerStep, BotCheck, BotMove, BotFinal, GraceFires,
         GraceForfeit, SubmitMove, SubmitForfeit, PlayersTurnIsOver
    <2>4. ASSUME TickerStep PROVE game' = game
      BY <2>2, <2>4 DEF TickerStep, TickExpired, TickPass, TickGone
    <2> QED
      BY <2>3, <2>4 DEF Next, HandleDisconnect, HandleReconnect, Elapse
  <1> QED
    BY <1>1, Invariance, PTL DEF Spec, EndedIsFinal
=============================================================================
