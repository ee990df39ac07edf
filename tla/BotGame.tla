-------------------------------- MODULE BotGame --------------------------------
(***************************************************************************)
(* A game of one human against bots: the goroutines that move, pass and    *)
(* forfeit (internal/game/gameService.go, the bot branches), the bots'     *)
(* goroutines (bot.go) and the turn clock (timer.go).                      *)
(*                                                                         *)
(* The game lives in memory, and each command changes it in one step under *)
(* BotService.mu.  What follows a command (switching the clock, starting   *)
(* the bots, stopping the clock, announcing the end) happens after the     *)
(* lock is released, so every one of those is an action of its own.        *)
(*                                                                         *)
(* Time is kept as what is left of each running timer.  Elapse takes one   *)
(* unit from all of them, at any moment, so goroutines may be delayed by   *)
(* any amount; a history variable remembers whether one has been, as it    *)
(* never is on an idle machine.  Publishing the state to the players has   *)
(* no effect on what is kept here and is left out.                         *)
(***************************************************************************)
EXTENDS TurnGame

CONSTANTS
    Workers,      \* goroutines for requests, bots and grace periods
    Ticker,       \* the goroutine of GameTimer.run
    TurnLimit,    \* TurnTimeLimit
    GraceLimit,   \* DisconnectGracePeriod
    BotDelay      \* botMoveDelay

ASSUME TimesAssumption ==
    /\ TurnLimit \in Nat \ {0} /\ GraceLimit \in Nat \ {0} /\ BotDelay \in Nat
    /\ Ticker \notin Workers

VARIABLES
    human,        \* the human's seat; CreateBotGame shuffles the seats
    clock,        \* the entry in GameTimerService.timers
    away,         \* GameTimer.disconnected[human]
    grace,        \* what is left of disconnectTimers[human], or NoTimer
    pc, job,      \* where each goroutine is, and its local variables
    completions,  \* number of game_completed published
    delayed,      \* history: time has passed while a goroutine could run
    spent         \* history: how long the turn has lasted, until a delay

vars == <<game, human, clock, away, grace, pc, job, completions, delayed, spent>>

Goroutines == Workers \union {Ticker}
NoTimer == -1
NoJob == [op |-> "none"]

BotsTurn == game.turn # human

Goto(p, stage) == pc' = [pc EXCEPT ![p] = stage]

Become(p, stage, j) ==
    /\ Goto(p, stage)
    /\ job' = [job EXCEPT ![p] = j]

Done(p) == Become(p, IF p = Ticker THEN "waiting" ELSE "idle", NoJob)

\* The current turn goes on, or another one begins.
Set(g) ==
    /\ game' = g
    /\ spent' = IF g.turn = game.turn THEN spent ELSE 0

------------------------------------------------------------------------------
(* Commands of the human (gameService.go).                                 *)

\* What the command keeps in local variables for the steps after it.
Result(op, g) == [op |-> op, next |-> g.turn, changed |-> g.turn # game.turn,
                  over |-> g.ended]

SubmitMove(w) ==
    /\ pc[w] = "idle"
    /\ game.turn = human
    /\ \E g \in AfterMove(game) : Set(g) /\ Become(w, "switch", Result("move", g))
    /\ UNCHANGED <<human, delayed, clock, away, grace, completions>>

SubmitForfeit(w) ==
    /\ pc[w] = "idle"
    /\ ~game.ended
    /\ Set(AfterForfeit(game))
    /\ Become(w, "stop", [op |-> "forfeit"])
    /\ UNCHANGED <<human, delayed, clock, away, grace, completions>>

\* Mutant: the deadline is renewed for the seat that already has the clock.
SwitchTurnAlways(p) ==
    /\ pc[p] = "switch"
    /\ clock' = IF clock.on
                THEN [clock EXCEPT !.seat = job[p].next, !.endsIn = TurnLimit]
                ELSE clock
    /\ Goto(p, IF job[p].over THEN "stop" ELSE "kick")
    /\ UNCHANGED <<game, human, delayed, away, grace, job, completions, spent>>

SwitchTurn(p) ==
    /\ pc[p] = "switch"
    /\ clock' = IF job[p].changed /\ clock.on /\ clock.seat # job[p].next
                THEN [clock EXCEPT !.seat = job[p].next, !.endsIn = TurnLimit]
                ELSE clock
    /\ Goto(p, IF job[p].over THEN "stop" ELSE "kick")
    /\ UNCHANGED <<game, human, delayed, away, grace, job, completions, spent>>

\* Mutant: only a move starts the bots, not a timeout pass.
KickAfterMoveOnly(p) ==
    /\ pc[p] = "kick"
    /\ IF BotsTurn /\ p # Ticker THEN Become(p, "check", [op |-> "bot"]) ELSE Done(p)
    /\ UNCHANGED <<game, human, delayed, clock, away, grace, completions, spent>>

\* The bots are started if it is their turn by now.  A request ends with
\* this, so its slot serves the new goroutine; the ticker takes a free one.
Kick(p) ==
    /\ pc[p] = "kick"
    /\ IF ~BotsTurn THEN Done(p)
       ELSE IF p # Ticker THEN Become(p, "check", [op |-> "bot"])
       ELSE \E w \in Workers :
              /\ pc[w] = "idle"
              /\ pc' = [pc EXCEPT ![p] = "waiting", ![w] = "check"]
              /\ job' = [job EXCEPT ![p] = NoJob, ![w] = [op |-> "bot"]]
    /\ UNCHANGED <<game, human, delayed, clock, away, grace, completions, spent>>

\* StopTimer removes the entry and stops its grace timers.
StopTimer(p) ==
    /\ pc[p] \in {"stop", "stopAgain"}
    /\ clock' = [clock EXCEPT !.on = FALSE]
    /\ grace' = NoTimer
    /\ IF pc[p] = "stop" THEN Goto(p, "complete") /\ UNCHANGED job ELSE Done(p)
    /\ UNCHANGED <<game, human, delayed, away, completions, spent>>

\* Mutant: the end of the game is not published.
SkipCompleted(p) ==
    /\ pc[p] = "complete"
    /\ IF job[p].op = "grace" THEN Goto(p, "stopAgain") /\ UNCHANGED job ELSE Done(p)
    /\ UNCHANGED <<game, human, delayed, clock, away, grace, completions, spent>>

PublishCompleted(p) ==
    /\ pc[p] = "complete"
    /\ completions' = completions + 1
    /\ IF job[p].op = "grace" THEN Goto(p, "stopAgain") /\ UNCHANGED job ELSE Done(p)
    /\ UNCHANGED <<game, human, delayed, clock, away, grace, spent>>

------------------------------------------------------------------------------
(* PlayBotTurn (bot.go).                                                   *)

PlayersTurnIsOver == game.ended \/ ~BotsTurn

BotCheck(w) ==
    /\ pc[w] = "check"
    /\ IF PlayersTurnIsOver THEN Become(w, "final", [op |-> "bot"])
       ELSE Become(w, "asleep", [op |-> "bot", wait |-> BotDelay])
    /\ UNCHANGED <<game, human, delayed, clock, away, grace, completions, spent>>

\* Mutant: the game is not looked at again after the pause.
BotMoveUnchecked(w) ==
    /\ pc[w] = "asleep"
    /\ job[w].wait = 0
    /\ Set([game EXCEPT !.turn = following(game)])
    /\ Become(w, "check", [op |-> "bot"])
    /\ UNCHANGED <<human, delayed, clock, away, grace, completions>>

\* The state is read again after the pause, under the lock.  The clock is
\* not told about the move.
BotMove(w) ==
    /\ pc[w] = "asleep"
    /\ job[w].wait = 0
    /\ IF PlayersTurnIsOver
       THEN Become(w, "final", [op |-> "bot"]) /\ UNCHANGED <<game, spent>>
       ELSE \E g \in AfterMove(game) :
              /\ Set(g)
              /\ Become(w, IF g.ended THEN "final" ELSE "check", [op |-> "bot"])
    /\ UNCHANGED <<human, delayed, clock, away, grace, completions>>

BotFinal(w) ==
    /\ pc[w] = "final"
    /\ completions' = IF game.ended THEN completions + 1 ELSE completions
    /\ Done(w)
    /\ UNCHANGED <<game, human, delayed, clock, away, grace, spent>>

------------------------------------------------------------------------------
(* The turn clock (timer.go).                                              *)

\* The deadline is compared under the timer's lock and acted on after it.
TickExpired ==
    /\ pc[Ticker] = "waiting"
    /\ clock.on /\ clock.endsIn = 0
    /\ Goto(Ticker, "calling")
    /\ UNCHANGED <<game, human, delayed, clock, away, grace, job, completions, spent>>

\* Mutant: the goroutine of the clock returns after its first call.
TickPassOnce ==
    /\ pc[Ticker] = "calling"
    /\ IF game.ended THEN UNCHANGED <<game, spent>> ELSE Set(AfterPass(game))
    /\ Become(Ticker, "gone", NoJob)
    /\ UNCHANGED <<human, delayed, clock, away, grace, completions>>

TickPass ==
    /\ pc[Ticker] = "calling"
    /\ IF game.ended THEN Done(Ticker) /\ UNCHANGED <<game, spent>>
       ELSE Set(AfterPass(game)) /\ Become(Ticker, "switch", Result("pass", AfterPass(game)))
    /\ UNCHANGED <<human, delayed, clock, away, grace, completions>>

TickGone ==
    /\ pc[Ticker] = "waiting"
    /\ ~clock.on
    /\ Goto(Ticker, "gone")
    /\ UNCHANGED <<game, human, delayed, clock, away, grace, job, completions, spent>>

HandleDisconnect ==
    /\ clock.on
    /\ away' = TRUE
    /\ grace' = GraceLimit
    /\ UNCHANGED <<game, human, delayed, clock, pc, job, completions, spent>>

\* Mutant: the grace timer is left running.
HandleReconnectNoStop ==
    /\ clock.on
    /\ away' = FALSE
    /\ UNCHANGED <<game, human, delayed, clock, grace, pc, job, completions, spent>>

HandleReconnect ==
    /\ clock.on
    /\ away' = FALSE
    /\ grace' = NoTimer
    /\ UNCHANGED <<game, human, delayed, clock, pc, job, completions, spent>>

\* AfterFunc starts a goroutine; from here on Stop can not hold it back.
GraceFires(w) ==
    /\ grace = 0
    /\ pc[w] = "idle"
    /\ grace' = NoTimer
    /\ Become(w, "forfeit", [op |-> "grace"])
    /\ UNCHANGED <<game, human, delayed, clock, away, completions, spent>>

\* handleDisconnectTimeout: forfeit, and stop the clock in any case.
GraceForfeit(w) ==
    /\ pc[w] = "forfeit"
    /\ IF game.ended THEN Goto(w, "stopAgain") /\ UNCHANGED <<game, spent>>
       ELSE Goto(w, "stop") /\ Set(AfterForfeit(game))
    /\ UNCHANGED <<human, delayed, clock, away, grace, job, completions>>

------------------------------------------------------------------------------
(* Time.                                                                   *)

Waiting(p) ==
    \/ pc[p] \in {"idle", "gone"}
    \/ pc[p] = "waiting" /\ clock.on /\ clock.endsIn > 0
    \/ pc[p] = "asleep" /\ job[p].wait > 0

less(n) == IF n > 0 THEN n - 1 ELSE n

Elapse ==
    /\ delayed' = (delayed \/ grace = 0 \/ \E p \in Goroutines : ~Waiting(p))
    /\ clock' = [clock EXCEPT !.endsIn = less(@)]
    /\ grace' = less(grace)
    /\ job' = [p \in Goroutines |-> IF pc[p] = "asleep"
                                    THEN [job[p] EXCEPT !.wait = less(@)] ELSE job[p]]
    /\ spent' = IF delayed' THEN 0
                ELSE IF spent > TurnLimit THEN spent ELSE spent + 1   \* capped
    /\ UNCHANGED <<game, human, away, pc, completions>>

------------------------------------------------------------------------------

\* After CreateBotGame: the clock runs, and the bots were started if one of
\* them sits at seat 0.
Init ==
    /\ TurnInit
    /\ human \in Places
    /\ clock = [on |-> TRUE, seat |-> 0, endsIn |-> TurnLimit]
    /\ away = FALSE /\ grace = NoTimer
    /\ completions = 0 /\ delayed = FALSE /\ spent = 0
    /\ \E w \in Workers :
          /\ pc = [p \in Goroutines |->
                      IF p = Ticker THEN "waiting"
                      ELSE IF p = w /\ BotsTurn THEN "check" ELSE "idle"]
          /\ job = [p \in Goroutines |->
                      IF p = w /\ BotsTurn THEN [op |-> "bot"] ELSE NoJob]

Work(p) == SwitchTurn(p) \/ Kick(p) \/ StopTimer(p) \/ PublishCompleted(p)

WorkerStep(w) ==
    \/ Work(w)
    \/ BotCheck(w) \/ BotMove(w) \/ BotFinal(w)
    \/ GraceFires(w) \/ GraceForfeit(w)

TickerStep == Work(Ticker) \/ TickExpired \/ TickPass \/ TickGone

Next ==
    \/ \E w \in Workers : WorkerStep(w) \/ SubmitMove(w) \/ SubmitForfeit(w)
    \/ TickerStep
    \/ HandleDisconnect \/ HandleReconnect
    \/ Elapse

\* Goroutines are scheduled and time passes; the human need not do anything.
Fairness ==
    /\ \A w \in Workers : WF_vars(WorkerStep(w))
    /\ WF_vars(TickerStep)
    /\ WF_vars(Elapse)

Spec == Init /\ [][Next]_vars /\ Fairness

------------------------------------------------------------------------------
(* Properties.                                                             *)

Stages == {"idle", "waiting", "gone", "switch", "kick", "stop", "stopAgain",
           "complete", "check", "asleep", "final", "calling", "forfeit"}

\* Every variable has the type of the field it stands for (timer.go, bot.go).
TypeOK ==
    /\ game \in TurnGames
    /\ human \in Places
    /\ clock \in [on : BOOLEAN, seat : Places, endsIn : 0 .. TurnLimit]
    /\ away \in BOOLEAN
    /\ grace \in NoTimer .. GraceLimit
    /\ pc \in [Goroutines -> Stages]
    /\ completions \in Nat
    /\ delayed \in BOOLEAN /\ spent \in 0 .. TurnLimit + 1

WillKick(p) == pc[p] = "kick" \/ (pc[p] = "switch" /\ ~job[p].over)

Playing(p) == pc[p] \in {"check", "asleep"}

\* While it is a bot's turn, a goroutine is playing for the bots or is about
\* to start one: whoever hands the turn over, the game is never left to a bot
\* that nobody drives (gameService.go, the three places that start
\* PlayBotTurn; bot.go, its ways out of the loop).
BotTurnAttended ==
    ~game.ended /\ BotsTurn => \E p \in Goroutines : WillKick(p) \/ Playing(p)

\* While the clock runs, an absent human is on a grace period (or its
\* callback is on its way), and a grace period runs only for an absent human
\* (timer.go, HandleDisconnect, HandleReconnect, StopTimer).
GraceMatchesAbsence ==
    /\ clock.on /\ away =>
          grace # NoTimer \/ \E w \in Workers : job[w].op = "grace"
    /\ grace # NoTimer => clock.on /\ away

\* A finished game is never touched again, although bots may be asleep and a
\* grace callback or a tick may be on its way (bot.go, the checks after the
\* pause; gameService.go, ForfeitGame).
EndedIsFinal == [][game.ended => game' = game]_vars

\* Every finished game is announced as completed (bot.go, gameService.go).
EndIsAnnounced == game.ended ~> completions > 0

\* No turn lasts for ever: if its player does nothing, the clock ends it
\* (timer.go, "auto-pass when elapsed").
TurnsEnd == \A s \in Places : game.turn = s ~> game.turn # s \/ game.ended

\* On an idle machine no turn outlasts the limit, however many boxes its
\* player completes (timer.go, TurnTimeLimit).
TurnNeverOverruns == ~game.ended /\ ~delayed => spent <= TurnLimit
=============================================================================
