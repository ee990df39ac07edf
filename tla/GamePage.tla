------------------------------ MODULE GamePage ------------------------------
(***************************************************************************)
(* One player's game page (web/src/routes/game/$gameID.tsx) against the     *)
(* server, the feed and the network.                                       *)
(*                                                                         *)
(* The page shows one cached copy of the game.  Four writers put whole      *)
(* copies into it, in whatever order they come: the player's own click      *)
(* (the line is shown before the server has seen it), the answer to that    *)
(* click, the feed, and the refetch after a reconnect.  None of them looks  *)
(* at how old a copy is.                                                    *)
(*                                                                         *)
(* The game is reduced to its drawn lines, whose turn it is and whether it  *)
(* is over; hist holds every state the server has had, and a copy is named *)
(* by its place in hist.  The hub is reduced to what one page sees of it:   *)
(* see WsHub for the rest.                                                  *)
(***************************************************************************)
EXTENDS Integers, Sequences, FiniteSets

CONSTANTS
    Segments,    \* the lines of the board
    NoLine,
    MaxPasses,   \* bound: timeouts that pass the turn
    MaxFaults    \* bound: lost connections, calls and events, refetches on focus

ASSUME SegmentsAssumption == NoLine \notin Segments

VARIABLES
    hist,       \* the states of the stored game, oldest first
    out,        \* how many of them the hub has broadcast
    passes, faults,
    link,       \* the connection as the server sees it
    connected,  \* the page's flag
    joining,    \* page:join is under way
    asked,      \* a subscription waits in the hub's queue
    subscribed, \* the hub sends this topic to the connection
    feed,       \* copies under way to the page
    cache,      \* the copy shown, and the line the player added to it
    call,       \* the player's move under way
    fetch,      \* the GET under way
    overtaken,  \* history: a newer copy was replaced by an older one
    missed      \* history: a state went past a connected page, see below

serverVars == <<hist, passes>>
linkVars   == <<link, connected, joining, asked, subscribed>>
pageVars   == <<cache, call, fetch>>
vars == <<hist, out, passes, faults, link, connected, joining, asked, subscribed,
          feed, cache, call, fetch, overtaken, missed>>

Me == "me"
Others == "others"

Now == Len(hist)
current == hist[Now]

Copy(v) == [at |-> v, mine |-> NoLine]

Shown == hist[cache.at].lines \union ({cache.mine} \ {NoLine})

NoCall == [step |-> "none", line |-> NoLine, before |-> 0, answer |-> 0]
NoFetch == [step |-> "none", copy |-> 0]

\* A copy arrives in the cache; the history variable notes when it is older
\* than the copy it replaces, until the newest one is shown.
setQueryData(v) ==
    /\ cache' = Copy(v)
    /\ overtaken' = (v < Now /\ (overtaken \/ v < cache.at))
    /\ missed' = (missed /\ v < Now)

isGameFinished(v) == hist[v].over

------------------------------------------------------------------------------
(* The server.                                                             *)

\* PublishGameState follows every stored command; the hub comes to it later.
commit(g) == hist' = Append(hist, g)

\* A line of this move may complete a box, and then the turn stays.
drawLine(by, line, next) ==
    /\ ~current.over /\ current.turn = by
    /\ line \in Segments \ current.lines
    /\ commit([lines |-> current.lines \union {line},
               turn  |-> next,
               over  |-> current.lines \union {line} = Segments])

OthersMove ==
    /\ \E line \in Segments, next \in {Me, Others} : drawLine(Others, line, next)
    /\ UNCHANGED <<out, passes, faults, linkVars, feed, pageVars, overtaken, missed>>

TurnPasses ==
    /\ ~current.over /\ passes < MaxPasses
    /\ commit([current EXCEPT !.turn = IF @ = Me THEN Others ELSE Me])
    /\ passes' = passes + 1
    /\ UNCHANGED <<out, faults, linkVars, feed, pageVars, overtaken, missed>>

SomebodyForfeits ==
    /\ ~current.over
    /\ commit([current EXCEPT !.over = TRUE])
    /\ UNCHANGED <<out, passes, faults, linkVars, feed, pageVars, overtaken, missed>>

\* The page is connected, and no GET is still to read the game: what does not
\* reach the page through the feed now passes it by.
Relying == link # "none" /\ fetch.step \in {"none", "read"}

\* The hub hands on the next state.  After a reconnect the game may have been
\* read while the subscription is not yet in force.
Broadcast ==
    /\ out < Now
    /\ out' = out + 1
    /\ feed' = IF subscribed THEN Append(feed, out + 1) ELSE feed
    /\ missed' = (missed \/ (Relying /\ ~subscribed))
    /\ UNCHANGED <<serverVars, faults, linkVars, pageVars, overtaken>>

\* The state does not get through, subscribed or not: publishing it failed,
\* which the service ignores, or the hub's channel was full and it is dropped.
DropState ==
    /\ out < Now /\ faults < MaxFaults
    /\ out' = out + 1
    /\ missed' = (missed \/ Relying)
    /\ faults' = faults + 1
    /\ UNCHANGED <<serverVars, linkVars, feed, pageVars, overtaken>>

\* ServeWs registers the connection; only then does it read from it.
Register ==
    /\ link = "opened"
    /\ link' = "registered"
    /\ UNCHANGED <<serverVars, out, faults, connected, joining, asked, subscribed,
                   feed, pageVars, overtaken, missed>>

ServeJoin ==
    /\ link = "registered" /\ joining
    /\ joining' = FALSE
    /\ asked' = TRUE
    /\ UNCHANGED <<serverVars, out, faults, link, connected, subscribed, feed,
                   pageVars, overtaken, missed>>

Subscribe ==
    /\ asked
    /\ asked' = FALSE
    /\ subscribed' = TRUE
    /\ UNCHANGED <<serverVars, out, faults, link, connected, joining, feed,
                   pageVars, overtaken, missed>>

\* GetGameState asks for a subscription, if the hub knows the user, ...
GetSubscribes ==
    /\ fetch.step = "sent"
    /\ asked' = (asked \/ link = "registered")
    /\ fetch' = [fetch EXCEPT !.step = "subscribed"]
    /\ UNCHANGED <<serverVars, out, faults, link, connected, joining, subscribed,
                   feed, cache, call, overtaken, missed>>

\* ... and then reads the game.
GetReads ==
    /\ fetch.step = "subscribed"
    /\ fetch' = [step |-> "read", copy |-> Now]
    /\ UNCHANGED <<serverVars, out, faults, linkVars, feed, cache, call, overtaken, missed>>

\* POST /games/:id/move.
ServeMove ==
    /\ call.step = "sent"
    /\ \/ /\ \E next \in {Me, Others} : drawLine(Me, call.line, next)
          /\ call' = [call EXCEPT !.step = "accepted", !.answer = Now + 1]
       \/ /\ current.over \/ current.turn # Me \/ call.line \in current.lines
          /\ call' = [call EXCEPT !.step = "refused"]
          /\ UNCHANGED hist
    /\ UNCHANGED <<out, passes, faults, linkVars, feed, cache, fetch, overtaken, missed>>

------------------------------------------------------------------------------
(* The page.                                                               *)

\* Mutant: a second click is taken while the first is under way.
mayClickTwice(line) ==
    /\ ~isGameFinished(cache.at) /\ hist[cache.at].turn = Me
    /\ line \notin Shown

\* What the page knows speaks for the click, and no other one is under way.
mayClick(line) ==
    /\ call.step = "none"
    /\ ~isGameFinished(cache.at) /\ hist[cache.at].turn = Me
    /\ line \notin Shown

handleClick(line) ==
    /\ mayClick(line)
    /\ call' = [NoCall EXCEPT !.step = "sent", !.line = line, !.before = cache]
    /\ cache' = [cache EXCEPT !.mine = line]
    /\ UNCHANGED <<serverVars, out, faults, linkVars, feed, fetch, overtaken, missed>>

MoveAccepted ==
    /\ call.step = "accepted"
    /\ setQueryData(call.answer)
    /\ call' = NoCall
    /\ UNCHANGED <<serverVars, out, faults, linkVars, feed, fetch>>

\* The copy from before the click comes back, whatever arrived since.
rollback ==
    /\ cache' = call.before
    /\ overtaken' = (call.before.at < Now /\ (overtaken \/ call.before.at < cache.at))
    /\ missed' = (missed /\ call.before.at < Now)

MoveRefused ==
    /\ call.step = "refused"
    /\ rollback
    /\ call' = NoCall
    /\ UNCHANGED <<serverVars, out, faults, linkVars, feed, fetch>>

\* The request or its answer is lost: to the page the move has failed.
MoveFails ==
    /\ call.step \in {"sent", "accepted", "refused"} /\ faults < MaxFaults
    /\ rollback
    /\ call' = NoCall
    /\ faults' = faults + 1
    /\ UNCHANGED <<serverVars, out, linkVars, feed, fetch>>

\* Mutant: the feed is ignored while the player's own move is under way.
feedAppliedIfIdle == IF call.step = "none" THEN setQueryData(Head(feed))
                     ELSE UNCHANGED <<cache, overtaken, missed>>

feedApplied == setQueryData(Head(feed))

ReceiveState ==
    /\ feed # <<>>
    /\ feedApplied
    /\ feed' = Tail(feed)
    /\ UNCHANGED <<serverVars, out, faults, linkVars, call, fetch>>

ReceiveFetch ==
    /\ fetch.step = "read"
    /\ setQueryData(fetch.copy)
    /\ fetch' = NoFetch
    /\ UNCHANGED <<serverVars, out, faults, linkVars, feed, call>>

\* What the page shows, or is about to be shown by the feed, is as new as the
\* last state that was broadcast.
UpToDate == cache.at >= out \/ (feed # <<>> /\ feed[Len(feed)] = out)

\* The GET fails for good, before or after the server served it: the query
\* keeps the copy it has, and nothing fetches again until the next reconnect.
FetchFails ==
    /\ fetch.step # "none" /\ faults < MaxFaults
    /\ fetch' = NoFetch
    /\ missed' = (missed \/ (link # "none" /\ ~UpToDate))
    /\ faults' = faults + 1
    /\ UNCHANGED <<serverVars, out, linkVars, feed, cache, call, overtaken>>

\* Mutant: the page does not fetch again when the connection is back.
refetchNot == UNCHANGED fetch

\* A refetch replaces the one under way.
refetch == fetch' = [NoFetch EXCEPT !.step = "sent"]

\* The query library fetches again when the window comes to the front.
Refocus ==
    /\ fetch.step = "none" /\ faults < MaxFaults
    /\ refetch
    /\ faults' = faults + 1
    /\ UNCHANGED <<serverVars, out, linkVars, feed, cache, call, overtaken, missed>>

\* onopen: the effects on "connected" announce the page and fetch the game.
Connect ==
    /\ link = "none" /\ ~connected
    /\ link' = "opened"
    /\ connected' = TRUE
    /\ joining' = TRUE
    /\ refetch
    /\ UNCHANGED <<serverVars, out, faults, asked, subscribed, feed, cache, call,
                   overtaken, missed>>

\* The connection is lost, with what was under way on it.
LoseConnection ==
    /\ link \in {"opened", "registered"} /\ faults < MaxFaults
    /\ link' = "none"
    /\ joining' = FALSE /\ asked' = FALSE /\ subscribed' = FALSE
    /\ feed' = <<>>
    /\ faults' = faults + 1
    /\ UNCHANGED <<serverVars, out, connected, pageVars, overtaken, missed>>

\* onclose, which also starts the timer of the next attempt.
NoticeClose ==
    /\ link = "none" /\ connected
    /\ connected' = FALSE
    /\ UNCHANGED <<serverVars, out, faults, link, joining, asked, subscribed, feed,
                   pageVars, overtaken, missed>>

------------------------------------------------------------------------------

\* The route loader has fetched the game, and mounting the page fetches it
\* again; the socket is not open yet.
Init ==
    /\ \E first \in {Me, Others} :
          hist = <<[lines |-> {}, turn |-> first, over |-> FALSE]>>
    /\ out = 1
    /\ passes = 0 /\ faults = 0
    /\ link = "none" /\ connected = FALSE
    /\ joining = FALSE /\ asked = FALSE /\ subscribed = FALSE
    /\ feed = <<>>
    /\ cache = Copy(1)
    /\ call = NoCall
    /\ fetch = [NoFetch EXCEPT !.step = "sent"]
    /\ overtaken = FALSE /\ missed = FALSE

Next ==
    \/ OthersMove \/ TurnPasses \/ SomebodyForfeits
    \/ Broadcast \/ DropState \/ Register \/ ServeJoin \/ Subscribe
    \/ GetSubscribes \/ GetReads \/ ServeMove
    \/ \E line \in Segments : handleClick(line)
    \/ MoveAccepted \/ MoveRefused \/ MoveFails
    \/ ReceiveState \/ ReceiveFetch \/ FetchFails
    \/ Refocus \/ Connect \/ LoseConnection \/ NoticeClose

\* The hub and the handlers run, and the browser delivers what arrives and
\* reconnects; nobody has to move, and nothing has to get lost.
Fairness ==
    /\ WF_vars(Broadcast) /\ WF_vars(Register) /\ WF_vars(ServeJoin) /\ WF_vars(Subscribe)
    /\ WF_vars(GetSubscribes) /\ WF_vars(GetReads) /\ WF_vars(ServeMove)
    /\ WF_vars(MoveAccepted) /\ WF_vars(MoveRefused)
    /\ WF_vars(ReceiveState) /\ WF_vars(ReceiveFetch)
    /\ WF_vars(Connect) /\ WF_vars(NoticeClose)

Spec == Init /\ [][Next]_vars /\ Fairness

------------------------------------------------------------------------------
(* Properties.                                                             *)

\* A line the server never accepted is on the page only while the player's
\* own move is being decided: no refusal, lost answer, late feed or rollback
\* leaves a line that is not there (handleClick, whose rollback restores a
\* copy that may itself have been shown with a line of the player's).
NoPhantomLine ==
    /\ Shown \subseteq current.lines \union {call.line}
    /\ call.step = "none" => cache.mine = NoLine

Quiet ==
    /\ out = Now /\ feed = <<>>
    /\ call.step = "none" /\ fetch.step = "none"
    /\ connected /\ link = "registered" /\ ~joining /\ ~asked

\* When everything has been delivered, a connected page is behind the server
\* only if an older answer, rollback or refetch replaced a newer copy, or if a
\* state went past it: broadcast between the read after a reconnect and the
\* subscription, dropped on the way to the hub's room, or left out by a refetch
\* that failed (game/$gameID.tsx, refetch on connect and the feed).  A page
\* that comes back from a lost connection with its refetch served is not
\* behind for what it missed meanwhile.
StaleHasCause == Quiet => cache.at = Now \/ overtaken \/ missed

\* The end of the game reaches the page, for the same exceptions.
EndIsShown ==
    current.over ~> isGameFinished(cache.at) \/ overtaken \/ missed
=============================================================================
