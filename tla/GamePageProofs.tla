---------------------------- MODULE GamePageProofs ----------------------------
(***************************************************************************)
(* Proofs about the game page, for any board, number of moves, timeouts    *)
(* and faults: the page never keeps a line the server has not taken, and a *)
(* connected page is behind the server for the noted reasons only.         *)
(*                                                                         *)
(* Lines are only ever added to the stored game, so every copy of it, how  *)
(* old it may be, shows lines that are there.  What a rollback brings back *)
(* is such a copy too: the click took it while no line of the player's own *)
(* was shown, since no other click was under way.                          *)
(*                                                                         *)
(* The newest broadcast state is followed from place to place: it is       *)
(* shown, at the end of the feed, in a fetch, or will be read by a fetch   *)
(* that is still to come, unless one of the reasons has been noted.        *)
(***************************************************************************)
EXTENDS GamePage, TLAPS

USE SegmentsAssumption

States == [lines : SUBSET Segments, turn : {Me, Others}, over : BOOLEAN]

Stood == 1 .. Now

Steps == {"none", "sent", "accepted", "refused"}

TypeOK ==
    /\ hist \in Seq(States) /\ Now >= 1
    /\ out \in Stood
    /\ feed \in Seq(Stood)
    /\ cache \in [at : Stood, mine : Segments \union {NoLine}]
    /\ call \in [step : Steps, line : Segments \union {NoLine}, before : {call.before},
                 answer : {0} \union Stood]
    /\ fetch \in [step : {"none", "sent", "subscribed", "read"}, copy : {0} \union Stood]

\* No line is ever taken back.
LinesStay == \A v \in Stood : hist[v].lines \subseteq current.lines

\* The page adds the line of the click under way, and no other.
MineIsCalled == cache.mine \in {NoLine} \union (IF call.step = "none" THEN {} ELSE {call.line})

CallInOrder ==
    /\ call.step # "none" => call.line \in Segments
                             /\ call.before \in [at : Stood, mine : {NoLine}]
    /\ call.step = "accepted" => call.answer \in Stood
    /\ fetch.step = "read" => fetch.copy \in Stood

IInv == TypeOK /\ LinesStay /\ MineIsCalled /\ CallInOrder

------------------------------------------------------------------------------
(* The stored game.                                                        *)

\* A further state with more lines keeps every copy a copy.
LEMMA Committed ==
    ASSUME IInv, NEW g \in States, current.lines \subseteq g.lines, commit(g)
    PROVE  /\ hist' \in Seq(States) /\ Now' = Now + 1 /\ Stood \subseteq Stood'
           /\ LinesStay'
           /\ \A v \in Stood : hist'[v] = hist[v]
  <1>1. hist \in Seq(States) /\ Len(hist) \in Nat /\ Len(hist) >= 1
    BY DEF IInv, TypeOK, Now
  <1>2. /\ hist' \in Seq(States) /\ Len(hist') = Len(hist) + 1
        /\ \A v \in 1 .. Len(hist) : hist'[v] = hist[v]
        /\ hist'[Len(hist) + 1] = g
    BY <1>1 DEF commit
  <1>3. \A v \in 1 .. Len(hist) : hist[v].lines \subseteq hist[Len(hist)].lines
    BY DEF IInv, LinesStay, Stood, Now, current
  <1>4. LinesStay'
    BY <1>1, <1>2, <1>3 DEF LinesStay, Stood, Now, current
  <1> QED
    BY <1>1, <1>2, <1>4 DEF Stood, Now

\* While the page, the feed and the calls stay as they are.
LEMMA FrameGrows ==
    ASSUME IInv, hist' \in Seq(States), Now' \in Nat, Now' >= Now, Stood \subseteq Stood',
           LinesStay', out' = out, feed' = feed, cache' = cache, fetch' = fetch, call' = call
    PROVE  IInv'
  <1>1. TypeOK /\ Now \in Nat
    BY DEF IInv, TypeOK, Now
  <1>2. feed' \in Seq(Stood')
    <2>1. \A i \in 1 .. Len(feed) : feed[i] \in Stood'
      BY <1>1 DEF TypeOK
    <2> QED
      BY <1>1, <2>1 DEF TypeOK
  <1>3. cache' \in [at : Stood', mine : Segments \union {NoLine}]
    BY <1>1 DEF TypeOK
  <1>4. call' \in [step : Steps, line : Segments \union {NoLine}, before : {call'.before},
                   answer : {0} \union Stood']
    BY <1>1 DEF TypeOK
  <1>5. fetch' \in [step : {"none", "sent", "subscribed", "read"}, copy : {0} \union Stood']
    BY <1>1 DEF TypeOK
  <1>6. TypeOK'
    BY <1>1, <1>2, <1>3, <1>4, <1>5 DEF TypeOK
  <1>7. MineIsCalled'
    BY DEF IInv, MineIsCalled
  <1>8. CallInOrder'
    BY DEF IInv, CallInOrder
  <1> QED
    BY <1>6, <1>7, <1>8 DEF IInv

\* The others move, the clock passes the turn, somebody gives up.
LEMMA ServerKeeps ==
    ASSUME IInv, OthersMove \/ TurnPasses \/ SomebodyForfeits
    PROVE  IInv'
  <1>1. current \in States
    BY DEF IInv, TypeOK, current, Now
  <1>2. \E g \in States : current.lines \subseteq g.lines /\ commit(g)
    <2>1. CASE OthersMove
      <3>1. PICK line \in Segments, next \in {Me, Others} : drawLine(Others, line, next)
        BY <2>1 DEF OthersMove
      <3> DEFINE g == [lines |-> current.lines \union {line}, turn |-> next,
                       over |-> current.lines \union {line} = Segments]
      <3>2. g \in States /\ current.lines \subseteq g.lines
        BY <1>1 DEF States
      <3>3. commit(g)
        BY <3>1 DEF drawLine
      <3> HIDE DEF g
      <3> QED
        BY <3>2, <3>3
    <2>2. CASE TurnPasses
      <3> DEFINE g == [current EXCEPT !.turn = IF @ = Me THEN Others ELSE Me]
      <3>1. g \in States /\ g.lines = current.lines
        BY <1>1 DEF States
      <3>2. commit(g)
        BY <2>2 DEF TurnPasses
      <3> HIDE DEF g
      <3> QED
        BY <3>1, <3>2
    <2>3. CASE SomebodyForfeits
      <3> DEFINE g == [current EXCEPT !.over = TRUE]
      <3>1. g \in States /\ g.lines = current.lines
        BY <1>1 DEF States
      <3>2. commit(g)
        BY <2>3 DEF SomebodyForfeits
      <3> HIDE DEF g
      <3> QED
        BY <3>1, <3>2
    <2> QED
      BY <2>1, <2>2, <2>3
  <1>3. /\ hist' \in Seq(States) /\ Now' = Now + 1 /\ Stood \subseteq Stood'
        /\ LinesStay'
    BY <1>2, Committed
  <1>4. UNCHANGED <<out, feed, cache, call, fetch>>
    BY DEF OthersMove, TurnPasses, SomebodyForfeits, pageVars
  <1>5. Now \in Nat
    BY DEF IInv, TypeOK, Now
  <1>6. Now' \in Nat /\ Now' >= Now
    BY <1>3, <1>5
  <1> QED
    BY <1>3, <1>4, <1>6, FrameGrows

\* The player's own move is decided.
LEMMA MoveServed ==
    ASSUME IInv, ServeMove
    PROVE  IInv'
  <1>1. current \in States /\ Now \in Nat
    BY DEF IInv, TypeOK, current, Now
  <1>2. UNCHANGED <<out, feed, cache, fetch>> /\ call.step = "sent"
    BY DEF ServeMove
  <1>3. TypeOK /\ CallInOrder /\ MineIsCalled
    BY DEF IInv
  <1>4. call.line \in Segments /\ call.before \in [at : Stood, mine : {NoLine}]
    BY <1>2, <1>3 DEF CallInOrder
  <1>5. CASE /\ \E next \in {Me, Others} : drawLine(Me, call.line, next)
             /\ call' = [call EXCEPT !.step = "accepted", !.answer = Now + 1]
    <2>1. PICK next \in {Me, Others} : drawLine(Me, call.line, next)
      BY <1>5
    <2> DEFINE g == [lines |-> current.lines \union {call.line}, turn |-> next,
                     over |-> current.lines \union {call.line} = Segments]
    <2>2. g \in States /\ current.lines \subseteq g.lines
      BY <1>1, <1>4 DEF States
    <2>3. commit(g)
      BY <2>1 DEF drawLine
    <2> HIDE DEF g
    <2>4. /\ hist' \in Seq(States) /\ Now' = Now + 1 /\ Stood \subseteq Stood'
          /\ LinesStay'
      BY <2>2, <2>3, Committed
    <2>5. Now + 1 \in Stood'
      BY <1>1, <2>4 DEF Stood
    <2>6. /\ call'.step = "accepted" /\ call'.line = call.line
          /\ call'.before = call.before /\ call'.answer \in Stood'
          /\ call' \in [step : Steps, line : Segments \union {NoLine},
                        before : {call'.before}, answer : {0} \union Stood']
      BY <1>3, <1>5, <2>5 DEF TypeOK, Steps
    <2>7. /\ feed' \in Seq(Stood') /\ out' \in Stood'
      <3>1. \A i \in 1 .. Len(feed) : feed[i] \in Stood'
        BY <1>3, <2>4 DEF TypeOK
      <3> QED
        BY <1>2, <1>3, <2>4, <3>1 DEF TypeOK
    <2>8. /\ cache' \in [at : Stood', mine : Segments \union {NoLine}]
          /\ fetch' \in [step : {"none", "sent", "subscribed", "read"},
                         copy : {0} \union Stood']
      BY <1>2, <1>3, <2>4 DEF TypeOK
    <2>9. TypeOK'
      BY <1>1, <2>4, <2>6, <2>7, <2>8 DEF TypeOK, Now
    <2>10. MineIsCalled'
      BY <1>2, <1>3, <2>6 DEF MineIsCalled
    <2>11. CallInOrder'
      BY <1>2, <1>3, <1>4, <2>4, <2>6 DEF CallInOrder
    <2> QED
      BY <2>4, <2>9, <2>10, <2>11 DEF IInv
  <1>6. CASE call' = [call EXCEPT !.step = "refused"] /\ UNCHANGED hist
    <2>1. /\ call'.step = "refused" /\ call'.line = call.line /\ call'.before = call.before
          /\ call' \in [step : Steps, line : Segments \union {NoLine},
                        before : {call'.before}, answer : {0} \union Stood]
      BY <1>3, <1>6 DEF TypeOK, Steps
    <2>2. Stood' = Stood /\ Now' = Now /\ LinesStay'
      BY <1>6 DEF IInv, LinesStay, Stood, Now, current
    <2>3. TypeOK'
      BY <1>2, <1>3, <1>6, <2>1, <2>2 DEF TypeOK
    <2>4. MineIsCalled'
      BY <1>2, <1>3, <2>1 DEF MineIsCalled
    <2>5. CallInOrder'
      BY <1>2, <1>3, <1>4, <2>1, <2>2 DEF CallInOrder
    <2> QED
      BY <2>2, <2>3, <2>4, <2>5 DEF IInv
  <1> QED
    BY <1>5, <1>6 DEF ServeMove

------------------------------------------------------------------------------
(* The page and its connection, while the stored game stays as it is.      *)

\* No player's line is in a copy of the server's, ...
PlainCache == cache' \in [at : Stood, mine : {NoLine}]

LEMMA PageStep ==
    ASSUME IInv, hist' = hist, out' \in Stood, feed' \in Seq(Stood),
           \/ PlainCache
           \/ /\ cache' \in [at : Stood, mine : Segments \union {NoLine}]
              /\ call'.step # "none" /\ cache'.mine \in {NoLine, call'.line}
           \/ cache' = cache /\ call' = call,
           \/ call' = call \/ call' = NoCall
           \/ /\ call'.step = "sent" /\ call'.line \in Segments
              /\ call'.before \in [at : Stood, mine : {NoLine}]
              /\ call' \in [step : Steps, line : Segments \union {NoLine},
                            before : {call'.before}, answer : {0} \union Stood],
           \/ fetch' = fetch
           \/ fetch' \in [step : {"none", "sent", "subscribed"}, copy : {0} \union Stood]
           \/ fetch' \in [step : {"read"}, copy : Stood]
    PROVE  IInv'
  <1>1. Stood' = Stood /\ Now' = Now /\ LinesStay'
    BY DEF IInv, LinesStay, Stood, Now, current
  <1>2. /\ call' \in [step : Steps, line : Segments \union {NoLine},
                      before : {call'.before}, answer : {0} \union Stood]
    BY DEF IInv, TypeOK, NoCall, Steps
  <1>3. cache' \in [at : Stood, mine : Segments \union {NoLine}]
    BY DEF IInv, TypeOK, PlainCache
  <1>4. fetch' \in [step : {"none", "sent", "subscribed", "read"}, copy : {0} \union Stood]
    BY DEF IInv, TypeOK
  <1>5. TypeOK'
    BY <1>1, <1>2, <1>3, <1>4 DEF IInv, TypeOK
  <1>6. MineIsCalled'
    BY DEF IInv, MineIsCalled, PlainCache
  <1>7. CallInOrder'
    BY <1>1 DEF IInv, CallInOrder, NoCall
  <1> QED
    BY <1>1, <1>5, <1>6, <1>7 DEF IInv


LEMMA PageFacts ==
    ASSUME IInv
    PROVE  /\ hist \in Seq(States) /\ Now \in Nat /\ Now >= 1 /\ Now \in Stood
           /\ out \in Stood /\ feed \in Seq(Stood)
           /\ cache \in [at : Stood, mine : Segments \union {NoLine}]
           /\ call.step = "none" => cache.mine = NoLine
  BY DEF IInv, TypeOK, Now, Stood, MineIsCalled

\* The hub and the handlers of the connection.
LEMMA HubKeeps ==
    ASSUME IInv,
           \/ Broadcast \/ DropState \/ Register \/ ServeJoin \/ Subscribe
           \/ GetSubscribes \/ GetReads \/ LoseConnection \/ NoticeClose
    PROVE  IInv'
  <1>1. hist' = hist /\ cache' = cache /\ call' = call
    BY DEF Broadcast, DropState, Register, ServeJoin, Subscribe, GetSubscribes, GetReads,
           LoseConnection, NoticeClose, serverVars, pageVars
  <1>2. out' \in Stood /\ feed' \in Seq(Stood)
    <2>1. CASE Broadcast \/ DropState
      <3>1. out + 1 \in Stood
        BY <2>1, PageFacts DEF Broadcast, DropState, Stood
      <3> QED
        BY <2>1, <3>1, PageFacts DEF Broadcast, DropState
    <2>2. CASE LoseConnection
      BY <2>2, PageFacts DEF LoseConnection
    <2>3. CASE UNCHANGED <<out, feed>>
      BY <2>3, PageFacts
    <2> QED
      BY <2>1, <2>2, <2>3 DEF Register, ServeJoin, Subscribe, GetSubscribes, GetReads, NoticeClose
  <1>3. \/ fetch' = fetch
        \/ fetch' \in [step : {"none", "sent", "subscribed"}, copy : {0} \union Stood]
        \/ fetch' \in [step : {"read"}, copy : Stood]
    <2>1. CASE GetSubscribes
      BY <2>1 DEF GetSubscribes, IInv, TypeOK
    <2>2. CASE GetReads
      BY <2>2, PageFacts DEF GetReads
    <2>3. CASE fetch' = fetch
      BY <2>3
    <2> QED
      BY <2>1, <2>2, <2>3 DEF Broadcast, DropState, Register, ServeJoin, Subscribe,
           LoseConnection, NoticeClose, pageVars
  <1> QED
    BY <1>1, <1>2, <1>3, PageStep

\* A copy of the server's arrives in the cache.
LEMMA CopyArrives ==
    ASSUME NEW v \in Stood, setQueryData(v)
    PROVE  PlainCache
  BY DEF setQueryData, Copy, PlainCache

\* The feed and the GET.
LEMMA ReceiveKeeps ==
    ASSUME IInv, ReceiveState \/ ReceiveFetch \/ FetchFails \/ Refocus \/ Connect
    PROVE  IInv'
  <1>1. hist' = hist /\ call' = call /\ out' = out
    BY DEF ReceiveState, ReceiveFetch, FetchFails, Refocus, Connect, serverVars
  <1>2. CASE ReceiveState
    <2>1. Head(feed) \in Stood /\ Tail(feed) \in Seq(Stood)
      BY <1>2, PageFacts DEF ReceiveState
    <2>2. PlainCache /\ feed' \in Seq(Stood) /\ fetch' = fetch
      BY <1>2, <2>1, CopyArrives DEF ReceiveState, feedApplied
    <2> QED
      BY <1>1, <2>2, PageFacts, PageStep
  <1>3. CASE ReceiveFetch
    <2>1. fetch.copy \in Stood
      BY <1>3 DEF ReceiveFetch, IInv, CallInOrder
    <2>2. PlainCache /\ feed' = feed
      BY <1>3, <2>1, CopyArrives DEF ReceiveFetch
    <2>3. fetch' \in [step : {"none", "sent", "subscribed"}, copy : {0} \union Stood]
      BY <1>3 DEF ReceiveFetch, NoFetch
    <2> QED
      BY <1>1, <2>2, <2>3, PageFacts, PageStep
  <1>4. CASE FetchFails \/ Refocus \/ Connect
    <2>1. fetch' \in [step : {"none", "sent", "subscribed"}, copy : {0} \union Stood]
      BY <1>4 DEF FetchFails, Refocus, Connect, refetch, NoFetch
    <2>2. feed' = feed /\ cache' = cache
      BY <1>4 DEF FetchFails, Refocus, Connect
    <2> QED
      BY <1>1, <2>1, <2>2, PageFacts, PageStep
  <1> QED
    BY <1>2, <1>3, <1>4

\* A click, taken only while no other one is under way.
LEMMA ClickKeeps ==
    ASSUME IInv, NEW line \in Segments, handleClick(line)
    PROVE  IInv'
  <1>1. call.step = "none" /\ cache.mine = NoLine
    BY PageFacts DEF handleClick, mayClick
  <1>2. cache \in [at : Stood, mine : {NoLine}]
    BY <1>1, PageFacts
  <1>3. /\ call' = [step |-> "sent", line |-> line, before |-> cache, answer |-> 0]
        /\ cache' = [cache EXCEPT !.mine = line]
    BY DEF handleClick, NoCall
  <1>4. /\ call'.step = "sent" /\ call'.line = line
        /\ call'.before \in [at : Stood, mine : {NoLine}]
        /\ call' \in [step : Steps, line : Segments \union {NoLine},
                      before : {call'.before}, answer : {0} \union Stood]
    BY <1>2, <1>3 DEF Steps
  <1>5. cache' \in [at : Stood, mine : Segments \union {NoLine}] /\ cache'.mine = line
    BY <1>2, <1>3
  <1>6. UNCHANGED <<hist, out, feed, fetch>>
    BY DEF handleClick, serverVars
  <1> QED
    BY <1>4, <1>5, <1>6, PageFacts, PageStep

\* Its end: the answer is shown, or the copy from before it is back.
LEMMA CallEnds ==
    ASSUME IInv, MoveAccepted \/ MoveRefused \/ MoveFails
    PROVE  IInv'
  <1>1. call' = NoCall /\ UNCHANGED <<hist, out, feed, fetch>>
    BY DEF MoveAccepted, MoveRefused, MoveFails, serverVars
  <1>2. PlainCache
    <2>1. CASE MoveAccepted
      BY <2>1, CopyArrives DEF MoveAccepted, IInv, CallInOrder
    <2>2. CASE MoveRefused \/ MoveFails
      <3>1. call.before \in [at : Stood, mine : {NoLine}]
        BY <2>2 DEF MoveRefused, MoveFails, IInv, CallInOrder
      <3> QED
        BY <2>2, <3>1 DEF MoveRefused, MoveFails, rollback, PlainCache
    <2> QED
      BY <2>1, <2>2
  <1> QED
    BY <1>1, <1>2, PageFacts, PageStep

------------------------------------------------------------------------------
(* How the newest state reaches the page.                                  *)

\* Unless a newer copy was replaced or a state went past it, the page shows
\* what was broadcast last, or that is on its way: at the end of the feed, in
\* a fetch that reads it or is still to read, or in the fetch that follows
\* the next connect.
NewsUnderway ==
    \/ overtaken \/ missed
    \/ cache.at >= out
    \/ feed # <<>> /\ feed[Len(feed)] = out
    \/ fetch.step \in {"sent", "subscribed"}
    \/ fetch.step = "read" /\ fetch.copy >= out
    \/ link = "none"

\* The last element stays when the first is taken, unless it was the first.
LEMMA LastOfTail ==
    ASSUME NEW S, NEW s \in Seq(S), s # <<>>
    PROVE  s[Len(s)] = Head(s) \/ (Tail(s) # <<>> /\ Tail(s)[Len(Tail(s))] = s[Len(s)])
  <1>1. Len(s) \in Nat /\ Len(s) # 0
    OBVIOUS
  <1>2. CASE Len(s) = 1
    BY <1>2
  <1>3. CASE Len(s) >= 2
    <2>1. Len(Tail(s)) = Len(s) - 1
      BY <1>3
    <2> QED
      BY <1>1, <1>3, <2>1
  <1> QED
    BY <1>1, <1>2, <1>3

\* A copy that arrives is as new as the last broadcast, or it is noted that
\* it replaced a newer one, or the page was behind before.
LEMMA CopyShown ==
    ASSUME IInv, NEW v \in Stood,
           overtaken' = (v < Now /\ (overtaken \/ v < cache.at)),
           missed' = (missed /\ v < Now)
    PROVE  \/ overtaken' \/ missed' \/ v >= out
           \/ ~overtaken /\ ~missed /\ cache.at < out
  <1>1. v \in Nat /\ out \in Nat /\ out <= Now /\ cache.at \in Nat /\ Now \in Nat
    BY PageFacts DEF Stood
  <1>2. CASE v >= out
    BY <1>2
  <1>3. CASE v < out
    <2>1. v < Now
      BY <1>1, <1>3
    <2>2. (overtaken \/ v < cache.at => overtaken') /\ (missed => missed')
      BY <2>1, Zenon
    <2>3. CASE cache.at >= out
      <3>1. v < cache.at
        BY <1>1, <1>3, <2>3
      <3> QED
        BY <2>2, <3>1, Zenon
    <2>4. CASE cache.at < out
      BY <2>2, <2>4, Zenon
    <2> QED
      BY <1>1, <2>3, <2>4
  <1> QED
    BY <1>1, <1>2, <1>3

\* Broadcasting: a page that would miss the state is connected and has read the
\* game, and that is noted, or its fetch has yet to read it.
LEMMA BroadcastUnderway ==
    ASSUME IInv, NewsUnderway, Broadcast \/ DropState
    PROVE  NewsUnderway'
  <1>1. CASE Relying /\ (DropState \/ ~subscribed)
    BY <1>1 DEF Broadcast, DropState, NewsUnderway
  <1>2. CASE Broadcast /\ subscribed
    <2>1. out \in Nat /\ feed \in Seq(Stood) /\ out + 1 \in Stood
      BY <1>2, PageFacts DEF Broadcast, Stood
    <2>2. feed' = Append(feed, out + 1) /\ out' = out + 1
      BY <1>2 DEF Broadcast
    <2>3. feed' # <<>> /\ feed'[Len(feed')] = out'
      BY <2>1, <2>2
    <2> QED
      BY <2>3 DEF NewsUnderway
  <1>3. CASE ~Relying
    <2>1. link = "none" \/ fetch.step \in {"sent", "subscribed"}
      BY <1>3 DEF Relying, IInv, TypeOK
    <2>2. link' = link /\ fetch' = fetch
      BY DEF Broadcast, DropState, linkVars, pageVars
    <2> QED
      BY <2>1, <2>2 DEF NewsUnderway
  <1> QED
    BY <1>1, <1>2, <1>3

\* The handlers of the server and of the hub, and the connection.
LEMMA HubUnderway ==
    ASSUME IInv, NewsUnderway,
           \/ OthersMove \/ TurnPasses \/ SomebodyForfeits \/ ServeMove
           \/ Register \/ ServeJoin \/ Subscribe \/ GetSubscribes \/ GetReads
           \/ LoseConnection \/ NoticeClose
    PROVE  NewsUnderway'
  <1>1. UNCHANGED <<out, cache, overtaken, missed>>
    BY DEF OthersMove, TurnPasses, SomebodyForfeits, ServeMove, Register, ServeJoin,
           Subscribe, GetSubscribes, GetReads, LoseConnection, NoticeClose, pageVars
  <1>2. CASE LoseConnection
    BY <1>2 DEF LoseConnection, NewsUnderway
  <1>3. CASE Register
    BY <1>1, <1>3 DEF Register, NewsUnderway, pageVars
  <1>4. CASE GetSubscribes
    <2>1. fetch'.step = "subscribed"
      BY <1>4 DEF GetSubscribes, IInv, TypeOK
    <2> QED
      BY <2>1 DEF NewsUnderway
  <1>5. CASE GetReads
    <2>1. fetch'.step = "read" /\ fetch'.copy >= out' /\ out' = out
      BY <1>5, PageFacts DEF GetReads, Stood
    <2> QED
      BY <2>1 DEF NewsUnderway
  <1>6. CASE UNCHANGED <<feed, fetch, link>>
    BY <1>1, <1>6 DEF NewsUnderway
  <1> QED
    BY <1>2, <1>3, <1>4, <1>5, <1>6
       DEF OthersMove, TurnPasses, SomebodyForfeits, ServeMove, ServeJoin,
           Subscribe, NoticeClose, pageVars, linkVars

\* The copies that arrive and the clicks of the player.
LEMMA PageUnderway ==
    ASSUME IInv, NewsUnderway,
           \/ \E line \in Segments : handleClick(line)
           \/ MoveAccepted \/ MoveRefused \/ MoveFails
           \/ ReceiveState \/ ReceiveFetch \/ FetchFails \/ Refocus \/ Connect
    PROVE  NewsUnderway'
  <1>1. CASE \E line \in Segments : handleClick(line)
    <2>1. cache'.at = cache.at /\ UNCHANGED <<out, feed, fetch, link, overtaken, missed>>
      BY <1>1, PageFacts DEF handleClick, linkVars
    <2> QED
      BY <2>1 DEF NewsUnderway
  <1>2. CASE Refocus \/ Connect
    BY <1>2 DEF Refocus, Connect, refetch, NoFetch, NewsUnderway
  <1>3. CASE MoveAccepted \/ MoveRefused \/ MoveFails
    <2>1. UNCHANGED <<out, feed, fetch, link>>
      BY <1>3 DEF MoveAccepted, MoveRefused, MoveFails, linkVars
    <2>2. PICK v \in Stood :
             /\ cache'.at = v
             /\ overtaken' = (v < Now /\ (overtaken \/ v < cache.at))
             /\ missed' = (missed /\ v < Now)
      <3>1. CASE MoveAccepted
        BY <3>1 DEF MoveAccepted, setQueryData, Copy, IInv, CallInOrder
      <3>2. CASE MoveRefused \/ MoveFails
        <4>1. call.before.at \in Stood
          BY <3>2 DEF MoveRefused, MoveFails, IInv, CallInOrder
        <4> QED
          BY <3>2, <4>1 DEF MoveRefused, MoveFails, rollback
      <3> QED
        BY <1>3, <3>1, <3>2
    <2> QED
      BY <2>1, <2>2, CopyShown, PageFacts DEF NewsUnderway, Stood
  <1>4. CASE ReceiveState
    <2> DEFINE v == Head(feed)
    <2>1. /\ v \in Stood /\ cache'.at = v
          /\ overtaken' = (v < Now /\ (overtaken \/ v < cache.at))
          /\ missed' = (missed /\ v < Now)
          /\ UNCHANGED <<out, fetch, link>> /\ feed' = Tail(feed)
      BY <1>4, PageFacts DEF ReceiveState, feedApplied, setQueryData, Copy, linkVars
    <2>2. feed \in Seq(Stood) /\ feed # <<>>
      BY <1>4, PageFacts DEF ReceiveState
    <2>3. feed[Len(feed)] = out => v = out \/ (feed' # <<>> /\ feed'[Len(feed')] = out)
      BY <2>1, <2>2, LastOfTail
    <2> HIDE DEF v
    <2>4. /\ overtaken' \/ missed' \/ cache'.at >= out'
             \/ (~overtaken /\ ~missed /\ ~(cache.at >= out))
          /\ v = out => cache'.at >= out'
      BY <2>1, CopyShown, PageFacts DEF Stood
    <2> QED
      BY <2>1, <2>2, <2>3, <2>4 DEF NewsUnderway
  <1>5. CASE ReceiveFetch
    <2> DEFINE v == fetch.copy
    <2>1. /\ v \in Stood /\ cache'.at = v
          /\ overtaken' = (v < Now /\ (overtaken \/ v < cache.at))
          /\ missed' = (missed /\ v < Now)
          /\ UNCHANGED <<out, feed, link>> /\ fetch.step = "read"
      BY <1>5 DEF ReceiveFetch, setQueryData, Copy, linkVars, IInv, CallInOrder
    <2>2. cache'.at >= out' \/ ~(fetch.step = "read" /\ fetch.copy >= out)
      BY <2>1
    <2> HIDE DEF v
    <2>3. /\ overtaken' \/ missed' \/ cache'.at >= out'
             \/ (~overtaken /\ ~missed /\ ~(cache.at >= out))
          /\ v = out => cache'.at >= out'
      BY <2>1, CopyShown, PageFacts DEF Stood
    <2> QED
      BY <2>1, <2>2, <2>3 DEF NewsUnderway
  <1>6. CASE FetchFails
    <2>1. UNCHANGED <<out, feed, cache, link, overtaken>>
      BY <1>6 DEF FetchFails, linkVars
    <2>2. missed' = (missed \/ (link # "none" /\ ~UpToDate))
      BY <1>6 DEF FetchFails
    <2>3. overtaken \/ missed' \/ link = "none" \/ UpToDate
      BY <2>2, Zenon
    <2> QED
      BY <2>1, <2>3 DEF NewsUnderway, UpToDate
  <1> QED
    BY <1>1, <1>2, <1>3, <1>4, <1>5, <1>6

LEMMA NextUnderway == IInv /\ NewsUnderway /\ [Next]_vars => NewsUnderway'
  <1> SUFFICES ASSUME IInv, NewsUnderway, [Next]_vars PROVE NewsUnderway'
    OBVIOUS
  <1>1. CASE UNCHANGED vars
    BY <1>1 DEF vars, NewsUnderway, pageVars, linkVars
  <1> QED
    BY <1>1, BroadcastUnderway, HubUnderway, PageUnderway DEF Next

------------------------------------------------------------------------------
(* The theorems.                                                           *)

LEMMA Initially == Init => IInv
  <1> SUFFICES ASSUME Init PROVE IInv
    OBVIOUS
  <1>1. PICK first \in {Me, Others} : hist = <<[lines |-> {}, turn |-> first, over |-> FALSE]>>
    BY DEF Init
  <1>2. hist \in Seq(States) /\ Now = 1 /\ Stood = {1} /\ LinesStay
    BY <1>1 DEF States, Now, Stood, LinesStay, current
  <1>3. /\ out = 1 /\ feed = <<>> /\ cache = [at |-> 1, mine |-> NoLine]
        /\ call = [step |-> "none", line |-> NoLine, before |-> 0, answer |-> 0]
        /\ fetch = [step |-> "sent", copy |-> 0]
    BY DEF Init, Copy, NoCall, NoFetch
  <1>4. TypeOK
    BY <1>2, <1>3 DEF TypeOK, Steps
  <1> QED
    BY <1>2, <1>3, <1>4 DEF IInv, MineIsCalled, CallInOrder

LEMMA Always == IInv /\ [Next]_vars => IInv'
  <1> SUFFICES ASSUME IInv, [Next]_vars PROVE IInv'
    OBVIOUS
  <1>1. CASE OthersMove \/ TurnPasses \/ SomebodyForfeits
    BY <1>1, ServerKeeps
  <1>2. CASE ServeMove
    BY <1>2, MoveServed
  <1>3. CASE \/ Broadcast \/ DropState \/ Register \/ ServeJoin \/ Subscribe
             \/ GetSubscribes \/ GetReads \/ LoseConnection \/ NoticeClose
    BY <1>3, HubKeeps
  <1>4. CASE ReceiveState \/ ReceiveFetch \/ FetchFails \/ Refocus \/ Connect
    BY <1>4, ReceiveKeeps
  <1>5. CASE \E line \in Segments : handleClick(line)
    BY <1>5, ClickKeeps
  <1>6. CASE MoveAccepted \/ MoveRefused \/ MoveFails
    BY <1>6, CallEnds
  <1>7. CASE UNCHANGED vars
    BY <1>7, PageFacts, PageStep DEF vars, serverVars, pageVars
  <1> QED
    BY <1>1, <1>2, <1>3, <1>4, <1>5, <1>6, <1>7 DEF Next

\* The variables keep their types, for any board and number of faults.
THEOREM TypeCorrect == Spec => []TypeOK
  <1>1. IInv => TypeOK
    BY DEF IInv
  <1> QED
    BY Initially, Always, <1>1, PTL DEF Spec

\* Lines are never taken back: every copy under way, and the one shown, is part
\* of the stored game.
THEOREM CopiesStay == Spec => []LinesStay
  <1>1. IInv => LinesStay
    BY DEF IInv
  <1> QED
    BY Initially, Always, <1>1, PTL DEF Spec

\* Whatever is refused, lost or late, the page keeps no line the server has
\* not taken, but for the click that is being decided (handleClick).
THEOREM NoLineStaysBehind == Spec => []NoPhantomLine
  <1>1. IInv => NoPhantomLine
    <2> SUFFICES ASSUME IInv PROVE NoPhantomLine
      OBVIOUS
    <2>1. cache.at \in Stood /\ (call.step = "none" => cache.mine = NoLine)
      BY PageFacts
    <2>2. hist[cache.at].lines \subseteq current.lines
      BY <2>1 DEF IInv, LinesStay
    <2>3. cache.mine \in {NoLine, call.line}
      BY DEF IInv, MineIsCalled
    <2> QED
      BY <2>1, <2>2, <2>3 DEF NoPhantomLine, Shown
  <1> QED
    BY Initially, Always, <1>1, PTL DEF Spec

\* What was broadcast last is shown or on its way, or the reason is noted: it
\* was broadcast past the page, dropped, left out by a failed refetch, or
\* replaced by an older copy (HandleConnections, refetch on connect).
THEOREM NewsInvariance == Spec => []NewsUnderway
  <1>1. Init => NewsUnderway
    BY DEF Init, NewsUnderway, NoFetch
  <1>2. Spec => []IInv
    BY Initially, Always, PTL DEF Spec
  <1> QED
    BY <1>1, <1>2, NextUnderway, PTL DEF Spec

\* A connected page to which everything has been delivered is behind the
\* server only if an older copy replaced a newer one or a state went past it:
\* between the read and the subscription, dropped on the way to the room, or
\* left out by a failed refetch.  For any number of copies, refetches, lost
\* connections and dropped states (game/$gameID.tsx, refetch on connect and
\* the feed).
THEOREM StaleOnlyWithCause == Spec => []StaleHasCause
  <1>1. IInv /\ NewsUnderway => StaleHasCause
    <2> SUFFICES ASSUME IInv, NewsUnderway, Quiet, ~overtaken, ~missed
                 PROVE  cache.at = Now
      BY DEF StaleHasCause
    <2>1. cache.at >= out /\ out = Now
      BY DEF Quiet, NewsUnderway
    <2> QED
      BY <2>1, PageFacts DEF Stood
  <1>2. Spec => []IInv
    BY Initially, Always, PTL DEF Spec
  <1> QED
    BY <1>1, <1>2, NewsInvariance, PTL
=============================================================================
