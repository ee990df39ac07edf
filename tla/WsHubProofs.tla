------------------------------ MODULE WsHubProofs ------------------------------
(***************************************************************************)
(* Proofs about the WebSocket hub, for any connections, users, topics and  *)
(* capacities.                                                             *)
(*                                                                         *)
(* That an absent user is heard absent rests on where readers are: a       *)
(* connection is registered before its reader starts and as long as the    *)
(* reader can still publish page:join.  That a topic is subscribed once    *)
(* rests on the flag, which outlives the room.                             *)
(***************************************************************************)
EXTENDS WsHub, TLAPS

USE HubAssumption

------------------------------------------------------------------------------
(* The invariant.                                                          *)

\* A connection is registered from the start of ServeWs to its unregister.
RegisteredByStage ==
    \A c \in Conns : c \in registered <=> reader[c] \in {"opening", "reading", "leaving"}

\* How many opening subscriptions are behind a connection.
OpeningProgress ==
    \A c \in Conns : /\ reader[c] = "new" => opened[c] = 0
                     /\ reader[c] = "opening" => opened[c] < Len(Opening)

\* The flag says whether a topic's bus goroutine was started.
FlagCounts ==
    \A topic \in Topics :
        starting[topic] + listening[topic] <= IF topic \in subscribedBus THEN 1 ELSE 0

IInv ==
    /\ TypeOK
    /\ RegisteredByStage /\ OpeningProgress
    /\ FlagCounts
    /\ AbsentIsHeardAbsent

------------------------------------------------------------------------------
(* Initial states and steps that leave a part alone.                       *)

LEMMA InitIInv == Init => IInv
  <1> SUFFICES ASSUME Init PROVE IInv
    OBVIOUS
  <1>1. Len(Opening) \in Nat \ {0}
    OBVIOUS
  <1>2. TypeOK
    BY <1>1 DEF Init, TypeOK
  <1>3. RegisteredByStage /\ OpeningProgress /\ FlagCounts /\ AbsentIsHeardAbsent
    BY <1>1 DEF Init, RegisteredByStage, OpeningProgress, FlagCounts, AbsentIsHeardAbsent
  <1> QED
    BY <1>2, <1>3 DEF IInv

\* Sessions depend on what is registered only.
LEMMA SessionsStay ==
    ASSUME AbsentIsHeardAbsent, UNCHANGED registered,
           \A u \in Users : u \in heard' => u \in heard \/ sessions(u) # {}
    PROVE  AbsentIsHeardAbsent'
  BY DEF AbsentIsHeardAbsent, sessions

\* A step that leaves the sessions and the bus alone keeps IInv if it keeps
\* the types and moves no connection between stages.
LEMMA QueueStepKeeps ==
    ASSUME IInv, TypeOK', UNCHANGED <<registered, subscribedBus, reader, opened>>,
           UNCHANGED <<starting, listening>>,
           \A u \in Users : u \in heard' => u \in heard \/ sessions(u) # {}
    PROVE  IInv'
  <1>1. RegisteredByStage' /\ OpeningProgress' /\ FlagCounts'
    BY DEF IInv, RegisteredByStage, OpeningProgress, FlagCounts
  <1>2. AbsentIsHeardAbsent'
    BY SessionsStay DEF IInv
  <1> QED
    BY <1>1, <1>2 DEF IInv

\* The bound on events holds after one more.
LEMMA AnotherType ==
    ASSUME TypeOK, Another
    PROVE  events' \in 0 .. MaxEvents
  BY DEF TypeOK, Another

\* A request added to the channel keeps its type.
LEMMA EnqueueType ==
    ASSUME TypeOK, NEW topic \in Topics, NEW c \in Conns, Enqueue(topic, c)
    PROVE  subscribe' \in Seq(Requests) /\ Len(subscribe') <= SubscribeLimit
  <1>1. [topic |-> topic, conn |-> c] \in Requests
    BY DEF Requests
  <1> QED
    BY <1>1 DEF Enqueue, TypeOK

------------------------------------------------------------------------------
(* Run.                                                                    *)

LEMMA RegisterKeeps ==
    ASSUME IInv, NEW c \in Conns, Register(c)
    PROVE  IInv'
  <1>1. TypeOK'
    BY DEF IInv, TypeOK, Register, Turn, busVars
  <1>2. RegisteredByStage'
    BY DEF IInv, TypeOK, RegisteredByStage, Register, Turn
  <1>3. OpeningProgress'
    BY DEF IInv, TypeOK, OpeningProgress, Register, Turn
  <1>4. FlagCounts'
    BY DEF IInv, FlagCounts, Register, busVars
  <1>5. AbsentIsHeardAbsent'
    <2> SUFFICES ASSUME NEW u \in Users, sessions(u)' = {} PROVE u \notin heard'
      BY DEF AbsentIsHeardAbsent
    <2>1. sessions(u) = {} /\ Owner[c] # u
      BY DEF sessions, Register
    <2> QED
      BY <2>1 DEF IInv, AbsentIsHeardAbsent, Register
  <1> QED
    BY <1>1, <1>2, <1>3, <1>4, <1>5 DEF IInv

LEMMA UnregisterKeeps ==
    ASSUME IInv, NEW c \in Conns, Unregister(c)
    PROVE  IInv'
  <1>1. TypeOK'
    <2>1. rooms' \in [Topics -> SUBSET Conns]
      BY DEF IInv, TypeOK, Unregister
    <2> QED
      BY <2>1 DEF IInv, TypeOK, Unregister, Turn, busVars
  <1>2. RegisteredByStage'
    BY DEF IInv, TypeOK, RegisteredByStage, Unregister, Turn
  <1>3. OpeningProgress'
    BY DEF IInv, TypeOK, OpeningProgress, Unregister, Turn
  <1>4. FlagCounts'
    BY DEF IInv, FlagCounts, Unregister, busVars
  <1>5. AbsentIsHeardAbsent'
    <2> SUFFICES ASSUME NEW u \in Users, sessions(u)' = {} PROVE u \notin heard'
      BY DEF AbsentIsHeardAbsent
    <2>1. CASE u = Owner[c]
      <3>1. sessions(u) \subseteq {c}
        BY DEF sessions, Unregister
      <3> QED
        BY <2>1, <3>1 DEF Unregister
    <2>2. CASE u # Owner[c]
      <3>1. sessions(u) = {}
        BY <2>2 DEF sessions, Unregister
      <3> QED
        BY <3>1 DEF IInv, AbsentIsHeardAbsent, Unregister
    <2> QED
      BY <2>1, <2>2
  <1> QED
    BY <1>1, <1>2, <1>3, <1>4, <1>5 DEF IInv

LEMMA ReceiveSubscribeKeeps ==
    ASSUME IInv, ReceiveSubscribe
    PROVE  IInv'
  <1> DEFINE topic == Head(subscribe).topic
             conn  == Head(subscribe).conn
  <1>1. topic \in Topics /\ conn \in Conns
    <2>1. Head(subscribe) \in Requests
      BY DEF IInv, TypeOK, ReceiveSubscribe
    <2> QED
      BY <2>1 DEF Requests
  <1>2. /\ subscribe' = Tail(subscribe) /\ subscribe # <<>>
        /\ rooms' = [rooms EXCEPT ![topic] = @ \union {conn}]
        /\ subscribedBus' = subscribedBus \union {topic}
        /\ starting' = IF topic \in subscribedBus THEN starting
                       ELSE [starting EXCEPT ![topic] = @ + 1]
        /\ UNCHANGED <<registered, sending, dropping, listening, faults, connVars,
                       broadcast, request, heard, events>>
    BY DEF ReceiveSubscribe
  <1> HIDE DEF topic, conn
  <1>3. TypeOK'
    <2>1. subscribe' \in Seq(Requests) /\ Len(subscribe') <= SubscribeLimit
      BY <1>2 DEF IInv, TypeOK
    <2>2. rooms' \in [Topics -> SUBSET Conns] /\ subscribedBus' \subseteq Topics
      <3>1. rooms \in [Topics -> SUBSET Conns] /\ subscribedBus \subseteq Topics
        BY DEF IInv, TypeOK
      <3>2. rooms[topic] \union {conn} \in SUBSET Conns
        BY <1>1, <3>1
      <3> QED
        BY <1>1, <1>2, <3>1, <3>2
    <2>3. starting' \in [Topics -> Nat]
      <3>1. starting \in [Topics -> Nat]
        BY DEF IInv, TypeOK
      <3>2. [starting EXCEPT ![topic] = @ + 1] \in [Topics -> Nat]
        BY <1>1, <3>1
      <3> QED
        BY <1>2, <3>1, <3>2
    <2> QED
      BY <1>2, <2>1, <2>2, <2>3 DEF IInv, TypeOK, connVars
  <1>4. RegisteredByStage' /\ OpeningProgress'
    BY <1>2 DEF IInv, RegisteredByStage, OpeningProgress, connVars
  <1>5. FlagCounts'
    <2> SUFFICES ASSUME NEW t \in Topics
                 PROVE  starting'[t] + listening'[t] <= IF t \in subscribedBus' THEN 1 ELSE 0
      BY DEF FlagCounts
    <2>1. /\ starting[t] \in Nat /\ listening[t] \in Nat /\ listening' = listening
          /\ starting[t] + listening[t] <= IF t \in subscribedBus THEN 1 ELSE 0
      BY <1>2 DEF IInv, TypeOK, FlagCounts
    <2>2. CASE t # topic \/ topic \in subscribedBus
      <3>1. starting'[t] = starting[t] /\ (t \in subscribedBus' <=> t \in subscribedBus)
        BY <1>1, <1>2, <2>2 DEF IInv, TypeOK
      <3> QED
        BY <2>1, <3>1
    <2>3. CASE t = topic /\ topic \notin subscribedBus
      <3>1. starting'[t] = starting[t] + 1 /\ t \in subscribedBus'
        BY <1>2, <2>3 DEF IInv, TypeOK
      <3> QED
        BY <2>1, <2>3, <3>1
    <2> QED
      BY <2>2, <2>3
  <1>6. AbsentIsHeardAbsent'
    BY <1>2, SessionsStay DEF IInv
  <1> QED
    BY <1>3, <1>4, <1>5, <1>6 DEF IInv

LEMMA ReceiveBroadcastKeeps ==
    ASSUME IInv, ReceiveBroadcast
    PROVE  IInv'
  <1>1. Head(broadcast) \in Topics
    BY DEF IInv, TypeOK, ReceiveBroadcast
  <1>2. broadcast' \in Seq(Topics) /\ Len(broadcast') <= BroadcastLimit
    BY DEF IInv, TypeOK, ReceiveBroadcast
  <1>3. TypeOK'
    BY <1>1, <1>2 DEF IInv, TypeOK, ReceiveBroadcast, busVars, connVars
  <1> QED
    BY <1>3, QueueStepKeeps DEF ReceiveBroadcast, busVars, connVars

LEMMA SendKeeps ==
    ASSUME IInv, NEW c \in Conns, Send(c)
    PROVE  IInv'
  <1>1. TypeOK'
    <2>1. CASE egress[c] < EgressLimit
      <3>0. egress[c] \in 0 .. EgressLimit /\ egress \in [Conns -> 0 .. EgressLimit]
        BY DEF IInv, TypeOK
      <3>1. egress[c] + 1 \in 0 .. EgressLimit
        BY <2>1, <3>0
      <3>2. egress' = [egress EXCEPT ![c] = egress[c] + 1]
        BY <2>1 DEF Send
      <3>3. egress' \in [Conns -> 0 .. EgressLimit]
        BY <3>0, <3>1, <3>2
      <3> QED
        BY <2>1, <3>3 DEF IInv, TypeOK, Send, busVars
    <2>2. CASE ~(egress[c] < EgressLimit)
      BY <2>2 DEF IInv, TypeOK, Send, busVars
    <2> QED
      BY <2>1, <2>2
  <1> QED
    BY <1>1, QueueStepKeeps DEF Send, busVars

------------------------------------------------------------------------------
(* The event bus.                                                          *)

LEMMA BusKeeps ==
    ASSUME IInv, NEW topic \in Topics, BusSubscribed(topic) \/ BusSubscribeFails(topic)
    PROVE  IInv'
  <1>0. BusSubscribed(topic) \/ BusSubscribeFails(topic)
    OBVIOUS
  <1>1. /\ starting[topic] > 0 /\ starting' = [starting EXCEPT ![topic] = @ - 1]
        /\ listening' \in {listening, [listening EXCEPT ![topic] = @ + 1]}
        /\ faults' \in 0 .. MaxFaults
        /\ UNCHANGED <<hubVars, connVars, subscribe, broadcast, request, heard, events>>
    <2>1. CASE BusSubscribed(topic)
      <3>1. faults' \in 0 .. MaxFaults
        BY <2>1 DEF BusSubscribed, IInv, TypeOK
      <3> QED
        BY <2>1, <3>1 DEF BusSubscribed
    <2>2. CASE BusSubscribeFails(topic)
      <3>1. faults \in 0 .. MaxFaults /\ faults < MaxFaults /\ faults' = faults + 1
        BY <2>2 DEF BusSubscribeFails, IInv, TypeOK
      <3>2. faults' \in 0 .. MaxFaults
        BY <3>1, HubAssumption
      <3> QED
        BY <2>2, <3>2 DEF BusSubscribeFails
    <2> QED
      BY <1>0, <2>1, <2>2
  <1>2. starting' \in [Topics -> Nat] /\ listening' \in [Topics -> Nat]
    <2>1. starting \in [Topics -> Nat] /\ listening \in [Topics -> Nat]
      BY DEF IInv, TypeOK
    <2>2. starting[topic] \in Nat /\ listening[topic] \in Nat
      BY <2>1
    <2>3. starting[topic] - 1 \in Nat /\ listening[topic] + 1 \in Nat
      BY <1>1, <2>2
    <2>4. starting' \in [Topics -> Nat]
      BY <1>1, <2>1, <2>3
    <2>5. [listening EXCEPT ![topic] = @ + 1] \in [Topics -> Nat]
      BY <2>1, <2>3
    <2>6. listening' \in [Topics -> Nat]
      BY <1>1, <2>1, <2>5
    <2> QED
      BY <2>4, <2>6
  <1>3. TypeOK'
    BY <1>1, <1>2 DEF IInv, TypeOK, hubVars, connVars
  <1>4. RegisteredByStage' /\ OpeningProgress'
    BY <1>1 DEF IInv, RegisteredByStage, OpeningProgress, hubVars, connVars
  <1>5. FlagCounts'
    <2> SUFFICES ASSUME NEW t \in Topics
                 PROVE  starting'[t] + listening'[t] <= IF t \in subscribedBus' THEN 1 ELSE 0
      BY DEF FlagCounts
    <2>1. /\ starting[t] \in Nat /\ listening[t] \in Nat /\ subscribedBus' = subscribedBus
          /\ starting[t] + listening[t] <= IF t \in subscribedBus THEN 1 ELSE 0
      BY <1>1 DEF IInv, TypeOK, FlagCounts, hubVars
    <2>2. CASE t # topic
      <3>1. starting'[t] = starting[t] /\ listening'[t] = listening[t]
        BY <1>1, <2>2 DEF IInv, TypeOK
      <3> QED
        BY <2>1, <3>1
    <2>3. CASE t = topic
      <3>1. starting'[t] = starting[t] - 1 /\ listening'[t] <= listening[t] + 1
        BY <1>1, <2>1, <2>3 DEF IInv, TypeOK
      <3>2. listening'[t] \in Nat
        BY <1>2
      <3> QED
        BY <2>1, <3>1, <3>2
    <2> QED
      BY <2>2, <2>3
  <1>6. AbsentIsHeardAbsent'
    BY <1>1, SessionsStay DEF IInv, hubVars
  <1> QED
    BY <1>3, <1>4, <1>5, <1>6 DEF IInv

LEMMA PublishKeeps ==
    ASSUME IInv, NEW topic \in Topics, Publish(topic)
    PROVE  IInv'
  <1>1. broadcast' \in Seq(Topics) /\ Len(broadcast') <= BroadcastLimit
    BY DEF IInv, TypeOK, Publish
  <1>2. TypeOK'
    <2>1. events' \in 0 .. MaxEvents
      BY AnotherType DEF IInv, Publish
    <2> QED
      BY <1>1, <2>1 DEF IInv, TypeOK, Publish, hubVars, busVars, connVars
  <1> QED
    BY <1>2, QueueStepKeeps DEF Publish, hubVars, busVars, connVars

------------------------------------------------------------------------------
(* A connection.                                                           *)

LEMMA OpenKeeps ==
    ASSUME IInv, NEW c \in Conns, Open(c)
    PROVE  IInv'
  <1>1. opened[c] + 1 \in 1 .. Len(Opening) /\ Opening[opened[c] + 1] \in Topics
    <2>1. opened[c] \in 0 .. Len(Opening) /\ opened[c] < Len(Opening)
      BY DEF IInv, TypeOK, OpeningProgress, Open
    <2>2. Opening \in Seq(Topics)
      BY HubAssumption
    <2>3. opened[c] + 1 \in 1 .. Len(Opening)
      BY <2>1, <2>2
    <2> QED
      BY <2>2, <2>3
  <1>2. subscribe' \in Seq(Requests) /\ Len(subscribe') <= SubscribeLimit
    BY <1>1, EnqueueType DEF IInv, Open
  <1>3. /\ opened' = [opened EXCEPT ![c] = @ + 1]
        /\ \/ /\ opened[c] + 1 = Len(Opening)
              /\ reader' = [reader EXCEPT ![c] = "reading"]
              /\ writer' = [writer EXCEPT ![c] = "on"]
           \/ opened[c] + 1 # Len(Opening) /\ UNCHANGED <<reader, writer>>
        /\ reader[c] = "opening"
        /\ UNCHANGED <<hubVars, busVars, egress, broadcast, request, heard, events>>
    BY DEF Open, Turn
  <1>4. TypeOK'
    <2>1. opened' \in [Conns -> 0 .. Len(Opening)]
      <3>1. opened \in [Conns -> 0 .. Len(Opening)]
        BY DEF IInv, TypeOK
      <3>2. opened[c] + 1 \in 0 .. Len(Opening)
        BY <1>1
      <3> QED
        BY <1>3, <3>1, <3>2
    <2>2. reader' \in {reader, [reader EXCEPT ![c] = "reading"]}
      BY <1>3
    <2>3. writer' \in {writer, [writer EXCEPT ![c] = "on"]}
      BY <1>3
    <2> QED
      BY <1>2, <1>3, <2>1, <2>2, <2>3 DEF IInv, TypeOK, hubVars, busVars
  <1>5. RegisteredByStage'
    BY <1>3 DEF IInv, TypeOK, RegisteredByStage, hubVars
  <1>6. OpeningProgress'
    <2> SUFFICES ASSUME NEW d \in Conns
                 PROVE  /\ reader'[d] = "new" => opened'[d] = 0
                        /\ reader'[d] = "opening" => opened'[d] < Len(Opening)
      BY DEF OpeningProgress
    <2>1. CASE d = c
      <3>1. opened'[c] = opened[c] + 1 /\ opened'[c] \in 1 .. Len(Opening)
        BY <1>1, <1>3 DEF IInv, TypeOK
      <3>2. reader'[c] # "new"
        BY <1>3 DEF IInv, TypeOK
      <3>3. reader'[c] = "opening" => opened[c] + 1 # Len(Opening)
        BY <1>3 DEF IInv, TypeOK
      <3>4. opened'[c] # Len(Opening) => opened'[c] < Len(Opening)
        BY <3>1, HubAssumption
      <3> QED
        BY <2>1, <3>1, <3>2, <3>3, <3>4
    <2>2. CASE d # c
      <3>1. opened'[d] = opened[d] /\ reader'[d] = reader[d]
        BY <1>3, <2>2 DEF IInv, TypeOK
      <3> QED
        BY <3>1 DEF IInv, OpeningProgress
    <2> QED
      BY <2>1, <2>2
  <1>7. FlagCounts'
    BY <1>3 DEF IInv, FlagCounts, hubVars, busVars
  <1>8. AbsentIsHeardAbsent'
    BY <1>3, SessionsStay DEF IInv, hubVars
  <1> QED
    BY <1>4, <1>5, <1>6, <1>7, <1>8 DEF IInv

\* The reader still runs, so its user has a session.
LEMMA JoinPageKeeps ==
    ASSUME IInv, NEW c \in Conns, NEW topic \in Topics, JoinPage(c, topic)
    PROVE  IInv'
  <1>1. subscribe' \in Seq(Requests) /\ Len(subscribe') <= SubscribeLimit
    BY EnqueueType DEF IInv, JoinPage
  <1>2. TypeOK'
    <2>1. events' \in 0 .. MaxEvents
      BY AnotherType DEF IInv, JoinPage
    <2> QED
      BY <1>1, <2>1 DEF IInv, TypeOK, JoinPage, hubVars, busVars, connVars
  <1>3. sessions(Owner[c]) # {}
    BY DEF IInv, RegisteredByStage, JoinPage, sessions
  <1> QED
    BY <1>2, <1>3, QueueStepKeeps DEF JoinPage, hubVars, busVars, connVars

LEMMA LeavePageKeeps ==
    ASSUME IInv, NEW c \in Conns, LeavePage(c)
    PROVE  IInv'
  <1>1. TypeOK'
    <2>1. events' \in 0 .. MaxEvents
      BY AnotherType DEF IInv, LeavePage
    <2> QED
      BY <2>1 DEF IInv, TypeOK, LeavePage, hubVars, busVars, connVars
  <1> QED
    BY <1>1, QueueStepKeeps DEF LeavePage, hubVars, busVars, connVars

LEMMA ReaderEndsKeeps ==
    ASSUME IInv, NEW c \in Conns, ReaderEnds(c)
    PROVE  IInv'
  <1>1. TypeOK'
    BY DEF IInv, TypeOK, ReaderEnds, Turn, hubVars, busVars
  <1>2. RegisteredByStage' /\ OpeningProgress'
    BY DEF IInv, TypeOK, RegisteredByStage, OpeningProgress, ReaderEnds, Turn, hubVars
  <1>3. FlagCounts'
    BY DEF IInv, FlagCounts, ReaderEnds, hubVars, busVars
  <1>4. AbsentIsHeardAbsent'
    BY SessionsStay DEF IInv, ReaderEnds, hubVars
  <1> QED
    BY <1>1, <1>2, <1>3, <1>4 DEF IInv

LEMMA WriterKeeps ==
    ASSUME IInv, NEW c \in Conns, Write(c) \/ WriterEnds(c)
    PROVE  IInv'
  <1>1. TypeOK'
    <2>1. CASE Write(c)
      <3>1. egress' \in [Conns -> 0 .. EgressLimit]
        BY <2>1 DEF IInv, TypeOK, Write
      <3> QED
        BY <2>1, <3>1 DEF IInv, TypeOK, Write, hubVars, busVars
    <2>2. CASE WriterEnds(c)
      BY <2>2 DEF IInv, TypeOK, WriterEnds, hubVars, busVars
    <2> QED
      BY <2>1, <2>2
  <1> QED
    BY <1>1, QueueStepKeeps DEF Write, WriterEnds, hubVars, busVars

LEMMA SubscribeUserKeeps ==
    ASSUME IInv, NEW u \in Users, NEW topic \in Topics, SubscribeUser(u, topic)
    PROVE  IInv'
  <1>1. sessions(u) \in SUBSET Conns
    BY DEF IInv, TypeOK, sessions
  <1>2. TypeOK'
    <2>1. events' \in 0 .. MaxEvents
      BY AnotherType DEF IInv, SubscribeUser
    <2> QED
      BY <1>1, <2>1 DEF IInv, TypeOK, SubscribeUser, hubVars, busVars, connVars
  <1> QED
    BY <1>2, QueueStepKeeps DEF SubscribeUser, hubVars, busVars, connVars

LEMMA SubscribeNextKeeps ==
    ASSUME IInv, NEW c \in Conns, SubscribeNext(c)
    PROVE  IInv'
  <1>1. request \in [topic : Topics, conns : SUBSET Conns]
    BY DEF IInv, TypeOK, SubscribeNext, NoRequest
  <1>2. subscribe' \in Seq(Requests) /\ Len(subscribe') <= SubscribeLimit
    BY <1>1, EnqueueType DEF IInv, SubscribeNext
  <1>3. request' = NoRequest \/ request' \in [topic : Topics, conns : SUBSET Conns]
    BY <1>1 DEF SubscribeNext
  <1>4. TypeOK'
    BY <1>2, <1>3 DEF IInv, TypeOK, SubscribeNext, hubVars, busVars, connVars
  <1> QED
    BY <1>4, QueueStepKeeps DEF SubscribeNext, hubVars, busVars, connVars

------------------------------------------------------------------------------
(* Theorems.                                                               *)

LEMMA NextIInv == IInv /\ [Next]_vars => IInv'
  <1> SUFFICES ASSUME IInv, [Next]_vars PROVE IInv'
    OBVIOUS
  <1>1. ASSUME Run PROVE IInv'
    BY <1>1, RegisterKeeps, UnregisterKeeps, SendKeeps, ReceiveSubscribeKeeps,
       ReceiveBroadcastKeeps DEF Run
  <1>2. CASE UNCHANGED vars
    <2>1. TypeOK'
      BY <1>2 DEF IInv, TypeOK, vars, hubVars, busVars, connVars
    <2> QED
      BY <1>2, <2>1, QueueStepKeeps DEF vars, hubVars, busVars, connVars
  <1> QED
    BY <1>1, <1>2, BusKeeps, PublishKeeps, OpenKeeps, JoinPageKeeps, LeavePageKeeps,
       ReaderEndsKeeps, WriterKeeps, SubscribeUserKeeps, SubscribeNextKeeps DEF Next

\* The strengthened invariant holds in every state.
THEOREM Invariance == Spec => []IInv
  <1> QED
    BY InitIInv, NextIInv, PTL DEF Spec

\* Every variable has its type and no channel exceeds its capacity (handler.go).
THEOREM TypeCorrect == Spec => []TypeOK
  <1>1. IInv => TypeOK
    BY DEF IInv
  <1> QED
    BY <1>1, Invariance, PTL

\* A user without a session is known to be away (handler.go, connection.go).
THEOREM AbsenceIsHeard == Spec => []AbsentIsHeardAbsent
  <1>1. IInv => AbsentIsHeardAbsent
    BY DEF IInv
  <1> QED
    BY <1>1, Invariance, PTL

\* No topic ever has two bus goroutines (handler.go, subscribedBus).
THEOREM OneSubscription == Spec => []SubscribedOnce
  <1>1. IInv => SubscribedOnce
    <2> SUFFICES ASSUME IInv, NEW t \in Topics PROVE starting[t] + listening[t] <= 1
      BY DEF SubscribedOnce
    <2>1. /\ starting[t] \in Nat /\ listening[t] \in Nat
          /\ starting[t] + listening[t] <= IF t \in subscribedBus THEN 1 ELSE 0
      BY DEF IInv, TypeOK, FlagCounts
    <2> QED
      BY <2>1
  <1> QED
    BY <1>1, Invariance, PTL
=============================================================================
