--------------------------------- MODULE WsHub ---------------------------------
(***************************************************************************)
(* The WebSocket hub: Manager.Run (internal/websocket/handler.go) and the  *)
(* goroutines of each connection (connection.go).                          *)
(*                                                                         *)
(* One goroutine, Run, owns the rooms.  register and unregister are        *)
(* unbuffered channels, so sending on them is one action together with     *)
(* Run's receive; subscribe, broadcast and egress are buffered, with a     *)
(* capacity.  An event is reduced to its topic, and an egress queue to its *)
(* length.  The event bus (Redis) delivers what is published while its     *)
(* subscription stands, in the order of publication.                       *)
(*                                                                         *)
(* A connection is used once: a client that connects again is another      *)
(* member of Conns, perhaps of the same user.                              *)
(***************************************************************************)
EXTENDS Naturals, Sequences

CONSTANTS
    Conns, Users,
    Owner,            \* the user of each connection
    Topics,
    Opening,          \* the topics ServeWs subscribes a connection to, in order
    SubscribeLimit, BroadcastLimit, EgressLimit,     \* capacities
    NoConn,
    MaxEvents,        \* bound: events, page changes and SubscribeUser calls
    MaxFaults         \* bound: Redis subscriptions that fail

ASSUME HubAssumption ==
    /\ Owner \in [Conns -> Users]
    /\ Opening \in Seq(Topics) \ {<<>>}
    /\ {SubscribeLimit, BroadcastLimit, EgressLimit} \subseteq Nat \ {0}
    /\ NoConn \notin Conns
    /\ MaxEvents \in Nat /\ MaxFaults \in Nat

VARIABLES
    registered,       \* connections and userConns, which hold the same sessions
    rooms,
    subscribedBus, starting, listening,   \* the flag, and the bus goroutines per topic
    subscribe, broadcast,                 \* the buffered channels
    sending, dropping,                    \* where Run is inside a broadcast
    reader, opened,   \* stage of a connection and of its opening subscriptions
    writer, egress,
    request,          \* the handler that is inside SubscribeUser
    heard,            \* users whose last event on "connections" is user_connected
    events, faults

hubVars == <<registered, rooms, subscribedBus, sending, dropping>>
busVars == <<starting, listening, faults>>
connVars == <<reader, opened, writer, egress>>
vars == <<hubVars, busVars, connVars, subscribe, broadcast, request, heard, events>>

NoRequest == [topic |-> "none", conns |-> {}]

sessions(u) == {c \in registered : Owner[c] = u}

\* Run is at its select.
Selecting == sending = {} /\ dropping = NoConn

Another == events < MaxEvents /\ events' = events + 1

\* Manager.Subscribe: blocks while the channel is full.
Enqueue(topic, c) ==
    /\ Len(subscribe) < SubscribeLimit
    /\ subscribe' = Append(subscribe, [topic |-> topic, conn |-> c])

Turn(c, stage) == reader' = [reader EXCEPT ![c] = stage]

------------------------------------------------------------------------------
(* Run.                                                                    *)

Register(c) ==
    /\ Selecting
    /\ reader[c] = "new"
    /\ Turn(c, "opening")
    /\ registered' = registered \union {c}
    /\ heard' = IF sessions(Owner[c]) = {} THEN heard \union {Owner[c]} ELSE heard
    /\ UNCHANGED <<rooms, subscribedBus, sending, dropping, busVars, opened, writer,
                   egress, subscribe, broadcast, request, events>>

\* Mutant: the sessions are counted before this one is removed.
UnregisterCountFirst(c) ==
    /\ Selecting
    /\ reader[c] = "leaving"
    /\ Turn(c, "gone")
    /\ registered' = registered \ {c}
    /\ heard' = IF sessions(Owner[c]) = {} THEN heard \ {Owner[c]} ELSE heard
    /\ rooms' = [topic \in Topics |-> rooms[topic] \ {c}]
    /\ UNCHANGED <<subscribedBus, sending, dropping, busVars, opened, writer,
                   egress, subscribe, broadcast, request, events>>

Unregister(c) ==
    /\ Selecting
    /\ reader[c] = "leaving"
    /\ Turn(c, "gone")
    /\ registered' = registered \ {c}
    /\ heard' = IF sessions(Owner[c]) \subseteq {c} THEN heard \ {Owner[c]} ELSE heard
    /\ rooms' = [topic \in Topics |-> rooms[topic] \ {c}]
    /\ UNCHANGED <<subscribedBus, sending, dropping, busVars, opened, writer,
                   egress, subscribe, broadcast, request, events>>

\* Mutant: a room that has become empty loses its subscription flag.
SubscribePerRoom ==
    /\ Selecting
    /\ subscribe # <<>>
    /\ subscribe' = Tail(subscribe)
    /\ LET topic == Head(subscribe).topic
       IN  /\ rooms' = [rooms EXCEPT ![topic] = @ \union {Head(subscribe).conn}]
           /\ subscribedBus' = subscribedBus \union {topic}
           /\ starting' = IF rooms[topic] # {} THEN starting
                          ELSE [starting EXCEPT ![topic] = @ + 1]
    /\ UNCHANGED <<registered, sending, dropping, listening, faults, connVars,
                   broadcast, request, heard, events>>

\* Mutant: the connection that opens a topic is not added to its room.
SubscribeBusOnly ==
    /\ Selecting
    /\ subscribe # <<>>
    /\ subscribe' = Tail(subscribe)
    /\ LET topic == Head(subscribe).topic
       IN  IF topic \in subscribedBus
           THEN /\ rooms' = [rooms EXCEPT ![topic] = @ \union {Head(subscribe).conn}]
                /\ UNCHANGED <<subscribedBus, starting>>
           ELSE /\ subscribedBus' = subscribedBus \union {topic}
                /\ starting' = [starting EXCEPT ![topic] = @ + 1]
                /\ UNCHANGED rooms
    /\ UNCHANGED <<registered, sending, dropping, listening, faults, connVars,
                   broadcast, request, heard, events>>

ReceiveSubscribe ==
    /\ Selecting
    /\ subscribe # <<>>
    /\ subscribe' = Tail(subscribe)
    /\ LET topic == Head(subscribe).topic
       IN  /\ rooms' = [rooms EXCEPT ![topic] = @ \union {Head(subscribe).conn}]
           /\ subscribedBus' = subscribedBus \union {topic}
           /\ starting' = IF topic \in subscribedBus THEN starting
                          ELSE [starting EXCEPT ![topic] = @ + 1]
    /\ UNCHANGED <<registered, sending, dropping, listening, faults, connVars,
                   broadcast, request, heard, events>>

ReceiveBroadcast ==
    /\ Selecting
    /\ broadcast # <<>>
    /\ broadcast' = Tail(broadcast)
    /\ sending' = rooms[Head(broadcast)]
    /\ UNCHANGED <<registered, rooms, subscribedBus, dropping, busVars, connVars,
                   subscribe, request, heard, events>>

\* Connection.Send, called by Run for each member of the room in some order.
\* With a full egress it sends on unregister, and only Run receives there.
Send(c) ==
    /\ c \in sending /\ dropping = NoConn
    /\ IF egress[c] < EgressLimit
       THEN /\ egress' = [egress EXCEPT ![c] = @ + 1]
            /\ sending' = sending \ {c}
            /\ UNCHANGED dropping
       ELSE dropping' = c /\ UNCHANGED <<egress, sending>>
    /\ UNCHANGED <<registered, rooms, subscribedBus, busVars, reader, opened, writer,
                   subscribe, broadcast, request, heard, events>>

Run ==
    \/ \E c \in Conns : Register(c) \/ Unregister(c) \/ Send(c)
    \/ ReceiveSubscribe \/ ReceiveBroadcast

------------------------------------------------------------------------------
(* The event bus.                                                          *)

BusSubscribed(topic) ==
    /\ starting[topic] > 0
    /\ starting' = [starting EXCEPT ![topic] = @ - 1]
    /\ listening' = [listening EXCEPT ![topic] = @ + 1]
    /\ UNCHANGED <<hubVars, connVars, subscribe, broadcast, request, heard, events, faults>>

\* The error is logged; the topic stays marked as subscribed.
BusSubscribeFails(topic) ==
    /\ starting[topic] > 0
    /\ faults < MaxFaults
    /\ faults' = faults + 1
    /\ starting' = [starting EXCEPT ![topic] = @ - 1]
    /\ UNCHANGED <<hubVars, connVars, listening, subscribe, broadcast, request, heard, events>>

\* Somebody publishes on a topic.  Without a subscription, or with a full
\* broadcast channel, the event is lost.
Publish(topic) ==
    /\ Another
    /\ broadcast' = IF listening[topic] > 0 /\ Len(broadcast) < BroadcastLimit
                    THEN Append(broadcast, topic) ELSE broadcast
    /\ UNCHANGED <<hubVars, busVars, connVars, subscribe, request, heard>>

------------------------------------------------------------------------------
(* A connection: ServeWs, readMessage, writeMessage.                       *)

\* The opening subscriptions, one at a time; reader and writer start after
\* the last.
Open(c) ==
    /\ reader[c] = "opening"
    /\ Enqueue(Opening[opened[c] + 1], c)
    /\ opened' = [opened EXCEPT ![c] = @ + 1]
    /\ IF opened[c] + 1 = Len(Opening)
       THEN Turn(c, "reading") /\ writer' = [writer EXCEPT ![c] = "on"]
       ELSE UNCHANGED <<reader, writer>>
    /\ UNCHANGED <<hubVars, busVars, egress, broadcast, request, heard, events>>

JoinPage(c, topic) ==
    /\ reader[c] = "reading"
    /\ Another
    /\ Enqueue(topic, c)
    /\ heard' = heard \union {Owner[c]}
    /\ UNCHANGED <<hubVars, busVars, connVars, broadcast, request>>

LeavePage(c) ==
    /\ reader[c] = "reading"
    /\ Another
    /\ heard' = heard \ {Owner[c]}
    /\ UNCHANGED <<hubVars, busVars, connVars, subscribe, broadcast, request>>

\* Mutant: the reader ends without its deferred call.
ReaderEndsSilently(c) ==
    /\ reader[c] = "reading"
    /\ Turn(c, "gone")
    /\ UNCHANGED <<hubVars, busVars, opened, writer, egress, subscribe, broadcast,
                   request, heard, events>>

\* The client closes the socket, misses its pongs, or the writer closed it.
ReaderEnds(c) ==
    /\ reader[c] = "reading"
    /\ Turn(c, "leaving")
    /\ UNCHANGED <<hubVars, busVars, opened, writer, egress, subscribe, broadcast,
                   request, heard, events>>

Write(c) ==
    /\ writer[c] = "on" /\ egress[c] > 0
    /\ egress' = [egress EXCEPT ![c] = @ - 1]
    /\ UNCHANGED <<hubVars, busVars, reader, opened, writer, subscribe, broadcast,
                   request, heard, events>>

\* A ping fails: the client is unreachable or the reader closed the socket.
WriterEnds(c) ==
    /\ writer[c] = "on"
    /\ writer' = [writer EXCEPT ![c] = "gone"]
    /\ UNCHANGED <<hubVars, busVars, reader, opened, egress, subscribe, broadcast,
                   request, heard, events>>

------------------------------------------------------------------------------
(* SubscribeUser, called by the lobby and game handlers.                   *)

\* The sessions are copied under the lock ...
SubscribeUser(u, topic) ==
    /\ request = NoRequest
    /\ Another
    /\ sessions(u) # {}
    /\ request' = [topic |-> topic, conns |-> sessions(u)]
    /\ UNCHANGED <<hubVars, busVars, connVars, subscribe, broadcast, heard>>

\* ... and subscribed after it was released.
SubscribeNext(c) ==
    /\ c \in request.conns
    /\ Enqueue(request.topic, c)
    /\ request' = IF request.conns = {c} THEN NoRequest
                  ELSE [request EXCEPT !.conns = @ \ {c}]
    /\ UNCHANGED <<hubVars, busVars, connVars, broadcast, heard, events>>

------------------------------------------------------------------------------

Init ==
    /\ registered = {} /\ rooms = [topic \in Topics |-> {}]
    /\ subscribedBus = {} /\ sending = {} /\ dropping = NoConn
    /\ starting = [topic \in Topics |-> 0] /\ listening = [topic \in Topics |-> 0]
    /\ subscribe = <<>> /\ broadcast = <<>>
    /\ reader = [c \in Conns |-> "new"] /\ opened = [c \in Conns |-> 0]
    /\ writer = [c \in Conns |-> "off"] /\ egress = [c \in Conns |-> 0]
    /\ request = NoRequest
    /\ heard = {} /\ events = 0 /\ faults = 0

Next ==
    \/ Run
    \/ \E topic \in Topics :
          \/ BusSubscribed(topic) \/ BusSubscribeFails(topic) \/ Publish(topic)
          \/ \E c \in Conns : JoinPage(c, topic)
          \/ \E u \in Users : SubscribeUser(u, topic)
    \/ \E c \in Conns : Open(c) \/ LeavePage(c) \/ ReaderEnds(c) \/ Write(c)
                          \/ WriterEnds(c) \/ SubscribeNext(c)

\* Goroutines that can go on do; a closed socket ends both of its goroutines.
Fairness ==
    /\ WF_vars(Run)
    /\ \A topic \in Topics : WF_vars(BusSubscribed(topic))
    /\ \A c \in Conns :
          /\ WF_vars(Open(c)) /\ WF_vars(Write(c)) /\ WF_vars(SubscribeNext(c))
          /\ WF_vars(writer[c] = "gone" /\ ReaderEnds(c))
          /\ WF_vars(reader[c] \in {"leaving", "gone"} /\ WriterEnds(c))

Spec == Init /\ [][Next]_vars /\ Fairness

------------------------------------------------------------------------------
(* Properties.                                                             *)

Requests == [topic : Topics, conn : Conns]

\* Every variable has its type and no channel exceeds its capacity
\* (handler.go, type Manager; connection.go, type Connection).
TypeOK ==
    /\ registered \subseteq Conns /\ rooms \in [Topics -> SUBSET Conns]
    /\ subscribedBus \subseteq Topics
    /\ starting \in [Topics -> Nat] /\ listening \in [Topics -> Nat]
    /\ subscribe \in Seq(Requests) /\ Len(subscribe) <= SubscribeLimit
    /\ broadcast \in Seq(Topics) /\ Len(broadcast) <= BroadcastLimit
    /\ sending \subseteq Conns /\ dropping \in Conns \union {NoConn}
    /\ reader \in [Conns -> {"new", "opening", "reading", "leaving", "gone"}]
    /\ opened \in [Conns -> 0 .. Len(Opening)]
    /\ writer \in [Conns -> {"off", "on", "gone"}]
    /\ egress \in [Conns -> 0 .. EgressLimit]
    /\ request = NoRequest \/ request \in [topic : Topics, conns : SUBSET Conns]
    /\ heard \subseteq Users
    /\ events \in 0 .. MaxEvents /\ faults \in 0 .. MaxFaults

\* A user without a session is known to be away, whatever pages the user's
\* tabs joined and left and in whatever order their sockets closed: the
\* grace period of the turn clock depends on it (handler.go, register and
\* unregister; connection.go, page:join and page:leave).
AbsentIsHeardAbsent == \A u \in Users : sessions(u) = {} => u \notin heard

\* At most one bus goroutine per topic, ever, across rooms that empty and
\* fill again: a second one would deliver every event twice (handler.go,
\* subscribedBus).
SubscribedOnce == \A topic \in Topics : starting[topic] + listening[topic] <= 1

\* Run waits to receive from itself, or Redis refused a subscription.
Impaired == dropping # NoConn \/ faults > 0

\* A connection that goes on reading comes to hear its opening topics, unless
\* the hub is impaired (connection.go, ServeWs).
JoinersAreHeard ==
    \A c \in Conns, i \in 1 .. Len(Opening) :
        reader[c] = "reading" ~>
            \/ c \in rooms[Opening[i]] /\ listening[Opening[i]] = 1
            \/ reader[c] # "reading" \/ Impaired

\* "Return to break this goroutine triggering cleanup": a connection that
\* can not be written to ends up unregistered, unless the hub waits for itself
\* (connection.go, writeMessage).
HalfClosedIsUnregistered ==
    \A c \in Conns : writer[c] = "gone" ~> c \notin registered \/ dropping # NoConn

\* "Egress channel full, drop the connection" (connection.go, Send).
LaggardIsDropped == \A c \in Conns : dropping = c ~> c \notin registered
=============================================================================
