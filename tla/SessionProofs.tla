----------------------------- MODULE SessionProofs -----------------------------
(***************************************************************************)
(* Proofs about the tabs and their sockets, for any number of tabs,         *)
(* accounts, inputs and faults: whom a tab shows is whom the server and its *)
(* socket take it for, and nobody stays without a connection for no reason. *)
(*                                                                         *)
(* The first rests on ids that are free: no socket of an earlier sign-in    *)
(* has the id of the new one.  For the second a tab has either a timer or   *)
(* one socket that has not been given up, the one it knows, and never both. *)
(***************************************************************************)
EXTENDS Session, FiniteSetTheorems, TLAPS

Wires == [tab : Tabs, id : Nat \ {0}, stage : {"connecting", "open", "closing"},
          user : Nat, cancelled : BOOLEAN]

Asks == [tab : Tabs, n : Nat, user : Nat]

TypeOK ==
    /\ accounts \in Nat /\ expired \subseteq Nat
    /\ cookie \in Nat /\ me \in [Tabs -> Nat] /\ saved \in [Tabs -> Nat]
    /\ asks \in SUBSET Asks /\ IsFiniteSet(asks)
    /\ leaving \in SUBSET Tabs
    /\ page \in [Tabs -> {"away", "opening", "login", "play"}]
    /\ wires \in SUBSET Wires /\ IsFiniteSet(wires)
    /\ socket \in [Tabs -> Nat]
    /\ connected \in [Tabs -> BOOLEAN] /\ timer \in [Tabs -> BOOLEAN]
    /\ overtaken \in [Tabs -> BOOLEAN] /\ elsewhere \in [Tabs -> BOOLEAN]
    /\ doubled \in [Tabs -> BOOLEAN]

\* Sockets of a tab whose effect still stands.
Live(t) == {w \in wires : w.tab = t /\ ~w.cancelled}

SavedIsShown == saved = me

\* The one socket on its way, or the timer, and nothing of anybody signed out.
Wired(t) ==
    IF me[t] = Nobody
    THEN ~timer[t] /\ Live(t) = {}
    ELSE \/ overtaken[t]
         \/ timer[t] /\ Live(t) = {}
         \/ ~timer[t] /\ \E w \in wires : w.id = socket[t] /\ Live(t) = {w}

Recognised(t) ==
    me[t] # Nobody /\ ~elsewhere[t] =>
        /\ cookie = me[t]
        /\ \A w \in WireOf(t) : w.stage = "open" => w.user = me[t] \/ doubled[t]

IInv == TypeOK /\ SavedIsShown /\ \A t \in Tabs : Wired(t) /\ Recognised(t)

------------------------------------------------------------------------------
(* Sockets.                                                                *)

\* What is made of each member of a finite set is a finite set, and no larger.
LEMMA ImageIsFinite ==
    ASSUME NEW S, IsFiniteSet(S), NEW f
    PROVE  IsFiniteSet({f[x] : x \in S}) /\ Cardinality({f[x] : x \in S}) <= Cardinality(S)
  <1> DEFINE T == {f[x] : x \in S}
             g == [x \in S |-> f[x]]
  <1>1. g \in Surjection(S, T)
    BY DEF Surjection
  <1> QED
    BY <1>1, FS_Surjection

\* The new socket's id is free.
LEMMA NewIdIsFree ==
    ASSUME NEW t \in Tabs, NEW others \in SUBSET Wires, IsFiniteSet(others)
    PROVE  /\ newId(t, others) \in Nat \ {0}
           /\ \A w \in others : w.tab = t => w.id # newId(t, others)
  <1> DEFINE f == [w \in others |-> w.id]
             taken == {f[w] : w \in others}
             ids == 1 .. Cardinality(others) + 1
  <1>1. Cardinality(others) \in Nat
    BY FS_CardinalityType
  <1>2. IsFiniteSet(taken) /\ Cardinality(taken) <= Cardinality(others)
    <2> HIDE DEF f
    <2> QED
      BY ImageIsFinite
  <1>3. IsFiniteSet(ids) /\ Cardinality(ids) = Cardinality(others) + 1
    BY <1>1, FS_Interval
  <1>4. ~(ids \subseteq taken)
    <2> SUFFICES ASSUME ids \subseteq taken PROVE FALSE
      OBVIOUS
    <2> HIDE DEF ids, taken
    <2>1. Cardinality(ids) <= Cardinality(taken)
      BY <1>2, FS_Subset
    <2>2. Cardinality(taken) \in Nat
      BY <1>2, FS_CardinalityType
    <2> QED
      BY <1>1, <1>2, <1>3, <2>1, <2>2
  <1>5. \E id \in ids : \A w \in others : w.tab = t => w.id # id
    BY <1>4
  <1>6. newId(t, others) \in ids /\ \A w \in others : w.tab = t => w.id # newId(t, others)
    BY <1>5 DEF newId
  <1> QED
    BY <1>1, <1>6

\* A connection in the making is the tab's own, and its one live socket when
\* there was none.
LEMMA Connected ==
    ASSUME TypeOK, NEW t \in Tabs, NEW others \in SUBSET wires, connect(t, others)
    PROVE  /\ wires' \in SUBSET Wires /\ IsFiniteSet(wires')
           /\ socket' \in [Tabs -> Nat]
           /\ (\A w \in others : w.tab = t => w.cancelled) =>
                  \E w \in wires' : w.id = socket'[t] /\ Live(t)' = {w}
           /\ \A w \in WireOf(t)' : w.stage = "connecting"
           /\ \A u \in Tabs \ {t} : socket'[u] = socket[u]
           /\ \A w \in wires' : w.tab # t => w \in others
           /\ others \subseteq wires'
  <1> DEFINE id == newId(t, others)
             new == [tab |-> t, id |-> id, stage |-> "connecting",
                     user |-> Nobody, cancelled |-> FALSE]
  <1>1. others \in SUBSET Wires /\ IsFiniteSet(others)
    BY FS_Subset DEF TypeOK
  <1>2. id \in Nat \ {0} /\ \A w \in others : w.tab = t => w.id # id
    BY <1>1, NewIdIsFree
  <1> HIDE DEF id
  <1>3. new \in Wires
    BY <1>2 DEF Wires, Nobody
  <1>4. wires' = others \union {new} /\ socket' = [socket EXCEPT ![t] = id]
    BY DEF connect, id
  <1>5. IsFiniteSet(wires')
    BY <1>1, <1>4, FS_AddElement
  <1>6. socket' \in [Tabs -> Nat] /\ socket'[t] = id
        /\ \A u \in Tabs \ {t} : socket'[u] = socket[u]
    BY <1>2, <1>4 DEF TypeOK
  <1>7. (\A w \in others : w.tab = t => w.cancelled) => Live(t)' = {new}
    BY <1>4 DEF Live
  <1>8. \A w \in WireOf(t)' : w = new
    BY <1>2, <1>4, <1>6 DEF WireOf
  <1> QED
    <2>1. wires' \in SUBSET Wires /\ others \subseteq wires'
      BY <1>1, <1>3, <1>4
    <2>2. (\A w \in others : w.tab = t => w.cancelled) =>
            \E w \in wires' : w.id = socket'[t] /\ Live(t)' = {w}
      BY <1>4, <1>6, <1>7
    <2>3. \A w \in wires' : w.tab # t => w \in others
      BY <1>4
    <2>4. \A w \in WireOf(t)' : w.stage = "connecting"
      BY <1>8
    <2> HIDE DEF new
    <2> QED
      BY <1>5, <1>6, <2>1, <2>2, <2>3, <2>4

\* The cleanup leaves the tab without a live socket.
LEMMA WentOffline ==
    ASSUME TypeOK, NEW t \in Tabs, goOffline(t)
    PROVE  /\ wires' \in SUBSET Wires /\ IsFiniteSet(wires')
           /\ socket' \in [Tabs -> Nat] /\ timer' \in [Tabs -> BOOLEAN]
           /\ connected' \in [Tabs -> BOOLEAN]
           /\ ~timer'[t] /\ Live(t)' = {}
           /\ \A u \in Tabs \ {t} : socket'[u] = socket[u] /\ timer'[u] = timer[u]
           /\ \A w \in wires' : w.tab # t => w \in wires
           /\ \A w \in wires : w.tab # t => w \in wires'
  <1> DEFINE f == [w \in wires |->
                     IF w.tab # t THEN w
                     ELSE [w EXCEPT !.cancelled = TRUE,
                                    !.stage = IF w.id = socket[t] THEN "closing" ELSE w.stage]]
  <1>1. wires' = {f[w] : w \in wires}
    BY DEF goOffline, closing
  <1>2. \A w \in wires : f[w] \in Wires /\ f[w].tab = w.tab
                         /\ (w.tab # t => f[w] = w) /\ (w.tab = t => f[w].cancelled)
    <2> SUFFICES ASSUME NEW w \in wires, w.tab = t
                 PROVE  f[w] \in Wires /\ f[w].tab = w.tab /\ f[w].cancelled
      BY DEF TypeOK
    <2>1. w \in Wires
      BY DEF TypeOK
    <2>2. PICK stage \in {"closing", w.stage} :
            f[w] = [w EXCEPT !.cancelled = TRUE, !.stage = stage]
      OBVIOUS
    <2> QED
      BY <2>1, <2>2 DEF Wires
  <1> HIDE DEF f
  <1>3. IsFiniteSet(wires')
    BY <1>1, ImageIsFinite DEF TypeOK
  <1>4. /\ socket' \in [Tabs -> Nat] /\ timer' \in [Tabs -> BOOLEAN]
        /\ connected' \in [Tabs -> BOOLEAN]
        /\ ~timer'[t]
        /\ \A u \in Tabs \ {t} : socket'[u] = socket[u] /\ timer'[u] = timer[u]
    BY DEF goOffline, TypeOK, NoSocket
  <1> QED
    BY <1>1, <1>2, <1>3, <1>4 DEF Live

\* A tab is as well off as before when nothing of it has changed, but perhaps
\* that another tab has changed the cookie.
LEMMA OtherTab ==
    ASSUME NEW u \in Tabs, Wired(u), Recognised(u),
           me'[u] = me[u], timer'[u] = timer[u], overtaken'[u] = overtaken[u],
           socket'[u] = socket[u], doubled'[u] = doubled[u],
           \A w \in wires' : w.tab = u => w \in wires,
           \A w \in wires : w.tab = u => w \in wires',
           \/ cookie' = cookie /\ elsewhere'[u] = elsewhere[u]
           \/ me[u] # Nobody => elsewhere'[u]
    PROVE  Wired(u)' /\ Recognised(u)'
  <1>1. Live(u)' = Live(u)
    BY DEF Live
  <1>2. Wired(u)'
    BY <1>1 DEF Wired, Live
  <1>3. Recognised(u)'
    BY DEF Recognised, WireOf
  <1> QED
    BY <1>2, <1>3

------------------------------------------------------------------------------
(* The steps.                                                              *)

wiredVars == <<cookie, me, saved, wires, socket, connected, timer, overtaken,
               elsewhere, doubled>>

\* Steps that concern neither sign-in nor sockets.
LEMMA Elsewhere ==
    ASSUME IInv, TypeOK', UNCHANGED wiredVars
    PROVE  IInv'
  <1>1. \A t \in Tabs : Wired(t)' /\ Recognised(t)'
    BY DEF IInv, wiredVars, Wired, Recognised, WireOf, Live
  <1> QED
    BY <1>1 DEF IInv, SavedIsShown, wiredVars

LEMMA OpenedKeeps ==
    ASSUME IInv, NEW w \in wires, Opened(w)
    PROVE  IInv'
  <1> DEFINE t == w.tab
             now == [w EXCEPT !.stage = "open", !.user = cookie]
  <1>1. TypeOK /\ w \in Wires /\ t \in Tabs /\ now \in Wires
        /\ now.tab = t /\ now.id = w.id /\ now.cancelled = w.cancelled
        /\ now.user = cookie
    BY DEF IInv, TypeOK, Wires
  <1>2. wires' = (wires \ {w}) \union {now}
    BY DEF Opened
  <1> HIDE DEF now
  <1>3. IsFiniteSet(wires')
    BY <1>1, <1>2, FS_RemoveElement, FS_AddElement DEF TypeOK
  <1>4. TypeOK'
    BY <1>1, <1>2, <1>3 DEF Opened, TypeOK, lateEvent, serverVars, authVars
  <1>5. \A u \in Tabs \ {t} : Wired(u)' /\ Recognised(u)'
    <2> TAKE u \in Tabs \ {t}
    <2>1. timer'[u] = timer[u] /\ overtaken'[u] = overtaken[u]
      BY <1>1 DEF Opened, lateEvent, TypeOK
    <2>2. /\ \A v \in wires' : v.tab = u => v \in wires
          /\ \A v \in wires : v.tab = u => v \in wires'
      BY <1>1, <1>2
    <2> QED
      BY <2>1, <2>2, OtherTab DEF IInv, Opened, authVars
  <1>6. ~timer'[t] /\ overtaken'[t] = (overtaken[t] \/ (w.cancelled /\ me[t] # Nobody))
        /\ UNCHANGED <<me, socket, cookie, elsewhere, doubled>>
    BY <1>1 DEF Opened, lateEvent, TypeOK, authVars
  <1>7. Wired(t)'
    <2>1. CASE w.cancelled
      <3>1. Live(t)' = Live(t)
        BY <1>1, <1>2, <2>1 DEF Live
      <3> QED
        BY <1>1, <1>6, <2>1, <3>1 DEF IInv, Wired
    <2>2. CASE ~w.cancelled
      <3>1. w \in Live(t)
        BY <2>2 DEF Live
      <3>2. me[t] # Nobody
        BY <1>1, <3>1 DEF IInv, Wired
      <3>3. CASE overtaken[t]
        BY <1>6, <3>2, <3>3 DEF Wired
      <3>4. CASE ~overtaken[t]
        <4>1. Live(t) = {w} /\ w.id = socket[t]
          BY <1>1, <3>1, <3>2, <3>4 DEF IInv, Wired
        <4>2. Live(t)' = {now}
          BY <1>1, <1>2, <2>2, <4>1 DEF Live
        <4>3. now \in wires' /\ now.id = socket'[t]
          BY <1>1, <1>2, <1>6, <4>1
        <4> QED
          BY <1>6, <3>2, <4>2, <4>3 DEF Wired
      <3> QED
        BY <3>3, <3>4
    <2> QED
      BY <2>1, <2>2
  <1>8. Recognised(t)'
    BY <1>1, <1>2, <1>6 DEF IInv, Recognised, WireOf
  <1>9. saved' = me'
    BY DEF IInv, SavedIsShown, Opened, authVars
  <1> QED
    BY <1>4, <1>5, <1>7, <1>8, <1>9 DEF IInv, SavedIsShown

\* Whichever way a socket ends.
LEMMA ClosedKeeps ==
    ASSUME IInv, NEW w \in wires, onClose(w), w.stage \in {"connecting", "open", "closing"},
           UNCHANGED <<serverVars, authVars, asks, leaving, page, elsewhere, doubled>>
    PROVE  IInv'
  <1> DEFINE t == w.tab
  <1>1. TypeOK /\ w \in Wires /\ t \in Tabs
    BY DEF IInv, TypeOK, Wires
  <1>2. wires' = wires \ {w}
    BY DEF onClose
  <1>3. IsFiniteSet(wires')
    BY <1>1, <1>2, FS_RemoveElement DEF TypeOK
  <1>4. w.cancelled \in BOOLEAN
    BY <1>1 DEF Wires
  <1>5. TypeOK'
    BY <1>1, <1>2, <1>3, <1>4 DEF onClose, TypeOK, lateEvent, serverVars, authVars, NoSocket
  <1>6. \A u \in Tabs \ {t} : Wired(u)' /\ Recognised(u)'
    <2> TAKE u \in Tabs \ {t}
    <2>1. timer'[u] = timer[u] /\ overtaken'[u] = overtaken[u] /\ socket'[u] = socket[u]
      BY <1>1 DEF onClose, lateEvent, TypeOK
    <2>2. /\ \A v \in wires' : v.tab = u => v \in wires
          /\ \A v \in wires : v.tab = u => v \in wires'
      BY <1>1, <1>2
    <2> QED
      BY <2>1, <2>2, OtherTab DEF IInv, authVars
  <1>7. /\ timer'[t] = (timer[t] \/ ~w.cancelled) /\ socket'[t] = NoSocket
        /\ overtaken'[t] = (overtaken[t] \/ (w.cancelled /\ me[t] # Nobody))
        /\ UNCHANGED <<me, cookie, elsewhere, doubled>>
    BY <1>1 DEF onClose, lateEvent, TypeOK, authVars
  <1>8. Wired(t)'
    <2>1. CASE w.cancelled
      <3>1. Live(t)' = Live(t)
        BY <1>2, <2>1 DEF Live
      <3> QED
        BY <1>1, <1>7, <2>1, <3>1 DEF IInv, Wired
    <2>2. CASE ~w.cancelled
      <3>1. w \in Live(t)
        BY <2>2 DEF Live
      <3>2. me[t] # Nobody
        BY <1>1, <3>1 DEF IInv, Wired
      <3>3. CASE overtaken[t]
        BY <1>7, <3>2, <3>3 DEF Wired
      <3>4. CASE ~overtaken[t]
        <4>1. Live(t) = {w}
          BY <1>1, <3>1, <3>2, <3>4 DEF IInv, Wired
        <4>2. Live(t)' = {}
          BY <1>2, <4>1 DEF Live
        <4> QED
          BY <1>7, <2>2, <3>2, <4>2 DEF Wired
      <3> QED
        BY <3>3, <3>4
    <2> QED
      BY <2>1, <2>2
  <1>9. Recognised(t)'
    <2>1. \A v \in WireOf(t)' : FALSE
      BY <1>1, <1>2, <1>7 DEF WireOf, TypeOK, Wires, NoSocket
    <2> QED
      BY <1>1, <1>7, <2>1 DEF IInv, Recognised
  <1>10. saved' = me'
    BY DEF IInv, SavedIsShown, authVars
  <1> QED
    BY <1>5, <1>6, <1>8, <1>9, <1>10 DEF IInv, SavedIsShown

LEMMA ReconnectKeeps ==
    ASSUME IInv, NEW t \in Tabs, Reconnect(t)
    PROVE  IInv'
  <1>1. TypeOK /\ connect(t, wires) /\ timer[t]
    BY DEF IInv, Reconnect
  <1>2. /\ UNCHANGED <<cookie, me, saved, overtaken, elsewhere>>
        /\ ~timer'[t] /\ ~doubled'[t]
        /\ \A u \in Tabs \ {t} : timer'[u] = timer[u] /\ doubled'[u] = doubled[u]
    BY <1>1 DEF Reconnect, TypeOK, authVars
  <1>3. /\ wires' \in SUBSET Wires /\ IsFiniteSet(wires')
        /\ socket' \in [Tabs -> Nat]
        /\ (\A w \in wires : w.tab = t => w.cancelled) =>
               \E w \in wires' : w.id = socket'[t] /\ Live(t)' = {w}
        /\ \A w \in WireOf(t)' : w.stage = "connecting"
        /\ \A u \in Tabs \ {t} : socket'[u] = socket[u]
        /\ \A w \in wires' : w.tab # t => w \in wires
        /\ wires \subseteq wires'
    BY <1>1, Connected
  <1>4. TypeOK'
    BY <1>1, <1>3 DEF Reconnect, TypeOK, serverVars, authVars
  <1>5. \A u \in Tabs \ {t} : Wired(u)' /\ Recognised(u)'
    BY <1>2, <1>3, OtherTab DEF IInv
  <1>6. Wired(t)'
    <2>1. me[t] # Nobody
      BY <1>1 DEF IInv, Wired
    <2>2. CASE overtaken[t]
      BY <1>2, <2>1, <2>2 DEF Wired
    <2>3. CASE ~overtaken[t]
      <3>1. Live(t) = {}
        BY <1>1, <2>1, <2>3 DEF IInv, Wired
      <3>2. \A w \in wires : w.tab = t => w.cancelled
        BY <3>1 DEF Live
      <3> QED
        BY <1>2, <1>3, <2>1, <3>2 DEF Wired
    <2> QED
      BY <2>2, <2>3
  <1>7. Recognised(t)'
    BY <1>2, <1>3 DEF IInv, Recognised
  <1> QED
    BY <1>2, <1>4, <1>5, <1>6, <1>7 DEF IInv, SavedIsShown

\* A request joins those under way.
LEMMA Asked ==
    ASSUME TypeOK, NEW t \in Tabs, NEW pending \in SUBSET asks, ask(t, pending)
    PROVE  asks' \in SUBSET Asks /\ IsFiniteSet(asks')
  <1>1. IsFiniteSet(pending) /\ IsFiniteSet(AsksOf(t))
    BY FS_Subset DEF TypeOK, AsksOf
  <1>2. Cardinality(AsksOf(t)) \in Nat
    BY <1>1, FS_CardinalityType
  <1> DEFINE new == [tab |-> t, n |-> Cardinality(AsksOf(t)), user |-> Nobody]
  <1>3. new \in Asks
    BY <1>2 DEF Asks, Nobody
  <1>4. asks' = pending \union {new}
    BY DEF ask
  <1> HIDE DEF new
  <1> QED
    BY <1>1, <1>3, <1>4, FS_AddElement DEF TypeOK

LEMMA AnswerKeeps ==
    ASSUME IInv, NEW a \in asks, GuestAnswered(a)
    PROVE  IInv'
  <1> DEFINE t == a.tab
  <1>1. TypeOK /\ a \in Asks /\ t \in Tabs /\ a.user \in Nat /\ a.user # Nobody
    BY DEF IInv, TypeOK, Asks, GuestAnswered
  <1>2. asks' \in SUBSET Asks /\ IsFiniteSet(asks')
    BY <1>1, FS_RemoveElement DEF GuestAnswered, TypeOK
  <1>3. /\ cookie' = a.user /\ me'[t] = a.user /\ saved' = me'
        /\ me' \in [Tabs -> Nat] /\ elsewhere' \in [Tabs -> BOOLEAN] /\ ~elsewhere'[t]
        /\ \A u \in Tabs \ {t} : me'[u] = me[u] /\ (me[u] # Nobody => elsewhere'[u])
    BY <1>1 DEF GuestAnswered, TypeOK, tellOthers, IInv, SavedIsShown
  <1>4. page' \in [Tabs -> {"away", "opening", "login", "play"}]
    BY <1>1 DEF GuestAnswered, TypeOK, show
  <1>5. CASE me[t] = Nobody
    <2>1. connect(t, wires) /\ UNCHANGED <<connected, timer>>
      BY <1>5 DEF GuestAnswered, goOnline
    <2>2. /\ wires' \in SUBSET Wires /\ IsFiniteSet(wires')
          /\ socket' \in [Tabs -> Nat]
          /\ (\A w \in wires : w.tab = t => w.cancelled) =>
                 \E w \in wires' : w.id = socket'[t] /\ Live(t)' = {w}
          /\ \A w \in WireOf(t)' : w.stage = "connecting"
          /\ \A u \in Tabs \ {t} : socket'[u] = socket[u]
          /\ \A w \in wires' : w.tab # t => w \in wires
          /\ wires \subseteq wires'
      BY <1>1, <2>1, Connected
    <2>3. /\ overtaken' \in [Tabs -> BOOLEAN] /\ doubled' \in [Tabs -> BOOLEAN]
          /\ \A u \in Tabs \ {t} : overtaken'[u] = overtaken[u] /\ doubled'[u] = doubled[u]
      BY <1>1, <1>5 DEF GuestAnswered, goOnline, TypeOK
    <2>4. TypeOK'
      BY <1>1, <1>2, <1>3, <1>4, <2>1, <2>2, <2>3 DEF GuestAnswered, TypeOK, serverVars
    <2>5. \A u \in Tabs \ {t} : Wired(u)' /\ Recognised(u)'
      BY <1>3, <2>1, <2>2, <2>3, OtherTab DEF IInv
    <2>6. Wired(t)'
      <3>1. ~timer[t] /\ Live(t) = {}
        BY <1>1, <1>5 DEF IInv, Wired
      <3>2. \A w \in wires : w.tab = t => w.cancelled
        BY <3>1 DEF Live
      <3> QED
        BY <1>1, <1>3, <2>1, <2>2, <3>1, <3>2 DEF Wired
    <2>7. Recognised(t)'
      BY <1>3, <2>2 DEF Recognised
    <2> QED
      BY <1>3, <2>4, <2>5, <2>6, <2>7 DEF IInv, SavedIsShown
  <1>6. CASE me[t] # Nobody
    <2>1. UNCHANGED <<wires, socket, connected, timer, overtaken>>
          /\ doubled' = [doubled EXCEPT ![t] = TRUE]
      BY <1>6 DEF GuestAnswered, wireVars
    <2>2. TypeOK'
      BY <1>1, <1>2, <1>3, <1>4, <2>1 DEF GuestAnswered, TypeOK, serverVars
    <2>3. \A u \in Tabs \ {t} : Wired(u)' /\ Recognised(u)'
      <3>1. \A u \in Tabs \ {t} : doubled'[u] = doubled[u]
        BY <1>1, <2>1 DEF TypeOK
      <3> QED
        BY <1>3, <2>1, <3>1, OtherTab DEF IInv
    <2>4. Wired(t)'
      BY <1>1, <1>3, <1>6, <2>1 DEF IInv, Wired, Live
    <2>5. Recognised(t)'
      BY <1>1, <1>3, <2>1 DEF Recognised, TypeOK
    <2> QED
      BY <1>3, <2>2, <2>3, <2>4, <2>5 DEF IInv, SavedIsShown
  <1> QED
    BY <1>5, <1>6

LEMMA LogoutKeeps ==
    ASSUME IInv, NEW t \in Tabs, LogoutAnswered(t)
    PROVE  IInv'
  <1>1. TypeOK /\ goOffline(t) /\ ask(t, asks)
    BY DEF IInv, LogoutAnswered
  <1>2. asks' \in SUBSET Asks /\ IsFiniteSet(asks')
    BY <1>1, Asked
  <1>3. /\ wires' \in SUBSET Wires /\ IsFiniteSet(wires')
        /\ socket' \in [Tabs -> Nat] /\ timer' \in [Tabs -> BOOLEAN]
        /\ connected' \in [Tabs -> BOOLEAN]
        /\ ~timer'[t] /\ Live(t)' = {}
        /\ \A u \in Tabs \ {t} : socket'[u] = socket[u] /\ timer'[u] = timer[u]
        /\ \A w \in wires' : w.tab # t => w \in wires
        /\ \A w \in wires : w.tab # t => w \in wires'
    BY <1>1, WentOffline
  <1>4. /\ me'[t] = Nobody /\ saved' = me' /\ me' \in [Tabs -> Nat] /\ cookie' = Nobody
        /\ elsewhere' \in [Tabs -> BOOLEAN]
        /\ \A u \in Tabs \ {t} : me'[u] = me[u] /\ (me[u] # Nobody => elsewhere'[u])
    BY <1>1 DEF LogoutAnswered, forgotten, TypeOK, tellOthers, IInv, SavedIsShown, Nobody
  <1>5. /\ overtaken' \in [Tabs -> BOOLEAN] /\ doubled' \in [Tabs -> BOOLEAN]
        /\ \A u \in Tabs \ {t} : overtaken'[u] = overtaken[u] /\ doubled'[u] = doubled[u]
    BY <1>1 DEF LogoutAnswered, TypeOK
  <1>6. TypeOK'
    <2>1. page' \in [Tabs -> {"away", "opening", "login", "play"}]
      BY <1>1 DEF LogoutAnswered, TypeOK, show
    <2>2. leaving' \in SUBSET Tabs
      BY <1>1 DEF LogoutAnswered, TypeOK
    <2> QED
      <3>1. accounts' = accounts /\ expired' = expired /\ cookie' \in Nat
        BY <1>4 DEF LogoutAnswered, serverVars, Nobody
      <3> QED
        BY <1>1, <1>2, <1>3, <1>4, <1>5, <2>1, <2>2, <3>1 DEF TypeOK
  <1>7. \A u \in Tabs \ {t} : Wired(u)' /\ Recognised(u)'
    BY <1>3, <1>4, <1>5, OtherTab DEF IInv
  <1>8. Wired(t)' /\ Recognised(t)'
    BY <1>3, <1>4 DEF Wired, Recognised
  <1> QED
    BY <1>4, <1>6, <1>7, <1>8 DEF IInv, SavedIsShown

LEMMA ReloadKeeps ==
    ASSUME IInv, NEW t \in Tabs, Reload(t)
    PROVE  IInv'
  <1> DEFINE others == {w \in wires : w.tab # t}
  <1>1. TypeOK /\ others \in SUBSET wires
    BY DEF IInv
  <1>2. /\ me' = me /\ UNCHANGED <<accounts, expired, cookie, saved, elsewhere>>
        /\ ~timer'[t] /\ ~overtaken'[t] /\ timer' \in [Tabs -> BOOLEAN]
        /\ overtaken' \in [Tabs -> BOOLEAN] /\ doubled' \in [Tabs -> BOOLEAN]
        /\ connected' \in [Tabs -> BOOLEAN] /\ leaving' \in SUBSET Tabs
        /\ \A u \in Tabs \ {t} : /\ timer'[u] = timer[u] /\ overtaken'[u] = overtaken[u]
                                 /\ doubled'[u] = doubled[u]
    BY <1>1 DEF Reload, TypeOK, IInv, SavedIsShown, serverVars
  <1>3. page' \in [Tabs -> {"away", "opening", "login", "play"}]
    BY <1>1 DEF Reload, TypeOK, show
  <1>4. asks' \in SUBSET Asks /\ IsFiniteSet(asks')
    <2>1. asks \ AsksOf(t) \in SUBSET asks
      OBVIOUS
    <2>2. asks' = asks \ AsksOf(t) \/ ask(t, asks \ AsksOf(t))
      BY DEF Reload
    <2>3. IsFiniteSet(asks \ AsksOf(t))
      BY <1>1, <2>1, FS_Subset DEF TypeOK
    <2> QED
      BY <1>1, <2>1, <2>2, <2>3, Asked DEF TypeOK
  <1>5. IsFiniteSet(others) /\ \A w \in others : w.tab # t
    BY <1>1, FS_Subset DEF TypeOK
  <1>6. CASE me[t] # Nobody
    <2>1. connect(t, others)
      BY <1>6 DEF Reload, IInv, SavedIsShown
    <2>2. /\ wires' \in SUBSET Wires /\ IsFiniteSet(wires')
          /\ socket' \in [Tabs -> Nat]
          /\ (\A w \in others : w.tab = t => w.cancelled) =>
                 \E w \in wires' : w.id = socket'[t] /\ Live(t)' = {w}
          /\ \A w \in WireOf(t)' : w.stage = "connecting"
          /\ \A u \in Tabs \ {t} : socket'[u] = socket[u]
          /\ \A w \in wires' : w.tab # t => w \in others
          /\ others \subseteq wires'
      <3> HIDE DEF others
      <3> QED
        BY <1>1, <2>1, Connected
    <2>3. TypeOK'
      BY <1>1, <1>2, <1>3, <1>4, <2>2 DEF TypeOK
    <2>4. \A u \in Tabs \ {t} : Wired(u)' /\ Recognised(u)'
      BY <1>2, <2>2, OtherTab DEF IInv
    <2>5. Wired(t)'
      BY <1>2, <1>5, <1>6, <2>2 DEF Wired
    <2>6. Recognised(t)'
      BY <1>2, <2>2 DEF IInv, Recognised
    <2> QED
      BY <1>2, <2>3, <2>4, <2>5, <2>6 DEF IInv, SavedIsShown
  <1>7. CASE me[t] = Nobody
    <2>1. wires' = others /\ socket' = [socket EXCEPT ![t] = NoSocket]
      BY <1>7 DEF Reload, IInv, SavedIsShown
    <2>2. TypeOK'
      BY <1>1, <1>2, <1>3, <1>4, <1>5, <2>1 DEF TypeOK, NoSocket
    <2>3. \A u \in Tabs \ {t} : Wired(u)' /\ Recognised(u)'
      <3>1. \A u \in Tabs \ {t} : socket'[u] = socket[u]
        BY <1>1, <2>1 DEF TypeOK
      <3> QED
        BY <1>2, <2>1, <3>1, OtherTab DEF IInv
    <2>4. Live(t)' = {}
      BY <2>1 DEF Live
    <2>5. Wired(t)' /\ Recognised(t)'
      BY <1>2, <1>7, <2>4 DEF Wired, Recognised
    <2> QED
      BY <1>2, <2>2, <2>3, <2>5 DEF IInv, SavedIsShown
  <1> QED
    BY <1>6, <1>7

\* What concerns only pages, requests and tokens.
LEMMA OthersKeep ==
    ASSUME IInv,
           \/ \E a \in asks : GuestServed(a) \/ GuestFails(a)
           \/ \E t \in Tabs : OpenPlay(t) \/ SubmitName(t) \/ Leave(t) \/ Logout(t)
           \/ \E user \in Accounts : Expire(user)
    PROVE  IInv'
  <1>1. TypeOK
    BY DEF IInv
  <1>2. CASE \E a \in asks : GuestServed(a)
    <2> PICK a \in asks : GuestServed(a)
      BY <1>2
    <2>1. a \in Asks /\ accounts + 1 \in Nat
      BY <1>1 DEF TypeOK
    <2>2. [a EXCEPT !.user = accounts + 1] \in Asks
      BY <2>1 DEF Asks
    <2>3. asks' \in SUBSET Asks /\ IsFiniteSet(asks')
      BY <1>1, <2>2, FS_RemoveElement, FS_AddElement DEF TypeOK, GuestServed
    <2>4. UNCHANGED wiredVars
      BY DEF GuestServed, wiredVars, authVars, wireVars, pastVars
    <2>5. TypeOK'
      BY <1>1, <2>1, <2>3, <2>4 DEF GuestServed, TypeOK, wiredVars
    <2> QED
      BY <2>4, <2>5, Elsewhere
  <1>3. CASE \E a \in asks : GuestFails(a)
    <2> PICK a \in asks : GuestFails(a)
      BY <1>3
    <2>1. asks' \in SUBSET Asks /\ IsFiniteSet(asks')
      BY <1>1, FS_RemoveElement DEF TypeOK, GuestFails
    <2>2. UNCHANGED wiredVars
      BY DEF GuestFails, wiredVars, authVars, wireVars, pastVars
    <2>3. TypeOK'
      BY <1>1, <2>1, <2>2 DEF GuestFails, TypeOK, wiredVars, show, serverVars
    <2> QED
      BY <2>2, <2>3, Elsewhere
  <1>4. ASSUME NEW t \in Tabs, OpenPlay(t) \/ SubmitName(t) \/ Leave(t) \/ Logout(t)
        PROVE  IInv'
    <2>1. asks' = asks \/ ask(t, asks)
      BY <1>4 DEF OpenPlay, SubmitName, Leave, Logout
    <2>2. asks' \in SUBSET Asks /\ IsFiniteSet(asks')
      BY <1>1, <2>1, Asked DEF TypeOK
    <2>3. UNCHANGED wiredVars /\ UNCHANGED serverVars
      BY <1>4 DEF OpenPlay, SubmitName, Leave, Logout, wiredVars, authVars, wireVars, pastVars
    <2>4. page' \in [Tabs -> {"away", "opening", "login", "play"}] /\ leaving' \in SUBSET Tabs
      BY <1>1, <1>4 DEF OpenPlay, SubmitName, Leave, Logout, TypeOK, show
    <2>5. TypeOK'
      BY <1>1, <2>2, <2>3, <2>4 DEF TypeOK, wiredVars, serverVars
    <2> QED
      BY <2>3, <2>5, Elsewhere
  <1>5. ASSUME NEW user \in Accounts, Expire(user)
        PROVE  IInv'
    <2>1. UNCHANGED wiredVars
      BY <1>5 DEF Expire, wiredVars, authVars, wireVars, pastVars
    <2>2. TypeOK'
      BY <1>1, <1>5, <2>1 DEF Expire, TypeOK, wiredVars
    <2> QED
      BY <2>1, <2>2, Elsewhere
  <1> QED
    BY <1>2, <1>3, <1>4, <1>5

LEMMA Initially == Init => IInv
  <1> SUFFICES ASSUME Init PROVE IInv
    OBVIOUS
  <1>1. TypeOK
    BY FS_EmptySet DEF Init, TypeOK, Nobody, NoSocket
  <1>2. \A t \in Tabs : Wired(t) /\ Recognised(t)
    BY DEF Init, Wired, Recognised, Live
  <1> QED
    BY <1>1, <1>2 DEF Init, IInv, SavedIsShown

LEMMA Always == IInv /\ [Next]_sessionVars => IInv'
  <1> SUFFICES ASSUME IInv, [Next]_sessionVars PROVE IInv'
    OBVIOUS
  <1>1. CASE UNCHANGED sessionVars
    <2>1. UNCHANGED wiredVars
      BY <1>1 DEF sessionVars, wiredVars, authVars, wireVars, pastVars
    <2>2. TypeOK'
      BY <1>1 DEF sessionVars, serverVars, authVars, wireVars, pastVars, IInv, TypeOK
    <2> QED
      BY <2>1, <2>2, Elsewhere
  <1>2. CASE \E w \in wires : Opened(w)
    BY <1>2, OpenedKeeps
  <1>3. ASSUME NEW w \in wires, Refused(w) \/ Dropped(w) \/ Closed(w)
        PROVE  IInv'
    <2>1. /\ onClose(w) /\ w.stage \in {"connecting", "open", "closing"}
          /\ UNCHANGED <<serverVars, authVars, asks, leaving, page, elsewhere, doubled>>
      BY <1>3 DEF Refused, Dropped, Closed
    <2> QED
      BY <2>1, ClosedKeeps
  <1>4. CASE \E a \in asks : GuestAnswered(a)
    BY <1>4, AnswerKeeps
  <1>5. CASE \E t \in Tabs : Reconnect(t)
    BY <1>5, ReconnectKeeps
  <1>6. CASE \E t \in Tabs : LogoutAnswered(t)
    BY <1>6, LogoutKeeps
  <1>7. CASE \E t \in Tabs : Reload(t)
    BY <1>7, ReloadKeeps
  <1>8. CASE \/ \E a \in asks : GuestServed(a) \/ GuestFails(a)
             \/ \E t \in Tabs : OpenPlay(t) \/ SubmitName(t) \/ Leave(t) \/ Logout(t)
             \/ \E user \in Accounts : Expire(user)
    BY <1>8, OthersKeep
  <1> QED
    BY <1>1, <1>2, <1>3, <1>4, <1>5, <1>6, <1>7, <1>8 DEF Next, Progress

------------------------------------------------------------------------------

\* The variables keep their types, ids of sockets being free for reuse.
THEOREM TypeCorrect == Spec => []TypeOK
  <1>1. IInv => TypeOK
    BY DEF IInv
  <1> QED
    BY Initially, Always, <1>1, PTL DEF Spec

\* The tab, the cookie and the tab's socket agree on who is signed in, until
\* another tab or a second sign-in of the same tab comes between.
THEOREM IdentityAgrees == Spec => []OneIdentity
  <1>1. IInv => OneIdentity
    BY DEF IInv, Recognised, OneIdentity
  <1> QED
    BY Initially, Always, <1>1, PTL DEF Spec

\* Only a late event of a socket given up can leave a signed-in tab with neither
\* a socket nor a timer.
THEOREM NeverMute == Spec => []MuteHasCause
  <1>1. IInv => MuteHasCause
    <2> SUFFICES ASSUME IInv, NEW t \in Tabs, me[t] # Nobody, ~overtaken[t], ~timer[t]
                 PROVE  WireOf(t) # {}
      BY DEF MuteHasCause
    <2>1. PICK w \in wires : w.id = socket[t] /\ Live(t) = {w}
      BY DEF IInv, Wired
    <2>2. w.tab = t
      BY <2>1 DEF Live
    <2> QED
      BY <2>1, <2>2 DEF WireOf
  <1> QED
    BY Initially, Always, <1>1, PTL DEF Spec

=============================================================================
