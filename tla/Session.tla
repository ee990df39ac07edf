------------------------------- MODULE Session -------------------------------
(***************************************************************************)
(* Who a browser's tabs take themselves for, and the socket each of them    *)
(* holds: web/src/AuthContext.tsx, api/fetchUser.ts, WebSocketContext.tsx   *)
(* and routes/_authenticated.tsx against internal/auth, internal/user and   *)
(* internal/httpsession.                                                   *)
(*                                                                         *)
(* The session cookie is shared by the tabs.  What a tab shows comes from   *)
(* sessionStorage, which is its own.  Signing in always makes a new guest,  *)
(* so an account stands for its token as well.  Left out are the pages'     *)
(* subscribers, which a reconnect keeps and the cleanup at a sign-out clears. *)
(***************************************************************************)
EXTENDS Naturals, FiniteSets

CONSTANTS
    Tabs,
    MaxAccounts,    \* bound: guests created
    MaxInputs,      \* bound: what the user does
    MaxFaults       \* bound: connections lost and requests refused

Nobody == 0
Accounts == 1 .. MaxAccounts
NoSocket == 0

VARIABLES
    accounts,       \* how many guests the server has created
    expired,        \* accounts whose token is over (the cookie outlives it)
    cookie,         \* whose token the session cookie carries
    me,             \* per tab: the cached query ["me"]
    saved,          \* per tab: sessionStorage
    asks,           \* POST /guest under way
    leaving,        \* tabs with POST /logout under way
    page,           \* per tab: what it shows
    wires,          \* WebSockets, those being closed included
    socket,         \* per tab: socket.current, the id of a wire
    connected, timer,   \* per tab: the flag pages see; a reconnect is scheduled
    inputs, faults,
    overtaken,      \* history, per tab: an event of an earlier sign-in's socket came late
    elsewhere,      \* history, per tab: another tab has signed in or out since
    doubled         \* history, per tab: signed in again without a new socket

serverVars == <<accounts, expired>>
authVars   == <<cookie, me, saved>>
wireVars   == <<wires, socket, connected, timer>>
boundVars  == <<inputs, faults>>
pastVars   == <<overtaken, elsewhere, doubled>>
sessionVars == <<serverVars, authVars, asks, leaving, page, wireVars, boundVars,
                 pastVars>>

\* The user does something.
input == inputs < MaxInputs /\ inputs' = inputs + 1 /\ UNCHANGED faults

fault == faults < MaxFaults /\ faults' = faults + 1 /\ UNCHANGED inputs

Valid(user) == user # Nobody /\ user \notin expired

------------------------------------------------------------------------------
(* The socket of a tab.                                                    *)

WireOf(t) == {w \in wires : w.tab = t /\ w.id = socket[t]}

\* Ids are free for reuse once the socket has been closed.
newId(t, others) == CHOOSE id \in 1 .. Cardinality(others) + 1 :
                        \A w \in others : w.tab = t => w.id # id

\* attemptConnect, up to the answer of the handshake.
connect(t, others) ==
    /\ socket' = [socket EXCEPT ![t] = newId(t, others)]
    /\ wires' = others \union {[tab |-> t, id |-> newId(t, others), stage |-> "connecting",
                                user |-> Nobody, cancelled |-> FALSE]}

\* The cleanup of the effect closes the socket the tab knows of.
closing(t) ==
    {IF w.tab # t THEN w
     ELSE [w EXCEPT !.cancelled = TRUE,
                    !.stage = IF w.id = socket[t] THEN "closing" ELSE w.stage] : w \in wires}

\* The effect on isAuthenticated turning true.
goOnline(t) ==
    /\ connect(t, wires)
    /\ doubled' = [doubled EXCEPT ![t] = FALSE]
    /\ overtaken' = [overtaken EXCEPT ![t] = FALSE]
    /\ UNCHANGED <<connected, timer>>

\* Mutant: the cleanup leaves the timer of the reconnect alone.
goOfflineKeepTimer(t) ==
    /\ wires' = closing(t)
    /\ socket' = [socket EXCEPT ![t] = NoSocket]
    /\ connected' = [connected EXCEPT ![t] = FALSE]
    /\ UNCHANGED timer

\* Its cleanup.
goOffline(t) ==
    /\ wires' = closing(t)
    /\ socket' = [socket EXCEPT ![t] = NoSocket]
    /\ connected' = [connected EXCEPT ![t] = FALSE]
    /\ timer' = [timer EXCEPT ![t] = FALSE]

lateEvent(w) ==
    overtaken' = [overtaken EXCEPT ![w.tab] = @ \/ (w.cancelled /\ me[w.tab] # Nobody)]

\* The server looks at the cookie when the handshake reaches it.
Opened(w) ==
    /\ w.stage = "connecting" /\ Valid(cookie)
    /\ wires' = (wires \ {w}) \union {[w EXCEPT !.stage = "open", !.user = cookie]}
    /\ connected' = [connected EXCEPT ![w.tab] = TRUE]
    /\ timer' = [timer EXCEPT ![w.tab] = FALSE]
    /\ lateEvent(w)
    /\ UNCHANGED <<serverVars, authVars, asks, leaving, page, socket, boundVars,
                   elsewhere, doubled>>

\* Mutant: the socket is not opened again.
onCloseGiveUp(w) ==
    /\ wires' = wires \ {w}
    /\ connected' = [connected EXCEPT ![w.tab] = FALSE]
    /\ socket' = [socket EXCEPT ![w.tab] = NoSocket]
    /\ UNCHANGED <<timer, overtaken>>

\* onclose: whichever socket closes, the tab forgets the one it has.
onClose(w) ==
    /\ wires' = wires \ {w}
    /\ connected' = [connected EXCEPT ![w.tab] = FALSE]
    /\ socket' = [socket EXCEPT ![w.tab] = NoSocket]
    /\ timer' = [timer EXCEPT ![w.tab] = @ \/ ~w.cancelled]
    /\ lateEvent(w)

Refused(w) ==
    /\ w.stage = "connecting"
    /\ IF Valid(cookie) THEN fault ELSE UNCHANGED boundVars
    /\ onClose(w)
    /\ UNCHANGED <<serverVars, authVars, asks, leaving, page, elsewhere, doubled>>

Dropped(w) ==
    /\ w.stage = "open" /\ fault
    /\ onClose(w)
    /\ UNCHANGED <<serverVars, authVars, asks, leaving, page, elsewhere, doubled>>

\* The close of the cleanup, whenever the browser is done with it.
Closed(w) ==
    /\ w.stage = "closing"
    /\ onClose(w)
    /\ UNCHANGED <<serverVars, authVars, asks, leaving, page, boundVars, elsewhere,
                   doubled>>

Reconnect(t) ==
    /\ timer[t]
    /\ timer' = [timer EXCEPT ![t] = FALSE]
    /\ connect(t, wires)
    /\ doubled' = [doubled EXCEPT ![t] = FALSE]
    /\ UNCHANGED <<serverVars, authVars, asks, leaving, page, connected, boundVars,
                   overtaken, elsewhere>>

------------------------------------------------------------------------------
(* Signing in and out.                                                     *)

AsksOf(t) == {a \in asks : a.tab = t}

\* POST /guest (bound: as long as there are accounts left).
ask(t, pending) ==
    /\ accounts + Cardinality({a \in asks : a.user = Nobody}) < MaxAccounts
    /\ asks' = pending \union {[tab |-> t, n |-> Cardinality(AsksOf(t)), user |-> Nobody]}

show(t, what) == page' = [page EXCEPT ![t] = what]

\* The other tabs share the cookie this one has changed.
tellOthers(t) ==
    elsewhere' = [u \in Tabs |-> u # t /\ (elsewhere[u] \/ me[u] # Nobody)]

\* The pages under /_authenticated: ensureGuestSession comes before the page,
\* and a second click asks a second time.
OpenPlay(t) ==
    /\ page[t] \in {"away", "opening"} /\ input
    /\ \/ /\ me[t] # Nobody
          /\ show(t, "play") /\ UNCHANGED asks
       \/ /\ me[t] = Nobody
          /\ show(t, "opening") /\ ask(t, asks)
    /\ UNCHANGED <<serverVars, authVars, leaving, wireVars, pastVars>>

\* The form of /login, where a failed guest request leads.
SubmitName(t) ==
    /\ page[t] = "login" /\ AsksOf(t) = {} /\ input
    /\ ask(t, asks)
    /\ UNCHANGED <<serverVars, authVars, leaving, page, wireVars, pastVars>>

\* To a page for everybody.
Leave(t) ==
    /\ page[t] = "play" /\ input
    /\ show(t, "away")
    /\ UNCHANGED <<serverVars, authVars, asks, leaving, wireVars, pastVars>>

\* CreateGuestUser.
GuestServed(a) ==
    /\ a.user = Nobody
    /\ accounts' = accounts + 1
    /\ asks' = (asks \ {a}) \union {[a EXCEPT !.user = accounts + 1]}
    /\ UNCHANGED <<expired, authVars, leaving, page, wireVars, boundVars, pastVars>>

\* The answer sets the cookie, sessionStorage and the query; the effect on
\* isAuthenticated sees only whether there is somebody.
GuestAnswered(a) ==
    /\ a.user # Nobody
    /\ asks' = asks \ {a}
    /\ cookie' = a.user
    /\ me' = [me EXCEPT ![a.tab] = a.user]
    /\ saved' = [saved EXCEPT ![a.tab] = a.user]
    /\ tellOthers(a.tab)
    /\ \/ me[a.tab] = Nobody /\ goOnline(a.tab)
       \/ /\ me[a.tab] # Nobody
          /\ doubled' = [doubled EXCEPT ![a.tab] = TRUE]
          /\ UNCHANGED <<wireVars, overtaken>>
    /\ IF page[a.tab] \in {"opening", "login"} /\ AsksOf(a.tab) = {a}
       THEN show(a.tab, "play") ELSE UNCHANGED page
    /\ UNCHANGED <<serverVars, leaving, boundVars>>

\* Too many requests from one address, or no answer.
GuestFails(a) ==
    /\ a.user = Nobody /\ fault
    /\ asks' = asks \ {a}
    /\ IF page[a.tab] \in {"opening", "play"} /\ AsksOf(a.tab) = {a}
       THEN show(a.tab, "login") ELSE UNCHANGED page
    /\ UNCHANGED <<serverVars, authVars, leaving, wireVars, pastVars>>

Logout(t) ==
    /\ me[t] # Nobody /\ t \notin leaving /\ input
    /\ leaving' = leaving \union {t}
    /\ UNCHANGED <<serverVars, authVars, asks, page, wireVars, pastVars>>

\* Mutant: sessionStorage keeps the user.
forgottenNot(t) == UNCHANGED saved

forgotten(t) == saved' = [saved EXCEPT ![t] = Nobody]

\* The way to /play makes the next guest.
LogoutAnswered(t) ==
    /\ t \in leaving
    /\ leaving' = leaving \ {t}
    /\ cookie' = Nobody
    /\ forgotten(t)
    /\ me' = [me EXCEPT ![t] = Nobody]
    /\ tellOthers(t)
    /\ goOffline(t)
    /\ overtaken' = [overtaken EXCEPT ![t] = FALSE]
    /\ doubled' = [doubled EXCEPT ![t] = FALSE]
    /\ ask(t, asks)
    /\ IF page[t] = "play" THEN UNCHANGED page ELSE show(t, "opening")
    /\ UNCHANGED <<serverVars, boundVars>>

\* fetchUser answers from sessionStorage.  Requests of the old document are
\* given up: an account they still make is nobody's.
Reload(t) ==
    LET otherWires == {w \in wires : w.tab # t}
        otherAsks  == asks \ AsksOf(t)
    IN  /\ page[t] # "login" /\ input
        /\ me' = [me EXCEPT ![t] = saved[t]]
        /\ leaving' = leaving \ {t}
        /\ overtaken' = [overtaken EXCEPT ![t] = FALSE]
        /\ doubled' = [doubled EXCEPT ![t] = FALSE]
        /\ connected' = [connected EXCEPT ![t] = FALSE]
        /\ timer' = [timer EXCEPT ![t] = FALSE]
        /\ \/ /\ saved[t] # Nobody
              /\ connect(t, otherWires)
              /\ asks' = otherAsks
              /\ show(t, IF page[t] = "opening" THEN "play" ELSE page[t])
           \/ /\ saved[t] = Nobody
              /\ wires' = otherWires /\ socket' = [socket EXCEPT ![t] = NoSocket]
              /\ IF page[t] = "away"
                 THEN asks' = otherAsks /\ UNCHANGED page
                 ELSE ask(t, otherAsks) /\ show(t, "opening")
        /\ UNCHANGED <<serverVars, cookie, saved, elsewhere>>

\* Two hours have passed; the cookie is kept for a day.
Expire(user) ==
    /\ user \in 1 .. accounts \ expired
    /\ expired' = expired \union {user}
    /\ UNCHANGED <<accounts, authVars, asks, leaving, page, wireVars, boundVars,
                   pastVars>>

------------------------------------------------------------------------------

Init ==
    /\ accounts = 0 /\ expired = {} /\ cookie = Nobody
    /\ me = [t \in Tabs |-> Nobody] /\ saved = me
    /\ asks = {} /\ leaving = {}
    /\ page = [t \in Tabs |-> "away"]
    /\ wires = {} /\ socket = [t \in Tabs |-> NoSocket]
    /\ connected = [t \in Tabs |-> FALSE] /\ timer = connected
    /\ overtaken = connected /\ elsewhere = connected /\ doubled = connected
    /\ inputs = 0 /\ faults = 0

\* What happens of itself.
Progress ==
    \/ \E w \in wires : Opened(w) \/ Refused(w) \/ Closed(w)
    \/ \E a \in asks : GuestServed(a) \/ GuestAnswered(a)
    \/ \E t \in Tabs : Reconnect(t) \/ LogoutAnswered(t)

Next ==
    \/ Progress
    \/ \E w \in wires : Dropped(w)
    \/ \E a \in asks : GuestFails(a)
    \/ \E t \in Tabs : OpenPlay(t) \/ SubmitName(t) \/ Leave(t) \/ Logout(t) \/ Reload(t)
    \/ \E user \in Accounts : Expire(user)

\* Each handshake, timer and request gets its turn.
Spec ==
    /\ Init /\ [][Next]_sessionVars
    /\ \A t \in Tabs :
          /\ WF_sessionVars(\E w \in wires : w.tab = t /\ (Opened(w) \/ Refused(w)))
          /\ WF_sessionVars(\E w \in wires : w.tab = t /\ Closed(w))
          /\ WF_sessionVars(\E a \in AsksOf(t) : GuestServed(a) \/ GuestAnswered(a))
          /\ WF_sessionVars(Reconnect(t))
          /\ WF_sessionVars(LogoutAnswered(t))

------------------------------------------------------------------------------
(* Properties.                                                             *)

\* Whom a tab shows is whom the server takes its requests for, and whom its
\* socket was opened for, unless another tab has signed in or out since, or
\* the tab itself has signed in twice (fetchUser.ts, cacheMe; AuthContext.tsx,
\* logoutMutation; WebSocketContext.tsx, the effect on isAuthenticated).
OneIdentity ==
    \A t \in Tabs : me[t] # Nobody /\ ~elsewhere[t] =>
        /\ cookie = me[t]
        /\ \A w \in WireOf(t) : w.stage = "open" => w.user = me[t] \/ doubled[t]

\* A tab somebody is signed in to has a socket, or one in the making, or will
\* try again, unless an event of an earlier sign-in's socket came late
\* (WebSocketContext.tsx, onopen and onclose).
MuteHasCause ==
    \A t \in Tabs : me[t] # Nobody /\ ~overtaken[t] => timer[t] \/ WireOf(t) # {}

\* Whoever is signed in with a token that stays good gets a connection the
\* pages can use, unless an event of an earlier sign-in's socket comes late
\* (WebSocketContext.tsx, scheduleReconnect; httpsession.go).
SignedInGetsThrough ==
    \A t \in Tabs : me[t] # Nobody
        ~> (connected[t] \/ me[t] = Nobody \/ ~Valid(cookie) \/ overtaken[t])
=============================================================================
