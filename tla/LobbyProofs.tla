------------------------------ MODULE LobbyProofs ------------------------------
(***************************************************************************)
(* Proofs about one lobby, for any number of users, goroutines and         *)
(* requests.  Requests overwrite each other's results, so what a stored    *)
(* roster satisfies does not follow from what the previous one satisfied:  *)
(* the invariant says the same of every private copy about to be saved.    *)
(*                                                                         *)
(* The second part is about what clients, members and metrics are told.    *)
(* Whoever no overlapping and no wrongly refused request is about is in    *)
(* the stored roster, and in every copy on its way there, exactly if the   *)
(* acknowledged requests say so; what the feed and the gauge lack, if no   *)
(* overlap and no lost notice excuses it, is what a request under way is   *)
(* still to publish.                                                       *)
(***************************************************************************)
EXTENDS Lobby, FiniteSetTheorems, TLAPS

USE LobbyAssumption, NoLobbyAssumption

------------------------------------------------------------------------------
(* The aggregate (lobby.go).                                               *)

\* A player who passed CanJoin is added without breaking limit or uniqueness.
LEMMA AddPlayerSound ==
    ASSUME NEW r \in SUBSET Entries, NEW u \in People, Sound(r), CanJoin(r, u)
    PROVE  AddPlayer(r, u) \in SUBSET Entries /\ Sound(AddPlayer(r, u))
  <1> DEFINE e == [user |-> u, ready |-> FALSE]
  <1>1. e \in Entries /\ e.user = u
    BY DEF Entries
  <1>2. /\ IsFiniteSet(r \union {e})
        /\ Cardinality(r \union {e}) <= PlayerLimit
    <2>1. Cardinality(r) \in Nat /\ Cardinality(r) < PlayerLimit
      BY FS_CardinalityType DEF Sound, CanJoin
    <2>2. /\ IsFiniteSet(r \union {e})
          /\ Cardinality(r \union {e}) = IF e \in r THEN Cardinality(r) ELSE Cardinality(r) + 1
      <3> HIDE DEF e
      <3> QED
        BY FS_AddElement DEF Sound
    <2> QED
      BY <2>1, <2>2
  <1>3. \A f \in r : f.user # u
    BY DEF CanJoin, Users
  <1> QED
    BY <1>1, <1>2, <1>3 DEF Sound, AddPlayer

\* What is left after a player is removed is sound unless it is empty.
LEMMA RemovePlayerSound ==
    ASSUME NEW r \in SUBSET Entries, NEW u \in People, Sound(r)
    PROVE  /\ RemovePlayer(r, u) \in SUBSET Entries
           /\ RemovePlayer(r, u) # {} => Sound(RemovePlayer(r, u))
  <1> DEFINE s == RemovePlayer(r, u)
  <1>1. s \in SUBSET r
    BY DEF RemovePlayer
  <1>2. Cardinality(r) \in Nat /\ Cardinality(s) \in Nat
    BY <1>1, FS_CardinalityType, FS_Subset DEF Sound
  <1>3. IsFiniteSet(s) /\ Cardinality(s) <= PlayerLimit
    BY <1>1, <1>2, FS_Subset DEF Sound
  <1> QED
    BY <1>1, <1>3 DEF Sound

\* Setting a flag keeps the number of players and their identities.
LEMMA SetReadySound ==
    ASSUME NEW r \in SUBSET Entries, NEW u \in People, NEW b \in BOOLEAN, Sound(r)
    PROVE  SetReady(r, u, b) \in SUBSET Entries /\ Sound(SetReady(r, u, b))
  <1> DEFINE flag(e) == IF e.user = u THEN [user |-> u, ready |-> b] ELSE e
             s == SetReady(r, u, b)
             f == [e \in r |-> flag(e)]
  <1>1. \A e \in r : flag(e) \in Entries /\ flag(e).user = e.user
    BY DEF Entries
  <1>2. s = {flag(e) : e \in r}
    BY DEF SetReady
  <1>3. s \in SUBSET Entries /\ s # {}
    BY <1>1, <1>2 DEF Sound
  <1>4. f \in Surjection(r, s)
    <2> HIDE DEF flag
    <2> QED
      BY <1>2 DEF Surjection
  <1>5. Cardinality(r) \in Nat /\ IsFiniteSet(s) /\ Cardinality(s) <= Cardinality(r)
    BY <1>4, FS_Surjection, FS_CardinalityType DEF Sound
  <1>6. Cardinality(s) <= PlayerLimit
    BY <1>5, FS_CardinalityType DEF Sound
  <1>7. ASSUME NEW x \in s, NEW y \in s, x.user = y.user
        PROVE  x = y
    <2>1. PICK d \in r : x = flag(d)
      BY <1>2
    <2>2. PICK e \in r : y = flag(e)
      BY <1>2
    <2>3. d.user = e.user
      BY <1>1, <1>7, <2>1, <2>2
    <2> QED
      BY <2>1, <2>2, <2>3 DEF Sound
  <1> QED
    BY <1>3, <1>5, <1>6, <1>7 DEF Sound

------------------------------------------------------------------------------
(* The invariant.                                                          *)

\* A roster on its way to the store is sound.
CopiesSound == \A w \in Workers : pc[w] = "save" => Sound(job[w].copy)

\* Which requests come to which stage.
OpsKnown ==
    \A w \in Workers :
        /\ pc[w] = "reload" => job[w].op = "ready"
        /\ pc[w] \in {"save", "publish"} => job[w].op \in {"join", "leave", "ready"}
        /\ pc[w] = "refetch" => job[w].op \in {"join", "ready"}
        /\ Deleting(w) => job[w].op \in {"leave", "delete"}

IInv == TypeOK /\ RosterSound /\ CopiesSound /\ OpsKnown

LEMMA InitIInv == Init => IInv
  <1> SUFFICES ASSUME Init PROVE IInv
    OBVIOUS
  <1> DEFINE e == [user |-> Host, ready |-> FALSE]
  <1>1. Created = {e} /\ Created \in SUBSET Entries
    BY DEF Created, AddPlayer, Entries
  <1>2. Sound(Created)
    <2>1. IsFiniteSet({e}) /\ Cardinality({e}) = 1
      BY FS_Singleton
    <2> QED
      BY <1>1, <2>1 DEF Sound
  <1>3. TypeOK
    <2>1. alone \in BOOLEAN /\ muddled \in BOOLEAN /\ miscounted \in BOOLEAN
      BY DEF Init
    <2>2. pc \in [Workers -> Stages] /\ job \in [Workers -> Jobs]
      BY DEF Init, Stages, Jobs, NoJob
    <2>3. begun \in 0 .. MaxRequests /\ faults \in 0 .. MaxFaults /\ listed \in Int
      BY DEF Init
    <2> QED
      BY <1>1, <2>1, <2>2, <2>3 DEF Init, TypeOK
  <1>4. CopiesSound /\ OpsKnown
    BY DEF Init, CopiesSound, OpsKnown, Deleting
  <1> QED
    BY <1>2, <1>3, <1>4 DEF IInv, Init, RosterSound

\* A request is about people.
LEMMA AboutPeople ==
    /\ \A op : \A u \in People : About(op, u) \in SUBSET People
    /\ IInv => \A w \in Workers : /\ Affected(w) \in SUBSET People
                                 /\ SeatedBy(w) \in SUBSET People
  <1>1. \A op : \A u \in People : About(op, u) \in SUBSET People
    BY DEF About
  <1>2. ASSUME IInv, NEW w \in Workers
        PROVE  Affected(w) \in SUBSET People /\ SeatedBy(w) \in SUBSET People
    <2>1. job[w].user \in People /\ seated \in SUBSET People
      BY <1>2 DEF IInv, TypeOK, Jobs
    <2> QED
      BY <1>1, <2>1 DEF Affected, SeatedBy
  <1> QED
    BY <1>1, <1>2

\* A request that is accepted with a good copy keeps the invariant.
LEMMA AcceptKeeps ==
    ASSUME IInv, NEW w \in Workers, NEW stage \in {"save", "delete", "reload"},
           NEW op \in {"join", "leave", "delete", "ready"}, NEW u \in People,
           NEW copy \in SUBSET Entries, NEW r \in BOOLEAN,
           Accept(w, stage, op, u, copy, r),
           stage = "reload" => op = "ready",
           stage = "save" => Sound(copy) /\ op \in {"join", "leave"},
           stage = "delete" => op \in {"leave", "delete"}
    PROVE  IInv'
  <1> DEFINE new == [op |-> op, user |-> u, copy |-> copy, ready |-> r]
             others == {v \in Workers : Serving(v)}
  <1>1. /\ pc' = [pc EXCEPT ![w] = stage] /\ job' = [job EXCEPT ![w] = new]
        /\ begun' \in 0 .. MaxRequests /\ UNCHANGED <<store, feed, listed, seated, faults>>
    BY DEF Accept, Goto, IInv, TypeOK
  <1>2. new \in Jobs /\ new.op = op /\ new.copy = copy
    BY DEF Jobs
  <1>3. doubtful' \in SUBSET People
    <2>1. UNION {Affected(v) : v \in others} \in SUBSET People
      BY AboutPeople
    <2>2. /\ doubtful \in SUBSET People /\ About(op, u) \in SUBSET People
          /\ \/ doubtful' = doubtful
             \/ doubtful' = doubtful \union About(op, u) \union UNION {Affected(v) : v \in others}
      BY AboutPeople DEF Accept, IInv, TypeOK
    <2> HIDE DEF others
    <2> QED
      BY <2>1, <2>2
  <1>4. alone' \in BOOLEAN /\ muddled' \in BOOLEAN /\ miscounted' \in BOOLEAN
    <2>1. alone' \in BOOLEAN
      BY DEF Accept
    <2>2. muddled' \in BOOLEAN
      BY DEF Accept
    <2>3. miscounted' \in BOOLEAN
      BY DEF Accept
    <2> QED
      BY <2>1, <2>2, <2>3
  <1> HIDE DEF new, others
  <1>5. TypeOK'
    <2>1. pc' \in [Workers -> Stages] /\ job' \in [Workers -> Jobs]
      BY <1>1, <1>2 DEF IInv, TypeOK, Stages
    <2> QED
      BY <1>1, <1>3, <1>4, <2>1 DEF IInv, TypeOK
  <1>6. RosterSound'
    BY <1>1 DEF IInv, RosterSound
  <1>7. CopiesSound'
    BY <1>1, <1>2 DEF IInv, TypeOK, CopiesSound
  <1>8. OpsKnown'
    BY <1>1, <1>2 DEF IInv, TypeOK, OpsKnown, Deleting
  <1> QED
    BY <1>5, <1>6, <1>7, <1>8 DEF IInv

LEMMA RequestKeeps ==
    ASSUME IInv, store # NoLobby, NEW w \in Workers, NEW u \in People, Request(w, u)
    PROVE  IInv'
  <1>1. store \in SUBSET Entries /\ Sound(store)
    BY DEF IInv, TypeOK, RosterSound
  <1>2. CASE JoinLobby(w, u)
    BY <1>1, <1>2, AddPlayerSound, AcceptKeeps DEF JoinLobby
  <1>3. CASE LeaveLobby(w, u)
    <2> DEFINE copy == RemovePlayer(store, u)
               stage == IF IsEmpty(copy) THEN "delete" ELSE "save"
    <2>1. /\ copy \in SUBSET Entries
          /\ stage = "save" => Sound(copy)
      BY <1>1, RemovePlayerSound DEF IsEmpty
    <2>2. stage \in {"save", "delete", "reload"} /\ stage # "reload"
      OBVIOUS
    <2>3. Accept(w, stage, "leave", u, copy, FALSE)
      BY <1>3 DEF LeaveLobby
    <2> HIDE DEF copy, stage
    <2> QED
      BY <2>1, <2>2, <2>3, AcceptKeeps
  <1>4. CASE ToggleReady(w, u)
    <2>1. PICK e \in store : Accept(w, "reload", "ready", u, {}, ~e.ready)
      BY <1>4 DEF ToggleReady
    <2> DEFINE b == ~e.ready
    <2>2. b \in BOOLEAN /\ Accept(w, "reload", "ready", u, {}, b)
      BY <2>1
    <2> HIDE DEF b
    <2> QED
      BY <2>2, AcceptKeeps
  <1>5. CASE DeleteLobby(w, u)
    BY <1>5, AcceptKeeps DEF DeleteLobby
  <1> QED
    BY <1>2, <1>3, <1>4, <1>5 DEF Request

\* What a working goroutine leaves alone, and the types of what it changes.
LEMMA WorkFrame ==
    ASSUME IInv, NEW w \in Workers, Work(w)
    PROVE  /\ UNCHANGED <<begun, alone>>
           /\ feed' \in SUBSET Entries /\ listed' \in Int /\ faults' \in 0 .. MaxFaults
           /\ seated' \in SUBSET People /\ doubtful' \in SUBSET People
           /\ muddled' \in BOOLEAN /\ miscounted' \in BOOLEAN
  <1>1. /\ job[w].copy \in SUBSET Entries
        /\ feed \in SUBSET Entries /\ listed \in Int /\ faults \in 0 .. MaxFaults
        /\ seated \in SUBSET People /\ doubtful \in SUBSET People
        /\ muddled \in BOOLEAN /\ miscounted \in BOOLEAN /\ alone \in BOOLEAN
    BY DEF IInv, TypeOK, Jobs
  <1>2. UNCHANGED <<begun, alone>>
    BY DEF Work, SetPlayerReady, Save, DeleteKey, StoreFails, StoreAnswerLost, PublishUpdated,
           PublishUpdatedFails, PublishDeleted, PublishCreated, PublishGaugeFails, Refetch,
           RefetchFails
  <1>3. feed' \in SUBSET Entries /\ listed' \in Int
    BY <1>1 DEF Work, SetPlayerReady, Save, DeleteKey, StoreFails, StoreAnswerLost, PublishUpdated,
           PublishUpdatedFails, PublishDeleted, PublishCreated, PublishGaugeFails, Refetch,
           RefetchFails
  <1>4. faults' \in 0 .. MaxFaults
    <2>1. faults' = faults \/ Fault
      BY DEF Work, SetPlayerReady, Save, DeleteKey, StoreFails, StoreAnswerLost, PublishUpdated,
             PublishUpdatedFails, PublishDeleted, PublishCreated, PublishGaugeFails, Refetch,
             RefetchFails
    <2> QED
      BY <1>1, <2>1 DEF Fault
  <1>5. seated' \in SUBSET People /\ doubtful' \in SUBSET People
    <2>1. \/ UNCHANGED <<seated, doubtful>>
          \/ Acknowledge(w)
          \/ Misinform(w)
      BY DEF Work, SetPlayerReady, Save, DeleteKey, StoreFails, StoreAnswerLost, PublishUpdated,
             PublishUpdatedFails, PublishDeleted, PublishCreated, PublishGaugeFails, Refetch,
             RefetchFails, AfterNotice
    <2>2. SeatedBy(w) \in SUBSET People /\ Affected(w) \in SUBSET People
      BY AboutPeople
    <2> QED
      BY <1>1, <2>1, <2>2 DEF Acknowledge, Misinform
  <1>6. muddled' \in BOOLEAN /\ miscounted' \in BOOLEAN
    BY <1>1 DEF Work, SetPlayerReady, Save, DeleteKey, StoreFails, StoreAnswerLost, PublishUpdated,
           PublishUpdatedFails, PublishDeleted, PublishCreated, PublishGaugeFails, Refetch,
           RefetchFails
  <1> QED
    BY <1>2, <1>3, <1>4, <1>5, <1>6

\* The stages of a request: what a working goroutine does with its own variables
\* and the store.
Moves(w) ==
    \/ /\ pc[w] = "reload" /\ store # NoLobby /\ store' = store
       /\ pc' = [pc EXCEPT ![w] = "save"]
       /\ job' = [job EXCEPT ![w].copy = SetReady(store, job[w].user, job[w].ready)]
    \/ /\ pc[w] = "save" /\ store' = job[w].copy
       /\ pc' = [pc EXCEPT ![w] = "publish"] /\ job' = job
    \/ /\ pc[w] = "delete" /\ store' = NoLobby
       /\ pc' = [pc EXCEPT ![w] = "publishDeleted"] /\ job' = job
    \/ /\ pc[w] = "publish" /\ job[w].op # "leave" /\ store' = store
       /\ pc' = [pc EXCEPT ![w] = "refetch"] /\ job' = job
    \/ /\ Finish(w)
       /\ pc[w] # "idle"
       /\ \/ store' = store
          \/ pc[w] = "save" /\ store' = job[w].copy
          \/ pc[w] = "delete" /\ store' = NoLobby

LEMMA WorkMoves ==
    ASSUME NEW w \in Workers, Work(w)
    PROVE  Moves(w)
  <1>1. CASE SetPlayerReady(w)
    BY <1>1 DEF SetPlayerReady, Moves, Goto
  <1>2. CASE Save(w) \/ DeleteKey(w)
    BY <1>2 DEF Save, DeleteKey, Moves, Goto
  <1>3. CASE StoreFails(w)
    BY <1>3 DEF StoreFails, Moves
  <1>4. CASE StoreAnswerLost(w)
    BY <1>4 DEF StoreAnswerLost, Misinform, Moves
  <1>5. CASE PublishUpdated(w) \/ PublishUpdatedFails(w)
    BY <1>5 DEF PublishUpdated, PublishUpdatedFails, AfterNotice, Acknowledge, Moves, Goto
  <1>6. CASE PublishDeleted(w) \/ PublishCreated(w) \/ PublishGaugeFails(w)
    BY <1>6 DEF PublishDeleted, PublishCreated, PublishGaugeFails, Acknowledge, Moves
  <1>7. CASE Refetch(w) \/ RefetchFails(w)
    BY <1>7 DEF Refetch, RefetchFails, Acknowledge, Misinform, Moves
  <1> QED
    BY <1>1, <1>2, <1>3, <1>4, <1>5, <1>6, <1>7 DEF Work

LEMMA WorkKeeps ==
    ASSUME IInv, NEW w \in Workers, Work(w)
    PROVE  IInv'
  <1>1. /\ pc \in [Workers -> Stages] /\ job \in [Workers -> Jobs]
        /\ store = NoLobby \/ store \in SUBSET Entries
        /\ job[w].copy \in SUBSET Entries /\ Moves(w)
    BY WorkMoves DEF IInv, TypeOK, Jobs
  <1> DEFINE copy == SetReady(store, job[w].user, job[w].ready)
  <1>2. pc[w] = "reload" /\ store # NoLobby => copy \in SUBSET Entries /\ Sound(copy)
    BY SetReadySound DEF IInv, TypeOK, RosterSound, Jobs
  <1> HIDE DEF copy
  <1>3. /\ pc' \in [Workers -> Stages] /\ job' \in [Workers -> Jobs]
        /\ store' = NoLobby \/ store' \in SUBSET Entries
    <2>1. CASE Finish(w)
      <3>1. pc' \in [Workers -> Stages] /\ job' \in [Workers -> Jobs]
        BY <1>1, <2>1 DEF Finish, Goto, NoJob, Jobs, Stages
      <3>2. store' \in {store, job[w].copy, NoLobby}
        BY <1>1 DEF Moves
      <3> QED
        BY <1>1, <3>1, <3>2
    <2>2. CASE ~Finish(w)
      BY <1>1, <1>2, <2>2 DEF Moves, Jobs, Stages, copy
    <2> QED
      BY <2>1, <2>2
  <1>4. TypeOK'
    BY <1>3, WorkFrame DEF TypeOK, IInv
  <1>5. RosterSound'
    BY <1>1 DEF IInv, RosterSound, CopiesSound, Moves
  <1>6. CopiesSound' /\ OpsKnown'
    <2>1. CASE Finish(w)
      BY <1>1, <2>1 DEF IInv, CopiesSound, OpsKnown, Finish, Goto, Deleting
    <2>2. CASE ~Finish(w)
      <3>1. CopiesSound'
        BY <1>1, <1>2, <2>2 DEF IInv, CopiesSound, Moves, copy, Jobs
      <3>2. OpsKnown'
        BY <1>1, <2>2 DEF IInv, OpsKnown, Moves, Deleting, Jobs
      <3> QED
        BY <3>1, <3>2
    <2> QED
      BY <2>1, <2>2
  <1> QED
    BY <1>4, <1>5, <1>6 DEF IInv

LEMMA NextIInv == IInv /\ [Next]_vars => IInv'
  <1> SUFFICES ASSUME IInv, [Next]_vars PROVE IInv'
    OBVIOUS
  <1>1. CASE Next
    <2>1. PICK w \in Workers :
              Work(w) \/ (store # NoLobby /\ \E u \in People : Request(w, u))
      BY <1>1 DEF Next
    <2> QED
      BY <2>1, WorkKeeps, RequestKeeps
  <1>2. CASE UNCHANGED vars
    BY <1>2 DEF vars, IInv, TypeOK, RosterSound, CopiesSound, OpsKnown, Deleting
  <1> QED
    BY <1>1, <1>2

THEOREM Invariance == Spec => []IInv
  BY InitIInv, NextIInv, PTL DEF Spec

------------------------------------------------------------------------------

\* Every reachable state of a lobby is well typed.
THEOREM TypeCorrect == Spec => []TypeOK
  <1>1. IInv => TypeOK
    BY DEF IInv
  <1> QED
    BY <1>1, Invariance, PTL

\* Lost updates or not, a stored lobby respects its limit, holds nobody twice
\* and is never empty (lobby.go, AddPlayer; lobbyService.go, LeaveLobby).
THEOREM RosterAlwaysSound == Spec => []RosterSound
  <1>1. IInv => RosterSound
    BY DEF IInv
  <1> QED
    BY <1>1, Invariance, PTL

------------------------------------------------------------------------------
(* Overlaps.                                                               *)

\* A request is served alone, or those that are served at the same time are
\* known to be in doubt.
Overlaps ==
    /\ alone => \A v, w \in Workers : Serving(v) /\ Serving(w) => v = w
    /\ ~alone => \A w \in Workers :
                    Serving(w) => /\ muddled
                                  /\ \A x \in Affected(w) : x \in doubtful

\* What a working goroutine does to the others' variables, and to its own
\* request's.
LEMMA WorkLocal ==
    ASSUME IInv, NEW w \in Workers, Work(w)
    PROVE  /\ UNCHANGED alone
           /\ pc[w] # "idle" /\ (Serving(w)' => Serving(w) /\ Affected(w)' = Affected(w))
           /\ \A v \in Workers \ {w} :
                 /\ pc'[v] = pc[v] /\ job'[v] = job[v]
                 /\ Serving(v)' = Serving(v) /\ Affected(v)' = Affected(v)
  <1>1. /\ pc \in [Workers -> Stages] /\ job \in [Workers -> Jobs] /\ Moves(w)
        /\ UNCHANGED alone
    BY WorkMoves, WorkFrame DEF IInv, TypeOK
  <1>2. \A v \in Workers \ {w} : pc'[v] = pc[v] /\ job'[v] = job[v]
    BY <1>1 DEF Moves, Finish, Goto
  <1>3. \A v \in Workers \ {w} : Serving(v)' = Serving(v) /\ Affected(v)' = Affected(v)
    BY <1>2 DEF Serving, Affected
  <1>4. CASE Finish(w)
    BY <1>1, <1>2, <1>3, <1>4 DEF Moves, Finish, Goto, Serving
  <1>5. CASE ~Finish(w)
    <2>1. Serving(w) /\ pc[w] # "idle"
      BY <1>1, <1>5 DEF Moves, Serving
    <2>2. job'[w].op = job[w].op /\ job'[w].user = job[w].user
      BY <1>1, <1>5 DEF Moves, Jobs
    <2> QED
      BY <1>1, <1>2, <1>3, <2>1, <2>2 DEF Affected
  <1> QED
    BY <1>4, <1>5

\* Doubts are removed, and the feed is trusted again, only by a request that is
\* served alone.
LEMMA WorkDoubts ==
    ASSUME NEW w \in Workers, Work(w), ~alone
    PROVE  /\ muddled => muddled'
           /\ \A x : x \in doubtful => x \in doubtful'
  <1>1. muddled => muddled'
    BY DEF Work, SetPlayerReady, Save, DeleteKey, StoreFails, StoreAnswerLost, PublishUpdated,
           PublishUpdatedFails, PublishDeleted, PublishCreated, PublishGaugeFails, Refetch,
           RefetchFails
  <1>2. \/ UNCHANGED doubtful
        \/ Acknowledge(w)
        \/ Misinform(w)
    BY DEF Work, SetPlayerReady, Save, DeleteKey, StoreFails, StoreAnswerLost, PublishUpdated,
           PublishUpdatedFails, PublishDeleted, PublishCreated, PublishGaugeFails, Refetch,
           RefetchFails, AfterNotice
  <1>3. \A x : x \in doubtful => x \in doubtful'
    BY <1>2 DEF Acknowledge, Misinform
  <1> QED
    BY <1>1, <1>3

LEMMA WorkOverlaps ==
    ASSUME IInv, Overlaps, NEW w \in Workers, Work(w)
    PROVE  Overlaps'
  <1>1. \A v \in Workers : Serving(v)' => Serving(v) /\ Affected(v)' = Affected(v)
    BY WorkLocal
  <1>2. UNCHANGED alone
    BY WorkLocal
  <1>3. CASE alone
    BY <1>1, <1>2, <1>3 DEF Overlaps
  <1>4. CASE ~alone
    BY <1>1, <1>2, <1>4, WorkDoubts DEF Overlaps
  <1> QED
    BY <1>3, <1>4

\* A request that starts alone is in nobody's way; one that does not puts itself
\* and those it meets in doubt.
LEMMA AcceptOverlaps ==
    ASSUME IInv, Overlaps, NEW w \in Workers, NEW stage \in {"save", "delete", "reload"},
           NEW op, NEW u \in People, NEW copy, NEW r, Accept(w, stage, op, u, copy, r)
    PROVE  /\ Overlaps'
           /\ pc[w] = "idle" /\ pc'[w] = stage /\ job'[w].op = op /\ job'[w].copy = copy
           /\ Affected(w)' = About(op, u)
           /\ \A v \in Workers \ {w} :
                 /\ pc'[v] = pc[v] /\ job'[v] = job[v]
                 /\ Serving(v)' = Serving(v) /\ Affected(v)' = Affected(v)
           /\ \A x : x \in doubtful => x \in doubtful'
           /\ alone' => \A v \in Workers : ~Serving(v)
  <1> DEFINE new == [op |-> op, user |-> u, copy |-> copy, ready |-> r]
             others == {v \in Workers : Serving(v)}
  <1>1. /\ pc' = [pc EXCEPT ![w] = stage] /\ job' = [job EXCEPT ![w] = new] /\ pc[w] = "idle"
        /\ pc \in [Workers -> Stages] /\ job \in [Workers -> Jobs]
        /\ alone' = (others = {})
        /\ muddled' = (muddled \/ others # {})
        /\ doubtful' = IF others = {} THEN doubtful
                       ELSE doubtful \union About(op, u) \union UNION {Affected(v) : v \in others}
    BY DEF Accept, Goto, IInv, TypeOK
  <1>2. new.op = op /\ new.copy = copy /\ new.user = u
    OBVIOUS
  <1> HIDE DEF new
  <1>3. /\ pc'[w] = stage /\ job'[w] = new
        /\ \A v \in Workers \ {w} : pc'[v] = pc[v] /\ job'[v] = job[v]
    BY <1>1
  <1>4. /\ Affected(w)' = About(op, u)
        /\ \A v \in Workers \ {w} : Serving(v)' = Serving(v) /\ Affected(v)' = Affected(v)
    BY <1>2, <1>3 DEF Affected, Serving
  <1>5. /\ \A x : x \in doubtful => x \in doubtful'
        /\ others # {} => \A x : x \in About(op, u) => x \in doubtful'
        /\ \A v \in Workers : Serving(v) => \A x : x \in Affected(v) => x \in doubtful'
    BY <1>1
  <1>6. ~Serving(w)
    BY <1>1 DEF Serving
  <1>7. ASSUME others = {} PROVE Overlaps'
    <2>1. alone' /\ \A v \in Workers \ {w} : ~Serving(v)'
      BY <1>1, <1>4, <1>7
    <2> HIDE DEF others
    <2> QED
      BY <2>1 DEF Overlaps
  <1>8. ASSUME others # {} PROVE Overlaps'
    <2>1. ~alone' /\ muddled'
      BY <1>1, <1>8
    <2>2. \A v \in Workers : Serving(v)' => \A x \in Affected(v)' : x \in doubtful'
      BY <1>4, <1>5, <1>8
    <2> HIDE DEF others
    <2> QED
      BY <2>1, <2>2 DEF Overlaps
  <1>9. Overlaps'
    BY <1>7, <1>8
  <1> QED
    BY <1>1, <1>2, <1>3, <1>4, <1>5, <1>9

------------------------------------------------------------------------------
(* Seats.                                                                  *)

\* The store has the request's change, and the client has no answer yet.
Stored(w) == pc[w] \in {"publish", "refetch", "publishDeleted"}

\* The seat of user x: in the store, and in every copy about to be stored, what
\* the request about x says, or else what was acknowledged.
SeatOf(x) ==
    /\ \A w \in Workers : alone /\ Stored(w) /\ x \in Affected(w) =>
          (InStore(x) <=> job[w].op = "join")
    /\ x \notin doubtful /\ (\A w \in Workers : Stored(w) => x \notin Affected(w)) =>
          (InStore(x) <=> x \in seated)
    /\ \A w \in Workers : pc[w] = "save" /\ x \in Affected(w) =>
          (x \in Users(job[w].copy) <=> job[w].op = "join")
    /\ \A w \in Workers : pc[w] = "save" /\ x \notin doubtful /\ x \notin Affected(w) =>
          (x \in Users(job[w].copy) <=> x \in seated)
    /\ \A w \in Workers : pc[w] = "delete" /\ x \notin doubtful /\ x \notin Affected(w) =>
          x \notin seated

SeatInv == \A x \in People : SeatOf(x)

\* Adding, removing and flagging a player do to the names what they say
\* (lobby.go).
LEMMA RosterNames ==
    ASSUME NEW r \in SUBSET Entries, NEW u \in People, NEW b \in BOOLEAN
    PROVE  /\ Users(AddPlayer(r, u)) = Users(r) \union {u}
           /\ Users(RemovePlayer(r, u)) = Users(r) \ {u}
           /\ Users(SetReady(r, u, b)) = Users(r)
  <1>1. Users(AddPlayer(r, u)) = Users(r) \union {u}
    <2> DEFINE e == [user |-> u, ready |-> FALSE]
    <2>1. e.user = u
      OBVIOUS
    <2> HIDE DEF e
    <2>2. Users(r \union {e}) = Users(r) \union {u}
      BY <2>1 DEF Users
    <2> QED
      BY <2>2 DEF AddPlayer, e
  <1>2. Users(RemovePlayer(r, u)) = Users(r) \ {u}
    BY DEF Users, RemovePlayer
  <1>3. Users(SetReady(r, u, b)) = Users(r)
    <2> DEFINE flag(e) == IF e.user = u THEN [user |-> u, ready |-> b] ELSE e
    <2>1. \A e \in r : flag(e).user = e.user
      OBVIOUS
    <2> HIDE DEF flag
    <2>2. {e.user : e \in {flag(x) : x \in r}} = {e.user : e \in r}
      BY <2>1
    <2> QED
      BY <2>2 DEF Users, SetReady, flag
  <1> QED
    BY <1>1, <1>2, <1>3

\* What an acknowledgement says of the seat of a user.
LEMMA SeatedByMeaning ==
    ASSUME IInv, NEW w \in Workers, Stored(w), NEW x \in People
    PROVE  /\ x \in Affected(w) => (x \in SeatedBy(w) <=> job[w].op = "join")
           /\ x \notin Affected(w) => (x \in SeatedBy(w) <=> x \in seated)
  <1>1. job[w].op \in {"join", "leave", "ready", "delete"}
    BY DEF IInv, OpsKnown, Stored, Deleting
  <1>2. job[w].op # "none" /\ "none" # "join"
    BY <1>1
  <1> QED
    BY <1>1 DEF SeatedBy, Affected, About

LEMMA InitSeat == Init => SeatInv
  <1> SUFFICES ASSUME Init, NEW x \in People PROVE SeatOf(x)
    BY DEF SeatInv
  <1>1. \A w \in Workers : pc[w] \in {"idle", "publishCreated"}
    BY DEF Init
  <1>2. Created \in SUBSET Entries /\ Users(Created) = {Host}
    <2>1. /\ {} \in SUBSET Entries /\ Users({}) = {} /\ TRUE \in BOOLEAN /\ Host \in People
      BY DEF Users
    <2>2. Users(AddPlayer({}, Host)) = Users({}) \union {Host}
      BY <2>1, RosterNames
    <2>3. Created \in SUBSET Entries
      BY DEF Created, AddPlayer, Entries
    <2> QED
      BY <2>1, <2>2, <2>3 DEF Created
  <1>3. InStore(x) <=> x \in seated
    BY <1>2 DEF Init, InStore
  <1> QED
    BY <1>1, <1>3 DEF SeatOf, Stored

\* An accepted request has read the seats of all it is not about.
LEMMA AcceptSeat ==
    ASSUME IInv, Overlaps, SeatInv, NEW w \in Workers,
           NEW stage \in {"save", "delete", "reload"}, NEW op, NEW u \in People, NEW copy, NEW r,
           Accept(w, stage, op, u, copy, r),
           \A x \in People :
              /\ stage = "save" /\ x \in About(op, u) => (x \in Users(copy) <=> op = "join")
              /\ stage = "save" /\ x \notin About(op, u) =>
                    (x \in Users(copy) <=> x \in Users(store))
              /\ stage = "delete" /\ x \notin About(op, u) => x \notin Users(store)
    PROVE  SeatInv'
  <1> SUFFICES ASSUME NEW x \in People PROVE SeatOf(x)'
    BY DEF SeatInv
  <1>1. /\ Overlaps'
        /\ pc[w] = "idle" /\ pc'[w] = stage /\ job'[w].op = op /\ job'[w].copy = copy
        /\ Affected(w)' = About(op, u)
        /\ \A v \in Workers \ {w} :
              /\ pc'[v] = pc[v] /\ job'[v] = job[v]
              /\ Serving(v)' = Serving(v) /\ Affected(v)' = Affected(v)
        /\ \A y : y \in doubtful => y \in doubtful'
        /\ alone' => \A v \in Workers : ~Serving(v)
    BY AcceptOverlaps
  <1>2. store # NoLobby /\ store' = store /\ seated' = seated
    BY DEF Accept
  <1>3. (InStore(x) <=> x \in Users(store)) /\ (InStore(x)' <=> InStore(x))
    BY <1>2 DEF InStore
  <1>4. \A v \in Workers \ {w} : Stored(v)' = Stored(v)
    BY <1>1 DEF Stored
  <1>5. ~Stored(w) /\ ~Stored(w)'
    BY <1>1 DEF Stored
  <1>6. \A v \in Workers : Stored(v) => Serving(v)
    BY DEF Stored, Serving
  <1>7. SeatOf(x)
    BY DEF SeatInv
  \* What is not in doubt after the step is what nobody served is about.
  <1>8. x \notin doubtful' => (InStore(x) <=> x \in seated)
    <2>1. CASE alone'
      BY <1>1, <1>6, <1>7, <2>1 DEF SeatOf
    <2>2. CASE ~alone'
      <3>1. \A v \in Workers : Serving(v) /\ v # w => \A y \in Affected(v) : y \in doubtful'
        BY <1>1, <2>2 DEF Overlaps
      <3>2. \A v \in Workers : x \notin doubtful' /\ Stored(v) => x \notin Affected(v)
        BY <1>5, <1>6, <3>1
      <3> QED
        BY <1>1, <1>7, <3>2 DEF SeatOf
    <2> QED
      BY <2>1, <2>2
  <1>9. \A v \in Workers : alone' /\ Stored(v)' /\ x \in Affected(v)' =>
            (InStore(x)' <=> job'[v].op = "join")
    BY <1>1, <1>4, <1>5, <1>6
  <1>10. \A v \in Workers : pc'[v] = "save" /\ x \in Affected(v)' =>
            (x \in Users(job'[v].copy) <=> job'[v].op = "join")
    BY <1>1, <1>7 DEF SeatOf
  <1>11. \A v \in Workers : pc'[v] = "save" /\ x \notin doubtful' /\ x \notin Affected(v)' =>
            (x \in Users(job'[v].copy) <=> x \in seated')
    BY <1>1, <1>2, <1>3, <1>7, <1>8 DEF SeatOf
  <1>12. \A v \in Workers : pc'[v] = "delete" /\ x \notin doubtful' /\ x \notin Affected(v)' =>
            x \notin seated'
    BY <1>1, <1>2, <1>3, <1>7, <1>8 DEF SeatOf
  <1> QED
    BY <1>2, <1>3, <1>8, <1>9, <1>10, <1>11, <1>12 DEF SeatOf

LEMMA RequestSeat ==
    ASSUME IInv, Overlaps, SeatInv, store # NoLobby, NEW w \in Workers, NEW u \in People,
           Request(w, u)
    PROVE  SeatInv'
  <1>1. store \in SUBSET Entries /\ TRUE \in BOOLEAN
    BY DEF IInv, TypeOK
  <1>2. CASE JoinLobby(w, u)
    <2> DEFINE copy == AddPlayer(store, u)
    <2>1. Accept(w, "save", "join", u, copy, FALSE)
      BY <1>2 DEF JoinLobby
    <2>2. Users(copy) = Users(store) \union {u} /\ About("join", u) = {u}
      BY <1>1, RosterNames DEF About
    <2> HIDE DEF copy
    <2> QED
      BY <2>1, <2>2, AcceptSeat
  <1>3. CASE LeaveLobby(w, u)
    <2> DEFINE copy == RemovePlayer(store, u)
               stage == IF IsEmpty(copy) THEN "delete" ELSE "save"
    <2>1. Accept(w, stage, "leave", u, copy, FALSE) /\ stage \in {"save", "delete", "reload"}
      BY <1>3 DEF LeaveLobby
    <2>2. Users(copy) = Users(store) \ {u} /\ About("leave", u) = {u}
      BY <1>1, RosterNames DEF About
    <2>3. stage = "delete" => Users(copy) = {}
      BY DEF Users, IsEmpty
    <2> HIDE DEF copy, stage
    <2>4. \A x \in People :
              /\ stage = "save" /\ x \in About("leave", u) => (x \in Users(copy) <=> "leave" = "join")
              /\ stage = "save" /\ x \notin About("leave", u) =>
                    (x \in Users(copy) <=> x \in Users(store))
              /\ stage = "delete" /\ x \notin About("leave", u) => x \notin Users(store)
      BY <2>2, <2>3
    <2> QED
      BY <2>1, <2>4, AcceptSeat
  <1>4. CASE ToggleReady(w, u)
    <2>1. PICK e \in store : Accept(w, "reload", "ready", u, {}, ~e.ready)
      BY <1>4 DEF ToggleReady
    <2> DEFINE b == ~e.ready
    <2>2. Accept(w, "reload", "ready", u, {}, b)
      BY <2>1
    <2> HIDE DEF b
    <2> QED
      BY <2>2, AcceptSeat
  <1>5. CASE DeleteLobby(w, u)
    <2>1. Accept(w, "delete", "delete", u, {}, FALSE) /\ About("delete", u) = People
      BY <1>5 DEF DeleteLobby, About
    <2> QED
      BY <2>1, AcceptSeat
  <1> QED
    BY <1>2, <1>3, <1>4, <1>5 DEF Request

\* How a working goroutine may treat seats: it stores its copy or deletes the
\* lobby, answers for good or for bad what it stored, or does none of this.
LEMMA WorkSeats ==
    ASSUME IInv, NEW w \in Workers, Work(w)
    PROVE  \/ Save(w)
           \/ DeleteKey(w)
           \/ SetPlayerReady(w) /\ store # NoLobby
           \/ Acknowledge(w) /\ Stored(w) /\ store' = store
           \/ /\ Misinform(w)
              /\ \/ pc[w] = "save" /\ store' = job[w].copy
                 \/ pc[w] = "delete" /\ store' = NoLobby
                 \/ pc[w] = "refetch" /\ store' = store
           \/ /\ Goto(w, "refetch") /\ pc[w] = "publish"
              /\ UNCHANGED <<store, job, seated, doubtful>>
           \/ Finish(w) /\ ~Stored(w) /\ UNCHANGED <<store, seated, doubtful>>
  <1>1. CASE SetPlayerReady(w)
    BY <1>1 DEF SetPlayerReady, Stored
  <1>2. CASE Save(w) \/ DeleteKey(w)
    BY <1>2
  <1>3. CASE StoreFails(w)
    BY <1>3 DEF StoreFails, Stored
  <1>4. CASE StoreAnswerLost(w)
    <2>1. Misinform(w)
      BY <1>4 DEF StoreAnswerLost
    <2>2. \/ pc[w] = "save" /\ store' = job[w].copy
          \/ pc[w] = "delete" /\ store' = NoLobby
      BY <1>4 DEF StoreAnswerLost
    <2> QED
      BY <2>1, <2>2
  <1>5. CASE PublishUpdated(w) \/ PublishUpdatedFails(w)
    BY <1>5 DEF PublishUpdated, PublishUpdatedFails, AfterNotice, Stored
  <1>6. CASE PublishDeleted(w)
    BY <1>6 DEF PublishDeleted, Stored
  <1>7. CASE PublishCreated(w)
    BY <1>7 DEF PublishCreated, Stored
  <1>8. CASE PublishGaugeFails(w)
    BY <1>8 DEF PublishGaugeFails, Stored
  <1>9. CASE Refetch(w) \/ RefetchFails(w)
    BY <1>9 DEF Refetch, RefetchFails, Stored
  <1> QED
    BY <1>1, <1>2, <1>3, <1>4, <1>5, <1>6, <1>7, <1>8, <1>9 DEF Work

LEMMA WorkSeat ==
    ASSUME IInv, Overlaps, SeatInv, NEW w \in Workers, Work(w)
    PROVE  SeatInv'
  <1> SUFFICES ASSUME NEW x \in People PROVE SeatOf(x)'
    BY DEF SeatInv
  <1>1. /\ SeatOf(x)
        /\ pc \in [Workers -> Stages] /\ job \in [Workers -> Jobs]
        /\ store = NoLobby \/ store \in SUBSET Entries
        /\ job[w].copy \in SUBSET Entries
    BY DEF SeatInv, IInv, TypeOK, Jobs
  <1>2. /\ UNCHANGED alone
        /\ pc[w] # "idle" /\ (Serving(w)' => Serving(w) /\ Affected(w)' = Affected(w))
        /\ \A v \in Workers \ {w} :
              /\ pc'[v] = pc[v] /\ job'[v] = job[v]
              /\ Serving(v)' = Serving(v) /\ Affected(v)' = Affected(v)
    BY WorkLocal
  <1>3. \A v \in Workers \ {w} : Stored(v)' = Stored(v)
    BY <1>2 DEF Stored
  <1>4. \A v \in Workers : Stored(v) \/ pc[v] \in {"save", "delete", "reload"} => Serving(v)
    BY DEF Stored, Serving
  \* With somebody else being served, what a request is about is in doubt.
  <1>5. \A v \in Workers \ {w} : Serving(v) /\ Serving(w) =>
            /\ ~alone
            /\ x \in Affected(v) \/ x \in Affected(w) => x \in doubtful
    BY <1>1, <1>2 DEF Overlaps
  <1>6. ~alone /\ Serving(w) /\ x \in Affected(w) => x \in doubtful
    BY DEF Overlaps
  <1>7. CASE Save(w)
    <2>1. /\ pc[w] = "save" /\ pc'[w] = "publish" /\ store' = job[w].copy
          /\ UNCHANGED <<job, seated, doubtful>> /\ Affected(w)' = Affected(w)
      BY <1>1, <1>7 DEF Save, Goto, Affected
    <2>2. Serving(w) /\ Stored(w)' /\ ~Stored(w)
      BY <2>1 DEF Serving, Stored
    <2>3. InStore(x)' <=> x \in Users(job[w].copy)
      BY <1>1, <2>1 DEF InStore
    <2>4. \A v \in Workers : alone' /\ Stored(v)' /\ x \in Affected(v)' =>
              (InStore(x)' <=> job'[v].op = "join")
      BY <1>1, <1>2, <1>3, <1>4, <1>5, <2>1, <2>2, <2>3 DEF SeatOf
    <2>5. x \notin doubtful' /\ (\A v \in Workers : Stored(v)' => x \notin Affected(v)') =>
              (InStore(x)' <=> x \in seated')
      BY <1>1, <2>1, <2>2, <2>3 DEF SeatOf
    <2>6. /\ \A v \in Workers : pc'[v] = "save" => v # w
          /\ \A v \in Workers : pc'[v] = "delete" => v # w
      BY <2>1
    <2> QED
      BY <1>1, <1>2, <2>1, <2>4, <2>5, <2>6 DEF SeatOf
  <1>8. CASE DeleteKey(w)
    <2>1. /\ pc[w] = "delete" /\ pc'[w] = "publishDeleted" /\ store' = NoLobby
          /\ UNCHANGED <<job, seated, doubtful>> /\ Affected(w)' = Affected(w)
      BY <1>1, <1>8 DEF DeleteKey, Goto, Affected
    <2>2. Serving(w) /\ Stored(w)' /\ ~Stored(w) /\ job[w].op # "join"
      BY <2>1 DEF Serving, Stored, IInv, OpsKnown, Deleting
    <2>3. ~InStore(x)'
      BY <2>1 DEF InStore
    <2>4. \A v \in Workers : alone' /\ Stored(v)' /\ x \in Affected(v)' =>
              (InStore(x)' <=> job'[v].op = "join")
      BY <1>2, <1>3, <1>4, <1>5, <2>1, <2>2, <2>3
    <2>5. x \notin doubtful' /\ (\A v \in Workers : Stored(v)' => x \notin Affected(v)') =>
              (InStore(x)' <=> x \in seated')
      BY <1>1, <2>1, <2>2, <2>3 DEF SeatOf
    <2>6. /\ \A v \in Workers : pc'[v] = "save" => v # w
          /\ \A v \in Workers : pc'[v] = "delete" => v # w
      BY <2>1
    <2> QED
      BY <1>1, <1>2, <2>1, <2>4, <2>5, <2>6 DEF SeatOf
  <1>9. CASE SetPlayerReady(w) /\ store # NoLobby
    <2> DEFINE copy == SetReady(store, job[w].user, job[w].ready)
    <2>1. /\ pc[w] = "reload" /\ pc' = [pc EXCEPT ![w] = "save"]
          /\ job' = [job EXCEPT ![w].copy = copy] /\ UNCHANGED <<store, seated, doubtful>>
      BY <1>9 DEF SetPlayerReady, Goto
    <2>2. Users(copy) = Users(store)
      <3>1. job[w].user \in People /\ job[w].ready \in BOOLEAN
        BY <1>1 DEF Jobs
      <3> QED
        BY <1>1, <1>9, <3>1, RosterNames
    <2> HIDE DEF copy
    <2>3. /\ pc'[w] = "save" /\ job'[w].copy = copy /\ job'[w].op = job[w].op
          /\ job[w].op = "ready" /\ Affected(w) = {} /\ Affected(w)' = {}
      BY <1>1, <2>1 DEF Jobs, IInv, OpsKnown, Affected, About
    <2>4. ~Stored(w) /\ ~Stored(w)' /\ Serving(w)
      BY <2>1, <2>3 DEF Stored, Serving
    <2>5. (InStore(x)' <=> InStore(x)) /\ (InStore(x) <=> x \in Users(copy))
      BY <1>9, <2>1, <2>2 DEF InStore
    <2>6. x \notin doubtful => (InStore(x) <=> x \in seated)
      <3>1. \A v \in Workers : Stored(v) /\ x \notin doubtful => x \notin Affected(v)
        BY <1>4, <1>5, <2>4
      <3> QED
        BY <1>1, <3>1 DEF SeatOf
    <2>7. /\ \A v \in Workers : alone' /\ Stored(v)' /\ x \in Affected(v)' =>
                (InStore(x)' <=> job'[v].op = "join")
          /\ \A v \in Workers : pc'[v] = "save" /\ x \in Affected(v)' =>
                (x \in Users(job'[v].copy) <=> job'[v].op = "join")
      BY <1>1, <1>2, <1>3, <2>3, <2>4, <2>5 DEF SeatOf
    <2>8. /\ \A v \in Workers : pc'[v] = "save" /\ x \notin doubtful' /\ x \notin Affected(v)' =>
                (x \in Users(job'[v].copy) <=> x \in seated')
          /\ \A v \in Workers : pc'[v] = "delete" /\ x \notin doubtful' /\ x \notin Affected(v)' =>
                x \notin seated'
      BY <1>1, <1>2, <2>1, <2>3, <2>5, <2>6 DEF SeatOf
    <2> QED
      BY <2>1, <2>5, <2>6, <2>7, <2>8 DEF SeatOf
  <1>10. CASE Acknowledge(w) /\ Stored(w) /\ store' = store
    <2>1. /\ pc'[w] = "idle" /\ seated' = SeatedBy(w) /\ (InStore(x)' <=> InStore(x))
          /\ doubtful' = IF alone THEN doubtful \ Affected(w) ELSE doubtful
          /\ Serving(w)
      BY <1>1, <1>4, <1>10 DEF Acknowledge, Finish, Goto, InStore
    <2>2. /\ x \in Affected(w) => (x \in seated' <=> job[w].op = "join")
          /\ x \notin Affected(w) => (x \in seated' <=> x \in seated)
      BY <1>10, <2>1, SeatedByMeaning
    <2>3. \A v \in Workers : pc'[v] # "idle" => v # w
      BY <2>1
    <2>4. ~Stored(w)'
      BY <2>1 DEF Stored
    <2>5. CASE alone
      <3>1. \A v \in Workers \ {w} : ~Serving(v)
        BY <1>5, <2>1, <2>5
      <3>2. \A v \in Workers : ~Stored(v)' /\ pc'[v] \notin {"save", "delete"}
        BY <1>2, <1>3, <1>4, <2>1, <2>4, <3>1
      <3>3. x \notin doubtful' => (InStore(x) <=> x \in seated')
        <4>1. CASE x \in Affected(w)
          BY <1>1, <1>10, <2>2, <2>5, <4>1 DEF SeatOf
        <4>2. CASE x \notin Affected(w)
          BY <1>1, <1>4, <2>1, <2>2, <3>1, <4>2 DEF SeatOf
        <4> QED
          BY <4>1, <4>2
      <3> QED
        BY <2>1, <3>2, <3>3 DEF SeatOf
    <2>6. CASE ~alone
      <3>1. x \notin doubtful' => x \notin doubtful /\ (x \in seated' <=> x \in seated)
        BY <1>6, <2>1, <2>2, <2>6
      <3>2. \A v \in Workers : x \notin doubtful /\ Serving(v) => x \notin Affected(v)
        BY <2>6 DEF Overlaps
      <3>3. x \notin doubtful' => (InStore(x)' <=> x \in seated')
        BY <1>1, <1>4, <2>1, <3>1, <3>2 DEF SeatOf
      <3>4. \A v \in Workers : pc'[v] = "save" /\ x \in Affected(v)' =>
                (x \in Users(job'[v].copy) <=> job'[v].op = "join")
        BY <1>1, <1>2, <2>1 DEF SeatOf
      <3>5. \A v \in Workers : pc'[v] = "save" /\ x \notin doubtful' /\ x \notin Affected(v)' =>
                (x \in Users(job'[v].copy) <=> x \in seated')
        BY <1>1, <1>2, <2>1, <3>1 DEF SeatOf
      <3>6. \A v \in Workers : pc'[v] = "delete" /\ x \notin doubtful' /\ x \notin Affected(v)' =>
                x \notin seated'
        BY <1>1, <1>2, <2>1, <3>1 DEF SeatOf
      <3> QED
        BY <1>2, <2>6, <3>3, <3>4, <3>5, <3>6 DEF SeatOf
    <2> QED
      BY <2>5, <2>6
  <1>11. CASE /\ Misinform(w)
             /\ \/ pc[w] = "save" /\ store' = job[w].copy
                \/ pc[w] = "delete" /\ store' = NoLobby
                \/ pc[w] = "refetch" /\ store' = store
    <2>1. /\ pc'[w] = "idle" /\ seated' = seated
          /\ doubtful' = doubtful \union Affected(w)
      <3>1. Misinform(w) /\ pc \in [Workers -> Stages]
        BY <1>1, <1>11
      <3> QED
        BY <3>1 DEF Misinform, Finish, Goto
    <2>2. Serving(w) /\ ~Stored(w)'
      BY <1>4, <1>11, <2>1 DEF Stored
    <2>3. x \notin doubtful' => x \notin doubtful /\ x \notin Affected(w)
      BY <2>1
    <2>4. x \notin doubtful' => \A v \in Workers : Stored(v) => x \notin Affected(v)
      BY <1>4, <1>5, <2>2, <2>3
    <2>5. x \notin doubtful' => (InStore(x)' <=> x \in seated)
      <3>1. CASE pc[w] = "save" /\ store' = job[w].copy
        BY <1>1, <2>3, <3>1 DEF SeatOf, InStore
      <3>2. CASE pc[w] = "delete" /\ store' = NoLobby
        BY <1>1, <2>3, <3>2 DEF SeatOf, InStore
      <3>3. CASE pc[w] = "refetch" /\ store' = store
        <4>1. InStore(x)' <=> InStore(x)
          BY <3>3 DEF InStore
        <4> QED
          BY <1>1, <2>3, <2>4, <4>1 DEF SeatOf
      <3> QED
        BY <1>11, <3>1, <3>2, <3>3
    <2>6. \A v \in Workers : pc'[v] = "save" /\ x \in Affected(v)' =>
              (x \in Users(job'[v].copy) <=> job'[v].op = "join")
      BY <1>1, <1>2, <2>1 DEF SeatOf
    <2>7. /\ \A v \in Workers : pc'[v] = "save" /\ x \notin doubtful' /\ x \notin Affected(v)' =>
                (x \in Users(job'[v].copy) <=> x \in seated')
          /\ \A v \in Workers : pc'[v] = "delete" /\ x \notin doubtful' /\ x \notin Affected(v)' =>
                x \notin seated'
      BY <1>1, <1>2, <2>1, <2>3 DEF SeatOf
    <2>8. \A v \in Workers : Stored(v)' => ~alone'
      BY <1>2, <1>3, <1>4, <1>5, <2>2
    <2> QED
      BY <2>1, <2>5, <2>6, <2>7, <2>8 DEF SeatOf
  <1>12. CASE /\ Goto(w, "refetch") /\ pc[w] = "publish"
             /\ UNCHANGED <<store, job, seated, doubtful>>
    <2>1. /\ pc'[w] = "refetch" /\ Affected(w)' = Affected(w)
          /\ (InStore(x)' <=> InStore(x)) /\ Stored(w)' /\ Stored(w)
      BY <1>1, <1>12 DEF Goto, Affected, InStore, Stored
    <2>2. \A v \in Workers : (Stored(v)' <=> Stored(v)) /\ Affected(v)' = Affected(v)
      BY <1>2, <1>3, <2>1
    <2>3. \A v \in Workers : /\ (pc'[v] = "save") = (pc[v] = "save")
                             /\ (pc'[v] = "delete") = (pc[v] = "delete")
      BY <1>2, <1>12, <2>1
    <2> QED
      BY <1>1, <1>2, <1>12, <2>1, <2>2, <2>3 DEF SeatOf
  <1>13. CASE Finish(w) /\ ~Stored(w) /\ UNCHANGED <<store, seated, doubtful>>
    <2>1. /\ pc'[w] = "idle" /\ (InStore(x)' <=> InStore(x))
      BY <1>1, <1>13 DEF Finish, Goto, InStore
    <2>2. ~Stored(w)' /\ ~Stored(w)
      BY <1>13, <2>1 DEF Stored
    <2> QED
      BY <1>1, <1>2, <1>3, <1>13, <2>1, <2>2 DEF SeatOf
  <1> QED
    BY <1>7, <1>8, <1>9, <1>10, <1>11, <1>12, <1>13, WorkSeats

------------------------------------------------------------------------------
(* News.                                                                   *)

\* What the members lack, if nothing excuses it, is about to be published.
FeedInv ==
    /\ alone => \A w \in Workers : pc[w] = "publish" => store = job[w].copy
    /\ ~muddled /\ store # NoLobby /\ (\A w \in Workers : pc[w] # "publish") => feed = store

Announcing == \E w \in Workers : pc[w] = "publishCreated"
Revoking == \E w \in Workers : pc[w] = "publishDeleted"

\* A deletion that no other request meets ends the lobby for good, and the gauge
\* lacks what is still to be published.
GaugeInv ==
    /\ \A v, w \in Workers : pc[v] = "publishCreated" /\ pc[w] = "publishCreated" => v = w
    /\ ~miscounted =>
          /\ \A v, w \in Workers : Deleting(v) /\ Serving(w) => v = w
          /\ Revoking => store = NoLobby
          /\ store = NoLobby => \A w \in Workers : Serving(w) => pc[w] = "publishDeleted"
          /\ listed + (IF Announcing THEN 1 ELSE 0) = Gauge + (IF Revoking THEN 1 ELSE 0)

LEMMA InitNews == Init => Overlaps /\ FeedInv /\ GaugeInv
  <1> SUFFICES ASSUME Init PROVE Overlaps /\ FeedInv /\ GaugeInv
    OBVIOUS
  <1>1. PICK creator \in Workers :
            pc = [w \in Workers |-> IF w = creator THEN "publishCreated" ELSE "idle"]
    BY DEF Init
  <1>2. /\ alone /\ feed = store /\ listed = 0 /\ store \in SUBSET Entries
    BY DEF Init, Created, AddPlayer, Entries
  <1>3. \A w \in Workers : ~Serving(w)
    BY <1>1 DEF Serving
  <1>4. Announcing /\ ~Revoking /\ Gauge = 1
    BY <1>1, <1>2 DEF Announcing, Revoking, Gauge
  <1>5. Overlaps /\ FeedInv
    BY <1>1, <1>2, <1>3 DEF Overlaps, FeedInv
  <1>6. GaugeInv
    BY <1>1, <1>2, <1>3, <1>4 DEF GaugeInv
  <1> QED
    BY <1>5, <1>6

LEMMA AcceptNews ==
    ASSUME IInv, Overlaps, FeedInv, GaugeInv, NEW w \in Workers,
           NEW stage \in {"save", "delete", "reload"}, NEW op, NEW u \in People, NEW copy, NEW r,
           Accept(w, stage, op, u, copy, r)
    PROVE  FeedInv' /\ GaugeInv'
  <1>1. /\ pc[w] = "idle" /\ pc'[w] = stage
        /\ \A v \in Workers \ {w} :
              pc'[v] = pc[v] /\ job'[v] = job[v] /\ Serving(v)' = Serving(v)
        /\ alone' => \A v \in Workers : ~Serving(v)
    BY AcceptOverlaps
  <1>2. /\ store # NoLobby /\ UNCHANGED <<store, feed, listed>>
        /\ muddled => muddled'
        /\ miscounted => miscounted'
        /\ ~miscounted' => /\ stage = "delete" => \A v \in Workers : ~Serving(v)
                           /\ \A v \in Workers : Serving(v) => ~Deleting(v)
    <2> DEFINE others == {v \in Workers : Serving(v)}
    <2>1. store # NoLobby /\ UNCHANGED <<store, feed, listed>>
      BY DEF Accept
    <2>2. muddled' = (muddled \/ others # {})
      BY DEF Accept
    <2>3. miscounted' = \/ miscounted
                        \/ stage = "delete" /\ others # {}
                        \/ \E v \in others : Deleting(v)
      BY DEF Accept
    <2> QED
      BY <2>1, <2>2, <2>3
  <1>3. \A v \in Workers : pc[v] \in {"publish", "delete", "publishDeleted"} => Serving(v)
    BY DEF Serving
  <1>4. FeedInv'
    <2>1. \A v \in Workers : alone' => pc'[v] # "publish"
      BY <1>1, <1>3
    <2>2. (\A v \in Workers : pc'[v] # "publish") => \A v \in Workers : pc[v] # "publish"
      BY <1>1
    <2> QED
      BY <1>2, <2>1, <2>2 DEF FeedInv
  <1>5. GaugeInv'
    <2>1. (Announcing' <=> Announcing) /\ (Revoking' <=> Revoking) /\ Gauge' = Gauge
      BY <1>1, <1>2 DEF Announcing, Revoking, Gauge
    <2>2. \A v, x \in Workers : pc'[v] = "publishCreated" /\ pc'[x] = "publishCreated" => v = x
      BY <1>1 DEF GaugeInv
    <2>3. ASSUME ~miscounted', NEW v \in Workers, NEW x \in Workers, Deleting(v)', Serving(x)'
          PROVE  v = x
      BY <1>1, <1>2, <1>3, <2>3 DEF Deleting
    <2> QED
      BY <1>2, <2>1, <2>2, <2>3 DEF GaugeInv
  <1> QED
    BY <1>4, <1>5

LEMMA RequestNews ==
    ASSUME IInv, Overlaps, FeedInv, GaugeInv, NEW w \in Workers, NEW u \in People, Request(w, u)
    PROVE  Overlaps' /\ FeedInv' /\ GaugeInv'
  <1>1. PICK stage \in {"save", "delete", "reload"} :
            \E op, copy, r : Accept(w, stage, op, u, copy, r)
    <2>1. CASE JoinLobby(w, u)
      BY <2>1 DEF JoinLobby
    <2>2. CASE LeaveLobby(w, u)
      <3> DEFINE stage == IF IsEmpty(RemovePlayer(store, u)) THEN "delete" ELSE "save"
      <3>1. Accept(w, stage, "leave", u, RemovePlayer(store, u), FALSE)
        BY <2>2 DEF LeaveLobby
      <3>2. stage \in {"save", "delete", "reload"}
        OBVIOUS
      <3> HIDE DEF stage
      <3> QED
        BY <3>1, <3>2
    <2>3. CASE ToggleReady(w, u)
      BY <2>3 DEF ToggleReady
    <2>4. CASE DeleteLobby(w, u)
      BY <2>4 DEF DeleteLobby
    <2> QED
      BY <2>1, <2>2, <2>3, <2>4 DEF Request
  <1>2. PICK op, copy, r : Accept(w, stage, op, u, copy, r)
    BY <1>1
  <1>3. Overlaps'
    BY <1>2, AcceptOverlaps
  <1> QED
    BY <1>2, <1>3, AcceptNews

LEMMA WorkFeed ==
    ASSUME IInv, Overlaps, FeedInv, NEW w \in Workers, Work(w)
    PROVE  FeedInv'
  <1>1. /\ UNCHANGED alone
        /\ \A v \in Workers \ {w} : pc'[v] = pc[v] /\ job'[v] = job[v]
    BY WorkLocal
  <1>2. /\ pc \in [Workers -> Stages] /\ job \in [Workers -> Jobs]
        /\ job[w].copy \in SUBSET Entries
    BY DEF IInv, TypeOK, Jobs
  <1>3. \A v \in Workers : alone /\ Serving(w) /\ pc[v] = "publish" => v = w
    BY DEF Overlaps, Serving
  \* Steps that leave the store, and publish nothing that was about to be.
  <1>4. ASSUME UNCHANGED <<store, feed, muddled>>, pc[w] # "publish", pc'[w] # "publish"
        PROVE  FeedInv'
    <2>1. (\A v \in Workers : pc'[v] # "publish") <=> (\A v \in Workers : pc[v] # "publish")
      BY <1>1, <1>4
    <2>2. \A v \in Workers : pc'[v] = "publish" => pc[v] = "publish" /\ job'[v] = job[v]
      BY <1>1, <1>4
    <2> QED
      BY <1>1, <1>4, <2>1, <2>2 DEF FeedInv
  <1>5. ASSUME Finish(w) PROVE pc'[w] = "idle"
    BY <1>2, <1>5 DEF Finish, Goto
  <1>6. CASE SetPlayerReady(w)
    <2>1. UNCHANGED <<store, feed, muddled>> /\ pc[w] = "reload"
      BY <1>6 DEF SetPlayerReady
    <2>2. pc'[w] \in {"idle", "save"}
      BY <1>2, <1>5, <1>6 DEF SetPlayerReady, Goto
    <2> QED
      BY <1>4, <2>1, <2>2
  <1>7. CASE Save(w)
    <2>1. /\ pc[w] = "save" /\ pc'[w] = "publish" /\ store' = job[w].copy /\ job' = job
      BY <1>2, <1>7 DEF Save, Goto
    <2>2. Serving(w)
      BY <2>1 DEF Serving
    <2>3. \A v \in Workers : alone' /\ pc'[v] = "publish" => v = w
      BY <1>1, <1>3, <2>2
    <2> QED
      BY <2>1, <2>3 DEF FeedInv
  <1>8. CASE DeleteKey(w)
    <2>1. /\ pc[w] = "delete" /\ pc'[w] = "publishDeleted" /\ store' = NoLobby
      BY <1>2, <1>8 DEF DeleteKey, Goto
    <2>2. Serving(w)
      BY <2>1 DEF Serving
    <2>3. \A v \in Workers : alone' => pc'[v] # "publish"
      BY <1>1, <1>3, <2>1, <2>2
    <2> QED
      BY <2>1, <2>3 DEF FeedInv
  <1>9. CASE StoreFails(w)
    BY <1>4, <1>5, <1>9 DEF StoreFails
  <1>10. CASE StoreAnswerLost(w)
    <2>1. /\ pc[w] \in {"save", "delete"} /\ pc'[w] = "idle"
          /\ muddled' \/ store' = NoLobby
      BY <1>5, <1>10 DEF StoreAnswerLost, Misinform
    <2>2. Serving(w)
      BY <2>1 DEF Serving
    <2>3. \A v \in Workers : alone' => pc'[v] # "publish"
      BY <1>1, <1>3, <2>1, <2>2
    <2> QED
      BY <2>1, <2>3 DEF FeedInv
  <1>11. CASE PublishUpdated(w) \/ PublishUpdatedFails(w)
    <2>1. /\ pc[w] = "publish" /\ store' = store /\ AfterNotice(w)
          /\ (feed' = job[w].copy /\ muddled' = (muddled /\ ~alone)) \/ muddled'
      BY <1>11 DEF PublishUpdated, PublishUpdatedFails
    <2>2. pc'[w] \in {"idle", "refetch"}
      BY <1>2, <1>5, <2>1 DEF AfterNotice, Acknowledge, Goto
    <2>3. alone => \A v \in Workers : pc'[v] # "publish"
      <3>1. Serving(w)
        BY <2>1 DEF Serving
      <3> QED
        BY <1>1, <1>3, <2>2, <3>1
    <2>4. ~alone => muddled
      BY <2>1 DEF Overlaps, Serving
    <2>5. ~muddled' => feed' = store'
      BY <2>1, <2>4 DEF FeedInv
    <2> QED
      BY <1>1, <2>3, <2>5 DEF FeedInv
  <1>12. CASE PublishDeleted(w) \/ PublishCreated(w) \/ PublishGaugeFails(w)
    <2>1. /\ pc[w] # "publish" /\ Finish(w) /\ UNCHANGED <<store, feed, muddled>>
      BY <1>12 DEF PublishDeleted, PublishCreated, PublishGaugeFails, Acknowledge
    <2> QED
      BY <1>4, <1>5, <2>1
  <1>13. CASE Refetch(w) \/ RefetchFails(w)
    <2>1. /\ pc[w] # "publish" /\ Finish(w) /\ UNCHANGED <<store, feed, muddled>>
      BY <1>13 DEF Refetch, RefetchFails, Acknowledge, Misinform
    <2> QED
      BY <1>4, <1>5, <2>1
  <1> QED
    BY <1>6, <1>7, <1>8, <1>9, <1>10, <1>11, <1>12, <1>13 DEF Work

LEMMA WorkGauge ==
    ASSUME IInv, GaugeInv, NEW w \in Workers, Work(w)
    PROVE  GaugeInv'
  <1>1. /\ pc[w] # "idle" /\ (Serving(w)' => Serving(w))
        /\ \A v \in Workers \ {w} : pc'[v] = pc[v] /\ Serving(v)' = Serving(v)
    BY WorkLocal
  <1>2. /\ pc \in [Workers -> Stages] /\ job \in [Workers -> Jobs] /\ listed \in Int
        /\ job[w].copy \in SUBSET Entries /\ NoLobby \notin SUBSET Entries
    BY DEF IInv, TypeOK, Jobs
  <1>3. ASSUME Finish(w) PROVE pc'[w] = "idle" /\ ~Serving(w)'
    BY <1>2, <1>3 DEF Finish, Goto, Serving
  <1>4. \A v \in Workers : pc[v] \in {"reload", "save", "publish", "refetch", "delete", "publishDeleted"}
            => Serving(v)
    BY DEF Serving
  \* Steps that publish nothing for the gauge and keep the lobby as it is.
  <1>5. ASSUME Gauge' = Gauge, (store' = NoLobby) <=> (store = NoLobby),
               UNCHANGED <<listed, miscounted>>,
               pc[w] \notin {"publishCreated", "publishDeleted"},
               pc'[w] \notin {"publishCreated", "publishDeleted", "delete"},
               store # NoLobby \/ ~Serving(w)'
        PROVE  GaugeInv'
    <2>1. (Announcing' <=> Announcing) /\ (Revoking' <=> Revoking)
      BY <1>1, <1>5 DEF Announcing, Revoking
    <2>2. \A v \in Workers : pc'[v] = "publishCreated" => pc[v] = "publishCreated"
      BY <1>1, <1>5
    <2>3. \A v \in Workers : (Deleting(v)' => Deleting(v)) /\ (Serving(v)' => Serving(v))
      BY <1>1, <1>5 DEF Deleting
    <2>4. ~miscounted' /\ store' = NoLobby =>
              \A v \in Workers : Serving(v)' => pc'[v] = "publishDeleted"
      BY <1>1, <1>5 DEF GaugeInv
    <2> QED
      BY <1>5, <2>1, <2>2, <2>3, <2>4 DEF GaugeInv
  <1>6. CASE SetPlayerReady(w)
    <2>1. UNCHANGED <<store, listed, miscounted>> /\ pc[w] = "reload"
      BY <1>6 DEF SetPlayerReady
    <2>2. /\ pc'[w] \in {"idle", "save"}
          /\ store # NoLobby \/ ~Serving(w)'
      BY <1>2, <1>3, <1>6 DEF SetPlayerReady, Goto
    <2> QED
      BY <1>5, <2>1, <2>2 DEF Gauge
  \* Without a deletion in its way, a save finds the lobby stored.
  <1>7. ASSUME pc[w] = "save", store' = job[w].copy, UNCHANGED <<listed, miscounted>>,
               pc'[w] \in {"idle", "publish"}
        PROVE  GaugeInv'
    <2>1. store' # NoLobby
      BY <1>2, <1>7
    <2>2. CASE store # NoLobby
      BY <1>5, <1>7, <2>1, <2>2 DEF Gauge
    <2>3. CASE store = NoLobby
      <3>1. miscounted
        BY <1>4, <1>7, <2>3 DEF GaugeInv
      <3>2. \A v \in Workers : pc'[v] = "publishCreated" => pc[v] = "publishCreated"
        BY <1>1, <1>7
      <3> QED
        BY <1>7, <3>1, <3>2 DEF GaugeInv
    <2> QED
      BY <2>2, <2>3
  <1>8. CASE Save(w)
    BY <1>2, <1>7, <1>8 DEF Save, Goto
  <1>9. CASE DeleteKey(w)
    <2>1. /\ pc[w] = "delete" /\ pc'[w] = "publishDeleted" /\ store' = NoLobby
          /\ UNCHANGED <<listed, miscounted>>
      BY <1>2, <1>9 DEF DeleteKey, Goto
    <2>2. \A v \in Workers : pc'[v] = "publishCreated" => pc[v] = "publishCreated"
      BY <1>1, <2>1
    <2>3. ASSUME ~miscounted
          PROVE  /\ store # NoLobby /\ ~Revoking
                 /\ \A v \in Workers \ {w} : ~Serving(v)
      BY <1>4, <2>1, <2>3 DEF GaugeInv, Deleting
    <2>4. Revoking' /\ (Announcing' <=> Announcing) /\ Gauge' = 0
      BY <1>1, <2>1 DEF Revoking, Announcing, Gauge
    <2>5. ASSUME ~miscounted
          PROVE  listed' + (IF Announcing' THEN 1 ELSE 0) = Gauge' + (IF Revoking' THEN 1 ELSE 0)
      BY <1>2, <2>1, <2>3, <2>4, <2>5 DEF GaugeInv, Gauge
    <2>6. ASSUME ~miscounted, NEW v \in Workers, Serving(v)'
          PROVE  v = w
      BY <1>1, <2>3, <2>6
    <2>7. \A v \in Workers : Deleting(v)' => Serving(v)'
      BY DEF Deleting, Serving
    <2> QED
      BY <2>1, <2>2, <2>5, <2>6, <2>7 DEF GaugeInv
  <1>10. CASE StoreFails(w)
    BY <1>3, <1>5, <1>10 DEF StoreFails, Gauge
  <1>11. CASE StoreAnswerLost(w)
    <2>1. CASE pc[w] = "save"
      BY <1>3, <1>7, <1>11, <2>1 DEF StoreAnswerLost, Misinform
    <2>2. CASE pc[w] # "save"
      <3>1. miscounted' /\ pc'[w] = "idle"
        BY <1>3, <1>11, <2>2 DEF StoreAnswerLost, Misinform
      <3>2. \A v \in Workers : pc'[v] = "publishCreated" => pc[v] = "publishCreated"
        BY <1>1, <3>1
      <3> QED
        BY <3>1, <3>2 DEF GaugeInv
    <2> QED
      BY <2>1, <2>2
  <1>12. CASE PublishUpdated(w) \/ PublishUpdatedFails(w)
    <2>1. /\ pc[w] = "publish" /\ AfterNotice(w) /\ UNCHANGED <<store, listed, miscounted>>
      BY <1>12 DEF PublishUpdated, PublishUpdatedFails
    <2>2. pc'[w] \in {"idle", "refetch"}
      BY <1>2, <1>3, <2>1 DEF AfterNotice, Acknowledge, Goto
    <2>3. CASE ~miscounted
      <3>1. store # NoLobby
        BY <1>4, <2>1, <2>3 DEF GaugeInv
      <3> QED
        BY <1>5, <2>1, <2>2, <3>1 DEF Gauge
    <2>4. CASE miscounted
      <3>1. \A v \in Workers : pc'[v] = "publishCreated" => pc[v] = "publishCreated"
        BY <1>1, <2>2
      <3> QED
        BY <2>1, <2>4, <3>1 DEF GaugeInv
    <2> QED
      BY <2>3, <2>4
  <1>13. CASE PublishDeleted(w)
    <2>1. /\ pc[w] = "publishDeleted" /\ listed' = listed - 1 /\ pc'[w] = "idle" /\ ~Serving(w)'
          /\ UNCHANGED <<store, miscounted>>
      BY <1>3, <1>13 DEF PublishDeleted, Acknowledge
    <2>2. \A v \in Workers : pc'[v] = "publishCreated" => pc[v] = "publishCreated"
      BY <1>1, <2>1
    <2>3. ASSUME ~miscounted
          PROVE  store = NoLobby /\ \A v \in Workers \ {w} : ~Serving(v)
      BY <2>1, <2>3 DEF GaugeInv, Deleting, Revoking
    <2>4. ASSUME ~miscounted, NEW v \in Workers
          PROVE  ~Serving(v)' /\ ~Deleting(v)'
      BY <1>1, <2>1, <2>3, <2>4 DEF Serving, Deleting
    <2>5. /\ Revoking /\ (Announcing' <=> Announcing) /\ Gauge' = Gauge
          /\ ~miscounted => ~Revoking'
      BY <1>1, <2>1, <2>4 DEF Revoking, Announcing, Gauge, Deleting
    <2>6. ASSUME ~miscounted
          PROVE  listed' + (IF Announcing' THEN 1 ELSE 0) = Gauge' + (IF Revoking' THEN 1 ELSE 0)
      BY <1>2, <2>1, <2>5, <2>6 DEF GaugeInv, Gauge
    <2> QED
      BY <2>1, <2>2, <2>4, <2>5, <2>6 DEF GaugeInv
  <1>14. CASE PublishCreated(w)
    <2>1. /\ pc[w] = "publishCreated" /\ listed' = listed + 1 /\ pc'[w] = "idle" /\ ~Serving(w)'
          /\ UNCHANGED <<store, miscounted>>
      BY <1>3, <1>14 DEF PublishCreated
    <2>2. \A v \in Workers : pc'[v] # "publishCreated"
      BY <1>1, <2>1 DEF GaugeInv
    <2>3. Announcing /\ ~Announcing' /\ (Revoking' <=> Revoking) /\ Gauge' = Gauge
      BY <1>1, <2>1, <2>2 DEF Revoking, Announcing, Gauge
    <2>4. ASSUME ~miscounted
          PROVE  listed' + (IF Announcing' THEN 1 ELSE 0) = Gauge' + (IF Revoking' THEN 1 ELSE 0)
      BY <1>2, <2>1, <2>3, <2>4 DEF GaugeInv, Gauge
    <2>5. \A v \in Workers : (Deleting(v)' => Deleting(v)) /\ (Serving(v)' => Serving(v) /\ pc'[v] = pc[v])
      BY <1>1, <2>1 DEF Deleting
    <2>6. (Revoking' => Revoking) /\ store' = store /\ miscounted' = miscounted
      BY <2>1, <2>3
    <2> QED
      BY <2>2, <2>4, <2>5, <2>6 DEF GaugeInv
  <1>15. CASE PublishGaugeFails(w)
    <2>1. miscounted' /\ pc'[w] = "idle"
      BY <1>3, <1>15 DEF PublishGaugeFails, Acknowledge
    <2>2. \A v \in Workers : pc'[v] = "publishCreated" => pc[v] = "publishCreated"
      BY <1>1, <2>1
    <2> QED
      BY <2>1, <2>2 DEF GaugeInv
  <1>16. CASE Refetch(w) \/ RefetchFails(w)
    <2>1. /\ pc[w] = "refetch" /\ Finish(w) /\ UNCHANGED <<store, listed, miscounted>>
      BY <1>16 DEF Refetch, RefetchFails, Acknowledge, Misinform
    <2> QED
      BY <1>3, <1>5, <2>1 DEF Gauge
  <1> QED
    BY <1>6, <1>8, <1>9, <1>10, <1>11, <1>12, <1>13, <1>14, <1>15, <1>16 DEF Work

------------------------------------------------------------------------------

SyncInv == Overlaps /\ SeatInv /\ FeedInv /\ GaugeInv

\* However requests interleave and whichever Redis calls fail: the stored seats
\* and those in every copy under way are the acknowledged ones for all who are
\* not in doubt, and the feed and the gauge lack only what is about to be
\* published or what an overlap or a lost notice excuses (lobbyService.go).
THEOREM SyncInvariance == Spec => []SyncInv
  <1>1. IInv /\ SyncInv /\ [Next]_vars => SyncInv'
    <2> SUFFICES ASSUME IInv, Overlaps, SeatInv, FeedInv, GaugeInv, [Next]_vars PROVE SyncInv'
      BY DEF SyncInv
    <2>1. CASE Next
      <3>1. PICK w \in Workers :
                Work(w) \/ (store # NoLobby /\ \E u \in People : Request(w, u))
        BY <2>1 DEF Next
      <3>2. CASE Work(w)
        BY <3>2, WorkOverlaps, WorkSeat, WorkFeed, WorkGauge DEF SyncInv
      <3>3. CASE store # NoLobby /\ \E u \in People : Request(w, u)
        BY <3>3, RequestSeat, RequestNews DEF SyncInv
      <3> QED
        BY <3>1, <3>2, <3>3
    <2>2. CASE UNCHANGED vars
      <3>1. Overlaps'
        BY <2>2 DEF vars, Overlaps, Serving, Affected
      <3>2. SeatInv'
        BY <2>2 DEF vars, SeatInv, SeatOf, Stored, Affected, InStore
      <3>3. FeedInv' /\ GaugeInv'
        BY <2>2 DEF vars, FeedInv, GaugeInv, Serving, Deleting, Announcing, Revoking, Gauge
      <3> QED
        BY <3>1, <3>2, <3>3 DEF SyncInv
    <2> QED
      BY <2>1, <2>2
  <1>2. Init => SyncInv
    BY InitSeat, InitNews DEF SyncInv
  <1> QED
    BY <1>1, <1>2, Invariance, PTL DEF Spec

\* Whoever was told to be in a lobby is in it, and nobody else, unless their own
\* request overlapped another or was stored and then answered with an error:
\* failing Redis calls and other people's overlapping requests cost nobody a
\* seat (lobbyService.go, JoinLobby, LeaveLobby; lobbyHandler.go:172-175).
THEOREM SeatsAsAcknowledged == Spec => []AcknowledgedAreSeated
  <1>1. SyncInv => AcknowledgedAreSeated
    <2> SUFFICES ASSUME SyncInv, Quiet, NEW x \in People \ doubtful
                 PROVE  InStore(x) <=> x \in seated
      BY DEF AcknowledgedAreSeated
    <2>1. SeatOf(x) /\ \A w \in Workers : ~Stored(w)
      BY DEF SyncInv, SeatInv, Quiet, Stored
    <2> QED
      BY <2>1 DEF SeatOf
  <1> QED
    BY <1>1, SyncInvariance, PTL

\* The members' roster is the stored one and the gauge counts the lobby, once
\* nothing is under way, unless an overlap or a lost notice excuses it
\* (lobbyService.go, the order of saving and publishing).
THEOREM NewsAsStored == Spec => []NewsInSync
  <1>1. IInv /\ SyncInv => NewsInSync
    <2> SUFFICES ASSUME IInv, SyncInv, Quiet
                 PROVE  /\ ~muddled /\ store # NoLobby => feed = store
                        /\ ~miscounted => listed = Gauge
      BY DEF NewsInSync, FeedInSync, GaugeInSync
    <2>1. ~Announcing /\ ~Revoking /\ \A w \in Workers : pc[w] # "publish"
      BY DEF Quiet, Announcing, Revoking
    <2>2. ~muddled /\ store # NoLobby => feed = store
      BY <2>1 DEF SyncInv, FeedInv
    <2>3. ~miscounted => listed = Gauge
      BY <2>1 DEF SyncInv, GaugeInv, Gauge, IInv, TypeOK
    <2> QED
      BY <2>2, <2>3
  <1> QED
    BY <1>1, Invariance, SyncInvariance, PTL
=============================================================================
