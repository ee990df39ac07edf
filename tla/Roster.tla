------------------------------- MODULE Roster -------------------------------
(***************************************************************************)
(* The lobby aggregate (internal/lobby/lobby.go): the roster of one lobby   *)
(* and what a request makes of its copy of it.                             *)
(*                                                                         *)
(* A roster is a set of entries: an array in the code, whose order matters *)
(* to no operation.                                                        *)
(***************************************************************************)
EXTENDS Naturals, FiniteSets

CONSTANTS
    People,         \* signed-in users
    PlayerLimit,
    NoLobby         \* the key does not exist

Entries == [user : People, ready : BOOLEAN]

ASSUME NoLobbyAssumption == \A roster \in SUBSET Entries : NoLobby # roster

Users(roster) == {e.user : e \in roster}

\* Mutant: the limit is compared after the player was added.
CanJoinOneMore(roster, u) ==
    Cardinality(roster) <= PlayerLimit /\ u \notin Users(roster)

CanJoin(roster, u) == Cardinality(roster) < PlayerLimit /\ u \notin Users(roster)

AddPlayer(roster, u) == roster \union {[user |-> u, ready |-> FALSE]}

RemovePlayer(roster, u) == {e \in roster : e.user # u}

SetReady(roster, u, r) ==
    {IF e.user = u THEN [user |-> u, ready |-> r] ELSE e : e \in roster}

IsEmpty(roster) == roster = {}

\* What every stored lobby should be.
Sound(roster) ==
    /\ roster # {}
    /\ IsFiniteSet(roster) /\ Cardinality(roster) <= PlayerLimit
    /\ \A e, f \in roster : e.user = f.user => e = f
=============================================================================
