-------------------------------- MODULE MCWsHub --------------------------------
(* Instances of WsHub: whose connections there are, and what they open with. *)
EXTENDS WsHub

CONSTANTS c1, c2, u1, u2, lobbies, page

\* Two tabs of one user.
OneUser == [c \in {c1, c2} |-> u1]

\* One connection each.
TwoUsers == [c \in {c1, c2} |-> IF c = c1 THEN u1 ELSE u2]

\* user:<id> and chat:global are opened like global:lobbies.
OpenLobbies == <<lobbies>>
=============================================================================
