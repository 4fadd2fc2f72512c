------------------------------- MODULE MCViews -------------------------------
(* Small instances of Views for TLC. *)
EXTENDS LobbyProperties, Views, TLC

(* Client objects are interchangeable. *)
Symmetry == Permutations(Clients)

(* Bound: only the first lobby plays.  The others are places to go to, for *)
(* one client at a time and without messages.                              *)
OthersWait ==
    \A l \in Lobbies \ {0} :
        /\ lobbyState[l] = "WAITING" /\ clientsReady[l] = 0
        /\ Len(clients[l]) <= 1 /\ unprocessedMessages[l] = << >>
=============================================================================
