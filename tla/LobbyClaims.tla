---------------------------- MODULE LobbyClaims -----------------------------
(***************************************************************************)
(* What comments of the source say of the lobbies and the code does not    *)
(* do.  Each claim is one property, which TLC finds violated.              *)
(***************************************************************************)
EXTENDS LobbyProperties

(* Lobby.cpp:111: a game is prepared when all clients have voted.  The     *)
(* code compares the number of votes with the number of members, and       *)
(* removeClient leaves the vote of the client that goes.                   *)
PreparedWhenAllHaveVoted ==
    [][\A l \in Lobbies :
          lobbyState[l] = "WAITING" /\ lobbyState'[l] = "PREPARING" =>
              \A c \in Members(clients[l]) : ready[c]
      ]_vars

(* Lobby.h:219: a disconnected client is noted for removal unless it       *)
(* connects again.  A client that lost its connection while bets were      *)
(* taken and came back then is removed after the game all the same.        *)
ReturnedClientsStay ==
    [][\A l \in Lobbies, c \in Clients :
          lobbyState[l] = "FINISHED" /\ lobbyState'[l] = "WAITING"
              /\ c \in Members(clients[l]) /\ online[c] =>
                  c \in Members(clients'[l])
      ]_vars

(* Server.cpp:99-103 and 116: input that does not conform to the protocol  *)
(* makes the server close the connection.  A message that a lobby has      *)
(* queued is handled outside that try block.                               *)
BadMessagesCloseTheConnection ==
    [][\A l \in Lobbies, c \in Clients :
          HandleBadBet(l, c) => alive'
      ]_vars
=============================================================================
