--------------------------- MODULE LobbyProperties ---------------------------
(***************************************************************************)
(* What is checked and proved of the lobbies: invariants, action           *)
(* properties, liveness, and the refinement of module Tables.              *)
(***************************************************************************)
EXTENDS Lobby

(* Every variable keeps its type. *)
TypeOK ==
    /\ alive \in BOOLEAN
    /\ phase \in {"select", "erase", "disconnect", "handle"}
    /\ handling \in Lobbies
    /\ registered \in [Clients -> BOOLEAN]
    /\ online \in [Clients -> BOOLEAN]
    /\ ready \in [Clients -> BOOLEAN]
    /\ lobbyId \in [Clients -> Lobbies \union {NoLobby}]
    /\ lobbyState \in [Lobbies -> LobbyStates]
    /\ clients \in [Lobbies -> Seq(Clients)]
    /\ clientsReady \in [Lobbies -> Nat]
    /\ disconnectedClients \in [Lobbies -> SUBSET Clients]
    /\ unprocessedMessages \in [Lobbies -> Seq(Messages)]
    /\ confirmedClients \in [Lobbies -> Seq(Clients)]
    /\ autoSkip \in [Lobbies -> SUBSET Clients]
    /\ blackjack \in [Lobbies -> [players : Seq(Clients), currentPlayerIndex : Nat,
                                  gameRunning : BOOLEAN]]
    /\ lastGameUpdate \in [Lobbies -> Nat]
    /\ turnRequest \in [Lobbies -> SUBSET Clients]

(* Lobby and GameController change the state, the game pointer and the list *)
(* of bets in different functions: still the game pointer is set exactly in *)
(* the states that dereference it, players is a copy of confirmedClients    *)
(* for as long as it lasts, and the game runs exactly as long as the index  *)
(* is inside the vector.                                                    *)
GameConsistent ==
    \A l \in Lobbies :
        LET g == blackjack[l]
        IN  /\ InGame(l) <=> g # NoGame
            /\ InGame(l) => g.players = confirmedClients[l] /\ Len(g.players) >= 2
            /\ g.gameRunning <=> g.currentPlayerIndex < Len(g.players)
            /\ lobbyState[l] = "FINISHED" => ~g.gameRunning

(* No bet and no auto-skip of an earlier game is left when a lobby waits   *)
(* for the next one.                                                       *)
NothingLeftOver ==
    \A l \in Lobbies :
        /\ lobbyState[l] = "WAITING" => confirmedClients[l] = << >>
        /\ ~InGame(l) => autoSkip[l] = {}

(* A member of the lobby is never skipped without being given its time:    *)
(* only those who left the game are.                                       *)
AutoSkippedHaveLeft ==
    \A l \in Lobbies : autoSkip[l] \intersect Members(clients[l]) = {}

(* Whoever is in the lobby during a game plays in it: startGame lets no    *)
(* member without a bet through.                                           *)
MembersPlay ==
    \A l \in Lobbies :
        InGame(l) => Members(clients[l]) \subseteq Members(blackjack[l].players)

(* The lobby that a client's lobbyId names has it as a member, so the      *)
(* state that restoreClientState restores is there.                        *)
LobbyIdIsASeat ==
    \A c \in Clients :
        lobbyId[c] # NoLobby => c \in Members(clients[lobbyId[c]])

(* A member without a connection is on the list of those to be removed     *)
(* when the game is over, so its seat is not lost to the lobby.            *)
OfflineAreScheduled ==
    \A c \in Clients :
        registered[c] /\ ~online[c] /\ lobbyId[c] # NoLobby
            => c \in disconnectedClients[lobbyId[c]]

(* However the turn came to a player (start, turn, skip, reconnection), if *)
(* it is connected and in the lobby it holds a TURN request for it.        *)
CurrentPlayerPrompted ==
    \A l \in Lobbies :
        LET c == CurrentPlayer(blackjack[l])
        IN  blackjack[l].gameRunning =>
                (online[c] /\ registered[c] /\ lobbyId[c] = l => turnRequest[l] = {c})

Turn(l) == blackjack[l].currentPlayerIndex

(* While a game runs the turn passes to the next player, never back or over *)
(* one, and only for a message of the player whose turn it is or in the     *)
(* lobby's own step once its messages are handled.                          *)
TurnsInOrder ==
    [][\A l \in Lobbies :
          blackjack[l].gameRunning /\ blackjack'[l] # blackjack[l] =>
              /\ Turn(l)' = Turn(l) + 1
              /\ blackjack'[l].players = blackjack[l].players
              /\ \/ unprocessedMessages[l] = << >>
                 \/ Head(unprocessedMessages[l]).client = CurrentPlayer(blackjack[l])
      ]_vars

(* A member loses its seat in a running game by its own message only: a    *)
(* lost connection, a time limit or another client's departure keep it.    *)
SeatsAreKept ==
    [][\A l \in Lobbies, c \in Clients :
          lobbyState[l] = "IN_GAME" /\ c \in Members(clients[l])
              /\ c \notin Members(clients[l])' =>
                  \/ LeaveLobby(c)
                  \/ HandleDecline(l, c)
      ]_vars

(* After a game the members start with no vote counted and no one marked   *)
(* as ready, so the next game is not prepared on votes for the last one.   *)
VotesStartOver ==
    [][\A l \in Lobbies :
          lobbyState[l] # "WAITING" /\ lobbyState'[l] = "WAITING" =>
              clientsReady'[l] = 0 /\ \A c \in Members(clients'[l]) : ~ready'[c]
      ]_vars

(* Whatever the players do, a game that is being prepared is started or    *)
(* called off, a game comes to its end and its results make way for the    *)
(* next one, unless the process terminates.                                *)
GamesEnd ==
    \A l \in Lobbies : (alive /\ lobbyState[l] # "WAITING") ~> (~alive \/ lobbyState[l] = "WAITING")

(* The seat of a player who lost its connection in a game is not blocked   *)
(* for good: the player returns, or the seat is freed.                     *)
OfflineSeatsAreFreed ==
    \A l \in Lobbies, c \in Clients :
        (InGame(l) /\ c \in disconnectedClients[l] /\ ~online[c])
            ~> (~alive \/ online[c] \/ c \notin Members(clients[l]))

(* How many players of lobby l's game have had their turn: the index goes  *)
(* on past the end when it is compared with what lies there.               *)
TurnsTaken(l) ==
    IF blackjack[l].gameRunning THEN Turn(l) ELSE Len(blackjack[l].players)

House ==
    INSTANCE Tables WITH
        Players <- Clients, TableIds <- Lobbies, open <- alive, stage <- lobbyState,
        seats <- [l \in Lobbies |-> blackjack[l].players],
        turn <- [l \in Lobbies |-> TurnsTaken(l)]

(* The lobbies, with all their connections, queues and stale messages,     *)
(* implement what module Tables promises.                                  *)
LobbiesAreTables == House!Spec

(* A client's session: an erased client has none, whatever lobby it is in. *)
SessionStatus(c) ==
    IF ~registered[c] THEN "unknown" ELSE IF online[c] THEN "online" ELSE "offline"

Part ==
    CASE phase = "select" -> "read"
      [] phase = "erase" -> "forget"
      [] phase = "disconnect" -> "drop"
      [] phase = "handle" -> "serve"

Users ==
    INSTANCE Sessions WITH
        Users <- Clients, step <- Part, status <- [c \in Clients |-> SessionStatus(c)]

(* What the lobbies take for granted of connections is what the server's   *)
(* loop over descriptors implements too: module Server has the same        *)
(* property.                                                               *)
LobbiesKeepSessions == Users!Spec
==============================================================================
