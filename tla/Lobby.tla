-------------------------------- MODULE Lobby --------------------------------
(***************************************************************************)
(* The lobbies of the blackjack server: Lobby, its GameController and its  *)
(* LobbyMessageHandler, with the calls that Server and MessageHandler make *)
(* into them.  The server is one thread that loops for ever over           *)
(*                                                                         *)
(*   "select"      reading the sockets: logins, joins and leaves happen at *)
(*                 once, every other message is queued in its lobby;       *)
(*   "erase"       Server::disconnectClients: clients that have been       *)
(*                 silent for long are erased, and after that              *)
(*   "disconnect"  closed sockets are taken from their clients;            *)
(*   "handle"      Lobby::handleLobby of each lobby in turn: drain the     *)
(*                 queue, then one step of the lobby's state machine.      *)
(*                                                                         *)
(* Cards and money are left to module Hands: here a hit busts or does not. *)
(* A deadline is a choice: when a lobby is handled its time limit may have *)
(* expired or not.                                                         *)
(***************************************************************************)
EXTENDS Integers, Sequences, FiniteSets, Vector

CONSTANTS
    Clients,                \* the Client objects, identified by pointer
    LobbyCount,             \* number of lobbies (a command line argument)
    MAX_CLIENTS_PER_LOBBY,  \* Lobby::limit
    MessageTypes,           \* the kinds of message that clients queue
    MaxMessages,            \* bound: messages queued in a lobby in one round
    MaxReady,               \* bound: votes after which no more are sent
    MaxConfirmed            \* bound: bets after which no more are sent

(* What a client may queue in its lobby.  badBet is a CONFIRM_PARTICIPATION *)
(* whose bet is missing or no number, badTurn a TURN whose turnType is      *)
(* missing or unknown.                                                      *)
TurnTypes == {"stand", "hit", "doubleDown", "badTurn"}
AllMessageTypes == {"ready", "confirm", "badBet", "decline"} \union TurnTypes

ASSUME LobbyCountAssumption == LobbyCount \in Nat \ {0}
ASSUME LimitAssumption == MAX_CLIENTS_PER_LOBBY \in Nat
ASSUME MessageTypesAssumption == MessageTypes \subseteq AllMessageTypes
ASSUME BoundsAssumption ==
    MaxMessages \in Nat /\ MaxReady \in Nat /\ MaxConfirmed \in Nat

Lobbies == 0 .. LobbyCount - 1
NoLobby == -1
LobbyStates == {"WAITING", "PREPARING", "IN_GAME", "FINISHED"}
Messages == [client : Clients, type : MessageTypes]

VARIABLES
    alive,               \* FALSE once the process has been terminated
    phase,               \* where the server's loop is
    handling,            \* the lobby that the "handle" phase is at
    \* Client
    registered,          \* the client is in Server::clients
    online,              \* clientSocket # -1
    ready,               \* the flag shown to the other players
    lobbyId,             \* the lobby the client believes to be in
    \* Lobby
    lobbyState,
    clients,             \* the members, in order of arrival
    clientsReady,        \* number of votes for a start
    disconnectedClients, \* to be removed when the game is over
    unprocessedMessages, \* the queue filled by "select", drained by "handle"
    \* GameController
    confirmedClients,    \* those who placed a bet, in order
    autoSkip,            \* those who left during the game
    blackjack,           \* the game, or NoGame for the null pointer
    lastGameUpdate,      \* the time stamp, as the turn it was taken in
    turnRequest          \* who holds a TURN request for the current turn, on
                         \* the connection that the client has now

serverVars == <<phase, handling>>
clientVars == <<registered, online, ready, lobbyId>>
lobbyVars == <<lobbyState, clients, clientsReady, disconnectedClients>>
gameVars == <<confirmedClients, autoSkip, blackjack, lastGameUpdate, turnRequest>>
vars == <<alive, serverVars, clientVars, lobbyVars, unprocessedMessages, gameVars>>

NoGame == [players |-> << >>, currentPlayerIndex |-> 0, gameRunning |-> FALSE]

Init ==
    /\ alive = TRUE
    /\ phase = "select"
    /\ handling = 0
    /\ registered = [c \in Clients |-> FALSE]
    /\ online = [c \in Clients |-> FALSE]
    /\ ready = [c \in Clients |-> FALSE]
    /\ lobbyId = [c \in Clients |-> NoLobby]
    /\ lobbyState = [l \in Lobbies |-> "WAITING"]
    /\ clients = [l \in Lobbies |-> << >>]
    /\ clientsReady = [l \in Lobbies |-> 0]
    /\ disconnectedClients = [l \in Lobbies |-> {}]
    /\ unprocessedMessages = [l \in Lobbies |-> << >>]
    /\ confirmedClients = [l \in Lobbies |-> << >>]
    /\ autoSkip = [l \in Lobbies |-> {}]
    /\ blackjack = [l \in Lobbies |-> NoGame]
    /\ lastGameUpdate = [l \in Lobbies |-> 0]
    /\ turnRequest = [l \in Lobbies |-> {}]

-----------------------------------------------------------------------------
(* The game, as far as the turn order goes.  Positions are 0-based in the  *)
(* code: players[i] is players[i + 1] here.                                *)

CurrentPlayer(g) == g.players[g.currentPlayerIndex + 1]

(* Faults: the dealer is taken for the last player; the turn goes round.   *)
MoveToNextPlayer_DealerIsLast(g) ==
    [g EXCEPT !.currentPlayerIndex = @ + 1,
              !.gameRunning = @ /\ g.currentPlayerIndex + 1 <= Len(g.players) - 2]
MoveToNextPlayer_Wraps(g) ==
    [g EXCEPT !.currentPlayerIndex = (@ + 1) % Len(g.players)]

(* Blackjack::moveToNextPlayer: past the last player the dealer plays and  *)
(* the game is over.                                                       *)
MoveToNextPlayer(g) ==
    [g EXCEPT !.currentPlayerIndex = @ + 1,
              !.gameRunning = @ /\ g.currentPlayerIndex + 1 # Len(g.players)]

(* Who holds a TURN request after one is sent to the current player of g:  *)
(* what is sent to the socket -1 of an offline client is lost.             *)
SendPlayerTurnRequest(g) ==
    {c \in Clients : g.gameRunning /\ c = CurrentPlayer(g) /\ online[c]}

(* Fault: any player may play at any time. *)
MayPlay_Anyone(g, c) == g.gameRunning => c \in Members(g.players)

(* players[currentPlayerIndex] == player.  Once the game is over the index *)
(* points past the vector, and what is read there may equal c.             *)
MayPlay(g, c) == g.gameRunning => c = CurrentPlayer(g)

(* What an accepted turn may do to g: a hit that does not bust and a       *)
(* double down after a hit, which is refused, leave the turn where it is.  *)
TurnOutcomes(g, type) ==
    {MoveToNextPlayer(g)} \union (IF type = "stand" THEN {} ELSE {g})

(* std::terminate or a null dereference: the process is gone. *)
Crash ==
    /\ alive' = FALSE
    /\ UNCHANGED <<serverVars, clientVars, lobbyVars, unprocessedMessages, gameVars>>

(* Faults: the client is skipped in later games too; the client keeps its  *)
(* place; the client keeps its lobbyId.                                    *)
RemoveClient_AlwaysSkips(l, c) ==
    /\ clients' = [clients EXCEPT ![l] = Without(@, {c})]
    /\ autoSkip' = [autoSkip EXCEPT ![l] = @ \union {c}]
    /\ lobbyId' = [lobbyId EXCEPT ![c] = NoLobby]
    /\ ready' = [ready EXCEPT ![c] = FALSE]
RemoveClient_KeepsSeat(l, c) ==
    /\ autoSkip' = [autoSkip EXCEPT ![l] =
                        IF lobbyState[l] = "IN_GAME" THEN @ \union {c} ELSE @]
    /\ lobbyId' = [lobbyId EXCEPT ![c] = NoLobby]
    /\ ready' = [ready EXCEPT ![c] = FALSE]
    /\ UNCHANGED clients
RemoveClient_KeepsLobbyId(l, c) ==
    /\ clients' = [clients EXCEPT ![l] = Without(@, {c})]
    /\ autoSkip' = [autoSkip EXCEPT ![l] =
                        IF lobbyState[l] = "IN_GAME" THEN @ \union {c} ELSE @]
    /\ ready' = [ready EXCEPT ![c] = FALSE]
    /\ UNCHANGED lobbyId

(* Lobby::removeClient.  The votes of l are not counted down, and the      *)
(* client's lobbyId is cleared whichever lobby it names.                   *)
RemoveClient(l, c) ==
    /\ clients' = [clients EXCEPT ![l] = Without(@, {c})]
    /\ autoSkip' = [autoSkip EXCEPT ![l] =
                        IF lobbyState[l] = "IN_GAME" THEN @ \union {c} ELSE @]
    /\ lobbyId' = [lobbyId EXCEPT ![c] = NoLobby]
    /\ ready' = [ready EXCEPT ![c] = FALSE]

(* Fault: the votes stay. *)
ResetClientParticipation_KeepsVotes(l, removed) ==
    /\ ready' = [c \in Clients |->
                    ready[c] /\ c \notin Members(clients[l]) \union removed]
    /\ UNCHANGED clientsReady

(* Lobby::resetClientParticipation; removed are the clients that           *)
(* removeClient is called for afterwards.                                  *)
ResetClientParticipation(l, removed) ==
    /\ ready' = [c \in Clients |->
                    ready[c] /\ c \notin Members(clients[l]) \union removed]
    /\ clientsReady' = [clientsReady EXCEPT ![l] = 0]

-----------------------------------------------------------------------------
(* Phase "select": what the clients' messages do at once. *)

(* The client object is not pointed to from any lobby: its place may be    *)
(* taken by a new one.                                                     *)
Unreferenced(c) ==
    \A l \in Lobbies :
        /\ c \notin Members(clients[l]) \union disconnectedClients[l]
        /\ c \notin Members(confirmedClients[l]) \union autoSkip[l]
        /\ \A i \in DOMAIN unprocessedMessages[l] : unprocessedMessages[l][i].client # c

(* MessageHandler::handleLogin with an unknown username. *)
RegisterClient(c) ==
    /\ alive /\ phase = "select"
    /\ ~registered[c]
    /\ Unreferenced(c)
    /\ registered' = [registered EXCEPT ![c] = TRUE]
    /\ online' = [online EXCEPT ![c] = TRUE]
    /\ ready' = [ready EXCEPT ![c] = FALSE]
    /\ lobbyId' = [lobbyId EXCEPT ![c] = NoLobby]
    /\ UNCHANGED <<alive, serverVars, lobbyVars, unprocessedMessages, gameVars>>

InGame(l) == lobbyState[l] \in {"IN_GAME", "FINISHED"}

(* Fault: the branches of reconnectClient are swapped. *)
IsPromptedAgain_WhenFinished(l, c) ==
    ~blackjack[l].gameRunning /\ c \in Members(blackjack[l].players)

(* GameController::reconnectClient: the game is shown to c, and when it is *)
(* c's turn the TURN request is sent again.                                *)
IsPromptedAgain(l, c) == blackjack[l].gameRunning /\ CurrentPlayer(blackjack[l]) = c

(* MessageHandler::restoreClientState has a lobby to restore c into.       *)
(* Lobby::contains compares the usernames, but a member of another object  *)
(* with this name is no obstacle: lobbyId[c] # NoLobby makes c a member.   *)
HasLobby(c) == lobbyId[c] # NoLobby /\ c \in Members(clients[lobbyId[c]])

(* handleLogin with a known username: the client goes on over a new        *)
(* connection, whether the old one was lost or not.  In a game it is sent  *)
(* the TURN request again if it is its turn.                               *)
ReconnectClient(c) ==
    LET restores(l) == HasLobby(c) /\ lobbyId[c] = l /\ InGame(l)
    IN  /\ alive /\ phase = "select"
        /\ registered[c]
        /\ online' = [online EXCEPT ![c] = TRUE]
        /\ disconnectedClients' = [l \in Lobbies |->
                disconnectedClients[l] \ (IF restores(l) THEN {c} ELSE {})]
        /\ turnRequest' = [l \in Lobbies |->
                IF restores(l) /\ IsPromptedAgain(l, c) THEN {c} ELSE turnRequest[l] \ {c}]
        /\ UNCHANGED <<alive, serverVars, registered, ready, lobbyId, lobbyState,
                       clients, clientsReady, unprocessedMessages,
                       confirmedClients, autoSkip, blackjack, lastGameUpdate>>

(* Fault: lobbies are joinable at any time. *)
IsJoinable_Always(l) == Len(clients[l]) < MAX_CLIENTS_PER_LOBBY

IsJoinable(l) ==
    lobbyState[l] = "WAITING" /\ Len(clients[l]) < MAX_CLIENTS_PER_LOBBY

(* MessageHandler::sendLobby.  Whether c is in a lobby already is not asked. *)
JoinLobby(c, l) ==
    /\ alive /\ phase = "select"
    /\ registered[c] /\ online[c]
    /\ IsJoinable(l)
    /\ clients' = [clients EXCEPT ![l] = Append(@, c)]
    /\ lobbyId' = [lobbyId EXCEPT ![c] = l]
    /\ UNCHANGED <<alive, serverVars, registered, online, ready, lobbyState,
                   clientsReady, disconnectedClients, unprocessedMessages, gameVars>>

(* MessageHandler::leaveLobby. *)
LeaveLobby(c) ==
    /\ alive /\ phase = "select"
    /\ registered[c] /\ online[c]
    /\ lobbyId[c] # NoLobby
    /\ RemoveClient(lobbyId[c], c)
    /\ UNCHANGED <<alive, serverVars, registered, online, lobbyState, clientsReady,
                   disconnectedClients, unprocessedMessages, confirmedClients,
                   blackjack, lastGameUpdate, turnRequest>>

(* The bounds on what clients send: so many messages in a round, and no     *)
(* votes, bets and turns when their counters have grown far enough.         *)
WithinBounds(l, type) ==
    /\ Len(unprocessedMessages[l]) < MaxMessages
    /\ \A k \in Lobbies \ {l} : Len(unprocessedMessages[k]) + Len(unprocessedMessages[l]) < MaxMessages
    /\ type = "ready" => clientsReady[l] < MaxReady
    /\ type = "confirm" => Len(confirmedClients[l]) < MaxConfirmed
    /\ type \in TurnTypes =>
            blackjack[l].currentPlayerIndex <= Len(blackjack[l].players)

(* Lobby::addNewMessage, for any other request and for any response. *)
AddNewMessage(c, type) ==
    LET l == lobbyId[c]
    IN  /\ alive /\ phase = "select"
        /\ registered[c] /\ online[c]
        /\ l # NoLobby
        /\ WithinBounds(l, type)
        /\ unprocessedMessages' = [unprocessedMessages EXCEPT ![l] =
                                       Append(@, [client |-> c, type |-> type])]
        /\ UNCHANGED <<alive, serverVars, clientVars, lobbyVars, gameVars>>

(* Fault: sockets are closed before clients are erased. *)
EndSelect_ClosesFirst ==
    /\ alive /\ phase = "select"
    /\ phase' = "disconnect"
    /\ UNCHANGED <<alive, handling, clientVars, lobbyVars, unprocessedMessages, gameVars>>

EndSelect ==
    /\ alive /\ phase = "select"
    /\ phase' = "erase"
    /\ UNCHANGED <<alive, handling, clientVars, lobbyVars, unprocessedMessages, gameVars>>

-----------------------------------------------------------------------------
(* Phases "erase" and "disconnect". *)

(* Fault: the seat is not kept during a game. *)
LosesSeat_Unfinished(l) == l # NoLobby /\ lobbyState[l] \in {"WAITING", "IN_GAME"}

(* disconnectClients takes the client out of its lobby at once. *)
LosesSeat(l) == l # NoLobby /\ lobbyState[l] = "WAITING"

(* Fault: only those who disconnect during the game are noted. *)
AddDisconnectedClient_InGame(l, c) ==
    disconnectedClients' = [k \in Lobbies |->
        disconnectedClients[k] \union (IF k = l /\ InGame(k) THEN {c} ELSE {})]

(* Lobby::addDisconnectedClient, when c is in a lobby. *)
AddDisconnectedClient(l, c) ==
    disconnectedClients' = [k \in Lobbies |->
        disconnectedClients[k] \union (IF k = l THEN {c} ELSE {})]

(* A client silent for MAX_TIMEOUT_BEFORE_REMOVED_MS is forgotten by the   *)
(* server; it keeps its place in a lobby that is not waiting.              *)
ExpireClient(c) ==
    /\ alive /\ phase = "erase"
    /\ registered[c]
    /\ registered' = [registered EXCEPT ![c] = FALSE]
    /\ IF LosesSeat(lobbyId[c])
       THEN RemoveClient(lobbyId[c], c)
       ELSE UNCHANGED <<clients, autoSkip, lobbyId, ready>>
    /\ UNCHANGED <<alive, serverVars, online, lobbyState, clientsReady,
                   disconnectedClients, unprocessedMessages, confirmedClients,
                   blackjack, lastGameUpdate, turnRequest>>

EndErase ==
    /\ alive /\ phase = "erase"
    /\ phase' = "disconnect"
    /\ UNCHANGED <<alive, handling, clientVars, lobbyVars, unprocessedMessages, gameVars>>

(* c's socket is in socketsToClose: end of file, a message that does not   *)
(* parse, a message of the wrong kind, or 15 seconds without any.          *)
DisconnectClient(c) ==
    LET l == lobbyId[c]
    IN  /\ alive /\ phase = "disconnect"
        /\ registered[c] /\ online[c]
        /\ online' = [online EXCEPT ![c] = FALSE]
        /\ turnRequest' = [k \in Lobbies |-> turnRequest[k] \ {c}]
        /\ IF LosesSeat(l)
           THEN RemoveClient(l, c) /\ UNCHANGED disconnectedClients
           ELSE /\ AddDisconnectedClient(l, c)
                /\ UNCHANGED <<clients, autoSkip, lobbyId, ready>>
        /\ UNCHANGED <<alive, serverVars, registered, lobbyState, clientsReady,
                       unprocessedMessages, confirmedClients, blackjack,
                       lastGameUpdate>>

EndDisconnect ==
    /\ alive /\ phase = "disconnect"
    /\ phase' = "handle"
    /\ handling' = 0
    /\ UNCHANGED <<alive, clientVars, lobbyVars, unprocessedMessages, gameVars>>

-----------------------------------------------------------------------------
(* Phase "handle", first half of handleLobby: LobbyMessageHandler handles  *)
(* the queued messages.  Their senders may have left in the meantime, for  *)
(* another lobby even.                                                     *)

Handles(l, c, types) ==
    /\ alive /\ phase = "handle" /\ handling = l
    /\ unprocessedMessages[l] # << >>
    /\ Head(unprocessedMessages[l]).client = c
    /\ Head(unprocessedMessages[l]).type \in types

PopMessage(l) == unprocessedMessages' = [unprocessedMessages EXCEPT ![l] = Tail(@)]

(* SEND_READY: one vote, in any state of the lobby. *)
HandleReady(l, c) ==
    /\ Handles(l, c, {"ready"})
    /\ PopMessage(l)
    /\ ready' = [ready EXCEPT ![c] = TRUE]
    /\ clientsReady' = [clientsReady EXCEPT ![l] = IF ready[c] THEN @ ELSE @ + 1]
    /\ UNCHANGED <<alive, serverVars, registered, online, lobbyId, lobbyState,
                   clients, disconnectedClients, gameVars>>

(* CONFIRM_PARTICIPATION: a bet counts while the game is being prepared,   *)
(* and every one counts.  Out of that state the bet is not even read.      *)
HandleConfirm(l, c) ==
    /\ Handles(l, c, {"confirm", "badBet"})
    /\ Head(unprocessedMessages[l]).type = "badBet" => lobbyState[l] # "PREPARING"
    /\ PopMessage(l)
    /\ confirmedClients' = [confirmedClients EXCEPT ![l] =
                               IF lobbyState[l] = "PREPARING" THEN Append(@, c) ELSE @]
    /\ UNCHANGED <<alive, serverVars, clientVars, lobbyVars, autoSkip, blackjack,
                   lastGameUpdate, turnRequest>>

(* stoi or TCPData::valueOf throws, and nothing around handleLobby catches. *)
HandleBadBet(l, c) ==
    /\ Handles(l, c, {"badBet"})
    /\ lobbyState[l] = "PREPARING"
    /\ Crash

(* DECLINE_PARTICIPATION. *)
HandleDecline(l, c) ==
    /\ Handles(l, c, {"decline"})
    /\ PopMessage(l)
    /\ RemoveClient(l, c)
    /\ UNCHANGED <<alive, serverVars, registered, online, lobbyState, clientsReady,
                   disconnectedClients, confirmedClients, blackjack,
                   lastGameUpdate, turnRequest>>

(* GameController::handlePlayerTurn when it is not c's turn; once the game *)
(* is over the index points past the players, and what is read there may   *)
(* differ from c ...                                                       *)
RejectTurn(l, c) ==
    LET g == blackjack[l]
    IN  /\ Handles(l, c, TurnTypes \ {"badTurn"})
        /\ g # NoGame
        /\ ~(g.gameRunning /\ c = CurrentPlayer(g))
        /\ PopMessage(l)
        /\ UNCHANGED <<alive, serverVars, clientVars, lobbyVars, gameVars>>

(* ... or may equal it.  lastGameUpdate is not set: the next player has    *)
(* what is left of this one's time.                                        *)
AcceptTurn(l, c) ==
    LET g == blackjack[l]
    IN  /\ Handles(l, c, TurnTypes \ {"badTurn"})
        /\ g # NoGame
        /\ MayPlay(g, c)
        /\ PopMessage(l)
        /\ \E next \in TurnOutcomes(g, Head(unprocessedMessages[l]).type) :
              /\ blackjack' = [blackjack EXCEPT ![l] = next]
              /\ turnRequest' = [turnRequest EXCEPT ![l] = SendPlayerTurnRequest(next)]
        /\ UNCHANGED <<alive, serverVars, clientVars, lobbyVars, confirmedClients,
                       autoSkip, lastGameUpdate>>

(* A turn without a game goes through a null pointer, and so does the      *)
(* result of an unknown turn; a missing turn type throws.                  *)
CrashOnTurn(l, c) ==
    /\ Handles(l, c, TurnTypes)
    /\ \/ Handles(l, c, {"badTurn"})
       \/ blackjack[l] = NoGame
    /\ Crash

HandleMessage(l, c) ==
    \/ HandleReady(l, c)
    \/ HandleConfirm(l, c) \/ HandleBadBet(l, c)
    \/ HandleDecline(l, c)
    \/ RejectTurn(l, c) \/ AcceptTurn(l, c) \/ CrashOnTurn(l, c)

-----------------------------------------------------------------------------
(* Second half of handleLobby: one step of the state machine, after which  *)
(* the server goes on to the next lobby or to the next round.              *)

Drained(l, state) ==
    /\ alive /\ phase = "handle" /\ handling = l
    /\ unprocessedMessages[l] = << >>
    /\ lobbyState[l] = state

(* Fault: the loop over the lobbies goes one too far. *)
NextLobby_OneTooFar(l) ==
    /\ phase' = IF l < LobbyCount THEN "handle" ELSE "select"
    /\ handling' = IF l < LobbyCount THEN l + 1 ELSE 0
    /\ UNCHANGED <<alive, registered, online, unprocessedMessages>>

NextLobby(l) ==
    /\ phase' = IF l + 1 \in Lobbies THEN "handle" ELSE "select"
    /\ handling' = IF l + 1 \in Lobbies THEN l + 1 ELSE 0
    /\ UNCHANGED <<alive, registered, online, unprocessedMessages>>

CanPrepareGameStart(l) ==
    clientsReady[l] = Len(clients[l]) /\ Len(clients[l]) >= 2

(* GameController::prepareGame. *)
PrepareGame(l) ==
    /\ Drained(l, "WAITING")
    /\ CanPrepareGameStart(l)
    /\ lobbyState' = [lobbyState EXCEPT ![l] = "PREPARING"]
    /\ NextLobby(l)
    /\ UNCHANGED <<ready, lobbyId, clients, clientsReady, disconnectedClients, gameVars>>

AllBetsPlaced(l) == Len(clients[l]) = Len(confirmedClients[l])
(* Fault: one bet is enough. *)
IsPlayable_Alone(l) == Len(confirmedClients[l]) >= 1
IsPlayable(l) == Len(confirmedClients[l]) >= 2

Unconfirmed(l) ==
    {i \in DOMAIN clients[l] : clients[l][i] \notin Members(confirmedClients[l])}

(* startGame removes a client from the vector that it is iterating over,   *)
(* through a reference into that vector.  When only copies of this client  *)
(* follow, the reference and the iterator stay on the destroyed tail,      *)
(* whose pointers can still be read.  When another client follows, it      *)
(* moves into the place referred to, is given lobbyId -1 itself, and the   *)
(* loop ends on a null pointer.                                            *)
RemovalIsHarmless(l) ==
    \A i, j \in DOMAIN clients[l] :
        i \in Unconfirmed(l) /\ i < j => clients[l][j] = clients[l][i]

(* The blackjack game that the confirmed clients are dealt. *)
NewGame(players) == [players |-> players, currentPlayerIndex |-> 0, gameRunning |-> TRUE]

(* GameController::startGame, with hasPreparationTimeExpired by timeout or *)
(* because there are as many bets as members.                              *)
StartGame(l) ==
    LET kicked == {clients[l][i] : i \in Unconfirmed(l)}
        game == NewGame(confirmedClients[l])
    IN  /\ Drained(l, "PREPARING")
        /\ IsPlayable(l)
        /\ RemovalIsHarmless(l)
        /\ clients' = [clients EXCEPT ![l] = Without(@, kicked)]
        /\ lobbyId' = [c \in Clients |-> IF c \in kicked THEN NoLobby ELSE lobbyId[c]]
        /\ ready' = [c \in Clients |-> ready[c] /\ c \notin kicked]
        /\ blackjack' = [blackjack EXCEPT ![l] = game]
        /\ turnRequest' = [turnRequest EXCEPT ![l] = SendPlayerTurnRequest(game)]
        /\ lobbyState' = [lobbyState EXCEPT ![l] = "IN_GAME"]
        /\ lastGameUpdate' = [lastGameUpdate EXCEPT ![l] = 0]
        /\ NextLobby(l)
        /\ UNCHANGED <<clientsReady, disconnectedClients, confirmedClients, autoSkip>>

(* The removal ends on a null pointer, or on a client that nobody else     *)
(* points to any more.                                                     *)
CrashOnStart(l) ==
    /\ Drained(l, "PREPARING")
    /\ IsPlayable(l)
    /\ \/ ~RemovalIsHarmless(l)
       \/ \E i \in Unconfirmed(l) : ~registered[clients[l][i]]
    /\ Crash

(* GameController::cancelGame: nobody is removed. *)
CancelGame(l) ==
    /\ Drained(l, "PREPARING")
    /\ ~IsPlayable(l)
    /\ confirmedClients' = [confirmedClients EXCEPT ![l] = << >>]
    /\ lobbyState' = [lobbyState EXCEPT ![l] = "WAITING"]
    /\ ResetClientParticipation(l, {})
    /\ NextLobby(l)
    /\ UNCHANGED <<lobbyId, clients, disconnectedClients, autoSkip, blackjack,
                   lastGameUpdate, turnRequest>>

(* GameController::checkIfTimeForNextPlayer, when MAX_TIME_BEFORE_STAND_MS *)
(* have gone by since lastGameUpdate or the current player has left.       *)
SkipPlayer(l) ==
    LET next == MoveToNextPlayer(blackjack[l])
    IN  /\ Drained(l, "IN_GAME")
        /\ blackjack[l].gameRunning
        /\ blackjack' = [blackjack EXCEPT ![l] = next]
        /\ turnRequest' = [turnRequest EXCEPT ![l] = SendPlayerTurnRequest(next)]
        /\ lastGameUpdate' = [lastGameUpdate EXCEPT ![l] =
                                 IF next.gameRunning THEN next.currentPlayerIndex ELSE @]
        /\ NextLobby(l)
        /\ UNCHANGED <<ready, lobbyId, lobbyVars, confirmedClients, autoSkip>>

(* GameController::endGame. *)
EndGame(l) ==
    /\ Drained(l, "IN_GAME")
    /\ ~blackjack[l].gameRunning
    /\ lobbyState' = [lobbyState EXCEPT ![l] = "FINISHED"]
    /\ NextLobby(l)
    /\ UNCHANGED <<ready, lobbyId, clients, clientsReady, disconnectedClients, gameVars>>

(* Lobby::checkIfReturnToLobby, when TIME_BEFORE_RETURN_TO_LOBBY has gone  *)
(* by or nobody is left.  Each of disconnectedClients is removed and its   *)
(* lobbyId cleared, wherever it is by now.                                 *)
ReturnToLobby(l) ==
    LET gone == disconnectedClients[l]
    IN  /\ Drained(l, "FINISHED")
        /\ lobbyState' = [lobbyState EXCEPT ![l] = "WAITING"]
        /\ ResetClientParticipation(l, gone)
        /\ blackjack' = [blackjack EXCEPT ![l] = NoGame]
        /\ confirmedClients' = [confirmedClients EXCEPT ![l] = << >>]
        /\ autoSkip' = [autoSkip EXCEPT ![l] = {}]
        /\ clients' = [clients EXCEPT ![l] = Without(@, gone)]
        /\ lobbyId' = [c \in Clients |-> IF c \in gone THEN NoLobby ELSE lobbyId[c]]
        /\ disconnectedClients' = [disconnectedClients EXCEPT ![l] = {}]
        /\ NextLobby(l)
        /\ UNCHANGED <<lastGameUpdate, turnRequest>>

(* No vote is complete, no time limit has expired. *)
NothingToDo(l) ==
    /\ \/ Drained(l, "WAITING") /\ ~CanPrepareGameStart(l)
       \/ Drained(l, "PREPARING") /\ ~AllBetsPlaced(l)
       \/ /\ Drained(l, "IN_GAME")
          /\ blackjack[l].gameRunning
          /\ CurrentPlayer(blackjack[l]) \notin autoSkip[l]
       \/ Drained(l, "FINISHED") /\ clients[l] # << >>
    /\ NextLobby(l)
    /\ UNCHANGED <<ready, lobbyId, lobbyVars, gameVars>>

HandleState(l) ==
    \/ PrepareGame(l)
    \/ StartGame(l) \/ CrashOnStart(l) \/ CancelGame(l)
    \/ SkipPlayer(l) \/ EndGame(l)
    \/ ReturnToLobby(l)
    \/ NothingToDo(l)

-----------------------------------------------------------------------------
ClientStep ==
    \E c \in Clients :
        \/ RegisterClient(c) \/ ReconnectClient(c) \/ LeaveLobby(c)
        \/ \E l \in Lobbies : JoinLobby(c, l)
        \/ \E type \in MessageTypes : AddNewMessage(c, type)

Disconnection == \E c \in Clients : ExpireClient(c) \/ DisconnectClient(c)

LobbyStep ==
    \E l \in Lobbies : HandleState(l) \/ \E c \in Clients : HandleMessage(l, c)

(* A terminated process stays terminated. *)
Terminated == ~alive /\ UNCHANGED vars

Next ==
    \/ ClientStep \/ EndSelect
    \/ Disconnection \/ EndErase \/ EndDisconnect
    \/ LobbyStep
    \/ Terminated

Spec == Init /\ [][Next]_vars

(* The loop goes on, for it reads each socket once and handles each lobby  *)
(* once; and a time limit that is tested every two seconds expires.        *)
TimeLimits(l) == SF_vars(StartGame(l) \/ CrashOnStart(l) \/ CancelGame(l))
                     /\ SF_vars(SkipPlayer(l)) /\ SF_vars(ReturnToLobby(l))
Fairness ==
    /\ WF_vars(EndSelect) /\ WF_vars(EndErase) /\ WF_vars(EndDisconnect)
    /\ WF_vars(LobbyStep)
    /\ \A l \in Lobbies : TimeLimits(l)

FairSpec == Spec /\ Fairness
=============================================================================
