-------------------------------- MODULE Views --------------------------------
(***************************************************************************)
(* What the clients are shown.  Module Lobby with the requests that the    *)
(* handlers send along with each step: which screen a client is told to    *)
(* go to, and whether the list of players, the board and the results it    *)
(* was last sent are still those of its lobby.  TURN requests are part of  *)
(* Lobby.  What is sent to a client without a connection is lost, and a    *)
(* new connection starts with nothing.                                     *)
(*                                                                         *)
(* A list is the members and who is ready.  Lobby has no cards: a board is *)
(* another one after every step that may deal a card.                      *)
(***************************************************************************)
EXTENDS Lobby

VARIABLES
    screen,  \* where each client was told to be on its connection
    shown,   \* what each client was sent on its connection and still holds
    strays   \* history: those whom another lobby reached when they last joined one

viewVars == <<screen, shown, strays>>

Screens == {"lobbyList", "lobby", "game"}
Contents == [what : {"playerList", "board", "results"}, lobby : Lobbies]

ViewInit ==
    /\ screen = [c \in Clients |-> "lobbyList"]
    /\ shown = [c \in Clients |-> {}]
    /\ strays = {}

-----------------------------------------------------------------------------
(* Requests. *)

Send(to, what, l) == {[to |-> c, what |-> what, lobby |-> l] : c \in to}

(* What sends a client back to the list of lobbies: the answer to a login  *)
(* that restores nothing or to a leave, the news that it placed no bet, an *)
(* acknowledged decline.                                                   *)
SendLobbyList(c) == Send({c}, "lobbyList", 0)
SendClientDidntConfirm(kicked) == Send(kicked, "lobbyList", 0)
SendDeclineAcknowledged(c) == Send({c}, "lobbyList", 0)

SendShowLobbyRequest(l) == Send(Members(clients[l]), "lobby", l)
SendPrepareGameRequest(l) == Send(Members(confirmedClients[l]), "game", l)

(* To whoever is a member after the step, but for those who leave in it.   *)
SendUpdatePlayerListRequest(l) == Send(Members(clients'[l]), "playerList", l)

(* The hands of all players and of the dealer, to each of the clients. *)
SendBoard(to, l) == Send(to, "board", l)

SendBoardUpdate(l) == SendBoard(Members(blackjack'[l].players), l)

SendResults(l) == Send(Members(blackjack[l].players), "results", l)

(* Fault: the one who waits for the results is sent the board only. *)
ReconnectToGame_NoResults(l, c) == Send({c}, "game", l) \union SendBoard({c}, l)

(* GameController::reconnectClient. *)
ReconnectToGame(l, c) ==
    Send({c}, "game", l) \union SendBoard({c}, l)
        \union (IF blackjack[l].gameRunning THEN {} ELSE Send({c}, "results", l))

(* Fault: a game that is over is no game any more. *)
RestoreState_Unfinished(l, c) ==
    IF lobbyState[l] = "IN_GAME" THEN ReconnectToGame(l, c)
    ELSE Send({c}, "lobby", l) \union Send({c}, "playerList", l)

(* Lobby::restoreState. *)
RestoreState(l, c) ==
    IF InGame(l) THEN ReconnectToGame(l, c)
    ELSE Send({c}, "lobby", l) \union Send({c}, "playerList", l)

(* Fault: a client is sent back to the list of lobbies. *)
RestoreClientState_ToLobbies(c) == SendLobbyList(c)

(* MessageHandler::restoreClientState. *)
RestoreClientState(c) ==
    IF HasLobby(c) THEN RestoreState(lobbyId[c], c) ELSE SendLobbyList(c)

(* Fault: the newcomer is left out. *)
SendAddition_ToOthers(l) == Send(Members(clients[l]), "playerList", l)

(* sendLobby lets the client in, and Lobby::addClient tells everybody, the *)
(* newcomer too.                                                           *)
SendLobby(c, l) == Send({c}, "lobby", l)
SendAddition(l) == SendUpdatePlayerListRequest(l)

(* Fault: the others are not told. *)
SendRemoval_Silent(l) == {}

(* Lobby::removeClient tells the others. *)
SendRemoval(l) == SendUpdatePlayerListRequest(l)

(* An accepted turn is shown to every player, with the board after it; a   *)
(* double down that is refused changes nothing.                            *)
RefusesDouble(l) ==
    /\ Head(unprocessedMessages[l]).type = "doubleDown"
    /\ blackjack'[l] = blackjack[l]

(* Fault: the board is sent to the client that played only. *)
SendTurn_ToTheSender(l) ==
    IF RefusesDouble(l) THEN {}
    ELSE SendBoard({Head(unprocessedMessages[l]).client}, l)

SendTurn(l) == IF RefusesDouble(l) THEN {} ELSE SendBoardUpdate(l)

-----------------------------------------------------------------------------
(* What becomes of the clients' views in a step. *)

PlayerList(l) == [i \in DOMAIN clients[l] |-> <<clients[l][i], ready[clients[l][i]]>>]

(* Contents that the step makes untrue, when it deals in the lobbies of    *)
(* dealt.                                                                  *)
Outdated(dealt) ==
    {v \in Contents :
        CASE v.what = "playerList" -> PlayerList(v.lobby)' # PlayerList(v.lobby)
          [] v.what = "board" -> v.lobby \in dealt
          [] v.what = "results" -> blackjack'[v.lobby] = NoGame}

(* The requests are sent; the connections of lost are gone or new. *)
Deliver(requests, lost, dealt) ==
    LET outdated == Outdated(dealt)
        received(c) == {m \in requests : m.to = c /\ online'[c]}
        content(m) == [what |-> m.what, lobby |-> m.lobby]
        goesTo(c) == {m.what : m \in received(c)} \intersect Screens
    IN  /\ shown' = [c \in Clients |->
              (IF c \in lost THEN {} ELSE shown[c] \ outdated)
                  \union {content(m) : m \in {n \in received(c) : n.what \notin Screens}}]
        /\ screen' = [c \in Clients |->
              IF goesTo(c) # {} THEN CHOOSE s \in goesTo(c) : TRUE
              ELSE IF c \in lost THEN "lobbyList" ELSE screen[c]]

Requests(requests) == Deliver(requests, {}, {})
NoRequest == Requests({})

-----------------------------------------------------------------------------
(* Lobby l may still send c to a screen or change what others see of it:   *)
(* as a member, a bettor of the next game, one to be removed after the     *)
(* game, or the sender of a queued message.                                *)
Reaches(l, c) ==
    \/ c \in Members(clients[l]) \union disconnectedClients[l]
    \/ ~InGame(l) /\ c \in Members(confirmedClients[l])
    \/ \E i \in DOMAIN unprocessedMessages[l] : unprocessedMessages[l][i].client = c

(* JoinLobby does not ask.  Who comes back from everywhere is no stray.    *)
StraysAfter(c, l) ==
    IF \E k \in Lobbies \ {l} : Reaches(k, c) THEN strays \union {c} ELSE strays \ {c}

(* Each action of Lobby with what it sends. *)

ViewClientStep(c) ==
    \/ RegisterClient(c) /\ Deliver(SendLobbyList(c), {c}, {}) /\ strays' = strays \ {c}
    \/ \E l \in Lobbies :
          /\ JoinLobby(c, l) /\ Requests(SendLobby(c, l) \union SendAddition(l))
          /\ strays' = StraysAfter(c, l)
    \/ /\ \/ ReconnectClient(c) /\ Deliver(RestoreClientState(c), {c}, {})
          \/ LeaveLobby(c) /\ Requests(SendRemoval(lobbyId[c]) \union SendLobbyList(c))
          \/ \E type \in MessageTypes : AddNewMessage(c, type) /\ NoRequest
       /\ UNCHANGED strays

ViewDisconnection(c) ==
    LET l == lobbyId[c]
        told == IF LosesSeat(l) THEN SendRemoval(l) ELSE {}
    IN  \/ ExpireClient(c) /\ Requests(told)
        \/ DisconnectClient(c) /\ Deliver(told, {c}, {})

ViewMessage(l, c) ==
    \/ HandleReady(l, c) /\ Requests(IF ready[c] THEN {} ELSE SendUpdatePlayerListRequest(l))
    \/ HandleDecline(l, c) /\ Requests(SendRemoval(l) \union SendDeclineAcknowledged(c))
    \/ AcceptTurn(l, c) /\ Deliver(SendTurn(l), {}, IF RefusesDouble(l) THEN {} ELSE {l})
    \/ HandleConfirm(l, c) /\ NoRequest
    \/ RejectTurn(l, c) /\ NoRequest
    \/ HandleBadBet(l, c) /\ NoRequest
    \/ CrashOnTurn(l, c) /\ NoRequest

ViewState(l) ==
    \/ StartGame(l) /\
          LET kicked == Members(clients[l]) \ Members(clients'[l])
          IN  Deliver(SendClientDidntConfirm(kicked)
                          \union (IF kicked = {} THEN {} ELSE SendRemoval(l))
                          \union SendPrepareGameRequest(l) \union SendBoardUpdate(l), {}, {l})
    \/ SkipPlayer(l) /\
          IF blackjack'[l].gameRunning THEN Requests(SendBoardUpdate(l)) ELSE Deliver({}, {}, {l})
    \/ EndGame(l) /\ Requests(SendBoardUpdate(l) \union SendResults(l))
    \/ ReturnToLobby(l) /\ Requests(SendShowLobbyRequest(l) \union SendUpdatePlayerListRequest(l))
    \/ CancelGame(l) /\ Requests(SendUpdatePlayerListRequest(l))
    \/ PrepareGame(l) /\ NoRequest
    \/ NothingToDo(l) /\ NoRequest
    \/ CrashOnStart(l) /\ NoRequest

ViewNext ==
    \/ \E c \in Clients : ViewClientStep(c)
    \/ /\ \/ \E c \in Clients : ViewDisconnection(c)
          \/ (EndSelect \/ EndErase \/ EndDisconnect) /\ NoRequest
          \/ \E l \in Lobbies : ViewState(l) \/ \E c \in Clients : ViewMessage(l, c)
       /\ UNCHANGED strays
    \/ Terminated /\ UNCHANGED viewVars

ViewSpec == Init /\ ViewInit /\ [][ViewNext]_<<vars, viewVars>>

-----------------------------------------------------------------------------
(* Properties.  Boards and results are those of their lobby whatever       *)
(* happens in others.  A stray is on the screen of whichever lobby spoke   *)
(* last, and its vote in one lobby shows in the other, whose members are   *)
(* not told: screens are stated of those that are none, lists of lobbies   *)
(* that have none.                                                         *)

(* c is connected and its lobby is l. *)
SitsIn(c, l) == registered[c] /\ online[c] /\ lobbyId[c] = l

(* A connected client is on the screen that its lobby's state calls for,   *)
(* whichever way and in whichever state it came there: by joining, by a    *)
(* new connection, by the start or the end of a game, and whatever lobby   *)
(* it was in before.                                                       *)
ScreensFollow ==
    \A c \in Clients \ strays, l \in Lobbies :
        SitsIn(c, l) => screen[c] = IF InGame(l) THEN "game" ELSE "lobby"

Holds(c, what, l) == [what |-> what, lobby |-> l] \in shown[c]

(* Outside a game everybody in the lobby sees who is there and who is      *)
(* ready: no join, vote, removal, reset or reconnection leaves a connected *)
(* member with an old list.                                                *)
ListsAreCurrent ==
    \A c \in Clients, l \in Lobbies :
        SitsIn(c, l) /\ ~InGame(l) /\ Members(clients[l]) \intersect strays = {}
            => Holds(c, "playerList", l)

(* In a game every connected member sees the board as it is, except that   *)
(* after a skip of the last player the dealer's cards are shown a round    *)
(* later.                                                                  *)
BoardsAreCurrent ==
    \A c \in Clients, l \in Lobbies :
        SitsIn(c, l) /\ (blackjack[l].gameRunning \/ lobbyState[l] = "FINISHED")
            => Holds(c, "board", l)

(* The results reach every member that is connected before the lobby       *)
(* returns, those that come back after the game is over too.               *)
ResultsReachThePlayers ==
    \A c \in Clients, l \in Lobbies :
        SitsIn(c, l) /\ lobbyState[l] = "FINISHED" => Holds(c, "results", l)
=============================================================================
