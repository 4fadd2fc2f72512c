----------------------------- MODULE LobbyProofs -----------------------------
(***************************************************************************)
(* Theorems about the lobbies, for any clients, any number of lobbies, any *)
(* limit and any bounds.                                                   *)
(***************************************************************************)
EXTENDS LobbyProperties, VectorProofs

-----------------------------------------------------------------------------
(* Types. *)

(* Tail keeps the type of a queue that is not empty. *)
LEMMA TailType ==
    ASSUME NEW S, NEW s \in Seq(S), s # << >>
    PROVE  Tail(s) \in Seq(S)
OBVIOUS

(* What removeClient changes keeps its type. *)
LEMMA RemoveClientType ==
    ASSUME TypeOK, NEW l \in Lobbies, NEW c \in Clients, RemoveClient(l, c)
    PROVE  /\ clients' \in [Lobbies -> Seq(Clients)]
           /\ autoSkip' \in [Lobbies -> SUBSET Clients]
           /\ lobbyId' \in [Clients -> Lobbies \union {NoLobby}]
           /\ ready' \in [Clients -> BOOLEAN]
<1>1. clients[l] \in Seq(Clients)
  BY DEF TypeOK
<1>2. Without(clients[l], {c}) \in Seq(Clients)
  BY <1>1, WithoutMembers
<1>3. QED
  BY <1>2 DEF TypeOK, RemoveClient

(* The games that a turn leads to are games. *)
Games == [players : Seq(Clients), currentPlayerIndex : Nat, gameRunning : BOOLEAN]

LEMMA MoveToNextPlayerType ==
    ASSUME NEW g \in Games
    PROVE  MoveToNextPlayer(g) \in Games
<1> DEFINE index == g.currentPlayerIndex + 1
           running == g.gameRunning /\ index # Len(g.players)
<1>1. index \in Nat /\ running \in BOOLEAN
  BY DEF Games
<1>2. MoveToNextPlayer(g) = [g EXCEPT !.currentPlayerIndex = index, !.gameRunning = running]
  BY DEF MoveToNextPlayer
<1> HIDE DEF index, running
<1>3. QED
  BY <1>1, <1>2 DEF Games

LEMMA SendPlayerTurnRequestType ==
    ASSUME NEW g
    PROVE  SendPlayerTurnRequest(g) \in SUBSET Clients
BY DEF SendPlayerTurnRequest

(* Initially every variable has its type. *)
LEMMA InitTypeOK == Init => TypeOK
BY LobbyCountAssumption DEF Init, TypeOK, Lobbies, NoLobby, LobbyStates, NoGame

(* The messages of phase "select" keep the types. *)
LEMMA ClientStepTypeOK ==
    ASSUME TypeOK, ClientStep
    PROVE  TypeOK'
<1>1. PICK c \in Clients :
          \/ RegisterClient(c) \/ ReconnectClient(c) \/ LeaveLobby(c)
          \/ \E l \in Lobbies : JoinLobby(c, l)
          \/ \E type \in MessageTypes : AddNewMessage(c, type)
  BY DEF ClientStep
<1>2. CASE RegisterClient(c)
  BY <1>2 DEF TypeOK, RegisterClient, serverVars, lobbyVars, gameVars
<1>3. CASE ReconnectClient(c)
  BY <1>3 DEF TypeOK, ReconnectClient, serverVars
<1>4. CASE LeaveLobby(c)
  <2>1. lobbyId[c] \in Lobbies
    BY <1>4 DEF TypeOK, LeaveLobby
  <2>2. QED
    BY <1>4, <2>1, RemoveClientType DEF TypeOK, LeaveLobby, serverVars
<1>5. ASSUME NEW l \in Lobbies, JoinLobby(c, l) PROVE TypeOK'
  <2>1. /\ clients' \in [Lobbies -> Seq(Clients)]
        /\ lobbyId' \in [Clients -> Lobbies \union {NoLobby}]
    BY <1>5 DEF TypeOK, JoinLobby
  <2>2. QED
    BY <1>5, <2>1 DEF TypeOK, JoinLobby, serverVars, gameVars
<1>6. ASSUME NEW type \in MessageTypes, AddNewMessage(c, type) PROVE TypeOK'
  <2> DEFINE l == lobbyId[c]
             queue == Append(unprocessedMessages[l], [client |-> c, type |-> type])
  <2>1. l \in Lobbies
    BY <1>6 DEF TypeOK, AddNewMessage
  <2>2. queue \in Seq(Messages)
    <3>1. unprocessedMessages[l] \in Seq(Messages)
      BY <2>1 DEF TypeOK
    <3>2. [client |-> c, type |-> type] \in Messages
      BY DEF Messages
    <3>3. QED
      BY <3>1, <3>2
  <2>3. unprocessedMessages' \in [Lobbies -> Seq(Messages)]
    BY <1>6, <2>1, <2>2 DEF TypeOK, AddNewMessage
  <2>4. QED
    BY <1>6, <2>3 DEF TypeOK, AddNewMessage, serverVars, clientVars, lobbyVars, gameVars
<1>7. QED
  BY <1>1, <1>2, <1>3, <1>4, <1>5, <1>6

(* So do the ends of the phases and the disconnections. *)
LEMMA PhaseTypeOK ==
    ASSUME TypeOK, EndSelect \/ EndErase \/ EndDisconnect
    PROVE  TypeOK'
<1>1. 0 \in Lobbies
  BY LobbyCountAssumption DEF Lobbies
<1>2. CASE EndSelect
  BY <1>2 DEF TypeOK, EndSelect, clientVars, lobbyVars, gameVars
<1>3. CASE EndErase
  BY <1>3 DEF TypeOK, EndErase, clientVars, lobbyVars, gameVars
<1>4. CASE EndDisconnect
  BY <1>1, <1>4 DEF TypeOK, EndDisconnect, clientVars, lobbyVars, gameVars
<1>5. QED
  BY <1>2, <1>3, <1>4

LEMMA DisconnectionTypeOK ==
    ASSUME TypeOK, Disconnection
    PROVE  TypeOK'
<1>1. PICK c \in Clients : ExpireClient(c) \/ DisconnectClient(c)
  BY DEF Disconnection
<1>2. lobbyId[c] \in Lobbies \/ ~LosesSeat(lobbyId[c])
  BY DEF TypeOK, LosesSeat
<1>3. CASE ExpireClient(c)
  <2>1. registered' \in [Clients -> BOOLEAN]
    BY <1>3 DEF TypeOK, ExpireClient
  <2>2. CASE LosesSeat(lobbyId[c])
    BY <1>2, <1>3, <2>1, <2>2, RemoveClientType DEF TypeOK, ExpireClient, serverVars
  <2>3. CASE ~LosesSeat(lobbyId[c])
    BY <1>3, <2>1, <2>3 DEF TypeOK, ExpireClient, serverVars
  <2>4. QED
    BY <2>2, <2>3
<1>4. CASE DisconnectClient(c)
  <2>1. online' \in [Clients -> BOOLEAN] /\ turnRequest' \in [Lobbies -> SUBSET Clients]
    BY <1>4 DEF TypeOK, DisconnectClient
  <2>2. CASE LosesSeat(lobbyId[c])
    BY <1>2, <1>4, <2>1, <2>2, RemoveClientType DEF TypeOK, DisconnectClient, serverVars
  <2>3. CASE ~LosesSeat(lobbyId[c])
    BY <1>4, <2>1, <2>3 DEF TypeOK, DisconnectClient, AddDisconnectedClient, serverVars
  <2>4. QED
    BY <2>2, <2>3
<1>5. QED
  BY <1>1, <1>3, <1>4

(* So does every message that a lobby handles. *)
LEMMA HandleMessageTypeOK ==
    ASSUME TypeOK, NEW l \in Lobbies, NEW c \in Clients, HandleMessage(l, c)
    PROVE  TypeOK'
<1>1. ASSUME PopMessage(l), NEW types, Handles(l, c, types)
      PROVE  unprocessedMessages' \in [Lobbies -> Seq(Messages)]
  <2>1. unprocessedMessages[l] \in Seq(Messages) /\ unprocessedMessages[l] # << >>
    BY <1>1 DEF TypeOK, Handles
  <2>2. Tail(unprocessedMessages[l]) \in Seq(Messages)
    BY <2>1, TailType
  <2>3. QED
    BY <1>1, <2>2 DEF TypeOK, PopMessage
<1>2. ASSUME Crash PROVE TypeOK'
  BY <1>2 DEF TypeOK, Crash, serverVars, clientVars, lobbyVars, gameVars
<1>3. CASE HandleReady(l, c)
  <2>1. unprocessedMessages' \in [Lobbies -> Seq(Messages)]
    BY <1>1, <1>3 DEF HandleReady
  <2>2. clientsReady' \in [Lobbies -> Nat] /\ ready' \in [Clients -> BOOLEAN]
    BY <1>3 DEF TypeOK, HandleReady
  <2>3. QED
    BY <1>3, <2>1, <2>2 DEF TypeOK, HandleReady, serverVars, gameVars
<1>4. CASE HandleConfirm(l, c)
  <2>1. unprocessedMessages' \in [Lobbies -> Seq(Messages)]
    BY <1>1, <1>4 DEF HandleConfirm
  <2>2. confirmedClients' \in [Lobbies -> Seq(Clients)]
    BY <1>4 DEF TypeOK, HandleConfirm
  <2>3. QED
    BY <1>4, <2>1, <2>2 DEF TypeOK, HandleConfirm, serverVars, clientVars, lobbyVars
<1>5. CASE HandleBadBet(l, c)
  BY <1>2, <1>5 DEF HandleBadBet
<1>6. CASE HandleDecline(l, c)
  BY <1>1, <1>6, RemoveClientType DEF TypeOK, HandleDecline, serverVars
<1>7. CASE RejectTurn(l, c)
  BY <1>1, <1>7 DEF TypeOK, RejectTurn, serverVars, clientVars, lobbyVars, gameVars
<1>8. CASE AcceptTurn(l, c)
  <2> DEFINE g == blackjack[l]
  <2>1. g \in Games
    BY DEF TypeOK, Games
  <2>2. \A type : TurnOutcomes(g, type) \subseteq Games
    BY <2>1, MoveToNextPlayerType DEF TurnOutcomes
  <2>3. PICK next \in TurnOutcomes(g, Head(unprocessedMessages[l]).type) :
            /\ blackjack' = [blackjack EXCEPT ![l] = next]
            /\ turnRequest' = [turnRequest EXCEPT ![l] = SendPlayerTurnRequest(next)]
    BY <1>8 DEF AcceptTurn
  <2>4. unprocessedMessages' \in [Lobbies -> Seq(Messages)]
    BY <1>1, <1>8 DEF AcceptTurn
  <2>5. blackjack' \in [Lobbies -> Games]
    BY <2>2, <2>3 DEF TypeOK, Games
  <2>6. turnRequest' \in [Lobbies -> SUBSET Clients]
    BY <2>3, SendPlayerTurnRequestType DEF TypeOK
  <2>7. QED
    BY <1>8, <2>4, <2>5, <2>6
       DEF TypeOK, Games, AcceptTurn, serverVars, clientVars, lobbyVars
<1>9. CASE CrashOnTurn(l, c)
  BY <1>2, <1>9 DEF CrashOnTurn
<1>10. QED
  BY <1>3, <1>4, <1>5, <1>6, <1>7, <1>8, <1>9 DEF HandleMessage

(* So does every step of a lobby's state machine. *)
LEMMA HandleStateTypeOK ==
    ASSUME TypeOK, NEW l \in Lobbies, HandleState(l)
    PROVE  TypeOK'
<1>1. ASSUME NextLobby(l)
      PROVE  /\ alive' \in BOOLEAN /\ phase' \in {"handle", "select"}
             /\ handling' \in Lobbies
             /\ registered' \in [Clients -> BOOLEAN] /\ online' \in [Clients -> BOOLEAN]
             /\ unprocessedMessages' \in [Lobbies -> Seq(Messages)]
  <2>1. 0 \in Lobbies
    BY LobbyCountAssumption DEF Lobbies
  <2>2. QED
    BY <1>1, <2>1 DEF NextLobby, TypeOK
<1>2. ASSUME NEW D PROVE Without(clients[l], D) \in Seq(Clients)
  <2>1. clients[l] \in Seq(Clients)
    BY DEF TypeOK
  <2>2. QED
    BY <2>1, WithoutMembers
<1>3. CASE PrepareGame(l)
  BY <1>1, <1>3 DEF TypeOK, PrepareGame, LobbyStates, gameVars
<1>4. CASE StartGame(l)
  <2>1. NewGame(confirmedClients[l]) \in Games
    BY DEF TypeOK, NewGame, Games
  <2>2. QED
    BY <1>1, <1>2, <1>4, <2>1, SendPlayerTurnRequestType
       DEF TypeOK, StartGame, Games, LobbyStates
<1>5. CASE CrashOnStart(l)
  BY <1>5 DEF TypeOK, CrashOnStart, Crash, serverVars, clientVars, lobbyVars, gameVars
<1>6. CASE CancelGame(l)
  <2>1. /\ ready' \in [Clients -> BOOLEAN] /\ clientsReady' \in [Lobbies -> Nat]
        /\ lobbyState' \in [Lobbies -> LobbyStates]
        /\ confirmedClients' \in [Lobbies -> Seq(Clients)]
    BY <1>6 DEF TypeOK, CancelGame, ResetClientParticipation, LobbyStates
  <2>2. QED
    BY <1>1, <1>6, <2>1 DEF TypeOK, CancelGame
<1>7. CASE SkipPlayer(l)
  <2>1. MoveToNextPlayer(blackjack[l]) \in Games
    BY MoveToNextPlayerType DEF TypeOK, Games
  <2>2. QED
    BY <1>1, <1>7, <2>1, SendPlayerTurnRequestType
       DEF TypeOK, SkipPlayer, Games, lobbyVars
<1>8. CASE EndGame(l)
  BY <1>1, <1>8 DEF TypeOK, EndGame, LobbyStates, gameVars
<1>9. CASE ReturnToLobby(l)
  <2>1. NoGame \in Games
    BY DEF NoGame, Games
  <2>2. /\ ready' \in [Clients -> BOOLEAN] /\ clientsReady' \in [Lobbies -> Nat]
        /\ lobbyState' \in [Lobbies -> LobbyStates]
        /\ disconnectedClients' \in [Lobbies -> SUBSET Clients]
    BY <1>9 DEF TypeOK, ReturnToLobby, ResetClientParticipation, LobbyStates
  <2>3. /\ clients' \in [Lobbies -> Seq(Clients)]
        /\ lobbyId' \in [Clients -> Lobbies \union {NoLobby}]
    BY <1>2, <1>9 DEF TypeOK, ReturnToLobby
  <2>4. /\ blackjack' \in [Lobbies -> Games]
        /\ confirmedClients' \in [Lobbies -> Seq(Clients)]
        /\ autoSkip' \in [Lobbies -> SUBSET Clients]
    <3>1. blackjack \in [Lobbies -> Games]
      BY DEF TypeOK, Games
    <3>2. blackjack' \in [Lobbies -> Games]
      BY <1>9, <2>1, <3>1 DEF ReturnToLobby
    <3>3. confirmedClients' \in [Lobbies -> Seq(Clients)]
      BY <1>9 DEF TypeOK, ReturnToLobby
    <3>4. autoSkip' \in [Lobbies -> SUBSET Clients]
      BY <1>9 DEF TypeOK, ReturnToLobby
    <3>5. QED
      BY <3>2, <3>3, <3>4
  <2>5. QED
    BY <1>1, <1>9, <2>2, <2>3, <2>4 DEF TypeOK, ReturnToLobby, Games
<1>10. CASE NothingToDo(l)
  BY <1>1, <1>10 DEF TypeOK, NothingToDo, lobbyVars, gameVars
<1>11. QED
  BY <1>3, <1>4, <1>5, <1>6, <1>7, <1>8, <1>9, <1>10 DEF HandleState

(* Every variable of the lobbies always has its type.  This is an          *)
(* inductive invariant as it stands.                                       *)
THEOREM TypeCorrect == Spec => []TypeOK
<1>1. Init => TypeOK
  BY InitTypeOK
<1>2. TypeOK /\ [Next]_vars => TypeOK'
  <2> SUFFICES ASSUME TypeOK, [Next]_vars PROVE TypeOK'
    OBVIOUS
  <2>1. CASE ClientStep
    BY <2>1, ClientStepTypeOK
  <2>2. CASE EndSelect \/ EndErase \/ EndDisconnect
    BY <2>2, PhaseTypeOK
  <2>3. CASE Disconnection
    BY <2>3, DisconnectionTypeOK
  <2>4. CASE LobbyStep
    BY <2>4, HandleMessageTypeOK, HandleStateTypeOK DEF LobbyStep
  <2>5. CASE UNCHANGED vars
    BY <2>5 DEF TypeOK, vars, serverVars, clientVars, lobbyVars, gameVars
  <2>6. QED
    BY <2>1, <2>2, <2>3, <2>4, <2>5 DEF Next, Terminated
<1>3. QED
  BY <1>1, <1>2, PTL DEF Spec

-----------------------------------------------------------------------------
(* What one step can do to a lobby, as far as its members and its game are *)
(* concerned.  The theorems below go through these nine cases instead of   *)
(* the actions of Next.                                                    *)

SameGame(l) == lobbyState'[l] = lobbyState[l] /\ blackjack'[l] = blackjack[l]
SameBets(l) == confirmedClients'[l] = confirmedClients[l]
SameSkips(l) == autoSkip'[l] = autoSkip[l]
SameMembers(l) == Members(clients'[l]) = Members(clients[l])

Arrives(l) == lobbyState[l] = "WAITING" /\ SameGame(l) /\ SameBets(l) /\ SameSkips(l)

(* Also when nobody does. *)
Departs(l) ==
    \E D \in SUBSET Clients :
        /\ SameGame(l) /\ SameBets(l)
        /\ Members(clients'[l]) = Members(clients[l]) \ D
        /\ autoSkip'[l] = IF lobbyState[l] = "IN_GAME" THEN autoSkip[l] \union D ELSE autoSkip[l]

Bets(l) == lobbyState[l] = "PREPARING" /\ SameGame(l) /\ SameSkips(l) /\ SameMembers(l)

Plays(l) ==
    /\ lobbyState'[l] = lobbyState[l] /\ SameBets(l) /\ SameSkips(l) /\ SameMembers(l)
    /\ blackjack[l] # NoGame
    /\ blackjack'[l] \in {blackjack[l], MoveToNextPlayer(blackjack[l])}

Prepares(l) ==
    /\ lobbyState[l] = "WAITING" /\ lobbyState'[l] = "PREPARING"
    /\ blackjack'[l] = blackjack[l]
    /\ SameBets(l) /\ SameSkips(l) /\ SameMembers(l)

Starts(l) ==
    /\ lobbyState[l] = "PREPARING" /\ lobbyState'[l] = "IN_GAME"
    /\ IsPlayable(l)
    /\ blackjack'[l] = NewGame(confirmedClients[l])
    /\ SameBets(l) /\ SameSkips(l)
    /\ Members(clients'[l]) \subseteq Members(confirmedClients[l])

CallsOff(l) ==
    /\ lobbyState[l] = "PREPARING" /\ lobbyState'[l] = "WAITING"
    /\ blackjack'[l] = blackjack[l]
    /\ confirmedClients'[l] = << >>
    /\ SameSkips(l) /\ SameMembers(l)

Ends(l) ==
    /\ lobbyState[l] = "IN_GAME" /\ lobbyState'[l] = "FINISHED"
    /\ ~blackjack[l].gameRunning /\ blackjack'[l] = blackjack[l]
    /\ SameBets(l) /\ SameSkips(l) /\ SameMembers(l)

Returns(l) ==
    /\ lobbyState[l] = "FINISHED" /\ lobbyState'[l] = "WAITING"
    /\ blackjack'[l] = NoGame /\ confirmedClients'[l] = << >> /\ autoSkip'[l] = {}

Effect(l) ==
    \/ Arrives(l) \/ Departs(l) \/ Bets(l) \/ Plays(l)
    \/ Prepares(l) \/ Starts(l) \/ CallsOff(l) \/ Ends(l) \/ Returns(l)

(* A lobby that a step leaves alone. *)
LEMMA SameDeparts ==
    ASSUME NEW l, SameGame(l), SameBets(l), SameSkips(l), SameMembers(l)
    PROVE  Departs(l)
<1>1. {} \in SUBSET Clients
  OBVIOUS
<1>2. QED
  BY <1>1 DEF Departs, SameGame, SameBets, SameSkips, SameMembers

LEMMA UnchangedEffect ==
    ASSUME UNCHANGED <<lobbyState, clients, confirmedClients, autoSkip, blackjack>>
    PROVE  \A l \in Lobbies : Effect(l)
BY SameDeparts DEF Effect, SameGame, SameBets, SameSkips, SameMembers

(* removeClient is a departure from its lobby. *)
LEMMA RemoveClientEffect ==
    ASSUME TypeOK, NEW l \in Lobbies, NEW c \in Clients, RemoveClient(l, c),
           UNCHANGED <<lobbyState, confirmedClients, blackjack>>
    PROVE  \A k \in Lobbies : Effect(k)
<1>1. clients[l] \in Seq(Clients)
  BY DEF TypeOK
<1>2. Members(clients'[l]) = Members(clients[l]) \ {c}
  <2>1. clients'[l] = Without(clients[l], {c})
    BY DEF TypeOK, RemoveClient
  <2>2. QED
    BY <1>1, <2>1, WithoutMembers
<1>3. {c} \in SUBSET Clients
  OBVIOUS
<1>4. Departs(l)
  BY <1>2, <1>3 DEF TypeOK, RemoveClient, Departs, SameGame, SameBets
<1>5. ASSUME NEW k \in Lobbies, k # l PROVE Departs(k)
  BY <1>5, SameDeparts
     DEF TypeOK, RemoveClient, SameGame, SameBets, SameSkips, SameMembers
<1>6. QED
  BY <1>4, <1>5 DEF Effect

LEMMA ClientStepEffect ==
    ASSUME TypeOK, ClientStep
    PROVE  \A l \in Lobbies : Effect(l)
<1>1. PICK c \in Clients :
          \/ RegisterClient(c) \/ ReconnectClient(c) \/ LeaveLobby(c)
          \/ \E l \in Lobbies : JoinLobby(c, l)
          \/ \E type \in MessageTypes : AddNewMessage(c, type)
  BY DEF ClientStep
<1>2. CASE RegisterClient(c)
  BY <1>2, UnchangedEffect DEF RegisterClient, lobbyVars, gameVars
<1>3. CASE ReconnectClient(c)
  BY <1>3, UnchangedEffect DEF ReconnectClient
<1>4. CASE LeaveLobby(c)
  <2>1. lobbyId[c] \in Lobbies
    BY <1>4 DEF TypeOK, LeaveLobby
  <2>2. QED
    BY <1>4, <2>1, RemoveClientEffect DEF LeaveLobby
<1>5. ASSUME NEW l \in Lobbies, JoinLobby(c, l) PROVE \A k \in Lobbies : Effect(k)
  <2>1. Arrives(l)
    BY <1>5 DEF JoinLobby, IsJoinable, Arrives, SameGame, SameBets, SameSkips, gameVars
  <2>2. ASSUME NEW k \in Lobbies, k # l PROVE Departs(k)
    BY <1>5, <2>2, SameDeparts
       DEF TypeOK, JoinLobby, SameGame, SameBets, SameSkips, SameMembers, gameVars
  <2>3. QED
    BY <2>1, <2>2 DEF Effect
<1>6. ASSUME NEW type \in MessageTypes, AddNewMessage(c, type)
      PROVE  \A l \in Lobbies : Effect(l)
  BY <1>6, UnchangedEffect DEF AddNewMessage, lobbyVars, gameVars
<1>7. QED
  BY <1>1, <1>2, <1>3, <1>4, <1>5, <1>6

LEMMA DisconnectionEffect ==
    ASSUME TypeOK, Disconnection
    PROVE  \A l \in Lobbies : Effect(l)
<1>1. PICK c \in Clients : ExpireClient(c) \/ DisconnectClient(c)
  BY DEF Disconnection
<1>2. UNCHANGED <<lobbyState, confirmedClients, blackjack>>
  BY <1>1 DEF ExpireClient, DisconnectClient
<1>3. CASE LosesSeat(lobbyId[c])
  <2>1. lobbyId[c] \in Lobbies
    BY <1>3 DEF TypeOK, LosesSeat
  <2>2. RemoveClient(lobbyId[c], c)
    BY <1>1, <1>3 DEF ExpireClient, DisconnectClient
  <2>3. QED
    BY <1>2, <2>1, <2>2, RemoveClientEffect
<1>4. CASE ~LosesSeat(lobbyId[c])
  <2>1. UNCHANGED <<clients, autoSkip>>
    BY <1>1, <1>4 DEF ExpireClient, DisconnectClient
  <2>2. QED
    BY <1>2, <2>1, UnchangedEffect
<1>5. QED
  BY <1>3, <1>4

LEMMA HandleMessageEffect ==
    ASSUME TypeOK, NEW l \in Lobbies, NEW c \in Clients, HandleMessage(l, c)
    PROVE  \A k \in Lobbies : Effect(k)
<1>1. ASSUME Crash PROVE \A k \in Lobbies : Effect(k)
  BY <1>1, UnchangedEffect DEF Crash, lobbyVars, gameVars
<1>2. CASE HandleReady(l, c)
  BY <1>2, UnchangedEffect DEF HandleReady, gameVars
<1>3. CASE HandleConfirm(l, c)
  <2>1. CASE lobbyState[l] = "PREPARING"
    <3>1. Bets(l)
      BY <1>3, <2>1 DEF HandleConfirm, Bets, SameGame, SameSkips, SameMembers, lobbyVars
    <3>2. ASSUME NEW k \in Lobbies, k # l PROVE Departs(k)
      BY <1>3, <3>2, SameDeparts
         DEF TypeOK, HandleConfirm, SameGame, SameBets, SameSkips, SameMembers, lobbyVars
    <3>3. QED
      BY <3>1, <3>2 DEF Effect
  <2>2. CASE lobbyState[l] # "PREPARING"
    <3>1. confirmedClients' = confirmedClients
      BY <1>3, <2>2 DEF TypeOK, HandleConfirm
    <3>2. QED
      BY <1>3, <3>1, UnchangedEffect DEF HandleConfirm, lobbyVars
  <2>3. QED
    BY <2>1, <2>2
<1>4. CASE HandleBadBet(l, c)
  BY <1>1, <1>4 DEF HandleBadBet
<1>5. CASE HandleDecline(l, c)
  BY <1>5, RemoveClientEffect DEF HandleDecline
<1>6. CASE RejectTurn(l, c)
  BY <1>6, UnchangedEffect DEF RejectTurn, lobbyVars, gameVars
<1>7. CASE AcceptTurn(l, c)
  <2>1. Plays(l)
    BY <1>7 DEF TypeOK, AcceptTurn, TurnOutcomes, Plays, SameBets, SameSkips, SameMembers, lobbyVars
  <2>2. ASSUME NEW k \in Lobbies, k # l PROVE Departs(k)
    BY <1>7, <2>2, SameDeparts
       DEF TypeOK, AcceptTurn, SameGame, SameBets, SameSkips, SameMembers, lobbyVars
  <2>3. QED
    BY <2>1, <2>2 DEF Effect
<1>8. CASE CrashOnTurn(l, c)
  BY <1>1, <1>8 DEF CrashOnTurn
<1>9. QED
  BY <1>2, <1>3, <1>4, <1>5, <1>6, <1>7, <1>8 DEF HandleMessage

(* Whatever the state machine of lobby l does, other lobbies stay alone. *)
LEMMA HandleStateElsewhere ==
    ASSUME TypeOK, NEW l \in Lobbies, HandleState(l), NEW k \in Lobbies, k # l
    PROVE  Departs(k)
<1>1. SameGame(k)
  BY DEF HandleState, TypeOK, PrepareGame, StartGame, CrashOnStart, Crash, CancelGame, SkipPlayer,
         EndGame, ReturnToLobby, NothingToDo, lobbyVars, gameVars, SameGame
<1>2. SameBets(k) /\ SameSkips(k)
  BY DEF HandleState, TypeOK, PrepareGame, StartGame, CrashOnStart, Crash, CancelGame, SkipPlayer,
         EndGame, ReturnToLobby, NothingToDo, lobbyVars, gameVars, SameBets, SameSkips
<1>3. SameMembers(k)
  BY DEF HandleState, TypeOK, PrepareGame, StartGame, CrashOnStart, Crash, CancelGame, SkipPlayer,
         EndGame, ReturnToLobby, NothingToDo, lobbyVars, gameVars, SameMembers
<1>4. QED
  BY <1>1, <1>2, <1>3, SameDeparts

LEMMA HandleStateEffect ==
    ASSUME TypeOK, NEW l \in Lobbies, HandleState(l)
    PROVE  \A k \in Lobbies : Effect(k)
<1> SUFFICES Effect(l)
  BY HandleStateElsewhere DEF Effect
<1>1. CASE PrepareGame(l)
  BY <1>1 DEF TypeOK, PrepareGame, Drained, Prepares, Effect,
              SameBets, SameSkips, SameMembers, gameVars
<1>2. CASE StartGame(l)
  <2> DEFINE kicked == {clients[l][i] : i \in Unconfirmed(l)}
  <2>1. clients[l] \in Seq(Clients)
    BY DEF TypeOK
  <2>2. Members(clients'[l]) = Members(clients[l]) \ kicked
    <3>1. clients'[l] = Without(clients[l], kicked)
      BY <1>2 DEF TypeOK, StartGame
    <3> HIDE DEF kicked
    <3>2. QED
      BY <2>1, <3>1, WithoutMembers
  <2>3. Members(clients[l]) \ kicked \subseteq Members(confirmedClients[l])
    BY DEF Members, Unconfirmed
  <2>4. Starts(l)
    BY <1>2, <2>2, <2>3 DEF TypeOK, StartGame, Drained, Starts, SameBets, SameSkips
  <2>5. QED
    BY <2>4 DEF Effect
<1>3. CASE CrashOnStart(l)
  BY <1>3, UnchangedEffect DEF CrashOnStart, Crash, lobbyVars, gameVars
<1>4. CASE CancelGame(l)
  BY <1>4 DEF TypeOK, CancelGame, Drained, CallsOff, Effect, SameSkips, SameMembers
<1>5. CASE SkipPlayer(l)
  <2>1. blackjack[l] # NoGame
    BY <1>5 DEF SkipPlayer, NoGame
  <2>2. Plays(l)
    BY <1>5, <2>1 DEF TypeOK, SkipPlayer, Plays, SameBets, SameSkips, SameMembers, lobbyVars
  <2>3. QED
    BY <2>2 DEF Effect
<1>6. CASE EndGame(l)
  BY <1>6 DEF TypeOK, EndGame, Drained, Ends, Effect, SameBets, SameSkips, SameMembers, gameVars
<1>7. CASE ReturnToLobby(l)
  BY <1>7 DEF TypeOK, ReturnToLobby, Drained, Returns, Effect
<1>8. CASE NothingToDo(l)
  BY <1>8, UnchangedEffect DEF NothingToDo, lobbyVars, gameVars
<1>9. QED
  BY <1>1, <1>2, <1>3, <1>4, <1>5, <1>6, <1>7, <1>8 DEF HandleState

(* The nine cases cover every step. *)
LEMMA StepEffect ==
    ASSUME TypeOK, [Next]_vars
    PROVE  \A l \in Lobbies : Effect(l)
<1>1. CASE ClientStep
  BY <1>1, ClientStepEffect
<1>2. CASE EndSelect \/ EndErase \/ EndDisconnect
  BY <1>2, UnchangedEffect DEF EndSelect, EndErase, EndDisconnect, lobbyVars, gameVars
<1>3. CASE Disconnection
  BY <1>3, DisconnectionEffect
<1>4. CASE LobbyStep
  BY <1>4, HandleMessageEffect, HandleStateEffect DEF LobbyStep
<1>5. CASE UNCHANGED vars
  BY <1>5, UnchangedEffect DEF vars, lobbyVars, gameVars
<1>6. QED
  BY <1>1, <1>2, <1>3, <1>4, <1>5 DEF Next, Terminated

-----------------------------------------------------------------------------
(* The safety of the game. *)

(* What MoveToNextPlayer does to the fields of a game. *)
LEMMA MoveToNextPlayerFields ==
    ASSUME NEW g \in Games
    PROVE  /\ MoveToNextPlayer(g).players = g.players
           /\ MoveToNextPlayer(g).currentPlayerIndex = g.currentPlayerIndex + 1
           /\ MoveToNextPlayer(g).gameRunning <=>
                  g.gameRunning /\ g.currentPlayerIndex + 1 # Len(g.players)
<1> DEFINE index == g.currentPlayerIndex + 1
           running == g.gameRunning /\ index # Len(g.players)
<1>1. MoveToNextPlayer(g) = [g EXCEPT !.currentPlayerIndex = index, !.gameRunning = running]
  BY DEF MoveToNextPlayer
<1> HIDE DEF index, running
<1>2. /\ MoveToNextPlayer(g).players = g.players
      /\ MoveToNextPlayer(g).currentPlayerIndex = index
      /\ MoveToNextPlayer(g).gameRunning = running
  BY <1>1 DEF Games
<1>3. QED
  BY <1>2 DEF index, running

(* GameConsistent, of one lobby. *)
GameConsistentIn(l) ==
    /\ InGame(l) <=> blackjack[l] # NoGame
    /\ InGame(l) => /\ blackjack[l].players = confirmedClients[l]
                    /\ Len(blackjack[l].players) >= 2
    /\ blackjack[l].gameRunning <=>
           blackjack[l].currentPlayerIndex < Len(blackjack[l].players)
    /\ lobbyState[l] = "FINISHED" => ~blackjack[l].gameRunning

LEMMA GameConsistentByLobby == GameConsistent <=> \A l \in Lobbies : GameConsistentIn(l)
BY DEF GameConsistent, GameConsistentIn

(* A lobby whose game, state and bets stay as they are stays consistent. *)
LEMMA SameGameConsistent ==
    ASSUME NEW l, GameConsistentIn(l), SameGame(l), InGame(l) => SameBets(l)
    PROVE  GameConsistentIn(l)'
BY DEF GameConsistentIn, SameGame, SameBets, InGame

LEMMA GameConsistentStep ==
    ASSUME TypeOK, GameConsistent, [Next]_vars
    PROVE  GameConsistent'
<1> SUFFICES ASSUME NEW l \in Lobbies PROVE GameConsistentIn(l)'
  BY DEF GameConsistent, GameConsistentIn
<1>1. GameConsistentIn(l) /\ Effect(l)
  BY GameConsistentByLobby, StepEffect
<1>2. blackjack[l] \in Games /\ confirmedClients[l] \in Seq(Clients)
  BY DEF TypeOK, Games
<1>3. CASE Arrives(l) \/ Departs(l) \/ Bets(l)
  BY <1>1, <1>3, SameGameConsistent DEF Arrives, Departs, Bets, InGame
<1>4. CASE Plays(l)
  <2> DEFINE g == blackjack[l]
  <2>1. CASE blackjack'[l] = g
    BY <1>1, <1>4, <2>1, SameGameConsistent DEF Plays, SameGame
  <2>2. CASE blackjack'[l] = MoveToNextPlayer(g)
    <3>1. InGame(l) /\ InGame(l)'
      BY <1>1, <1>4 DEF Plays, GameConsistentIn, InGame
    <3>2. /\ g.players = confirmedClients[l] /\ Len(g.players) >= 2
          /\ g.gameRunning <=> g.currentPlayerIndex < Len(g.players)
          /\ lobbyState[l] = "FINISHED" => ~g.gameRunning
      BY <1>1, <3>1 DEF GameConsistentIn
    <3>3. /\ blackjack'[l].players = g.players
          /\ blackjack'[l].currentPlayerIndex = g.currentPlayerIndex + 1
          /\ blackjack'[l].gameRunning <=>
                 g.gameRunning /\ g.currentPlayerIndex + 1 # Len(g.players)
      BY <1>2, <2>2, MoveToNextPlayerFields
    <3>4. g.currentPlayerIndex \in Nat /\ Len(g.players) \in Nat
      BY <1>2 DEF Games
    <3>5. blackjack'[l].gameRunning <=>
              blackjack'[l].currentPlayerIndex < Len(blackjack'[l].players)
      <4>1. g.gameRunning /\ g.currentPlayerIndex + 1 # Len(g.players)
                <=> g.currentPlayerIndex + 1 < Len(g.players)
        BY <3>2, <3>4
      <4>2. QED
        BY <3>3, <4>1
    <3>6. blackjack'[l] # NoGame
      BY <3>2, <3>3 DEF NoGame
    <3>7. lobbyState'[l] = "FINISHED" => ~blackjack'[l].gameRunning
      BY <1>4, <3>2, <3>3 DEF Plays
    <3>8. blackjack'[l].players = confirmedClients'[l] /\ Len(blackjack'[l].players) >= 2
      BY <1>4, <3>2, <3>3 DEF Plays, SameBets
    <3>9. QED
      BY <3>1, <3>5, <3>6, <3>7, <3>8 DEF GameConsistentIn
  <2>3. QED
    BY <1>4, <2>1, <2>2 DEF Plays
<1>5. CASE Prepares(l)
  BY <1>1, <1>5 DEF Prepares, GameConsistentIn, InGame
<1>6. CASE Starts(l)
  <2> DEFINE g == NewGame(confirmedClients[l])
  <2>1. /\ g.players = confirmedClients[l] /\ g.currentPlayerIndex = 0 /\ g.gameRunning
        /\ g # NoGame
    BY DEF NewGame, NoGame
  <2>2. Len(confirmedClients[l]) >= 2
    BY <1>6 DEF Starts, IsPlayable
  <2>3. QED
    BY <1>2, <1>6, <2>1, <2>2 DEF Starts, SameBets, GameConsistentIn, InGame
<1>7. CASE CallsOff(l)
  BY <1>1, <1>7 DEF CallsOff, GameConsistentIn, InGame
<1>8. CASE Ends(l)
  BY <1>1, <1>8 DEF Ends, SameBets, GameConsistentIn, InGame
<1>9. CASE Returns(l)
  BY <1>9 DEF Returns, NoGame, GameConsistentIn, InGame
<1>10. QED
  BY <1>1, <1>3, <1>4, <1>5, <1>6, <1>7, <1>8, <1>9 DEF Effect

(* The state of a lobby, the game pointer, the bets and the turn index     *)
(* agree in every reachable state, so no step dereferences a null game by  *)
(* mistake about the state.  It is inductive together with the types.      *)
THEOREM GamesAreConsistent == Spec => []GameConsistent
<1>1. Init => GameConsistent
  BY DEF Init, GameConsistent, InGame, NoGame
<1>2. TypeOK /\ GameConsistent /\ [Next]_vars => GameConsistent'
  BY GameConsistentStep
<1>3. QED
  BY <1>1, <1>2, TypeCorrect, PTL DEF Spec

(* No bet and no skip outlives its game.  Inductive together with the      *)
(* types: bets are only taken, and clients only noted as skipped, in the   *)
(* states that end by clearing the lists.                                  *)
THEOREM NothingIsLeftOver == Spec => []NothingLeftOver
<1>1. Init => NothingLeftOver
  BY DEF Init, NothingLeftOver
<1>2. TypeOK /\ NothingLeftOver /\ [Next]_vars => NothingLeftOver'
  <2> SUFFICES ASSUME TypeOK, NothingLeftOver, [Next]_vars, NEW l \in Lobbies
               PROVE  /\ lobbyState'[l] = "WAITING" => confirmedClients'[l] = << >>
                      /\ ~InGame(l)' => autoSkip'[l] = {}
    BY DEF NothingLeftOver
  <2>1. Effect(l)
    BY StepEffect
  <2>2. /\ lobbyState[l] = "WAITING" => confirmedClients[l] = << >>
        /\ ~InGame(l) => autoSkip[l] = {}
    BY DEF NothingLeftOver
  <2>3. CASE Arrives(l) \/ Departs(l) \/ Bets(l) \/ Plays(l)
    BY <2>2, <2>3
       DEF Arrives, Departs, Bets, Plays, SameGame, SameBets, SameSkips, InGame
  <2>4. CASE Prepares(l) \/ Starts(l) \/ CallsOff(l) \/ Ends(l) \/ Returns(l)
    BY <2>2, <2>4
       DEF Prepares, Starts, CallsOff, Ends, Returns, SameBets, SameSkips, InGame
  <2>5. QED
    BY <2>1, <2>3, <2>4 DEF Effect
<1>3. QED
  BY <1>1, <1>2, TypeCorrect, PTL DEF Spec

(* Whoever is skipped has left.  A client can join only where no one is    *)
(* skipped, which is what NothingLeftOver adds.                            *)
THEOREM OnlyThoseWhoLeftAreSkipped == Spec => []AutoSkippedHaveLeft
<1>1. Init => AutoSkippedHaveLeft
  BY DEF Init, AutoSkippedHaveLeft
<1>2. TypeOK /\ NothingLeftOver /\ AutoSkippedHaveLeft /\ [Next]_vars => AutoSkippedHaveLeft'
  <2> SUFFICES ASSUME TypeOK, NothingLeftOver, AutoSkippedHaveLeft, [Next]_vars,
                      NEW l \in Lobbies
               PROVE  autoSkip'[l] \intersect Members(clients'[l]) = {}
    BY DEF AutoSkippedHaveLeft
  <2>1. Effect(l)
    BY StepEffect
  <2>2. autoSkip[l] \intersect Members(clients[l]) = {}
    BY DEF AutoSkippedHaveLeft
  <2>3. ~InGame(l) => autoSkip[l] = {}
    BY DEF NothingLeftOver
  <2>4. CASE Arrives(l)
    BY <2>3, <2>4 DEF Arrives, SameSkips, InGame
  <2>5. CASE Departs(l)
    BY <2>2, <2>5 DEF Departs
  <2>6. CASE Starts(l)
    BY <2>3, <2>6 DEF Starts, SameSkips, InGame
  <2>7. CASE Bets(l) \/ Plays(l) \/ Prepares(l) \/ CallsOff(l) \/ Ends(l) \/ Returns(l)
    BY <2>2, <2>7
       DEF Bets, Plays, Prepares, CallsOff, Ends, Returns, SameSkips, SameMembers
  <2>8. QED
    BY <2>1, <2>4, <2>5, <2>6, <2>7 DEF Effect
<1>3. QED
  BY <1>1, <1>2, TypeCorrect, NothingIsLeftOver, PTL DEF Spec

(* In a game the members are among the players: startGame removes those    *)
(* who did not bet, and nobody joins.                                      *)
THEOREM MembersArePlayers == Spec => []MembersPlay
<1>1. Init => MembersPlay
  BY DEF Init, MembersPlay, InGame
<1>2. TypeOK /\ MembersPlay /\ [Next]_vars => MembersPlay'
  <2> SUFFICES ASSUME TypeOK, MembersPlay, [Next]_vars,
                      NEW l \in Lobbies, InGame(l)'
               PROVE  Members(clients'[l]) \subseteq Members(blackjack'[l].players)
    BY DEF MembersPlay, InGame
  <2>1. Effect(l)
    BY StepEffect
  <2>2. InGame(l) => Members(clients[l]) \subseteq Members(blackjack[l].players)
    BY DEF MembersPlay
  <2>3. CASE Departs(l) \/ Ends(l)
    BY <2>2, <2>3 DEF Departs, Ends, SameGame, SameMembers, InGame
  <2>4. CASE Plays(l)
    <3>1. blackjack'[l].players = blackjack[l].players
      BY <2>4, MoveToNextPlayerFields DEF TypeOK, Games, Plays
    <3>2. QED
      BY <2>2, <2>4, <3>1 DEF Plays, SameMembers, InGame
  <2>5. CASE Starts(l)
    BY <2>5 DEF Starts, NewGame
  <2>6. CASE Arrives(l) \/ Bets(l) \/ Prepares(l) \/ CallsOff(l) \/ Returns(l)
    BY <2>6 DEF Arrives, Bets, Prepares, CallsOff, Returns, SameGame, InGame
  <2>7. QED
    BY <2>1, <2>3, <2>4, <2>5, <2>6 DEF Effect
<1>3. QED
  BY <1>1, <1>2, TypeCorrect, PTL DEF Spec
=============================================================================
