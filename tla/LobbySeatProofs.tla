--------------------------- MODULE LobbySeatProofs ---------------------------
(***************************************************************************)
(* Theorems about the seats of the clients: what ties a client's lobbyId   *)
(* and its connection to the members, the disconnected clients and the     *)
(* requests for turns of the lobbies, for any clients, any number of       *)
(* lobbies, any limit and any bounds.                                      *)
(***************************************************************************)
EXTENDS LobbyProofs

(* What a step does to the seats.  A registration forgets the lobbyId of   *)
(* the object it takes the place of.                                       *)
KeepsSeats == UNCHANGED <<clients, lobbyId>>
Registers == \E c \in Clients : UNCHANGED clients /\ lobbyId' = [lobbyId EXCEPT ![c] = NoLobby]
Joins ==
    \E c \in Clients, l \in Lobbies :
        /\ clients' = [clients EXCEPT ![l] = Append(@, c)]
        /\ lobbyId' = [lobbyId EXCEPT ![c] = l]
Removes(l, D) ==
    /\ clients' = [clients EXCEPT ![l] = Without(@, D)]
    /\ lobbyId' = [c \in Clients |-> IF c \in D THEN NoLobby ELSE lobbyId[c]]
SomeLeave == \E l \in Lobbies : \E D \in SUBSET Clients : Removes(l, D)

SeatEffect == KeepsSeats \/ Registers \/ Joins \/ SomeLeave

(* Lobby::removeClient is a removal. *)
LEMMA RemoveClientRemoves ==
    ASSUME TypeOK, NEW l \in Lobbies, NEW c \in Clients, RemoveClient(l, c)
    PROVE  SomeLeave
<1>1. Removes(l, {c})
  BY DEF TypeOK, RemoveClient, Removes
<1>2. {c} \in SUBSET Clients
  OBVIOUS
<1>3. QED
  BY <1>1, <1>2 DEF SomeLeave

(* The four cases cover every step. *)
LEMMA StepSeatEffect ==
    ASSUME TypeOK, [Next]_vars
    PROVE  SeatEffect
<1>1. CASE ClientStep
  <2>1. PICK c \in Clients :
            \/ RegisterClient(c) \/ ReconnectClient(c) \/ LeaveLobby(c)
            \/ \E l \in Lobbies : JoinLobby(c, l)
            \/ \E type \in MessageTypes : AddNewMessage(c, type)
    BY <1>1 DEF ClientStep
  <2>2. CASE RegisterClient(c)
    BY <2>2 DEF RegisterClient, lobbyVars, SeatEffect, Registers
  <2>3. CASE ReconnectClient(c)
    BY <2>3 DEF ReconnectClient, SeatEffect, KeepsSeats
  <2>4. CASE LeaveLobby(c)
    BY <2>4, RemoveClientRemoves DEF TypeOK, LeaveLobby, SeatEffect
  <2>5. CASE \E l \in Lobbies : JoinLobby(c, l)
    BY <2>5 DEF JoinLobby, SeatEffect, Joins
  <2>6. CASE \E type \in MessageTypes : AddNewMessage(c, type)
    BY <2>6 DEF AddNewMessage, clientVars, lobbyVars, SeatEffect, KeepsSeats
  <2>7. QED
    BY <2>1, <2>2, <2>3, <2>4, <2>5, <2>6
<1>2. CASE EndSelect \/ EndErase \/ EndDisconnect
  BY <1>2 DEF EndSelect, EndErase, EndDisconnect, clientVars, lobbyVars, SeatEffect, KeepsSeats
<1>3. CASE Disconnection
  <2>1. PICK c \in Clients : ExpireClient(c) \/ DisconnectClient(c)
    BY <1>3 DEF Disconnection
  <2>2. CASE LosesSeat(lobbyId[c])
    <3>1. lobbyId[c] \in Lobbies
      BY <2>2 DEF TypeOK, LosesSeat
    <3>2. RemoveClient(lobbyId[c], c)
      BY <2>1, <2>2 DEF ExpireClient, DisconnectClient
    <3>3. QED
      BY <3>1, <3>2, RemoveClientRemoves DEF SeatEffect
  <2>3. CASE ~LosesSeat(lobbyId[c])
    BY <2>1, <2>3 DEF ExpireClient, DisconnectClient, SeatEffect, KeepsSeats
  <2>4. QED
    BY <2>2, <2>3
<1>4. ASSUME NEW l \in Lobbies, NEW c \in Clients, HandleMessage(l, c) PROVE SeatEffect
  <2>1. CASE HandleDecline(l, c)
    BY <2>1, RemoveClientRemoves DEF HandleDecline, SeatEffect
  <2>2. CASE HandleReady(l, c) \/ HandleConfirm(l, c) \/ RejectTurn(l, c) \/ AcceptTurn(l, c)
    BY <2>2 DEF HandleReady, HandleConfirm, RejectTurn, AcceptTurn,
                clientVars, lobbyVars, SeatEffect, KeepsSeats
  <2>3. CASE HandleBadBet(l, c) \/ CrashOnTurn(l, c)
    BY <2>3 DEF HandleBadBet, CrashOnTurn, Crash, clientVars, lobbyVars, SeatEffect, KeepsSeats
  <2>4. QED
    BY <1>4, <2>1, <2>2, <2>3 DEF HandleMessage
<1>5. ASSUME NEW l \in Lobbies, HandleState(l) PROVE SeatEffect
  <2>1. CASE StartGame(l)
    <3> DEFINE kicked == {clients[l][i] : i \in Unconfirmed(l)}
    <3>1. kicked \in SUBSET Clients
      BY DEF TypeOK, Unconfirmed
    <3>2. Removes(l, kicked)
      BY <2>1 DEF StartGame, Removes
    <3>3. QED
      BY <3>1, <3>2 DEF SomeLeave, SeatEffect
  <2>2. CASE ReturnToLobby(l)
    <3>1. disconnectedClients[l] \in SUBSET Clients
      BY DEF TypeOK
    <3>2. Removes(l, disconnectedClients[l])
      BY <2>2 DEF ReturnToLobby, Removes
    <3>3. QED
      BY <3>1, <3>2 DEF SomeLeave, SeatEffect
  <2>3. CASE PrepareGame(l) \/ CancelGame(l) \/ SkipPlayer(l) \/ EndGame(l) \/ NothingToDo(l)
    BY <2>3 DEF PrepareGame, CancelGame, SkipPlayer, EndGame, NothingToDo,
                lobbyVars, SeatEffect, KeepsSeats
  <2>4. CASE CrashOnStart(l)
    BY <2>4 DEF CrashOnStart, Crash, clientVars, lobbyVars, SeatEffect, KeepsSeats
  <2>5. QED
    BY <1>5, <2>1, <2>2, <2>3, <2>4 DEF HandleState
<1>6. CASE UNCHANGED vars
  BY <1>6 DEF vars, clientVars, lobbyVars, SeatEffect, KeepsSeats
<1>7. QED
  BY <1>1, <1>2, <1>3, <1>4, <1>5, <1>6 DEF Next, LobbyStep, Terminated

(* A client that believes to be in a lobby is a member of it, though it    *)
(* may join several and removals are carried out late: joining names the   *)
(* lobby joined, and every removal clears the name, from whichever lobby   *)
(* it removes.  Inductive together with the types.                         *)
THEOREM EachHasItsSeat == Spec => []LobbyIdIsASeat
<1>1. Init => LobbyIdIsASeat
  BY DEF Init, LobbyIdIsASeat
<1>2. TypeOK /\ LobbyIdIsASeat /\ [Next]_vars => LobbyIdIsASeat'
  <2> SUFFICES ASSUME TypeOK, LobbyIdIsASeat, [Next]_vars,
                      NEW c \in Clients, lobbyId'[c] # NoLobby
               PROVE  c \in Members(clients'[lobbyId'[c]])
    BY DEF LobbyIdIsASeat
  <2>1. lobbyId[c] # NoLobby =>
            /\ lobbyId[c] \in Lobbies
            /\ clients[lobbyId[c]] \in Seq(Clients)
            /\ c \in Members(clients[lobbyId[c]])
    BY DEF TypeOK, LobbyIdIsASeat
  <2>2. CASE KeepsSeats
    BY <2>1, <2>2 DEF KeepsSeats
  <2>3. CASE Registers
    BY <2>1, <2>3 DEF TypeOK, Registers
  <2>4. CASE Joins
    <3>1. PICK d \in Clients, l \in Lobbies :
              /\ clients' = [clients EXCEPT ![l] = Append(@, d)]
              /\ lobbyId' = [lobbyId EXCEPT ![d] = l]
      BY <2>4 DEF Joins
    <3>2. clients[l] \in Seq(Clients)
      BY DEF TypeOK
    <3>3. Members(clients'[l]) = Members(clients[l]) \union {d}
      BY <3>1, <3>2, AppendMembers DEF TypeOK
    <3>4. QED
      BY <2>1, <3>1, <3>3 DEF TypeOK
  <2>5. CASE SomeLeave
    <3>1. PICK l \in Lobbies, D \in SUBSET Clients : Removes(l, D)
      BY <2>5 DEF SomeLeave
    <3>2. c \notin D /\ lobbyId'[c] = lobbyId[c]
      BY <3>1 DEF Removes
    <3>3. clients[l] \in Seq(Clients)
      BY DEF TypeOK
    <3>4. Members(clients'[l]) = Members(clients[l]) \ D
      BY <3>1, <3>3, WithoutMembers DEF TypeOK, Removes
    <3>5. QED
      BY <2>1, <3>1, <3>2, <3>4 DEF TypeOK, Removes
  <2>6. QED
    BY <2>2, <2>3, <2>4, <2>5, StepSeatEffect DEF SeatEffect
<1>3. QED
  BY <1>1, <1>2, TypeCorrect, PTL DEF Spec

(* OfflineAreScheduled, of one client. *)
Scheduled(c) ==
    registered[c] /\ ~online[c] /\ lobbyId[c] # NoLobby
        => c \in disconnectedClients[lobbyId[c]]

(* Leaving every list and connection as it is keeps a client scheduled,    *)
(* and so does forgetting its lobby.                                       *)
LEMMA UnchangedScheduled ==
    ASSUME NEW c, Scheduled(c), UNCHANGED <<registered, online, disconnectedClients>>,
           lobbyId'[c] \in {lobbyId[c], NoLobby}
    PROVE  Scheduled(c)'
BY DEF Scheduled

LEMMA RemoveClientScheduled ==
    ASSUME TypeOK, NEW l \in Lobbies, NEW c \in Clients, RemoveClient(l, c), NEW d \in Clients
    PROVE  lobbyId'[d] \in {lobbyId[d], NoLobby} /\ lobbyId'[c] = NoLobby
BY DEF TypeOK, RemoveClient

LEMMA ScheduledStep ==
    ASSUME TypeOK, [Next]_vars, NEW d \in Clients, Scheduled(d)
    PROVE  Scheduled(d)'
<1>1. CASE ClientStep
  <2>1. PICK c \in Clients :
            \/ RegisterClient(c) \/ ReconnectClient(c) \/ LeaveLobby(c)
            \/ \E l \in Lobbies : JoinLobby(c, l)
            \/ \E type \in MessageTypes : AddNewMessage(c, type)
    BY <1>1 DEF ClientStep
  <2>2. CASE RegisterClient(c)
    BY <2>2 DEF TypeOK, RegisterClient, Scheduled, lobbyVars
  <2>3. CASE ReconnectClient(c)
    <3>1. /\ registered' = registered /\ lobbyId' = lobbyId
          /\ online' = [online EXCEPT ![c] = TRUE]
          /\ \A l \in Lobbies : disconnectedClients[l] \ {c} \subseteq disconnectedClients'[l]
      BY <2>3 DEF ReconnectClient
    <3>2. QED
      BY <3>1 DEF TypeOK, Scheduled
  <2>4. CASE LeaveLobby(c)
    <3>1. lobbyId[c] \in Lobbies
      BY <2>4 DEF TypeOK, LeaveLobby
    <3>2. QED
      BY <2>4, <3>1, RemoveClientScheduled, UnchangedScheduled DEF LeaveLobby
  <2>5. CASE \E l \in Lobbies : JoinLobby(c, l)
    BY <2>5 DEF TypeOK, JoinLobby, Scheduled
  <2>6. CASE \E type \in MessageTypes : AddNewMessage(c, type)
    BY <2>6, UnchangedScheduled DEF AddNewMessage, clientVars, lobbyVars
  <2>7. QED
    BY <2>1, <2>2, <2>3, <2>4, <2>5, <2>6
<1>2. CASE EndSelect \/ EndErase \/ EndDisconnect
  BY <1>2, UnchangedScheduled DEF EndSelect, EndErase, EndDisconnect, clientVars, lobbyVars
<1>3. CASE Disconnection
  <2>1. PICK c \in Clients : ExpireClient(c) \/ DisconnectClient(c)
    BY <1>3 DEF Disconnection
  <2>2. lobbyId[c] \in Lobbies \/ lobbyId[c] = NoLobby
    BY DEF TypeOK
  <2>3. lobbyId'[d] \in {lobbyId[d], NoLobby}
    BY <2>1, <2>2, RemoveClientScheduled DEF ExpireClient, DisconnectClient, LosesSeat
  <2>4. CASE ExpireClient(c)
    BY <2>3, <2>4 DEF TypeOK, ExpireClient, Scheduled
  <2>5. CASE DisconnectClient(c)
    <3>1. CASE LosesSeat(lobbyId[c])
      <4>1. lobbyId'[c] = NoLobby
        BY <2>2, <2>5, <3>1, RemoveClientScheduled DEF DisconnectClient, LosesSeat
      <4>2. QED
        BY <2>3, <2>5, <3>1, <4>1 DEF TypeOK, DisconnectClient, Scheduled
    <3>2. CASE ~LosesSeat(lobbyId[c])
      BY <2>2, <2>5, <3>2 DEF TypeOK, DisconnectClient, AddDisconnectedClient, Scheduled
    <3>3. QED
      BY <3>1, <3>2
  <2>6. QED
    BY <2>1, <2>4, <2>5
<1>4. ASSUME NEW l \in Lobbies, NEW c \in Clients, HandleMessage(l, c) PROVE Scheduled(d)'
  <2>1. CASE HandleDecline(l, c)
    BY <2>1, RemoveClientScheduled, UnchangedScheduled DEF HandleDecline
  <2>2. CASE HandleReady(l, c) \/ HandleConfirm(l, c) \/ RejectTurn(l, c) \/ AcceptTurn(l, c)
    BY <2>2, UnchangedScheduled
       DEF HandleReady, HandleConfirm, RejectTurn, AcceptTurn, clientVars, lobbyVars
  <2>3. CASE HandleBadBet(l, c) \/ CrashOnTurn(l, c)
    BY <2>3, UnchangedScheduled DEF HandleBadBet, CrashOnTurn, Crash, clientVars, lobbyVars
  <2>4. QED
    BY <1>4, <2>1, <2>2, <2>3 DEF HandleMessage
<1>5. ASSUME NEW l \in Lobbies, HandleState(l) PROVE Scheduled(d)'
  <2>1. CASE StartGame(l)
    BY <2>1, UnchangedScheduled DEF StartGame, NextLobby
  <2>2. CASE ReturnToLobby(l)
    <3>1. /\ registered' = registered /\ online' = online
          /\ disconnectedClients' = [disconnectedClients EXCEPT ![l] = {}]
          /\ lobbyId' = [c \in Clients |->
                 IF c \in disconnectedClients[l] THEN NoLobby ELSE lobbyId[c]]
      BY <2>2 DEF ReturnToLobby, NextLobby
    <3>2. QED
      BY <3>1 DEF TypeOK, Scheduled
  <2>3. CASE PrepareGame(l) \/ CancelGame(l) \/ SkipPlayer(l) \/ EndGame(l) \/ NothingToDo(l)
    BY <2>3, UnchangedScheduled
       DEF PrepareGame, CancelGame, SkipPlayer, EndGame, NothingToDo, NextLobby, lobbyVars
  <2>4. CASE CrashOnStart(l)
    BY <2>4, UnchangedScheduled DEF CrashOnStart, Crash, clientVars, lobbyVars
  <2>5. QED
    BY <1>5, <2>1, <2>2, <2>3, <2>4 DEF HandleState
<1>6. CASE UNCHANGED vars
  BY <1>6, UnchangedScheduled DEF vars, clientVars, lobbyVars
<1>7. QED
  BY <1>1, <1>2, <1>3, <1>4, <1>5, <1>6 DEF Next, LobbyStep, Terminated

(* A registered client without a connection that has a lobby is on the     *)
(* list of those that the lobby removes after its game: only a login takes *)
(* it off, and that gives it a connection.  Inductive with the types.      *)
THEOREM TheOfflineAreScheduled == Spec => []OfflineAreScheduled
<1>1. Init => OfflineAreScheduled
  BY DEF Init, OfflineAreScheduled
<1>2. TypeOK /\ OfflineAreScheduled /\ [Next]_vars => OfflineAreScheduled'
  <2>1. OfflineAreScheduled <=> \A c \in Clients : Scheduled(c)
    BY DEF OfflineAreScheduled, Scheduled
  <2>2. (\A c \in Clients : Scheduled(c)') => OfflineAreScheduled'
    BY DEF OfflineAreScheduled, Scheduled
  <2>3. QED
    BY <2>1, <2>2, ScheduledStep
<1>3. QED
  BY <1>1, <1>2, TypeCorrect, PTL DEF Spec

-----------------------------------------------------------------------------
(* The turns: the player whose turn it is knows. *)

(* CurrentPlayerPrompted, of one lobby. *)
Prompted(l) ==
    LET c == CurrentPlayer(blackjack[l])
    IN  blackjack[l].gameRunning =>
            (online[c] /\ registered[c] /\ lobbyId[c] = l => turnRequest[l] = {c})

(* A step that changes neither the game nor the requests nor connections,  *)
(* and gives no client lobby l, leaves the current player prompted.        *)
LEMMA UnchangedPrompted ==
    ASSUME TypeOK, GameConsistent, NEW l \in Lobbies, Prompted(l),
           UNCHANGED <<registered, online>>,
           blackjack'[l] = blackjack[l], turnRequest'[l] = turnRequest[l],
           \A c \in Clients : lobbyId'[c] \in {lobbyId[c], NoLobby}
    PROVE  Prompted(l)'
<1> DEFINE c == CurrentPlayer(blackjack[l])
<1> SUFFICES ASSUME blackjack[l].gameRunning, online[c], registered[c], lobbyId'[c] = l
             PROVE  turnRequest[l] = {c}
  BY DEF Prompted, CurrentPlayer
<1>1. c \in Clients
  BY DEF TypeOK, GameConsistent, CurrentPlayer
<1>2. l # NoLobby
  BY LobbyCountAssumption DEF Lobbies, NoLobby
<1>3. QED
  BY <1>1, <1>2 DEF Prompted

(* The request for a turn goes to the player whose turn it is. *)
LEMMA RequestIsSent ==
    ASSUME NEW g \in Games, g.gameRunning, g.currentPlayerIndex < Len(g.players),
           online[CurrentPlayer(g)]
    PROVE  SendPlayerTurnRequest(g) = {CurrentPlayer(g)}
<1>1. CurrentPlayer(g) \in Clients
  BY DEF Games, CurrentPlayer
<1>2. QED
  BY <1>1 DEF SendPlayerTurnRequest

(* A step that sends the request for the game that it leads to. *)
LEMMA SendingPrompts ==
    ASSUME TypeOK', GameConsistent', NEW l \in Lobbies, online' = online,
           turnRequest'[l] = SendPlayerTurnRequest(blackjack'[l])
    PROVE  Prompted(l)'
<1> DEFINE g == blackjack'[l]
<1>1. g \in Games /\ (g.gameRunning => g.currentPlayerIndex < Len(g.players))
  BY DEF TypeOK, GameConsistent, Games
<1> HIDE DEF g
<1>2. g.gameRunning /\ online[CurrentPlayer(g)] => SendPlayerTurnRequest(g) = {CurrentPlayer(g)}
  BY <1>1, RequestIsSent
<1>3. QED
  BY <1>2 DEF g, Prompted, CurrentPlayer

LEMMA PromptedStep ==
    ASSUME TypeOK, GameConsistent, LobbyIdIsASeat, [Next]_vars, TypeOK', GameConsistent',
           NEW l \in Lobbies, Prompted(l)
    PROVE  Prompted(l)'
<1> DEFINE g == blackjack[l]
           cur == CurrentPlayer(g)
<1>1. g.gameRunning => cur \in Clients /\ InGame(l) /\ lobbyState[l] # "WAITING"
  <2> SUFFICES ASSUME g.gameRunning PROVE cur \in Clients /\ InGame(l)
    BY DEF InGame
  <2>1. g \in Games /\ GameConsistentIn(l)
    BY GameConsistentByLobby DEF TypeOK, Games
  <2>2. g # NoGame
    BY DEF NoGame
  <2>3. g.currentPlayerIndex + 1 \in 1 .. Len(g.players) /\ g.players \in Seq(Clients)
    BY <2>1 DEF GameConsistentIn, Games
  <2>4. QED
    BY <2>1, <2>2, <2>3 DEF GameConsistentIn, CurrentPlayer
<1>2. CASE ClientStep
  <2>1. PICK d \in Clients :
            \/ RegisterClient(d) \/ ReconnectClient(d) \/ LeaveLobby(d)
            \/ \E k \in Lobbies : JoinLobby(d, k)
            \/ \E type \in MessageTypes : AddNewMessage(d, type)
    BY <1>2 DEF ClientStep
  <2>2. l # NoLobby
    BY LobbyCountAssumption DEF Lobbies, NoLobby
  <2>3. CASE RegisterClient(d)
    <3>1. /\ blackjack' = blackjack /\ turnRequest' = turnRequest
          /\ registered' = [registered EXCEPT ![d] = TRUE]
          /\ online' = [online EXCEPT ![d] = TRUE]
          /\ lobbyId' = [lobbyId EXCEPT ![d] = NoLobby]
      BY <2>3 DEF RegisterClient, gameVars
    <3> SUFFICES ASSUME g.gameRunning, online'[cur], registered'[cur], lobbyId'[cur] = l
                 PROVE  turnRequest[l] = {cur}
      BY <3>1 DEF Prompted, CurrentPlayer
    <3>2. cur # d
      BY <1>1, <2>2, <3>1 DEF TypeOK
    <3>3. QED
      BY <1>1, <3>1, <3>2 DEF TypeOK, Prompted
  <2>4. CASE ReconnectClient(d)
    <3>1. /\ UNCHANGED <<registered, lobbyId, blackjack>>
          /\ online' = [online EXCEPT ![d] = TRUE]
          /\ turnRequest'[l] = IF HasLobby(d) /\ lobbyId[d] = l /\ InGame(l) /\ IsPromptedAgain(l, d)
                               THEN {d} ELSE turnRequest[l] \ {d}
      BY <2>4 DEF ReconnectClient
    <3> SUFFICES ASSUME g.gameRunning, online'[cur], registered[cur], lobbyId[cur] = l
                 PROVE  turnRequest'[l] = {cur}
      BY <3>1 DEF Prompted, CurrentPlayer
    <3>2. CASE d = cur
      <4>1. HasLobby(cur)
        BY <1>1, <2>2 DEF HasLobby, LobbyIdIsASeat
      <4>2. IsPromptedAgain(l, cur)
        BY DEF IsPromptedAgain
      <4>3. QED
        BY <1>1, <3>1, <3>2, <4>1, <4>2
    <3>3. CASE d # cur
      <4>1. online[cur]
        BY <1>1, <3>1, <3>3 DEF TypeOK
      <4>2. turnRequest[l] = {cur}
        BY <4>1 DEF Prompted
      <4>3. ~IsPromptedAgain(l, d)
        BY <3>3 DEF IsPromptedAgain
      <4>4. QED
        BY <3>1, <3>3, <4>2, <4>3
    <3>4. QED
      BY <3>2, <3>3
  <2>5. CASE LeaveLobby(d)
    <3>1. lobbyId[d] \in Lobbies
      BY <2>5 DEF TypeOK, LeaveLobby
    <3>2. QED
      BY <2>5, <3>1, RemoveClientScheduled, UnchangedPrompted DEF LeaveLobby
  <2>6. ASSUME NEW k \in Lobbies, JoinLobby(d, k) PROVE Prompted(l)'
    <3>1. /\ UNCHANGED <<registered, online, blackjack, turnRequest>>
          /\ lobbyId' = [lobbyId EXCEPT ![d] = k]
          /\ lobbyState[k] = "WAITING"
      BY <2>6 DEF JoinLobby, IsJoinable, gameVars
    <3>2. g.gameRunning => k # l
      BY <1>1, <3>1
    <3>3. \A c \in Clients : lobbyId'[c] = l => lobbyId[c] = l \/ k = l
      BY <3>1 DEF TypeOK
    <3>4. blackjack'[l] = blackjack[l] /\ turnRequest'[l] = turnRequest[l]
      BY <3>1
    <3>5. QED
      BY <1>1, <3>1, <3>2, <3>3, <3>4 DEF Prompted, CurrentPlayer
  <2>7. CASE \E type \in MessageTypes : AddNewMessage(d, type)
    BY <2>7, UnchangedPrompted DEF AddNewMessage, clientVars, gameVars
  <2>8. QED
    BY <2>1, <2>3, <2>4, <2>5, <2>6, <2>7
<1>3. CASE EndSelect \/ EndErase \/ EndDisconnect
  BY <1>3, UnchangedPrompted DEF EndSelect, EndErase, EndDisconnect, clientVars, gameVars
<1>4. CASE Disconnection
  <2>1. PICK d \in Clients : ExpireClient(d) \/ DisconnectClient(d)
    BY <1>4 DEF Disconnection
  <2>2. lobbyId[d] \in Lobbies \/ lobbyId[d] = NoLobby
    BY DEF TypeOK
  <2>3. \A c \in Clients : lobbyId'[c] \in {lobbyId[c], NoLobby}
    BY <2>1, <2>2, RemoveClientScheduled DEF ExpireClient, DisconnectClient, LosesSeat
  <2>4. l # NoLobby
    BY LobbyCountAssumption DEF Lobbies, NoLobby
  <2>5. CASE ExpireClient(d)
    <3>1. /\ UNCHANGED <<online, blackjack, turnRequest>>
          /\ registered' = [registered EXCEPT ![d] = FALSE]
      BY <2>5 DEF ExpireClient
    <3> SUFFICES ASSUME g.gameRunning, online[cur], registered'[cur], lobbyId'[cur] = l
                 PROVE  turnRequest[l] = {cur}
      BY <3>1 DEF Prompted, CurrentPlayer
    <3>2. registered[cur] /\ lobbyId[cur] = l
      BY <1>1, <2>3, <2>4, <3>1 DEF TypeOK
    <3>3. QED
      BY <3>2 DEF Prompted
  <2>6. CASE DisconnectClient(d)
    <3>1. /\ UNCHANGED <<registered, blackjack>>
          /\ online' = [online EXCEPT ![d] = FALSE]
          /\ turnRequest'[l] = turnRequest[l] \ {d}
      BY <2>6 DEF DisconnectClient
    <3> SUFFICES ASSUME g.gameRunning, online'[cur], registered[cur], lobbyId'[cur] = l
                 PROVE  turnRequest'[l] = {cur}
      BY <3>1 DEF Prompted, CurrentPlayer
    <3>2. cur # d /\ online[cur] /\ lobbyId[cur] = l
      BY <1>1, <2>3, <2>4, <3>1 DEF TypeOK
    <3>3. turnRequest[l] = {cur}
      BY <3>2 DEF Prompted
    <3>4. QED
      BY <3>1, <3>2, <3>3
  <2>7. QED
    BY <2>1, <2>5, <2>6
<1>5. ASSUME NEW k \in Lobbies, NEW d \in Clients, HandleMessage(k, d) PROVE Prompted(l)'
  <2>1. CASE AcceptTurn(k, d)
    <3>1. PICK next : /\ blackjack' = [blackjack EXCEPT ![k] = next]
                      /\ turnRequest' = [turnRequest EXCEPT ![k] = SendPlayerTurnRequest(next)]
      BY <2>1 DEF AcceptTurn
    <3>2. UNCHANGED <<registered, online, lobbyId>>
      BY <2>1 DEF AcceptTurn, clientVars
    <3>3. CASE k = l
      <4>1. turnRequest'[l] = SendPlayerTurnRequest(blackjack'[l])
        BY <3>1, <3>3 DEF TypeOK
      <4>2. QED
        BY <3>2, <4>1, SendingPrompts
    <3>4. CASE k # l
      BY <3>1, <3>2, <3>4, UnchangedPrompted DEF TypeOK
    <3>5. QED
      BY <3>3, <3>4
  <2>2. CASE HandleDecline(k, d)
    BY <2>2, RemoveClientScheduled, UnchangedPrompted DEF HandleDecline
  <2>3. CASE HandleReady(k, d) \/ HandleConfirm(k, d) \/ RejectTurn(k, d)
    BY <2>3, UnchangedPrompted DEF HandleReady, HandleConfirm, RejectTurn, clientVars, gameVars
  <2>4. CASE HandleBadBet(k, d) \/ CrashOnTurn(k, d)
    BY <2>4, UnchangedPrompted DEF HandleBadBet, CrashOnTurn, Crash, clientVars, gameVars
  <2>5. QED
    BY <1>5, <2>1, <2>2, <2>3, <2>4 DEF HandleMessage
<1>6. ASSUME NEW k \in Lobbies, HandleState(k) PROVE Prompted(l)'
  <2>1. CASE StartGame(k) \/ SkipPlayer(k)
    <3>1. PICK next : /\ blackjack' = [blackjack EXCEPT ![k] = next]
                      /\ turnRequest' = [turnRequest EXCEPT ![k] = SendPlayerTurnRequest(next)]
      BY <2>1 DEF StartGame, SkipPlayer
    <3>2. UNCHANGED <<registered, online>>
      BY <2>1 DEF StartGame, SkipPlayer, NextLobby
    <3>3. \A c \in Clients : lobbyId'[c] \in {lobbyId[c], NoLobby}
      BY <2>1 DEF StartGame, SkipPlayer
    <3>4. CASE k = l
      <4>1. turnRequest'[l] = SendPlayerTurnRequest(blackjack'[l])
        BY <3>1, <3>4 DEF TypeOK
      <4>2. QED
        BY <3>2, <4>1, SendingPrompts
    <3>5. CASE k # l
      BY <3>1, <3>2, <3>3, <3>5, UnchangedPrompted DEF TypeOK
    <3>6. QED
      BY <3>4, <3>5
  <2>2. CASE ReturnToLobby(k)
    <3>1. /\ UNCHANGED <<registered, online, turnRequest>>
          /\ blackjack' = [blackjack EXCEPT ![k] = NoGame]
          /\ \A c \in Clients : lobbyId'[c] \in {lobbyId[c], NoLobby}
      BY <2>2 DEF ReturnToLobby, NextLobby
    <3>2. CASE k = l
      BY <3>1, <3>2 DEF TypeOK, Prompted, NoGame
    <3>3. CASE k # l
      BY <3>1, <3>3, UnchangedPrompted DEF TypeOK
    <3>4. QED
      BY <3>2, <3>3
  <2>3. CASE PrepareGame(k) \/ CancelGame(k) \/ EndGame(k) \/ NothingToDo(k)
    BY <2>3, UnchangedPrompted
       DEF PrepareGame, CancelGame, EndGame, NothingToDo, NextLobby, gameVars
  <2>4. CASE CrashOnStart(k)
    BY <2>4, UnchangedPrompted DEF CrashOnStart, Crash, clientVars, gameVars
  <2>5. QED
    BY <1>6, <2>1, <2>2, <2>3, <2>4 DEF HandleState
<1>7. CASE UNCHANGED vars
  BY <1>7, UnchangedPrompted DEF vars, clientVars, gameVars
<1>8. QED
  BY <1>2, <1>3, <1>4, <1>5, <1>6, <1>7 DEF Next, LobbyStep, Terminated

(* However the turn comes to a player, at the start, after a turn, after a *)
(* skip or by its reconnection, it has been asked for it if it is there.   *)
(* The proof needs that a running game belongs to a lobby in a game, with  *)
(* the index inside the players (GameConsistent), and that a client that   *)
(* returns finds its lobby (LobbyIdIsASeat).                               *)
THEOREM TheCurrentPlayerIsPrompted == Spec => []CurrentPlayerPrompted
<1>1. CurrentPlayerPrompted <=> \A l \in Lobbies : Prompted(l)
  BY DEF CurrentPlayerPrompted, Prompted
<1>2. Init => CurrentPlayerPrompted
  BY DEF Init, CurrentPlayerPrompted, NoGame
<1>3. /\ TypeOK /\ GameConsistent /\ LobbyIdIsASeat /\ CurrentPlayerPrompted
      /\ [Next]_vars /\ TypeOK' /\ GameConsistent'
      => CurrentPlayerPrompted'
  <2>1. (\A l \in Lobbies : Prompted(l)') => CurrentPlayerPrompted'
    BY DEF CurrentPlayerPrompted, Prompted
  <2>2. QED
    BY <1>1, <2>1, PromptedStep
<1>4. QED
  BY <1>2, <1>3, TypeCorrect, GamesAreConsistent, EachHasItsSeat, PTL DEF Spec
=============================================================================
