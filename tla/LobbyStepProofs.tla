--------------------------- MODULE LobbyStepProofs ---------------------------
(***************************************************************************)
(* Theorems about what a step of the lobbies may never do, and that the    *)
(* lobbies implement what modules Tables and Sessions promise, for any     *)
(* clients, any number of lobbies, any limit and any bounds.               *)
(***************************************************************************)
EXTENDS LobbyProofs

(* The actions that change the game of lobby l. *)
LEMMA WhoChangesTheGame ==
    ASSUME TypeOK, [Next]_vars, NEW l \in Lobbies, blackjack'[l] # blackjack[l]
    PROVE  \/ \E c \in Clients : AcceptTurn(l, c)
           \/ StartGame(l) \/ SkipPlayer(l) \/ ReturnToLobby(l)
<1>1. ASSUME blackjack' = blackjack PROVE FALSE
  BY <1>1
<1>2. CASE ClientStep
  BY <1>1, <1>2 DEF ClientStep, RegisterClient, ReconnectClient, LeaveLobby, JoinLobby,
                    AddNewMessage, gameVars
<1>3. CASE EndSelect \/ EndErase \/ EndDisconnect
  BY <1>1, <1>3 DEF EndSelect, EndErase, EndDisconnect, gameVars
<1>4. CASE Disconnection
  BY <1>1, <1>4 DEF Disconnection, ExpireClient, DisconnectClient
<1>5. ASSUME NEW k \in Lobbies, NEW c \in Clients, HandleMessage(k, c)
      PROVE  k = l /\ AcceptTurn(l, c)
  <2>1. CASE AcceptTurn(k, c)
    BY <2>1 DEF TypeOK, AcceptTurn
  <2>2. CASE HandleReady(k, c) \/ HandleConfirm(k, c) \/ HandleDecline(k, c) \/ RejectTurn(k, c)
    BY <1>1, <2>2 DEF HandleReady, HandleConfirm, HandleDecline, RejectTurn, gameVars
  <2>3. CASE HandleBadBet(k, c) \/ CrashOnTurn(k, c)
    BY <1>1, <2>3 DEF HandleBadBet, CrashOnTurn, Crash, gameVars
  <2>4. QED
    BY <1>5, <2>1, <2>2, <2>3 DEF HandleMessage
<1>6. ASSUME NEW k \in Lobbies, HandleState(k)
      PROVE  StartGame(l) \/ SkipPlayer(l) \/ ReturnToLobby(l)
  <2>1. CASE PrepareGame(k) \/ CancelGame(k) \/ EndGame(k) \/ NothingToDo(k)
    BY <1>1, <2>1 DEF PrepareGame, CancelGame, EndGame, NothingToDo, gameVars
  <2>2. CASE CrashOnStart(k)
    BY <1>1, <2>2 DEF CrashOnStart, Crash, gameVars
  <2>3. CASE StartGame(k) \/ SkipPlayer(k) \/ ReturnToLobby(k)
    <3>1. k = l
      BY <2>3 DEF TypeOK, StartGame, SkipPlayer, ReturnToLobby
    <3>2. QED
      BY <2>3, <3>1
  <2>4. QED
    BY <1>6, <2>1, <2>2, <2>3 DEF HandleState
<1>7. CASE UNCHANGED vars
  BY <1>1, <1>7 DEF vars, gameVars
<1>8. QED
  BY <1>2, <1>3, <1>4, <1>5, <1>6, <1>7 DEF Next, LobbyStep, Terminated

(* TurnsInOrder, of one step. *)
TurnInOrder ==
    \A l \in Lobbies :
        blackjack[l].gameRunning /\ blackjack'[l] # blackjack[l] =>
            /\ Turn(l)' = Turn(l) + 1
            /\ blackjack'[l].players = blackjack[l].players
            /\ \/ unprocessedMessages[l] = << >>
               \/ Head(unprocessedMessages[l]).client = CurrentPlayer(blackjack[l])

(* The turn passes to the next player only, for a message of the current   *)
(* player or when the queue is empty.  GameConsistent adds that a running  *)
(* game is neither started nor cleared: those happen in states of the      *)
(* lobby in which no game runs.                                            *)
THEOREM TurnsPassInOrder == Spec => TurnsInOrder
<1>1. TypeOK /\ GameConsistent /\ [Next]_vars => [TurnInOrder]_vars
  <2> SUFFICES ASSUME TypeOK, GameConsistent, [Next]_vars, NEW l \in Lobbies,
                      blackjack[l].gameRunning, blackjack'[l] # blackjack[l]
               PROVE  /\ Turn(l)' = Turn(l) + 1
                      /\ blackjack'[l].players = blackjack[l].players
                      /\ \/ unprocessedMessages[l] = << >>
                         \/ Head(unprocessedMessages[l]).client = CurrentPlayer(blackjack[l])
    BY DEF TurnInOrder
  <2> DEFINE g == blackjack[l]
  <2>1. g \in Games
    BY DEF TypeOK, Games
  <2>2. lobbyState[l] = "IN_GAME"
    <3>1. GameConsistentIn(l)
      BY GameConsistentByLobby
    <3>2. g # NoGame
      BY DEF NoGame
    <3>3. QED
      BY <3>1, <3>2 DEF GameConsistentIn, InGame
  <2>3. ASSUME blackjack'[l] = MoveToNextPlayer(g)
        PROVE  Turn(l)' = Turn(l) + 1 /\ blackjack'[l].players = g.players
    BY <2>1, <2>3, MoveToNextPlayerFields DEF Turn
  <2>4. ASSUME NEW c \in Clients, AcceptTurn(l, c)
        PROVE  /\ blackjack'[l] = MoveToNextPlayer(g)
               /\ Head(unprocessedMessages[l]).client = CurrentPlayer(g)
    <3>1. blackjack'[l] \in TurnOutcomes(g, Head(unprocessedMessages[l]).type)
      BY <2>4 DEF TypeOK, AcceptTurn
    <3>2. Head(unprocessedMessages[l]).client = c
      BY <2>4 DEF AcceptTurn, Handles
    <3>3. c = CurrentPlayer(g)
      BY <2>4 DEF AcceptTurn, MayPlay
    <3>4. QED
      BY <3>1, <3>2, <3>3 DEF TurnOutcomes
  <2>5. CASE SkipPlayer(l)
    <3>1. blackjack'[l] = MoveToNextPlayer(g) /\ unprocessedMessages[l] = << >>
      BY <2>5 DEF TypeOK, SkipPlayer, Drained
    <3>2. QED
      BY <2>3, <3>1
  <2>6. ~StartGame(l) /\ ~ReturnToLobby(l)
    BY <2>2 DEF StartGame, ReturnToLobby, Drained
  <2>7. QED
    BY <2>3, <2>4, <2>5, <2>6, WhoChangesTheGame
<1>2. [TurnInOrder]_vars <=> [\A l \in Lobbies :
          blackjack[l].gameRunning /\ blackjack'[l] # blackjack[l] =>
              /\ Turn(l)' = Turn(l) + 1
              /\ blackjack'[l].players = blackjack[l].players
              /\ \/ unprocessedMessages[l] = << >>
                 \/ Head(unprocessedMessages[l]).client = CurrentPlayer(blackjack[l])]_vars
  BY DEF TurnInOrder
<1>3. QED
  BY <1>1, <1>2, TypeCorrect, GamesAreConsistent, PTL DEF Spec, TurnsInOrder

-----------------------------------------------------------------------------
(* The actions after which lobby l waits when it did not. *)
LEMMA WhoMakesItWait ==
    ASSUME TypeOK, [Next]_vars, NEW l \in Lobbies,
           lobbyState[l] # "WAITING", lobbyState'[l] = "WAITING"
    PROVE  CancelGame(l) \/ ReturnToLobby(l)
<1>1. lobbyState' # lobbyState
  OBVIOUS
<1>2. CASE ClientStep \/ EndSelect \/ EndErase \/ EndDisconnect
  BY <1>1, <1>2 DEF ClientStep, RegisterClient, ReconnectClient, LeaveLobby, JoinLobby,
                    AddNewMessage, EndSelect, EndErase, EndDisconnect, lobbyVars
<1>3. CASE Disconnection
  BY <1>1, <1>3 DEF Disconnection, ExpireClient, DisconnectClient
<1>4. ASSUME NEW k \in Lobbies, NEW c \in Clients, HandleMessage(k, c) PROVE FALSE
  BY <1>1, <1>4 DEF HandleMessage, HandleReady, HandleConfirm, HandleBadBet, HandleDecline,
                    RejectTurn, AcceptTurn, CrashOnTurn, Crash, lobbyVars
<1>5. ASSUME NEW k \in Lobbies, HandleState(k) PROVE CancelGame(l) \/ ReturnToLobby(l)
  <2>1. CASE PrepareGame(k) \/ StartGame(k) \/ EndGame(k)
    BY <2>1 DEF TypeOK, PrepareGame, StartGame, EndGame
  <2>2. CASE SkipPlayer(k) \/ NothingToDo(k) \/ CrashOnStart(k)
    BY <1>1, <2>2 DEF SkipPlayer, NothingToDo, CrashOnStart, Crash, lobbyVars
  <2>3. CASE CancelGame(k) \/ ReturnToLobby(k)
    <3>1. k = l
      BY <2>3 DEF TypeOK, CancelGame, ReturnToLobby
    <3>2. QED
      BY <2>3, <3>1
  <2>4. QED
    BY <1>5, <2>1, <2>2, <2>3 DEF HandleState
<1>6. CASE UNCHANGED vars
  BY <1>1, <1>6 DEF vars, lobbyVars
<1>7. QED
  BY <1>2, <1>3, <1>4, <1>5, <1>6 DEF Next, LobbyStep, Terminated

(* VotesStartOver, of one step. *)
VotesAreReset ==
    \A l \in Lobbies :
        lobbyState[l] # "WAITING" /\ lobbyState'[l] = "WAITING" =>
            clientsReady'[l] = 0 /\ \A c \in Members(clients'[l]) : ~ready'[c]

(* Both ways back to the waiting state, a game called off and a game that  *)
(* is over, reset the votes of all who stay.                               *)
THEOREM VotesDoStartOver == Spec => VotesStartOver
<1>1. TypeOK /\ [Next]_vars => [VotesAreReset]_vars
  <2> SUFFICES ASSUME TypeOK, [Next]_vars, NEW l \in Lobbies,
                      lobbyState[l] # "WAITING", lobbyState'[l] = "WAITING"
               PROVE  clientsReady'[l] = 0 /\ \A c \in Members(clients'[l]) : ~ready'[c]
    BY DEF VotesAreReset
  <2>1. clients[l] \in Seq(Clients) /\ Members(clients[l]) \subseteq Clients
    BY DEF TypeOK, Members
  <2>2. CASE CancelGame(l)
    BY <2>1, <2>2 DEF TypeOK, CancelGame, ResetClientParticipation
  <2>3. CASE ReturnToLobby(l)
    <3>1. Members(clients'[l]) \subseteq Members(clients[l])
      BY <2>1, <2>3, WithoutMembers DEF TypeOK, ReturnToLobby
    <3>2. QED
      BY <2>1, <2>3, <3>1 DEF TypeOK, ReturnToLobby, ResetClientParticipation
  <2>4. QED
    BY <2>2, <2>3, WhoMakesItWait
<1>2. [VotesAreReset]_vars <=> [\A l \in Lobbies :
          lobbyState[l] # "WAITING" /\ lobbyState'[l] = "WAITING" =>
              clientsReady'[l] = 0 /\ \A c \in Members(clients'[l]) : ~ready'[c]]_vars
  BY DEF VotesAreReset
<1>3. QED
  BY <1>1, <1>2, TypeCorrect, PTL DEF Spec, VotesStartOver

-----------------------------------------------------------------------------
(* What removeClient takes from lobby l when it is called for lobby k. *)
LEMMA RemoveClientElsewhere ==
    ASSUME TypeOK, NEW k \in Lobbies, NEW d \in Clients, RemoveClient(k, d),
           NEW l \in Lobbies, NEW c \in Members(clients[l]), c \notin Members(clients'[l])
    PROVE  k = l /\ d = c
<1>1. clients[l] \in Seq(Clients)
  BY DEF TypeOK
<1>2. k = l
  BY DEF TypeOK, RemoveClient
<1>3. Members(clients'[l]) = Members(clients[l]) \ {d}
  BY <1>1, <1>2, WithoutMembers DEF TypeOK, RemoveClient
<1>4. QED
  BY <1>2, <1>3

(* SeatsAreKept, of one step. *)
SeatsStay ==
    \A l \in Lobbies, c \in Clients :
        lobbyState[l] = "IN_GAME" /\ c \in Members(clients[l])
            /\ c \notin Members(clients[l])' => LeaveLobby(c) \/ HandleDecline(l, c)

(* In a running game a member goes only by its own leave or decline: the   *)
(* other removals are made in other states of the lobby.                   *)
THEOREM SeatsAreNotLost == Spec => SeatsAreKept
<1>1. TypeOK /\ [Next]_vars => [SeatsStay]_vars
  <2> SUFFICES ASSUME TypeOK, [Next]_vars, NEW l \in Lobbies, NEW c \in Clients,
                      lobbyState[l] = "IN_GAME", c \in Members(clients[l]),
                      c \notin Members(clients'[l])
               PROVE  LeaveLobby(c) \/ HandleDecline(l, c)
    BY DEF SeatsStay
  <2>1. clients'[l] # clients[l]
    OBVIOUS
  <2>2. CASE ClientStep
    <3>1. PICK d \in Clients :
              \/ RegisterClient(d) \/ ReconnectClient(d) \/ LeaveLobby(d)
              \/ \E k \in Lobbies : JoinLobby(d, k)
              \/ \E type \in MessageTypes : AddNewMessage(d, type)
      BY <2>2 DEF ClientStep
    <3>2. CASE LeaveLobby(d)
      <4>1. lobbyId[d] \in Lobbies
        BY <3>2 DEF TypeOK, LeaveLobby
      <4>2. d = c
        BY <3>2, <4>1, RemoveClientElsewhere DEF LeaveLobby
      <4>3. QED
        BY <3>2, <4>2
    <3>3. ASSUME NEW k \in Lobbies, JoinLobby(d, k) PROVE FALSE
      BY <2>1, <3>3 DEF TypeOK, JoinLobby, IsJoinable
    <3>4. CASE RegisterClient(d) \/ ReconnectClient(d) \/ \E type \in MessageTypes : AddNewMessage(d, type)
      BY <2>1, <3>4 DEF RegisterClient, ReconnectClient, AddNewMessage, lobbyVars
    <3>5. QED
      BY <3>1, <3>2, <3>3, <3>4
  <2>3. CASE EndSelect \/ EndErase \/ EndDisconnect
    BY <2>1, <2>3 DEF EndSelect, EndErase, EndDisconnect, lobbyVars
  <2>4. CASE Disconnection
    <3>1. PICK d \in Clients : ExpireClient(d) \/ DisconnectClient(d)
      BY <2>4 DEF Disconnection
    <3>2. CASE LosesSeat(lobbyId[d])
      <4>1. lobbyId[d] \in Lobbies /\ lobbyId[d] # l
        BY <3>2 DEF TypeOK, LosesSeat
      <4>2. RemoveClient(lobbyId[d], d)
        BY <3>1, <3>2 DEF ExpireClient, DisconnectClient
      <4>3. QED
        BY <4>1, <4>2, RemoveClientElsewhere
    <3>3. CASE ~LosesSeat(lobbyId[d])
      BY <2>1, <3>1, <3>3 DEF ExpireClient, DisconnectClient
    <3>4. QED
      BY <3>2, <3>3
  <2>5. ASSUME NEW k \in Lobbies, NEW d \in Clients, HandleMessage(k, d)
        PROVE  HandleDecline(l, c)
    <3>1. CASE HandleDecline(k, d)
      <4>1. k = l /\ d = c
        BY <3>1, RemoveClientElsewhere DEF HandleDecline
      <4>2. QED
        BY <3>1, <4>1
    <3>2. CASE ~HandleDecline(k, d)
      BY <2>1, <2>5, <3>2 DEF HandleMessage, HandleReady, HandleConfirm, HandleBadBet,
                              RejectTurn, AcceptTurn, CrashOnTurn, Crash, lobbyVars
    <3>3. QED
      BY <3>1, <3>2
  <2>6. ASSUME NEW k \in Lobbies, HandleState(k) PROVE FALSE
    BY <2>1, <2>6 DEF TypeOK, HandleState, PrepareGame, StartGame, CrashOnStart, Crash, CancelGame,
                      SkipPlayer, EndGame, ReturnToLobby, NothingToDo, Drained, lobbyVars
  <2>7. CASE UNCHANGED vars
    BY <2>1, <2>7 DEF vars, lobbyVars
  <2>8. QED
    BY <2>2, <2>3, <2>4, <2>5, <2>6, <2>7 DEF Next, LobbyStep, Terminated
<1>2. [SeatsStay]_vars <=> [\A l \in Lobbies, c \in Clients :
          lobbyState[l] = "IN_GAME" /\ c \in Members(clients[l])
              /\ c \notin Members(clients[l])' =>
                  \/ LeaveLobby(c)
                  \/ HandleDecline(l, c)]_vars
  BY DEF SeatsStay
<1>3. QED
  BY <1>1, <1>2, TypeCorrect, PTL DEF Spec, SeatsAreKept

-----------------------------------------------------------------------------
(* What modules Tables and Sessions promise, and the lobbies implement. *)

(* What the refinement mapping makes of the games. *)
SeatsOf == [l \in Lobbies |-> blackjack[l].players]
TurnsOf == [l \in Lobbies |-> TurnsTaken(l)]

(* A step that keeps the states of the lobbies and the games is a stutter, *)
(* or the end of the process.                                              *)
LEMMA QuietStep ==
    ASSUME UNCHANGED <<lobbyState, blackjack>>
    PROVE  UNCHANGED <<SeatsOf, TurnsOf>>
<1>1. \A l : TurnsTaken(l)' = TurnsTaken(l)
  BY DEF TurnsTaken, Turn
<1>2. QED
  BY <1>1 DEF SeatsOf, TurnsOf

LEMMA StutterMaps ==
    ASSUME UNCHANGED <<alive, lobbyState, blackjack>>
    PROVE  UNCHANGED House!vars
BY QuietStep DEF House!vars, SeatsOf, TurnsOf

LEMMA CrashMaps ==
    ASSUME alive, Crash
    PROVE  House!Next
<1>1. UNCHANGED <<lobbyState, blackjack>> /\ alive' = FALSE
  BY DEF Crash, lobbyVars, gameVars
<1>2. House!Close
  BY <1>1, QuietStep DEF House!Close, SeatsOf, TurnsOf
<1>3. QED
  BY <1>2 DEF House!Next

(* A step that changes the game of lobby l only. *)
LEMMA OneGameMoves ==
    ASSUME TypeOK, NEW l \in Lobbies, NEW g, blackjack' = [blackjack EXCEPT ![l] = g]
    PROVE  /\ blackjack'[l] = g
           /\ SeatsOf' = [SeatsOf EXCEPT ![l] = blackjack'[l].players]
           /\ TurnsOf' = [TurnsOf EXCEPT ![l] = TurnsTaken(l)']
<1>1. blackjack'[l] = g /\ \A k \in Lobbies : k # l => blackjack'[k] = blackjack[k]
  BY DEF TypeOK
<1>2. \A k \in Lobbies : k # l => TurnsTaken(k)' = TurnsTaken(k)
  BY <1>1 DEF TurnsTaken, Turn
<1>3. \A k \in Lobbies : k # l => blackjack'[k].players = blackjack[k].players
  BY <1>1
<1>4. SeatsOf' = [SeatsOf EXCEPT ![l] = blackjack'[l].players]
  <2> DEFINE seats(k) == blackjack[k].players
             seatsNext(k) == blackjack'[k].players
  <2>1. SeatsOf = [k \in Lobbies |-> seats(k)] /\ SeatsOf' = [k \in Lobbies |-> seatsNext(k)]
    BY DEF SeatsOf
  <2>2. \A k \in Lobbies : k # l => seatsNext(k) = seats(k)
    BY <1>3
  <2> HIDE DEF seats, seatsNext
  <2>3. SeatsOf' = [SeatsOf EXCEPT ![l] = seatsNext(l)]
    BY <2>1, <2>2
  <2>4. QED
    BY <2>3 DEF seatsNext
<1>5. TurnsOf' = [TurnsOf EXCEPT ![l] = TurnsTaken(l)']
  BY <1>2 DEF TurnsOf
<1>6. QED
  BY <1>1, <1>4, <1>5

(* Passing the turn on in a running game is a turn at the table. *)
LEMMA TurnMaps ==
    ASSUME TypeOK, GameConsistent, NEW l \in Lobbies, blackjack[l].gameRunning,
           alive, UNCHANGED <<alive, lobbyState>>,
           blackjack' = [blackjack EXCEPT ![l] = MoveToNextPlayer(blackjack[l])]
    PROVE  House!Next
<1> DEFINE g == blackjack[l]
           next == MoveToNextPlayer(g)
<1>1. g \in Games /\ GameConsistentIn(l) /\ g # NoGame
  BY GameConsistentByLobby DEF TypeOK, Games, NoGame
<1>2. lobbyState[l] = "IN_GAME" /\ g.currentPlayerIndex < Len(g.players)
  BY <1>1 DEF GameConsistentIn, InGame
<1>3. /\ next.players = g.players
      /\ next.currentPlayerIndex = g.currentPlayerIndex + 1
      /\ next.gameRunning <=> g.currentPlayerIndex + 1 # Len(g.players)
  BY <1>1, MoveToNextPlayerFields
<1>4. /\ blackjack'[l] = next
      /\ SeatsOf' = [SeatsOf EXCEPT ![l] = blackjack'[l].players]
      /\ TurnsOf' = [TurnsOf EXCEPT ![l] = TurnsTaken(l)']
  BY OneGameMoves
<1>5. SeatsOf' = SeatsOf
  BY <1>3, <1>4 DEF SeatsOf
<1>6. TurnsTaken(l)' = g.currentPlayerIndex + 1
  BY <1>1, <1>3, <1>4 DEF TurnsTaken, Turn, Games
<1>7. TurnsOf[l] = g.currentPlayerIndex /\ SeatsOf[l] = g.players
  BY DEF TurnsOf, TurnsTaken, Turn, SeatsOf
<1>8. lobbyState' = [lobbyState EXCEPT ![l] = "IN_GAME"]
  BY <1>2 DEF TypeOK
<1> HIDE DEF next, g
<1>9. House!TakeTurn(l)
  BY <1>2, <1>4, <1>5, <1>6, <1>7, <1>8 DEF House!TakeTurn, House!Moves, SeatsOf, TurnsOf
<1>10. QED
  BY <1>9 DEF House!Next, House!Step

LEMMA HandleMessageMaps ==
    ASSUME TypeOK, GameConsistent, NEW l \in Lobbies, NEW c \in Clients, HandleMessage(l, c)
    PROVE  [House!Next]_(House!vars)
<1>1. alive
  BY DEF HandleMessage, HandleReady, HandleConfirm, HandleBadBet, HandleDecline, RejectTurn,
         AcceptTurn, CrashOnTurn, Handles
<1>2. CASE HandleReady(l, c) \/ HandleConfirm(l, c) \/ HandleDecline(l, c) \/ RejectTurn(l, c)
  BY <1>2, StutterMaps
     DEF HandleReady, HandleConfirm, HandleDecline, RejectTurn, lobbyVars, gameVars
<1>3. CASE HandleBadBet(l, c) \/ CrashOnTurn(l, c)
  BY <1>1, <1>3, CrashMaps DEF HandleBadBet, CrashOnTurn
<1>4. CASE AcceptTurn(l, c)
  <2> DEFINE g == blackjack[l]
  <2>1. UNCHANGED <<alive, lobbyState>>
    BY <1>4 DEF AcceptTurn, lobbyVars
  <2>2. PICK next \in {g, MoveToNextPlayer(g)} : blackjack' = [blackjack EXCEPT ![l] = next]
    BY <1>4 DEF AcceptTurn, TurnOutcomes
  <2>3. CASE next = g
    BY <2>1, <2>2, <2>3, StutterMaps DEF TypeOK
  <2>4. CASE next = MoveToNextPlayer(g) /\ g.gameRunning
    BY <1>1, <2>1, <2>2, <2>4, TurnMaps
  <2>5. CASE next = MoveToNextPlayer(g) /\ ~g.gameRunning
    <3>1. next.players = g.players /\ ~next.gameRunning
      BY <2>5, MoveToNextPlayerFields DEF TypeOK, Games
    <3>2. /\ blackjack'[l] = next
          /\ SeatsOf' = [SeatsOf EXCEPT ![l] = blackjack'[l].players]
          /\ TurnsOf' = [TurnsOf EXCEPT ![l] = TurnsTaken(l)']
      BY <2>2, OneGameMoves
    <3>3. TurnsTaken(l)' = TurnsTaken(l)
      BY <2>5, <3>1, <3>2 DEF TurnsTaken
    <3>4. SeatsOf' = SeatsOf /\ TurnsOf' = TurnsOf
      BY <3>1, <3>2, <3>3 DEF SeatsOf, TurnsOf
    <3>5. QED
      BY <2>1, <3>4 DEF House!vars, SeatsOf, TurnsOf
  <2>6. QED
    BY <2>2, <2>3, <2>4, <2>5
<1>5. QED
  BY <1>2, <1>3, <1>4 DEF HandleMessage

LEMMA HandleStateMaps ==
    ASSUME TypeOK, GameConsistent, NEW l \in Lobbies, HandleState(l)
    PROVE  [House!Next]_(House!vars)
<1> DEFINE g == blackjack[l]
<1>1. alive
  BY DEF HandleState, PrepareGame, StartGame, CrashOnStart, CancelGame, SkipPlayer, EndGame,
         ReturnToLobby, NothingToDo, Drained
<1>2. SeatsOf[l] = g.players /\ TurnsOf[l] = TurnsTaken(l)
  BY DEF SeatsOf, TurnsOf
<1>3. ASSUME House!Step(l) PROVE House!Next
  BY <1>3 DEF House!Next
<1>4. CASE PrepareGame(l)
  <2>1. House!TakeBets(l)
    <3>1. /\ UNCHANGED <<alive, blackjack>> /\ lobbyState[l] = "WAITING"
          /\ lobbyState' = [lobbyState EXCEPT ![l] = "PREPARING"]
      BY <1>4 DEF PrepareGame, Drained, NextLobby, gameVars
    <3>2. SeatsOf' = SeatsOf /\ TurnsOf' = TurnsOf
      BY <3>1 DEF SeatsOf, TurnsOf, TurnsTaken, Turn
    <3>3. QED
      BY <1>1, <3>1, <3>2 DEF House!TakeBets, House!Moves, SeatsOf, TurnsOf
  <2>2. QED
    BY <1>3, <2>1 DEF House!Step
<1>5. CASE StartGame(l)
  <2> DEFINE new == NewGame(confirmedClients[l])
  <2>1. /\ blackjack' = [blackjack EXCEPT ![l] = new]
        /\ lobbyState[l] = "PREPARING" /\ lobbyState' = [lobbyState EXCEPT ![l] = "IN_GAME"]
        /\ alive' = alive
        /\ Len(confirmedClients[l]) >= 2 /\ confirmedClients[l] \in Seq(Clients)
    BY <1>5 DEF TypeOK, StartGame, Drained, NextLobby, IsPlayable
  <2>2. new.players = confirmedClients[l] /\ new.currentPlayerIndex = 0 /\ new.gameRunning
    BY DEF NewGame
  <2>3. /\ blackjack'[l] = new
        /\ SeatsOf' = [SeatsOf EXCEPT ![l] = blackjack'[l].players]
        /\ TurnsOf' = [TurnsOf EXCEPT ![l] = TurnsTaken(l)']
    BY <2>1, OneGameMoves
  <2>4. SeatsOf'[l] = confirmedClients[l] /\ TurnsTaken(l)' = 0
    BY <2>2, <2>3 DEF SeatsOf, TurnsTaken, Turn
  <2>5. House!Deal(l)
    BY <1>1, <2>1, <2>2, <2>3, <2>4 DEF House!Deal, House!Moves, SeatsOf, TurnsOf
  <2>6. QED
    BY <1>3, <2>5 DEF House!Step
<1>6. CASE CrashOnStart(l)
  BY <1>1, <1>6, CrashMaps DEF CrashOnStart
<1>7. CASE CancelGame(l)
  <2>1. House!CallOff(l)
    <3>1. /\ UNCHANGED <<alive, blackjack>> /\ lobbyState[l] = "PREPARING"
          /\ lobbyState' = [lobbyState EXCEPT ![l] = "WAITING"]
      BY <1>7 DEF CancelGame, Drained, NextLobby
    <3>2. SeatsOf' = SeatsOf /\ TurnsOf' = TurnsOf
      BY <3>1 DEF SeatsOf, TurnsOf, TurnsTaken, Turn
    <3>3. QED
      BY <1>1, <3>1, <3>2 DEF House!CallOff, House!Moves, SeatsOf, TurnsOf
  <2>2. QED
    BY <1>3, <2>1 DEF House!Step
<1>8. CASE SkipPlayer(l)
  BY <1>1, <1>8, TurnMaps DEF SkipPlayer, NextLobby, lobbyVars
<1>9. CASE EndGame(l)
  <2>1. /\ UNCHANGED <<alive, blackjack>> /\ lobbyState[l] = "IN_GAME" /\ ~g.gameRunning
        /\ lobbyState' = [lobbyState EXCEPT ![l] = "FINISHED"]
    BY <1>9 DEF EndGame, Drained, NextLobby, gameVars
  <2>2. SeatsOf' = SeatsOf /\ TurnsOf' = TurnsOf
    BY <2>1 DEF SeatsOf, TurnsOf, TurnsTaken, Turn
  <2>3. TurnsOf[l] = Len(SeatsOf[l])
    BY <1>2, <2>1 DEF TurnsTaken
  <2>4. House!ShowResults(l)
    BY <1>1, <2>1, <2>2, <2>3 DEF House!ShowResults, House!Moves, SeatsOf, TurnsOf
  <2>5. QED
    BY <1>3, <2>4 DEF House!Step
<1>10. CASE ReturnToLobby(l)
  <2>1. /\ alive' = alive /\ lobbyState[l] = "FINISHED"
        /\ lobbyState' = [lobbyState EXCEPT ![l] = "WAITING"]
        /\ blackjack' = [blackjack EXCEPT ![l] = NoGame]
    BY <1>10 DEF ReturnToLobby, Drained, NextLobby
  <2>2. /\ blackjack'[l] = NoGame
        /\ SeatsOf' = [SeatsOf EXCEPT ![l] = blackjack'[l].players]
        /\ TurnsOf' = [TurnsOf EXCEPT ![l] = TurnsTaken(l)']
    BY <2>1, OneGameMoves
  <2>3. blackjack'[l].players = << >> /\ TurnsTaken(l)' = 0
    BY <2>2 DEF NoGame, TurnsTaken, Turn
  <2>4. House!Clear(l)
    BY <1>1, <2>1, <2>2, <2>3 DEF House!Clear, House!Moves, SeatsOf, TurnsOf
  <2>5. QED
    BY <1>3, <2>4 DEF House!Step
<1>11. CASE NothingToDo(l)
  BY <1>11, StutterMaps DEF NothingToDo, NextLobby, lobbyVars, gameVars
<1>12. QED
  BY <1>4, <1>5, <1>6, <1>7, <1>8, <1>9, <1>10, <1>11 DEF HandleState

(* Every step of the lobbies is a step of the tables or a stutter. *)
LEMMA StepMaps ==
    ASSUME TypeOK, GameConsistent, [Next]_vars
    PROVE  [House!Next]_(House!vars)
<1>1. CASE ClientStep \/ EndSelect \/ EndErase \/ EndDisconnect
  BY <1>1, StutterMaps
     DEF ClientStep, RegisterClient, ReconnectClient, LeaveLobby, JoinLobby, AddNewMessage,
         EndSelect, EndErase, EndDisconnect, lobbyVars, gameVars
<1>2. CASE Disconnection
  BY <1>2, StutterMaps DEF Disconnection, ExpireClient, DisconnectClient
<1>3. CASE LobbyStep
  BY <1>3, HandleMessageMaps, HandleStateMaps DEF LobbyStep
<1>4. CASE UNCHANGED vars
  BY <1>4, StutterMaps DEF vars, lobbyVars, gameVars
<1>5. QED
  BY <1>1, <1>2, <1>3, <1>4 DEF Next, Terminated

(* The lobbies, with connections, queues, stale messages and time limits,  *)
(* implement module Tables: bets are taken, a game of at least two seats   *)
(* is dealt or called off, each seat has its turn once and in order, and   *)
(* only then come the results.  The invariant needed is GameConsistent.    *)
THEOREM LobbiesImplementTables == Spec => LobbiesAreTables
<1>1. Init => House!Init
  BY DEF Init, House!Init, NoGame, TurnsTaken, Turn
<1>2. TypeOK /\ GameConsistent /\ [Next]_vars => [House!Next]_(House!vars)
  BY StepMaps
<1>3. QED
  BY <1>1, <1>2, TypeCorrect, GamesAreConsistent, PTL DEF Spec, LobbiesAreTables, House!Spec
-----------------------------------------------------------------------------
(* The sessions of module Sessions. *)

SessionOf == [c \in Clients |-> SessionStatus(c)]

(* Messages and the states of the lobbies leave every session as it is.    *)
LEMMA LobbyStepKeepsSessions ==
    ASSUME TypeOK, LobbyStep
    PROVE  /\ UNCHANGED <<registered, online>>
           /\ phase = "handle" /\ phase' \in {"handle", "select"}
<1>1. CASE \E l \in Lobbies : HandleState(l)
  BY <1>1
     DEF HandleState, Drained, StartGame, CrashOnStart, SkipPlayer, EndGame, ReturnToLobby,
         CancelGame, PrepareGame, NothingToDo, NextLobby, Crash, serverVars, clientVars
<1>2. CASE \E l \in Lobbies, c \in Clients : HandleMessage(l, c)
  BY <1>2
     DEF HandleMessage, Handles, HandleReady, HandleDecline, AcceptTurn, HandleConfirm, RejectTurn,
         HandleBadBet, CrashOnTurn, Crash, serverVars, clientVars
<1>3. QED
  BY <1>1, <1>2 DEF LobbyStep

LEMMA SessionStep ==
    ASSUME TypeOK, [Next]_vars
    PROVE  [Users!Next]_(Users!vars)
<1>1. ASSUME UNCHANGED <<registered, online>>
      PROVE  SessionOf' = SessionOf
  BY <1>1 DEF SessionOf, SessionStatus
<1>2. ASSUME UNCHANGED <<registered, online>>, phase' = phase
      PROVE  [Users!Next]_(Users!vars)
  BY <1>1, <1>2 DEF Users!vars, SessionOf, Part
<1>3. ASSUME UNCHANGED <<registered, online>>,
             <<phase, phase'>> \in {<<"select", "erase">>, <<"erase", "disconnect">>,
                                    <<"disconnect", "handle">>, <<"handle", "select">>}
      PROVE  [Users!Next]_(Users!vars)
  <2>1. Users!GoesOn
    BY <1>1, <1>3 DEF Users!GoesOn, SessionOf, Part
  <2>2. QED
    BY <2>1 DEF Users!Next
<1>4. CASE UNCHANGED vars \/ Terminated
  BY <1>2, <1>4 DEF Terminated, vars, serverVars, clientVars
<1>5. CASE EndSelect \/ EndErase \/ EndDisconnect
  BY <1>3, <1>5 DEF EndSelect, EndErase, EndDisconnect, clientVars
<1>6. CASE LobbyStep
  BY <1>2, <1>3, <1>6, LobbyStepKeepsSessions
<1>7. ASSUME NEW c \in Clients, RegisterClient(c) \/ ReconnectClient(c)
      PROVE  [Users!Next]_(Users!vars)
  <2>1. /\ phase = "select" /\ phase' = phase
        /\ online' = [online EXCEPT ![c] = TRUE]
        /\ registered' = [registered EXCEPT ![c] = TRUE]
    BY <1>7 DEF RegisterClient, ReconnectClient, serverVars, TypeOK
  <2>2. SessionStatus(c)' = "online"
        /\ \A d \in Clients \ {c} : SessionStatus(d)' = SessionStatus(d)
    BY <2>1 DEF SessionStatus, TypeOK
  <2>3. SessionOf' = [SessionOf EXCEPT ![c] = "online"]
    BY <2>2 DEF SessionOf
  <2>4. Users!Login(c)
    BY <2>1, <2>3 DEF Users!Login, Users!During, SessionOf, Part
  <2>5. QED
    BY <2>4 DEF Users!Next
<1>8. ASSUME NEW c \in Clients, \/ LeaveLobby(c) \/ \E l \in Lobbies : JoinLobby(c, l)
                                \/ \E type \in MessageTypes : AddNewMessage(c, type)
      PROVE  [Users!Next]_(Users!vars)
  BY <1>2, <1>8 DEF LeaveLobby, JoinLobby, AddNewMessage, serverVars, clientVars
<1>9. ASSUME NEW c \in Clients, ExpireClient(c) PROVE [Users!Next]_(Users!vars)
  <2>1. /\ phase = "erase" /\ phase' = phase /\ online' = online
        /\ registered' = [registered EXCEPT ![c] = FALSE]
    BY <1>9 DEF ExpireClient, serverVars
  <2>2. SessionStatus(c)' = "unknown"
        /\ \A d \in Clients \ {c} : SessionStatus(d)' = SessionStatus(d)
    BY <2>1 DEF SessionStatus, TypeOK
  <2>3. SessionOf' = [SessionOf EXCEPT ![c] = "unknown"]
    BY <2>2 DEF SessionOf
  <2>4. Users!Forget(c)
    BY <2>1, <2>3 DEF Users!Forget, Users!During, SessionOf, Part
  <2>5. QED
    BY <2>4 DEF Users!Next
<1>10. ASSUME NEW c \in Clients, DisconnectClient(c) PROVE [Users!Next]_(Users!vars)
  <2>1. /\ phase = "disconnect" /\ phase' = phase /\ registered' = registered
        /\ registered[c] /\ online[c]
        /\ online' = [online EXCEPT ![c] = FALSE]
    BY <1>10 DEF DisconnectClient, serverVars
  <2>2. /\ SessionStatus(c) = "online" /\ SessionStatus(c)' = "offline"
        /\ \A d \in Clients \ {c} : SessionStatus(d)' = SessionStatus(d)
    BY <2>1 DEF SessionStatus, TypeOK
  <2>3. SessionOf' = [SessionOf EXCEPT ![c] = "offline"] /\ SessionOf[c] = "online"
    BY <2>2 DEF SessionOf
  <2>4. Users!Drop(c)
    BY <2>1, <2>3 DEF Users!Drop, Users!During, SessionOf, Part
  <2>5. QED
    BY <2>4 DEF Users!Next
<1>11. QED
  BY <1>4, <1>5, <1>6, <1>7, <1>8, <1>9, <1>10 DEF Next, ClientStep, Disconnection

(* The lobbies take no more for granted of connections than module         *)
(* Sessions says, which module ServerProofs shows of the server's loop.    *)
THEOREM LobbiesImplementSessions == Spec => LobbiesKeepSessions
<1>1. Init => Users!Init
  BY DEF Init, Users!Init, SessionStatus, Part
<1>2. TypeOK /\ [Next]_vars => [Users!Next]_(Users!vars)
  BY SessionStep
<1>3. QED
  BY <1>1, <1>2, TypeCorrect, PTL DEF Spec, LobbiesKeepSessions, Users!Spec
=============================================================================
