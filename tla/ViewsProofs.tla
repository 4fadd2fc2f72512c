----------------------------- MODULE ViewsProofs -----------------------------
(***************************************************************************)
(* Theorems about what the clients are shown: screens, lists of players,   *)
(* boards and results, for any clients and any number of lobbies.          *)
(***************************************************************************)
EXTENDS Views, LobbySeatProofs

-----------------------------------------------------------------------------
(* The views are added to module Lobby and restrict nothing of it.         *)

LEMMA ViewStepIsStep ==
    ASSUME [ViewNext]_<<vars, viewVars>>
    PROVE  [Next]_vars
<1>1. CASE UNCHANGED <<vars, viewVars>>
  BY <1>1
<1>2. ASSUME NEW c \in Clients, ViewClientStep(c) PROVE ClientStep
  BY <1>2 DEF ViewClientStep, ClientStep
<1>3. ASSUME NEW c \in Clients, ViewDisconnection(c) PROVE Disconnection
  BY <1>3 DEF ViewDisconnection, Disconnection
<1>4. ASSUME NEW l \in Lobbies, NEW c \in Clients, ViewMessage(l, c) PROVE LobbyStep
  BY <1>4 DEF ViewMessage, HandleMessage, LobbyStep
<1>5. ASSUME NEW l \in Lobbies, ViewState(l) PROVE LobbyStep
  BY <1>5 DEF ViewState, HandleState, LobbyStep
<1>6. QED
  BY <1>1, <1>2, <1>3, <1>4, <1>5 DEF ViewNext, Next

(* What is proved of Lobby and needed here. *)
LobbyInv == TypeOK /\ GameConsistent /\ LobbyIdIsASeat /\ MembersPlay

LEMMA LobbyInvariant == ViewSpec => []LobbyInv
<1>1. ViewSpec => Spec
  BY ViewStepIsStep, PTL DEF ViewSpec, Spec
<1>2. QED
  BY <1>1, TypeCorrect, GamesAreConsistent, EachHasItsSeat, MembersArePlayers, PTL DEF LobbyInv

LEMMA LobbyFacts ==
    ASSUME LobbyInv, NEW l \in Lobbies
    PROVE  /\ l # NoLobby
           /\ blackjack[l].gameRunning => InGame(l)
           /\ InGame(l) <=> blackjack[l] # NoGame
           /\ lobbyState[l] = "FINISHED" => ~blackjack[l].gameRunning
           /\ \A c \in Clients : lobbyId[c] = l => c \in Members(clients[l])
           /\ InGame(l) => Members(clients[l]) \subseteq Members(blackjack[l].players)
<1>1. l # NoLobby
  BY LobbyCountAssumption DEF Lobbies, NoLobby
<1>2. /\ InGame(l) <=> blackjack[l] # NoGame
      /\ lobbyState[l] = "FINISHED" => ~blackjack[l].gameRunning
  BY DEF LobbyInv, GameConsistent
<1>3. blackjack[l].gameRunning => InGame(l)
  BY <1>2 DEF NoGame
<1>4. \A c \in Clients : lobbyId[c] = l => c \in Members(clients[l])
  BY <1>1 DEF LobbyInv, LobbyIdIsASeat
<1>5. QED
  BY <1>1, <1>2, <1>3, <1>4 DEF LobbyInv, MembersPlay

-----------------------------------------------------------------------------
(* What is delivered. *)

(* A request that is no screen is held, and what was held stays if it is   *)
(* still true and the connection is the same.                              *)
LEMMA Delivered ==
    ASSUME NEW requests, NEW lost, NEW dealt, Deliver(requests, lost, dealt), NEW c \in Clients
    PROVE  /\ \A m \in requests :
                 m.to = c /\ online'[c] /\ m.what \notin Screens
                     => [what |-> m.what, lobby |-> m.lobby] \in shown'[c]
           /\ \A v \in shown[c] : c \notin lost /\ v \notin Outdated(dealt) => v \in shown'[c]
<1> DEFINE received == {m \in requests : m.to = c /\ online'[c]}
           content(m) == [what |-> m.what, lobby |-> m.lobby]
<1>1. shown'[c] = (IF c \in lost THEN {} ELSE shown[c] \ Outdated(dealt))
                      \union {content(m) : m \in {n \in received : n.what \notin Screens}}
  BY DEF Deliver
<1>2. QED
  BY <1>1

(* A client is where the requests sent to it say, if they agree. *)
LEMMA GoneTo ==
    ASSUME NEW requests, NEW lost, NEW dealt, Deliver(requests, lost, dealt), NEW c \in Clients
    PROVE  /\ c \notin lost /\ (\A m \in requests : m.to = c => m.what \notin Screens)
                 => screen'[c] = screen[c]
           /\ \A s \in Screens :
                 (/\ online'[c]
                  /\ \E m \in requests : m.to = c /\ m.what = s
                  /\ \A m \in requests : m.to = c /\ m.what \in Screens => m.what = s)
                     => screen'[c] = s
<1> DEFINE received == {m \in requests : m.to = c /\ online'[c]}
           goesTo == {m.what : m \in received} \intersect Screens
<1>1. screen'[c] = IF goesTo # {} THEN CHOOSE s \in goesTo : TRUE
                   ELSE IF c \in lost THEN "lobbyList" ELSE screen[c]
  BY DEF Deliver
<1>2. ASSUME c \notin lost, \A m \in requests : m.to = c => m.what \notin Screens
      PROVE  screen'[c] = screen[c]
  <2>1. goesTo = {}
    BY <1>2
  <2>2. QED
    BY <1>1, <1>2, <2>1
<1>3. ASSUME NEW s \in Screens, online'[c],
             \E m \in requests : m.to = c /\ m.what = s,
             \A m \in requests : m.to = c /\ m.what \in Screens => m.what = s
      PROVE  screen'[c] = s
  <2>1. goesTo = {s}
    BY <1>3
  <2>2. QED
    BY <1>1, <2>1
<1>4. QED
  BY <1>2, <1>3

(* What a request is. *)
LEMMA Sent ==
    ASSUME NEW to, NEW what, NEW l
    PROVE  /\ \A m \in Send(to, what, l) : m.to \in to /\ m.what = what /\ m.lobby = l
           /\ \A c \in to : \E m \in Send(to, what, l) : m.to = c /\ m.what = what /\ m.lobby = l
<1> DEFINE request(c) == [to |-> c, what |-> what, lobby |-> l]
<1>1. \A m \in Send(to, what, l) : \E c \in to : m = request(c)
  BY DEF Send
<1>2. \A c \in to : request(c) \in Send(to, what, l)
  BY DEF Send
<1>3. \A c : request(c).to = c /\ request(c).what = what /\ request(c).lobby = l
  OBVIOUS
<1> HIDE DEF request
<1>4. QED
  BY <1>1, <1>2, <1>3

(* Everything but a screen that is sent to a connected client is held. *)
LEMMA Receives ==
    ASSUME NEW requests, NEW lost, NEW dealt, Deliver(requests, lost, dealt),
           NEW to, NEW what, what \notin Screens, NEW l,
           Send(to, what, l) \subseteq requests,
           NEW c \in Clients, c \in to, online'[c]
    PROVE  Holds(c, what, l)'
<1>1. PICK m \in Send(to, what, l) : m.to = c /\ m.what = what /\ m.lobby = l
  BY Sent
<1>2. QED
  BY <1>1, Delivered DEF Holds

-----------------------------------------------------------------------------
(* Boards and results. *)

HasBoard(c, l) ==
    SitsIn(c, l) /\ (blackjack[l].gameRunning \/ lobbyState[l] = "FINISHED") => Holds(c, "board", l)
HasResults(c, l) ==
    SitsIn(c, l) /\ lobbyState[l] = "FINISHED" => Holds(c, "results", l)
HasGame(c, l) == HasBoard(c, l) /\ HasResults(c, l)

(* Results are not lost where no game ends and nobody comes back. *)
LEMMA QuietKeepsResults ==
    ASSUME LobbyInv', NEW requests, NEW lost, NEW dealt, Deliver(requests, lost, dealt),
           NEW c \in Clients, NEW l \in Lobbies, HasResults(c, l),
           SitsIn(c, l)' => SitsIn(c, l) /\ c \notin lost,
           lobbyState'[l] = "FINISHED" => lobbyState[l] = "FINISHED"
    PROVE  HasResults(c, l)'
<1> SUFFICES ASSUME SitsIn(c, l)', lobbyState'[l] = "FINISHED"
             PROVE  Holds(c, "results", l)'
  BY DEF HasResults
<1> DEFINE v == [what |-> "results", lobby |-> l]
<1>1. v \in shown[c] /\ c \notin lost
  BY DEF HasResults, Holds
<1>2. blackjack'[l] # NoGame
  BY DEF LobbyInv, GameConsistent, InGame
<1>3. v \notin Outdated(dealt)
  BY <1>2 DEF Outdated
<1>4. QED
  BY <1>1, <1>3, Delivered DEF Holds

(* Neither is a board, where moreover nobody deals. *)
LEMMA QuietKeepsGame ==
    ASSUME LobbyInv', NEW requests, NEW lost, NEW dealt, Deliver(requests, lost, dealt),
           NEW c \in Clients, NEW l \in Lobbies, HasGame(c, l),
           SitsIn(c, l)' => SitsIn(c, l) /\ c \notin lost,
           blackjack'[l].gameRunning \/ lobbyState'[l] = "FINISHED"
               => /\ blackjack[l].gameRunning \/ lobbyState[l] = "FINISHED"
                  /\ l \notin dealt,
           lobbyState'[l] = "FINISHED" => lobbyState[l] = "FINISHED"
    PROVE  HasGame(c, l)'
<1>1. ASSUME SitsIn(c, l)', blackjack'[l].gameRunning \/ lobbyState'[l] = "FINISHED"
      PROVE  Holds(c, "board", l)'
  <2> DEFINE v == [what |-> "board", lobby |-> l]
  <2>1. v \in shown[c] /\ c \notin lost
    BY <1>1 DEF HasGame, HasBoard, Holds
  <2>2. v \notin Outdated(dealt)
    BY <1>1 DEF Outdated
  <2>3. QED
    BY <2>1, <2>2, Delivered DEF Holds
<1>2. HasResults(c, l)'
  BY QuietKeepsResults DEF HasGame
<1>3. QED
  BY <1>1, <1>2 DEF HasGame, HasBoard

(* A board that is sent to all players reaches those who sit in the game.  *)
LEMMA SentBoard ==
    ASSUME LobbyInv', NEW requests, NEW lost, NEW dealt, Deliver(requests, lost, dealt),
           NEW l \in Lobbies, SendBoardUpdate(l) \subseteq requests, NEW c \in Clients
    PROVE  HasBoard(c, l)'
<1> SUFFICES ASSUME SitsIn(c, l)', blackjack'[l].gameRunning \/ lobbyState'[l] = "FINISHED"
             PROVE  Holds(c, "board", l)'
  BY DEF HasBoard
<1>1. c \in Members(blackjack'[l].players)
  <2>1. InGame(l)'
    BY DEF LobbyInv, GameConsistent, NoGame, InGame
  <2>2. lobbyId'[c] = l /\ l # NoLobby
    BY LobbyCountAssumption DEF SitsIn, Lobbies, NoLobby
  <2>3. c \in Members(clients'[l])
    BY <2>2 DEF LobbyInv, LobbyIdIsASeat
  <2>4. QED
    BY <2>1, <2>3 DEF LobbyInv, MembersPlay
<1>2. online'[c] /\ "board" \notin Screens
  BY DEF SitsIn, Screens
<1>3. Send(Members(blackjack'[l].players), "board", l) \subseteq requests
  BY DEF SendBoardUpdate, SendBoard
<1>4. QED
  BY <1>1, <1>2, <1>3, Receives

(* The client that comes back to its game. *)
LEMMA ComesBackToGame ==
    ASSUME LobbyInv, LobbyInv', NEW c \in Clients, ReconnectClient(c),
           Deliver(RestoreClientState(c), {c}, {}), NEW l \in Lobbies
    PROVE  HasGame(c, l)'
<1> SUFFICES ASSUME SitsIn(c, l)', blackjack'[l].gameRunning \/ lobbyState'[l] = "FINISHED"
             PROVE  /\ Holds(c, "board", l)'
                    /\ lobbyState'[l] = "FINISHED" => Holds(c, "results", l)'
  BY DEF HasGame, HasBoard, HasResults
<1>1. /\ lobbyId[c] = l /\ l # NoLobby /\ InGame(l) /\ HasLobby(c) /\ online'[c]
      /\ lobbyState' = lobbyState
  <2>1. lobbyId' = lobbyId /\ lobbyState' = lobbyState /\ blackjack' = blackjack
    BY DEF ReconnectClient
  <2>2. lobbyId[c] = l /\ l # NoLobby /\ online'[c]
    BY <2>1, LobbyFacts DEF SitsIn
  <2>3. InGame(l)
    BY <2>1, LobbyFacts DEF InGame
  <2>4. HasLobby(c)
    BY <2>2, LobbyFacts DEF HasLobby
  <2>5. QED
    BY <2>1, <2>2, <2>3, <2>4
<1>2. RestoreClientState(c) = ReconnectToGame(l, c)
  BY <1>1 DEF RestoreClientState, RestoreState
<1>3. "board" \notin Screens /\ "results" \notin Screens
  BY DEF Screens
<1>4. Holds(c, "board", l)'
  <2>1. Send({c}, "board", l) \subseteq RestoreClientState(c)
    BY <1>2 DEF ReconnectToGame, SendBoard
  <2>2. QED
    BY <1>1, <1>3, <2>1, Receives
<1>5. ASSUME lobbyState'[l] = "FINISHED" PROVE Holds(c, "results", l)'
  <2>1. ~ blackjack[l].gameRunning
    BY <1>1, <1>5, LobbyFacts
  <2>2. Send({c}, "results", l) \subseteq RestoreClientState(c)
    BY <1>2, <2>1 DEF ReconnectToGame
  <2>3. QED
    BY <1>1, <1>3, <2>2, Receives
<1>6. QED
  BY <1>4, <1>5

(* A departure is nobody's arrival. *)
LEMMA RemovedSitNowhereNew ==
    ASSUME LobbyInv, NEW d \in Clients, NEW k \in Lobbies, RemoveClient(k, d),
           NEW c \in Clients, NEW l \in Lobbies
    PROVE  lobbyId'[c] = l => lobbyId[c] = l /\ c # d
BY LobbyFacts, RemoveClientScheduled DEF LobbyInv

LEMMA ClientStepGame ==
    ASSUME LobbyInv, LobbyInv', NEW d \in Clients, ViewClientStep(d),
           NEW c \in Clients, NEW l \in Lobbies, HasGame(c, l)
    PROVE  HasGame(c, l)'
<1> l # NoLobby
  BY LobbyFacts
<1> USE DEF SitsIn
<1>1. CASE RegisterClient(d) /\ Deliver(SendLobbyList(d), {d}, {})
  <2>1. /\ registered' = [registered EXCEPT ![d] = TRUE] /\ online' = [online EXCEPT ![d] = TRUE]
        /\ lobbyId' = [lobbyId EXCEPT ![d] = NoLobby]
        /\ lobbyState' = lobbyState /\ blackjack' = blackjack
    BY <1>1 DEF RegisterClient, lobbyVars, gameVars
  <2>2. SitsIn(c, l)' => SitsIn(c, l) /\ c # d
    BY <2>1 DEF LobbyInv, TypeOK
  <2>3. QED
    BY <1>1, <2>1, <2>2, QuietKeepsGame
<1>2. CASE ReconnectClient(d) /\ Deliver(RestoreClientState(d), {d}, {})
  <2>1. CASE c = d
    BY <1>2, <2>1, ComesBackToGame
  <2>2. CASE c # d
    <3>1. /\ registered' = registered /\ online' = [online EXCEPT ![d] = TRUE]
          /\ lobbyId' = lobbyId /\ lobbyState' = lobbyState /\ blackjack' = blackjack
      BY <1>2 DEF ReconnectClient
    <3>2. SitsIn(c, l)' => SitsIn(c, l)
      BY <2>2, <3>1 DEF LobbyInv, TypeOK
    <3>3. QED
      BY <1>2, <2>2, <3>1, <3>2, QuietKeepsGame
  <2>3. QED
    BY <2>1, <2>2
<1>3. ASSUME NEW k \in Lobbies, JoinLobby(d, k), Requests(SendLobby(d, k) \union SendAddition(k))
      PROVE  HasGame(c, l)'
  <2>1. /\ registered' = registered /\ online' = online
        /\ lobbyId' = [lobbyId EXCEPT ![d] = k]
        /\ lobbyState' = lobbyState /\ blackjack' = blackjack
        /\ lobbyState[k] = "WAITING"
    BY <1>3 DEF JoinLobby, IsJoinable, gameVars
  <2>2. CASE c = d /\ l = k
    BY <2>1, <2>2, LobbyFacts DEF HasGame, HasBoard, HasResults, InGame
  <2>3. CASE c # d \/ l # k
    <3>1. SitsIn(c, l)' => SitsIn(c, l)
      BY <2>1, <2>3 DEF LobbyInv, TypeOK
    <3>2. QED
      BY <1>3, <2>1, <3>1, QuietKeepsGame DEF Requests
  <2>4. QED
    BY <2>2, <2>3
<1>4. CASE LeaveLobby(d) /\ Requests(SendRemoval(lobbyId[d]) \union SendLobbyList(d))
  <2>1. lobbyId[d] \in Lobbies /\ RemoveClient(lobbyId[d], d)
    BY <1>4 DEF LeaveLobby, LobbyInv, TypeOK
  <2>2. /\ registered' = registered /\ online' = online
        /\ lobbyState' = lobbyState /\ blackjack' = blackjack
    BY <1>4 DEF LeaveLobby
  <2>3. QED
    BY <1>4, <2>1, <2>2, RemovedSitNowhereNew, QuietKeepsGame DEF Requests
<1>5. ASSUME NEW type \in MessageTypes, AddNewMessage(d, type), NoRequest PROVE HasGame(c, l)'
  <2>1. /\ registered' = registered /\ online' = online /\ lobbyId' = lobbyId
        /\ lobbyState' = lobbyState /\ blackjack' = blackjack
    BY <1>5 DEF AddNewMessage, clientVars, lobbyVars, gameVars
  <2>2. QED
    BY <1>5, <2>1, QuietKeepsGame DEF NoRequest, Requests
<1>6. QED
  BY <1>1, <1>2, <1>3, <1>4, <1>5 DEF ViewClientStep

LEMMA DisconnectionGame ==
    ASSUME LobbyInv, LobbyInv', NEW d \in Clients, ViewDisconnection(d),
           NEW c \in Clients, NEW l \in Lobbies, HasGame(c, l)
    PROVE  HasGame(c, l)'
<1> USE DEF SitsIn
<1> DEFINE told == IF LosesSeat(lobbyId[d]) THEN SendRemoval(lobbyId[d]) ELSE {}
<1>1. /\ lobbyState' = lobbyState /\ blackjack' = blackjack
  BY DEF ViewDisconnection, ExpireClient, DisconnectClient
<1>2. lobbyId'[c] = l => lobbyId[c] = l
  <2>1. CASE LosesSeat(lobbyId[d])
    <3>1. lobbyId[d] \in Lobbies /\ RemoveClient(lobbyId[d], d)
      BY <2>1 DEF LosesSeat, ViewDisconnection, ExpireClient, DisconnectClient, LobbyInv, TypeOK
    <3>2. QED
      BY <3>1, RemovedSitNowhereNew
  <2>2. CASE ~ LosesSeat(lobbyId[d])
    BY <2>2 DEF ViewDisconnection, ExpireClient, DisconnectClient
  <2>3. QED
    BY <2>1, <2>2
<1>3. CASE ExpireClient(d) /\ Requests(told)
  <2>1. registered' = [registered EXCEPT ![d] = FALSE] /\ online' = online
    BY <1>3 DEF ExpireClient
  <2>2. SitsIn(c, l)' => SitsIn(c, l)
    BY <1>2, <2>1 DEF LobbyInv, TypeOK
  <2>3. QED
    BY <1>1, <1>3, <2>2, QuietKeepsGame DEF Requests
<1>4. CASE DisconnectClient(d) /\ Deliver(told, {d}, {})
  <2>1. registered' = registered /\ online' = [online EXCEPT ![d] = FALSE]
    BY <1>4 DEF DisconnectClient
  <2>2. SitsIn(c, l)' => SitsIn(c, l) /\ c # d
    BY <1>2, <2>1 DEF LobbyInv, TypeOK
  <2>3. QED
    BY <1>1, <1>4, <2>2, QuietKeepsGame
<1>5. QED
  BY <1>3, <1>4 DEF ViewDisconnection

LEMMA MessageGame ==
    ASSUME LobbyInv, LobbyInv', NEW k \in Lobbies, NEW d \in Clients, ViewMessage(k, d),
           NEW c \in Clients, NEW l \in Lobbies, HasGame(c, l)
    PROVE  HasGame(c, l)'
<1> USE DEF SitsIn
<1>1. ASSUME UNCHANGED <<registered, online, lobbyId, lobbyState, blackjack>>,
             NEW requests, Requests(requests)
      PROVE  HasGame(c, l)'
  BY <1>1, QuietKeepsGame DEF Requests
<1>2. CASE HandleReady(k, d) /\ Requests(IF ready[d] THEN {} ELSE SendUpdatePlayerListRequest(k))
  BY <1>1, <1>2 DEF HandleReady, gameVars
<1>3. CASE HandleDecline(k, d) /\ Requests(SendRemoval(k) \union SendDeclineAcknowledged(d))
  <2>1. /\ registered' = registered /\ online' = online
        /\ lobbyState' = lobbyState /\ blackjack' = blackjack
    BY <1>3 DEF HandleDecline
  <2>2. lobbyId'[c] = l => lobbyId[c] = l
    BY <1>3, RemovedSitNowhereNew DEF HandleDecline
  <2>3. QED
    BY <1>3, <2>1, <2>2, QuietKeepsGame DEF Requests
<1>4. CASE AcceptTurn(k, d) /\ Deliver(SendTurn(k), {}, IF RefusesDouble(k) THEN {} ELSE {k})
  <2>1. /\ registered' = registered /\ online' = online /\ lobbyId' = lobbyId
        /\ lobbyState' = lobbyState
        /\ \A m \in Lobbies : m # k => blackjack'[m] = blackjack[m]
    BY <1>4 DEF AcceptTurn, clientVars, lobbyVars, LobbyInv, TypeOK
  <2>2. CASE l # k \/ RefusesDouble(k)
    <3>1. blackjack'[l] = blackjack[l]
      BY <2>1, <2>2 DEF RefusesDouble
    <3>2. l \notin IF RefusesDouble(k) THEN {} ELSE {k}
      BY <2>2
    <3>3. QED
      BY <1>4, <2>1, <3>1, <3>2, QuietKeepsGame
  <2>3. CASE l = k /\ ~ RefusesDouble(k)
    <3>1. HasBoard(c, l)'
      BY <1>4, <2>3, SentBoard DEF SendTurn
    <3>2. HasResults(c, l)'
      BY <1>4, <2>1, QuietKeepsResults DEF HasGame
    <3>3. QED
      BY <3>1, <3>2 DEF HasGame
  <2>4. QED
    BY <2>2, <2>3
<1>5. CASE (HandleConfirm(k, d) \/ RejectTurn(k, d)) /\ NoRequest
  BY <1>1, <1>5 DEF HandleConfirm, RejectTurn, NoRequest, clientVars, lobbyVars, gameVars
<1>6. CASE (HandleBadBet(k, d) \/ CrashOnTurn(k, d)) /\ NoRequest
  BY <1>1, <1>6 DEF HandleBadBet, CrashOnTurn, Crash, NoRequest, clientVars, lobbyVars, gameVars
<1>7. QED
  BY <1>2, <1>3, <1>4, <1>5, <1>6 DEF ViewMessage

(* A step of lobby k's state machine, for the other lobbies. *)
LEMMA StateElsewhere ==
    ASSUME LobbyInv, NEW k \in Lobbies, HandleState(k), NEW c \in Clients,
           NEW l \in Lobbies, l # k
    PROVE  /\ blackjack'[l] = blackjack[l] /\ lobbyState'[l] = lobbyState[l]
           /\ SitsIn(c, l)' => SitsIn(c, l)
<1>1. blackjack'[l] = blackjack[l] /\ lobbyState'[l] = lobbyState[l]
  BY DEF LobbyInv, TypeOK, HandleState, PrepareGame, StartGame, CrashOnStart, Crash, CancelGame,
         SkipPlayer, EndGame, ReturnToLobby, NothingToDo, lobbyVars, gameVars
<1>2. registered' = registered /\ online' = online
  BY DEF HandleState, PrepareGame, StartGame, CrashOnStart, Crash, CancelGame, SkipPlayer,
         EndGame, ReturnToLobby, NothingToDo, NextLobby, clientVars
<1>3. lobbyId'[c] \in {lobbyId[c], NoLobby}
  BY DEF HandleState, PrepareGame, StartGame, CrashOnStart, Crash, CancelGame, SkipPlayer,
         EndGame, ReturnToLobby, NothingToDo, clientVars
<1>4. l # NoLobby
  BY LobbyFacts
<1>5. QED
  BY <1>1, <1>2, <1>3, <1>4 DEF SitsIn

(* ViewState hands over what a step sends and where it deals. *)
LEMMA ViewStateDelivers ==
    ASSUME NEW k, ViewState(k)
    PROVE  \E requests : \E dealt \in SUBSET {k} : Deliver(requests, {}, dealt)
<1>1. {} \in SUBSET {k} /\ {k} \in SUBSET {k}
  OBVIOUS
<1>2. ASSUME NEW requests, Requests(requests)
      PROVE  \E r : \E dealt \in SUBSET {k} : Deliver(r, {}, dealt)
  BY <1>1, <1>2 DEF Requests
<1>3. ASSUME NEW requests, Deliver(requests, {}, {k})
      PROVE  \E r : \E dealt \in SUBSET {k} : Deliver(r, {}, dealt)
  BY <1>1, <1>3
<1>4. QED
  BY <1>2, <1>3 DEF ViewState, NoRequest

(* What startGame sends. *)
StartRequests(l) ==
    LET kicked == Members(clients[l]) \ Members(clients'[l])
    IN  SendClientDidntConfirm(kicked)
            \union (IF kicked = {} THEN {} ELSE SendRemoval(l))
            \union SendPrepareGameRequest(l) \union SendBoardUpdate(l)

LEMMA StateGame ==
    ASSUME LobbyInv, LobbyInv', NEW k \in Lobbies, ViewState(k),
           NEW c \in Clients, NEW l \in Lobbies, HasGame(c, l)
    PROVE  HasGame(c, l)'
<1>1. CASE l # k
  <2>1. HandleState(k)
    BY DEF ViewState, HandleState
  <2>2. PICK requests : \E dealt \in SUBSET {k} : Deliver(requests, {}, dealt)
    BY ViewStateDelivers
  <2>3. QED
    BY <1>1, <2>1, <2>2, StateElsewhere, QuietKeepsGame
<1>2. CASE l = k
  <2>1. CASE StartGame(l) /\ Deliver(StartRequests(l), {}, {l})
    <3>1. SendBoardUpdate(l) \subseteq StartRequests(l)
      BY DEF StartRequests
    <3>2. HasBoard(c, l)'
      BY <2>1, <3>1, SentBoard
    <3>3. lobbyState'[l] = "IN_GAME"
      BY <2>1 DEF StartGame, LobbyInv, TypeOK
    <3>4. QED
      BY <3>2, <3>3 DEF HasGame, HasResults
  <2>2. CASE SkipPlayer(l) /\ IF blackjack'[l].gameRunning THEN Requests(SendBoardUpdate(l))
                              ELSE Deliver({}, {}, {l})
    <3>1. lobbyState'[l] = "IN_GAME"
      BY <2>2 DEF SkipPlayer, Drained, lobbyVars
    <3>2. CASE blackjack'[l].gameRunning
      BY <2>2, <3>1, <3>2, SentBoard DEF Requests, HasGame, HasResults
    <3>3. QED
      BY <3>1, <3>2 DEF HasGame, HasBoard, HasResults
  <2>3. CASE EndGame(l) /\ Requests(SendBoardUpdate(l) \union SendResults(l))
    <3>1. HasBoard(c, l)'
      BY <2>3, SentBoard DEF Requests
    <3>2. ASSUME SitsIn(c, l)' PROVE Holds(c, "results", l)'
      <4>1. InGame(l)' /\ blackjack' = blackjack
        BY <2>3 DEF EndGame, InGame, LobbyInv, TypeOK, gameVars
      <4>2. lobbyId[c] = l /\ InGame(l) /\ online'[c] /\ clients' = clients
        BY <2>3, <3>2 DEF EndGame, Drained, InGame, SitsIn
      <4>3. c \in Members(blackjack[l].players)
        BY <4>2, LobbyFacts
      <4>4. "results" \notin Screens
        BY DEF Screens
      <4>5. Send(Members(blackjack[l].players), "results", l)
                \subseteq SendBoardUpdate(l) \union SendResults(l)
        BY DEF SendResults
      <4>6. QED
        BY <2>3, <4>2, <4>3, <4>4, <4>5, Receives DEF Requests
    <3>3. QED
      BY <3>1, <3>2 DEF HasGame, HasResults
  <2>4. CASE ReturnToLobby(l) \/ CancelGame(l) \/ PrepareGame(l)
    <3>1. ~ InGame(l)'
      BY <2>4 DEF ReturnToLobby, CancelGame, PrepareGame, InGame, LobbyInv, TypeOK
    <3>2. ~ blackjack'[l].gameRunning /\ lobbyState'[l] # "FINISHED"
      BY <3>1 DEF LobbyInv, GameConsistent, NoGame, InGame
    <3>3. QED
      BY <3>2 DEF HasGame, HasBoard, HasResults
  <2>5. CASE (NothingToDo(l) \/ CrashOnStart(l)) /\ NoRequest
    <3>1. UNCHANGED <<registered, online, lobbyId, lobbyState, blackjack>>
      BY <2>5 DEF NothingToDo, NextLobby, CrashOnStart, Crash, clientVars, lobbyVars, gameVars
    <3>2. QED
      BY <2>5, <3>1, QuietKeepsGame DEF NoRequest, Requests, SitsIn
  <2>6. QED
    BY <1>2, <2>1, <2>2, <2>3, <2>4, <2>5 DEF ViewState, StartRequests
<1>3. QED
  BY <1>1, <1>2

LEMMA GameStep ==
    ASSUME LobbyInv, LobbyInv', [ViewNext]_<<vars, viewVars>>,
           NEW c \in Clients, NEW l \in Lobbies, HasGame(c, l)
    PROVE  HasGame(c, l)'
<1>1. CASE UNCHANGED <<vars, viewVars>> \/ (Terminated /\ UNCHANGED viewVars)
  BY <1>1 DEF Terminated, vars, viewVars, clientVars, lobbyVars, gameVars,
              HasGame, HasBoard, HasResults, SitsIn, Holds
<1>2. CASE (EndSelect \/ EndErase \/ EndDisconnect) /\ NoRequest
  <2>1. UNCHANGED <<registered, online, lobbyId, lobbyState, blackjack>>
    BY <1>2 DEF EndSelect, EndErase, EndDisconnect, clientVars, lobbyVars, gameVars
  <2>2. QED
    BY <1>2, <2>1, QuietKeepsGame DEF NoRequest, Requests, SitsIn
<1>3. CASE \E d \in Clients : ViewClientStep(d) \/ ViewDisconnection(d)
  BY <1>3, ClientStepGame, DisconnectionGame
<1>4. CASE \E k \in Lobbies : ViewState(k) \/ \E d \in Clients : ViewMessage(k, d)
  BY <1>4, StateGame, MessageGame
<1>5. QED
  BY <1>1, <1>2, <1>3, <1>4 DEF ViewNext

LEMMA GameInvariant == ViewSpec => [](\A c \in Clients, l \in Lobbies : HasGame(c, l))
<1> DEFINE All == \A c \in Clients, l \in Lobbies : HasGame(c, l)
<1>1. Init /\ ViewInit => All
  BY DEF Init, HasGame, HasBoard, HasResults, SitsIn
<1>2. LobbyInv /\ LobbyInv' /\ All /\ [ViewNext]_<<vars, viewVars>> => All'
  BY GameStep
<1> HIDE DEF All
<1>3. ViewSpec => []All
  BY <1>1, <1>2, LobbyInvariant, PTL DEF ViewSpec
<1>4. QED
  BY <1>3 DEF All

(* In a game every connected member sees the board as it is, however the   *)
(* turns are played or skipped and whenever it comes back, in any number   *)
(* of lobbies.                                                             *)
THEOREM TheBoardsAreCurrent == ViewSpec => []BoardsAreCurrent
<1>1. (\A c \in Clients, l \in Lobbies : HasGame(c, l)) => BoardsAreCurrent
  BY DEF HasGame, HasBoard, BoardsAreCurrent
<1>2. QED
  BY <1>1, GameInvariant, PTL

(* The results reach every member that is connected before its lobby waits *)
(* again: those who were there at the end and those who came back later.   *)
THEOREM TheResultsReachThePlayers == ViewSpec => []ResultsReachThePlayers
<1>1. (\A c \in Clients, l \in Lobbies : HasGame(c, l)) => ResultsReachThePlayers
  BY DEF HasGame, HasResults, ResultsReachThePlayers
<1>2. QED
  BY <1>1, GameInvariant, PTL

-----------------------------------------------------------------------------
(* Which lobbies may still speak to a client: only a join adds one.        *)

NoNearer == \A c \in Clients, l \in Lobbies : Reaches(l, c)' => Reaches(l, c)

Senders(l) == {unprocessedMessages[l][i].client : i \in DOMAIN unprocessedMessages[l]}

LEMMA ReachesSenders ==
    ASSUME NEW l, NEW c
    PROVE  Reaches(l, c) <=> \/ c \in Members(clients[l]) \union disconnectedClients[l]
                             \/ ~InGame(l) /\ c \in Members(confirmedClients[l])
                             \/ c \in Senders(l)
BY DEF Reaches, Senders

(* What each part of a lobby is after a step that adds nobody to it. *)
LEMMA FewerAreNoNearer ==
    ASSUME \A l \in Lobbies :
               /\ Members(clients'[l]) \subseteq Members(clients[l])
               /\ disconnectedClients'[l] \subseteq disconnectedClients[l] \union Members(clients[l])
               /\ ~InGame(l)' =>
                      \/ Members(confirmedClients'[l]) = {}
                      \/ /\ ~InGame(l)
                         /\ Members(confirmedClients'[l])
                                \subseteq Members(confirmedClients[l]) \union Senders(l)
               /\ Senders(l)' \subseteq Senders(l) \union Members(clients[l])
    PROVE  NoNearer
<1> SUFFICES ASSUME NEW c \in Clients, NEW l \in Lobbies, Reaches(l, c)'
             PROVE  Reaches(l, c)
  BY DEF NoNearer
<1>1. \/ c \in Members(clients'[l]) \union disconnectedClients'[l]
      \/ ~InGame(l)' /\ c \in Members(confirmedClients'[l])
      \/ c \in Senders(l)'
  BY DEF Reaches, Senders
<1>2. QED
  BY <1>1, ReachesSenders

LEMMA TailSenders ==
    ASSUME TypeOK, NEW k \in Lobbies, unprocessedMessages[k] # << >>, PopMessage(k),
           NEW l \in Lobbies
    PROVE  Senders(l)' \subseteq Senders(l)
<1> DEFINE s == unprocessedMessages[k]
<1>1. CASE l = k
  <2>1. unprocessedMessages'[l] = Tail(s) /\ s \in Seq(Messages)
    BY <1>1 DEF PopMessage, TypeOK
  <2>2. \A i \in DOMAIN Tail(s) : i + 1 \in DOMAIN s /\ Tail(s)[i] = s[i + 1]
    BY <2>1
  <2>3. QED
    BY <1>1, <2>1, <2>2 DEF Senders
<1>2. CASE l # k
  BY <1>2 DEF PopMessage, TypeOK, Senders
<1>3. QED
  BY <1>1, <1>2

LEMMA SameSenders ==
    ASSUME UNCHANGED unprocessedMessages, NEW l
    PROVE  Senders(l)' = Senders(l)
BY DEF Senders

LEMMA RemoveClientMembers ==
    ASSUME TypeOK, NEW k \in Lobbies, NEW d \in Clients, RemoveClient(k, d), NEW l \in Lobbies
    PROVE  Members(clients'[l]) = IF l = k THEN Members(clients[l]) \ {d} ELSE Members(clients[l])
<1>1. clients[k] \in Seq(Clients)
  BY DEF TypeOK
<1>2. clients'[l] = IF l = k THEN Without(clients[l], {d}) ELSE clients[l]
  BY DEF TypeOK, RemoveClient
<1>3. QED
  BY <1>1, <1>2, WithoutMembers

(* The messages of phase "select" but a join. *)
LEMMA ClientStepNoNearer ==
    ASSUME LobbyInv, NEW d \in Clients,
           \/ RegisterClient(d) \/ ReconnectClient(d) \/ LeaveLobby(d)
           \/ \E type \in MessageTypes : AddNewMessage(d, type)
    PROVE  NoNearer
<1> TypeOK
  BY DEF LobbyInv
<1>1. CASE RegisterClient(d)
  BY <1>1, SameSenders, FewerAreNoNearer DEF RegisterClient, lobbyVars, gameVars, InGame
<1>2. CASE ReconnectClient(d)
  <2>1. UNCHANGED <<lobbyState, clients, confirmedClients, unprocessedMessages>>
    BY <1>2 DEF ReconnectClient
  <2>2. \A l \in Lobbies : disconnectedClients'[l] \subseteq disconnectedClients[l]
    BY <1>2 DEF ReconnectClient
  <2>3. QED
    BY <2>1, <2>2, SameSenders, FewerAreNoNearer DEF InGame
<1>3. CASE LeaveLobby(d)
  <2>1. lobbyId[d] \in Lobbies /\ RemoveClient(lobbyId[d], d)
    BY <1>3 DEF LeaveLobby, TypeOK
  <2>2. UNCHANGED <<lobbyState, disconnectedClients, confirmedClients, unprocessedMessages>>
    BY <1>3 DEF LeaveLobby
  <2>3. QED
    BY <2>1, <2>2, RemoveClientMembers, SameSenders, FewerAreNoNearer DEF InGame
<1>4. ASSUME NEW type \in MessageTypes, AddNewMessage(d, type) PROVE NoNearer
  <2> DEFINE k == lobbyId[d]
             m == [client |-> d, type |-> type]
  <2>1. UNCHANGED <<lobbyState, clients, disconnectedClients, confirmedClients>>
    BY <1>4 DEF AddNewMessage, lobbyVars, gameVars
  <2>2. k \in Lobbies /\ d \in Members(clients[k])
    BY <1>4 DEF AddNewMessage, TypeOK, LobbyInv, LobbyIdIsASeat
  <2>3. ASSUME NEW l \in Lobbies
        PROVE  Senders(l)' \subseteq Senders(l) \union Members(clients[l])
    <3>1. unprocessedMessages'[l] = IF l = k THEN Append(unprocessedMessages[l], m)
                                    ELSE unprocessedMessages[l]
      BY <1>4 DEF AddNewMessage, TypeOK
    <3>2. unprocessedMessages[l] \in Seq(Messages) /\ m \in Messages
      BY DEF TypeOK, Messages
    <3>3. \A i \in DOMAIN Append(unprocessedMessages[l], m) :
              \/ /\ i \in DOMAIN unprocessedMessages[l]
                 /\ Append(unprocessedMessages[l], m)[i] = unprocessedMessages[l][i]
              \/ Append(unprocessedMessages[l], m)[i] = m
      BY <3>2
    <3>4. \A i \in DOMAIN unprocessedMessages'[l] :
              \/ /\ i \in DOMAIN unprocessedMessages[l]
                 /\ unprocessedMessages'[l][i] = unprocessedMessages[l][i]
              \/ l = k /\ unprocessedMessages'[l][i] = m
      BY <3>1, <3>3
    <3>5. m.client = d
      OBVIOUS
    <3> HIDE DEF m
    <3>6. QED
      BY <2>2, <3>4, <3>5 DEF Senders
  <2>4. QED
    BY <2>1, <2>3, FewerAreNoNearer DEF InGame
<1>5. QED
  BY <1>1, <1>2, <1>3, <1>4

LEMMA DisconnectionNoNearer ==
    ASSUME LobbyInv, NEW d \in Clients, ExpireClient(d) \/ DisconnectClient(d)
    PROVE  NoNearer
<1> TypeOK
  BY DEF LobbyInv
<1> DEFINE k == lobbyId[d]
<1>1. UNCHANGED <<lobbyState, confirmedClients, unprocessedMessages>>
  BY DEF ExpireClient, DisconnectClient
<1>2. CASE LosesSeat(k)
  <2>1. k \in Lobbies /\ RemoveClient(k, d) /\ UNCHANGED disconnectedClients
    BY <1>2 DEF LosesSeat, ExpireClient, DisconnectClient, TypeOK
  <2>2. QED
    BY <1>1, <2>1, RemoveClientMembers, SameSenders, FewerAreNoNearer DEF InGame
<1>3. CASE ~LosesSeat(k)
  <2>1. UNCHANGED clients
    BY <1>3 DEF ExpireClient, DisconnectClient
  <2>2. ASSUME NEW l \in Lobbies
        PROVE  disconnectedClients'[l] \subseteq disconnectedClients[l] \union Members(clients[l])
    <3>1. CASE ExpireClient(d)
      BY <3>1 DEF ExpireClient
    <3>2. CASE DisconnectClient(d)
      <4>1. disconnectedClients'[l] = disconnectedClients[l] \union (IF l = k THEN {d} ELSE {})
        BY <1>3, <3>2, Zenon DEF DisconnectClient, AddDisconnectedClient
      <4>2. QED
        BY <4>1, LobbyFacts
    <3>3. QED
      BY <3>1, <3>2
  <2>3. QED
    BY <1>1, <2>1, <2>2, SameSenders, FewerAreNoNearer DEF InGame
<1>4. QED
  BY <1>2, <1>3

LEMMA HandledIsSender ==
    ASSUME TypeOK, NEW k \in Lobbies, NEW d, NEW types, Handles(k, d, types)
    PROVE  d \in Senders(k) /\ unprocessedMessages[k] # << >> /\ Reaches(k, d)
<1>1. unprocessedMessages[k] \in Seq(Messages) /\ unprocessedMessages[k] # << >>
  BY DEF TypeOK, Handles
<1>2. 1 \in DOMAIN unprocessedMessages[k] /\ unprocessedMessages[k][1] = Head(unprocessedMessages[k])
  BY <1>1
<1>3. d \in Senders(k)
  BY <1>2 DEF Handles, Senders
<1>4. QED
  BY <1>1, <1>3, ReachesSenders

LEMMA MessageNoNearer ==
    ASSUME LobbyInv, NEW k \in Lobbies, NEW d \in Clients, HandleMessage(k, d)
    PROVE  NoNearer
<1> TypeOK
  BY DEF LobbyInv
<1>1. CASE HandleReady(k, d)
  <2>1. UNCHANGED <<lobbyState, clients, disconnectedClients, confirmedClients>>
    BY <1>1 DEF HandleReady, gameVars
  <2>2. QED
    BY <1>1, <2>1, HandledIsSender, TailSenders, FewerAreNoNearer DEF HandleReady, InGame
<1>2. CASE HandleConfirm(k, d)
  <2>1. UNCHANGED <<lobbyState, clients, disconnectedClients>>
    BY <1>2 DEF HandleConfirm, lobbyVars
  <2>2. d \in Senders(k) /\ unprocessedMessages[k] # << >> /\ PopMessage(k)
    BY <1>2, HandledIsSender DEF HandleConfirm
  <2>3. ASSUME NEW l \in Lobbies
        PROVE  Members(confirmedClients'[l]) \subseteq Members(confirmedClients[l]) \union Senders(l)
    <3>1. \/ confirmedClients'[l] = confirmedClients[l]
          \/ l = k /\ confirmedClients'[l] = Append(confirmedClients[l], d)
      BY <1>2 DEF HandleConfirm, TypeOK
    <3>2. confirmedClients[l] \in Seq(Clients)
      BY DEF TypeOK
    <3>3. Members(Append(confirmedClients[l], d)) = Members(confirmedClients[l]) \union {d}
      BY <3>2, AppendMembers
    <3>4. QED
      BY <2>2, <3>1, <3>3
  <2>4. QED
    BY <2>1, <2>2, <2>3, TailSenders, FewerAreNoNearer DEF InGame
<1>3. CASE HandleDecline(k, d)
  <2>1. UNCHANGED <<lobbyState, disconnectedClients, confirmedClients>>
    BY <1>3 DEF HandleDecline
  <2>2. RemoveClient(k, d) /\ PopMessage(k) /\ unprocessedMessages[k] # << >>
    BY <1>3, HandledIsSender DEF HandleDecline
  <2>3. QED
    BY <2>1, <2>2, RemoveClientMembers, TailSenders, FewerAreNoNearer DEF InGame
<1>4. CASE RejectTurn(k, d) \/ AcceptTurn(k, d)
  <2>1. UNCHANGED <<lobbyState, clients, disconnectedClients, confirmedClients>>
    BY <1>4 DEF RejectTurn, AcceptTurn, lobbyVars, gameVars
  <2>2. PopMessage(k) /\ unprocessedMessages[k] # << >>
    BY <1>4, HandledIsSender DEF RejectTurn, AcceptTurn
  <2>3. QED
    BY <2>1, <2>2, TailSenders, FewerAreNoNearer DEF InGame
<1>5. CASE HandleBadBet(k, d) \/ CrashOnTurn(k, d)
  BY <1>5, SameSenders, FewerAreNoNearer
     DEF HandleBadBet, CrashOnTurn, Crash, lobbyVars, gameVars, InGame
<1>6. QED
  BY <1>1, <1>2, <1>3, <1>4, <1>5 DEF HandleMessage

LEMMA StateNoNearer ==
    ASSUME LobbyInv, NEW k \in Lobbies, HandleState(k)
    PROVE  NoNearer
<1> TypeOK
  BY DEF LobbyInv
<1>1. UNCHANGED unprocessedMessages
  BY DEF HandleState, PrepareGame, StartGame, CrashOnStart, Crash, CancelGame, SkipPlayer, EndGame,
         ReturnToLobby, NothingToDo, NextLobby
<1>2. \A l \in Lobbies : disconnectedClients'[l] \subseteq disconnectedClients[l]
  BY DEF HandleState, PrepareGame, StartGame, CrashOnStart, Crash, CancelGame, SkipPlayer, EndGame,
         ReturnToLobby, NothingToDo, lobbyVars, TypeOK
<1>3. ASSUME NEW l \in Lobbies PROVE Members(clients'[l]) \subseteq Members(clients[l])
  <2>1. clients[l] \in Seq(Clients)
    BY DEF TypeOK
  <2>2. CASE StartGame(k) \/ ReturnToLobby(k)
    <3>1. PICK D : clients' = [clients EXCEPT ![k] = Without(@, D)]
      BY <2>2 DEF StartGame, ReturnToLobby
    <3>2. clients'[l] \in {clients[l], Without(clients[l], D)}
      BY <3>1 DEF TypeOK
    <3>3. QED
      BY <2>1, <3>2, WithoutMembers
  <2>3. CASE ~(StartGame(k) \/ ReturnToLobby(k))
    BY <2>3 DEF HandleState, PrepareGame, CrashOnStart, Crash, CancelGame, SkipPlayer, EndGame,
                NothingToDo, lobbyVars
  <2>4. QED
    BY <2>2, <2>3
<1>4. ASSUME NEW l \in Lobbies, ~InGame(l)'
      PROVE  \/ Members(confirmedClients'[l]) = {}
             \/ ~InGame(l) /\ confirmedClients'[l] = confirmedClients[l]
  <2>1. CASE CancelGame(k) \/ ReturnToLobby(k)
    <3>1. \/ l = k /\ confirmedClients'[l] = << >>
          \/ confirmedClients'[l] = confirmedClients[l] /\ lobbyState'[l] = lobbyState[l]
      BY <2>1 DEF CancelGame, ReturnToLobby, TypeOK
    <3>2. Members(<< >>) = {}
      BY DEF Members
    <3>3. QED
      BY <1>4, <3>1, <3>2 DEF InGame
  <2>2. CASE PrepareGame(k) \/ StartGame(k) \/ SkipPlayer(k) \/ EndGame(k) \/ NothingToDo(k)
    <3>1. UNCHANGED confirmedClients
      BY <2>2 DEF PrepareGame, StartGame, SkipPlayer, EndGame, NothingToDo, gameVars
    <3>2. lobbyState'[l] = lobbyState[l] \/ ~InGame(l)
      BY <1>4, <2>2 DEF PrepareGame, StartGame, SkipPlayer, EndGame, NothingToDo, lobbyVars,
                        Drained, InGame, TypeOK
    <3>3. QED
      BY <1>4, <3>1, <3>2 DEF InGame
  <2>3. CASE CrashOnStart(k)
    BY <1>4, <2>3 DEF CrashOnStart, Crash, lobbyVars, gameVars, InGame
  <2>4. QED
    BY <2>1, <2>2, <2>3 DEF HandleState
<1>5. QED
  BY <1>1, <1>2, <1>3, <1>4, SameSenders, FewerAreNoNearer

LEMMA PhaseNoNearer ==
    ASSUME UNCHANGED <<lobbyVars, unprocessedMessages, gameVars>>
    PROVE  NoNearer
BY SameSenders, FewerAreNoNearer DEF lobbyVars, gameVars, InGame

(* A join brings a client and a lobby together, and nobody else. *)
LEMMA JoinNearer ==
    ASSUME LobbyInv, NEW d \in Clients, NEW k \in Lobbies, JoinLobby(d, k),
           NEW c \in Clients, NEW l \in Lobbies, Reaches(l, c)'
    PROVE  Reaches(l, c) \/ (c = d /\ l = k)
<1>1. UNCHANGED <<lobbyState, disconnectedClients, confirmedClients, unprocessedMessages>>
  BY DEF JoinLobby, gameVars
<1>2. \/ clients'[l] = clients[l]
      \/ l = k /\ clients'[l] = Append(clients[l], d)
  BY DEF JoinLobby, LobbyInv, TypeOK
<1>3. clients[l] \in Seq(Clients)
  BY DEF LobbyInv, TypeOK
<1>4. Members(Append(clients[l], d)) = Members(clients[l]) \union {d}
  BY <1>3, AppendMembers
<1>5. QED
  BY <1>1, <1>2, <1>4 DEF Reaches, InGame

-----------------------------------------------------------------------------
(* Who is no stray is within reach of one lobby at most. *)

Settled(c) ==
    c \notin strays => \A k, l \in Lobbies : Reaches(k, c) /\ Reaches(l, c) => k = l

Forgets(d) == strays' = strays \ {d} /\ \A l \in Lobbies : ~Reaches(l, d)

LEMMA ReachesStep ==
    ASSUME LobbyInv, [ViewNext]_<<vars, viewVars>>
    PROVE  \/ NoNearer /\ (strays' = strays \/ \E d \in Clients : Forgets(d))
           \/ \E d \in Clients, k \in Lobbies : JoinLobby(d, k) /\ strays' = StraysAfter(d, k)
<1>1. CASE UNCHANGED <<vars, viewVars>> \/ (Terminated /\ UNCHANGED viewVars)
  BY <1>1, PhaseNoNearer DEF Terminated, vars, viewVars
<1>2. CASE (EndSelect \/ EndErase \/ EndDisconnect) /\ strays' = strays
  BY <1>2, PhaseNoNearer DEF EndSelect, EndErase, EndDisconnect
<1>3. ASSUME NEW d \in Clients, RegisterClient(d), strays' = strays \ {d}
      PROVE  NoNearer /\ Forgets(d)
  <2>1. \A l \in Lobbies : ~Reaches(l, d)
    BY <1>3 DEF RegisterClient, Unreferenced, Reaches
  <2>2. QED
    BY <1>3, <2>1, ClientStepNoNearer DEF Forgets
<1>4. ASSUME NEW d \in Clients,
             \/ ReconnectClient(d) \/ LeaveLobby(d)
             \/ \E type \in MessageTypes : AddNewMessage(d, type)
      PROVE  NoNearer
  BY <1>4, ClientStepNoNearer
<1>5. ASSUME NEW d \in Clients, ViewDisconnection(d) PROVE NoNearer
  BY <1>5, DisconnectionNoNearer DEF ViewDisconnection
<1>6. ASSUME NEW k \in Lobbies, ViewState(k) PROVE NoNearer
  BY <1>6, StateNoNearer DEF ViewState, HandleState
<1>7. ASSUME NEW k \in Lobbies, NEW d \in Clients, ViewMessage(k, d) PROVE NoNearer
  BY <1>7, MessageNoNearer DEF ViewMessage, HandleMessage
<1>8. ASSUME NEW d \in Clients, ViewClientStep(d)
      PROVE  \/ NoNearer /\ (strays' = strays \/ Forgets(d))
             \/ \E k \in Lobbies : JoinLobby(d, k) /\ strays' = StraysAfter(d, k)
  BY <1>3, <1>4, <1>8 DEF ViewClientStep
<1>9. QED
  BY <1>1, <1>2, <1>5, <1>6, <1>7, <1>8 DEF ViewNext

LEMMA SettledStep ==
    ASSUME LobbyInv, [ViewNext]_<<vars, viewVars>>, NEW c \in Clients, Settled(c)
    PROVE  Settled(c)'
<1> SUFFICES ASSUME c \notin strays', NEW k \in Lobbies, NEW l \in Lobbies,
                    Reaches(k, c)', Reaches(l, c)'
             PROVE  k = l
  BY DEF Settled
<1>1. CASE NoNearer /\ strays' = strays
  BY <1>1 DEF NoNearer, Settled
<1>2. ASSUME NoNearer, NEW d \in Clients, Forgets(d) PROVE k = l
  <2>1. Reaches(k, c) /\ Reaches(l, c)
    BY <1>2 DEF NoNearer
  <2>2. c \notin strays
    BY <1>2, <2>1 DEF Forgets
  <2>3. QED
    BY <2>1, <2>2 DEF Settled
<1>3. ASSUME NEW d \in Clients, NEW j \in Lobbies, JoinLobby(d, j), strays' = StraysAfter(d, j)
      PROVE  k = l
  <2>1. /\ Reaches(k, c) \/ (c = d /\ k = j)
        /\ Reaches(l, c) \/ (c = d /\ l = j)
    BY <1>3, JoinNearer
  <2>2. CASE c = d
    <3>1. \A i \in Lobbies \ {j} : ~Reaches(i, c)
      BY <1>3, <2>2 DEF StraysAfter
    <3>2. QED
      BY <2>1, <3>1
  <2>3. CASE c # d
    BY <1>3, <2>1, <2>3 DEF StraysAfter, Settled
  <2>4. QED
    BY <2>2, <2>3
<1>4. QED
  BY <1>1, <1>2, <1>3, ReachesStep

-----------------------------------------------------------------------------
(* Screens and lists of players. *)

NoStrays(l) == Members(clients[l]) \intersect strays = {}

OnScreen(c, l) ==
    c \notin strays /\ SitsIn(c, l) => screen[c] = IF InGame(l) THEN "game" ELSE "lobby"
HasList(c, l) == SitsIn(c, l) /\ ~InGame(l) /\ NoStrays(l) => Holds(c, "playerList", l)
IsRight(c, l) == OnScreen(c, l) /\ HasList(c, l)

(* A client to whom no screen is sent stays where it is. *)
LEMMA QuietKeepsScreen ==
    ASSUME NEW requests, NEW lost, NEW dealt, Deliver(requests, lost, dealt),
           NEW c \in Clients, NEW l, OnScreen(c, l),
           c \notin strays' /\ SitsIn(c, l)' =>
               /\ c \notin strays /\ SitsIn(c, l) /\ c \notin lost
               /\ InGame(l)' <=> InGame(l)
               /\ \A m \in requests : m.to = c => m.what \notin Screens
    PROVE  OnScreen(c, l)'
BY GoneTo DEF OnScreen

(* The list of l shows the flags of its members only. *)
LEMMA SameList ==
    ASSUME NEW l, clients'[l] = clients[l],
           \A b \in Members(clients[l]) : ready'[b] = ready[b]
    PROVE  PlayerList(l)' = PlayerList(l)
<1>1. \A i \in DOMAIN clients[l] : ready'[clients[l][i]] = ready[clients[l][i]]
  BY DEF Members
<1>2. PlayerList(l)' = [i \in DOMAIN clients[l] |-> <<clients[l][i], ready'[clients[l][i]]>>]
  BY DEF PlayerList
<1>3. PlayerList(l) = [i \in DOMAIN clients[l] |-> <<clients[l][i], ready[clients[l][i]]>>]
  BY DEF PlayerList
<1>4. QED
  BY <1>1, <1>2, <1>3

(* A list is not lost where nobody comes, goes or votes. *)
LEMMA QuietKeepsList ==
    ASSUME NEW requests, NEW lost, NEW dealt, Deliver(requests, lost, dealt),
           NEW c \in Clients, NEW l \in Lobbies, HasList(c, l),
           SitsIn(c, l)' /\ ~InGame(l)' /\ NoStrays(l)' =>
               /\ SitsIn(c, l) /\ ~InGame(l) /\ NoStrays(l) /\ c \notin lost
               /\ PlayerList(l)' = PlayerList(l)
    PROVE  HasList(c, l)'
<1> SUFFICES ASSUME SitsIn(c, l)', ~InGame(l)', NoStrays(l)'
             PROVE  Holds(c, "playerList", l)'
  BY DEF HasList
<1> DEFINE v == [what |-> "playerList", lobby |-> l]
<1>1. v \in shown[c] /\ c \notin lost
  BY DEF HasList, Holds
<1>2. v \notin Outdated(dealt)
  BY DEF Outdated
<1>3. QED
  BY <1>1, <1>2, Delivered DEF Holds

(* A list that is sent to all members reaches those who sit in the lobby. *)
LEMMA SentList ==
    ASSUME LobbyInv', NEW l \in Lobbies,
           NEW requests, NEW lost, NEW dealt, Deliver(requests, lost, dealt),
           SendUpdatePlayerListRequest(l) \subseteq requests, NEW c \in Clients
    PROVE  HasList(c, l)'
<1> SUFFICES ASSUME SitsIn(c, l)' PROVE Holds(c, "playerList", l)'
  BY DEF HasList
<1>1. l # NoLobby
  BY LobbyCountAssumption DEF Lobbies, NoLobby
<1>2. c \in Members(clients'[l]) /\ online'[c]
  BY <1>1 DEF LobbyInv, LobbyIdIsASeat, SitsIn
<1>3. "playerList" \notin Screens
  BY DEF Screens
<1>4. QED
  BY <1>2, <1>3, Receives DEF SendUpdatePlayerListRequest

(* A step that tells c of no screen and does not change the list of l.     *)
(* Who strays from l in it may do what it likes.                           *)
LEMMA QuietIsRight ==
    ASSUME NEW requests, NEW lost, NEW dealt, Deliver(requests, lost, dealt),
           NEW c \in Clients, NEW l \in Lobbies, IsRight(c, l),
           clients'[l] = clients[l],
           SitsIn(c, l)' => SitsIn(c, l) /\ c \notin lost /\ (c \in strays => c \in strays'),
           InGame(l)' <=> InGame(l),
           \A b \in Members(clients[l]) :
               b \notin strays' => b \notin strays /\ ready'[b] = ready[b],
           c \notin strays /\ SitsIn(c, l)
               => \A m \in requests : m.to = c => m.what \notin Screens
    PROVE  IsRight(c, l)'
<1>1. OnScreen(c, l)'
  BY QuietKeepsScreen DEF IsRight
<1>2. NoStrays(l)' => NoStrays(l) /\ PlayerList(l)' = PlayerList(l)
  BY SameList DEF NoStrays
<1>3. HasList(c, l)'
  BY <1>2, QuietKeepsList DEF IsRight
<1>4. QED
  BY <1>1, <1>3 DEF IsRight

(* A step that tells c of no screen and sends the list to all members. *)
LEMMA ToldIsRight ==
    ASSUME LobbyInv', NEW requests, NEW lost, NEW dealt, Deliver(requests, lost, dealt),
           NEW c \in Clients, NEW l \in Lobbies, IsRight(c, l),
           SendUpdatePlayerListRequest(l) \subseteq requests,
           SitsIn(c, l)' => SitsIn(c, l) /\ c \notin lost /\ (c \in strays => c \in strays'),
           InGame(l)' <=> InGame(l),
           \A m \in requests : m.to = c => m.what \notin Screens
    PROVE  IsRight(c, l)'
<1>1. OnScreen(c, l)'
  BY QuietKeepsScreen DEF IsRight
<1>2. HasList(c, l)'
  BY SentList
<1>3. QED
  BY <1>1, <1>2 DEF IsRight

AllSettled == \A b \in Clients : Settled(b)

(* Lobby k's step shows in lobby l on strays only. *)
LEMMA ElsewhereIsRight ==
    ASSUME LobbyInv, AllSettled, strays' = strays,
           NEW requests, NEW lost, NEW dealt, Deliver(requests, lost, dealt),
           NEW c \in Clients, NEW l \in Lobbies, IsRight(c, l), NEW k \in Lobbies, k # l,
           clients'[l] = clients[l],
           SitsIn(c, l)' => SitsIn(c, l) /\ c \notin lost,
           InGame(l)' <=> InGame(l),
           \A b \in Clients : ready'[b] = ready[b] \/ Reaches(k, b),
           \A m \in requests : m.to = c /\ m.what \in Screens => Reaches(k, c)
    PROVE  IsRight(c, l)'
<1>1. ASSUME NEW b \in Clients, b \in Members(clients[l]), b \notin strays
      PROVE  ~Reaches(k, b)
  BY <1>1 DEF AllSettled, Settled, Reaches
<1>2. Members(clients[l]) \subseteq Clients
  <2>1. clients[l] \in Seq(Clients)
    BY DEF LobbyInv, TypeOK
  <2>2. QED
    BY <2>1 DEF Members
<1>3. SitsIn(c, l) => c \in Members(clients[l])
  BY LobbyFacts DEF SitsIn
<1>4. QED
  BY <1>1, <1>2, <1>3, QuietIsRight

-----------------------------------------------------------------------------
(* What the requests are. *)

(* What is not a screen. *)
LEMMA NoScreens ==
    ASSUME NEW to, NEW l
    PROVE  /\ \A m \in Send(to, "playerList", l) : m.what \notin Screens
           /\ \A m \in Send(to, "board", l) : m.what \notin Screens
           /\ \A m \in Send(to, "results", l) : m.what \notin Screens
<1>1. "playerList" \notin Screens /\ "board" \notin Screens /\ "results" \notin Screens
  BY DEF Screens
<1>2. QED
  BY <1>1, Sent

(* Nobody is told by a screen of one other than itself. *)
LEMMA ListsOnly ==
    ASSUME NEW l
    PROVE  /\ \A m \in SendUpdatePlayerListRequest(l) : m.what \notin Screens
           /\ \A m \in SendBoardUpdate(l) : m.what \notin Screens
           /\ \A m \in SendResults(l) : m.what \notin Screens
BY NoScreens DEF SendUpdatePlayerListRequest, SendBoardUpdate, SendBoard, SendResults

LEMMA ToOne ==
    ASSUME NEW d, NEW what, NEW l
    PROVE  \A m \in Send({d}, what, l) : m.to = d /\ m.what = what
BY Sent

(* The answer to a login is for the client that logged in. *)
LEMMA RestoredAlone ==
    ASSUME NEW d
    PROVE  \A m \in RestoreClientState(d) : m.to = d
<1> DEFINE Alone(S) == \A m \in S : m.to = d
<1>1. \A what, l : Alone(Send({d}, what, l))
  BY ToOne
<1>2. \A S, T : Alone(S) /\ Alone(T) => Alone(S \union T)
  OBVIOUS
<1>3. Alone({})
  OBVIOUS
<1> HIDE DEF Alone
<1>4. ASSUME NEW l PROVE Alone(ReconnectToGame(l, d))
  BY <1>1, <1>2, <1>3 DEF ReconnectToGame, SendBoard
<1>5. ASSUME NEW l PROVE Alone(RestoreState(l, d))
  BY <1>1, <1>2, <1>4 DEF RestoreState
<1>6. Alone(RestoreClientState(d))
  BY <1>1, <1>5 DEF RestoreClientState, SendLobbyList
<1>7. QED
  BY <1>6 DEF Alone

(* The client that comes back. *)
LEMMA ComesBackToLobby ==
    ASSUME LobbyInv, NEW c \in Clients, ReconnectClient(c),
           Deliver(RestoreClientState(c), {c}, {}), NEW l \in Lobbies
    PROVE  IsRight(c, l)'
<1> SUFFICES ASSUME SitsIn(c, l)'
             PROVE  /\ screen'[c] = IF InGame(l) THEN "game" ELSE "lobby"
                    /\ ~InGame(l) => Holds(c, "playerList", l)'
  BY DEF IsRight, OnScreen, HasList, InGame, ReconnectClient
<1>1. lobbyId[c] = l /\ online'[c]
  BY DEF SitsIn, ReconnectClient
<1>2. RestoreClientState(c) = RestoreState(l, c)
  BY <1>1, LobbyFacts DEF RestoreClientState, HasLobby
<1>3. CASE InGame(l)
  <2> DEFINE requests == ReconnectToGame(l, c)
  <2>1. \A m \in requests : m.what \in Screens => m.what = "game"
    BY NoScreens, ToOne DEF ReconnectToGame, SendBoard
  <2>2. \E m \in requests : m.to = c /\ m.what = "game"
    BY Sent DEF ReconnectToGame
  <2>3. Deliver(requests, {c}, {})
    BY <1>2, <1>3 DEF RestoreState
  <2>4. "game" \in Screens
    BY DEF Screens
  <2> HIDE DEF requests
  <2>5. QED
    BY <1>1, <1>3, <2>1, <2>2, <2>3, <2>4, GoneTo
<1>4. CASE ~InGame(l)
  <2> DEFINE requests == Send({c}, "lobby", l) \union Send({c}, "playerList", l)
  <2>1. \A m \in requests : m.what \in Screens => m.what = "lobby"
    BY NoScreens, ToOne
  <2>2. \E m \in requests : m.to = c /\ m.what = "lobby"
    BY Sent
  <2>3. Deliver(requests, {c}, {})
    BY <1>2, <1>4 DEF RestoreState
  <2>4. "lobby" \in Screens /\ "playerList" \notin Screens
    BY DEF Screens
  <2>5. Send({c}, "playerList", l) \subseteq requests
    OBVIOUS
  <2> HIDE DEF requests
  <2>6. screen'[c] = "lobby"
    BY <1>1, <2>1, <2>2, <2>3, <2>4, GoneTo
  <2>7. Holds(c, "playerList", l)'
    BY <1>1, <2>3, <2>4, <2>5, Receives
  <2>8. QED
    BY <1>4, <2>6, <2>7
<1>5. QED
  BY <1>3, <1>4

-----------------------------------------------------------------------------
(* No step makes a screen or a list wrong. *)

(* removeClient with the list for those who stay, wherever it is called. *)
LEMMA RemovalIsRight ==
    ASSUME LobbyInv, LobbyInv', AllSettled, strays' = strays,
           NEW k \in Lobbies, NEW d \in Clients, RemoveClient(k, d), Reaches(k, d),
           NEW requests, NEW lost, NEW dealt, Deliver(requests, lost, dealt),
           SendUpdatePlayerListRequest(k) \subseteq requests,
           \A m \in requests : m.what \in Screens => m.to = d,
           NEW c \in Clients, NEW l \in Lobbies, IsRight(c, l),
           SitsIn(c, l)' => registered[c] /\ online[c] /\ c \notin lost,
           lobbyState' = lobbyState
    PROVE  IsRight(c, l)'
<1>1. SitsIn(c, l)' => SitsIn(c, l) /\ c # d
  BY RemovedSitNowhereNew DEF SitsIn
<1>2. InGame(l)' <=> InGame(l)
  BY DEF InGame
<1>3. CASE c = d
  BY <1>1, <1>3 DEF IsRight, OnScreen, HasList
<1>4. CASE c # d /\ l = k
  BY <1>1, <1>2, <1>4, ToldIsRight
<1>5. CASE c # d /\ l # k
  <2>1. clients'[l] = clients[l] /\ \A b \in Clients : b # d => ready'[b] = ready[b]
    BY <1>5 DEF RemoveClient, LobbyInv, TypeOK
  <2>2. QED
    BY <1>1, <1>2, <1>5, <2>1, ElsewhereIsRight
<1>6. QED
  BY <1>3, <1>4, <1>5

(* Who comes to lobby k is told its screen, and all see the new list.      *)
(* Elsewhere it is a stray from now on, if it is a member.                 *)
LEMMA JoinIsRight ==
    ASSUME LobbyInv, LobbyInv', NEW d \in Clients, NEW k \in Lobbies,
           JoinLobby(d, k), Requests(SendLobby(d, k) \union SendAddition(k)),
           strays' = StraysAfter(d, k),
           NEW c \in Clients, NEW l \in Lobbies, IsRight(c, l)
    PROVE  IsRight(c, l)'
<1> DEFINE requests == SendLobby(d, k) \union SendAddition(k)
<1>1. /\ registered' = registered /\ online' = online /\ ready' = ready
      /\ lobbyId' = [lobbyId EXCEPT ![d] = k]
      /\ lobbyState' = lobbyState /\ ~InGame(k)
      /\ Deliver(requests, {}, {})
  BY DEF JoinLobby, IsJoinable, InGame, Requests
<1>2. \A m \in requests : m.what \in Screens => m.to = d /\ m.what = "lobby"
  BY ToOne, ListsOnly DEF SendLobby, SendAddition
<1>3. \E m \in requests : m.to = d /\ m.what = "lobby"
  BY Sent DEF SendLobby
<1>4. SendUpdatePlayerListRequest(k) \subseteq requests
  BY DEF SendAddition
<1> HIDE DEF requests
<1>5. InGame(l)' <=> InGame(l)
  BY <1>1 DEF InGame
<1>6. CASE c = d /\ l = k
  <2>1. online'[c] /\ "lobby" \in Screens
    BY <1>1, <1>6 DEF JoinLobby, Screens
  <2>2. screen'[c] = "lobby"
    BY <1>1, <1>2, <1>3, <1>6, <2>1, GoneTo
  <2>3. HasList(c, l)'
    BY <1>1, <1>4, <1>6, SentList
  <2>4. QED
    BY <1>1, <1>5, <1>6, <2>2, <2>3 DEF IsRight, OnScreen
<1>7. CASE c = d /\ l # k
  <2>1. ~SitsIn(c, l)'
    BY <1>1, <1>7 DEF SitsIn, LobbyInv, TypeOK
  <2>2. QED
    BY <2>1 DEF IsRight, OnScreen, HasList
<1>8. CASE c # d
  <2>1. SitsIn(c, l)' => SitsIn(c, l)
    BY <1>1, <1>8 DEF SitsIn, LobbyInv, TypeOK
  <2>2. \A b \in Clients : b # d => (b \in strays' <=> b \in strays)
    BY DEF StraysAfter
  <2>3. CASE l = k
    BY <1>1, <1>2, <1>4, <1>5, <1>8, <2>1, <2>2, <2>3, ToldIsRight
  <2>4. CASE l # k
    <3>1. clients'[l] = clients[l]
      BY <2>4 DEF JoinLobby, LobbyInv, TypeOK
    <3>2. d \in Members(clients[l]) => d \in strays'
      BY <2>4 DEF StraysAfter, Reaches
    <3>3. \A b \in Members(clients[l]) : b \notin strays' => b \notin strays
      BY <3>2 DEF StraysAfter
    <3>4. QED
      BY <1>1, <1>2, <1>5, <1>8, <2>1, <2>2, <3>1, <3>3, QuietIsRight
  <2>5. QED
    BY <2>3, <2>4
<1>9. QED
  BY <1>6, <1>7, <1>8

LEMMA ClientStepRight ==
    ASSUME LobbyInv, LobbyInv', AllSettled, NEW d \in Clients, ViewClientStep(d),
           NEW c \in Clients, NEW l \in Lobbies, IsRight(c, l)
    PROVE  IsRight(c, l)'
<1> l # NoLobby
  BY LobbyFacts
<1>1. CASE RegisterClient(d) /\ Deliver(SendLobbyList(d), {d}, {}) /\ strays' = strays \ {d}
  <2>1. /\ registered' = [registered EXCEPT ![d] = TRUE] /\ online' = [online EXCEPT ![d] = TRUE]
        /\ ready' = [ready EXCEPT ![d] = FALSE] /\ lobbyId' = [lobbyId EXCEPT ![d] = NoLobby]
        /\ lobbyState' = lobbyState /\ clients' = clients
        /\ d \notin Members(clients[l])
    BY <1>1 DEF RegisterClient, Unreferenced, lobbyVars
  <2>2. CASE c = d
    BY <2>1, <2>2 DEF IsRight, OnScreen, HasList, SitsIn, LobbyInv, TypeOK
  <2>3. CASE c # d
    <3>1. SitsIn(c, l)' => SitsIn(c, l)
      BY <2>1, <2>3 DEF SitsIn, LobbyInv, TypeOK
    <3>2. \A b \in Members(clients[l]) : b \notin strays' => b \notin strays /\ ready'[b] = ready[b]
      <4>1. Members(clients[l]) \subseteq Clients
        <5>1. clients[l] \in Seq(Clients)
          BY DEF LobbyInv, TypeOK
        <5>2. QED
          BY <5>1 DEF Members
      <4>2. QED
        BY <1>1, <2>1, <4>1 DEF LobbyInv, TypeOK
    <3>3. \A m \in SendLobbyList(d) : m.to # c
      <4>1. \A m \in SendLobbyList(d) : m.to = d
        BY ToOne DEF SendLobbyList
      <4>2. QED
        BY <2>3, <4>1
    <3>4. (InGame(l)' <=> InGame(l)) /\ (c \in strays => c \in strays')
      BY <1>1, <2>1, <2>3 DEF InGame
    <3>5. clients'[l] = clients[l] /\ Deliver(SendLobbyList(d), {d}, {}) /\ c \notin {d}
      BY <1>1, <2>1, <2>3
    <3>6. QED
      BY <3>1, <3>2, <3>3, <3>4, <3>5, QuietIsRight
  <2>4. QED
    BY <2>2, <2>3
<1>2. CASE ReconnectClient(d) /\ Deliver(RestoreClientState(d), {d}, {}) /\ strays' = strays
  <2>1. CASE c = d
    BY <1>2, <2>1, ComesBackToLobby
  <2>2. CASE c # d
    <3>1. /\ registered' = registered /\ online' = [online EXCEPT ![d] = TRUE]
          /\ lobbyId' = lobbyId /\ lobbyState' = lobbyState
          /\ clients' = clients /\ ready' = ready
      BY <1>2 DEF ReconnectClient
    <3>2. SitsIn(c, l)' => SitsIn(c, l)
      BY <2>2, <3>1 DEF SitsIn, LobbyInv, TypeOK
    <3>3. \A m \in RestoreClientState(d) : m.to # c
      BY <2>2, RestoredAlone
    <3>4. QED
      BY <1>2, <2>2, <3>1, <3>2, <3>3, QuietIsRight DEF InGame
  <2>3. QED
    BY <2>1, <2>2
<1>3. ASSUME NEW k \in Lobbies, JoinLobby(d, k), Requests(SendLobby(d, k) \union SendAddition(k)),
             strays' = StraysAfter(d, k)
      PROVE  IsRight(c, l)'
  BY <1>3, JoinIsRight
<1>4. CASE /\ LeaveLobby(d) /\ strays' = strays
           /\ Requests(SendRemoval(lobbyId[d]) \union SendLobbyList(d))
  <2> DEFINE k == lobbyId[d]
             requests == SendRemoval(k) \union SendLobbyList(d)
  <2>1. /\ k \in Lobbies /\ RemoveClient(k, d)
        /\ registered' = registered /\ online' = online /\ lobbyState' = lobbyState
        /\ Deliver(requests, {}, {})
    BY <1>4 DEF LeaveLobby, LobbyInv, TypeOK, Requests
  <2>2. \A m \in requests : m.what \in Screens => m.to = d
    BY ToOne, ListsOnly DEF SendRemoval, SendLobbyList
  <2>3. SendUpdatePlayerListRequest(k) \subseteq requests
    BY DEF SendRemoval
  <2>4. Reaches(k, d)
    BY <2>1, LobbyFacts DEF Reaches
  <2> HIDE DEF requests
  <2>5. QED
    BY <1>4, <2>1, <2>2, <2>3, <2>4, RemovalIsRight DEF SitsIn
<1>5. ASSUME NEW type \in MessageTypes, AddNewMessage(d, type), NoRequest, strays' = strays
      PROVE  IsRight(c, l)'
  <2>1. UNCHANGED <<registered, online, lobbyId, lobbyState, clients, ready>>
    BY <1>5 DEF AddNewMessage, clientVars, lobbyVars
  <2>2. QED
    BY <1>5, <2>1, QuietIsRight DEF NoRequest, Requests, InGame, SitsIn
<1>6. QED
  BY <1>1, <1>2, <1>3, <1>4, <1>5 DEF ViewClientStep

LEMMA DisconnectionRight ==
    ASSUME LobbyInv, LobbyInv', AllSettled, strays' = strays,
           NEW d \in Clients, ViewDisconnection(d),
           NEW c \in Clients, NEW l \in Lobbies, IsRight(c, l)
    PROVE  IsRight(c, l)'
<1> DEFINE k == lobbyId[d]
           told == IF LosesSeat(k) THEN SendRemoval(k) ELSE {}
<1>1. PICK lost \in SUBSET {d} : Deliver(told, lost, {})
  <2>1. {} \in SUBSET {d} /\ {d} \in SUBSET {d}
    OBVIOUS
  <2>2. QED
    BY <2>1 DEF ViewDisconnection, Requests
<1>2. lobbyState' = lobbyState
  BY DEF ViewDisconnection, ExpireClient, DisconnectClient
<1>3. /\ ~(registered'[d] /\ online'[d])
      /\ c # d => registered'[c] = registered[c] /\ online'[c] = online[c]
  BY DEF ViewDisconnection, ExpireClient, DisconnectClient, LobbyInv, TypeOK
<1>4. SitsIn(c, l)' => registered[c] /\ online[c] /\ c # d
  BY <1>3 DEF SitsIn
<1>5. CASE LosesSeat(k)
  <2>1. k \in Lobbies /\ RemoveClient(k, d)
    BY <1>5 DEF LosesSeat, ViewDisconnection, ExpireClient, DisconnectClient, LobbyInv, TypeOK
  <2>2. told = SendUpdatePlayerListRequest(k)
    BY <1>5 DEF SendRemoval
  <2>3. Reaches(k, d)
    BY <2>1, LobbyFacts DEF Reaches
  <2>4. \A m \in told : m.what \notin Screens
    BY <2>2, ListsOnly
  <2> HIDE DEF told
  <2>5. QED
    BY <1>1, <1>2, <1>4, <2>1, <2>2, <2>3, <2>4, RemovalIsRight
<1>6. CASE ~LosesSeat(k)
  <2>1. UNCHANGED <<clients, lobbyId, ready>>
    BY <1>6 DEF ViewDisconnection, ExpireClient, DisconnectClient
  <2>2. Deliver({}, lost, {})
    BY <1>1, <1>6
  <2>3. SitsIn(c, l)' => SitsIn(c, l) /\ c \notin lost
    BY <1>4, <2>1 DEF SitsIn
  <2>4. InGame(l)' <=> InGame(l)
    BY <1>2 DEF InGame
  <2>5. QED
    BY <2>1, <2>2, <2>3, <2>4, QuietIsRight
<1>7. QED
  BY <1>5, <1>6

LEMMA MessageRight ==
    ASSUME LobbyInv, LobbyInv', AllSettled, strays' = strays,
           NEW k \in Lobbies, NEW d \in Clients, ViewMessage(k, d),
           NEW c \in Clients, NEW l \in Lobbies, IsRight(c, l)
    PROVE  IsRight(c, l)'
<1>1. ASSUME UNCHANGED <<registered, online, lobbyId, lobbyState, clients, ready>>,
             NEW requests, NEW dealt, Deliver(requests, {}, dealt),
             \A m \in requests : m.what \notin Screens
      PROVE  IsRight(c, l)'
  <2>1. (SitsIn(c, l)' => SitsIn(c, l)) /\ (InGame(l)' <=> InGame(l))
    BY <1>1 DEF SitsIn, InGame
  <2>2. QED
    BY <1>1, <2>1, QuietIsRight
<1>2. CASE HandleReady(k, d) /\ Requests(IF ready[d] THEN {} ELSE SendUpdatePlayerListRequest(k))
  <2>1. /\ UNCHANGED <<registered, online, lobbyId, lobbyState, clients>>
        /\ ready' = [ready EXCEPT ![d] = TRUE]
    BY <1>2 DEF HandleReady
  <2>2. (SitsIn(c, l)' => SitsIn(c, l)) /\ (InGame(l)' <=> InGame(l))
    BY <2>1 DEF SitsIn, InGame
  <2>3. CASE ready[d]
    <3>1. ready' = ready
      BY <2>1, <2>3 DEF LobbyInv, TypeOK
    <3>2. QED
      BY <1>1, <1>2, <2>1, <2>3, <3>1 DEF Requests
  <2>4. CASE ~ready[d] /\ l = k
    BY <1>2, <2>2, <2>4, ListsOnly, ToldIsRight DEF Requests
  <2>5. CASE ~ready[d] /\ l # k
    <3>1. Reaches(k, d)
      BY <1>2, HandledIsSender DEF HandleReady, LobbyInv
    <3>2. \A b \in Clients : ready'[b] = ready[b] \/ Reaches(k, b)
      BY <2>1, <3>1 DEF LobbyInv, TypeOK
    <3>3. Deliver(SendUpdatePlayerListRequest(k), {}, {})
      BY <1>2, <2>5 DEF Requests
    <3>4. \A m \in SendUpdatePlayerListRequest(k) : m.what \notin Screens
      BY ListsOnly
    <3>5. clients'[l] = clients[l] /\ c \notin {}
      BY <2>1
    <3>6. \A m \in SendUpdatePlayerListRequest(k) : m.to = c /\ m.what \in Screens => Reaches(k, c)
      BY <3>4
    <3>7. QED
      BY <2>2, <2>5, <3>2, <3>3, <3>5, <3>6, ElsewhereIsRight
  <2>6. QED
    BY <2>3, <2>4, <2>5
<1>3. CASE HandleDecline(k, d) /\ Requests(SendRemoval(k) \union SendDeclineAcknowledged(d))
  <2> DEFINE requests == SendRemoval(k) \union SendDeclineAcknowledged(d)
  <2>1. /\ RemoveClient(k, d)
        /\ registered' = registered /\ online' = online /\ lobbyState' = lobbyState
        /\ Deliver(requests, {}, {})
    BY <1>3 DEF HandleDecline, Requests
  <2>2. \A m \in requests : m.what \in Screens => m.to = d
    BY ToOne, ListsOnly DEF SendRemoval, SendDeclineAcknowledged
  <2>3. SendUpdatePlayerListRequest(k) \subseteq requests
    BY DEF SendRemoval
  <2>4. Reaches(k, d)
    BY <1>3, HandledIsSender DEF HandleDecline, LobbyInv
  <2> HIDE DEF requests
  <2>5. QED
    BY <2>1, <2>2, <2>3, <2>4, RemovalIsRight DEF SitsIn
<1>4. CASE AcceptTurn(k, d) /\ Deliver(SendTurn(k), {}, IF RefusesDouble(k) THEN {} ELSE {k})
  <2>1. \A m \in SendTurn(k) : m.what \notin Screens
    BY ListsOnly DEF SendTurn
  <2>2. UNCHANGED <<registered, online, lobbyId, lobbyState, clients, ready>>
    BY <1>4 DEF AcceptTurn, clientVars, lobbyVars
  <2>3. QED
    BY <1>1, <1>4, <2>1, <2>2
<1>5. CASE (HandleConfirm(k, d) \/ RejectTurn(k, d)) /\ NoRequest
  BY <1>1, <1>5 DEF HandleConfirm, RejectTurn, NoRequest, Requests, clientVars, lobbyVars
<1>6. CASE (HandleBadBet(k, d) \/ CrashOnTurn(k, d)) /\ NoRequest
  BY <1>1, <1>6 DEF HandleBadBet, CrashOnTurn, Crash, NoRequest, Requests, clientVars, lobbyVars
<1>7. QED
  BY <1>2, <1>3, <1>4, <1>5, <1>6 DEF ViewMessage

(* Whoever is still in the lobby when the game starts has placed a bet and *)
(* is told to go there, and is not among those who are told to leave.      *)
LEMMA StartRight ==
    ASSUME LobbyInv, LobbyInv', NEW l \in Lobbies, StartGame(l),
           Deliver(StartRequests(l), {}, {l}), NEW c \in Clients
    PROVE  IsRight(c, l)'
<1> DEFINE kicked == Members(clients[l]) \ Members(clients'[l])
<1> SUFFICES ASSUME SitsIn(c, l)' PROVE InGame(l)' /\ screen'[c] = "game"
  BY DEF IsRight, OnScreen, HasList
<1> l # NoLobby
  BY LobbyFacts
<1>1. InGame(l)' /\ blackjack'[l].players = confirmedClients[l]
  BY DEF StartGame, InGame, NewGame, LobbyInv, TypeOK
<1>2. c \in Members(clients'[l])
  BY DEF SitsIn, LobbyInv, LobbyIdIsASeat
<1>3. c \in Members(confirmedClients[l]) /\ c \notin kicked
  BY <1>1, <1>2 DEF LobbyInv, MembersPlay
<1>4. \E m \in StartRequests(l) : m.to = c /\ m.what = "game"
  BY <1>3, Sent DEF StartRequests, SendPrepareGameRequest
<1>5. \A m \in StartRequests(l) : m.to = c /\ m.what \in Screens => m.what = "game"
  <2>1. \A m \in SendClientDidntConfirm(kicked) : m.to # c
    BY <1>3, Sent DEF SendClientDidntConfirm
  <2>2. \A m \in SendPrepareGameRequest(l) : m.what = "game"
    BY Sent DEF SendPrepareGameRequest
  <2>3. QED
    BY <2>1, <2>2, ListsOnly DEF StartRequests, SendRemoval
<1>6. "game" \in Screens /\ online'[c]
  BY DEF Screens, SitsIn
<1>7. QED
  BY <1>1, <1>4, <1>5, <1>6, GoneTo

(* Whoever is still there when the game is over is told to go back. *)
LEMMA ReturnRight ==
    ASSUME LobbyInv, LobbyInv', NEW l \in Lobbies, ReturnToLobby(l),
           Requests(SendShowLobbyRequest(l) \union SendUpdatePlayerListRequest(l)),
           NEW c \in Clients
    PROVE  IsRight(c, l)'
<1> DEFINE requests == SendShowLobbyRequest(l) \union SendUpdatePlayerListRequest(l)
<1> l # NoLobby
  BY LobbyFacts
<1>1. Deliver(requests, {}, {}) /\ SendUpdatePlayerListRequest(l) \subseteq requests
  BY DEF Requests
<1>2. \A m \in requests : m.what \in Screens => m.what = "lobby"
  BY Sent, ListsOnly DEF SendShowLobbyRequest
<1>3. \A b \in Members(clients[l]) : \E m \in requests : m.to = b /\ m.what = "lobby"
  BY Sent DEF SendShowLobbyRequest
<1> HIDE DEF requests
<1>4. HasList(c, l)'
  BY <1>1, SentList
<1>5. ASSUME SitsIn(c, l)' PROVE screen'[c] = "lobby" /\ ~InGame(l)'
  <2>1. c \in Members(clients[l])
    <3>1. clients'[l] = Without(clients[l], disconnectedClients[l]) /\ clients[l] \in Seq(Clients)
      BY DEF ReturnToLobby, LobbyInv, TypeOK
    <3>2. Members(clients'[l]) \subseteq Members(clients[l])
      BY <3>1, WithoutMembers
    <3>3. QED
      BY <1>5, <3>2 DEF SitsIn, LobbyInv, LobbyIdIsASeat
  <2>2. online'[c] /\ "lobby" \in Screens
    BY <1>5 DEF SitsIn, Screens
  <2>3. ~InGame(l)'
    BY DEF ReturnToLobby, InGame, LobbyInv, TypeOK
  <2>4. QED
    BY <1>1, <1>2, <1>3, <2>1, <2>2, <2>3, GoneTo
<1>6. QED
  BY <1>4, <1>5 DEF IsRight, OnScreen

(* The screens that lobby k's state machine sends are for clients within   *)
(* its reach: members, and those who have bet on the game that starts.     *)
LEMMA StateScreens ==
    ASSUME LobbyInv, NEW k \in Lobbies, ViewState(k)
    PROVE  \E requests, dealt :
               /\ Deliver(requests, {}, dealt)
               /\ \A m \in requests : m.what \in Screens => Reaches(k, m.to)
<1> DEFINE Good(requests) == \A m \in requests : m.what \in Screens => Reaches(k, m.to)
           Goal == \E requests, dealt : Deliver(requests, {}, dealt) /\ Good(requests)
<1>1. ASSUME NEW requests, NEW dealt, Deliver(requests, {}, dealt), Good(requests)
      PROVE  Goal
  BY <1>1
<1> SUFFICES Goal
  OBVIOUS
<1> HIDE DEF Goal
<1>2. CASE StartGame(k) /\ Deliver(StartRequests(k), {}, {k})
  <2> DEFINE kicked == Members(clients[k]) \ Members(clients'[k])
  <2>1. Good(SendClientDidntConfirm(kicked))
    BY Sent DEF SendClientDidntConfirm, Reaches
  <2>2. Good(SendPrepareGameRequest(k))
    <3>1. ~InGame(k)
      BY <1>2 DEF StartGame, Drained, InGame
    <3>2. QED
      BY <3>1, Sent DEF SendPrepareGameRequest, Reaches
  <2>3. Good(StartRequests(k))
    BY <2>1, <2>2, ListsOnly DEF StartRequests, SendRemoval
  <2> HIDE DEF Good
  <2>4. QED
    BY <1>1, <1>2, <2>3
<1>3. CASE /\ ReturnToLobby(k)
           /\ Requests(SendShowLobbyRequest(k) \union SendUpdatePlayerListRequest(k))
  <2> DEFINE requests == SendShowLobbyRequest(k) \union SendUpdatePlayerListRequest(k)
  <2>1. Good(requests)
    BY Sent, ListsOnly DEF SendShowLobbyRequest, Reaches
  <2>2. Deliver(requests, {}, {})
    BY <1>3 DEF Requests
  <2> HIDE DEF requests, Good
  <2>3. QED
    BY <1>1, <2>1, <2>2
<1>4. CASE \/ CancelGame(k) /\ Requests(SendUpdatePlayerListRequest(k))
           \/ EndGame(k) /\ Requests(SendBoardUpdate(k) \union SendResults(k))
           \/ SkipPlayer(k) /\ IF blackjack'[k].gameRunning THEN Requests(SendBoardUpdate(k))
                               ELSE Deliver({}, {}, {k})
  BY <1>1, <1>4, ListsOnly DEF Requests
<1>5. CASE NoRequest
  BY <1>1, <1>5 DEF NoRequest, Requests
<1>6. QED
  BY <1>2, <1>3, <1>4, <1>5 DEF ViewState, StartRequests

(* Lobby k's state machine changes the flags and seats of its own only. *)
LEMMA StateTouches ==
    ASSUME LobbyInv, NEW k \in Lobbies, HandleState(k)
    PROVE  /\ \A b \in Clients : ready'[b] = ready[b] \/ Reaches(k, b)
           /\ \A l \in Lobbies : l # k => clients'[l] = clients[l]
<1>1. CASE StartGame(k) \/ CancelGame(k) \/ ReturnToLobby(k)
  <2>1. \A l \in Lobbies : l # k => clients'[l] = clients[l]
    BY <1>1 DEF StartGame, CancelGame, ReturnToLobby, LobbyInv, TypeOK
  <2>2. \A i \in DOMAIN clients[k] : clients[k][i] \in Members(clients[k])
    BY DEF Members
  <2>3. PICK gone : /\ ready' = [c \in Clients |-> ready[c] /\ c \notin gone]
                    /\ gone \subseteq Members(clients[k]) \union disconnectedClients[k]
    <3>1. CASE StartGame(k)
      <4> DEFINE kicked == {clients[k][i] : i \in Unconfirmed(k)}
      <4>1. ready' = [c \in Clients |-> ready[c] /\ c \notin kicked]
        BY <3>1 DEF StartGame
      <4>2. kicked \subseteq Members(clients[k])
        BY <2>2 DEF Unconfirmed
      <4> HIDE DEF kicked
      <4>3. QED
        BY <4>1, <4>2
    <3>2. CASE CancelGame(k)
      BY <3>2 DEF CancelGame, ResetClientParticipation
    <3>3. CASE ReturnToLobby(k)
      BY <3>3 DEF ReturnToLobby, ResetClientParticipation
    <3>4. QED
      BY <1>1, <3>1, <3>2, <3>3
  <2>4. \A b \in gone : Reaches(k, b)
    BY <2>3 DEF Reaches
  <2>5. \A b \in Clients : ready[b] \in BOOLEAN
    BY DEF LobbyInv, TypeOK
  <2>6. ASSUME NEW b \in Clients, b \notin gone PROVE ready'[b] = ready[b]
    BY <2>3, <2>5, <2>6, Zenon
  <2>7. QED
    BY <2>1, <2>4, <2>6
<1>2. CASE ~(StartGame(k) \/ CancelGame(k) \/ ReturnToLobby(k))
  BY <1>2 DEF HandleState, PrepareGame, CrashOnStart, Crash, SkipPlayer, EndGame, NothingToDo,
              clientVars, lobbyVars
<1>3. QED
  BY <1>1, <1>2

LEMMA StateRight ==
    ASSUME LobbyInv, LobbyInv', AllSettled, strays' = strays, NEW k \in Lobbies, ViewState(k),
           NEW c \in Clients, NEW l \in Lobbies, IsRight(c, l)
    PROVE  IsRight(c, l)'
<1>1. CASE l # k
  <2>1. HandleState(k)
    BY DEF ViewState, HandleState
  <2>2. PICK requests, dealt :
            /\ Deliver(requests, {}, dealt)
            /\ \A m \in requests : m.what \in Screens => Reaches(k, m.to)
    BY StateScreens
  <2>3. /\ InGame(l)' <=> InGame(l)
        /\ SitsIn(c, l)' => SitsIn(c, l)
    BY <1>1, <2>1, StateElsewhere DEF InGame
  <2>4. QED
    BY <1>1, <2>1, <2>2, <2>3, StateTouches, ElsewhereIsRight
<1>2. ASSUME UNCHANGED <<registered, online, lobbyId, clients, ready>>,
             InGame(l)' <=> InGame(l),
             NEW requests, NEW dealt, Deliver(requests, {}, dealt),
             \A m \in requests : m.what \notin Screens
      PROVE  IsRight(c, l)'
  BY <1>2, QuietIsRight DEF SitsIn
<1>3. CASE StartGame(l) /\ Deliver(StartRequests(l), {}, {l})
  BY <1>3, StartRight
<1>4. CASE SkipPlayer(l) /\ IF blackjack'[l].gameRunning THEN Requests(SendBoardUpdate(l))
                            ELSE Deliver({}, {}, {l})
  <2>1. /\ UNCHANGED <<registered, online, lobbyId, clients, ready>>
        /\ InGame(l)' <=> InGame(l)
    BY <1>4 DEF SkipPlayer, NextLobby, lobbyVars, InGame
  <2>2. QED
    BY <1>2, <1>4, <2>1, ListsOnly DEF Requests
<1>5. CASE EndGame(l) /\ Requests(SendBoardUpdate(l) \union SendResults(l))
  <2>1. /\ UNCHANGED <<registered, online, lobbyId, clients, ready>>
        /\ InGame(l)' <=> InGame(l)
    BY <1>5 DEF EndGame, Drained, NextLobby, InGame, LobbyInv, TypeOK
  <2>2. \A m \in SendBoardUpdate(l) \union SendResults(l) : m.what \notin Screens
    BY ListsOnly
  <2>3. QED
    BY <1>2, <1>5, <2>1, <2>2 DEF Requests
<1>6. CASE ReturnToLobby(l)
              /\ Requests(SendShowLobbyRequest(l) \union SendUpdatePlayerListRequest(l))
  BY <1>6, ReturnRight
<1>7. CASE CancelGame(l) /\ Requests(SendUpdatePlayerListRequest(l))
  <2>1. UNCHANGED <<registered, online, lobbyId>>
    BY <1>7 DEF CancelGame, NextLobby
  <2>2. InGame(l)' <=> InGame(l)
    BY <1>7 DEF CancelGame, Drained, InGame, LobbyInv, TypeOK
  <2>3. QED
    BY <1>7, <2>1, <2>2, ListsOnly, ToldIsRight DEF Requests, SitsIn
<1>8. CASE PrepareGame(l) /\ NoRequest
  <2>1. /\ UNCHANGED <<registered, online, lobbyId, clients, ready>>
        /\ InGame(l)' <=> InGame(l)
    BY <1>8 DEF PrepareGame, Drained, NextLobby, InGame, LobbyInv, TypeOK
  <2>2. QED
    BY <1>2, <1>8, <2>1 DEF NoRequest, Requests
<1>9. CASE (NothingToDo(l) \/ CrashOnStart(l)) /\ NoRequest
  <2>1. /\ UNCHANGED <<registered, online, lobbyId, clients, ready>>
        /\ InGame(l)' <=> InGame(l)
    BY <1>9 DEF NothingToDo, NextLobby, CrashOnStart, Crash, clientVars, lobbyVars, InGame
  <2>2. QED
    BY <1>2, <1>9, <2>1 DEF NoRequest, Requests
<1>10. QED
  BY <1>1, <1>3, <1>4, <1>5, <1>6, <1>7, <1>8, <1>9 DEF ViewState, StartRequests

LEMMA RightStep ==
    ASSUME LobbyInv, LobbyInv', AllSettled, [ViewNext]_<<vars, viewVars>>,
           NEW c \in Clients, NEW l \in Lobbies, IsRight(c, l)
    PROVE  IsRight(c, l)'
<1>1. CASE UNCHANGED <<vars, viewVars>> \/ (Terminated /\ UNCHANGED viewVars)
  BY <1>1 DEF Terminated, vars, viewVars, clientVars, lobbyVars,
              IsRight, OnScreen, HasList, NoStrays, SitsIn, Holds, InGame
<1>2. CASE (EndSelect \/ EndErase \/ EndDisconnect) /\ NoRequest /\ strays' = strays
  <2>1. UNCHANGED <<registered, online, lobbyId, lobbyState, clients, ready>>
    BY <1>2 DEF EndSelect, EndErase, EndDisconnect, clientVars, lobbyVars
  <2>2. QED
    BY <1>2, <2>1, QuietIsRight DEF NoRequest, Requests, SitsIn, InGame
<1>3. CASE \E d \in Clients : ViewClientStep(d) \/ (ViewDisconnection(d) /\ strays' = strays)
  BY <1>3, ClientStepRight, DisconnectionRight
<1>4. CASE /\ \E k \in Lobbies : ViewState(k) \/ \E d \in Clients : ViewMessage(k, d)
           /\ strays' = strays
  BY <1>4, StateRight, MessageRight
<1>5. QED
  BY <1>1, <1>2, <1>3, <1>4 DEF ViewNext

(* The inductive invariant: screens and lists are right, and who is no     *)
(* stray is within reach of one lobby.                                     *)
RightInv == AllSettled /\ \A c \in Clients, l \in Lobbies : IsRight(c, l)

LEMMA RightInvariant == ViewSpec => []RightInv
<1>1. Init /\ ViewInit => RightInv
  <2> SUFFICES ASSUME Init, ViewInit PROVE RightInv
    OBVIOUS
  <2>1. \A c \in Clients, l \in Lobbies : IsRight(c, l)
    BY DEF Init, IsRight, OnScreen, HasList, SitsIn
  <2>2. \A c \in Clients, l \in Lobbies : ~Reaches(l, c)
    BY DEF Init, Reaches, Members
  <2>3. QED
    BY <2>1, <2>2 DEF RightInv, AllSettled, Settled
<1>2. LobbyInv /\ LobbyInv' /\ RightInv /\ [ViewNext]_<<vars, viewVars>> => RightInv'
  BY SettledStep, RightStep DEF RightInv, AllSettled
<1>3. QED
  BY <1>1, <1>2, LobbyInvariant, PTL DEF ViewSpec

(* Whatever lobbies there are, every connected member of one that no other *)
(* lobby still reached when it joined is on the screen that the state of   *)
(* its lobby calls for, whichever way it came there.                       *)
THEOREM TheScreensFollow == ViewSpec => []ScreensFollow
<1>1. RightInv => ScreensFollow
  BY DEF RightInv, IsRight, OnScreen, ScreensFollow
<1>2. QED
  BY <1>1, RightInvariant, PTL

(* Whatever lobbies there are, no join, vote, removal, reset or            *)
(* reconnection outside a game leaves a connected member with an old list, *)
(* neither in this lobby nor in another, unless a stray is among them.     *)
THEOREM TheListsAreCurrent == ViewSpec => []ListsAreCurrent
<1>1. RightInv => ListsAreCurrent
  BY DEF RightInv, IsRight, HasList, NoStrays, ListsAreCurrent
<1>2. QED
  BY <1>1, RightInvariant, PTL
=============================================================================
