# Verification of the UPSem blackjack server

TLA+ specifications of the server in this repository (`server/`, `game/`): a C++ program of one
thread that keeps lobbies in which connected clients play blackjack. The specifications are
translated from the source; TLC checks them on small instances and TLAPS proves the main safety
properties of the connections, the lobbies, the turn order, the cards and what is shown to the clients for every number of clients, descriptors, lobbies, seats and cards.

## 1. Inventory

### The system

`Server::selectServer` (`Server.cpp:18-135`) is one endless loop. Each round does, in this order,

1. **read** (`Server.cpp:60-125`): every readable descriptor is read once and its lines are handled
   by `MessageHandler`. Logins, joins, leaves and pings take effect at once. Anything else is put
   into the queue of the client's lobby. An end of file or an exception puts the descriptor into
   `socketsToClose`;
2. **erase** (`Server.cpp:137-177`): clients silent for 15 s have their socket marked for closing,
   clients silent for 300 s are erased from `Server::clients`;
3. **disconnect** (`Server.cpp:184-208`): the marked sockets are closed, and each client that has one
   is taken out of a waiting lobby, or noted in `disconnectedClients` of a lobby that is not waiting;
4. **handle** (`Server.cpp:130-133`, `Lobby.cpp:100-150`): each lobby drains its queue and makes one step
   of its state machine. No `try` encloses this part.

There are no threads, no locks and no persistent state. What is hard is *order*: a message read in
step 1 is handled in step 4 of the same round, after its sender may have left, lost its connection, been
erased or joined another lobby; and time limits, votes, bets and departures meet in any order.

| Component | Its state | Operations | Interacts with | What makes it correct |
|---|---|---|---|---|
| `Lobby` | `lobbyState`, `clients`, `clientsReady`, `disconnectedClients`, `unprocessedMessages` | `addClient`, `removeClient`, `addNewMessage`, `handleLobby`, `checkIfReturnToLobby`, `restoreState` | called by `Server` and `MessageHandler`, calls `GameController` and `LobbyMessageHandler` | members, votes, bets and `lobbyId` agree; seats are kept in a game and freed after it; every game ends |
| `GameController` | `confirmedClients`, `autoSkip`, `blackjack`, `lastGameUpdate`, `preparationStart` | `prepareGame`, `addConfirmedClient`, `startGame`, `cancelGame`, `handlePlayerTurn`, `checkIfTimeForNextPlayer`, `endGame`, `removeData`, `reconnectClient` | owned by a lobby, owns a `Blackjack` | the game pointer is set exactly when it is used; nothing outlives its game; the player whose turn it is knows |
| `LobbyMessageHandler` | none | one handler per queued message | drains the lobby's queue | a stale message does no harm |
| `Server` | `clients`, `lobbies`, `socketsToClose`, `clientFileDescriptors` | the round, `disconnectClients`, `closeConnection` | everything | a descriptor belongs to one client; a closed one to none |
| `MessageHandler` | none | login, reconnection, joining, leaving, queueing, ping | `Server`, `Lobby` | a client that returns is where it was |
| `Client` | `clientSocket`, `lobbyId`, `ready`, `playerInfo`, `lastMessageReceived` | setters | shared by pointer among server, lobbies, games and queues | `lobbyId` names a lobby that has the client |
| `Blackjack`, `Deck`, `Dealer` | `players`, `currentPlayerIndex`, `gameRunning`, cards | `dealCards`, `handleHit`, `handleStand`, `handleDoubleDown`, `skipPlayer`, `moveToNextPlayer`, `dealerPlay` | driven by `GameController` | turns in order, each card in one place, the dealer last |
| `PlayerInfo`, `Card` | hand, bet, hit flag | values of a hand | written by `Blackjack`, read for the results | totals and blackjacks as the rules say |
| `GameMessageHandler` | none | requests, boards, turns, results | `send` | only better hands are paid; boards and results reach whoever must see them |
| the clients | connection, screen, lists | connect, send, hang up | the kernel's sockets | (external) what they are shown is what is |
| `TCPData` | one message | `valueOf`, `serialize`, parsing | everywhere | a bad message is an exception |
| `main` | none | parses the arguments once | starts `Server` | - |

The hazards, each at its line and with the properties that cover it, are in `PROJECT.json`. The ones
that shaped the model: stale queued messages, votes that outlive their voters, three lists (members, bets, players) that are
compared by length, lists of clients that are consumed much later than they are written (`autoSkip`,
`disconnectedClients`), a turn that reaches a player without a connection, a vector that is erased from while
it is iterated over, exceptions where nobody catches, and the index that runs past the last player; and in the loop itself, a descriptor that is marked in one
part of the round and closed in another, numbers that the kernel gives out again, and two names on one connection.

## 2. Modules and how they correspond to the code

| Module | Models |
|---|---|
| `Vector` | the two idioms on `vector<shared_ptr<Client>>`: membership and erase-remove |
| `Lobby` | `Lobby`, `GameController`, `LobbyMessageHandler`, the turn order of `Blackjack`, and of `Server` and `MessageHandler` what reaches into a lobby |
| `LobbyProperties` | invariants, action properties, liveness and the refinements of `Tables` and `Sessions` |
| `LobbyClaims` | what comments of the source say of the lobbies and the code does not do |
| `Views` | `Lobby` with what its handlers send: screens, lists of players, boards, results |
| `Server` | the loop over descriptors and `MessageHandler`: accept, reads, logins, timeouts, closing |
| `ServerProperties` | invariants, an action property, liveness and the refinement of `Sessions` |
| `Hands` | what a hand is worth and what a bet wins (`PlayerInfo`, `Card`, the results of `GameMessageHandler`) |
| `Blackjack` | one game with its cards: `Blackjack`, `Deck`, `Dealer`, `PlayerInfo`, `TurnResult` and what players are told of a turn |
| `Tables` | abstract specification: what lobbies promise of games, without connections, queues, rounds and cards |
| `Sessions` | abstract specification: what the server promises of its users, without sockets, messages and lobbies |
| `VectorProofs`, `HandsProofs` | what the operators of `Vector` and `Hands` compute: erase-remove, and sums over cards and hands |
| `LobbyProofs`, `LobbySeatProofs`, `LobbyStepProofs`, `ViewsProofs`, `ServerProofs`, `BlackjackProofs` | the theorems about the specifications |
| `MCLobby`, `MCViews`, `MCServer`, `MCBlackjack` | symmetry and constraints for TLC |

### Lobby

A variable has the name of the field it models and is a function of the lobby or of the client (a
`Client` object, identified by its pointer). `phase` and `handling` say where the server's loop is,
`alive` is FALSE after `std::terminate` or a null dereference. `online[c]` is `clientSocket != -1`. `turnRequest[l]` is not a
field: it says who holds a TURN request for the current turn on the connection it has now, and is what
`CurrentPlayerPrompted` needs to speak about reconnections.

Each action is one whole branch of the code:

* phase `select`: `RegisterClient` and `ReconnectClient` (`handleLogin`), `JoinLobby` (`sendLobby`), `LeaveLobby`,
  `AddNewMessage`, each for one message read; `EndSelect`;
* phases `erase` and `disconnect`: `ExpireClient` and `DisconnectClient`, one iteration each of the two loops of
  `disconnectClients`; `EndErase`, `EndDisconnect`;
* phase `handle`: `HandleReady`, `HandleConfirm`, `HandleBadBet`, `HandleDecline`, `RejectTurn`, `AcceptTurn`, `CrashOnTurn` take one
  message off the queue of the lobby that is being handled. When the queue is empty one of `PrepareGame`, `StartGame`, `CrashOnStart`,
  `CancelGame`, `SkipPlayer`, `EndGame`, `ReturnToLobby`, `NothingToDo` is the lobby's step, which also moves on to the
  next lobby or round. A test the code makes *before* a time limit (`clients.size() == confirmedClients.size()`, `autoSkip`,
  `clients.empty()`) forces the step; the time limit itself may expire at any time, so it only enables it.

Four places need care and are modelled as the code behaves:

* `startGame` calls `removeClient` on the vector its range-for iterates over. `RemovalIsHarmless` is the case in
  which the loop still does what it was written for (only the last member is missing a bet). Otherwise another client
  is shifted under the reference, or the loop reads a moved-from null pointer: `CrashOnStart`;
* a turn sent when the game is over compares `players[currentPlayerIndex]`, past the end of the vector, with the sender:
  undefined, so both `RejectTurn` and `AcceptTurn` are possible;
* a turn without a game, an unknown turn and a bet that is no number end the process;
* a client erased from `Server::clients` during a game stays in the lobby as an object nobody can log in to. It is `~registered` and may still be
  a member; its place in `Clients` is used for a new object only when nothing points to it (`Unreferenced`).

Abstractions, all on the side of more behaviour: any client may be disconnected or erased in any round (15 s and 300 s are not
counted, and that a client is usually disconnected long before it is erased is not used); the outcome of a hit is a choice; requests that
only show something to a client are left to `Views`, since nothing in the server depends on them.

### Views

`Views` adds two variables to `Lobby` on the clients' side: `screen[c]`, where the last request told the client to be, and `shown[c]`, which of the list of players, the board
and the results it was sent on its connection *and* are still true. `ViewNext` is `Next` with every action conjoined with what its handler sends; nothing of `Lobby` is changed. A request is an
operator with the name of the function that sends it. `Deliver` is the client: it gets the requests if it is connected after the step, forgets what the step made untrue (`Outdated`), and
starts with nothing and on the list of lobbies on a new connection. `Lobby` has no cards, so a board is untrue after every step that may deal one.

`strays` is a history variable: the actions set it, none reads it. `sendLobby` does not ask whether a client is in a lobby already, nor whether another lobby still has something for it. A client becomes a stray by joining a lobby while another
one still `Reaches` it: has it as a member, as one of its bettors before the game, in `disconnectedClients`, or as the sender of a queued message. Such a client is on the screen of whichever lobby spoke last, and its vote in
one lobby changes the `ready` flag that the other shows without telling anybody there. So what a stray should see is not defined by the code, and `ScreensFollow` is stated of all other clients, `ListsAreCurrent` of all lobbies
without a stray among the members. A client that goes elsewhere after the first lobby has nothing left of it is no stray, and a stray that joins again when no other lobby reaches it is none any more.
Requests for boards and results name their lobby, so `BoardsAreCurrent` and `ResultsReachThePlayers` are stated of all clients.

### Server

One action is one iteration of a loop of `selectServer` or `disconnectClients`, in the phases of the round:

| Code | Actions |
|---|---|
| `select`, the scan of the descriptors in ascending order (`Server.cpp:60-74`) | `Select`, `ComesTo` |
| `accept` (`:76-85`), which returns the lowest free number | `Accept` |
| `ioctl`, `read`, `getline` (`:86-112`) | `Read`: some of what has arrived, cut at any message or within one (`Fragment`); `ReadEnd`: nothing to read |
| one line (`MessageHandler.cpp`) | `RegisterClient`, `ReconnectClient`, `RefuseLogin`, `RefuseUnauthenticated`, `HandleRequest`, `HandleResponse`, `PingBack`; `CatchException` drops the rest of the buffer |
| the two time limits (`:144-177`) | `TimeOut` (15 s), `ExpireClient` (300 s) |
| `socketsToClose` (`:184-206`), an unordered set | `CloseSocket`, in any order |

`getClientBySocket` returns the *first* client with a descriptor (`IsClientBySocket`), so two clients on one descriptor behave as in the code. A send may fail, and mark the connection, once its peer is gone
(`SendFailure`). `heard` stands for `lastMessageReceived`: whoever was heard in the round cannot be over a limit, anybody else may. `open`, `inbox`, `hungUp`, `pending` are the kernel's side; `Connect`, `Send`, `HangUp`
are the peers'. `names` and `mixed` are history variables and restrict nothing. Peers act in phase `select` only: what comes later in a round is not read before the next one.

### Blackjack and Hands

Suits and the order of a hand matter to nothing, so a hand is the number of cards of each rank, and the shuffled deck is the number of
cards left of each rank, any of which may be on top. A client that confirmed two bets has two seats but one
`PlayerInfo`; `hand`, `bet` and `hit` are therefore functions of the client and not of the seat. `HandleStand` and `SkipPlayer` are the same call of
`handleStand` and differ in what the players are told: `turnShown` is the last `showPlayerTurn` or `showPlayerSkipped`. `DealerDraws` is the loop of `dealerPlay` with every order of cards.

### Composition

`Lobby` contains the server's round, the lobbies and the game's turn order, with `LobbyCount` lobbies handled one after another, and
is the composition of those components as they call each other. Composing it with `Server` and `Blackjack` in one state space is beyond TLC, so they meet in two abstract specifications:

* `Sessions`: in `Server` a user is online when its client has a descriptor, in `Lobby` when `online` says so. Both implement `Sessions` (`ServerKeepsSessions`, `LobbiesKeepSessions`), in the same order of the
  same round: users log in while messages are read, are forgotten after it, dropped after that, and nothing changes while lobbies are handled. What `Lobby` assumes of connections is thus what `Server` does with them;
* `Tables`: in `Lobby` every lobby is a table (`LobbiesAreTables`), and one `Blackjack` with cards is one game of a table (`PlaysAsATable`, against `Tables!OneGame`). So the turn order that `Lobby` has without cards is the one
  that `Blackjack` has with them.

All four refinements are checked by TLC and proved.

## 3. What is checked

All runs use the code's own guards; the bounds below only limit what clients send.

| Run | Instance | Shows |
|---|---|---|
| `lobby_messages` | `Views`: 1 lobby, 2 clients, all 8 kinds of message, 1 queued per round | `TypeOK`; `GameConsistent`: state, game pointer, bets and index agree; `NothingLeftOver`: no bet or skip reaches the next game; `ScreensFollow`, `ListsAreCurrent`, `BoardsAreCurrent`, `ResultsReachThePlayers`: whichever way a connected member came there, it sees what is |
| `lobby_turns` | 1 lobby, 2 clients, 2 messages per round | `CurrentPlayerPrompted`: whoever's turn it is has been asked, over disconnections and reconnections; `TurnsInOrder`; `LobbiesAreTables` |
| `lobby_three` | 1 lobby, 3 clients, bets that are no number among the messages | `MembersPlay`, also after `startGame` dropped a member; `SeatsAreKept`; `VotesStartOver` |
| `lobby_elsewhere` | 2 lobbies, 2 clients, one lobby plays | `Views`: `LobbyIdIsASeat`, `OfflineAreScheduled`, `AutoSkippedHaveLeft` when clients sit in two lobbies or change lobby with messages queued; `ScreensFollow`, `ListsAreCurrent` for those who go from one lobby to the other; `LobbiesKeepSessions` |
| `lobby_liveness` | 1 lobby, 2 clients | `GamesEnd`, `OfflineSeatsAreFreed` |
| `server` | 2 users, 2 descriptors, all 6 kinds of line, 2 waiting to be read | `TypeOK`; `DescriptorsAccounted`: `select` gets the open, unmarked descriptors; `ClientsHaveTheirConnection`; `NoConnectionIsLeftBehind`; `TheHeardStayConnected`; `ServerKeepsSessions`; `HungUpAreClosed` |
| `blackjack` | 2 seats (of two clients or of one), 4 ranks, 4 cards each | cards conserved and never used up, the dealer last, busted and doubled hands do not go on, payments; `TheTurnCanBeFollowed`: from the turn they are shown players can tell whether it is over; `PlaysAsATable` |

`PROJECT.json` lists for each property a mutant of the code that it rejects.

**Bounds and why they are enough.** `MaxMessages` is what one round may queue: 1 is enough for what a message does, 2 (in
`lobby_turns`) for a message that is stale because of another in the same round. `MaxReady` and `MaxConfirmed` stop votes and bets at 2, after
which a game of two has started or a vote has been counted twice; with three clients, 2 bets are what leaves one without. Two clients are
enough for an actor and its rival, a player on turn and the next; three for a member left out of a game of two.
`OthersWait` keeps the second lobby of `lobby_elsewhere` waiting, with one client at a time, no votes and no messages: it is a place to go to and come from, and lobbies share nothing but the clients. It is enough for a client that goes away
with a vote, a bet, a seat or a removal left behind, and for a list in the one lobby while the other plays: each of the clauses of `Reaches` on members, bets and queues is needed for the two properties in this instance. The
clause on `disconnectedClients` needs a client that joins again elsewhere after its connection was lost, with votes there; it is in the proof, which has no such bound.
In `server` two users are one that logs in and one that logs in elsewhere or over the same connection; two descriptors are an old connection and a new one, with each number used again after it is closed; two lines are
enough for one that is handled after its connection was marked, and `broken` and `Fragment` end a buffer early. The properties quantify over single clients and pairs of them.
In `blackjack` an ace, a five, a nine and a ten give soft and hard totals, blackjacks, busts on the third card, dealers that draw several cards and ties;
the bet 1001 is odd, so two and a half times it is cut. Clients are interchangeable, so the runs of lobbies and cards without liveness use symmetry.
`DeckLasts` is about the 16 cards of this instance, of which two seats and a dealer need fewer; for 52 it is proved (section 4).

**Fairness.** The loop never waits for a client: `select` returns after two seconds at most, every descriptor is read once and
every lobby is handled once. So `EndSelect`, `EndErase`, `EndDisconnect` and `LobbyStep` are weakly fair. Client messages, disconnections and erasures are not fair
at all. The three time limits (60 s of preparation, 60 s for a turn, 30 s of results) are tested in every round against a clock that is never reset while the limit is waited for,
so a step that is tested again and again is taken: strong fairness on `StartGame`/`CancelGame`, `SkipPlayer` and `ReturnToLobby`. It is strong and not weak because the
step is enabled only in the "handle" part of each round. In `Server` the whole round is weakly fair (`WF_vars(Round)`): no step of it waits for a client, and nothing is assumed of the peers, who may connect, send or hang up or not.
What the code does *not* guarantee, and the model therefore does not assume, is that a client answers or comes back.

The one assumption outside the source is that `send` does not block and does not raise SIGPIPE; see section 5.

### Findings

Five runs end in a counterexample, each to a sentence in a comment of the source. They are in `PROJECT.json` with both lines.

* A vote is not taken back when its client goes, so a game is prepared although a member has not voted (`claim_votes`).
* A client that lost its connection and returned while bets were taken is removed after the game (`claim_returned`).
* A bet that is no number ends the server instead of the connection (`claim_bad_message`).
* Two aces count 2, not 12, because aces are eleven or one all together (`claim_total`).
* When two names have logged in over one connection its pings count for the first only, and the timeout of the second closes the connection for both (`claim_pings`). This is
  also why some properties of `Server` are stated for connections that are not `mixed`.

More comments are not followed by the code, as reading it shows, and the actions are modelled accordingly; no run is spent on them:

* `Client.h:42` says that `lobbyId` -1 means to be in no lobby, but a client may join two lobbies (`sendLobby` does not ask) and leave one;
* `GameController.cpp:14` says that those who did not confirm are kicked out of a called off game, but `cancelGame` removes nobody;
* `GameController.h:84` speaks of the number of clients that have confirmed, but bets are counted, so one client that confirms twice is a game of two, with one hand of four cards;
* `GameController.h:54` has the time of the last update of the game, but a played turn does not set it, so the next player may have almost no time.

## 4. What is proved

TLAPS checks the eight proof modules. The assumptions are those of the modules on their constants: there is a lobby, limits and bounds are numbers, the message kinds are
among those the code tells apart, descriptors are finitely many numbers above the listening socket, and a game has finitely many clients. So the theorems hold for any set of clients, any number of lobbies, descriptors and seats, any limit, any deck and any bound on what clients send.
Every safety property that a run checks is proved, and all four refinements. Only `TheDeckLasts` (enough cards) has a hypothesis on the constants, see below.

| Theorem | Module | States |
|---|---|---|
| `WithoutMembers` | `VectorProofs` | erase-remove leaves a vector of the same type with exactly the other members |
| `TypeCorrect` | `LobbyProofs` | `Spec => []TypeOK` |
| `GamesAreConsistent` | `LobbyProofs` | `Spec => []GameConsistent` |
| `NothingIsLeftOver` | `LobbyProofs` | `Spec => []NothingLeftOver` |
| `OnlyThoseWhoLeftAreSkipped` | `LobbyProofs` | `Spec => []AutoSkippedHaveLeft` |
| `MembersArePlayers` | `LobbyProofs` | `Spec => []MembersPlay` |
| `EachHasItsSeat` | `LobbySeatProofs` | `Spec => []LobbyIdIsASeat` |
| `TheOfflineAreScheduled` | `LobbySeatProofs` | `Spec => []OfflineAreScheduled` |
| `TheCurrentPlayerIsPrompted` | `LobbySeatProofs` | `Spec => []CurrentPlayerPrompted` |
| `TurnsPassInOrder`, `VotesDoStartOver`, `SeatsAreNotLost` | `LobbyStepProofs` | the action properties `TurnsInOrder`, `VotesStartOver`, `SeatsAreKept` |
| `LobbiesImplementTables` | `LobbyStepProofs` | `Spec => LobbiesAreTables` |
| `LobbiesImplementSessions` | `LobbyStepProofs` | `Spec => LobbiesKeepSessions` |
| `TheBoardsAreCurrent`, `TheResultsReachThePlayers` | `ViewsProofs` | `ViewSpec => []BoardsAreCurrent`, `[]ResultsReachThePlayers` |
| `TheScreensFollow`, `TheListsAreCurrent` | `ViewsProofs` | `ViewSpec => []ScreensFollow`, `[]ListsAreCurrent` |
| `TypeCorrect` | `ServerProofs` | `Spec => []TypeOK` |
| `DescriptorsAreAccounted` | `ServerProofs` | `Spec => []DescriptorsAccounted` |
| `ConnectionsAreTheirs` | `ServerProofs` | `Spec => []ClientsHaveTheirConnection` |
| `NoneIsLeftBehind` | `ServerProofs` | `Spec => []NoConnectionIsLeftBehind` |
| `HeardStay` | `ServerProofs` | `Spec => TheHeardStayConnected` |
| `ServerImplementsSessions` | `ServerProofs` | `Spec => ServerKeepsSessions` |
| `SumWithout` | `HandsProofs` | a sum over a finite set is the same in whatever order its elements are taken |
| `GameIsATable` | `BlackjackProofs` | `Spec => PlaysAsATable` |
| `TypeCorrect` | `BlackjackProofs` | `Spec => []TypeOK` |
| `CardsStayInOnePlace` | `BlackjackProofs` | `Spec => []CardsAreInOnePlace` |
| `TheDeckLasts` | `BlackjackProofs` | `EnoughCards` implies `Spec => []DeckLasts` |
| `TheDealerPlaysLast`, `TheWinnersBeatTheDealer`, `ABlackjackKeepsTheBet` | `BlackjackProofs` | `Spec => []DealerPlaysLast`, `[]WinnersBeatTheDealer`, `[]BlackjackKeepsTheBet` |
| `TurnsCanBeFollowed` | `BlackjackProofs` | `Spec => []TheTurnCanBeFollowed` |
| `TheBustedDrawNoMore`, `DoublesOnThreeCards` | `BlackjackProofs` | the action properties `BustedDrawNoMore`, `DoubledOnThreeCards` |

**The vector.** `Without` is a recursive function over prefixes. Its value is established by induction on the prefix, over sets of indices (`IntervalInduction`, from the
well-foundedness of finite sets in the library).

**The games.** `StepEffect` classifies what *any* step does to *one* lobby into nine cases (`Arrives`, `Departs`, `Bets`, `Plays`,
`Prepares`, `Starts`, `CallsOff`, `Ends`, `Returns`). It needs only the types; it is where each action is looked at, and where it is shown that a lobby
is not disturbed by what happens in another. The invariants of `LobbyProofs` follow from the nine cases:

* `GameConsistent` is inductive with the types: `Starts` needs that there are two bets, `Plays` that the index and the flag change together;
* `NothingLeftOver` is inductive with the types;
* `AutoSkippedHaveLeft` needs `NothingLeftOver`: nobody joins while someone is skipped, because lobbies are joinable only when they wait and then the list is empty;
* `MembersPlay` is inductive with the types: `Starts` leaves only members that have bet, and no case adds a member later.

**The seats.** `StepSeatEffect` does the same for members and `lobbyId`: nothing changes, a new object forgets its lobby, one client joins, or some are removed from one lobby and lose their
`lobbyId`, whichever lobby it named. `LobbyIdIsASeat` is inductive because the removal clears the name even where it would not have to, at the price that a client may have a seat its `lobbyId` does not name.
`OfflineAreScheduled` is inductive with the types.

**The turn.** `CurrentPlayerPrompted` is inductive with `GameConsistent` (a running game has its index inside the players and its lobby is not joinable) and `LobbyIdIsASeat` (a client that
returns is found in its lobby, so `restoreState` is reached). The action properties name the actions that can change a game (`WhoChangesTheGame`) or lead back to waiting (`WhoMakesItWait`).

**The views.** A step of `Views` is a step of `Lobby` (`ViewStepIsStep`), so what is proved of `Lobby` holds under `ViewSpec`; `LobbyInv` is what is needed of it: types, `GameConsistent`, `LobbyIdIsASeat` and
`MembersPlay`. `Delivered` and `GoneTo` say what a client holds and where it is after any set of requests, and each action is then either quiet (nothing becomes untrue and nobody arrives) or sends what is missing to all who must have it.
`HasGame` (boards and results together) is inductive for any number of lobbies. The board goes to the *players* and is due to whoever *sits* there: `LobbyIdIsASeat` makes a client that sits a member, `MembersPlay` makes it a player. A client that comes back gets the results because a
finished lobby's game does not run (`GameConsistent`), which is what `reconnectClient` asks. 

Screens and lists need one more invariant, for what another lobby may do: `Settled`, that a client that is no stray is within reach of one lobby at most. Its proof looks once at how each action changes the lists of a lobby: no action but a join brings a client within
reach of a lobby that did not reach it (`NoNearer`), because messages are queued by members, bets are placed by senders and removals are scheduled for members. A join makes a stray of whom another lobby reaches, and a registration forgets
it because nothing points to the object any more. `ElsewhereIsRight` then says that a lobby's step shows in another one on strays only: it sends screens to clients within its reach (`StateScreens`), changes their flags only (`StateTouches`), and a
non-stray member of the other lobby is not among them. In its own lobby `IsRight` (screens and lists) is preserved because at the start of a game nobody is told both to leave and to come, as those who are kicked are no members any more and so do not sit in the
lobby; at the end those who are called back include all that stay; and every change of the list is sent to all members.

**The connections.** `LoopInv` is the inductive invariant of the loop: the types, that lines are only handled for the descriptor being read, and `RoundInOrder`, which says what each phase leaves to the next: nothing is marked when
`accept` takes a number, because the listening socket is the lowest and is looked at first, and nothing is marked after the closing. That is what keeps a number from entering the set of watched descriptors while it waits to be closed, and
`DescriptorsAccounted` follows. `StepEffect` then classifies a step by what it does to users and connections: nothing, a login, an accepted connection, an erased client, a closed socket. `ClientsHaveTheirConnection` and
`LoginsHaveTheirClient` (every name of an open connection that is not marked belongs to a registered client with this descriptor) are preserved in each of the five cases, the latter giving `NoConnectionIsLeftBehind` once nothing is marked. `HeardStay`
follows from the former: two clients that share a descriptor have mixed it. `ServerImplementsSessions` maps the cases to steps of `Sessions`; a socket that is closed takes at most the first client that has it, so one user is dropped at a time.

**The sums.** What a hand is worth, how many cards it has and where the cards of a rank are, are sums over finite sets. `SumFunctionOnSet` is a recursive function on the subsets of the set
that takes out a *chosen* element. `SumExists` shows that there is such a function (the library's induction cannot be used, so a smallest counterexample is taken out of the set of subsets), `SumWithout` that any other
element may be taken out instead. From these follow addition (`SumPlus`), monotonicity (`SumAtMost`), the change of one summand (`SumChange`) and, for clients with several seats,
that adding per client what its seats contribute is adding over the seats (`SumOfShares`). The `Counted` lemmas say what they mean for hands: a card drawn adds its value, two hands together count the sum.

**The cards.** `TurnInv` (the game runs exactly while the index has not passed the seats) is inductive whatever is drawn, and each step is a deal, a turn or a stutter of `Tables`. The other invariants are inductive given it:

* `CardInv`: types, nothing dealt before `dealCards`, the dealer's two cards until the end and 17 after it, and each card in one place. The dealer's draws are the recursive function of `DealerDraws`; `DealerDrawsFromTheDeck`
  shows by induction on its rounds that every pair it reaches holds the same cards as the pair it began with, and stays a hand and a deck;
* `SeatInv`, for a client with one seat: until its turn has passed it is not over 21 and has two cards unless it has hit, and the turn last shown of it was a hit within 21 exactly if it is still its turn. `BustedDrawNoMore` follows: a busted client's
  turn has passed, and who is not on turn draws nothing. A client with two seats is excluded because it does draw on;

* `WithinLimits`: a hand counts at most 21 for each seat of its client that has its turn still to come, and 31 for each whose turn has passed. It is needed for `DeckLasts`, which is not inductive: no hand may draw at 22, so a seat adds at most one card beyond 21. It holds for clients with several seats too,
  where the hand is the sum of the pairs of all of them. Together with `CardInv` it bounds what is not on the deck by 31 for each seat and 20 for the dealer: an empty deck would count more (`EnoughCards`).

`EnoughCards` is `Copies` of each rank counting more than `31 * MaxSeats + 20`. The program's 52 cards count 340 and satisfy it for up to ten seats; the instance of `blackjack` satisfies it as well, and TLC evaluates it there. For more seats nothing is claimed: see section 5.

**The refinements.** Each step maps to a step of `Tables` or a stutter, given `GameConsistent`. A turn accepted after the end of the game, when the index is past the players, is a stutter because `TurnsTaken` counts the
seats once the game does not run.

Only model-checked is liveness (`GamesEnd`, `OfflineSeatsAreFreed`, `HungUpAreClosed`): it rests on fairness, and with it on ENABLED, which the prover does not reason about.

## 5. What is not modelled, and why

* `send` that blocks or raises SIGPIPE: kernel behaviour. The model assumes that a send returns; that it may fail is modelled (`SendFailure`).
* An `accept` that fails: `FD_SET` is then called with -1, which is undefined and has no set of outcomes to choose from. `Connect` is bounded so that a descriptor is left.
* `TCPData`, the regular expression on usernames, a read of exactly 4096 bytes: characters. The outcomes (parsed, not parsed, cut, field missing, no number) are modelled. A message of an unknown `dataType` is
  ignored by the code and is left out, since it changes nothing.
* Time: limits are choices. That a played turn does not renew `lastGameUpdate` therefore shows nowhere in the models.
* One `PlayerInfo` shared by two games of one client that sits in two lobbies, and the screen and the lists of a stray.
* A client object that is erased (`Server.cpp:173`) while a playing lobby still points to it and that has not been disconnected: it keeps its descriptor number, so what the lobby sends to it reaches whoever gets that number next. The
  15 s limit disconnects a client long before the 300 s limit erases it, so this takes a round that stalls, or a clock that jumps, by more than 285 s. `Server` has no lobbies and `Views` no descriptors, so no property speaks of it.
* The screen of a client that `ReturnToLobby` removes, which has lost its connection by then, or has come back as in `claim_returned`.
* An empty deck: the code draws from it without looking (`Deck.cpp:12-16`). With 52 cards it cannot happen up to ten seats (`TheDeckLasts`), and no limit of the program keeps a game to ten. `Blackjack` draws no card then; what the read past
  the end does has no set of outcomes to choose from.
* The setup of the listening socket and `main.cpp`: arguments and calls that end the process when they fail.

## 6. Plan

Done: the core (`Vector`, `Lobby`, `Tables`, `LobbyProperties`, `LobbyClaims`), the cards (`Hands`, `Blackjack`), the connections (`Sessions`, `Server`, `ServerProperties`), what is shown (`Views`), the theorems on all safety properties of the
four, and the refinements that tie `Lobby`, `Server` and `Blackjack` together. What is left:

1. A client in two games: two instances of `Blackjack` over one `PlayerInfo`.
