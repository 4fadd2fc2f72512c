------------------------------- MODULE Server -------------------------------
(***************************************************************************)
(* The connections of the server: Server's loop over the descriptors and   *)
(* MessageHandler, as far as they decide which connection belongs to which *)
(* client and which connections are closed.  One round goes through        *)
(*                                                                         *)
(*   "select"   waiting for descriptors that can be read;                  *)
(*   "read"     reading them in ascending order, the listening socket      *)
(*              first, and handling every line at once;                    *)
(*   "timeout"  clients that are silent have their connection marked;      *)
(*   "erase"    clients silent for long are erased;                        *)
(*   "close"    marked descriptors are closed;                             *)
(*   "lobbies"  the lobbies are handled: module Lobby.                     *)
(*                                                                         *)
(* What a message does to a lobby, and what a lobby does when a client     *)
(* connects or disconnects, is left to module Lobby as well.  Clients send *)
(* and hang up in phase "select" only: what comes later in a round is what *)
(* a read does not return yet.                                             *)
(***************************************************************************)
EXTENDS Integers, Sequences, FiniteSets, Vector

CONSTANTS
    Usernames,     \* names that usernameRegex accepts
    Descriptors,   \* bound: the numbers that accept may return
    MessageKinds,  \* the kinds of message that clients send
    MaxInbox       \* bound: messages that wait to be read at a time

masterSocket == 3
NoSocket == -1

(* "request" is any request but a login, "illegalLogin" a login with other *)
(* characters than usernameRegex allows, "broken" a line that is no        *)
(* message or lacks a field that is asked for.                             *)
AllMessageKinds == {"login", "illegalLogin", "request", "response", "ping", "broken"}

ASSUME DescriptorsAssumption ==
    IsFiniteSet(Descriptors) /\ \A s \in Descriptors : s \in Nat /\ s > masterSocket
ASSUME MessageKindsAssumption == MessageKinds \subseteq AllMessageKinds
ASSUME MaxInboxAssumption == MaxInbox \in Nat

Messages ==
    [kind : MessageKinds \ {"login"}] \union [kind : MessageKinds \intersect {"login"}, name : Usernames]

(* A line of the buffer that is the beginning of a message. *)
Fragment == [kind |-> "fragment"]

VARIABLES
    phase,
    clientFileDescriptors,  \* watched by select, the listening socket among them
    tests,                  \* readable and not yet looked at in this round
    reading,                \* the descriptor whose lines are being handled
    buffer,                 \* its lines that are still to be handled
    socketsToClose,
    clients,                \* Server::clients, by name, in order of registration
    clientSocket,           \* of each of them
    heard,                  \* whose lastMessageReceived was set in this round,
                            \* until disconnectClients has looked at it
    \* the system's side
    open,                   \* descriptors of established connections
    inbox,                  \* what their peers have sent and was not read
    hungUp,                 \* whether their peers have closed them
    pending,                \* a connection waits to be accepted
    \* history
    names,                  \* what each open connection has logged in as
    mixed                   \* some connection has logged in under two names

loopVars == <<phase, tests, reading, buffer>>
socketVars == <<clientFileDescriptors, socketsToClose>>
clientVars == <<clients, clientSocket, heard>>
peerVars == <<open, inbox, hungUp, pending>>
historyVars == <<names, mixed>>
vars == <<loopVars, socketVars, clientVars, peerVars, historyVars>>

Init ==
    /\ phase = "select"
    /\ clientFileDescriptors = {masterSocket}
    /\ tests = {}
    /\ reading = NoSocket
    /\ buffer = << >>
    /\ socketsToClose = {}
    /\ clients = << >>
    /\ clientSocket = [u \in Usernames |-> NoSocket]
    /\ heard = {}
    /\ open = {}
    /\ inbox = [s \in Descriptors |-> << >>]
    /\ hungUp = [s \in Descriptors |-> FALSE]
    /\ pending = FALSE
    /\ names = [s \in Descriptors |-> {}]
    /\ mixed = FALSE

-----------------------------------------------------------------------------
(* The peers. *)

(* Bound: nobody connects when there is no descriptor left. *)
Connect ==
    /\ phase = "select"
    /\ ~pending
    /\ open # Descriptors
    /\ pending' = TRUE
    /\ UNCHANGED <<loopVars, socketVars, clientVars, open, inbox, hungUp, historyVars>>

(* Bound: MaxInbox messages wait at one descriptor, or at two together.    *)
Send(s, m) ==
    /\ phase = "select"
    /\ s \in open /\ ~hungUp[s]
    /\ Len(inbox[s]) < MaxInbox
    /\ \A t \in Descriptors \ {s} : Len(inbox[t]) + Len(inbox[s]) < MaxInbox
    /\ inbox' = [inbox EXCEPT ![s] = Append(@, m)]
    /\ UNCHANGED <<loopVars, socketVars, clientVars, open, hungUp, pending, historyVars>>

HangUp(s) ==
    /\ phase = "select"
    /\ s \in open /\ ~hungUp[s]
    /\ hungUp' = [hungUp EXCEPT ![s] = TRUE]
    /\ UNCHANGED <<loopVars, socketVars, clientVars, open, inbox, pending, historyVars>>

-----------------------------------------------------------------------------
(* Phases "select" and "read". *)

(* Fault: the descriptor is still watched. *)
CloseConnection_KeepsWatching(S) ==
    /\ socketsToClose' = socketsToClose \union S
    /\ UNCHANGED clientFileDescriptors

(* closeConnection of each of S: they are closed at the end of the round,  *)
(* and lines from them may still be handled until then.                    *)
CloseConnection(S) ==
    /\ socketsToClose' = socketsToClose \union S
    /\ clientFileDescriptors' = clientFileDescriptors \ S

Readable ==
    {s \in open : inbox[s] # << >> \/ hungUp[s]}
        \union (IF pending THEN {masterSocket} ELSE {})

(* select returns; after two seconds without anything to read too. *)
Select ==
    /\ phase = "select"
    /\ phase' = "read"
    /\ tests' = clientFileDescriptors \intersect Readable
    /\ UNCHANGED <<reading, buffer, socketVars, clientVars, peerVars, historyVars>>

(* The loop over the descriptors has come to s. *)
ComesTo(s) ==
    /\ phase = "read" /\ reading = NoSocket
    /\ s \in tests /\ \A t \in tests : s <= t
    /\ tests' = tests \ {s}

(* accept returns the lowest number that is free. *)
Accept ==
    /\ ComesTo(masterSocket)
    /\ pending' = FALSE
    /\ \E s \in Descriptors \ open :
          /\ \A t \in Descriptors \ open : s <= t
          /\ open' = open \union {s}
          /\ clientFileDescriptors' = clientFileDescriptors \union {s}
    /\ UNCHANGED <<phase, reading, buffer, socketsToClose, clientVars, inbox, hungUp, historyVars>>

(* One read: some of what the peer has sent, cut anywhere. *)
Read(s) ==
    /\ s # masterSocket
    /\ ComesTo(s)
    /\ \E n \in 1 .. Len(inbox[s]) : \E last \in {inbox[s][n], Fragment} :
          /\ buffer' = Append(SubSeq(inbox[s], 1, n - 1), last)
          /\ inbox' = [inbox EXCEPT ![s] = SubSeq(@, n + 1, Len(@))]
    /\ reading' = s
    /\ UNCHANGED <<phase, socketVars, clientVars, open, hungUp, pending, historyVars>>

(* Faults: the client loses its socket at once; the end is not noticed. *)
ReadEnd_AtOnce(s) ==
    /\ s # masterSocket
    /\ ComesTo(s)
    /\ inbox[s] = << >>
    /\ CloseConnection({s})
    /\ clientSocket' =
          [c \in Usernames |-> IF clientSocket[c] = s THEN NoSocket ELSE clientSocket[c]]
    /\ UNCHANGED <<phase, reading, buffer, clients, heard, peerVars, historyVars>>
ReadEnd_Unnoticed(s) ==
    /\ s # masterSocket
    /\ ComesTo(s)
    /\ inbox[s] = << >>
    /\ UNCHANGED <<phase, reading, buffer, socketVars, clientVars, peerVars, historyVars>>

(* Nothing to read from a readable descriptor: the peer has closed it. *)
ReadEnd(s) ==
    /\ s # masterSocket
    /\ ComesTo(s)
    /\ inbox[s] = << >>
    /\ CloseConnection({s})
    /\ UNCHANGED <<phase, reading, buffer, clientVars, peerVars, historyVars>>

-----------------------------------------------------------------------------
(* MessageHandler, for the first line of the buffer. *)

Handles(kinds) ==
    /\ phase = "read"
    /\ buffer # << >>
    /\ Head(buffer).kind \in kinds

NextLine ==
    /\ buffer' = Tail(buffer)
    /\ reading' = IF Len(buffer) = 1 THEN NoSocket ELSE reading
    /\ UNCHANGED <<phase, tests>>

(* What MessageHandler::sendMessage closes after a send to s: nothing, or  *)
(* s when the peer has reset the connection.                               *)
SendFailure(s) == IF hungUp[s] THEN {{}, {s}} ELSE {{}}

ClientsAt(s) == {i \in DOMAIN clients : clientSocket[clients[i]] = s}

(* getClientBySocket: c is the first client that has s. *)
IsClientBySocket(s, c) ==
    \E i \in ClientsAt(s) : c = clients[i] /\ \A j \in ClientsAt(s) : i <= j

LogsInAs(s, u) ==
    /\ names' = [names EXCEPT ![s] = @ \union {u}]
    /\ mixed' = (mixed \/ names[s] \ {u} # {})

(* handleLogin with a name that no client has.  Whether the socket has a   *)
(* client already is not asked.                                            *)
RegisterClient(u) ==
    /\ Handles({"login"}) /\ Head(buffer).name = u
    /\ u \notin Members(clients)
    /\ clients' = Append(clients, u)
    /\ clientSocket' = [clientSocket EXCEPT ![u] = reading]
    /\ heard' = heard \union {u}
    /\ \E failed \in SendFailure(reading) : CloseConnection(failed)
    /\ LogsInAs(reading, u)
    /\ NextLine
    /\ UNCHANGED peerVars

(* Fault: the earlier connection is left open. *)
ReconnectClient_KeepsOld(u) ==
    /\ Handles({"login"}) /\ Head(buffer).name = u
    /\ u \in Members(clients)
    /\ clientSocket' = [clientSocket EXCEPT ![u] = reading]
    /\ heard' = heard \union {u}
    /\ \E failed \in SendFailure(reading) : CloseConnection(failed)
    /\ LogsInAs(reading, u)
    /\ NextLine
    /\ UNCHANGED <<clients, peerVars>>

(* handleLogin with the name of a client: it goes on over this connection, *)
(* and the one it had is closed.                                           *)
ReconnectClient(u) ==
    LET replaced == {clientSocket[u]} \ {NoSocket, reading}
    IN  /\ Handles({"login"}) /\ Head(buffer).name = u
        /\ u \in Members(clients)
        /\ clientSocket' = [clientSocket EXCEPT ![u] = reading]
        /\ heard' = heard \union {u}
        /\ \E failed \in SendFailure(reading) : CloseConnection(replaced \union failed)
        /\ LogsInAs(reading, u)
        /\ NextLine
        /\ UNCHANGED <<clients, peerVars>>

(* handleLogin refuses the name, whether a client has it or not. *)
RefuseLogin ==
    /\ Handles({"illegalLogin"})
    /\ CloseConnection({reading})
    /\ NextLine
    /\ UNCHANGED <<clientVars, peerVars, historyVars>>

(* handleRequest and handleResponse from a connection nobody has logged in *)
(* on.                                                                     *)
RefuseUnauthenticated ==
    /\ Handles({"request", "response"})
    /\ ClientsAt(reading) = {}
    /\ CloseConnection({reading})
    /\ NextLine
    /\ UNCHANGED <<clientVars, peerVars, historyVars>>

(* Any other request of a client, answered or queued. *)
HandleRequest(c) ==
    /\ Handles({"request"})
    /\ IsClientBySocket(reading, c)
    /\ heard' = heard \union {c}
    /\ \E failed \in SendFailure(reading) : CloseConnection(failed)
    /\ NextLine
    /\ UNCHANGED <<clients, clientSocket, peerVars, historyVars>>

(* handleResponse: a client in no lobby has nothing to respond to. *)
HandleResponse(c) ==
    /\ Handles({"response"})
    /\ IsClientBySocket(reading, c)
    /\ heard' = heard \union {c}
    /\ \E inLobby \in BOOLEAN : CloseConnection(IF inLobby THEN {} ELSE {reading})
    /\ NextLine
    /\ UNCHANGED <<clients, clientSocket, peerVars, historyVars>>

(* Anyone is answered, and a client has been heard. *)
PingBack ==
    /\ Handles({"ping"})
    /\ heard' = heard \union {c \in Usernames : IsClientBySocket(reading, c)}
    /\ \E failed \in SendFailure(reading) : CloseConnection(failed)
    /\ NextLine
    /\ UNCHANGED <<clients, clientSocket, peerVars, historyVars>>

(* TCPData or valueOf throws: the rest of the buffer is dropped. *)
CatchException ==
    /\ Handles({"broken", "fragment"})
    /\ CloseConnection({reading})
    /\ buffer' = << >>
    /\ reading' = NoSocket
    /\ UNCHANGED <<phase, tests, clientVars, peerVars, historyVars>>

EndRead ==
    /\ phase = "read" /\ reading = NoSocket /\ tests = {}
    /\ phase' = "timeout"
    /\ UNCHANGED <<tests, reading, buffer, socketVars, clientVars, peerVars, historyVars>>

-----------------------------------------------------------------------------
(* disconnectClients. *)

MovesOn(from, to) ==
    /\ phase = from
    /\ phase' = to
    /\ UNCHANGED <<tests, reading, buffer, socketVars, clients, clientSocket, peerVars, historyVars>>

EndTimeOuts == MovesOn("timeout", "erase") /\ UNCHANGED heard
EndErase == MovesOn("erase", "close") /\ heard' = {}

(* Faults: the time of the last message is not looked at; nor whether      *)
(* there is a connection.                                                  *)
TimeOut_Anyone(c) ==
    /\ phase = "timeout"
    /\ c \in Members(clients)
    /\ clientSocket[c] \notin socketsToClose \union {NoSocket}
    /\ CloseConnection({clientSocket[c]})
    /\ UNCHANGED <<loopVars, clientVars, peerVars, historyVars>>

TimeOut_Anyway(c) ==
    /\ phase = "timeout"
    /\ c \in Members(clients) \ heard
    /\ clientSocket[c] \notin socketsToClose
    /\ CloseConnection({clientSocket[c]})
    /\ UNCHANGED <<loopVars, clientVars, peerVars, historyVars>>

(* c was silent for MAX_TIMEOUT_BEFORE_DISCONNECT_MS: a choice, but for    *)
(* those who were heard in this round.                                     *)
TimeOut(c) ==
    /\ phase = "timeout"
    /\ c \in Members(clients) \ heard
    /\ clientSocket[c] \notin socketsToClose \union {NoSocket}
    /\ CloseConnection({clientSocket[c]})
    /\ UNCHANGED <<loopVars, clientVars, peerVars, historyVars>>

(* c was silent for MAX_TIMEOUT_BEFORE_REMOVED_MS, which is longer: if it  *)
(* still has a connection, that one is marked by now.  The object goes     *)
(* with the number of its socket.                                          *)
ExpireClient(c) ==
    /\ phase = "erase"
    /\ c \in Members(clients) \ heard
    /\ clientSocket[c] \in socketsToClose \union {NoSocket}
    /\ clients' = Without(clients, {c})
    /\ clientSocket' = [clientSocket EXCEPT ![c] = NoSocket]
    /\ UNCHANGED <<loopVars, socketVars, heard, peerVars, historyVars>>

(* close: what was not read is lost, and the number is free. *)
Closed(s) ==
    /\ open' = open \ {s}
    /\ inbox' = [inbox EXCEPT ![s] = << >>]
    /\ hungUp' = [hungUp EXCEPT ![s] = FALSE]
    /\ names' = [names EXCEPT ![s] = {}]
    /\ UNCHANGED <<pending, mixed>>

(* Fault: the client keeps the number of its socket. *)
CloseSocket_KeepsClient(s) ==
    /\ phase = "close"
    /\ s \in socketsToClose
    /\ socketsToClose' = socketsToClose \ {s}
    /\ Closed(s)
    /\ UNCHANGED <<loopVars, clientFileDescriptors, clientVars>>

(* One of socketsToClose, which is an unordered set: it is closed and      *)
(* taken from its client, the first one that has it.                       *)
CloseSocket(s) ==
    /\ phase = "close"
    /\ s \in socketsToClose
    /\ socketsToClose' = socketsToClose \ {s}
    /\ Closed(s)
    /\ clientSocket' =
          [c \in Usernames |-> IF IsClientBySocket(s, c) THEN NoSocket ELSE clientSocket[c]]
    /\ UNCHANGED <<loopVars, clientFileDescriptors, clients, heard>>

EndClose == socketsToClose = {} /\ MovesOn("close", "lobbies") /\ UNCHANGED heard

(* The lobbies neither read nor close anything. *)
HandleLobbies == MovesOn("lobbies", "select") /\ UNCHANGED heard

-----------------------------------------------------------------------------
Peers ==
    \/ Connect
    \/ \E s \in Descriptors : HangUp(s) \/ \E m \in Messages : Send(s, m)

Line ==
    \/ \E c \in Usernames :
          RegisterClient(c) \/ ReconnectClient(c) \/ HandleRequest(c) \/ HandleResponse(c)
    \/ RefuseLogin \/ RefuseUnauthenticated \/ PingBack \/ CatchException

Round ==
    \/ Select
    \/ Accept
    \/ \E s \in Descriptors : Read(s) \/ ReadEnd(s) \/ CloseSocket(s)
    \/ Line
    \/ EndRead
    \/ \E c \in Usernames : TimeOut(c) \/ ExpireClient(c)
    \/ EndTimeOuts \/ EndErase \/ EndClose
    \/ HandleLobbies

Next == Peers \/ Round

Spec == Init /\ [][Next]_vars

(* The loop goes on: no step of a round waits for a client. *)
FairSpec == Spec /\ WF_vars(Round)
=============================================================================
