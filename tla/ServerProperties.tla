-------------------------- MODULE ServerProperties --------------------------
(***************************************************************************)
(* What is checked and proved of the connections: invariants, action       *)
(* properties, liveness, the refinement of module Sessions, and what a     *)
(* comment says and the code does not do.                                  *)
(*                                                                         *)
(* A client of this protocol logs in under one name on a connection; the   *)
(* server does not ask for it (mixed).  What needs it says so.             *)
(***************************************************************************)
EXTENDS Server

Registered == Members(clients)

Phases == {"select", "read", "timeout", "erase", "close", "lobbies"}
Sockets == Descriptors \union {masterSocket}
Lines == Messages \union {Fragment}

(* Every variable keeps its type. *)
TypeOK ==
    /\ phase \in Phases
    /\ clientFileDescriptors \subseteq Sockets
    /\ tests \subseteq Sockets
    /\ reading \in Descriptors \union {NoSocket}
    /\ buffer \in Seq(Lines)
    /\ socketsToClose \subseteq Descriptors
    /\ clients \in Seq(Usernames)
    /\ clientSocket \in [Usernames -> Descriptors \union {NoSocket}]
    /\ heard \subseteq Usernames
    /\ open \subseteq Descriptors
    /\ inbox \in [Descriptors -> Seq(Messages)]
    /\ hungUp \in [Descriptors -> BOOLEAN]
    /\ pending \in BOOLEAN
    /\ names \in [Descriptors -> SUBSET Usernames]
    /\ mixed \in BOOLEAN

(* select is given exactly the connections that are open and not marked,   *)
(* and the listening socket: no closed descriptor, which would make select *)
(* fail for all of them, and none is forgotten open.  It relies on         *)
(* connections being accepted before anything is marked in the round, for  *)
(* accept must not return the number of a marked one.                      *)
DescriptorsAccounted ==
    clientFileDescriptors = (open \union {masterSocket}) \ socketsToClose

(* The number in a client's clientSocket is an open connection over which  *)
(* this client and nobody else has logged in: numbers are used again, and  *)
(* a client that kept one would be sent to, heard and disconnected over    *)
(* the connection of somebody else.                                        *)
ClientsHaveTheirConnection ==
    ~mixed => \A c \in Registered :
        clientSocket[c] # NoSocket =>
            clientSocket[c] \in open /\ names[clientSocket[c]] = {c}

(* After a round no connection is left that was logged in over and has no  *)
(* client: what a login elsewhere, a timeout or an erasure took from its   *)
(* client is closed.                                                       *)
NoConnectionIsLeftBehind ==
    phase = "select" /\ ~mixed =>
        \A s \in open : \A c \in names[s] : c \in Registered /\ clientSocket[c] = s

(* Whoever was heard in this round does not lose its connection for being  *)
(* silent, its own or anybody else's silence.                              *)
KeepsConnection(c) ==
    phase = "timeout" /\ c \in heard \intersect Registered
        /\ clientSocket[c] \notin socketsToClose =>
            clientSocket[c] \notin socketsToClose'
TheHeardStayConnected ==
    [][~mixed => \A c \in Usernames : KeepsConnection(c)]_vars

(* A connection that its peer has closed is closed, whatever else goes on. *)
HungUpAreClosed == \A s \in Descriptors : (s \in open /\ hungUp[s]) ~> s \notin open

Status(c) ==
    IF c \notin Registered THEN "unknown"
    ELSE IF clientSocket[c] = NoSocket THEN "offline" ELSE "online"

Part ==
    CASE phase \in {"select", "read"} -> "read"
      [] phase \in {"timeout", "erase"} -> "forget"
      [] phase = "close" -> "drop"
      [] phase = "lobbies" -> "serve"

Users ==
    INSTANCE Sessions WITH
        Users <- Usernames, step <- Part, status <- [c \in Usernames |-> Status(c)]

(* With descriptors that are marked, closed and used again, and names that *)
(* share one, users only come and go as module Sessions says.              *)
ServerKeepsSessions == Users!Spec

(* Server.cpp:140: by its pings a client keeps its connection.  A ping is  *)
(* credited to the first client of the descriptor; a second one that       *)
(* logged in over it is silent, and its timeout closes it for both.        *)
PingsKeepTheConnection ==
    [][\A c \in Usernames : KeepsConnection(c)]_vars
=============================================================================
