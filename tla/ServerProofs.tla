----------------------------- MODULE ServerProofs -----------------------------
(***************************************************************************)
(* Theorems about the connections, for any names, any descriptors and any  *)
(* number of messages under way.                                           *)
(***************************************************************************)
EXTENDS ServerProperties, VectorProofs, SequenceTheorems

-----------------------------------------------------------------------------
(* What is needed of the loop to know that the types are kept: there are   *)
(* lines to handle only while a descriptor is being read.                  *)
LinesAreRead ==
    /\ phase # "read" => reading = NoSocket
    /\ buffer = << >> <=> reading = NoSocket

TypeInv == TypeOK /\ LinesAreRead

LEMMA Numbers ==
    /\ NoSocket \notin Descriptors /\ masterSocket \notin Descriptors
    /\ NoSocket # masterSocket
BY DescriptorsAssumption DEF NoSocket, masterSocket

LEMMA SendFailureType ==
    ASSUME NEW s, NEW failed \in SendFailure(s)
    PROVE  failed \subseteq {s}
BY DEF SendFailure

(* A descriptor whose line is handled. *)
LEMMA HandledIsRead ==
    ASSUME TypeInv, NEW kinds, Handles(kinds)
    PROVE  reading \in Descriptors /\ phase = "read"
BY DEF TypeInv, TypeOK, LinesAreRead, Handles

(* The next line of the buffer. *)
LEMMA NextLineType ==
    ASSUME TypeInv, NEW kinds, Handles(kinds), NextLine
    PROVE  /\ buffer' \in Seq(Lines)
           /\ reading' \in Descriptors \union {NoSocket}
           /\ LinesAreRead'
<1>1. buffer \in Seq(Lines) /\ buffer # << >>
  BY DEF TypeInv, TypeOK, Handles
<1>2. reading \in Descriptors /\ phase = "read" /\ phase' = phase
  BY HandledIsRead DEF NextLine
<1>3. buffer' = Tail(buffer) /\ reading' = IF Len(buffer) = 1 THEN NoSocket ELSE reading
  BY DEF NextLine
<1>4. Tail(buffer) \in Seq(Lines)
  BY <1>1
<1>5. Tail(buffer) = << >> <=> Len(buffer) = 1
  <2>1. Len(Tail(buffer)) = Len(buffer) - 1 /\ Len(buffer) \in Nat
    BY <1>1
  <2>2. Tail(buffer) = << >> <=> Len(Tail(buffer)) = 0
    BY <1>4, EmptySeq
  <2>3. QED
    BY <2>1, <2>2
<1>6. QED
  BY <1>2, <1>3, <1>4, <1>5, Numbers DEF LinesAreRead

(* Marking descriptors keeps the types. *)
LEMMA CloseConnectionType ==
    ASSUME TypeOK, NEW S \in SUBSET Descriptors, CloseConnection(S)
    PROVE  /\ clientFileDescriptors' \subseteq Sockets
           /\ socketsToClose' \subseteq Descriptors
BY DEF TypeOK, CloseConnection

LEMMA InitTypeInv == Init => TypeInv
<1> SUFFICES ASSUME Init PROVE TypeInv
  OBVIOUS
<1>1. << >> \in Seq(Lines) /\ << >> \in Seq(Usernames) /\ << >> \in Seq(Messages)
  OBVIOUS
<1>2. inbox \in [Descriptors -> Seq(Messages)]
  BY <1>1 DEF Init
<1>3. clientSocket \in [Usernames -> Descriptors \union {NoSocket}]
  BY DEF Init
<1>4. LinesAreRead
  BY DEF Init, LinesAreRead
<1>5. QED
  BY <1>1, <1>2, <1>3, <1>4 DEF Init, TypeInv, TypeOK, Phases, Sockets

(* The peers' steps keep the types. *)
LEMMA PeersTypeInv ==
    ASSUME TypeInv, Peers
    PROVE  TypeInv'
<1>1. CASE Connect
  BY <1>1 DEF Connect, TypeInv, TypeOK, LinesAreRead, loopVars, socketVars, clientVars, historyVars
<1>2. ASSUME NEW s \in Descriptors, HangUp(s) PROVE TypeInv'
  BY <1>2 DEF HangUp, TypeInv, TypeOK, LinesAreRead, loopVars, socketVars, clientVars, historyVars
<1>3. ASSUME NEW s \in Descriptors, NEW m \in Messages, Send(s, m) PROVE TypeInv'
  <2>1. Append(inbox[s], m) \in Seq(Messages)
    BY DEF TypeInv, TypeOK
  <2>2. inbox' \in [Descriptors -> Seq(Messages)]
    BY <1>3, <2>1 DEF Send, TypeInv, TypeOK
  <2>3. QED
    BY <1>3, <2>2
       DEF Send, TypeInv, TypeOK, LinesAreRead, loopVars, socketVars, clientVars, historyVars
<1>4. QED
  BY <1>1, <1>2, <1>3 DEF Peers

(* So does every line that is handled. *)
LEMMA LineTypeInv ==
    ASSUME TypeInv, Line
    PROVE  TypeInv'
<1>1. ASSUME NEW u \in Usernames, RegisterClient(u) PROVE TypeInv'
  <2>1. /\ NextLine /\ Handles({"login"})
        /\ \E S \in SUBSET Descriptors : CloseConnection(S)
    BY <1>1, SendFailureType, HandledIsRead DEF RegisterClient
  <2>2. Append(clients, u) \in Seq(Usernames)
    BY DEF TypeInv, TypeOK
  <2>3. QED
    BY <1>1, <2>1, <2>2, NextLineType, CloseConnectionType, HandledIsRead
       DEF RegisterClient, LogsInAs, TypeInv, TypeOK, NextLine, peerVars
<1>2. ASSUME NEW u \in Usernames, ReconnectClient(u) PROVE TypeInv'
  <2>1. NextLine /\ Handles({"login"})
    BY <1>2 DEF ReconnectClient
  <2>2. \E S \in SUBSET Descriptors : CloseConnection(S)
    <3>1. PICK failed \in SendFailure(reading) :
            CloseConnection(({clientSocket[u]} \ {NoSocket, reading}) \union failed)
      BY <1>2 DEF ReconnectClient
    <3>2. failed \subseteq Descriptors
      BY <2>1, <3>1, SendFailureType, HandledIsRead
    <3>3. {clientSocket[u]} \ {NoSocket, reading} \subseteq Descriptors
      BY DEF TypeInv, TypeOK
    <3>4. QED
      BY <3>1, <3>2, <3>3
  <2>3. QED
    BY <1>2, <2>1, <2>2, NextLineType, CloseConnectionType, HandledIsRead
       DEF ReconnectClient, LogsInAs, TypeInv, TypeOK, NextLine, peerVars
<1>3. ASSUME NEW c \in Usernames, HandleRequest(c) PROVE TypeInv'
  <2>1. /\ NextLine /\ Handles({"request"})
        /\ \E S \in SUBSET Descriptors : CloseConnection(S)
    BY <1>3, SendFailureType, HandledIsRead DEF HandleRequest
  <2>2. QED
    BY <1>3, <2>1, NextLineType, CloseConnectionType
       DEF HandleRequest, TypeInv, TypeOK, NextLine, peerVars, historyVars
<1>4. ASSUME NEW c \in Usernames, HandleResponse(c) PROVE TypeInv'
  <2>1. /\ NextLine /\ Handles({"response"})
        /\ \E S \in SUBSET Descriptors : CloseConnection(S)
    BY <1>4, HandledIsRead DEF HandleResponse
  <2>2. QED
    BY <1>4, <2>1, NextLineType, CloseConnectionType
       DEF HandleResponse, TypeInv, TypeOK, NextLine, peerVars, historyVars
<1>5. CASE RefuseLogin \/ RefuseUnauthenticated
  <2>1. /\ NextLine /\ \E kinds : Handles(kinds)
        /\ \E S \in SUBSET Descriptors : CloseConnection(S)
    BY <1>5, HandledIsRead DEF RefuseLogin, RefuseUnauthenticated
  <2>2. QED
    BY <1>5, <2>1, NextLineType, CloseConnectionType
       DEF RefuseLogin, RefuseUnauthenticated, TypeInv, TypeOK, NextLine, clientVars, peerVars,
           historyVars
<1>6. CASE PingBack
  <2>1. /\ NextLine /\ Handles({"ping"})
        /\ \E S \in SUBSET Descriptors : CloseConnection(S)
    BY <1>6, SendFailureType, HandledIsRead DEF PingBack
  <2>2. QED
    BY <1>6, <2>1, NextLineType, CloseConnectionType
       DEF PingBack, TypeInv, TypeOK, NextLine, peerVars, historyVars
<1>7. CASE CatchException
  <2>1. \E S \in SUBSET Descriptors : CloseConnection(S)
    BY <1>7, HandledIsRead DEF CatchException
  <2>2. << >> \in Seq(Lines)
    OBVIOUS
  <2>3. QED
    BY <1>7, <2>1, <2>2, CloseConnectionType
       DEF CatchException, TypeInv, TypeOK, LinesAreRead, clientVars, peerVars, historyVars
<1>8. QED
  BY <1>1, <1>2, <1>3, <1>4, <1>5, <1>6, <1>7 DEF Line
(* What one read leaves of an inbox, and the lines it returns. *)
LEMMA ReadType ==
    ASSUME TypeInv, NEW s \in Descriptors, Read(s)
    PROVE  TypeInv'
<1>1. PICK n \in 1 .. Len(inbox[s]) : \E last \in {inbox[s][n], Fragment} :
          /\ buffer' = Append(SubSeq(inbox[s], 1, n - 1), last)
          /\ inbox' = [inbox EXCEPT ![s] = SubSeq(@, n + 1, Len(@))]
  BY DEF Read
<1>2. inbox[s] \in Seq(Messages)
  BY DEF TypeInv, TypeOK
<1>3. /\ SubSeq(inbox[s], 1, n - 1) \in Seq(Messages)
      /\ SubSeq(inbox[s], n + 1, Len(inbox[s])) \in Seq(Messages)
      /\ inbox[s][n] \in Messages
  BY <1>2
<1>4. inbox[s][n] \in Lines /\ Fragment \in Lines /\ SubSeq(inbox[s], 1, n - 1) \in Seq(Lines)
  BY <1>3 DEF Lines
<1>5. buffer' \in Seq(Lines) /\ buffer' # << >>
  BY <1>1, <1>4
<1>6. inbox' \in [Descriptors -> Seq(Messages)]
  BY <1>1, <1>3 DEF TypeInv, TypeOK
<1>7. QED
  BY <1>5, <1>6, Numbers
     DEF Read, ComesTo, TypeInv, TypeOK, LinesAreRead, socketVars, clientVars, historyVars

(* The rest of a round keeps the types. *)
LEMMA RoundTypeInv ==
    ASSUME TypeInv, Round
    PROVE  TypeInv'
<1>1. CASE Select
  BY <1>1 DEF Select, TypeInv, TypeOK, LinesAreRead, Phases, socketVars, clientVars, peerVars,
              historyVars
<1>2. CASE Accept
  BY <1>2 DEF Accept, ComesTo, TypeInv, TypeOK, LinesAreRead, Sockets, clientVars, historyVars
<1>3. ASSUME NEW s \in Descriptors, ReadEnd(s) PROVE TypeInv'
  <2>1. CloseConnection({s})
    BY <1>3 DEF ReadEnd
  <2>2. QED
    BY <1>3, <2>1, CloseConnectionType
       DEF ReadEnd, ComesTo, TypeInv, TypeOK, LinesAreRead, clientVars, peerVars, historyVars
<1>4. ASSUME NEW s \in Descriptors, CloseSocket(s) PROVE TypeInv'
  <2>1. inbox' \in [Descriptors -> Seq(Messages)]
    <3>1. << >> \in Seq(Messages)
      OBVIOUS
    <3>2. QED
      BY <1>4, <3>1 DEF CloseSocket, Closed, TypeInv, TypeOK
  <2>2. clientSocket' \in [Usernames -> Descriptors \union {NoSocket}]
    BY <1>4 DEF CloseSocket, TypeInv, TypeOK
  <2>3. QED
    BY <1>4, <2>1, <2>2
       DEF CloseSocket, Closed, TypeInv, TypeOK, LinesAreRead, loopVars
<1>5. CASE EndRead
  BY <1>5 DEF EndRead, TypeInv, TypeOK, LinesAreRead, Phases, socketVars, clientVars, peerVars,
              historyVars
<1>6. ASSUME NEW c \in Usernames, TimeOut(c) PROVE TypeInv'
  <2>1. CloseConnection({clientSocket[c]}) /\ clientSocket[c] \in Descriptors
    BY <1>6 DEF TimeOut, TypeInv, TypeOK
  <2>2. QED
    BY <1>6, <2>1, CloseConnectionType
       DEF TimeOut, TypeInv, TypeOK, LinesAreRead, loopVars, clientVars, peerVars, historyVars
<1>7. ASSUME NEW c \in Usernames, ExpireClient(c) PROVE TypeInv'
  <2>1. Without(clients, {c}) \in Seq(Usernames)
    BY WithoutMembers DEF TypeInv, TypeOK
  <2>2. QED
    BY <1>7, <2>1
       DEF ExpireClient, TypeInv, TypeOK, LinesAreRead, loopVars, socketVars, peerVars, historyVars
<1>8. ASSUME NEW from \in Phases \ {"read"}, NEW to \in Phases, MovesOn(from, to),
             heard' \in SUBSET Usernames
      PROVE  TypeInv'
  BY <1>8 DEF MovesOn, TypeInv, TypeOK, LinesAreRead, socketVars, peerVars, historyVars
<1>9. CASE EndTimeOuts \/ EndErase \/ EndClose \/ HandleLobbies
  BY <1>8, <1>9 DEF EndTimeOuts, EndErase, EndClose, HandleLobbies, Phases, TypeInv, TypeOK
<1>10. QED
  BY <1>1, <1>2, <1>3, <1>4, <1>5, <1>6, <1>7, <1>9, ReadType, LineTypeInv DEF Round

LEMMA NextTypeInv == TypeInv /\ [Next]_vars => TypeInv'
<1>1. TypeInv /\ UNCHANGED vars => TypeInv'
  BY DEF TypeInv, TypeOK, LinesAreRead, vars, loopVars, socketVars, clientVars, peerVars,
         historyVars
<1>2. QED
  BY <1>1, PeersTypeInv, RoundTypeInv DEF Next

(* Whatever the peers send, close or leave undone, every variable of the   *)
(* server keeps its type, and lines are only ever handled for a descriptor *)
(* that is being read.                                                     *)
THEOREM TypeCorrect == Spec => []TypeOK
<1>1. TypeInv => TypeOK
  BY DEF TypeInv
<1>2. QED
  BY <1>1, InitTypeInv, NextTypeInv, PTL DEF Spec
-----------------------------------------------------------------------------
(* The descriptors.                                                        *)
(*                                                                         *)
(* That select is given the right ones is not inductive by itself: it      *)
(* depends on nothing being marked when a connection is accepted.          *)

(* The order of a round: what is looked at is open, marks are made in      *)
(* phase "read" at the earliest and only after the listening socket, the   *)
(* lowest one, was looked at; they are gone before the lobbies are         *)
(* handled.  A number that is free has no login.                           *)
RoundInOrder ==
    /\ phase # "read" => tests = {}
    /\ tests \subseteq open \union {masterSocket}
    /\ reading # NoSocket => reading \in open
    /\ phase \in {"lobbies", "select"} => socketsToClose = {}
    /\ masterSocket \in tests => socketsToClose = {} /\ reading = NoSocket
    /\ \A s \in Descriptors \ open : names[s] = {}

LoopInv == TypeInv /\ RoundInOrder

(* Some descriptors may be marked. *)
Marks == \E S \in SUBSET Descriptors : CloseConnection(S)

LEMMA UnchangedMarks ==
    ASSUME UNCHANGED socketVars
    PROVE  Marks
BY DEF Marks, CloseConnection, socketVars

(* What every line that is handled does to the loop. *)
LEMMA LineStep ==
    ASSUME TypeInv, Line
    PROVE  /\ phase = "read" /\ phase' = "read"
           /\ tests' = tests /\ open' = open
           /\ reading \in Descriptors /\ reading' \in {reading, NoSocket}
           /\ Marks
           /\ \A s \in Descriptors \ {reading} : names'[s] = names[s]
<1>1. /\ reading \in Descriptors /\ phase = "read"
      /\ clientSocket \in [Usernames -> Descriptors \union {NoSocket}]
      /\ names \in [Descriptors -> SUBSET Usernames]
  <2>1. \E kinds : Handles(kinds)
    BY DEF Line, RegisterClient, ReconnectClient, HandleRequest, HandleResponse, RefuseLogin,
           RefuseUnauthenticated, PingBack, CatchException
  <2>2. QED
    BY <2>1, HandledIsRead DEF TypeInv, TypeOK
<1>2. /\ tests' = tests /\ open' = open /\ phase' = phase
      /\ reading' \in {reading, NoSocket}
  BY DEF Line, RegisterClient, ReconnectClient, HandleRequest, HandleResponse, RefuseLogin,
         RefuseUnauthenticated, PingBack, CatchException, NextLine, peerVars
<1>3. Marks
  <2>1. ASSUME NEW failed \in SendFailure(reading) PROVE failed \subseteq Descriptors
    BY <1>1, SendFailureType
  <2>2. ASSUME NEW u \in Usernames, ReconnectClient(u) PROVE Marks
    <3>1. {clientSocket[u]} \ {NoSocket, reading} \subseteq Descriptors
      BY <1>1
    <3>2. PICK failed \in SendFailure(reading) :
            CloseConnection(({clientSocket[u]} \ {NoSocket, reading}) \union failed)
      BY <2>2 DEF ReconnectClient
    <3>3. QED
      BY <2>1, <3>1, <3>2 DEF Marks
  <2>3. ASSUME NEW c \in Usernames, HandleResponse(c) PROVE Marks
    BY <1>1, <2>3 DEF HandleResponse, Marks
  <2>4. ASSUME NEW c \in Usernames, RegisterClient(c) \/ HandleRequest(c) PROVE Marks
    BY <2>1, <2>4 DEF RegisterClient, HandleRequest, Marks
  <2>5. CASE RefuseLogin \/ RefuseUnauthenticated \/ CatchException
    BY <1>1, <2>5 DEF RefuseLogin, RefuseUnauthenticated, CatchException, Marks
  <2>6. CASE PingBack
    BY <2>1, <2>6 DEF PingBack, Marks
  <2>7. QED
    BY <2>2, <2>3, <2>4, <2>5, <2>6 DEF Line
<1>4. \A s \in Descriptors \ {reading} : names'[s] = names[s]
  BY <1>1 DEF Line, RegisterClient, ReconnectClient, HandleRequest, HandleResponse, RefuseLogin,
         RefuseUnauthenticated, PingBack, CatchException, LogsInAs, historyVars
<1>5. QED
  BY <1>1, <1>2, <1>3, <1>4

LEMMA InitLoopInv == Init => LoopInv
BY InitTypeInv DEF Init, LoopInv, RoundInOrder

(* Every step keeps the order of the round. *)
LEMMA NextRoundInOrder ==
    ASSUME LoopInv, [Next]_vars
    PROVE  RoundInOrder'
<1> USE DEF LoopInv, RoundInOrder
<1>1. TypeInv /\ TypeOK
  BY DEF TypeInv
<1>2. CASE UNCHANGED vars
  BY <1>2 DEF vars, loopVars, socketVars, peerVars, historyVars
<1>3. CASE Peers
  BY <1>3 DEF Peers, Connect, HangUp, Send, loopVars, socketVars, historyVars
<1>4. CASE Select
  <2>1. tests' \subseteq open \union {masterSocket}
    BY <1>4 DEF Select, Readable
  <2>2. reading = NoSocket
    BY <1>1, <1>4 DEF Select, TypeInv, LinesAreRead
  <2>3. QED
    BY <1>4, <2>1, <2>2 DEF Select, socketVars, peerVars, historyVars
<1>5. CASE Accept
  BY <1>1, <1>5, Numbers DEF Accept, ComesTo, historyVars, TypeOK
<1>6. ASSUME NEW s \in Descriptors, Read(s) \/ ReadEnd(s) PROVE RoundInOrder'
  <2>1. masterSocket \notin tests'
    <3>1. s \in tests /\ (\A t \in tests : s <= t) /\ tests' = tests \ {s}
      BY <1>6 DEF Read, ReadEnd, ComesTo
    <3>2. ~(s <= masterSocket)
      BY DescriptorsAssumption DEF masterSocket
    <3>3. QED
      BY <3>1, <3>2
  <2>2. s \in open /\ tests' \subseteq tests /\ phase = "read" /\ phase' = phase
    BY <1>6, Numbers DEF Read, ReadEnd, ComesTo
  <2>3. open' = open /\ names' = names /\ reading' \in {reading, s}
    BY <1>6 DEF Read, ReadEnd, ComesTo, peerVars, historyVars
  <2>4. QED
    BY <2>1, <2>2, <2>3
<1>7. CASE Line
  BY <1>1, <1>7, LineStep, Numbers DEF TypeOK
<1>8. ASSUME NEW s \in Descriptors, CloseSocket(s) PROVE RoundInOrder'
  <2>1. names \in [Descriptors -> SUBSET Usernames]
    BY <1>1 DEF TypeOK
  <2>2. tests = {} /\ reading = NoSocket
    BY <1>1, <1>8 DEF CloseSocket, TypeInv, LinesAreRead
  <2>3. QED
    BY <1>8, <2>1, <2>2 DEF CloseSocket, Closed, loopVars
<1>9. ASSUME NEW c \in Usernames, TimeOut(c) \/ ExpireClient(c) PROVE RoundInOrder'
  BY <1>9 DEF TimeOut, ExpireClient, loopVars, socketVars, peerVars, historyVars
<1>10. CASE EndRead
  BY <1>10 DEF EndRead, socketVars, peerVars, historyVars
<1>11. CASE EndTimeOuts \/ EndErase \/ EndClose \/ HandleLobbies
  BY <1>11 DEF EndTimeOuts, EndErase, EndClose, HandleLobbies, MovesOn, socketVars, peerVars,
               historyVars
<1>12. QED
  BY <1>2, <1>3, <1>4, <1>5, <1>6, <1>7, <1>8, <1>9, <1>10, <1>11 DEF Next, Round

LEMMA NextLoopInv == LoopInv /\ [Next]_vars => LoopInv'
BY NextRoundInOrder, NextTypeInv DEF LoopInv

(* select is given exactly the connections that are open and not marked.   *)
(* The one step at which a number enters the set, accept, comes at a       *)
(* moment of the round when nothing is marked.                             *)
THEOREM DescriptorsAreAccounted == Spec => []DescriptorsAccounted
<1> USE DEF DescriptorsAccounted
<1>1. Init => DescriptorsAccounted
  BY DEF Init
<1>2. LoopInv /\ DescriptorsAccounted /\ [Next]_vars => DescriptorsAccounted'
  <2> SUFFICES ASSUME LoopInv, DescriptorsAccounted, [Next]_vars
               PROVE  DescriptorsAccounted'
    OBVIOUS
  <2>1. TypeInv
    BY DEF LoopInv
  <2>2. ASSUME Marks, open' = open PROVE DescriptorsAccounted'
    BY <2>2 DEF Marks, CloseConnection
  <2>3. CASE UNCHANGED vars \/ Peers \/ Select \/ EndRead \/ EndTimeOuts \/ EndErase \/ EndClose
              \/ HandleLobbies
    BY <2>2, <2>3, UnchangedMarks
       DEF vars, peerVars, Peers, Connect, HangUp, Send, Select, EndRead, EndTimeOuts, EndErase,
           EndClose, HandleLobbies, MovesOn
  <2>4. CASE Accept
    <3>1. masterSocket \in tests
      BY <2>4 DEF Accept, ComesTo
    <3>2. socketsToClose = {}
      BY <3>1 DEF LoopInv, RoundInOrder
    <3>3. QED
      BY <2>4, <3>2 DEF Accept
  <2>5. ASSUME NEW s \in Descriptors, Read(s) \/ ReadEnd(s) PROVE DescriptorsAccounted'
    BY <2>2, <2>5, UnchangedMarks DEF Read, ReadEnd, peerVars, Marks
  <2>6. CASE Line
    BY <2>1, <2>2, <2>6, LineStep
  <2>7. ASSUME NEW s \in Descriptors, CloseSocket(s) PROVE DescriptorsAccounted'
    BY <2>7, Numbers DEF CloseSocket, Closed
  <2>8. ASSUME NEW c \in Usernames, TimeOut(c) \/ ExpireClient(c) PROVE DescriptorsAccounted'
    BY <2>1, <2>2, <2>8, UnchangedMarks
       DEF TimeOut, ExpireClient, peerVars, Marks, TypeInv, TypeOK
  <2>9. QED
    BY <2>3, <2>4, <2>5, <2>6, <2>7, <2>8 DEF Next, Round
<1>3. QED
  BY <1>1, <1>2, InitLoopInv, NextLoopInv, PTL DEF Spec
-----------------------------------------------------------------------------
(* The clients and their connections.                                      *)

(* A line with a login as u was handled. *)
Logs(u) ==
    /\ phase = "read" /\ phase' = "read"
    /\ clients' \in {clients, Append(clients, u)}
    /\ u \in Members(clients')
    /\ u \in Registered => clientSocket[u] \in socketsToClose' \union {NoSocket, reading}
    /\ reading \in Descriptors \intersect open
    /\ clientSocket' = [clientSocket EXCEPT ![u] = reading]
    /\ LogsInAs(reading, u)
    /\ open' = open
    /\ Marks

(* No client and no connection came or went. *)
Stays ==
    /\ UNCHANGED <<clients, clientSocket, open, names, mixed>>
    /\ Marks
    /\ \/ Part' = Part
       \/ Part = "read" /\ Part' = "forget"
       \/ Part = "forget" /\ Part' = "drop"
       \/ Part = "drop" /\ Part' = "serve"
       \/ Part = "serve" /\ Part' = "read"

(* What a step does to the clients and their connections, whichever of the *)
(* actions it is.                                                          *)
LEMMA StepEffect ==
    ASSUME LoopInv, [Next]_vars
    PROVE  \/ Stays
           \/ Accept
           \/ \E u \in Usernames : Logs(u) \/ ExpireClient(u)
           \/ \E s \in Descriptors : CloseSocket(s)
<1>1. TypeInv /\ TypeOK /\ RoundInOrder
  BY DEF LoopInv, TypeInv
<1>2. ASSUME UNCHANGED <<clients, clientSocket, open, names, mixed>>, Marks, phase' = phase
      PROVE  Stays
  BY <1>2 DEF Stays, Part
<1>3. CASE UNCHANGED vars \/ Peers
  BY <1>2, <1>3, UnchangedMarks
     DEF vars, loopVars, clientVars, peerVars, historyVars, Peers, Connect, HangUp, Send
<1>4. CASE Select \/ EndRead \/ EndTimeOuts \/ EndErase \/ EndClose \/ HandleLobbies
  BY <1>4, UnchangedMarks
     DEF Select, EndRead, EndTimeOuts, EndErase, EndClose, HandleLobbies, MovesOn, Stays, Part,
         clientVars, peerVars, historyVars
<1>5. ASSUME NEW s \in Descriptors, Read(s) \/ ReadEnd(s) PROVE Stays
  BY <1>2, <1>5, UnchangedMarks
     DEF Read, ReadEnd, ComesTo, Marks, clientVars, peerVars, historyVars
<1>6. ASSUME NEW c \in Usernames, TimeOut(c) PROVE Stays
  BY <1>1, <1>2, <1>6
     DEF TimeOut, Marks, TypeOK, loopVars, clientVars, peerVars, historyVars
<1>7. CASE Line
  <2>1. /\ phase = "read" /\ phase' = "read" /\ open' = open /\ Marks
        /\ reading \in Descriptors \intersect open
    BY <1>1, <1>7, LineStep, Numbers DEF RoundInOrder
  <2>2. ASSUME NEW u \in Usernames, RegisterClient(u) PROVE Logs(u)
    <3>1. /\ clients' = Append(clients, u) /\ u \notin Registered
          /\ clientSocket' = [clientSocket EXCEPT ![u] = reading]
          /\ LogsInAs(reading, u)
      BY <2>2 DEF RegisterClient, Registered
    <3>2. u \in Members(clients')
      BY <1>1, <3>1, AppendMembers DEF TypeOK
    <3>3. QED
      BY <2>1, <3>1, <3>2 DEF Logs
  <2>3. ASSUME NEW u \in Usernames, ReconnectClient(u) PROVE Logs(u)
    <3>1. /\ clients' = clients /\ u \in Members(clients)
          /\ clientSocket' = [clientSocket EXCEPT ![u] = reading]
          /\ LogsInAs(reading, u)
      BY <2>3 DEF ReconnectClient
    <3>2. clientSocket[u] \in socketsToClose' \union {NoSocket, reading}
      BY <2>3 DEF ReconnectClient, CloseConnection
    <3>3. QED
      BY <2>1, <3>1, <3>2 DEF Logs
  <2>4. ASSUME ~\E u \in Usernames : RegisterClient(u) \/ ReconnectClient(u) PROVE Stays
    BY <1>2, <1>7, <2>1, <2>4
       DEF Line, HandleRequest, HandleResponse, RefuseLogin, RefuseUnauthenticated, PingBack,
           CatchException, clientVars, historyVars
  <2>5. QED
    BY <2>2, <2>3, <2>4
<1>8. QED
  BY <1>3, <1>4, <1>5, <1>6, <1>7 DEF Next, Round

(* getClientBySocket finds a client of a descriptor that has one.          *)
LEMMA FirstClientExists ==
    ASSUME TypeOK, NEW s, NEW c \in Registered, clientSocket[c] = s
    PROVE  \E d \in Registered : IsClientBySocket(s, d) /\ clientSocket[d] = s
<1>1. ClientsAt(s) \in SUBSET Nat
  BY DEF ClientsAt, TypeOK
<1>2. ClientsAt(s) # {}
  BY DEF ClientsAt, Registered, Members
<1>3. PICK i \in ClientsAt(s) : \A j \in ClientsAt(s) : i <= j
  BY <1>1, <1>2, LeastNumber
<1>4. clients[i] \in Registered /\ clientSocket[clients[i]] = s
  BY <1>3 DEF ClientsAt, Registered, Members
<1>5. QED
  BY <1>3, <1>4 DEF IsClientBySocket

LEMMA FirstClientHasSocket ==
    ASSUME NEW s, NEW c, IsClientBySocket(s, c)
    PROVE  c \in Registered /\ clientSocket[c] = s
BY DEF IsClientBySocket, ClientsAt, Registered, Members

LEMMA FirstClientIsUnique ==
    ASSUME TypeOK, NEW s, NEW c, NEW d, IsClientBySocket(s, c), IsClientBySocket(s, d)
    PROVE  c = d
<1>1. ClientsAt(s) \subseteq Nat
  BY DEF ClientsAt, TypeOK
<1>2. PICK i \in ClientsAt(s) : c = clients[i] /\ \A j \in ClientsAt(s) : i <= j
  BY DEF IsClientBySocket
<1>3. PICK k \in ClientsAt(s) : d = clients[k] /\ \A j \in ClientsAt(s) : k <= j
  BY DEF IsClientBySocket
<1>4. i = k
  BY <1>1, <1>2, <1>3
<1>5. QED
  BY <1>2, <1>3, <1>4

LEMMA RegisteredType ==
    ASSUME TypeOK
    PROVE  Registered \subseteq Usernames
<1>1. \A i \in DOMAIN clients : clients[i] \in Usernames
  BY DEF TypeOK
<1>2. QED
  BY <1>1 DEF Registered, Members

(* Who is registered after a client was forgotten, or has logged in.       *)
LEMMA ExpireRegistered ==
    ASSUME TypeOK, NEW u \in Usernames, ExpireClient(u)
    PROVE  Registered' = Registered \ {u}
BY WithoutMembers DEF ExpireClient, Registered, TypeOK

LEMMA LogsRegistered ==
    ASSUME TypeOK, NEW u \in Usernames, Logs(u)
    PROVE  Registered' = Registered \union {u}
<1>1. clients \in Seq(Usernames) /\ u \in Members(clients')
  BY DEF Logs, TypeOK
<1>2. CASE clients' = clients
  BY <1>1, <1>2 DEF Registered
<1>3. CASE clients' = Append(clients, u)
  BY <1>1, <1>3, AppendMembers DEF Registered
<1>4. QED
  BY <1>2, <1>3 DEF Logs

(* A number that a client has is one it has logged in over, and nobody     *)
(* else has, as long as nobody logs in as two.                             *)
LEMMA ConnectionsStep ==
    ASSUME LoopInv, ClientsHaveTheirConnection, [Next]_vars
    PROVE  ClientsHaveTheirConnection'
<1>1. TypeOK /\ RoundInOrder
  BY DEF LoopInv, TypeInv
<1> SUFFICES ASSUME ~mixed', NEW c \in Registered', clientSocket'[c] # NoSocket
             PROVE  clientSocket'[c] \in open' /\ names'[clientSocket'[c]] = {c}
  BY DEF ClientsHaveTheirConnection
<1>2. ASSUME ~mixed, c \in Registered, clientSocket[c] # NoSocket
      PROVE  clientSocket[c] \in open /\ names[clientSocket[c]] = {c}
  BY <1>2 DEF ClientsHaveTheirConnection
<1>3. CASE Stays
  BY <1>2, <1>3 DEF Stays, Registered
<1>4. CASE Accept
  BY <1>2, <1>4 DEF Accept, clientVars, historyVars, Registered
<1>5. ASSUME NEW u \in Usernames, Logs(u)
      PROVE  clientSocket'[c] \in open' /\ names'[clientSocket'[c]] = {c}
  <2>1. /\ ~mixed /\ names[reading] \ {u} = {}
        /\ names' = [names EXCEPT ![reading] = @ \union {u}]
        /\ clientSocket' = [clientSocket EXCEPT ![u] = reading]
        /\ open' = open /\ reading \in Descriptors \intersect open
    BY <1>5 DEF Logs, LogsInAs
  <2>2. c \in Registered \union {u} /\ c \in Usernames
    BY <1>1, <1>5, LogsRegistered, RegisteredType
  <2>3. CASE c = u
    BY <1>1, <2>1, <2>3 DEF TypeOK
  <2>4. CASE c # u
    <3>1. clientSocket'[c] = clientSocket[c]
      BY <1>1, <2>1, <2>2, <2>4 DEF TypeOK
    <3>2. clientSocket[c] \in open /\ names[clientSocket[c]] = {c}
      BY <1>2, <2>1, <2>2, <2>4, <3>1
    <3>3. clientSocket[c] # reading
      BY <2>1, <2>4, <3>2
    <3>4. QED
      BY <1>1, <2>1, <3>1, <3>2, <3>3 DEF TypeOK
  <2>5. QED
    BY <2>3, <2>4
<1>6. ASSUME NEW u \in Usernames, ExpireClient(u)
      PROVE  clientSocket'[c] \in open' /\ names'[clientSocket'[c]] = {c}
  <2>1. c \in Registered /\ c # u /\ c \in Usernames
    BY <1>1, <1>6, ExpireRegistered, RegisteredType
  <2>2. clientSocket'[c] = clientSocket[c]
    BY <1>1, <1>6, <2>1 DEF ExpireClient, TypeOK
  <2>3. QED
    BY <1>2, <1>6, <2>1, <2>2 DEF ExpireClient, peerVars, historyVars
<1>7. ASSUME NEW s \in Descriptors, CloseSocket(s)
      PROVE  clientSocket'[c] \in open' /\ names'[clientSocket'[c]] = {c}
  <2>1. /\ c \in Registered /\ c \in Usernames /\ ~mixed
        /\ clientSocket'[c] = IF IsClientBySocket(s, c) THEN NoSocket ELSE clientSocket[c]
        /\ open' = open \ {s} /\ names' = [names EXCEPT ![s] = {}]
    BY <1>1, <1>7 DEF CloseSocket, Closed, Registered, Members, TypeOK
  <2>2. ~IsClientBySocket(s, c) /\ clientSocket'[c] = clientSocket[c]
    BY <2>1
  <2>3. clientSocket[c] # s
    <3> SUFFICES ASSUME clientSocket[c] = s PROVE FALSE
      OBVIOUS
    <3>1. PICK d \in Registered : IsClientBySocket(s, d) /\ clientSocket[d] = s
      BY <1>1, <2>1, FirstClientExists
    <3>2. names[s] = {c} /\ names[s] = {d}
      BY <1>2, <2>1, <2>2, <3>1 DEF ClientsHaveTheirConnection
    <3>3. QED
      BY <2>2, <3>1, <3>2
  <2>4. QED
    BY <1>1, <1>2, <2>1, <2>2, <2>3 DEF TypeOK
<1>8. QED
  BY <1>3, <1>4, <1>5, <1>6, <1>7, StepEffect

(* No client is sent to, heard or disconnected over a connection that is   *)
(* closed or somebody else's, however numbers are used again.              *)
THEOREM ConnectionsAreTheirs == Spec => []ClientsHaveTheirConnection
<1>1. Init => ClientsHaveTheirConnection
  BY DEF Init, ClientsHaveTheirConnection, Registered, Members
<1>2. QED
  BY <1>1, ConnectionsStep, InitLoopInv, NextLoopInv, PTL DEF Spec
(* A connection that was logged in over and is not marked has its client.  *)
(* In phase "select" nothing is marked, and every open connection has.     *)
LoginsHaveTheirClient ==
    ~mixed => \A s \in open \ socketsToClose : \A c \in names[s] :
        c \in Registered /\ clientSocket[c] = s

LEMMA LoginsStep ==
    ASSUME LoopInv, LoginsHaveTheirClient, [Next]_vars
    PROVE  LoginsHaveTheirClient'
<1>1. TypeOK /\ RoundInOrder
  BY DEF LoopInv, TypeInv
<1> SUFFICES ASSUME ~mixed', NEW s \in open' \ socketsToClose', NEW c \in names'[s]
             PROVE  c \in Registered' /\ clientSocket'[c] = s
  BY DEF LoginsHaveTheirClient
<1>2. ASSUME ~mixed, s \in open \ socketsToClose, c \in names[s]
      PROVE  c \in Registered /\ clientSocket[c] = s /\ c \in Usernames
  BY <1>1, <1>2, RegisteredType DEF LoginsHaveTheirClient
<1>3. CASE Stays
  BY <1>2, <1>3 DEF Stays, Marks, CloseConnection, Registered
<1>4. CASE Accept
  <2>1. s \in Descriptors /\ names' = names /\ socketsToClose' = socketsToClose
    BY <1>1, <1>4 DEF Accept, historyVars, TypeOK
  <2>2. s \in open
    BY <1>1, <2>1 DEF RoundInOrder
  <2>3. QED
    BY <1>2, <1>4, <2>1, <2>2 DEF Accept, clientVars, historyVars, Registered
<1>5. ASSUME NEW u \in Usernames, Logs(u) PROVE c \in Registered' /\ clientSocket'[c] = s
  <2>1. /\ ~mixed /\ names[reading] \ {u} = {}
        /\ names' = [names EXCEPT ![reading] = @ \union {u}]
        /\ clientSocket' = [clientSocket EXCEPT ![u] = reading]
        /\ u \in Registered => clientSocket[u] \in socketsToClose' \union {NoSocket, reading}
        /\ open' = open /\ reading \in Descriptors \intersect open
        /\ s \in open \ socketsToClose
    BY <1>5 DEF Logs, LogsInAs, Marks, CloseConnection
  <2>2. Registered' = Registered \union {u}
    BY <1>1, <1>5, LogsRegistered
  <2>3. CASE s = reading
    <3>1. c = u
      BY <1>1, <2>1, <2>3 DEF TypeOK
    <3>2. QED
      BY <1>1, <2>1, <2>2, <2>3, <3>1 DEF TypeOK
  <2>4. CASE s # reading
    <3>1. c \in names[s]
      BY <1>1, <2>1, <2>4 DEF TypeOK
    <3>2. c \in Registered /\ clientSocket[c] = s /\ c \in Usernames
      BY <1>2, <2>1, <3>1
    <3>3. s # NoSocket
      BY <1>1, <2>1, Numbers DEF TypeOK
    <3>4. c # u
      BY <2>1, <2>4, <3>2, <3>3
    <3>5. QED
      BY <1>1, <2>1, <2>2, <3>2, <3>4 DEF TypeOK
  <2>5. QED
    BY <2>3, <2>4
<1>6. ASSUME NEW u \in Usernames, ExpireClient(u)
      PROVE  c \in Registered' /\ clientSocket'[c] = s
  <2>1. c \in Registered /\ clientSocket[c] = s /\ c \in Usernames
    BY <1>2, <1>6 DEF ExpireClient, socketVars, peerVars, historyVars
  <2>2. s \notin socketsToClose /\ s # NoSocket
    BY <1>1, <1>6, Numbers DEF ExpireClient, socketVars, peerVars, TypeOK
  <2>3. c # u
    BY <1>6, <2>1, <2>2 DEF ExpireClient
  <2>4. QED
    BY <1>1, <1>6, <2>1, <2>3, ExpireRegistered DEF ExpireClient, TypeOK
<1>7. ASSUME NEW t \in Descriptors, CloseSocket(t)
      PROVE  c \in Registered' /\ clientSocket'[c] = s
  <2>1. /\ s # t /\ s \in open \ socketsToClose /\ c \in names[s]
        /\ ~mixed /\ Registered' = Registered
        /\ clientSocket' = [d \in Usernames |->
                              IF IsClientBySocket(t, d) THEN NoSocket ELSE clientSocket[d]]
    BY <1>1, <1>7 DEF CloseSocket, Closed, Registered, TypeOK
  <2>2. c \in Registered /\ clientSocket[c] = s /\ c \in Usernames
    BY <1>2, <2>1
  <2>3. ~IsClientBySocket(t, c)
    BY <2>1, <2>2, FirstClientHasSocket
  <2>4. QED
    BY <2>1, <2>2, <2>3
<1>8. QED
  BY <1>3, <1>4, <1>5, <1>6, <1>7, StepEffect

(* After a round no connection is left that was logged in over and whose   *)
(* client is gone or elsewhere.                                            *)
THEOREM NoneIsLeftBehind == Spec => []NoConnectionIsLeftBehind
<1>1. Init => LoginsHaveTheirClient
  BY DEF Init, LoginsHaveTheirClient
<1>2. LoopInv /\ LoginsHaveTheirClient => NoConnectionIsLeftBehind
  BY DEF LoopInv, RoundInOrder, LoginsHaveTheirClient, NoConnectionIsLeftBehind
<1>3. QED
  BY <1>1, <1>2, LoginsStep, InitLoopInv, NextLoopInv, PTL DEF Spec

(* Whoever was heard in a round is not disconnected for silence: the one   *)
(* whose silence it is has a connection of its own.                        *)
THEOREM HeardStay == Spec => TheHeardStayConnected
<1>1. Init => ClientsHaveTheirConnection
  BY DEF Init, ClientsHaveTheirConnection, Registered, Members
<1>2. LoopInv /\ LoopInv' /\ ClientsHaveTheirConnection /\ [Next]_vars
        => (~mixed => \A c \in Usernames : KeepsConnection(c))
  <2> SUFFICES ASSUME LoopInv, LoopInv', ClientsHaveTheirConnection, [Next]_vars, ~mixed,
                      NEW c \in Usernames, phase = "timeout",
                      c \in heard \intersect Registered, clientSocket[c] \notin socketsToClose,
                      clientSocket[c] \in socketsToClose'
               PROVE  FALSE
    BY DEF KeepsConnection
  <2>1. TypeOK /\ TypeOK' /\ TypeInv
    BY DEF LoopInv, TypeInv
  <2>2. clientSocket[c] # NoSocket
    BY <2>1, Numbers DEF TypeOK
  <2>3. PICK d \in Usernames : TimeOut(d)
    <3>1. ~Line
      BY <2>1, LineStep
    <3>2. QED
      BY <3>1
         DEF vars, loopVars, socketVars, Next, Peers, Connect, HangUp, Send, Round, Select, Accept,
             Read, ReadEnd, ComesTo, CloseSocket, EndRead, ExpireClient, EndTimeOuts, EndErase,
             EndClose, HandleLobbies, MovesOn
  <2>4. /\ d \in Registered /\ d # c /\ clientSocket[d] # NoSocket
        /\ socketsToClose' = socketsToClose \union {clientSocket[d]}
    BY <2>3 DEF TimeOut, CloseConnection, Registered
  <2>5. names[clientSocket[c]] = {c} /\ names[clientSocket[d]] = {d}
    BY <2>2, <2>4 DEF ClientsHaveTheirConnection
  <2>6. QED
    BY <2>4, <2>5
<1>3. QED
  BY <1>1, <1>2, ConnectionsStep, InitLoopInv, NextLoopInv, PTL DEF Spec, TheHeardStayConnected

-----------------------------------------------------------------------------
(* The loop over descriptors implements the sessions of module Sessions.   *)

SessionOf == [c \in Usernames |-> Status(c)]

LEMMA SessionUnchanged ==
    ASSUME clients' = clients, clientSocket' = clientSocket
    PROVE  SessionOf' = SessionOf
BY DEF SessionOf, Status, Registered

(* Every step is a step of a session, or of none. *)
LEMMA SessionStep ==
    ASSUME LoopInv, [Next]_vars
    PROVE  [Users!Next]_(Users!vars)
<1>1. TypeOK /\ RoundInOrder /\ NoSocket \notin Descriptors
  BY Numbers DEF LoopInv, TypeInv
<1>2. ASSUME Part' = Part, SessionOf' = SessionOf PROVE [Users!Next]_(Users!vars)
  BY <1>2 DEF Users!vars, SessionOf
<1>3. CASE Stays
  <2>1. SessionOf' = SessionOf
    BY <1>3, SessionUnchanged DEF Stays
  <2>2. CASE Part' = Part
    BY <1>2, <2>1, <2>2
  <2>3. CASE Part' # Part
    <3>1. Users!GoesOn
      BY <1>3, <2>1, <2>3 DEF Stays, Users!GoesOn, SessionOf
    <3>2. QED
      BY <3>1 DEF Users!Next
  <2>4. QED
    BY <2>2, <2>3
<1>4. CASE Accept
  BY <1>2, <1>4, SessionUnchanged DEF Accept, ComesTo, clientVars, Part
<1>5. ASSUME NEW u \in Usernames, Logs(u) PROVE [Users!Next]_(Users!vars)
  <2>1. Registered' = Registered \union {u}
    BY <1>1, <1>5, LogsRegistered
  <2>2. clientSocket' = [clientSocket EXCEPT ![u] = reading] /\ reading # NoSocket
    BY <1>1, <1>5 DEF Logs
  <2>3. Status(u)' = "online"
    BY <1>1, <2>1, <2>2 DEF Status, TypeOK
  <2>4. \A c \in Usernames \ {u} : Status(c)' = Status(c)
    BY <1>1, <2>1, <2>2 DEF Status, TypeOK
  <2>5. SessionOf' = [SessionOf EXCEPT ![u] = "online"]
    BY <2>3, <2>4 DEF SessionOf
  <2>6. Part = "read" /\ Part' = "read"
    BY <1>5 DEF Logs, Part
  <2>7. Users!Login(u)
    BY <2>5, <2>6 DEF Users!Login, Users!During, SessionOf
  <2>8. QED
    BY <2>7 DEF Users!Next
<1>6. ASSUME NEW u \in Usernames, ExpireClient(u) PROVE [Users!Next]_(Users!vars)
  <2>1. Registered' = Registered \ {u}
    BY <1>1, <1>6, ExpireRegistered
  <2>2. \A c \in Usernames \ {u} : clientSocket'[c] = clientSocket[c]
    BY <1>1, <1>6 DEF ExpireClient, TypeOK
  <2>3. Status(u)' = "unknown" /\ \A c \in Usernames \ {u} : Status(c)' = Status(c)
    BY <2>1, <2>2 DEF Status
  <2>4. SessionOf' = [SessionOf EXCEPT ![u] = "unknown"]
    BY <2>3 DEF SessionOf
  <2>5. Part = "forget" /\ Part' = "forget"
    BY <1>6 DEF ExpireClient, Part, loopVars
  <2>6. Users!Forget(u)
    BY <2>4, <2>5 DEF Users!Forget, Users!During, SessionOf
  <2>7. QED
    BY <2>6 DEF Users!Next
<1>7. ASSUME NEW s \in Descriptors, CloseSocket(s) PROVE [Users!Next]_(Users!vars)
  <2>1. Part = "drop" /\ Part' = "drop"
    BY <1>7 DEF CloseSocket, Part, loopVars
  <2>2. /\ Registered' = Registered
        /\ clientSocket' = [c \in Usernames |->
                              IF IsClientBySocket(s, c) THEN NoSocket ELSE clientSocket[c]]
    BY <1>7 DEF CloseSocket, Registered
  <2>3. CASE \E u \in Usernames : IsClientBySocket(s, u)
    <3>1. PICK u \in Usernames : IsClientBySocket(s, u)
      BY <2>3
    <3>2. u \in Registered /\ clientSocket[u] = s /\ s # NoSocket
      BY <1>1, <3>1, FirstClientHasSocket
    <3>3. \A c \in Usernames \ {u} : ~IsClientBySocket(s, c)
      BY <1>1, <3>1, FirstClientIsUnique
    <3>4. Status(u) = "online" /\ Status(u)' = "offline"
      BY <2>2, <3>1, <3>2 DEF Status
    <3>5. \A c \in Usernames \ {u} : Status(c)' = Status(c)
      BY <2>2, <3>3 DEF Status
    <3>6. SessionOf' = [SessionOf EXCEPT ![u] = "offline"] /\ SessionOf[u] = "online"
      BY <3>4, <3>5 DEF SessionOf
    <3>7. Users!Drop(u)
      BY <2>1, <3>6 DEF Users!Drop, Users!During, SessionOf
    <3>8. QED
      BY <3>7 DEF Users!Next
  <2>4. CASE ~\E u \in Usernames : IsClientBySocket(s, u)
    <3>1. clientSocket' = clientSocket
      BY <1>1, <2>2, <2>4 DEF TypeOK
    <3>2. SessionOf' = SessionOf
      BY <2>2, <3>1 DEF SessionOf, Status
    <3>3. QED
      BY <1>2, <2>1, <3>2
  <2>5. QED
    BY <2>3, <2>4
<1>8. QED
  BY <1>3, <1>4, <1>5, <1>6, <1>7, StepEffect

(* Whatever happens to descriptors, users come and go as module Sessions   *)
(* says: nobody is dropped before the end of the round, and nothing but a  *)
(* login brings anyone back.                                               *)
THEOREM ServerImplementsSessions == Spec => ServerKeepsSessions
<1>1. Init => Users!Init
  BY DEF Init, Users!Init, Part, Status, Registered, Members
<1>2. LoopInv /\ [Next]_vars => [Users!Next]_(Users!vars)
  BY SessionStep
<1>3. QED
  BY <1>1, <1>2, InitLoopInv, NextLoopInv, PTL DEF Spec, ServerKeepsSessions, Users!Spec
===============================================================================
