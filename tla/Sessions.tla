------------------------------ MODULE Sessions ------------------------------
(***************************************************************************)
(* What the server promises of the sessions of its users, without sockets, *)
(* messages or lobbies.  A user logs in, whether it has a session or not,  *)
(* while messages are read; it may be forgotten in the part of the round   *)
(* that follows, and lose its connection in the part after that.  No       *)
(* session changes while the lobbies are served.  Module Server and module *)
(* Lobby both implement it: Lobby may rely on Server for what it assumes   *)
(* of connections.                                                         *)
(***************************************************************************)
CONSTANT Users

VARIABLES
    step,   \* the part of the round: "read", "forget", "drop", "serve"
    status  \* of each user: "unknown", "online", "offline"

vars == <<step, status>>

Init ==
    /\ step = "read"
    /\ status = [u \in Users |-> "unknown"]

During(part) == step = part /\ step' = part

Login(u) ==
    /\ During("read")
    /\ status' = [status EXCEPT ![u] = "online"]

Forget(u) ==
    /\ During("forget")
    /\ status' = [status EXCEPT ![u] = "unknown"]

Drop(u) ==
    /\ During("drop")
    /\ status[u] = "online"
    /\ status' = [status EXCEPT ![u] = "offline"]

GoesOn ==
    /\ \/ step = "read" /\ step' = "forget"
       \/ step = "forget" /\ step' = "drop"
       \/ step = "drop" /\ step' = "serve"
       \/ step = "serve" /\ step' = "read"
    /\ UNCHANGED status

Next == GoesOn \/ \E u \in Users : Login(u) \/ Forget(u) \/ Drop(u)

Spec == Init /\ [][Next]_vars
=============================================================================
