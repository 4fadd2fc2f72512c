------------------------------- MODULE Tables -------------------------------
(***************************************************************************)
(* What the lobbies promise, without connections, messages, queues or      *)
(* rounds.  At each table bets are taken, and either called off or         *)
(* followed by a game of at least two seats; the seats stay as they are    *)
(* and each has its turn once, in order; only then come the results, and   *)
(* the table is cleared.  One table moves at a time and none disturbs      *)
(* another.  A house that closes leaves every table as it is.              *)
(***************************************************************************)
EXTENDS Integers, Sequences

CONSTANTS Players, TableIds

VARIABLES
    open,   \* FALSE once the house has closed
    stage,  \* of each table: "WAITING", "PREPARING", "IN_GAME", "FINISHED"
    seats,  \* the seats of its game, in the order of their turns
    turn    \* how many of them have had their turn

vars == <<open, stage, seats, turn>>

Init ==
    /\ open = TRUE
    /\ stage = [t \in TableIds |-> "WAITING"]
    /\ seats = [t \in TableIds |-> << >>]
    /\ turn = [t \in TableIds |-> 0]

(* Table t, while the house is open, goes from one stage to another. *)
Moves(t, from, to) ==
    /\ open /\ open' = TRUE
    /\ stage[t] = from
    /\ stage' = [stage EXCEPT ![t] = to]

TakeBets(t) == Moves(t, "WAITING", "PREPARING") /\ UNCHANGED <<seats, turn>>

Deal(t) ==
    /\ Moves(t, "PREPARING", "IN_GAME")
    /\ seats'[t] \in Seq(Players) /\ Len(seats'[t]) >= 2
    /\ seats' = [seats EXCEPT ![t] = seats'[t]]
    /\ turn' = [turn EXCEPT ![t] = 0]

CallOff(t) == Moves(t, "PREPARING", "WAITING") /\ UNCHANGED <<seats, turn>>

TakeTurn(t) ==
    /\ Moves(t, "IN_GAME", "IN_GAME")
    /\ turn[t] < Len(seats[t])
    /\ turn' = [turn EXCEPT ![t] = @ + 1]
    /\ UNCHANGED seats

ShowResults(t) ==
    /\ Moves(t, "IN_GAME", "FINISHED")
    /\ turn[t] = Len(seats[t])
    /\ UNCHANGED <<seats, turn>>

Clear(t) ==
    /\ Moves(t, "FINISHED", "WAITING")
    /\ seats' = [seats EXCEPT ![t] = << >>]
    /\ turn' = [turn EXCEPT ![t] = 0]

Close == open /\ open' = FALSE /\ UNCHANGED <<stage, seats, turn>>

Step(t) ==
    TakeBets(t) \/ Deal(t) \/ CallOff(t) \/ TakeTurn(t) \/ ShowResults(t) \/ Clear(t)

Next == Close \/ \E t \in TableIds : Step(t)

Spec == Init /\ [][Next]_vars

(* One game by itself: it is dealt once, and then only turns are taken. *)
OneGame == [][\E t \in TableIds : Deal(t) \/ TakeTurn(t)]_vars
=============================================================================
