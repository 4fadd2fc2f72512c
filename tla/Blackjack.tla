------------------------------ MODULE Blackjack ------------------------------
(***************************************************************************)
(* One game at the level of the cards: Blackjack, Deck, Dealer and the     *)
(* PlayerInfo of each client.  A client that has confirmed more than one   *)
(* bet sits at several seats and has one hand, one bet and one hit flag    *)
(* for all of them.  Which rank comes off the shuffled deck is a choice.   *)
(*                                                                         *)
(* Turns that come when the game is over are left to module Lobby: they    *)
(* read past the end of players.                                           *)
(***************************************************************************)
EXTENDS Hands, Sequences, SequencesExt

CONSTANTS
    Clients,
    Copies,    \* cards of each rank in the deck
    MaxSeats,  \* bound: bets in one game
    AskedBets  \* bound: the bets that clients ask for

ASSUME DeckAssumption == Copies \in Nat \ {0}
ASSUME SeatsAssumption == MaxSeats \in Nat
ASSUME AskedBetsAssumption == AskedBets \subseteq Nat
ASSUME ClientsAssumption == IsFiniteSet(Clients)

VARIABLES
    players,             \* the seats, in the order of their turns
    currentPlayerIndex,  \* 0-based
    gameRunning,
    dealt,               \* dealCards has been called
    hand, bet, hit,      \* PlayerInfo of each client
    dealer,              \* the dealer's hand
    deck,                \* what is left of each rank
    turnShown            \* the last turn that the players were told of

vars == <<players, currentPlayerIndex, gameRunning, dealt, hand, bet, hit, dealer, deck,
          turnShown>>

NoTurn == [client |-> "none", turnType |-> "none", result |-> "none"]

ASSUME NoTurnAssumption == NoTurn.client \notin Clients

(* The constructor, called with the clients that have bet, of whom there   *)
(* are two or more.                                                        *)
Init ==
    /\ players \in {s \in BoundedSeq(Clients, MaxSeats) : Len(s) >= 2}
    /\ currentPlayerIndex = 0
    /\ gameRunning = TRUE
    /\ dealt = FALSE
    /\ hand = [c \in Clients |-> EmptyHand]
    /\ bet \in [Clients -> {AcceptedBet(asked) : asked \in AskedBets}]
    /\ hit = [c \in Clients |-> FALSE]
    /\ dealer = EmptyHand
    /\ deck = [r \in Ranks |-> Copies]
    /\ turnShown = NoTurn

Seats(c) == {i \in DOMAIN players : players[i] = c}

CardPairs == {h \in [Ranks -> 0 .. 2] : Size(h) = 2}

(* dealCards; the dealer's pair is pairs[0]. *)
DealCards ==
    /\ ~dealt
    /\ dealt' = TRUE
    /\ \E pairs \in [0 .. Len(players) -> CardPairs] :
          LET drawn(seats, r) == SumFunctionOnSet([i \in seats |-> pairs[i][r]], seats)
          IN  /\ deck' = [r \in Ranks |-> deck[r] - drawn(DOMAIN pairs, r)]
              /\ \A r \in Ranks : deck'[r] >= 0
              /\ hand' = [c \in Clients |-> [r \in Ranks |-> drawn(Seats(c), r)]]
              /\ dealer' = pairs[0]
    /\ UNCHANGED <<players, currentPlayerIndex, gameRunning, bet, hit, turnShown>>

(* Fault: any card may come, whether it is still there or not. *)
OnTop_Any(d) == DOMAIN d

(* The card that getTop may return. *)
OnTop(d) == {r \in Ranks : d[r] > 0}

(* The pairs of a dealer's hand and a deck that d draws can lead to while  *)
(* the soft value stays below DEALER_MAX_DRAW_SUM.                         *)
DealerDraws(h, d) ==
    LET mustDraw(x) == getSoftHandValue(x[1]) < DEALER_MAX_DRAW_SUM
        after[n \in 0 .. DEALER_MAX_DRAW_SUM] ==
            IF n = 0 THEN {<<h, d>>}
            ELSE UNION {{<<AddCard(x[1], r), [x[2] EXCEPT ![r] = @ - 1]>> : r \in OnTop(x[2])} :
                           x \in {y \in after[n - 1] : mustDraw(y)}}
    IN  {x \in UNION {after[n] : n \in DOMAIN after} : ~mustDraw(x)}

(* Faults: the dealer looks at cards without taking them off the deck; the *)
(* dealer draws at every move.                                             *)
MoveToNextPlayer_DealerPeeks(d) ==
    /\ currentPlayerIndex' = currentPlayerIndex + 1
    /\ gameRunning' = (currentPlayerIndex' # Len(players))
    /\ deck' = d
    /\ IF gameRunning' THEN dealer' = dealer
       ELSE \E after \in DealerDraws(dealer, d) : dealer' = after[1]
MoveToNextPlayer_DealerEachTime(d) ==
    /\ currentPlayerIndex' = currentPlayerIndex + 1
    /\ gameRunning' = (currentPlayerIndex' # Len(players))
    /\ \E after \in DealerDraws(dealer, d) : dealer' = after[1] /\ deck' = after[2]

(* Fault: the index is set back for the next game. *)
MoveToNextPlayer_StartsOver(d) ==
    /\ currentPlayerIndex' = (currentPlayerIndex + 1) % Len(players)
    /\ gameRunning' = (currentPlayerIndex' # 0)
    /\ IF gameRunning' THEN dealer' = dealer /\ deck' = d
       ELSE \E after \in DealerDraws(dealer, d) : dealer' = after[1] /\ deck' = after[2]

(* moveToNextPlayer and dealerPlay, with d the deck at this point. *)
MoveToNextPlayer(d) ==
    /\ currentPlayerIndex' = currentPlayerIndex + 1
    /\ gameRunning' = (currentPlayerIndex' # Len(players))
    /\ IF gameRunning' THEN dealer' = dealer /\ deck' = d
       ELSE \E after \in DealerDraws(dealer, d) : dealer' = after[1] /\ deck' = after[2]

IsTurnOf(c) == dealt /\ gameRunning /\ players[currentPlayerIndex + 1] = c

(* drawCard, as far as the player goes; r is taken off the deck. *)
DrawCard(c, r) ==
    /\ r \in OnTop(deck)
    /\ hand' = [hand EXCEPT ![c] = AddCard(@, r)]
DeckWithout(r) == [deck EXCEPT ![r] = @ - 1]

StaysAt(d) == deck' = d /\ UNCHANGED <<currentPlayerIndex, gameRunning, dealer>>

(* Fault: the cases of a hit are tested first. *)
SendPlayerTurnResult_HitFirst(c, result) ==
    turnShown' = [client |-> c,
                  turnType |-> IF result = "stand" THEN "stand" ELSE "hit",
                  result |-> IF result \in {"busted", "doubleBusted"} THEN "busted" ELSE "ok"]

(* sendPlayerTurnResult to every player: a TurnResult without a card is a  *)
(* stand, any other is shown by its result.                                *)
SendPlayerTurnResult(c, result) ==
    turnShown' = [client |-> c,
                  turnType |-> CASE result = "stand" -> "stand"
                                 [] result \in {"busted", "ok"} -> "hit"
                                 [] result \in {"doubleBusted", "doubleOk"} -> "doubleDown",
                  result |-> IF result \in {"busted", "doubleBusted"} THEN "busted" ELSE "ok"]

(* sendPlayerSkipped. *)
SendPlayerSkipped(c) ==
    turnShown' = [client |-> c, turnType |-> "skip", result |-> "ok"]

(* Fault: the turn stays with a player that is busted. *)
HandleHit_KeepsTurn(c) ==
    /\ IsTurnOf(c)
    /\ \E r \in Ranks : DrawCard(c, r) /\ StaysAt(DeckWithout(r))
    /\ hit' = [hit EXCEPT ![c] = TRUE]
    /\ SendPlayerTurnResult(c, IF isBusted(hand'[c]) THEN "busted" ELSE "ok")
    /\ UNCHANGED <<players, dealt, bet>>

HandleHit(c) ==
    /\ IsTurnOf(c)
    /\ \E r \in Ranks :
          /\ DrawCard(c, r)
          /\ IF isBusted(hand'[c]) THEN MoveToNextPlayer(DeckWithout(r)) ELSE StaysAt(DeckWithout(r))
    /\ hit' = [hit EXCEPT ![c] = TRUE]
    /\ SendPlayerTurnResult(c, IF isBusted(hand'[c]) THEN "busted" ELSE "ok")
    /\ UNCHANGED <<players, dealt, bet>>

(* What handleStand does, for the client or for skipPlayer. *)
Stand(c) ==
    /\ IsTurnOf(c)
    /\ MoveToNextPlayer(deck)
    /\ UNCHANGED <<players, dealt, hand, bet, hit>>

HandleStand(c) == Stand(c) /\ SendPlayerTurnResult(c, "stand")

(* skipPlayer, when the time limit has expired or the player has left. *)
SkipPlayer(c) == Stand(c) /\ SendPlayerSkipped(c)

Double(c) ==
    /\ IsTurnOf(c)
    /\ bet' = [bet EXCEPT ![c] = 2 * @]
    /\ \E r \in Ranks : DrawCard(c, r) /\ MoveToNextPlayer(DeckWithout(r))
    /\ SendPlayerTurnResult(c, IF isBusted(hand'[c]) THEN "doubleBusted" ELSE "doubleOk")
    /\ UNCHANGED <<players, dealt, hit>>

(* Fault: a double down is taken after a hit. *)
HandleDoubleDown_AfterHit(c) == Double(c)

(* handleDoubleDown; after a hit it is refused. *)
HandleDoubleDown(c) == ~hit[c] /\ Double(c)

GameOver == dealt /\ ~gameRunning /\ UNCHANGED vars

Next ==
    \/ DealCards
    \/ \E c \in Clients :
          HandleHit(c) \/ HandleStand(c) \/ SkipPlayer(c) \/ HandleDoubleDown(c)
    \/ GameOver

Spec == Init /\ [][Next]_vars

-----------------------------------------------------------------------------
(* Every variable keeps its type; the deck never runs below zero. *)
TypeOK ==
    /\ players \in Seq(Clients)
    /\ currentPlayerIndex \in 0 .. Len(players)
    /\ gameRunning \in BOOLEAN /\ dealt \in BOOLEAN
    /\ hand \in [Clients -> AllHands] /\ dealer \in AllHands
    /\ bet \in [Clients -> Nat] /\ hit \in [Clients -> BOOLEAN]
    /\ deck \in [Ranks -> 0 .. Copies]
    /\ turnShown.client \in Clients \union {NoTurn.client}
    /\ turnShown.turnType \in {"none", "hit", "stand", "doubleDown", "skip"}
    /\ turnShown.result \in {"none", "ok", "busted"}

(* Each card is in one place: on the deck or in one hand, whichever way    *)
(* the players and the dealer draw.                                        *)
CardsAreInOnePlace ==
    \A r \in Ranks :
        deck[r] + dealer[r] + SumFunction([c \in Clients |-> hand[c][r]]) = Copies

(* The game runs exactly until the last seat has had its turn, the dealer  *)
(* draws only then, and stops below 17 never.                              *)
DealerPlaysLast ==
    /\ gameRunning <=> currentPlayerIndex < Len(players)
    /\ gameRunning /\ dealt => Size(dealer) = 2
    /\ ~gameRunning => getSoftHandValue(dealer) >= DEALER_MAX_DRAW_SUM

SitsOnce(c) == Cardinality(Seats(c)) = 1

(* getTop is never asked for a card that is not there: while turns are     *)
(* left no order of hits and double downs uses up the deck.                *)
DeckLasts == gameRunning => \E r \in Ranks : deck[r] > 0

(* A deck that cannot run out: a seat leaves its client at most 21 when it *)
(* could still be played and one card more when it could not, and the      *)
(* dealer has two cards.  The 52 cards count 340: enough for ten seats.    *)
EnoughCards == getHardHandValue([r \in Ranks |-> Copies]) > 31 * MaxSeats + 20

(* Players are not told whose turn it is after a turn that was played: but *)
(* from the turn they are shown they can tell.  It is over unless it was a *)
(* hit within 21.                                                          *)
TheTurnCanBeFollowed ==
    \A c \in Clients :
        SitsOnce(c) /\ turnShown.client = c =>
            /\ IsTurnOf(c) <=> turnShown.turnType = "hit" /\ turnShown.result = "ok"
            /\ turnShown.result = "busted" => isBusted(hand[c])
            /\ turnShown.turnType = "doubleDown" => Size(hand[c]) = 3

(* The game as module Lobby and module Tables have it, without cards.      *)
Table ==
    INSTANCE Tables WITH
        Players <- Clients, TableIds <- {0}, open <- TRUE,
        stage <- [t \in {0} |-> IF dealt THEN "IN_GAME" ELSE "PREPARING"],
        seats <- [t \in {0} |-> IF dealt THEN players ELSE << >>],
        turn <- [t \in {0} |-> currentPlayerIndex]

(* However the cards fall, the seats stay and each has its turn once and   *)
(* in order: the game with its cards is a game of Tables.                  *)
PlaysAsATable == Table!OneGame

(* A client with one seat that goes over 21 draws no further card: its     *)
(* turn has passed for good.                                               *)
BustedDrawNoMore ==
    [][\A c \in Clients :
          SitsOnce(c) /\ isBusted(hand[c]) => hand'[c] = hand[c]
      ]_vars

(* A bet is doubled once, for exactly one more card, and ends the turn:    *)
(* the client does not go on with twice the bet.                           *)
DoubledOnThreeCards ==
    [][\A c \in Clients :
          SitsOnce(c) /\ bet'[c] # bet[c] =>
              /\ bet'[c] = 2 * bet[c]
              /\ Size(hand[c]) = 2 /\ Size(hand'[c]) = 3
              /\ ~ IsTurnOf(c)'
      ]_vars

(* Nobody is paid for less than a better hand than the dealer's: a dealer  *)
(* who is busted does not save a busted player, and only a blackjack wins  *)
(* against an equal total.                                                 *)
WinnersBeatTheDealer ==
    ~gameRunning =>
        \A c \in ToSet(players) :
            AmountWon(hand[c], dealer, bet[c]) > 0 =>
                /\ ~isBusted(hand[c])
                /\ \/ isBusted(dealer)
                   \/ getTotal(hand[c]) > getTotal(dealer)
                   \/ hasBlackjack(hand[c]) /\ getTotal(hand[c]) = getTotal(dealer)

(* A blackjack is worth the bet at least, whatever the dealer drew. *)
BlackjackKeepsTheBet ==
    ~gameRunning =>
        \A c \in ToSet(players) :
            hasBlackjack(hand[c]) => AmountWon(hand[c], dealer, bet[c]) >= bet[c]

-----------------------------------------------------------------------------
(* What comments say and the code does not do. *)

(* PlayerInfo.h:109: getTotal is the value closest to 21 that does not     *)
(* exceed it.  The code counts either every ace as 11 or every ace as 1.   *)
TotalIsClosestTo21 ==
    LET totals(h) == {getHardHandValue(h) + 10 * n :
                         n \in 0 .. (IF "ACE" \in Ranks THEN h["ACE"] ELSE 0)}
        fitting(h) == {t \in totals(h) : t <= BLACKJACK}
    IN  \A c \in ToSet(players) :
            fitting(hand[c]) # {} => getTotal(hand[c]) = Max(fitting(hand[c]))
=============================================================================
