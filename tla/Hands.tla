-------------------------------- MODULE Hands --------------------------------
(***************************************************************************)
(* What a hand is worth and what a bet wins: Card, PlayerInfo and the      *)
(* results of GameMessageHandler.  Nothing in them looks at suits or at    *)
(* the order of the cards, so a hand is how many cards of each rank it     *)
(* holds.                                                                  *)
(***************************************************************************)
EXTENDS Integers, FiniteSetsExt, Functions

CONSTANT Ranks  \* bound: the ranks that come up in the deck

rankValues ==
    [ACE |-> 1, TWO |-> 2, THREE |-> 3, FOUR |-> 4, FIVE |-> 5, SIX |-> 6, SEVEN |-> 7,
     EIGHT |-> 8, NINE |-> 9, TEN |-> 10, JACK |-> 10, QUEEN |-> 10, KING |-> 10]

ASSUME RanksAssumption == Ranks \subseteq DOMAIN rankValues

ACE_SOFT_VALUE == 11
BLACKJACK == 21
DEALER_MAX_DRAW_SUM == 17
MIN_BET == 1000
MAX_BET == 10000

AllHands == [Ranks -> Nat]
EmptyHand == [r \in Ranks |-> 0]
AddCard(hand, r) == [hand EXCEPT ![r] = @ + 1]
Size(hand) == SumFunctionOnSet(hand, Ranks)

Counted(hand, values) == SumFunctionOnSet([r \in Ranks |-> hand[r] * values[r]], Ranks)

getHardHandValue(hand) == Counted(hand, rankValues)

(* Every ace counts 11. *)
softValues == [rankValues EXCEPT !["ACE"] = ACE_SOFT_VALUE]
getSoftHandValue(hand) == Counted(hand, softValues)

handContainsRank(hand, r) == r \in Ranks /\ hand[r] > 0

hasBlackjack(hand) ==
    /\ Size(hand) = 2
    /\ handContainsRank(hand, "ACE")
    /\ \E r \in {"TEN", "JACK", "QUEEN", "KING"} : handContainsRank(hand, r)

isBusted(hand) == getHardHandValue(hand) > BLACKJACK

getTotal(hand) ==
    IF getSoftHandValue(hand) > BLACKJACK
    THEN getHardHandValue(hand) ELSE getSoftHandValue(hand)

(* What GameController::addConfirmedClient makes of the bet asked for. *)
AcceptedBet(asked) == IF asked < MIN_BET \/ asked > MAX_BET THEN MIN_BET ELSE asked

(* Two and a half times the bet, cut to an int. *)
TwoAndAHalf(bet) == (5 * bet) \div 2

(* Faults: the dealer is looked at first; only the totals are looked at.   *)
AmountWon_DealerFirst(player, dealer, bet) ==
    IF isBusted(dealer) THEN 2 * bet
    ELSE IF ~isBusted(player) /\ getTotal(player) > getTotal(dealer) THEN 2 * bet ELSE 0
AmountWon_TotalsOnly(player, dealer, bet) ==
    IF isBusted(player) THEN 0
    ELSE IF isBusted(dealer) \/ getTotal(player) > getTotal(dealer) THEN 2 * bet ELSE 0

(* GameMessageHandler::getSerializedGameResult, for one player. *)
AmountWon(player, dealer, bet) ==
    IF isBusted(player) THEN 0
    ELSE IF isBusted(dealer) THEN IF hasBlackjack(player) THEN TwoAndAHalf(bet) ELSE 2 * bet
    ELSE IF hasBlackjack(player)
         THEN IF hasBlackjack(dealer) THEN bet ELSE TwoAndAHalf(bet)
    ELSE IF getTotal(player) > getTotal(dealer) THEN 2 * bet ELSE 0
=============================================================================
