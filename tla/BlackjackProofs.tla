--------------------------- MODULE BlackjackProofs ---------------------------
(***************************************************************************)
(* Theorems about a game with its cards, for any clients, any number of    *)
(* seats, any deck and any bets: that it is one game of module Tables,     *)
(* that no card is lost or doubled, and what follows for the players.      *)
(***************************************************************************)
EXTENDS Blackjack, HandsProofs

(* The game runs while there are seats whose turn is still to come.        *)
TurnInv ==
    /\ players \in Seq(Clients) /\ Len(players) >= 2 /\ Len(players) <= MaxSeats
    /\ currentPlayerIndex \in 0 .. Len(players)
    /\ gameRunning \in BOOLEAN /\ (gameRunning <=> currentPlayerIndex # Len(players))
    /\ dealt \in BOOLEAN
    /\ ~dealt => currentPlayerIndex = 0

LEMMA InitTurnInv == Init => TurnInv
<1> SUFFICES ASSUME Init PROVE TurnInv
  OBVIOUS
<1>1. PICK m \in 0 .. MaxSeats : players \in [1 .. m -> Clients]
  BY DEF Init, BoundedSeq, SeqOf
<1>2. m \in Nat /\ players \in Seq(Clients)
  BY <1>1, SeatsAssumption
<1>3. /\ Len(players) >= 2 /\ Len(players) <= MaxSeats
      /\ currentPlayerIndex = 0 /\ gameRunning = TRUE /\ dealt = FALSE
  BY <1>1, <1>2, SeatsAssumption DEF Init
<1>4. Len(players) \in Nat
  BY <1>2
<1>5. 0 \in 0 .. Len(players) /\ 0 # Len(players)
  BY <1>3, <1>4
<1>6. QED
  BY <1>2, <1>3, <1>5 DEF TurnInv

(* The seats of the game, and the turn that is taken in a step. *)
Moves == /\ currentPlayerIndex' = currentPlayerIndex + 1
         /\ gameRunning' \in BOOLEAN /\ (gameRunning' <=> currentPlayerIndex' # Len(players))
Remains == UNCHANGED <<currentPlayerIndex, gameRunning>>

(* Whatever is drawn, a step of a player takes the turn or leaves it.      *)
LEMMA PlayStep ==
    ASSUME NEW c, HandleHit(c) \/ HandleStand(c) \/ SkipPlayer(c) \/ HandleDoubleDown(c)
    PROVE  /\ dealt /\ gameRunning
           /\ UNCHANGED <<players, dealt>>
           /\ Moves \/ Remains
<1>1. ASSUME NEW d, MoveToNextPlayer(d) PROVE Moves
  BY <1>1 DEF MoveToNextPlayer, Moves
<1>2. CASE HandleHit(c)
  BY <1>1, <1>2 DEF HandleHit, IsTurnOf, StaysAt, Remains
<1>3. CASE HandleStand(c) \/ SkipPlayer(c)
  BY <1>1, <1>3 DEF HandleStand, SkipPlayer, Stand, IsTurnOf
<1>4. CASE HandleDoubleDown(c)
  BY <1>1, <1>4 DEF HandleDoubleDown, Double, IsTurnOf
<1>5. QED
  BY <1>2, <1>3, <1>4

(* What each step is to the turns. *)
LEMMA StepKind ==
    ASSUME [Next]_vars
    PROVE  \/ UNCHANGED <<players, dealt, currentPlayerIndex, gameRunning>>
           \/ /\ ~dealt /\ dealt' = TRUE
              /\ UNCHANGED <<players, currentPlayerIndex, gameRunning>>
           \/ dealt /\ gameRunning /\ Moves /\ UNCHANGED <<players, dealt>>
<1>1. CASE UNCHANGED vars \/ GameOver
  BY <1>1 DEF GameOver, vars
<1>2. CASE DealCards
  BY <1>2 DEF DealCards
<1>3. CASE \E c \in Clients :
          HandleHit(c) \/ HandleStand(c) \/ SkipPlayer(c) \/ HandleDoubleDown(c)
  BY <1>3, PlayStep DEF Remains
<1>4. QED
  BY <1>1, <1>2, <1>3 DEF Next

LEMMA NextTurnInv == TurnInv /\ [Next]_vars => TurnInv'
<1> SUFFICES ASSUME TurnInv, [Next]_vars PROVE TurnInv'
  OBVIOUS
<1>1. CASE dealt /\ gameRunning /\ Moves /\ UNCHANGED <<players, dealt>>
  <2>1. Len(players) \in Nat /\ currentPlayerIndex < Len(players)
    BY <1>1 DEF TurnInv
  <2>2. currentPlayerIndex' \in 0 .. Len(players)
    BY <1>1, <2>1 DEF TurnInv, Moves
  <2>3. QED
    BY <1>1, <2>2 DEF TurnInv, Moves
<1>2. CASE UNCHANGED <<players, dealt, currentPlayerIndex, gameRunning>>
  BY <1>2 DEF TurnInv
<1>3. CASE /\ ~dealt /\ dealt' = TRUE
           /\ UNCHANGED <<players, currentPlayerIndex, gameRunning>>
  BY <1>3 DEF TurnInv
<1>4. QED
  BY <1>1, <1>2, <1>3, StepKind

(* However the cards fall, dealing and each turn are a deal and a turn at  *)
(* the table, and a hit within 21 is none.                                 *)
LEMMA StepMaps ==
    ASSUME TurnInv, [Next]_vars
    PROVE  [\E t \in {0} : Table!Deal(t) \/ Table!TakeTurn(t)]_(Table!vars)
<1>1. CASE UNCHANGED <<players, dealt, currentPlayerIndex, gameRunning>>
  BY <1>1 DEF Table!vars
<1>2. CASE /\ ~dealt /\ dealt' = TRUE
           /\ UNCHANGED <<players, currentPlayerIndex, gameRunning>>
  <2>1. Table!Deal(0)
    BY <1>2 DEF TurnInv, Table!Deal, Table!Moves
  <2>2. QED
    BY <2>1
<1>3. CASE dealt /\ gameRunning /\ Moves /\ UNCHANGED <<players, dealt>>
  <2>1. currentPlayerIndex < Len(players)
    BY <1>3 DEF TurnInv
  <2>2. Table!TakeTurn(0)
    BY <1>3, <2>1 DEF TurnInv, Moves, Table!TakeTurn, Table!Moves
  <2>3. QED
    BY <2>2
<1>4. QED
  BY <1>1, <1>2, <1>3, StepKind

(* The seats of a game stay and each has its turn once and in order,       *)
(* whatever is drawn, doubled or skipped.                                  *)
THEOREM GameIsATable == Spec => PlaysAsATable
<1>1. TurnInv /\ [Next]_vars
        => [\E t \in {0} : Table!Deal(t) \/ Table!TakeTurn(t)]_(Table!vars)
  BY StepMaps
<1>2. QED
  BY <1>1, InitTurnInv, NextTurnInv, PTL DEF Spec, PlaysAsATable, Table!OneGame

-----------------------------------------------------------------------------
(* What the dealer draws. *)

MustDraw(x) == getSoftHandValue(x[1]) < DEALER_MAX_DRAW_SUM

OneMore(X) ==
    UNION {{<<AddCard(x[1], r), [x[2] EXCEPT ![r] = @ - 1]>> : r \in OnTop(x[2])} :
              x \in {y \in X : MustDraw(y)}}

(* F is the recursive function in the definition of DealerDraws. *)
IsAfter(F, h, d) ==
    F = [n \in 0 .. DEALER_MAX_DRAW_SUM |-> IF n = 0 THEN {<<h, d>>} ELSE OneMore(F[n - 1])]

(* There is such a function. *)
LEMMA AfterExists ==
    ASSUME NEW h, NEW d
    PROVE  \E F : IsAfter(F, h, d)
<1> DEFINE Body(F, n) == IF n = 0 THEN {<<h, d>>} ELSE OneMore(F[n - 1])
           Good(m) == \E F : F = [n \in 0 .. m |-> Body(F, n)]
           P == {m \in 0 .. DEALER_MAX_DRAW_SUM : Good(m)}
<1>0. DEALER_MAX_DRAW_SUM \in Nat
  BY DEF DEALER_MAX_DRAW_SUM
<1>1. 0 \in P
  <2> DEFINE F == [n \in 0 .. 0 |-> {<<h, d>>}]
  <2>1. F = [n \in 0 .. 0 |-> Body(F, n)]
    OBVIOUS
  <2>2. Good(0)
    <3> HIDE DEF F
    <3> QED BY <2>1
  <2>3. QED
    <3> HIDE DEF Good
    <3> QED BY <1>0, <2>2
<1>2. ASSUME NEW m \in 1 .. DEALER_MAX_DRAW_SUM, m - 1 \in P PROVE m \in P
  <2>1. PICK F : F = [n \in 0 .. m - 1 |-> Body(F, n)]
    BY <1>2
  <2> DEFINE G == [n \in 0 .. m |-> IF n = m THEN OneMore(F[m - 1]) ELSE F[n]]
  <2>2. m \in Nat \ {0} /\ m - 1 \in Nat
    BY <1>0
  <2>3. ASSUME NEW n \in 0 .. m PROVE G[n] = Body(G, n)
    <3>1. CASE n = m
      <4>1. G[m - 1] = F[m - 1]
        BY <2>2
      <4>2. QED
        BY <2>2, <4>1, <3>1
    <3>2. CASE n # m
      <4>1. G[n] = F[n] /\ n \in 0 .. m - 1
        BY <2>2, <3>2
      <4>2. n # 0 => G[n - 1] = F[n - 1]
        BY <2>2, <3>2
      <4>3. F[n] = Body(F, n)
        BY <2>1, <4>1
      <4>4. QED
        BY <4>1, <4>2, <4>3
    <3>3. QED
      BY <3>1, <3>2
  <2>4. G = [n \in 0 .. m |-> Body(G, n)]
    BY <2>3
  <2>5. Good(m)
    <3> HIDE DEF G
    <3> QED BY <2>4
  <2>6. QED
    <3> HIDE DEF Good
    <3> QED BY <2>5
<1>3. Good(DEALER_MAX_DRAW_SUM)
  <2> HIDE DEF P
  <2>1. \A i \in 1 .. DEALER_MAX_DRAW_SUM : i - 1 \in P => i \in P
    BY <1>2
  <2>2. \A i \in 0 .. DEALER_MAX_DRAW_SUM : i \in P
    BY <1>0, <1>1, <2>1, IntervalInduction
  <2>3. DEALER_MAX_DRAW_SUM \in P
    BY <1>0, <2>2
  <2>4. QED
    <3> HIDE DEF Good
    <3> QED BY <2>3 DEF P
<1>4. QED
  BY <1>3 DEF IsAfter

Decks == [Ranks -> Nat]

(* The cards that the dealer and the deck have, before and after. *)
SameCards(x, h, d) ==
    /\ x[1] \in AllHands /\ x[2] \in Decks
    /\ \A r \in Ranks : x[1][r] + x[2][r] = h[r] + d[r]

(* The dealer draws from the deck and stops at 17 at the earliest. *)
LEMMA DealerDrawsFromTheDeck ==
    ASSUME NEW h \in AllHands, NEW d \in Decks, NEW x \in DealerDraws(h, d)
    PROVE  SameCards(x, h, d) /\ getSoftHandValue(x[1]) >= DEALER_MAX_DRAW_SUM
<1> DEFINE after == CHOOSE F : IsAfter(F, h, d)
           P == {n \in 0 .. DEALER_MAX_DRAW_SUM : \A y \in after[n] : SameCards(y, h, d)}
<1>0. DEALER_MAX_DRAW_SUM \in Nat
  BY DEF DEALER_MAX_DRAW_SUM
<1>1. IsAfter(after, h, d)
  BY AfterExists
<1>2. DealerDraws(h, d) = {y \in UNION {after[n] : n \in DOMAIN after} : ~ MustDraw(y)}
  BY DEF DealerDraws, IsAfter, OneMore, MustDraw
<1> HIDE DEF after
<1>3. /\ DOMAIN after = 0 .. DEALER_MAX_DRAW_SUM
      /\ after[0] = {<<h, d>>}
      /\ \A n \in 1 .. DEALER_MAX_DRAW_SUM : after[n] = OneMore(after[n - 1])
  <2>1. /\ DOMAIN after = 0 .. DEALER_MAX_DRAW_SUM
        /\ \A n \in 0 .. DEALER_MAX_DRAW_SUM :
              after[n] = IF n = 0 THEN {<<h, d>>} ELSE OneMore(after[n - 1])
    BY <1>1 DEF IsAfter
  <2>2. 0 \in 0 .. DEALER_MAX_DRAW_SUM
    BY <1>0
  <2>3. ASSUME NEW n \in 1 .. DEALER_MAX_DRAW_SUM
        PROVE  n \in 0 .. DEALER_MAX_DRAW_SUM /\ n # 0
    BY <1>0
  <2>4. QED
    BY <2>1, <2>2, <2>3
<1>4. 0 \in P
  BY <1>0, <1>3 DEF SameCards
<1>5. ASSUME NEW n \in 1 .. DEALER_MAX_DRAW_SUM, n - 1 \in P PROVE n \in P
  <2>1. ASSUME NEW y \in after[n] PROVE SameCards(y, h, d)
    <3>1. PICK z \in after[n - 1] :
             \E r \in OnTop(z[2]) : y = <<AddCard(z[1], r), [z[2] EXCEPT ![r] = @ - 1]>>
      BY <1>3 DEF OneMore
    <3>2. PICK r \in OnTop(z[2]) : y = <<AddCard(z[1], r), [z[2] EXCEPT ![r] = @ - 1]>>
      BY <3>1
    <3>3. SameCards(z, h, d)
      BY <1>5
    <3>4. z[1] \in AllHands /\ z[2] \in Decks /\ r \in Ranks /\ z[2][r] > 0
      BY <3>2, <3>3 DEF SameCards, OnTop
    <3>5. /\ y[1] = AddCard(z[1], r)
          /\ y[2] = [z[2] EXCEPT ![r] = @ - 1]
      BY <3>2
    <3>6. y[1] \in AllHands /\ y[2] \in Decks
      BY <3>4, <3>5 DEF AllHands, AddCard, Decks
    <3>7. ASSUME NEW s \in Ranks PROVE y[1][s] + y[2][s] = h[s] + d[s]
      <4>1. /\ z[1][s] \in Nat /\ z[2][s] \in Nat
            /\ z[1][s] + z[2][s] = h[s] + d[s]
        BY <3>3 DEF SameCards, AllHands, Decks
      <4>2. /\ y[1][s] = IF s = r THEN z[1][s] + 1 ELSE z[1][s]
            /\ y[2][s] = IF s = r THEN z[2][s] - 1 ELSE z[2][s]
        BY <3>4, <3>5 DEF AllHands, AddCard, Decks
      <4>3. QED
        BY <4>1, <4>2
    <3>8. QED
      BY <3>6, <3>7 DEF SameCards
  <2>2. QED
    BY <2>1
<1>6. \A n \in 0 .. DEALER_MAX_DRAW_SUM : n \in P
  <2> HIDE DEF P
  <2> QED BY <1>0, <1>4, <1>5, IntervalInduction
<1>7. SameCards(x, h, d)
  BY <1>2, <1>3, <1>6
<1>8. getSoftHandValue(x[1]) >= DEALER_MAX_DRAW_SUM
  <2>1. ~ MustDraw(x) /\ x[1] \in AllHands
    BY <1>2, <1>7 DEF SameCards
  <2>2. getSoftHandValue(x[1]) \in Nat
    BY <2>1, ValuesOfAHand
  <2>3. QED
    BY <1>0, <2>1, <2>2 DEF MustDraw
<1>9. QED
  BY <1>7, <1>8

-----------------------------------------------------------------------------
(* The cards: where they are, and what each step does to them. *)

CardTypes ==
    /\ hand \in [Clients -> AllHands] /\ dealer \in AllHands /\ deck \in Decks
    /\ bet \in [Clients -> Nat] /\ hit \in [Clients -> BOOLEAN]

(* What module Blackjack says of a round that is not dealt yet, of the     *)
(* dealer, and of the cards of each rank.                                  *)
NothingDealt ==
    ~dealt => /\ hand = [c \in Clients |-> EmptyHand] /\ dealer = EmptyHand
              /\ deck = [r \in Ranks |-> Copies] /\ turnShown = NoTurn
DealerInv ==
    /\ gameRunning /\ dealt => Size(dealer) = 2
    /\ ~gameRunning => getSoftHandValue(dealer) >= DEALER_MAX_DRAW_SUM
InHands(r) == SumFunctionOnSet([c \in Clients |-> hand[c][r]], Clients)
CardsInPlace == \A r \in Ranks : deck[r] + dealer[r] + InHands(r) = Copies

CardInv == CardTypes /\ NothingDealt /\ DealerInv /\ CardsInPlace

Play(c) == HandleHit(c) \/ HandleStand(c) \/ SkipPlayer(c) \/ HandleDoubleDown(c)

(* A step that leaves the deck d to the dealer. *)
DealerStep(d) ==
    /\ SameCards(<<dealer', deck'>>, dealer, d)
    /\ gameRunning' => dealer' = dealer
    /\ ~gameRunning' => getSoftHandValue(dealer') >= DEALER_MAX_DRAW_SUM

LEMMA EndOfTurn ==
    ASSUME dealer \in AllHands, NEW d \in Decks, gameRunning,
           MoveToNextPlayer(d) \/ StaysAt(d)
    PROVE  DealerStep(d)
<1>1. CASE (MoveToNextPlayer(d) /\ gameRunning') \/ StaysAt(d)
  <2>1. dealer' = dealer /\ deck' = d /\ gameRunning'
    BY <1>1 DEF MoveToNextPlayer, StaysAt
  <2>2. QED
    BY <2>1 DEF DealerStep, SameCards
<1>2. CASE MoveToNextPlayer(d) /\ ~gameRunning'
  <2>1. PICK x \in DealerDraws(dealer, d) : dealer' = x[1] /\ deck' = x[2]
    BY <1>2 DEF MoveToNextPlayer
  <2>2. SameCards(x, dealer, d) /\ getSoftHandValue(x[1]) >= DEALER_MAX_DRAW_SUM
    BY DealerDrawsFromTheDeck
  <2>3. SameCards(<<dealer', deck'>>, dealer, d)
    BY <2>1, <2>2 DEF SameCards
  <2>4. QED
    BY <1>2, <2>1, <2>2, <2>3 DEF DealerStep
<1>3. QED
  BY <1>1, <1>2

(* In a step of a player one card leaves the deck for its hand, or none.   *)
LEMMA PlayCards ==
    ASSUME CardTypes, NEW c \in Clients, Play(c)
    PROVE  /\ IsTurnOf(c) /\ dealt' = dealt
           /\ bet' \in [Clients -> Nat] /\ hit' \in [Clients -> BOOLEAN]
           /\ \/ hand' = hand /\ DealerStep(deck)
              \/ \E x \in Ranks : /\ deck[x] > 0 /\ DeckWithout(x) \in Decks
                                  /\ hand' = [hand EXCEPT ![c] = AddCard(@, x)]
                                  /\ DealerStep(DeckWithout(x))
<1>1. ASSUME NEW x \in OnTop(deck) PROVE DeckWithout(x) \in Decks /\ x \in Ranks /\ deck[x] > 0
  BY DEF OnTop, DeckWithout, Decks, CardTypes
<1>2. ASSUME NEW d \in Decks, gameRunning, MoveToNextPlayer(d) \/ StaysAt(d)
      PROVE  DealerStep(d)
  BY <1>2, EndOfTurn DEF CardTypes
<1>3. CASE HandleHit(c)
  <2>1. PICK x \in Ranks :
           /\ DrawCard(c, x)
           /\ MoveToNextPlayer(DeckWithout(x)) \/ StaysAt(DeckWithout(x))
    BY <1>3 DEF HandleHit
  <2>2. /\ x \in OnTop(deck) /\ hand' = [hand EXCEPT ![c] = AddCard(@, x)]
        /\ IsTurnOf(c) /\ dealt' = dealt /\ bet' = bet /\ hit' = [hit EXCEPT ![c] = TRUE]
    BY <1>3, <2>1 DEF DrawCard, HandleHit
  <2>3. DealerStep(DeckWithout(x))
    BY <1>1, <1>2, <2>1, <2>2 DEF IsTurnOf
  <2>4. bet' \in [Clients -> Nat] /\ hit' \in [Clients -> BOOLEAN]
    BY <2>2 DEF CardTypes
  <2>5. QED
    BY <1>1, <2>2, <2>3, <2>4
<1>4. CASE HandleStand(c) \/ SkipPlayer(c)
  <2>1. /\ IsTurnOf(c) /\ MoveToNextPlayer(deck)
        /\ dealt' = dealt /\ hand' = hand /\ bet' = bet /\ hit' = hit
    BY <1>4 DEF HandleStand, SkipPlayer, Stand
  <2>2. DealerStep(deck)
    BY <1>2, <2>1 DEF IsTurnOf, CardTypes
  <2>3. QED
    BY <2>1, <2>2 DEF CardTypes
<1>5. CASE HandleDoubleDown(c)
  <2>1. PICK x \in Ranks : DrawCard(c, x) /\ MoveToNextPlayer(DeckWithout(x))
    BY <1>5 DEF HandleDoubleDown, Double
  <2>2. /\ x \in OnTop(deck) /\ hand' = [hand EXCEPT ![c] = AddCard(@, x)]
        /\ IsTurnOf(c) /\ dealt' = dealt /\ hit' = hit /\ bet' = [bet EXCEPT ![c] = 2 * @]
    BY <1>5, <2>1 DEF DrawCard, HandleDoubleDown, Double
  <2>3. DealerStep(DeckWithout(x))
    BY <1>1, <1>2, <2>1, <2>2 DEF IsTurnOf
  <2>4. bet' \in [Clients -> Nat] /\ hit' \in [Clients -> BOOLEAN]
    BY <2>2 DEF CardTypes
  <2>5. QED
    BY <1>1, <2>2, <2>3, <2>4
<1>6. QED
  BY <1>3, <1>4, <1>5 DEF Play

LEMMA PairOfCards ==
    ASSUME NEW p \in CardPairs
    PROVE  p \in AllHands /\ Size(p) = 2 /\ getHardHandValue(p) <= 20
<1>1. p \in AllHands /\ Size(p) = 2
  BY DEF CardPairs, AllHands
<1>2. \A r \in Ranks : rankValues[r] <= 10
  BY RankValues
<1>3. Counted(p, rankValues) <= 10 * Size(p)
  BY <1>1, <1>2, CountedAtMost, Valuations
<1>4. QED
  BY <1>1, <1>3 DEF getHardHandValue

LEMMA IntervalIsFinite ==
    \A m, n \in Int : IsFiniteSet(m .. n)
BY FS_Interval

LEMMA SeatsOfClients ==
    ASSUME TurnInv
    PROVE  /\ Len(players) \in Nat /\ DOMAIN players = 1 .. Len(players)
           /\ IsFiniteSet(1 .. Len(players))
           /\ players \in [1 .. Len(players) -> Clients]
           /\ \A c : /\ Seats(c) = {i \in 1 .. Len(players) : players[i] = c}
                     /\ Seats(c) \in SUBSET (1 .. Len(players)) /\ IsFiniteSet(Seats(c))
<1>1. /\ Len(players) \in Nat /\ DOMAIN players = 1 .. Len(players)
      /\ players \in [1 .. Len(players) -> Clients]
  BY DEF TurnInv
<1>2. IsFiniteSet(1 .. Len(players))
  BY <1>1, FS_Interval
<1>3. ASSUME NEW c
      PROVE  /\ Seats(c) = {i \in 1 .. Len(players) : players[i] = c}
             /\ Seats(c) \in SUBSET (1 .. Len(players))
  BY <1>1 DEF Seats
<1>4. ASSUME NEW c PROVE IsFiniteSet(Seats(c))
  BY <1>2, <1>3, FS_Subset
<1>5. QED
  BY <1>1, <1>2, <1>3, <1>4

(* Each seat and the dealer get a pair: each client the pairs of its seats *)
(* together.                                                               *)
LEMMA Dealt ==
    ASSUME TurnInv, CardTypes, DealCards
    PROVE  /\ ~dealt /\ dealt' = TRUE
           /\ UNCHANGED <<players, currentPlayerIndex, gameRunning, bet, hit, turnShown>>
           /\ \E pairs \in [0 .. Len(players) -> CardPairs] :
                 /\ dealer' = pairs[0]
                 /\ hand' = [c \in Clients |-> Together(pairs, Seats(c))]
                 /\ deck' \in Decks
                 /\ \A r \in Ranks : deck'[r] = deck[r] - Together(pairs, 0 .. Len(players))[r]
<1>1. PICK pairs \in [0 .. Len(players) -> CardPairs] :
         /\ deck' = [r \in Ranks |-> deck[r] - SumFunctionOnSet([i \in DOMAIN pairs |-> pairs[i][r]],
                                                               DOMAIN pairs)]
         /\ \A r \in Ranks : deck'[r] >= 0
         /\ hand' = [c \in Clients |-> [r \in Ranks |->
                       SumFunctionOnSet([i \in Seats(c) |-> pairs[i][r]], Seats(c))]]
         /\ dealer' = pairs[0]
  BY DEF DealCards
<1> DEFINE n == Len(players)
<1>2. IsFiniteSet(0 .. n) /\ \A i \in 0 .. n : pairs[i] \in AllHands
  BY SeatsOfClients, IntervalIsFinite, PairOfCards
<1>3. DOMAIN pairs = 0 .. n
  OBVIOUS
<1>4. Together(pairs, 0 .. n) \in AllHands
  BY <1>2, TogetherWith
<1>5. ASSUME NEW r \in Ranks
      PROVE  deck'[r] = deck[r] - Together(pairs, 0 .. n)[r] /\ deck'[r] \in Nat
  <2>1. deck'[r] = deck[r] - Together(pairs, 0 .. n)[r]
    BY <1>1, <1>3 DEF Together
  <2>2. deck[r] \in Nat /\ Together(pairs, 0 .. n)[r] \in Nat /\ deck'[r] >= 0
    BY <1>1, <1>4 DEF CardTypes, Decks, AllHands
  <2>3. QED
    BY <2>1, <2>2
<1>6. deck' \in Decks
  BY <1>1, <1>5 DEF Decks
<1>7. hand' = [c \in Clients |-> Together(pairs, Seats(c))]
  BY <1>1 DEF Together
<1>8. QED
  BY <1>1, <1>5, <1>6, <1>7 DEF DealCards

LEMMA DealCardInv ==
    ASSUME TurnInv, CardInv, DealCards
    PROVE  CardInv'
<1> DEFINE n == Len(players)
<1>1. PICK pairs \in [0 .. n -> CardPairs] :
         /\ dealer' = pairs[0]
         /\ hand' = [c \in Clients |-> Together(pairs, Seats(c))]
         /\ deck' \in Decks
         /\ \A r \in Ranks : deck'[r] = deck[r] - Together(pairs, 0 .. n)[r]
  BY Dealt DEF CardInv
<1>2. /\ ~dealt /\ dealt' = TRUE /\ gameRunning' = gameRunning /\ bet' = bet /\ hit' = hit
      /\ dealer = EmptyHand /\ deck = [r \in Ranks |-> Copies]
  BY Dealt DEF CardInv, NothingDealt
<1>3. /\ n \in Nat /\ IsFiniteSet(0 .. n) /\ IsFiniteSet(1 .. n) /\ 1 .. n \in SUBSET (0 .. n)
      /\ \A i \in 0 .. n : pairs[i] \in AllHands /\ Size(pairs[i]) = 2
  BY SeatsOfClients, IntervalIsFinite, PairOfCards
<1>4. \A c \in Clients : Together(pairs, Seats(c)) \in AllHands
  <2>1. \A c \in Clients : Seats(c) \in SUBSET (0 .. n)
    BY <1>3, SeatsOfClients
  <2>2. QED
    BY <1>3, <2>1, TogetherWith
<1>5. 0 \in 0 .. n /\ pairs[0] \in AllHands /\ Size(pairs[0]) = 2
  BY <1>3
<1>6. CardTypes'
  BY <1>1, <1>2, <1>4, <1>5 DEF CardInv, CardTypes
<1>7. ASSUME NEW r \in Ranks PROVE InHands(r)' = Together(pairs, 1 .. n)[r]
  <2> DEFINE f == [i \in 1 .. n |-> pairs[i][r]]
             share == [c \in Clients |-> SumFunctionOnSet(f, {i \in 1 .. n : players[i] = c})]
             mine == [c \in Clients |-> Together(pairs, Seats(c))[r]]
  <2>1. \A i \in 1 .. n : f[i] \in Int
    BY <1>3 DEF AllHands
  <2>2. SumFunctionOnSet(share, Clients) = SumFunctionOnSet(f, 1 .. n)
    <3> DEFINE I == 1 .. n
    <3>1. IsFiniteSet(I) /\ IsFiniteSet(Clients) /\ players \in [I -> Clients]
      BY <1>3, ClientsAssumption, SeatsOfClients
    <3>2. \A i \in I : f[i] \in Int
      BY <2>1
    <3> HIDE DEF f, I
    <3>3. SumFunctionOnSet([c \in Clients |-> SumFunctionOnSet(f, {i \in I : players[i] = c})],
                           Clients)
              = SumFunctionOnSet(f, I)
      BY <3>1, <3>2, SumOfShares
    <3>4. QED
      BY <3>3 DEF I
  <2>3. ASSUME NEW c \in Clients PROVE share[c] = mine[c] /\ share[c] \in Int
    <3> DEFINE g == [i \in Seats(c) |-> pairs[i][r]]
    <3>1. /\ Seats(c) = {i \in 1 .. n : players[i] = c} /\ IsFiniteSet(Seats(c))
          /\ Seats(c) \in SUBSET (1 .. n)
      BY SeatsOfClients
    <3>2. \A i \in Seats(c) : f[i] \in Int /\ f[i] = g[i]
      BY <2>1, <3>1
    <3>3. SumFunctionOnSet(f, Seats(c)) = SumFunctionOnSet(g, Seats(c))
          /\ SumFunctionOnSet(f, Seats(c)) \in Int
      <4> HIDE DEF f, g
      <4> QED BY <3>1, <3>2, SumSame, SumWithout
    <3>4. mine[c] = SumFunctionOnSet(g, Seats(c))
      BY DEF Together
    <3>5. share[c] = SumFunctionOnSet(f, Seats(c))
      <4> HIDE DEF f
      <4> QED BY <3>1
    <3>6. QED
      <4> HIDE DEF f, g, share, mine
      <4> QED BY <3>3, <3>4, <3>5
  <2>4. SumFunctionOnSet(share, Clients) = SumFunctionOnSet(mine, Clients)
    <3> HIDE DEF share, mine
    <3> QED BY <2>3, ClientsAssumption, SumSame
  <2>5. [c \in Clients |-> hand'[c][r]] = mine
    BY <1>1
  <2>6. Together(pairs, 1 .. n)[r] = SumFunctionOnSet(f, 1 .. n)
    BY DEF Together
  <2>7. QED
    <3> HIDE DEF share, mine, f
    <3> QED BY <2>2, <2>4, <2>5, <2>6 DEF InHands
<1>8. ASSUME NEW r \in Ranks PROVE deck'[r] + dealer'[r] + InHands(r)' = Copies
  <2>1. With(1 .. n, 0) = 0 .. n /\ 0 \in (0 .. n) \ (1 .. n)
    BY <1>3 DEF With
  <2>2. /\ Together(pairs, 0 .. n)[r] = pairs[0][r] + Together(pairs, 1 .. n)[r]
        /\ Together(pairs, 1 .. n) \in AllHands
    <3>1. /\ Together(pairs, 1 .. n) \in AllHands
          /\ \A x \in (0 .. n) \ (1 .. n) : \A s \in Ranks :
                Together(pairs, With(1 .. n, x))[s] = pairs[x][s] + Together(pairs, 1 .. n)[s]
      BY <1>3, TogetherWith
    <3>2. QED
      BY <2>1, <3>1
  <2>3. /\ deck'[r] = Copies - Together(pairs, 0 .. n)[r]
        /\ dealer'[r] = pairs[0][r]
    BY <1>1, <1>2
  <2>4. pairs[0][r] \in Nat /\ Together(pairs, 1 .. n)[r] \in Nat /\ Copies \in Nat
    BY <1>5, <2>2, DeckAssumption DEF AllHands
  <2>5. QED
    BY <1>7, <2>2, <2>3, <2>4
<1>9. CardsInPlace'
  BY <1>8 DEF CardsInPlace
<1>10. NothingDealt' /\ DealerInv'
  <2>1. gameRunning' /\ dealt' /\ dealer' = pairs[0]
    BY <1>1, <1>2, <1>3 DEF TurnInv
  <2>2. QED
    BY <1>5, <2>1 DEF NothingDealt, DealerInv
<1>11. QED
  BY <1>6, <1>9, <1>10 DEF CardInv

LEMMA InitCardInv == Init => CardInv
<1> SUFFICES ASSUME Init PROVE CardInv
  OBVIOUS
<1>1. /\ ~dealt /\ gameRunning /\ turnShown = NoTurn
      /\ hand = [c \in Clients |-> EmptyHand] /\ dealer = EmptyHand
      /\ deck = [r \in Ranks |-> Copies]
      /\ hit = [c \in Clients |-> FALSE]
      /\ bet \in [Clients -> {AcceptedBet(asked) : asked \in AskedBets}]
  BY DEF Init
<1>2. EmptyHand \in AllHands
  BY CountedEmpty, Valuations
<1>3. bet \in [Clients -> Nat]
  <2>1. \A asked \in AskedBets : AcceptedBet(asked) \in Nat
    BY AskedBetsAssumption DEF AcceptedBet, MIN_BET
  <2>2. QED
    BY <1>1, <2>1
<1>4. CardTypes
  BY <1>1, <1>2, <1>3, DeckAssumption DEF CardTypes, Decks
<1>5. ASSUME NEW r \in Ranks PROVE deck[r] + dealer[r] + InHands(r) = Copies
  <2> DEFINE none == [c \in Clients |-> hand[c][r]]
  <2>1. \A c \in Clients : none[c] = 0
    BY <1>1 DEF EmptyHand
  <2>2. Cardinality(Clients) \in Nat
    BY ClientsAssumption, FS_CardinalityType
  <2>3. SumFunctionOnSet(none, Clients) = 0 * Cardinality(Clients)
    <3> HIDE DEF none
    <3> QED BY <2>1, ClientsAssumption, SumConstant
  <2>4. InHands(r) = 0
    <3> HIDE DEF none
    <3>1. InHands(r) = SumFunctionOnSet(none, Clients)
      BY DEF InHands, none
    <3>2. QED
      BY <2>2, <2>3, <3>1
  <2>5. deck[r] = Copies /\ dealer[r] = 0 /\ Copies \in Nat
    BY <1>1, DeckAssumption DEF EmptyHand
  <2>6. QED
    BY <2>4, <2>5
<1>6. QED
  BY <1>1, <1>4, <1>5 DEF CardInv, NothingDealt, DealerInv, CardsInPlace

LEMMA InHandsNat ==
    ASSUME CardTypes, NEW r \in Ranks
    PROVE  /\ InHands(r) \in Nat
           /\ \A c \in Clients : hand[c][r] \in Nat
<1> DEFINE f == [c \in Clients |-> hand[c][r]]
<1>1. \A c \in Clients : f[c] \in Nat
  BY DEF CardTypes, AllHands
<1>2. SumFunctionOnSet(f, Clients) \in Nat
  <2> HIDE DEF f
  <2> QED BY <1>1, ClientsAssumption, SumNat
<1>3. QED
  BY <1>1, <1>2 DEF InHands

LEMMA PlayCardInv ==
    ASSUME CardInv, NEW c \in Clients, Play(c)
    PROVE  CardInv'
<1>1. /\ IsTurnOf(c) /\ dealt' = dealt
      /\ bet' \in [Clients -> Nat] /\ hit' \in [Clients -> BOOLEAN]
      /\ \/ hand' = hand /\ DealerStep(deck)
         \/ \E x \in Ranks : /\ deck[x] > 0 /\ DeckWithout(x) \in Decks
                             /\ hand' = [hand EXCEPT ![c] = AddCard(@, x)]
                             /\ DealerStep(DeckWithout(x))
  BY PlayCards DEF CardInv
<1>2. NothingDealt'
  BY <1>1 DEF IsTurnOf, NothingDealt
<1>3. ASSUME NEW d, DealerStep(d)
      PROVE  /\ DealerInv' /\ dealer' \in AllHands /\ deck' \in Decks
             /\ \A r \in Ranks : dealer'[r] + deck'[r] = dealer[r] + d[r]
  BY <1>1, <1>3 DEF DealerStep, DealerInv, SameCards, CardInv, IsTurnOf
<1>4. /\ dealer \in AllHands /\ deck \in Decks
      /\ \A r \in Ranks : /\ deck[r] \in Nat /\ dealer[r] \in Nat /\ InHands(r) \in Nat
                          /\ deck[r] + dealer[r] + InHands(r) = Copies
  BY InHandsNat DEF CardInv, CardTypes, CardsInPlace, AllHands, Decks
<1>5. CASE hand' = hand /\ DealerStep(deck)
  <2>1. CardTypes' /\ DealerInv'
    BY <1>1, <1>3, <1>5 DEF CardInv, CardTypes
  <2>2. ASSUME NEW r \in Ranks PROVE deck'[r] + dealer'[r] + InHands(r)' = Copies
    <3>1. InHands(r)' = InHands(r)
      BY <1>5 DEF InHands
    <3>2. dealer'[r] + deck'[r] = dealer[r] + deck[r] /\ dealer'[r] \in Nat /\ deck'[r] \in Nat
      BY <1>3, <1>5 DEF AllHands, Decks
    <3>3. QED
      BY <1>4, <3>1, <3>2
  <2>3. QED
    BY <1>2, <2>1, <2>2 DEF CardInv, CardsInPlace
<1>6. ASSUME NEW x \in Ranks, deck[x] > 0, hand' = [hand EXCEPT ![c] = AddCard(@, x)],
             DealerStep(DeckWithout(x))
      PROVE  CardInv'
  <2>1. hand[c] \in AllHands /\ AddCard(hand[c], x) \in AllHands
    BY CountedAddCard, Valuations DEF CardInv, CardTypes
  <2>2. CardTypes' /\ DealerInv'
    <3>1. hand' \in [Clients -> AllHands]
      BY <1>6, <2>1 DEF CardInv, CardTypes
    <3>2. QED
      BY <1>1, <1>3, <1>6, <3>1 DEF CardTypes
  <2>3. ASSUME NEW r \in Ranks PROVE deck'[r] + dealer'[r] + InHands(r)' = Copies
    <3> DEFINE f == [e \in Clients |-> hand[e][r]]
               g == [e \in Clients |-> hand'[e][r]]
               k == IF r = x THEN 1 ELSE 0
    <3>1. /\ \A e \in Clients : f[e] \in Int
          /\ \A e \in Clients \ {c} : g[e] = f[e]
          /\ g[c] = f[c] + k
      <4>1. \A e \in Clients : f[e] \in Nat
        BY InHandsNat DEF CardInv
      <4>2. \A e \in Clients \ {c} : hand'[e] = hand[e]
        BY <1>6 DEF CardInv, CardTypes
      <4>3. hand'[c] = AddCard(hand[c], x)
        BY <1>6 DEF CardInv, CardTypes
      <4>4. AddCard(hand[c], x)[r] = hand[c][r] + k
        <5>1. hand[c][r] \in Nat
          BY <2>1 DEF AllHands
        <5>2. QED
          BY <2>1, <5>1 DEF AllHands, AddCard
      <4>5. QED
        BY <4>1, <4>2, <4>3, <4>4
    <3>2. InHands(r)' = InHands(r) + k
      <4>1. k \in Int
        OBVIOUS
      <4>2. InHands(r) = SumFunctionOnSet(f, Clients) /\ InHands(r)' = SumFunctionOnSet(g, Clients)
        BY DEF InHands
      <4> HIDE DEF f, g, k
      <4>3. SumFunctionOnSet(g, Clients) = SumFunctionOnSet(f, Clients) + k
        BY <3>1, <4>1, ClientsAssumption, SumChange
      <4>4. QED
        BY <4>2, <4>3
    <3>3. DeckWithout(x)[r] = deck[r] - k
      BY <1>4 DEF DeckWithout, Decks
    <3>4. /\ dealer'[r] + deck'[r] = dealer[r] + DeckWithout(x)[r]
          /\ dealer'[r] \in Nat /\ deck'[r] \in Nat
      BY <1>3, <1>6 DEF AllHands, Decks
    <3>5. k \in Int
      OBVIOUS
    <3> HIDE DEF f, g, k
    <3>6. QED
      BY <1>4, <3>2, <3>3, <3>4, <3>5
  <2>4. QED
    BY <1>2, <2>2, <2>3 DEF CardInv, CardsInPlace
<1>7. QED
  BY <1>1, <1>5, <1>6

LEMMA NextCardInv == TurnInv /\ CardInv /\ [Next]_vars => CardInv'
<1> SUFFICES ASSUME TurnInv, CardInv, [Next]_vars PROVE CardInv'
  OBVIOUS
<1>1. CASE UNCHANGED vars \/ GameOver
  <2>1. /\ hand' = hand /\ dealer' = dealer /\ deck' = deck /\ bet' = bet /\ hit' = hit
        /\ dealt' = dealt /\ gameRunning' = gameRunning /\ turnShown' = turnShown
    BY <1>1 DEF GameOver, vars
  <2>2. CardTypes' /\ NothingDealt' /\ DealerInv'
    BY <2>1 DEF CardInv, CardTypes, NothingDealt, DealerInv
  <2>3. \A r \in Ranks : InHands(r)' = InHands(r)
    BY <2>1 DEF InHands
  <2>4. CardsInPlace'
    BY <2>1, <2>3 DEF CardInv, CardsInPlace
  <2>5. QED
    BY <2>2, <2>4 DEF CardInv
<1>2. CASE DealCards
  BY <1>2, DealCardInv
<1>3. CASE \E c \in Clients : Play(c)
  BY <1>3, PlayCardInv
<1>4. QED
  BY <1>1, <1>2, <1>3 DEF Next, Play

LEMMA GameInvariant == Spec => [](TurnInv /\ CardInv)
<1>1. Init => TurnInv /\ CardInv
  BY InitTurnInv, InitCardInv
<1>2. TurnInv /\ CardInv /\ [Next]_vars => (TurnInv /\ CardInv)'
  BY NextTurnInv, NextCardInv
<1>3. QED
  BY <1>1, <1>2, PTL DEF Spec

(* Every card of the deck stays in one place, however many players draw    *)
(* and the dealer after them: none is lost and none is held twice.         *)
THEOREM CardsStayInOnePlace == Spec => []CardsAreInOnePlace
<1>1. CardInv => CardsAreInOnePlace
  BY DEF CardInv, CardsInPlace, CardsAreInOnePlace, InHands, SumFunction
<1>2. QED
  BY <1>1, GameInvariant, PTL

(* The game runs until the last seat has had its turn; the dealer has two  *)
(* cards until then and 17 at least after that.                            *)
THEOREM TheDealerPlaysLast == Spec => []DealerPlaysLast
<1>1. TurnInv /\ CardInv => DealerPlaysLast
  <2> SUFFICES ASSUME TurnInv, CardInv PROVE DealerPlaysLast
    OBVIOUS
  <2>1. gameRunning <=> currentPlayerIndex < Len(players)
    BY SeatsOfClients DEF TurnInv
  <2>2. QED
    BY <2>1 DEF CardInv, DealerInv, DealerPlaysLast
<1>2. QED
  BY <1>1, GameInvariant, PTL

LEMMA PlayersHaveHands ==
    ASSUME TurnInv, CardInv, NEW c \in ToSet(players)
    PROVE  c \in Clients /\ hand[c] \in AllHands /\ dealer \in AllHands /\ bet[c] \in Nat
<1>1. c \in Clients
  BY SeatsOfClients DEF ToSet
<1>2. QED
  BY <1>1 DEF CardInv, CardTypes

(* Whatever was drawn: who is paid is not busted and has beaten the        *)
(* dealer, or has a blackjack against an equal total.                      *)
THEOREM TheWinnersBeatTheDealer == Spec => []WinnersBeatTheDealer
<1>1. TurnInv /\ CardInv => WinnersBeatTheDealer
  BY PlayersHaveHands, AmountIsDeserved DEF WinnersBeatTheDealer
<1>2. QED
  BY <1>1, GameInvariant, PTL

(* A blackjack never loses the bet. *)
THEOREM ABlackjackKeepsTheBet == Spec => []BlackjackKeepsTheBet
<1>1. TurnInv /\ CardInv => BlackjackKeepsTheBet
  BY PlayersHaveHands, AmountIsDeserved DEF BlackjackKeepsTheBet
<1>2. QED
  BY <1>1, GameInvariant, PTL

-----------------------------------------------------------------------------
(* The turns as they are shown, and the types. *)

ShownInv ==
    /\ turnShown.client \in Clients \union {NoTurn.client}
    /\ turnShown.turnType \in {"none", "hit", "stand", "doubleDown", "skip"}
    /\ turnShown.result \in {"none", "ok", "busted"}

(* What each turn does to the index, the hand and what is shown. *)
LEMMA TurnOf ==
    ASSUME NEW c, Play(c)
    PROVE  /\ dealt /\ gameRunning /\ players[currentPlayerIndex + 1] = c
           /\ UNCHANGED <<players, dealt>>
           /\ turnShown'.client = c
           /\ \/ /\ \E x \in Ranks : hand' = [hand EXCEPT ![c] = AddCard(@, x)]
                 /\ hit' = [hit EXCEPT ![c] = TRUE] /\ bet' = bet
                 /\ turnShown'.turnType = "hit"
                 /\ \/ isBusted(hand'[c]) /\ Moves /\ turnShown'.result = "busted"
                    \/ ~isBusted(hand'[c]) /\ Remains /\ turnShown'.result = "ok"
              \/ /\ hand' = hand /\ hit' = hit /\ bet' = bet /\ Moves
                 /\ turnShown'.turnType \in {"stand", "skip"} /\ turnShown'.result = "ok"
              \/ /\ ~hit[c] /\ Moves
                 /\ \E x \in Ranks : hand' = [hand EXCEPT ![c] = AddCard(@, x)]
                 /\ hit' = hit /\ bet' = [bet EXCEPT ![c] = 2 * @]
                 /\ turnShown'.turnType = "doubleDown"
                 /\ turnShown'.result = IF isBusted(hand'[c]) THEN "busted" ELSE "ok"
<1>1. ASSUME NEW d, MoveToNextPlayer(d) PROVE Moves
  BY <1>1 DEF MoveToNextPlayer, Moves
<1>2. ASSUME NEW d, StaysAt(d) PROVE Remains
  BY <1>2 DEF StaysAt, Remains
<1>3. CASE HandleHit(c)
  <2>1. /\ turnShown'.client = c /\ turnShown'.turnType = "hit"
        /\ turnShown'.result = IF isBusted(hand'[c]) THEN "busted" ELSE "ok"
    BY <1>3 DEF HandleHit, SendPlayerTurnResult
  <2>2. PICK x \in Ranks :
           /\ DrawCard(c, x)
           /\ IF isBusted(hand'[c]) THEN MoveToNextPlayer(DeckWithout(x)) ELSE StaysAt(DeckWithout(x))
    BY <1>3 DEF HandleHit
  <2>3. hand' = [hand EXCEPT ![c] = AddCard(@, x)]
    BY <2>2 DEF DrawCard
  <2>4. IF isBusted(hand'[c]) THEN Moves ELSE Remains
    BY <1>1, <1>2, <2>2
  <2>5. QED
    BY <1>3, <2>1, <2>3, <2>4 DEF HandleHit, IsTurnOf
<1>4. CASE HandleStand(c) \/ SkipPlayer(c)
  <2>1. /\ turnShown'.client = c
        /\ turnShown'.turnType \in {"stand", "skip"} /\ turnShown'.result = "ok"
    BY <1>4 DEF HandleStand, SkipPlayer, SendPlayerTurnResult, SendPlayerSkipped
  <2>2. QED
    BY <1>1, <1>4, <2>1 DEF HandleStand, SkipPlayer, Stand, IsTurnOf
<1>5. CASE HandleDoubleDown(c)
  <2>1. /\ turnShown'.client = c /\ turnShown'.turnType = "doubleDown"
        /\ turnShown'.result = IF isBusted(hand'[c]) THEN "busted" ELSE "ok"
    BY <1>5 DEF HandleDoubleDown, Double, SendPlayerTurnResult
  <2>2. PICK x \in Ranks : DrawCard(c, x) /\ MoveToNextPlayer(DeckWithout(x))
    BY <1>5 DEF HandleDoubleDown, Double
  <2>3. Moves /\ hand' = [hand EXCEPT ![c] = AddCard(@, x)]
    BY <1>1, <2>2 DEF DrawCard
  <2>4. QED
    BY <1>5, <2>1, <2>3 DEF HandleDoubleDown, Double, IsTurnOf
<1>6. QED
  BY <1>3, <1>4, <1>5 DEF Play

LEMMA NextShownInv == ShownInv /\ [Next]_vars => ShownInv'
<1> SUFFICES ASSUME ShownInv, [Next]_vars PROVE ShownInv'
  OBVIOUS
<1>1. CASE UNCHANGED turnShown
  BY <1>1 DEF ShownInv
<1>2. ASSUME NEW c \in Clients, Play(c) PROVE ShownInv'
  <2>1. /\ turnShown'.client = c
        /\ turnShown'.turnType \in {"hit", "stand", "skip", "doubleDown"}
        /\ turnShown'.result \in {"ok", "busted"}
    BY <1>2, TurnOf
  <2>2. QED
    BY <2>1 DEF ShownInv
<1>3. QED
  BY <1>1, <1>2 DEF Next, Play, DealCards, GameOver, vars

(* Every variable keeps its type; the deck holds no more than it was made  *)
(* of, because each card is in one place.                                  *)
THEOREM TypeCorrect == Spec => []TypeOK
<1>1. TurnInv /\ CardInv /\ ShownInv => TypeOK
  <2> SUFFICES ASSUME TurnInv, CardInv, ShownInv PROVE TypeOK
    OBVIOUS
  <2>1. ASSUME NEW r \in Ranks PROVE deck[r] \in 0 .. Copies
    <3>1. /\ deck[r] \in Nat /\ dealer[r] \in Nat /\ InHands(r) \in Nat /\ Copies \in Nat
          /\ deck[r] + dealer[r] + InHands(r) = Copies
      BY InHandsNat, DeckAssumption DEF CardInv, CardTypes, CardsInPlace, Decks, AllHands
    <3>2. QED
      BY <3>1
  <2>2. deck \in [Ranks -> 0 .. Copies]
    BY <2>1 DEF CardInv, CardTypes, Decks
  <2>3. gameRunning \in BOOLEAN
    BY DEF TurnInv
  <2>4. QED
    BY <2>2, <2>3 DEF TurnInv, CardInv, CardTypes, ShownInv, TypeOK
<1>2. Init => ShownInv
  BY DEF Init, ShownInv, NoTurn
<1>3. QED
  BY <1>1, <1>2, NextShownInv, GameInvariant, PTL DEF Spec

-----------------------------------------------------------------------------
(* Clients with one seat. *)

(* While the turn of the seat has not passed, the hand is not busted and   *)
(* has two cards before the first hit.  The turn that was shown last tells *)
(* whether it has passed, and how.                                         *)
SeatInv ==
    \A c \in Clients : \A i \in DOMAIN players :
        dealt /\ Seats(c) = {i} =>
            /\ i > currentPlayerIndex => ~isBusted(hand[c]) /\ (~hit[c] => Size(hand[c]) = 2)
            /\ turnShown.client = c =>
                  /\ turnShown.turnType = "hit" /\ turnShown.result = "ok"
                         <=> i = currentPlayerIndex + 1
                  /\ turnShown.result = "busted" => isBusted(hand[c])
                  /\ turnShown.turnType = "doubleDown" => Size(hand[c]) = 3

LEMMA DealSeatInv ==
    ASSUME TurnInv, CardInv, DealCards
    PROVE  SeatInv'
<1>1. PICK pairs \in [0 .. Len(players) -> CardPairs] :
         hand' = [c \in Clients |-> Together(pairs, Seats(c))]
  BY Dealt DEF CardInv
<1>2. players' = players /\ currentPlayerIndex' = currentPlayerIndex /\ turnShown' = NoTurn
  BY Dealt DEF CardInv, NothingDealt
<1>3. ASSUME NEW c \in Clients, NEW i \in DOMAIN players, Seats(c) = {i}
      PROVE  ~isBusted(hand'[c]) /\ Size(hand'[c]) = 2
  <2>1. i \in 0 .. Len(players)
    BY SeatsOfClients
  <2>2. pairs[i] \in AllHands /\ Size(pairs[i]) = 2 /\ getHardHandValue(pairs[i]) <= 20
    BY <2>1, PairOfCards
  <2>3. ASSUME NEW r \in Ranks PROVE Together(pairs, {i})[r] = pairs[i][r]
    <3> DEFINE f == [j \in {i} |-> pairs[j][r]]
    <3>1. f[i] = pairs[i][r] /\ f[i] \in Int
      BY <2>2 DEF AllHands
    <3>2. SumFunctionOnSet(f, {i}) = f[i]
      <4> HIDE DEF f
      <4> QED BY <3>1, SumOfOne
    <3>3. Together(pairs, {i})[r] = SumFunctionOnSet(f, {i})
      BY DEF Together
    <3>4. QED
      BY <3>1, <3>2, <3>3
  <2>4. Together(pairs, {i}) = pairs[i]
    <3>1. Together(pairs, {i}) = [r \in Ranks |-> Together(pairs, {i})[r]]
      BY DEF Together
    <3>2. pairs[i] = [r \in Ranks |-> pairs[i][r]]
      BY <2>2 DEF AllHands
    <3>3. QED
      BY <2>3, <3>1, <3>2
  <2>5. hand'[c] = pairs[i]
    BY <1>1, <1>3, <2>4
  <2>6. getHardHandValue(pairs[i]) \in Nat
    BY <2>2, ValuesOfAHand
  <2>7. QED
    BY <2>2, <2>5, <2>6 DEF isBusted, BLACKJACK
<1>4. \A c \in Clients : turnShown'.client # c
  BY <1>2, NoTurnAssumption
<1>5. \A c : Seats(c)' = Seats(c)
  BY <1>2 DEF Seats
<1>6. QED
  BY <1>2, <1>3, <1>4, <1>5 DEF SeatInv

LEMMA PlaySeatInv ==
    ASSUME TurnInv, CardInv, SeatInv, NEW c \in Clients, Play(c)
    PROVE  SeatInv'
<1>1. /\ dealt /\ gameRunning /\ players[currentPlayerIndex + 1] = c
      /\ players' = players /\ dealt' = dealt /\ turnShown'.client = c
      /\ Moves \/ Remains
  BY TurnOf
<1>2. /\ currentPlayerIndex \in Nat /\ currentPlayerIndex + 1 \in DOMAIN players
      /\ currentPlayerIndex' \in Nat /\ currentPlayerIndex <= currentPlayerIndex'
      /\ DOMAIN players \subseteq Nat
  <2>0. DOMAIN players = 1 .. Len(players)
    BY SeatsOfClients
  <2>1. /\ Len(players) \in Nat
        /\ currentPlayerIndex \in 0 .. Len(players) /\ currentPlayerIndex # Len(players)
    BY <1>1, SeatsOfClients DEF TurnInv
  <2>2. currentPlayerIndex' = currentPlayerIndex + 1 \/ currentPlayerIndex' = currentPlayerIndex
    BY <1>1 DEF Moves, Remains
  <2>3. /\ currentPlayerIndex \in Nat /\ currentPlayerIndex + 1 \in 1 .. Len(players)
        /\ 1 .. Len(players) \subseteq Nat
    BY <2>1
  <2>4. currentPlayerIndex' \in Nat /\ currentPlayerIndex <= currentPlayerIndex'
    BY <2>2, <2>3
  <2>5. QED
    BY <2>0, <2>3, <2>4
<1>3. \A e : Seats(e)' = Seats(e)
  BY <1>1 DEF Seats
<1>4. ASSUME NEW e \in Clients, NEW i \in DOMAIN players, Seats(e) = {i}, e # c
      PROVE  /\ i > currentPlayerIndex' =>
                   ~isBusted(hand'[e]) /\ (~hit'[e] => Size(hand'[e]) = 2)
             /\ turnShown'.client # e
  <2>1. hand'[e] = hand[e] /\ hit'[e] = hit[e]
    BY <1>4, TurnOf DEF CardInv, CardTypes
  <2>2. i > currentPlayerIndex' => i > currentPlayerIndex
    BY <1>2
  <2>3. QED
    BY <1>1, <1>4, <2>1, <2>2 DEF SeatInv
<1>5. ASSUME NEW i \in DOMAIN players, Seats(c) = {i}
      PROVE  /\ i > currentPlayerIndex' =>
                   ~isBusted(hand'[c]) /\ (~hit'[c] => Size(hand'[c]) = 2)
             /\ (turnShown'.turnType = "hit" /\ turnShown'.result = "ok")
                   <=> i = currentPlayerIndex' + 1
             /\ turnShown'.result = "busted" => isBusted(hand'[c])
             /\ turnShown'.turnType = "doubleDown" => Size(hand'[c]) = 3
  <2>1. i = currentPlayerIndex + 1
    BY <1>1, <1>2, <1>5 DEF Seats
  <2>2. /\ ~isBusted(hand[c]) /\ (~hit[c] => Size(hand[c]) = 2)
        /\ hand[c] \in AllHands
    BY <1>1, <1>2, <1>5, <2>1 DEF SeatInv, CardInv, CardTypes
  <2>3. Moves => ~(i > currentPlayerIndex') /\ i # currentPlayerIndex' + 1
    BY <1>2, <2>1 DEF Moves
  <2>4. Remains => i = currentPlayerIndex' + 1
    BY <2>1 DEF Remains
  <2>5. CASE turnShown'.turnType = "hit"
    <3>1. /\ hit' = [hit EXCEPT ![c] = TRUE]
          /\ \/ isBusted(hand'[c]) /\ Moves /\ turnShown'.result = "busted"
             \/ ~isBusted(hand'[c]) /\ Remains /\ turnShown'.result = "ok"
      BY <2>5, TurnOf
    <3>2. hit'[c]
      BY <3>1 DEF CardInv, CardTypes
    <3>3. QED
      BY <2>3, <2>4, <2>5, <3>1, <3>2
  <2>6. CASE turnShown'.turnType \in {"stand", "skip"}
    <3>1. Moves /\ turnShown'.result = "ok"
      BY <2>6, TurnOf
    <3>2. QED
      BY <2>3, <2>6, <3>1
  <2>7. CASE turnShown'.turnType = "doubleDown"
    <3>1. /\ ~hit[c] /\ Moves
          /\ \E x \in Ranks : hand' = [hand EXCEPT ![c] = AddCard(@, x)]
          /\ turnShown'.result = IF isBusted(hand'[c]) THEN "busted" ELSE "ok"
      BY <2>7, TurnOf
    <3>2. PICK x \in Ranks : hand'[c] = AddCard(hand[c], x)
      BY <3>1 DEF CardInv, CardTypes
    <3>3. Size(hand'[c]) = 3
      BY <2>2, <3>1, <3>2, CountedAddCard, Valuations
    <3>4. QED
      BY <2>3, <2>7, <3>1, <3>3
  <2>8. QED
    BY <2>5, <2>6, <2>7, TurnOf
<1>6. QED
  BY <1>1, <1>3, <1>4, <1>5 DEF SeatInv

LEMMA SeatInvariant == Spec => [](TurnInv /\ CardInv /\ SeatInv)
<1>1. Init => SeatInv
  BY DEF Init, SeatInv
<1>2. ASSUME TurnInv, CardInv, SeatInv, [Next]_vars PROVE SeatInv'
  <2>1. CASE UNCHANGED vars \/ GameOver
    <3>1. UNCHANGED vars
      BY <2>1 DEF GameOver
    <3>2. \A c : Seats(c)' = Seats(c)
      BY <3>1 DEF vars, Seats
    <3>3. QED
      BY <1>2, <3>1, <3>2 DEF vars, SeatInv
  <2>2. CASE DealCards
    BY <1>2, <2>2, DealSeatInv
  <2>3. CASE \E c \in Clients : Play(c)
    BY <1>2, <2>3, PlaySeatInv
  <2>4. QED
    BY <1>2, <2>1, <2>2, <2>3 DEF Next, Play
<1>3. TurnInv /\ CardInv /\ SeatInv /\ [Next]_vars => SeatInv'
  BY <1>2
<1>4. QED
  BY <1>1, <1>3, GameInvariant, PTL DEF Spec

LEMMA OneSeat ==
    ASSUME TurnInv, NEW c, SitsOnce(c)
    PROVE  \E i \in DOMAIN players : Seats(c) = {i}
<1>1. IsFiniteSet(Seats(c)) /\ Seats(c) \subseteq DOMAIN players
  BY SeatsOfClients
<1>2. PICK i : Seats(c) = {i}
  BY <1>1, FS_Singleton DEF SitsOnce
<1>3. QED
  BY <1>1, <1>2

LEMMA WhoseTurn ==
    ASSUME TurnInv, NEW c, NEW i \in DOMAIN players, Seats(c) = {i}
    PROVE  IsTurnOf(c) <=> dealt /\ i = currentPlayerIndex + 1
<1>0. DOMAIN players = 1 .. Len(players)
  BY SeatsOfClients
<1>1. /\ Len(players) \in Nat /\ currentPlayerIndex \in 0 .. Len(players)
      /\ gameRunning <=> currentPlayerIndex # Len(players)
      /\ i \in 1 .. Len(players) /\ players[i] = c
  BY <1>0, SeatsOfClients DEF TurnInv, Seats
<1>2. ASSUME IsTurnOf(c) PROVE dealt /\ i = currentPlayerIndex + 1
  <2>1. currentPlayerIndex + 1 \in 1 .. Len(players)
    BY <1>1, <1>2 DEF IsTurnOf
  <2>2. currentPlayerIndex + 1 \in Seats(c)
    BY <1>0, <1>2, <2>1 DEF IsTurnOf, Seats
  <2>3. QED
    BY <1>2, <2>2 DEF IsTurnOf
<1>3. ASSUME dealt, i = currentPlayerIndex + 1 PROVE IsTurnOf(c)
  <2>1. currentPlayerIndex # Len(players)
    BY <1>1, <1>3
  <2>2. QED
    BY <1>1, <1>3, <2>1 DEF IsTurnOf
<1>4. QED
  BY <1>2, <1>3

(* From the turn that was shown last a client with one seat can tell       *)
(* whether it is its turn, whether it is busted and that a double down was *)
(* its third card.                                                         *)
THEOREM TurnsCanBeFollowed == Spec => []TheTurnCanBeFollowed
<1>1. ASSUME TurnInv, CardInv, SeatInv, NEW c \in Clients, SitsOnce(c), turnShown.client = c
      PROVE  /\ IsTurnOf(c) <=> turnShown.turnType = "hit" /\ turnShown.result = "ok"
             /\ turnShown.result = "busted" => isBusted(hand[c])
             /\ turnShown.turnType = "doubleDown" => Size(hand[c]) = 3
  <2>1. dealt
    BY <1>1, NoTurnAssumption DEF CardInv, NothingDealt
  <2>2. PICK i \in DOMAIN players : Seats(c) = {i}
    BY <1>1, OneSeat
  <2>3. IsTurnOf(c) <=> dealt /\ i = currentPlayerIndex + 1
    BY <1>1, <2>2, WhoseTurn
  <2>4. QED
    BY <1>1, <2>1, <2>2, <2>3 DEF SeatInv
<1>2. TurnInv /\ CardInv /\ SeatInv => TheTurnCanBeFollowed
  BY <1>1 DEF TheTurnCanBeFollowed
<1>3. QED
  BY <1>2, SeatInvariant, PTL

(* A client with one seat draws on its turn only, with a hand that is not  *)
(* busted, and doubles then only with two cards.                           *)
LEMMA OnItsTurn ==
    ASSUME TurnInv, CardInv, SeatInv, NEW c \in Clients, SitsOnce(c), Play(c)
    PROVE  ~isBusted(hand[c]) /\ (~hit[c] => Size(hand[c]) = 2)
<1>1. PICK i \in DOMAIN players : Seats(c) = {i}
  BY OneSeat
<1>2. dealt /\ IsTurnOf(c)
  BY TurnOf DEF IsTurnOf
<1>3. i = currentPlayerIndex + 1 /\ currentPlayerIndex \in Nat
  <2>1. i = currentPlayerIndex + 1
    BY <1>1, <1>2, WhoseTurn
  <2>2. QED
    BY <2>1, SeatsOfClients DEF TurnInv
<1>4. QED
  BY <1>1, <1>2, <1>3 DEF SeatInv

(* A client with one seat that is busted gets no further card. *)
THEOREM TheBustedDrawNoMore == Spec => BustedDrawNoMore
<1>1. ASSUME TurnInv, CardInv, SeatInv, [Next]_vars, NEW c \in Clients,
             SitsOnce(c), isBusted(hand[c])
      PROVE  hand'[c] = hand[c]
  <2>1. CASE UNCHANGED vars \/ GameOver
    BY <2>1 DEF GameOver, vars
  <2>2. CASE DealCards
    <3>1. hand[c] = EmptyHand
      BY <1>1, <2>2 DEF DealCards, CardInv, NothingDealt
    <3>2. getHardHandValue(hand[c]) = 0
      BY <3>1, CountedEmpty, Valuations DEF getHardHandValue
    <3>3. QED
      BY <1>1, <3>2 DEF isBusted, BLACKJACK
  <2>3. ASSUME NEW e \in Clients, Play(e) PROVE hand'[c] = hand[c]
    <3>1. e # c
      BY <1>1, <2>3, OnItsTurn
    <3>2. QED
      BY <1>1, <2>3, <3>1, TurnOf DEF CardInv, CardTypes
  <2>4. QED
    BY <1>1, <2>1, <2>2, <2>3 DEF Next, Play
<1>2. TurnInv /\ CardInv /\ SeatInv /\ [Next]_vars
        => [\A c \in Clients : SitsOnce(c) /\ isBusted(hand[c]) => hand'[c] = hand[c]]_vars
  BY <1>1
<1>3. QED
  BY <1>2, SeatInvariant, PTL DEF Spec, BustedDrawNoMore

(* A client with one seat doubles its bet at most once: with its first two *)
(* cards, for the third, and it is not its turn any more.                  *)
THEOREM DoublesOnThreeCards == Spec => DoubledOnThreeCards
<1>1. ASSUME TurnInv, CardInv, SeatInv, [Next]_vars, (TurnInv)', NEW c \in Clients,
             SitsOnce(c), bet'[c] # bet[c]
      PROVE  /\ bet'[c] = 2 * bet[c]
             /\ Size(hand[c]) = 2 /\ Size(hand'[c]) = 3
             /\ ~ IsTurnOf(c)'
  <2>1. PICK e \in Clients : Play(e)
    BY <1>1 DEF Next, Play, DealCards, GameOver, vars
  <2>2. e = c
    BY <1>1, <2>1, TurnOf DEF CardInv, CardTypes
  <2>3. /\ ~hit[c] /\ Moves
        /\ \E x \in Ranks : hand' = [hand EXCEPT ![c] = AddCard(@, x)]
        /\ bet' = [bet EXCEPT ![c] = 2 * @]
        /\ players' = players /\ dealt /\ IsTurnOf(c)
    BY <1>1, <2>1, <2>2, TurnOf DEF IsTurnOf
  <2>4. PICK x \in Ranks : hand'[c] = AddCard(hand[c], x)
    BY <1>1, <2>3 DEF CardInv, CardTypes
  <2>5. Size(hand[c]) = 2 /\ hand[c] \in AllHands
    BY <1>1, <2>1, <2>2, <2>3, OnItsTurn DEF CardInv, CardTypes
  <2>6. Size(hand'[c]) = 3
    BY <2>4, <2>5, CountedAddCard, Valuations
  <2>7. bet'[c] = 2 * bet[c]
    BY <1>1, <2>3 DEF CardInv, CardTypes
  <2>8. ~ IsTurnOf(c)'
    <3>1. PICK i \in DOMAIN players : Seats(c) = {i}
      BY <1>1, OneSeat
    <3>2. i = currentPlayerIndex + 1 /\ currentPlayerIndex \in Nat
      <4>1. i = currentPlayerIndex + 1
        BY <1>1, <2>3, <3>1, WhoseTurn
      <4>2. QED
        BY <1>1, <4>1, SeatsOfClients DEF TurnInv
    <3>3. currentPlayerIndex' = currentPlayerIndex + 1
      BY <2>3 DEF Moves
    <3>4. SUFFICES ASSUME IsTurnOf(c)' PROVE FALSE
      OBVIOUS
    <3>5. gameRunning' /\ players[currentPlayerIndex' + 1] = c
      BY <2>3, <3>4 DEF IsTurnOf
    <3>6. currentPlayerIndex' + 1 \in DOMAIN players
      <4>1. /\ currentPlayerIndex' # Len(players) /\ currentPlayerIndex' \in 0 .. Len(players)
            /\ Len(players) \in Nat
        BY <1>1, <2>3, <3>5, SeatsOfClients DEF TurnInv
      <4>2. currentPlayerIndex' + 1 \in 1 .. Len(players)
        <5>1. \A n \in Nat : \A k \in 0 .. n : k # n => k + 1 \in 1 .. n
          OBVIOUS
        <5>2. QED
          BY <4>1, <5>1
      <4>3. QED
        BY <1>1, <4>2, SeatsOfClients
    <3>7. currentPlayerIndex' + 1 = i
      BY <3>1, <3>5, <3>6 DEF Seats
    <3>8. QED
      BY <3>2, <3>3, <3>7
  <2>9. QED
    BY <2>5, <2>6, <2>7, <2>8
<1>2. TurnInv /\ CardInv /\ SeatInv /\ [Next]_vars /\ TurnInv'
        => [\A c \in Clients :
               SitsOnce(c) /\ bet'[c] # bet[c] =>
                   /\ bet'[c] = 2 * bet[c]
                   /\ Size(hand[c]) = 2 /\ Size(hand'[c]) = 3
                   /\ ~ IsTurnOf(c)']_vars
  BY <1>1
<1>3. QED
  BY <1>2, SeatInvariant, PTL DEF Spec, DoubledOnThreeCards

-----------------------------------------------------------------------------
(* The deck. *)

(* What each seat may leave its client with: 21, and ten more when its     *)
(* turn has passed.                                                        *)
Shares == [i \in DOMAIN players |-> IF i <= currentPlayerIndex THEN 31 ELSE 21]
Limit(c) == SumFunctionOnSet(Shares, Seats(c))
WithinLimits == \A c \in Clients : getHardHandValue(hand[c]) <= Limit(c)

LEMMA Limits ==
    ASSUME TurnInv, NEW c
    PROVE  /\ Limit(c) \in Nat
           /\ \A i \in Seats(c) : Shares[i] <= Limit(c)
           /\ \A i \in DOMAIN players : Shares[i] \in Nat /\ 21 <= Shares[i] /\ Shares[i] <= 31
<1>1. \A i \in DOMAIN players : Shares[i] \in Nat /\ 21 <= Shares[i] /\ Shares[i] <= 31
  BY DEF Shares
<1>2. IsFiniteSet(Seats(c)) /\ \A i \in Seats(c) : Shares[i] \in Nat
  BY <1>1, SeatsOfClients
<1>3. QED
  BY <1>1, <1>2, SumNat DEF Limit

LEMMA DealWithinLimits ==
    ASSUME TurnInv, CardInv, DealCards
    PROVE  WithinLimits'
<1>1. PICK pairs \in [0 .. Len(players) -> CardPairs] :
         hand' = [c \in Clients |-> Together(pairs, Seats(c))]
  BY Dealt DEF CardInv
<1>2. players' = players /\ currentPlayerIndex' = currentPlayerIndex
  BY Dealt DEF CardInv
<1>3. ASSUME NEW c \in Clients PROVE getHardHandValue(Together(pairs, Seats(c))) <= Limit(c)
  <2> DEFINE v == [i \in Seats(c) |-> Counted(pairs[i], rankValues)]
  <2>1. IsFiniteSet(Seats(c)) /\ Seats(c) \subseteq DOMAIN players
    BY SeatsOfClients
  <2>2. ASSUME NEW i \in Seats(c)
        PROVE  /\ pairs[i] \in AllHands
               /\ v[i] \in Int /\ Shares[i] \in Int /\ v[i] <= Shares[i]
               /\ v[i] = Counted(pairs[i], rankValues)
    <3>1. i \in 0 .. Len(players)
      BY SeatsOfClients
    <3>2. /\ pairs[i] \in AllHands /\ getHardHandValue(pairs[i]) <= 20
          /\ getHardHandValue(pairs[i]) \in Nat
      BY <3>1, PairOfCards, ValuesOfAHand
    <3>3. Shares[i] \in Nat /\ 21 <= Shares[i]
      BY <2>1, Limits
    <3>4. QED
      BY <3>2, <3>3 DEF getHardHandValue
  <2> HIDE DEF v
  <2>3. Counted(Together(pairs, Seats(c)), rankValues) = SumFunctionOnSet(v, Seats(c))
    BY <2>1, <2>2, CountedTogether, Valuations
  <2>4. SumFunctionOnSet(v, Seats(c)) <= SumFunctionOnSet(Shares, Seats(c))
    BY <2>1, <2>2, SumAtMost
  <2>5. QED
    BY <2>3, <2>4 DEF getHardHandValue, Limit
<1>4. \A c : Limit(c)' = Limit(c)
  BY <1>2 DEF Limit, Shares, Seats
<1>5. QED
  BY <1>1, <1>3, <1>4 DEF WithinLimits

LEMMA PlayWithinLimits ==
    ASSUME TurnInv, CardInv, WithinLimits, NEW c \in Clients, Play(c)
    PROVE  WithinLimits'
<1> DEFINE s == currentPlayerIndex + 1
<1>1. players' = players /\ (Moves \/ Remains)
  BY TurnOf
<1>2. s \in Seats(c) /\ currentPlayerIndex \in Nat /\ DOMAIN players \subseteq Nat
  <2>1. /\ Len(players) \in Nat /\ currentPlayerIndex \in 0 .. Len(players)
        /\ currentPlayerIndex # Len(players) /\ players[s] = c
    BY TurnOf, SeatsOfClients DEF TurnInv
  <2>2. s \in 1 .. Len(players)
    BY <2>1
  <2>3. s \in Seats(c)
    BY <2>1, <2>2, SeatsOfClients
  <2>4. currentPlayerIndex \in Nat
    BY <2>1
  <2>5. \A i \in 1 .. Len(players) : i \in Nat
    BY <2>1
  <2>6. QED
    BY <2>3, <2>4, <2>5, SeatsOfClients
<1>3. \A e : Seats(e)' = Seats(e)
  BY <1>1 DEF Seats
<1>4. ASSUME NEW i \in DOMAIN players
      PROVE  /\ Shares[i] \in Int /\ Shares'[i] \in Int /\ Shares[i] <= Shares'[i]
             /\ Moves => Shares'[i] = IF i = s THEN Shares[i] + 10 ELSE Shares[i]
             /\ i = s => Shares[i] = 21
  BY <1>1, <1>2 DEF Shares, Moves, Remains
<1>5. ASSUME NEW e \in Clients PROVE Limit(e) <= Limit(e)' /\ Limit(e) \in Nat
  <2>1. IsFiniteSet(Seats(e)) /\ Seats(e) \subseteq DOMAIN players
    BY SeatsOfClients
  <2>2. SumFunctionOnSet(Shares, Seats(e)) <= SumFunctionOnSet(Shares', Seats(e))
    BY <1>4, <2>1, SumAtMost
  <2>3. QED
    BY <1>3, <2>2, Limits DEF Limit
<1>6. ASSUME Moves PROVE Limit(c)' = Limit(c) + 10
  <2>1. IsFiniteSet(Seats(c)) /\ Seats(c) \subseteq DOMAIN players
    BY SeatsOfClients
  <2>2. /\ \A i \in Seats(c) : Shares[i] \in Int
        /\ \A i \in Seats(c) \ {s} : Shares'[i] = Shares[i]
        /\ Shares'[s] = Shares[s] + 10
    BY <1>2, <1>4, <1>6, <2>1
  <2> DEFINE k == 10
             f == Shares
             g == Shares'
             S == Seats(c)
  <2>k. k \in Int /\ s \in S /\ g[s] = f[s] + k
    BY <1>2, <2>2
  <2>i. IsFiniteSet(S) /\ (\A i \in S : f[i] \in Int) /\ \A i \in S \ {s} : g[i] = f[i]
    BY <2>1, <2>2
  <2> HIDE DEF s, f, g, S, k
  <2>s. SumFunctionOnSet(g, S) = SumFunctionOnSet(f, S) + k
    BY <2>k, <2>i, SumChange
  <2>3. SumFunctionOnSet(Shares', Seats(c)) = SumFunctionOnSet(Shares, Seats(c)) + 10
    BY <2>s DEF f, g, S, k
  <2>4. QED

    BY <1>3, <2>3 DEF Limit
<1>7. 21 <= Limit(c)
  <2>1. s \in DOMAIN players
    BY <1>2, SeatsOfClients
  <2>2. Shares[s] = 21 /\ Shares[s] <= Limit(c)
    BY <1>2, <1>4, <2>1, Limits
  <2>3. QED
    BY <2>2
<1>8. hand[c] \in AllHands /\ getHardHandValue(hand[c]) \in Nat
      /\ getHardHandValue(hand[c]) <= Limit(c)
  BY ValuesOfAHand DEF CardInv, CardTypes, WithinLimits
<1>9. getHardHandValue(hand'[c]) <= Limit(c)'
  <2>1. CASE hand' = hand
    <3>1. Limit(c) \in Nat /\ Limit(c) <= Limit(c)' /\ (Limit(c)' = Limit(c) \/ Limit(c)' = Limit(c) + 10)
      <4>1. Remains => Limit(c)' = Limit(c)
        BY <1>1 DEF Remains, Limit, Shares, Seats
      <4>2. QED
        BY <1>1, <1>5, <1>6, <4>1
    <3>2. QED
      BY <1>8, <2>1, <3>1
  <2>2. ASSUME NEW x \in Ranks, hand' = [hand EXCEPT ![c] = AddCard(@, x)]
        PROVE  getHardHandValue(hand'[c]) <= Limit(c)'
    <3>1. hand'[c] = AddCard(hand[c], x)
      BY <2>2 DEF CardInv, CardTypes
    <3>2. /\ getHardHandValue(hand'[c]) = getHardHandValue(hand[c]) + rankValues[x]
          /\ rankValues[x] \in Nat /\ rankValues[x] <= 10
      BY <1>8, <3>1, CountedAddCard, Valuations, RankValues DEF getHardHandValue
    <3>3. CASE Moves
      BY <1>5, <1>6, <1>8, <3>2, <3>3
    <3>4. CASE ~ Moves
      <4>1. ~isBusted(hand'[c]) /\ Remains
        BY <3>4, TurnOf
      <4>2. Limit(c)' = Limit(c)
        BY <1>1, <4>1 DEF Remains, Limit, Shares, Seats
      <4>3. getHardHandValue(hand'[c]) \in Nat /\ ~(getHardHandValue(hand'[c]) > 21)
        BY <1>8, <3>2, <4>1 DEF isBusted, BLACKJACK
      <4>4. QED
        BY <1>5, <1>7, <4>2, <4>3
    <3>5. QED
      BY <3>3, <3>4
  <2>3. QED
    BY <2>1, <2>2, TurnOf
<1>10. ASSUME NEW e \in Clients, e # c PROVE getHardHandValue(hand'[e]) <= Limit(e)'
  <2>1. hand'[e] = hand[e]
    BY <1>10, TurnOf DEF CardInv, CardTypes
  <2>2. /\ getHardHandValue(hand[e]) \in Nat /\ getHardHandValue(hand[e]) <= Limit(e)
        /\ Limit(e) \in Nat /\ Limit(e) <= Limit(e)'
    BY <1>5, ValuesOfAHand DEF CardInv, CardTypes, WithinLimits
  <2>3. Limit(e)' \in Int
    <3>1. /\ IsFiniteSet(Seats(e)) /\ \A i \in Seats(e) : Shares'[i] \in Int
      BY <1>4, SeatsOfClients
    <3>2. SumFunctionOnSet(Shares', Seats(e)) \in Int
      BY <3>1, SumWithout
    <3>3. QED
      BY <1>3, <3>2 DEF Limit
  <2>4. QED
    BY <2>1, <2>2, <2>3
<1>11. QED
  BY <1>9, <1>10 DEF WithinLimits

LEMMA LimitsInvariant == Spec => [](TurnInv /\ CardInv /\ WithinLimits)
<1>1. ASSUME Init PROVE WithinLimits
  <2>1. \A c \in Clients : hand[c] = EmptyHand
    BY <1>1 DEF Init
  <2>2. getHardHandValue(EmptyHand) = 0
    BY CountedEmpty, Valuations DEF getHardHandValue
  <2>3. \A c \in Clients : Limit(c) \in Nat
    BY <1>1, InitTurnInv, Limits
  <2>4. QED
    BY <2>1, <2>2, <2>3 DEF WithinLimits
<1>2. ASSUME TurnInv, CardInv, WithinLimits, [Next]_vars PROVE WithinLimits'
  <2>1. CASE UNCHANGED vars \/ GameOver
    <3>1. hand' = hand /\ players' = players /\ currentPlayerIndex' = currentPlayerIndex
      BY <2>1 DEF GameOver, vars
    <3>2. \A c : Limit(c)' = Limit(c)
      BY <3>1 DEF Limit, Shares, Seats
    <3>3. QED
      BY <1>2, <3>1, <3>2 DEF WithinLimits
  <2>2. CASE DealCards
    BY <1>2, <2>2, DealWithinLimits
  <2>3. CASE \E c \in Clients : Play(c)
    BY <1>2, <2>3, PlayWithinLimits
  <2>4. QED
    BY <1>2, <2>1, <2>2, <2>3 DEF Next, Play
<1>3. TurnInv /\ CardInv /\ WithinLimits /\ [Next]_vars => WithinLimits'
  BY <1>2
<1>4. QED
  BY <1>1, <1>3, GameInvariant, PTL DEF Spec

(* What the clients hold together counts 31 for each seat at the most.     *)
LEMMA TheHandsAreBounded ==
    ASSUME TurnInv, CardInv, WithinLimits
    PROVE  /\ getHardHandValue(Together(hand, Clients)) \in Nat
           /\ getHardHandValue(Together(hand, Clients)) <= 31 * Len(players)
<1> DEFINE n == Len(players)
           I == 1 .. n
           v == [c \in Clients |-> Counted(hand[c], rankValues)]
           l == [c \in Clients |-> SumFunctionOnSet(Shares, {i \in I : players[i] = c})]
           k == 31
           most == [i \in I |-> k]
<1>1. n \in Nat /\ DOMAIN players = I /\ IsFiniteSet(I) /\ players \in [I -> Clients]
  BY SeatsOfClients
<1>2. \A c \in Clients : hand[c] \in AllHands
  BY DEF CardInv, CardTypes
<1>3. ASSUME NEW c \in Clients PROVE v[c] \in Int /\ l[c] \in Int /\ v[c] <= l[c]
  <2>1. l[c] = Limit(c)
    BY SeatsOfClients DEF Limit
  <2>2. Limit(c) \in Nat /\ getHardHandValue(hand[c]) \in Nat
    BY <1>2, Limits, ValuesOfAHand
  <2>3. QED
    BY <2>1, <2>2 DEF WithinLimits, getHardHandValue
<1>4. ASSUME NEW i \in I
      PROVE  Shares[i] \in Int /\ most[i] \in Int /\ most[i] = k /\ Shares[i] <= most[i]
  BY <1>1, Limits
<1>5. Cardinality(I) = n
  <2>1. Cardinality(1 .. n) = IF 1 > n THEN 0 ELSE n - 1 + 1
    <3>1. 1 \in Int /\ n \in Int
      BY <1>1
    <3> HIDE DEF n
    <3>2. QED
      BY <3>1, FS_Interval
  <2> HIDE DEF n
  <2>2. QED
    BY <1>1, <2>1

<1>6. \A c \in Clients : v[c] = Counted(hand[c], rankValues)
  OBVIOUS
<1>7. k \in Int
  OBVIOUS
<1>8. SumFunctionOnSet(l, Clients) = SumFunctionOnSet(Shares, I)
  <2>1. \A i \in I : Shares[i] \in Int
    BY <1>4
  <2> HIDE DEF I, n, k, most, v
  <2>2. QED
    BY <1>1, <2>1, ClientsAssumption, SumOfShares
<1> HIDE DEF n, I, v, l, k, most
<1>9. Counted(Together(hand, Clients), rankValues) = SumFunctionOnSet(v, Clients)
  BY <1>2, <1>6, ClientsAssumption, CountedTogether, Valuations
<1>10. SumFunctionOnSet(v, Clients) <= SumFunctionOnSet(l, Clients)
  BY <1>3, ClientsAssumption, SumAtMost
<1>11. SumFunctionOnSet(Shares, I) <= SumFunctionOnSet(most, I)
  BY <1>1, <1>4, SumAtMost
<1>12. SumFunctionOnSet(most, I) = k * n
  BY <1>1, <1>4, <1>5, <1>7, SumConstant
<1>13. Together(hand, Clients) \in AllHands
  BY <1>2, ClientsAssumption, TogetherWith
<1>14. getHardHandValue(Together(hand, Clients)) \in Nat
  BY <1>13, ValuesOfAHand
<1>15. SumFunctionOnSet(v, Clients) \in Int /\ SumFunctionOnSet(l, Clients) \in Int
       /\ SumFunctionOnSet(Shares, I) \in Int /\ SumFunctionOnSet(most, I) \in Int
  BY <1>1, <1>3, <1>4, ClientsAssumption, SumWithout
<1>16. SumFunctionOnSet(v, Clients) <= k * n
  BY <1>8, <1>10, <1>11, <1>12, <1>15
<1>17. QED
  BY <1>9, <1>14, <1>16 DEF getHardHandValue, k, n

(* While turns are left there is a card to draw, however the players hit,  *)
(* double and stand, if the deck counts enough for the seats: 52 cards for *)
(* ten.                                                                    *)
THEOREM TheDeckLasts == ASSUME EnoughCards PROVE Spec => []DeckLasts
<1>1. ASSUME TurnInv, CardInv, WithinLimits, gameRunning, \A r \in Ranks : ~ (deck[r] > 0)
      PROVE  FALSE
  <2> DEFINE full == [r \in Ranks |-> Copies]
             held == Together(hand, Clients)
  <2>1. dealer \in AllHands /\ held \in AllHands
    <3>1. \A c \in Clients : hand[c] \in AllHands
      BY <1>1 DEF CardInv, CardTypes
    <3>2. QED
      BY <1>1, <3>1, ClientsAssumption, TogetherWith DEF CardInv, CardTypes
  <2>2. ASSUME NEW r \in Ranks PROVE full[r] = dealer[r] + held[r]
    <3>1. deck[r] = 0
      BY <1>1 DEF CardInv, CardTypes, Decks
    <3>2. held[r] = InHands(r)
      BY DEF Together, InHands
    <3>3. dealer[r] \in Nat /\ held[r] \in Nat
      BY <2>1 DEF AllHands
    <3>4. deck[r] + dealer[r] + InHands(r) = Copies
      BY <1>1 DEF CardInv, CardsInPlace
    <3> HIDE DEF held
    <3>5. deck[r] + dealer[r] + InHands(r) = dealer[r] + held[r]
      BY <3>1, <3>2, <3>3
    <3>6. QED
      BY <3>4, <3>5
  <2>3. getHardHandValue(dealer) \in Nat /\ getHardHandValue(dealer) <= 20
    <3>1. CASE dealt
      <4>1. Size(dealer) = 2
        BY <1>1, <3>1 DEF CardInv, DealerInv
      <4>2. Counted(dealer, rankValues) <= 10 * Size(dealer)
        <5>1. \A r \in Ranks : rankValues[r] <= 10
          BY RankValues
        <5>2. QED
          BY <2>1, <5>1, CountedAtMost, Valuations
      <4>3. QED
        BY <2>1, <4>1, <4>2, ValuesOfAHand DEF getHardHandValue
    <3>2. CASE ~ dealt
      BY <1>1, <3>2, CountedEmpty, Valuations DEF CardInv, NothingDealt, getHardHandValue
    <3>3. QED
      BY <3>1, <3>2
  <2>4. getHardHandValue(held) \in Nat /\ getHardHandValue(held) <= 31 * Len(players)
    BY <1>1, TheHandsAreBounded
  <2>5. getHardHandValue(full) > 31 * MaxSeats + 20
    BY DEF EnoughCards
  <2> HIDE DEF full, held
  <2>6. getHardHandValue(full) = getHardHandValue(dealer) + getHardHandValue(held)
    BY <2>1, <2>2, CountedPlus, Valuations DEF getHardHandValue
  <2>7. Len(players) \in Nat /\ Len(players) <= MaxSeats /\ MaxSeats \in Nat
    BY <1>1, SeatsOfClients, SeatsAssumption DEF TurnInv
  <2>8. QED
    BY <2>3, <2>4, <2>5, <2>6, <2>7
<1>2. TurnInv /\ CardInv /\ WithinLimits => DeckLasts
  BY <1>1 DEF DeckLasts
<1>3. QED
  BY <1>2, LimitsInvariant, PTL
===============================================================================
