\* Two seats, of two clients or of one, and four ranks.
SPECIFICATION Spec
CONSTANTS
    Clients = {c1, c2}
    Ranks = {"ACE", "FIVE", "NINE", "TEN"}
    Copies = 4
    MaxSeats = 2
    AskedBets = {1001}
SYMMETRY Symmetry
INVARIANTS TypeOK DeckLasts TheTurnCanBeFollowed CardsAreInOnePlace DealerPlaysLast WinnersBeatTheDealer BlackjackKeepsTheBet
PROPERTIES PlaysAsATable BustedDrawNoMore DoubledOnThreeCards
