\* PlayerInfo.h:109
SPECIFICATION Spec
CONSTANTS
    Clients = {c1, c2}
    Ranks = {"ACE", "FIVE", "NINE", "TEN"}
    Copies = 4
    MaxSeats = 2
    AskedBets = {1001}
SYMMETRY Symmetry
INVARIANT TotalIsClosestTo21
