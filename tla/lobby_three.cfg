\* One lobby and three clients, one of which may be left out of a game.
SPECIFICATION Spec
CONSTANTS
    Clients = {c1, c2, c3}
    LobbyCount = 1
    MAX_CLIENTS_PER_LOBBY = 3
    MessageTypes = {"ready", "confirm", "badBet", "decline"}
    MaxMessages = 1
    MaxReady = 2
    MaxConfirmed = 2
SYMMETRY Symmetry
INVARIANT MembersPlay
PROPERTIES SeatsAreKept VotesStartOver
