\* One lobby, two clients and every message they can send, one in a round, with
\* what they are shown.
SPECIFICATION ViewSpec
CONSTANTS
    Clients = {c1, c2}
    LobbyCount = 1
    MAX_CLIENTS_PER_LOBBY = 2
    MessageTypes = {"ready", "confirm", "badBet", "decline", "stand", "hit", "doubleDown", "badTurn"}
    MaxMessages = 1
    MaxReady = 2
    MaxConfirmed = 2
SYMMETRY Symmetry
INVARIANTS TypeOK GameConsistent NothingLeftOver
INVARIANTS ScreensFollow ListsAreCurrent BoardsAreCurrent ResultsReachThePlayers
