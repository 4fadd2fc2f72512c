\* Lobby.cpp:111
SPECIFICATION Spec
CONSTANTS
    Clients = {c1, c2}
    LobbyCount = 1
    MAX_CLIENTS_PER_LOBBY = 2
    MessageTypes = {"ready"}
    MaxMessages = 1
    MaxReady = 2
    MaxConfirmed = 2
SYMMETRY Symmetry
PROPERTY PreparedWhenAllHaveVoted
