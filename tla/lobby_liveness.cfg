\* Fair scheduling and time limits that expire.
SPECIFICATION FairSpec
CONSTANTS
    Clients = {c1, c2}
    LobbyCount = 1
    MAX_CLIENTS_PER_LOBBY = 2
    MessageTypes = {"ready", "confirm"}
    MaxMessages = 1
    MaxReady = 2
    MaxConfirmed = 2
PROPERTIES GamesEnd OfflineSeatsAreFreed
