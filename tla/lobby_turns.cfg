\* One lobby, two clients and two messages in a round, so that turns pile up.
SPECIFICATION Spec
CONSTANTS
    Clients = {c1, c2}
    LobbyCount = 1
    MAX_CLIENTS_PER_LOBBY = 2
    MessageTypes = {"ready", "confirm", "hit"}
    MaxMessages = 2
    MaxReady = 2
    MaxConfirmed = 2
SYMMETRY Symmetry
INVARIANT CurrentPlayerPrompted
PROPERTIES TurnsInOrder LobbiesAreTables
