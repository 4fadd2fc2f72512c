\* Two lobbies, of which one plays, and clients that go from one to the other
\* with votes, bets and removals left behind, with what they are shown.
SPECIFICATION ViewSpec
CONSTANTS
    Clients = {c1, c2}
    LobbyCount = 2
    MAX_CLIENTS_PER_LOBBY = 2
    MessageTypes = {"ready", "confirm"}
    MaxMessages = 1
    MaxReady = 2
    MaxConfirmed = 2
SYMMETRY Symmetry
CONSTRAINT OthersWait
INVARIANTS LobbyIdIsASeat OfflineAreScheduled AutoSkippedHaveLeft
INVARIANTS ScreensFollow ListsAreCurrent
PROPERTY LobbiesKeepSessions
