\* Two users, two descriptors and every kind of line, two of them waiting at a time.
SPECIFICATION FairSpec
CONSTANTS
    Usernames = {u1, u2}
    Descriptors = {4, 5}
    MessageKinds = {"login", "illegalLogin", "request", "response", "ping", "broken"}
    MaxInbox = 2
INVARIANTS TypeOK DescriptorsAccounted ClientsHaveTheirConnection NoConnectionIsLeftBehind
PROPERTIES TheHeardStayConnected ServerKeepsSessions HungUpAreClosed
