\* Server.cpp:140
SPECIFICATION Spec
CONSTANTS
    Usernames = {u1, u2}
    Descriptors = {4}
    MessageKinds = {"login", "ping"}
    MaxInbox = 2
SYMMETRY Symmetry
PROPERTY PingsKeepTheConnection
