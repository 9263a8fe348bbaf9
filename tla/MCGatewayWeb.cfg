\* Two sessions and two sockets: messages, a callback, a clear, restarts, failures.
SPECIFICATION Spec
CONSTANTS
    Sessions = {s1, s2}
    Sockets = {k1, k2}
    Posts = {p1, p2}
    Callbacks = {b1}
    Clears = {x1}
    MaxMessages = 2
    MayFail = TRUE
    NoPost = NoPost
    NoSession = NoSession
    NoSocket = NoSocket
SYMMETRY Symmetry
INVARIANTS
    TypeOK
    StoredBeforeForwarded
    EmptyFileHasWriter
    RightSession
    HistoryIsGenuine
    EntryIsLive
    NewestIsRegistered
CHECK_DEADLOCK FALSE
