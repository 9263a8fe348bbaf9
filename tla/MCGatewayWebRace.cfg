\* Two messages and one reply at once: is the reply kept?
SPECIFICATION Spec
CONSTANTS
    Sessions = {s1}
    Sockets = {k1}
    Posts = {p1, p2}
    Callbacks = {b1}
    Clears = {}
    MaxMessages = 5
    MayFail = FALSE
    NoPost = NoPost
    NoSession = NoSession
    NoSocket = NoSocket
INVARIANTS
    ReplyIsPersisted
CHECK_DEADLOCK FALSE
