\* Two pages of one browser or of two, two connections, a message, a fault, a clear.
SPECIFICATION MCSpec
CONSTANTS
    Sessions = {s1, s2}
    Sockets = {1, 2}
    Pages = {p1, p2}
    Messages = {m1}
    Workers = {w1}
    MaxFaults = 1
    MaxClears = 1
    NoSession = NoSession
    NoSocket = NoSocket
    NoPage = NoPage
    p1 = p1
    s1 = s1
INVARIANTS
    TypeOK
PROPERTIES
    ImplementsChat
    SpinnersCease
    MessagesConclude
CHECK_DEADLOCK FALSE
