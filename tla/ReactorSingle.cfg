SPECIFICATION Spec
CONSTANTS
    Conns = {c1}
    Fds = {d1}
    NumSubs = 1
    auto_shutdown = TRUE
    Replies = {"bad", "page", "pageclose", "file", "fileclose", "partial"}
    Behaviour = {"send", "close", "reset", "read"}
    NoConn = NoConn
    NoFd = NoFd
CHECK_DEADLOCK FALSE
INVARIANT NoStrandedData
PROPERTY ClosedPeerIsReleased
