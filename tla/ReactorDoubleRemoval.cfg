SPECIFICATION SafeSpec
CONSTANTS
    Conns = {c1, c2}
    Fds = {d1, d2}
    NumSubs = 1
    auto_shutdown = TRUE
    Replies = {"page", "pageclose"}
    Behaviour = {"send", "close", "reset", "read"}
    NoConn = NoConn
    NoFd = NoFd
SYMMETRY Symmetry
CHECK_DEADLOCK FALSE
INVARIANT RemovalAssertionsHold
