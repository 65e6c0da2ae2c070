SPECIFICATION SafeSpec
CONSTANTS
    Conns = {c1, c2}
    Fds = {d1, d2}
    NumSubs = 1
    auto_shutdown = TRUE
    Replies = {"page", "pageclose"}
    Behaviour = {"send"}
    NoConn = NoConn
    NoFd = NoFd
SYMMETRY Symmetry
VIEW View
CHECK_DEADLOCK FALSE
INVARIANTS
    TypeOK
    NoDanglingChannel
    AssertionsFailOnlyOnDoubleRemoval
PROPERTY OnlyOwnRemovalErases
