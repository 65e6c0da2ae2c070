SPECIFICATION MCOutputSpec
CONSTANTS
    KPREPENDINDEX = 2
    MaxBytes = 9
    Sizes = {0, 1, 3}
    SocketRoom = 3
    MaxReplies = 3
    NoLength = NoLength
    Requests <- MCRequests
CHECK_DEADLOCK FALSE
INVARIANT
    ContentIsQueue
