SPECIFICATION MCSpec
CONSTANTS
    Funcs = {f1, f2, f3, f4}
    Callers = {t1, t2}
    Owner = owner
    NoThread = NoThread
    Channels = {c1, c2}
    WakeupChannel = wakeupch
    MaxEvents = 2
    Tasks = {k1, k2, k3, k4}
    Users = {u1, u2}
    PoolSize = 2
    NoTask = NoTask
    numThreads = 3
    NoLoop = NoLoop
    Files <- MCFiles
    Order <- MCOrder
    Skipped <- MCSkipped
    Selections <- MCSelections
    MaxTask = 2
    NoFile = NoFile
CHECK_DEADLOCK FALSE
INVARIANTS
    PartsTypeOK
    NoLostWakeup
    WakeupReadSucceeds
    PoolServes
    LoopsAreReady
    ExitCodeTells
PROPERTIES
    ImplementsExecutor
    PoolImplementsExecutor
    WaitsEnd
