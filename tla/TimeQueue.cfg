SPECIFICATION Spec
CONSTANTS
    Timers = {1, 2, 3, 4}
    Delays = {1, 3}
    Repeating = {2}
    Interval = 2
    Jumps <- MCJumps
    MaxJumps = 1
    NoTime = NoTime
    NoTimer = NoTimer
INVARIANTS
    TypeOK
    TimerfdInStep
PROPERTIES
    OnlyNewTimersAreLost
    EveryTimerRuns
