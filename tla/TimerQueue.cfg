SPECIFICATION FairSpec
CONSTANTS
    Timers <- MCTimers
    Objs = {1, 2}
    obj <- MCObj
    Intervals = {0, 1, 2}
    MaxNow = 2
    AppOps = {"add", "remove", "removeObj"}
    CallbackOps = {"add", "remove", "removeObj"}
    NoTimer = NoTimer
CHECK_DEADLOCK FALSE
INVARIANTS TimersKept
PROPERTIES FiredOncePerPoll PollReturns
