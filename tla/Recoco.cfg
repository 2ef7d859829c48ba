\* A task that selects and blocks, one that sleeps until it is woken, a
\* timer and the task of callLater(); one ScheduleTask at a time.
CONSTANTS
    Io = {"io"}
    Sleepers = {"sleeper"}
    Blockers = {"io"}
    Timers = {"timer"}
    Caller = "caller"
    Wakers = {"w"}
    MaxCalls = 2
SPECIFICATION FairSpec
INVARIANT TasksKept
PROPERTY EventuallyRuns
CHECK_DEADLOCK FALSE
