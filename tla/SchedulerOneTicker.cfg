CONSTANTS
    Tickers = {"loop"}
    Loop = "loop"
    NoJob = "none"
    Jobs = {"a", "legacy"}
    Tasks = {"a"}
    Defaults = {"a"}
    Schedules = {"hourly", "cron"}
    Delays <- MCDelays
    DefaultSchedule = "hourly"
    Limits = {1, 2}
    DefaultLimit = 2
    Poll = 1
    RetryCap = 2
    AgeCap = 2
    CanStop = TRUE
    CanFault = TRUE
SPECIFICATION Spec
INVARIANTS SnapshotAgrees
PROPERTIES ImplementsLifecycle
