CONSTANTS
    Tickers = {"loop"}
    Loop = "loop"
    NoJob = "none"
    Jobs = {"a"}
    Tasks = {"a"}
    Defaults = {"a"}
    Schedules = {"hourly"}
    Delays <- MCDelays
    DefaultSchedule = "hourly"
    Limits = {2}
    DefaultLimit = 2
    Poll = 1
    RetryCap = 2
    AgeCap = 2
    CanStop = FALSE
    CanFault = FALSE
SPECIFICATION Spec
INVARIANTS RetriesAreBounded
