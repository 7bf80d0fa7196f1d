CONSTANTS
    Tickers = {"loop", "manual"}
    Loop = "loop"
    NoJob = "none"
    Jobs = {"a", "legacy"}
    Tasks = {"a"}
    Defaults = {"a"}
    Schedules = {"hourly"}
    Delays <- MCDelays
    DefaultSchedule = "hourly"
    Limits = {2}
    DefaultLimit = 2
    Poll = 1
    RetryCap = 2
    AgeCap = 2
    CanStop = TRUE
    CanFault = TRUE
SPECIFICATION FairSpec
PROPERTIES StrandedOnlyByDisturbance JobsKeepRunning
