\* One of the components around the executor at a time.
SPECIFICATION ServicesSpec
CONSTANTS
    TaskTimeout = 0
    ArrivalDwell = 0
    Waypoints = {"A", "B"}
    WaypointTimeout = 1
    OdomWaypoints = {"B"}
    Missions <- Points
    Feedbacks <- Reports
    MaxIssues <- Issues
    QueueLimit = 2
    FileLimit = 1
    LogFiles = 2
    MaxRecords = 6
    Threads = {t1}
    OdomTimeout = 1
    CloudTimeout = 1
    TerrainBase = 1
    TerrainAge = 1
    Tolerance = 0
    Skew = 1
    HistoryLimit = 2
    Horizon = 4
    MaxClouds = 2
    MaxRevocations = 2
    MavrosTimeout = 1
    LidarTimeout = 1
    RcHorizon = 3
    Timers = {"health", "watchdog"}
    RcTimeout = 1
    RcFuture = 1
    RcBase = 1
    ChainAge = 1
    ChainFuture = 0
    ChainBase = 1
    StateTimeout = 1
    ChainHorizon = 4
    MaxQueue = 1
    TfAge = 2
    TfBase = 2
    MaxCache = 2
    TfHorizon = 5
INVARIANTS IntentMatchesPhase LogIsComplete ReadyIsBacked
PROPERTIES OnlyCommandsStartMotion ProgressSurvivesPause EstimatesAreNew
CHECK_DEADLOCK FALSE
