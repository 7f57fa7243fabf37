\* Waits that end although no call returns and no confirmation comes.
SPECIFICATION ProgressSpec
CONSTANTS
    TaskTimeout = 1
    ArrivalDwell = 0
    Waypoints = {"A"}
    PrestreamDuration = 0
    RetryInterval = 1
    FeedbackTimeout = 1
    ServiceTimeout = 1
    MaxAttempts = 2
    TakeoffTimeout = 1
    LandingTimeout = 1
    GroundDisarmDelay = 0
    ActionIds = {1}
    MaxRequest = 2
    Sensors <- MCSensors
    Intents <- MCIntents
PROPERTIES WaitsEnd
