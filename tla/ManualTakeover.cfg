\* The pilot takes over while a landing is requested.
SPECIFICATION FlightSpec
CONSTANTS
    TaskTimeout = 1
    ArrivalDwell = 0
    WaypointTimeout = 1
    Waypoints = {"A", "B"}
    OdomWaypoints = {}
    PrestreamDuration = 0
    RetryInterval = 0
    FeedbackTimeout = 0
    ServiceTimeout = 0
    MaxAttempts = 1
    TakeoffTimeout = 0
    LandingTimeout = 0
    GroundDisarmDelay = 0
    ActionIds = {1, 2, 3, 4}
    Plans <- NoPlans
    HoverPlans <- TakeoverPlans
PROPERTIES ManualTakeoverIsFinal
