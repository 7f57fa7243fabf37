\* A takeoff from the start of the process, and from the first hover a flight to a point,
\* with a task thread that is late at any moment or stops for good.
SPECIFICATION DeadTaskSpec
CONSTANTS
    TaskTimeout = 0
    ArrivalDwell = 0
    WaypointTimeout = 1
    Waypoints = {"A", "B"}
    OdomWaypoints = {}
    PrestreamDuration = 0
    RetryInterval = 0
    FeedbackTimeout = 0
    ServiceTimeout = 0
    MaxAttempts = 1
    TakeoffTimeout = 0
    LandingTimeout = 0
    GroundDisarmDelay = 0
    ActionIds = {1, 2, 3, 4}
    Plans <- TakeoffPlans
    HoverPlans <- SinglePlans
 
PROPERTIES DeadTaskStopsMotion
