\* A takeoff; and from the first hover a landing, with bounces, the autopilot disarming by
\* itself and late calls, and a flight that the link, the position or the pilot fails.
SPECIFICATION FlightSpec
CONSTANTS
    TaskTimeout = 0
    ArrivalDwell = 0
    WaypointTimeout = 1
    Waypoints = {"A", "B"}
    OdomWaypoints = {}
    PrestreamDuration = 0
    RetryInterval = 0
    FeedbackTimeout = 0
    ServiceTimeout = 0
    MaxAttempts = 1
    TakeoffTimeout = 0
    LandingTimeout = 0
    GroundDisarmDelay = 0
    ActionIds = {1, 2, 3, 4}
    Plans <- TakeoffPlans
    HoverPlans <- LandingPlans
INVARIANTS IdleIsNotAirborne
