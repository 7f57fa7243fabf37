\* A takeoff that the operator cancels at any moment; and from the first hover a mission
\* with a pause and its end, and one that a single target replaces.
SPECIFICATION FlightRecorderSpec
CONSTANTS
    TaskTimeout = 0
    ArrivalDwell = 0
    WaypointTimeout = 1
    Waypoints = {"A", "B"}
    OdomWaypoints = {}
    PrestreamDuration = 0
    RetryInterval = 0
    FeedbackTimeout = 0
    ServiceTimeout = 0
    MaxAttempts = 1
    TakeoffTimeout = 0
    LandingTimeout = 0
    GroundDisarmDelay = 0
    ActionIds = {1, 2, 3, 4}
    Plans <- CancelPlans
    HoverPlans <- MissionPlans
INVARIANTS CopiesOfIntentAgree RequestIsOnItsWay
PROPERTIES CallsAreCurrent PointsAreFlown
