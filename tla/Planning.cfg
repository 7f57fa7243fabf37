\* One of the components of localization and planning at a time.
SPECIFICATION PlanningSpec
CONSTANTS
    w1 = w1
    w2 = w2
    Waypoints = {w1, w2}
    MaxAttempts = 1
    Missions <- TwoPoints
    Singles = {w2}
    CommandValues = {0, 1, 2, 3}
    MaxGenerations = 2
    MaxEvents = 1
    Length = 3
    MaxStamp = 4
    MaxObstacles = 1
    MaxSpeed = 2
    Acceleration = 1
    WaypointStep = 3
    Horizon = 4
    Clearance = 1
    Tolerance = 1
    Persistence = 2
    MaxTrack = 2
    MinMotion = 1
    Prediction = 2
    ProgressTimeout = 2
    MaxGap = 2
    Reserve = 1
    Radius = 20
    Margin = 2
    MinZ <- Deepest
    MaxZ = 8
    Tiny = 1
    Chord = 5
    SeedAge = 3
    SeedReach = 2
    PathClearance = 3
    PathHorizon = 9
    PathStamp = 3
    PathTerminal = 4
    Starts <- OneStart
    Goals <- FarAndNear
    Obstacles <- ThreePoints
    Vias <- TwoVias
    Fixes = {0, 1, 2}
    Reach = 1
    Required = 2
    FailureLimit = 2
    MinFrames = 1
    MaxScans = 3
    MaxAsked = 1
    Axes = {"x"}
    Side = 60
    DetRange = 20
    Way = 10
INVARIANTS ReadyIsConfirmed BridgeIsInStep ScanIsClean PathsAreClear EstimateIsWhole
PROPERTIES LostStaysLost CommandsAreFlyable LocalMapFollows
CHECK_DEADLOCK FALSE
