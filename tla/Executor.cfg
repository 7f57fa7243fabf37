\* The executor under any sensors and any commands, also malformed ones.
SPECIFICATION RecorderSpec
CONSTANTS
    TaskTimeout = 0
    ArrivalDwell = 0
    Waypoints = {"A", "B"}
    PrestreamDuration = 0
    RetryInterval = 1
    FeedbackTimeout = 0
    ServiceTimeout = 0
    MaxAttempts = 2
    TakeoffTimeout = 0
    LandingTimeout = 1
    GroundDisarmDelay = 1
    ActionIds = {1}
    MaxRequest = 3
    Sensors <- MCSensors
    Intents <- MCIntents
INVARIANTS TypeOK RequestBelongsToPhase PhaseMatchesGrant RevokedStaysRevoked ReferenceTracksFlight MotionUnderLease
PROPERTIES DisarmOnlyAfterLanding CommandsAreOneWay
