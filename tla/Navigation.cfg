\* Goals, cancellations, contexts and clouds at any point of a planning attempt.
SPECIFICATION AskingSpec
CONSTANTS
    Sources = {"odom", "controller"}
    a = a
    other = other
    Requests = {a, other}
    RequireContext = TRUE
    Callers = {c, d}
    MaxClouds = 2
    MaxGoals = 2
    MaxTries = 2
    MaxIssued = 1
INVARIANTS ActiveIsNewest HistoryIsPublished
PROPERTIES PublishesForGoalInForce
SYMMETRY Symmetric
