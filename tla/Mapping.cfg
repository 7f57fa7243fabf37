\* One component of the mapping side at a time.
SPECIFICATION TreeSpec
CONSTANTS
    Period = 3
    Spans = {1, 3}
    MaxInit = 2
    MaxTime = 11
    MaxScans = 4
    LioPeriod = 1
    LioSpans = {1}
    LioInit = 1
    LioTime = 5
    LioScans = 5
    Axes = 2
    Half = 2
    Margin = 1
    Guesses <- OneGuess
    MaxGuesses = 2
    MaxBuffer = 2
    MaxKeys = 4
    MaxCorrections = 2
    MapCells = {1, 2, 3}
    CellOf <- ThreeVoxels
    HitOdds = 2
    MissOdds <- Crossing
    OccupiedOdds = 3
    ClearingOdds <- Clear
    MaxOdds = 5
    MinHits = 2
    MinSpan = 2
    CandidateTimeout = 2
    CleanupPeriod = 3
    MaxTemporal = 2
    MaxMap = 2
    Gaps = {1, 3}
    Horizon = 6
    MaxArchived = 3
    MaxBytes = 5
    Workers = 2
    Sizes = {1, 2}
    LastStamp = 4
    MaxFrames = 2
    Jobs = {"j1", "j2"}
    Operator = "operator"
    Nobody = "nobody"
INVARIANTS AnswersAreExact SteadyFrames GraphMatchesKeys ExportIsOfThisLife SavesAreTrue
PROPERTIES MapIsKept OdometryIsRegistered
CHECK_DEADLOCK FALSE
