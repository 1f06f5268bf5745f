SPECIFICATION FairSpec
CONSTANTS
    Key = {k1}
    Worker = {w1, w2}
    None = None
    RequeueCap = 2
    MaxRetry = 1
    Annotations = {"true", "false"}
    PortChoices = {TRUE, FALSE}
    ForeignControllers = {"other", "none"}
    MaxEdits = 3
    MaxFailures = 1
    MaxCrashes = 1
    MaxSvcRelists = 0
    MaxIngRelists = 1
INVARIANTS TypeOK MutualExclusion QuiescentIsExposed
PROPERTIES   QueueDrains
CHECK_DEADLOCK FALSE
