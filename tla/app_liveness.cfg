SPECIFICATION FairSpec
CONSTANTS
    Key = {a1}
    Worker = {w1}
    Name = {"x"}
    Specs <- ScaledOrInvalid
    UserActs = {"scale","delete","foreign","orphan"}
    None = None
    RequeueCap = 0
    MaxEdits = 2
    MaxFailures = 1
    MaxStops = 0
    MaxLag = 1
PROPERTIES AppsConverge 
CHECK_DEADLOCK FALSE
