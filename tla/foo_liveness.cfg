SPECIFICATION FairSpec
CONSTANTS
    Key = {f1}
    Worker = {w1}
    Name = {"x"}
    Specs <- TwoOrNilOrInvalid
    UserActs = {"scale","delete","foreign","orphan","crash"}
    None = None
    RequeueCap = 0
    MaxEdits = 3
    MaxFailures = 1
    MaxStops = 0
    MaxLag = 1
PROPERTY FoosConverge
CHECK_DEADLOCK FALSE
