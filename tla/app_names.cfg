SPECIFICATION FairSpec
CONSTANTS
    Key = {a1}
    Worker = {w1}
    Name = {"x","in"}
    Specs <- Demo
    UserActs = {}
    None = None
    RequeueCap = 0
    MaxEdits = 2
    MaxFailures = 0
    MaxStops = 0
    MaxLag = 1
PROPERTY AppsConverge
CHECK_DEADLOCK FALSE
