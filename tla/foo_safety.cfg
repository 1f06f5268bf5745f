SPECIFICATION Spec
CONSTANTS
    Key = {f1}
    Worker = {w1, w2}
    Name = {"x"}
    Specs <- TwoOrNil
    UserActs = {"delete","crash"}
    None = None
    RequeueCap = 0
    MaxEdits = 4
    MaxFailures = 0
    MaxStops = 1
    MaxLag = 1
SYMMETRY Symmetry
INVARIANTS TypeOK MutualExclusion QuiescentIsSynced
PROPERTIES StatusIsOwn WorkIsExclusive
CHECK_DEADLOCK FALSE
