SPECIFICATION Spec
CONSTANTS
    Key = {a1}
    Worker = {w1, w2}
    Name = {"x"}
    Specs <- Scaled
    UserActs = {}
    None = None
    RequeueCap = 0
    MaxEdits = 3
    MaxFailures = 0
    MaxStops = 1
    MaxLag = 1
SYMMETRY Symmetry
INVARIANTS TypeOK MutualExclusion
PROPERTY OwnerNeverFlips
CHECK_DEADLOCK FALSE
