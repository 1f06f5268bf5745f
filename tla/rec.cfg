SPECIFICATION FairSpec
CONSTANTS
    Key = {a1}
    Size = {"small", "big"}
    Specs <- WithService
    Before <- NoSpecs
    UserActs <- SomeActs
    None = None
    RequeueCap = 0
    MaxEdits = 2
    MaxMishaps = 2
    MaxLag = 1
INVARIANTS TypeOK QuiescentIsReconciled
 
CHECK_DEADLOCK FALSE
