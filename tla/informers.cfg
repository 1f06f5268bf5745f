SPECIFICATION FairSpec
CONSTANTS
    Kind = {"sample", "app", "crd"}
    Namespace = {"n1", "n2"}
    Name = {"a"}
    Label = {"x", "y"}
    None = None
    MaxVersion = 4
    MaxBreaks = 1
INVARIANTS TypeOK ListersAgree
PROPERTIES  CatchesUp
CHECK_DEADLOCK FALSE
