SPECIFICATION FairSpec
CONSTANTS
    Key = {a1}
    Size = {"small", "big"}
    Specs <- Scaled
    Before <- NoSpecs
    UserActs <- NoActs
    None = None
    RequeueCap = 0
    MaxEdits = 2
    MaxMishaps = 0
    MaxLag = 1
PROPERTY DeploymentConverges
CHECK_DEADLOCK FALSE
