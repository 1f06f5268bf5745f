SPECIFICATION FairSpec
CONSTANTS
    Type = {foos, apps}
    Caller = {c1, c2}
    Chan = {ctx, other}
    None = None
INVARIANTS TypeOK RunOnce ReportsTruth
PROPERTIES NoAddWhileWaiting ShutdownEnds WaitEnds Refines
CHECK_DEADLOCK FALSE
