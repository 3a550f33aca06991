SPECIFICATION FairSpec
CONSTANTS
    p1 = p1
    p2 = p2
    p3 = p3
    d1 = d1
    d2 = d2
    BoundaryOf <- TwoBoundaries
    Driver = {d1, d2}
    Proposal = {p1, p3}
    PlanSize = 1
    MaxReplans = 1
    MaxRevisions = 0
    MaxIdle = 2
    MaxRetries = 0
    MaxCommands = 1
    MaxAnswers = 1
    MaxCrashes = 0
    ApprovalRequired = {d1, d2}
    Limited = FALSE
PROPERTY DriveReturns
CHECK_DEADLOCK FALSE
