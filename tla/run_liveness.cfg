SPECIFICATION FairSpec
CONSTANTS
    p1 = p1
    p2 = p2
    p3 = p3
    d1 = d1
    d2 = d2
    BoundaryOf <- TwoBoundaries
    Driver = {d1}
    Proposal = {p1, p3}
    PlanSize = 2
    MaxReplans = 1
    MaxRevisions = 1
    MaxIdle = 2
    MaxRetries = 1
    MaxCommands = 2
    MaxAnswers = 1
    MaxCrashes = 1
    ApprovalRequired = {}
    Limited = TRUE
INVARIANT WithinBudgets
PROPERTY DriveReturns
CHECK_DEADLOCK FALSE
