SPECIFICATION Spec
CONSTANTS
    p1 = p1
    p2 = p2
    p3 = p3
    d1 = d1
    d2 = d2
    BoundaryOf <- MixedBoundary
    Driver = {d1, d2}
    Proposal = {p1, p2, p3}
    PlanSize = 1
    MaxReplans = 0
    MaxRevisions = 0
    MaxIdle = 1
    MaxRetries = 0
    MaxCommands = 2
    MaxAnswers = 2
    MaxCrashes = 0
    ApprovalRequired = {d1, d2}
    Limited = FALSE
INVARIANT TypeOK
INVARIANT OnlyApprovedWork
INVARIANT ReportRestsOnResearch
INVARIANT OneDecisionPerVersion
PROPERTY CommandsStand
CHECK_DEADLOCK FALSE
SYMMETRY Symmetry
