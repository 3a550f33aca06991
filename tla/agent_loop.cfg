SPECIFICATION Spec
CONSTANTS
    s1 = s1
    s2 = s2
    s3 = s3
    web = web
    Driver = {d1, d2}
    Seed = {s1, s2}
    Initial = {s1}
    Capability = {web}
    Required <- FirstRequired
    Focus = {f0, f1}
    SeedFocus = f0
    Tokens = {1, 2}
    Costs = {1, 3}
    Estimate = 1
    Reservation = 2
    MaxSteps = 2
    MaxDirections = 1
    LoopTokens = 3
    LoopCost = 2
    RunTokens = 6
    RunCost = 4
    Dated = FALSE
    MaxConcurrency = 1
    Rank <- ByName
    MaxAttempts = 2
    MaxReplans = 1
    MaxFaults = 1
    Nothing = Nothing
INVARIANT TypeOK
INVARIANT UsageAccounted
INVARIANT StepsCoherent
INVARIANT CoverageEarned
PROPERTY DecisionKept
SYMMETRY Drivers
CHECK_DEADLOCK FALSE
