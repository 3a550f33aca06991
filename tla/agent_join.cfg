SPECIFICATION Spec
CONSTANTS
    s1 = s1
    s2 = s2
    s3 = s3
    web = web
    Driver = {d1}
    Seed = {s1, s2}
    Initial = {s1}
    Capability = {web}
    Required <- FirstRequired
    Focus = {f0}
    SeedFocus = f0
    Tokens = {2}
    Costs = {1}
    Estimate = 1
    Reservation = 2
    MaxSteps = 2
    MaxDirections = 0
    LoopTokens = 3
    LoopCost = 2
    RunTokens = 9
    RunCost = 4
    Dated = FALSE
    MaxConcurrency = 2
    Rank <- ByName
    MaxAttempts = 2
    MaxReplans = 1
    MaxFaults = 0
    Nothing = Nothing
INVARIANT JoinReachable
CHECK_DEADLOCK FALSE
