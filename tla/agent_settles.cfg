SPECIFICATION FairSpec
CONSTANTS
    s1 = s1
    s2 = s2
    s3 = s3
    web = web
    Driver = {d1}
    Seed = {s1, s2}
    Initial = {s1, s2}
    Capability = {web}
    Required <- FirstRequired
    Focus = {f0, f1}
    SeedFocus = f0
    Tokens = {2}
    Costs = {1}
    Estimate = 1
    Reservation = 2
    MaxSteps = 2
    MaxDirections = 0
    LoopTokens = 3
    LoopCost = 2
    RunTokens = 9
    RunCost = 4
    Dated = TRUE
    MaxConcurrency = 2
    Rank <- ByName
    MaxAttempts = 2
    MaxReplans = 0
    MaxFaults = 2
    Nothing = Nothing
PROPERTY SeedsSettle
CHECK_DEADLOCK FALSE
