SPECIFICATION Spec
CONSTANTS
    r1 = r1
    r2 = r2
    t1 = t1
    t2 = t2
    t3 = t3
    Run = {r1, r2}
    Task = {t1, t2, t3}
    Driver = {d1, d2}
    RunOf <- OneRunOf
    DependsOn <- ForkDependsOn
    Depth <- ForkDepth
    MaxConcurrency = 2
    MaxAttempts = 2
    MaxCrashes = 1
    MaxSlow = 1
    Limited = {r1}
    Dated = {r2}
    NoRun = NoRun
INVARIANTS TypeOK AcceptedOnce OneHolder DependenciesFirst RetryIsEarned
PROPERTY StrandedByOthersOnly
PROPERTY ImplementsOutcomes
SYMMETRY Drivers
CHECK_DEADLOCK FALSE
