SPECIFICATION Spec
CONSTANTS
    Process = {p, q}
    Message = {"m0","m1"}
    UserMessage = {"m0","m1"}
    Marked = {"m1"}
    Dimension = {"predicate", "object"}
    Frame <- MCFrame
    Memory = {"a","x","y"}
    Stored = {"a"}
    Item = {"i","n"}
    Waiting = {"i"}
    Deferred <- MCDeferred
    Conflicts <- MCConflicts
    CleanupWaits = TRUE
    Deletable = {"a"}
    MaxWork = 3
    MaxPending = 2
    MaxWrites = 2
SYMMETRY Writers
CHECK_DEADLOCK FALSE
INVARIANT TypeOK
INVARIANT ClosedUnanswered
INVARIANT ClosedForCause
