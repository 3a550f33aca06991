SPECIFICATION Spec
CONSTANTS
    c1 = c1
    c2 = c2
    q1 = q1
    q2 = q2
    m1 = m1
    m2 = m2
    m3 = m3
    Process = {c1, c2}
    Request = {q1, q2}
    Memory = {m1, m2, m3}
    Stored = {m1}
    MaxBatch = 2
    MaxCalls = 3
    Errors = {"unavailable", "mismatch"}
    Deletable = {m2, m3}
    Rebuilders = {c1, c2}
SYMMETRY Symmetry
INVARIANT TypeOK
INVARIANT IndexedOrOwed
INVARIANT MissedOnlyMoved
INVARIANT SuccessIsIndexed
INVARIANT NoFork
PROPERTY CommittedOnce
CHECK_DEADLOCK FALSE
