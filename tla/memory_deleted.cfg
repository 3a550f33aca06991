SPECIFICATION Spec
CONSTANTS
    c1 = c1
    c2 = c2
    q1 = q1
    q2 = q2
    m1 = m1
    m2 = m2
    m3 = m3
    Process = {c1, c2}
    Request = {q1}
    Memory = {m1}
    Stored = {}
    MaxBatch = 1
    MaxCalls = 4
    Errors = {"unavailable", "mismatch"}
    Deletable = {m1}
    Rebuilders = {}
INVARIANT DeletedIsGone
CHECK_DEADLOCK FALSE
