SPECIFICATION Spec
CONSTANTS
    mine = mine
    past = past
    user = user
    new = new
    Memory = {mine, past, user, new}
    Stored = {mine, past, user}
    Late = {mine, user}
    Scope <- MCScope
    Importance <- MCImportance
    Requests <- MCRequests
    Quota = 4
    ReadLimit = 4
    SeedLimit = 2
    GlobalLimit = 3
    MaxEvidence = 2
    Corrects = TRUE
    MaxFaults = 1
    MaxChanges = 2
INVARIANT TypeOK
INVARIANT ScopeKept
INVARIANT NothingMissed
INVARIANT EvidenceIsWhole
 
CHECK_DEADLOCK FALSE
