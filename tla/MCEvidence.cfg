SPECIFICATION Spec
CONSTANTS
    e1 = e1
    e2 = e2
    e3 = e3
    e4 = e4
    m1 = m1
    m2 = m2
    w1 = w1
    u1 = u1
    Evidence = {e1, e2, e3, e4}
    Setters = {m1, m2}
    Handler = evidence_handler
    None = None
    Windows = {w1}
    Uids = {u1}
    SetterOf <- MCSetterOf
    WindowOf <- MCWindowOf
    UidsOf <- MCUidsOf
    Threat <- MCThreat
    Level <- MCLevel
    Critical = 3
    Whitelist = {e3}
    ByOthers = {e4}
    Threshold = 2
    MaxSets = 4
    MaxInserts = 1
INVARIANTS TypeOK DeletedStaysDeleted CounterMatches AlertedEvidenceSafe AccumulatedMatchesEvidence AlertedRowsLabelled
CHECK_DEADLOCK FALSE
