SPECIFICATION Spec
CONSTANTS
    c1 = c1
    c2 = c2
    p1 = p1
    p2 = p2
    p3 = p3
    p4 = p4
    Cases = {c1, c2}
    CaseRequests = {p1, p2, p3, p4}
    Analysts = {p4}
    WantedStatuses = {"closed", "open", "investigating", "review", "unchanged", "null", "empty"}
    Failing = {"database", "ack", "crash"}
CHECK_DEADLOCK FALSE
SYMMETRY Interchangeable
INVARIANT TypeOK
INVARIANT ClosedByDecision
PROPERTY WorkflowKept
