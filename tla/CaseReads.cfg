SPECIFICATION Spec
CONSTANTS
    admin = admin
    ann = ann
    q1 = q1
    caseA = caseA
    caseB = caseB
    a1 = a1
    a2 = a2
    b1 = b1
    ip1 = ip1
    ip2 = ip2
    ip3 = ip3
    t1 = t1
    t2 = t2
    Users = {admin, ann}
    RoleOf <- MCRoleOf
    Maintained = {ann}
    Creators <- MCCreators
    Cases = {caseA, caseB}
    Requests = {q1}
    Views = {"entities", "graph", "chain", "behavior", "row", "report", "context", "cases"}
    Analyses = {a1, a2, b1}
    Result <- MCResult
    Limit = 2
CONSTRAINT SomeoneAtWork
CHECK_DEADLOCK FALSE
INVARIANT TypeOK
INVARIANT ServedWereEntitled
INVARIANT ViewsAreConsistent
