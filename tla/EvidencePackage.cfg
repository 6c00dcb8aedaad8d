SPECIFICATION Spec
CONSTANTS
    e1 = e1
    e2 = e2
    k1 = k1
    k2 = k2
    Ids = {e1, e2}
    Contents = {k1, k2}
    CasePayloads <- MCCasePayloads
    ClockBound = 2
    Second = 2
    ActionBound = 4
    GroupMin = 2
    GroupLimit = 2
INVARIANT CustodyIsComplete
INVARIANT ReportTellsPackage
