SPECIFICATION Spec
CONSTANTS
    r1 = r1
    r2 = r2
    r3 = r3
    caseA = caseA
    caseB = caseB
    acqA = acqA
    acqB = acqB
    Runs = {r1, r2, r3}
    Acquisitions = {acqA, acqB}
    Cases = {caseA, caseB}
    AcquisitionOf <- MCAcquisitionOf
    CaseOf <- MCCaseOf
    Captures <- MCCaptures
    Verdicts <- BenignVerdicts
    Private <- MCPrivate
    StoresFindings = FALSE
    Failing = {}
CHECK_DEADLOCK FALSE
INVARIANT EntitiesAreScoped
