SPECIFICATION FairSpec
CONSTANTS
    r1 = r1
    r2 = r2
    r3 = r3
    caseA = caseA
    caseB = caseB
    acqA = acqA
    acqB = acqB
    Runs = {r1, r2, r3}
    Acquisitions = {acqA, acqB}
    Cases = {caseA, caseB}
    AcquisitionOf <- MCAcquisitionOf
    CaseOf <- MCCaseOf
    Captures <- MCCaptures
    Verdicts <- MCVerdicts
    Private <- MCPrivate
    StoresFindings = TRUE
    Failing = {r1}
CHECK_DEADLOCK FALSE
INVARIANT TypeOK
INVARIANT AllOrNothing
INVARIANT NothingUncommitted
INVARIANT ChecksNeverFire
INVARIANT MappedIffHypothesized
INVARIANT ConclusionsFollow
PROPERTY EveryRunEnds
PROPERTY ImplementsPublication
