SPECIFICATION FairSpec
CONSTANTS
    j1 = j1
    j2 = j2
    j3 = j3
    caseA = caseA
    caseB = caseB
    acqA = acqA
    acqB = acqB
    Jobs = {j1, j2, j3}
    Acquisitions = {acqA, acqB}
    Cases = {caseA, caseB}
    AcquisitionOf <- MCAcquisitionOf
    CaseOf <- MCCaseOf
    Uploaded <- MCUploaded
    Traffic <- MixedTraffic
    Faults = {"extraction", "reporting", "database", "ack", "crash"}
CHECK_DEADLOCK FALSE
INVARIANT TypeOK
INVARIANT CompletedHasResults
INVARIANT AuditTellsStatus
PROPERTY ImplementsLifecycle
PROPERTY EveryJobEnds
