SPECIFICATION Spec
CONSTANTS
    j1 = j1
    j2 = j2
    j3 = j3
    caseA = caseA
    caseB = caseB
    acqA = acqA
    acqB = acqB
    Jobs = {j1, j2}
    Acquisitions = {acqA, acqB}
    Cases = {caseA, caseB}
    AcquisitionOf <- PairAcquisitionOf
    CaseOf <- PairCaseOf
    Uploaded <- MCUploaded
    Traffic <- MixedTraffic
    Faults = {}
CHECK_DEADLOCK FALSE
INVARIANT SingleActiveJob
