SPECIFICATION Spec
CONSTANTS
    r1 = r1
    r2 = r2
    v1 = v1
    v2 = v2
    caseA = caseA
    caseB = caseB
    pcapA = pcapA
    pcapB = pcapB
    notPcap = notPcap
    Requests = {r1, r2}
    Readers = {v1}
    Asks <- OneView
    Cases = {caseA, caseB}
    Contents <- MCContents
    Malformed <- MCMalformed
    CaseOf <- MCCaseOf
    Batch <- TwinBatch
    FaultSets <- NoFaults
CHECK_DEADLOCK FALSE
INVARIANT EvidenceReadable
