SPECIFICATION FairSpec
CONSTANTS
    r1 = r1
    r2 = r2
    v1 = v1
    v2 = v2
    caseA = caseA
    caseB = caseB
    pcapA = pcapA
    pcapB = pcapB
    notPcap = notPcap
    Requests = {r1, r2}
    Readers = {v1, v2}
    Asks <- MCAsks
    Cases = {caseA, caseB}
    Contents <- MCContents
    Malformed <- MCMalformed
    CaseOf <- MCCaseOf
    Batch <- MCBatch
    FaultSets <- FairAndFoul
CHECK_DEADLOCK FALSE
INVARIANT TypeOK
INVARIANT RecordsConsistent
INVARIANT EvidenceBacked
INVARIANT BatchPrefixFiled
INVARIANT HealthyStoreVerifies
INVARIANT OrphansOnRecord
INVARIANT ReadingsAudited
PROPERTY EveryUploadEnds
PROPERTY ImplementsCatalogue
