--------------------------- MODULE EvidenceStore ---------------------------
(***************************************************************************)
(* The evidence side of the acquisition API: the upload service, which     *)
(* coordinates one MinIO bucket with the PostgreSQL tables acquisitions,   *)
(* evidence, case_acquisition_links and audit_events, and the reader       *)
(* service (view, verify, export) that works on what was uploaded.         *)
(*                                                                         *)
(* Requests run concurrently in one asyncio process against a READ         *)
(* COMMITTED database, so a step of the model is one await of the service: *)
(* a read, a MinIO call or a committed transaction.                        *)
(*                                                                         *)
(* A request uploads a batch of files under one case.  The acquisition id, *)
(* the evidence id and the object key are derived from uuid4 values drawn  *)
(* for each file, so one identifier <<request, position>> stands for all   *)
(* three.  A file is abstracted to its content, and the SHA-256 digest to  *)
(* the content itself.  Requests here have passed the role and case-access *)
(* gates; the ones those refuse only leave an audit row.                   *)
(***************************************************************************)
EXTENDS Naturals, Sequences, FiniteSets

CONSTANTS
    Requests,   \* POST /cases/{case_id}/acquisitions
    Readers,    \* GET /evidence/{id}, POST .../verify and GET .../export
    Asks,       \* what each reader may ask for, see Operations
    Cases,
    Contents,   \* what the bytes of a file can be
    Malformed,  \* the contents the M1 validator refuses
    CaseOf,     \* the case a request uploads to
    Batch,      \* the files of a request, in order
    FaultSets   \* the environments considered: what may go wrong in each

FaultKinds ==
    { "storage",     \* a MinIO call fails and has no effect
      "database",    \* a PostgreSQL transaction fails and is rolled back
      "ack",         \* a MinIO or PostgreSQL write succeeds, its answer is lost
      "crash",       \* the API process stops; what it was doing is gone
      "loss",        \* an object disappears from the bucket
      "corruption" } \* an object is overwritten from outside

Operations == {"view", "verify", "export"}

ASSUME EvidenceStoreAssumption ==
    /\ Asks \in [Readers -> SUBSET Operations]
    /\ Malformed \subseteq Contents
    /\ CaseOf \in [Requests -> Cases]
    /\ Batch \in [Requests -> Seq(Contents)]
    /\ \A r \in Requests : Len(Batch[r]) > 0
    /\ FaultSets \subseteq SUBSET FaultKinds

VARIABLES
    faults,     \* what may go wrong in this behaviour; it never changes
    pc,         \* where each upload request is
    position,   \* the file of its batch it works on
    found,      \* what its lookup by SHA-256 returned: a set of at most one id
    rpc,        \* where each reader is
    asked,      \* the route it called, once it has
    target,     \* the evidence a reader works on: a set of at most one id
    loaded,     \* the integrity_status a verification loaded with its row
    seen,       \* what a reader found in the bucket
    acquisitions, \* table acquisition.acquisitions: the ids of its rows
    integrity,  \* table acquisition.evidence: integrity_status of each row
    links,      \* table acquisition.case_acquisition_links
    audit,      \* table audit.audit_events: <<action, target>>
    verdicts,   \* its EVIDENCE_INTEGRITY_VERIFIED events: <<target, status>>
    stored,     \* the object keys the service has written
    missing,    \* those that are gone again
    corrupt     \* those that hold other bytes

requestVars == <<pc, position, found>>
readerVars == <<rpc, asked, target, loaded, seen>>
tableVars == <<acquisitions, integrity, links, audit, verdicts>>
bucketVars == <<stored, missing, corrupt>>
vars == <<faults, requestVars, readerVars, tableVars, bucketVars>>

Ids == UNION { {r} \X (1..Len(Batch[r])) : r \in Requests }
ContentOf(id) == Batch[id[1]][id[2]]
Evidence == DOMAIN integrity

Verdicts == {"verified", "mismatch", "missing"}
Finished == {"answered", "failed", "crashed"}

TablesTyped ==
    /\ acquisitions \subseteq Ids
    /\ integrity \in [Evidence -> Verdicts \cup {"pending"}]
    /\ Evidence \subseteq Ids
    /\ links \subseteq Cases \X Ids
    /\ audit \subseteq {"ACQUISITION_CREATED", "EVIDENCE_STORED",
                        "EVIDENCE_ORPHANED", "EVIDENCE_VIEWED",
                        "EVIDENCE_EXPORTED"} \X Ids
    /\ verdicts \subseteq Ids \X Verdicts

TypeOK ==
    /\ faults \in SUBSET FaultKinds
    /\ pc \in [Requests -> {"idle", "acquire", "store", "persist", "orphan",
                            "restore", "relink"} \cup Finished]
    /\ position \in [Requests -> Nat \ {0}]
    /\ found \in [Requests -> SUBSET Ids]
    /\ rpc \in [Readers -> {"idle", "opened", "loaded", "observed", "recorded"}
                               \cup Finished]
    /\ asked \in [Readers -> Operations \cup {"nothing"}]
    /\ target \in [Readers -> SUBSET Ids]
    /\ loaded \in [Readers -> Verdicts \cup {"pending"}]
    /\ seen \in [Readers -> Verdicts \cup {"nothing"}]
    /\ TablesTyped
    /\ stored \subseteq Ids
    /\ missing \subseteq stored
    /\ corrupt \subseteq stored

Init ==
    /\ faults \in FaultSets
    /\ pc = [r \in Requests |-> "idle"]
    /\ position = [r \in Requests |-> 1]
    /\ found = [r \in Requests |-> {}]
    /\ rpc = [v \in Readers |-> "idle"]
    /\ asked = [v \in Readers |-> "nothing"]
    /\ target = [v \in Readers |-> {}]
    /\ loaded = [v \in Readers |-> "pending"]
    /\ seen = [v \in Readers |-> "nothing"]
    /\ acquisitions = {}
    /\ integrity = [id \in {} |-> "pending"]
    /\ links = {}
    /\ audit = {}
    /\ verdicts = {}
    /\ stored = {}
    /\ missing = {}
    /\ corrupt = {}

-----------------------------------------------------------------------------
(***************************************************************************)
(* Steps shared by the actions.                                            *)
(***************************************************************************)

Current(r) == <<r, position[r]>>
\* Mutant of Pending: the loop over the batch stops one file early.
PendingButLast(r) == position[r] < Len(Batch[r])
Pending(r) == position[r] <= Len(Batch[r])
\* A step of a request moves it, and what may go wrong stays what it was.
Goto(r, label) == pc' = [pc EXCEPT ![r] = label] /\ UNCHANGED faults

\* get_by_sha256: the rows whose digest is that of the given content.
WithDigest(content) == {id \in acquisitions : ContentOf(id) = content}

\* upload_file overwrites the object, whatever has become of it.
Put(key) ==
    /\ stored' = stored \cup {key}
    /\ missing' = missing \ {key}
    /\ corrupt' = corrupt \ {key}

\* What downloading and hashing an object returns.
Inspect(key) ==
    IF key \notin stored \/ key \in missing THEN "missing"
    ELSE IF key \in corrupt THEN "mismatch" ELSE "verified"

Fail(r) == Goto(r, "failed") /\ UNCHANGED <<position, found, readerVars, tableVars>>

-----------------------------------------------------------------------------
(***************************************************************************)
(* upload_evidence, once per file of the batch.                            *)
(***************************************************************************)

Arrive(r) ==
    /\ pc[r] = "idle"
    /\ Goto(r, "acquire")
    /\ UNCHANGED <<position, found, readerVars, tableVars, bucketVars>>

\* engine.acquire refuses the file: ValidationError (422).  The files before
\* it in the batch stay committed.
Refuse(r) ==
    /\ pc[r] = "acquire" /\ Pending(r)
    /\ ContentOf(Current(r)) \in Malformed
    /\ Fail(r)
    /\ UNCHANGED bucketVars

\* Mutant of Lookup: the rows are written and the upload is left out.
LookupThenPersist(r) ==
    /\ pc[r] = "acquire" /\ Pending(r)
    /\ ContentOf(Current(r)) \notin Malformed
    /\ found' = [found EXCEPT ![r] = WithDigest(ContentOf(Current(r)))]
    /\ Goto(r, IF found'[r] = {} THEN "persist" ELSE "restore")
    /\ UNCHANGED <<position, readerVars, tableVars, bucketVars>>

\* The digest is looked up in a transaction of its own, before the upload.
Lookup(r) ==
    /\ pc[r] = "acquire" /\ Pending(r)
    /\ ContentOf(Current(r)) \notin Malformed
    /\ LET known == WithDigest(ContentOf(Current(r))) IN
       /\ found' = [found EXCEPT ![r] = known]
       /\ Goto(r, IF known = {} THEN "store" ELSE "restore")
    /\ UNCHANGED <<position, readerVars, tableVars, bucketVars>>

\* Nothing of this file is stored yet: an exception here just ends the request.
LookupFails(r) ==
    /\ "database" \in faults
    /\ pc[r] = "acquire" /\ Pending(r)
    /\ ContentOf(Current(r)) \notin Malformed
    /\ Fail(r)
    /\ UNCHANGED bucketVars

\* A digest nobody has: the object goes to the bucket first.
Store(r) ==
    /\ pc[r] = "store"
    /\ Put(Current(r))
    /\ Goto(r, "persist")
    /\ UNCHANGED <<position, found, readerVars, tableVars>>

\* InfrastructureError (503), and no row is written; when only the answer was
\* lost the object is there all the same.
StoreFails(r) ==
    /\ pc[r] = "store"
    /\ \/ "storage" \in faults /\ UNCHANGED bucketVars
       \/ "ack" \in faults /\ Put(Current(r))
    /\ Fail(r)

\* Mutants of CommitMetadata: the arguments of link_to_case are swapped; no evidence
\* row.
CommitSwappedLink(r) ==
    LET id == Current(r) IN
    /\ WithDigest(ContentOf(id)) = {}
    /\ acquisitions' = acquisitions \cup {id}
    /\ integrity' = [e \in Evidence \cup {id} |->
                        IF e = id THEN "pending" ELSE integrity[e]]
    /\ links' = links \cup {<<id, CaseOf[r]>>}
    /\ audit' = audit \cup {<<"ACQUISITION_CREATED", id>>, <<"EVIDENCE_STORED", id>>}

CommitNoEvidence(r) ==
    LET id == Current(r) IN
    /\ WithDigest(ContentOf(id)) = {}
    /\ acquisitions' = acquisitions \cup {id}
    /\ links' = links \cup {<<CaseOf[r], id>>}
    /\ audit' = audit \cup {<<"ACQUISITION_CREATED", id>>, <<"EVIDENCE_STORED", id>>}
    /\ UNCHANGED integrity

\* One transaction writes the acquisition, the evidence, the link and two audit
\* events.  The unique digest index lets it commit only if no row has the digest.
CommitMetadata(r) ==
    LET id == Current(r) IN
    /\ WithDigest(ContentOf(id)) = {}
    /\ acquisitions' = acquisitions \cup {id}
    /\ integrity' = [e \in Evidence \cup {id} |->
                        IF e = id THEN "pending" ELSE integrity[e]]
    /\ links' = links \cup {<<CaseOf[r], id>>}
    /\ audit' = audit \cup {<<"ACQUISITION_CREATED", id>>, <<"EVIDENCE_STORED", id>>}

Persist(r) ==
    /\ pc[r] = "persist"
    /\ CommitMetadata(r)
    /\ position' = [position EXCEPT ![r] = @ + 1]
    /\ Goto(r, "acquire")
    /\ UNCHANGED <<found, verdicts, readerVars, bucketVars>>

\* The except branch is reached by a unique violation (another request stored the
\* same bytes after the lookup), by a failing transaction, and by a commit that
\* took effect but was never acknowledged.
PersistFails(r) ==
    /\ pc[r] = "persist"
    /\ \/ WithDigest(ContentOf(Current(r))) # {} /\ UNCHANGED tableVars
       \/ "database" \in faults /\ UNCHANGED tableVars
       \/ "ack" \in faults /\ CommitMetadata(r) /\ UNCHANGED verdicts
    /\ Goto(r, "orphan")
    /\ UNCHANGED <<position, found, readerVars, bucketVars>>

\* Mutant of RecordOrphan: the 503 leaves no audit event behind.
RecordOrphanSilently(r) ==
    /\ pc[r] = "orphan"
    /\ Fail(r)
    /\ UNCHANGED bucketVars

\* The rollback is followed by a second transaction for the audit event, then by
\* InfrastructureError (503).
RecordOrphan(r) ==
    /\ pc[r] = "orphan"
    /\ audit' = audit \cup {<<"EVIDENCE_ORPHANED", Current(r)>>}
    /\ Goto(r, "failed")
    /\ UNCHANGED <<position, found, acquisitions, integrity, links, verdicts,
                   readerVars, bucketVars>>

RecordOrphanFails(r) ==
    /\ "database" \in faults
    /\ pc[r] = "orphan"
    /\ Fail(r)
    /\ UNCHANGED bucketVars

\* A known digest: the bytes are written to the key of the existing evidence.
Restore(r) ==
    /\ pc[r] = "restore"
    /\ \E key \in found[r] : Put(key)
    /\ Goto(r, "relink")
    /\ UNCHANGED <<position, found, readerVars, tableVars>>

\* A failing upload is logged as a warning and otherwise ignored.
RestoreFails(r) ==
    /\ "storage" \in faults
    /\ pc[r] = "restore"
    /\ Goto(r, "relink")
    /\ UNCHANGED <<position, found, readerVars, tableVars, bucketVars>>

\* Mutants of Relink: the link is left out; the file is taken up again for ever.
RelinkNothing(r) ==
    /\ pc[r] = "relink"
    /\ position' = [position EXCEPT ![r] = @ + 1]
    /\ Goto(r, "acquire")
    /\ UNCHANGED <<found, tableVars, readerVars, bucketVars>>

RelinkAgain(r) ==
    /\ pc[r] = "relink"
    /\ links' = links \cup ({CaseOf[r]} \X found[r])
    /\ Goto(r, "acquire")
    /\ UNCHANGED <<position, found, acquisitions, integrity, audit, verdicts,
                   readerVars, bucketVars>>

\* link_to_case (ON CONFLICT DO NOTHING), without an audit event.
Relink(r) ==
    /\ pc[r] = "relink"
    /\ links' = links \cup ({CaseOf[r]} \X found[r])
    /\ position' = [position EXCEPT ![r] = @ + 1]
    /\ Goto(r, "acquire")
    /\ UNCHANGED <<found, acquisitions, integrity, audit, verdicts, readerVars, bucketVars>>

\* The request fails; when only the acknowledgement of the commit was lost, the
\* link is there all the same.
RelinkFails(r) ==
    /\ pc[r] = "relink"
    /\ \/ "database" \in faults /\ UNCHANGED links
       \/ "ack" \in faults /\ links' = links \cup ({CaseOf[r]} \X found[r])
    /\ Goto(r, "failed")
    /\ UNCHANGED <<position, found, acquisitions, integrity, audit, verdicts,
                   readerVars, bucketVars>>

\* The loop of the route is over: 201 with one result for each file.
Answer(r) ==
    /\ pc[r] = "acquire" /\ ~Pending(r)
    /\ Goto(r, "answered")
    /\ UNCHANGED <<position, found, readerVars, tableVars, bucketVars>>

-----------------------------------------------------------------------------
(***************************************************************************)
(* The readers of evidence: view, verify and export.                       *)
(***************************************************************************)

\* scalar_one_or_none over the links of the acquisition, which raises
\* MultipleResultsFound as soon as there are two.
ResolvesToOneCase(id) ==
    Cardinality({case \in Cases : <<case, id>> \in links}) <= 1

ReaderGoto(v, label) == rpc' = [rpc EXCEPT ![v] = label] /\ UNCHANGED faults

\* Every route first loads the row and commits EVIDENCE_VIEWED, then resolves the
\* case whose access list decides.  Links are never removed, so resolving in the
\* same step as loading only hides a request that fails a little later.
Open(v) ==
    /\ rpc[v] = "idle"
    /\ \E operation \in Asks[v], id \in Evidence :
       /\ asked' = [asked EXCEPT ![v] = operation]
       /\ target' = [target EXCEPT ![v] = {id}]
       /\ audit' = audit \cup {<<"EVIDENCE_VIEWED", id>>}
       /\ ReaderGoto(v, IF ~ResolvesToOneCase(id) THEN "failed"
                        ELSE IF operation = "view" THEN "recorded" ELSE "opened")
    /\ UNCHANGED <<loaded, seen, acquisitions, integrity, links, verdicts,
                   requestVars, bucketVars>>

\* The lookup of the row or the transaction of its event fails; or the commit takes
\* effect, and only its acknowledgement is lost.
OpenFails(v) ==
    /\ rpc[v] = "idle"
    /\ \E operation \in Asks[v], id \in Evidence :
       /\ asked' = [asked EXCEPT ![v] = operation]
       /\ target' = [target EXCEPT ![v] = {id}]
       /\ \/ "database" \in faults /\ UNCHANGED audit
          \/ "ack" \in faults /\ audit' = audit \cup {<<"EVIDENCE_VIEWED", id>>}
    /\ ReaderGoto(v, "failed")
    /\ UNCHANGED <<loaded, seen, acquisitions, integrity, links, verdicts,
                   requestVars, bucketVars>>

\* verify_integrity loads the row again before it downloads the object.
Reload(v) ==
    /\ rpc[v] = "opened" /\ asked[v] = "verify"
    /\ \E id \in target[v] : loaded' = [loaded EXCEPT ![v] = integrity[id]]
    /\ ReaderGoto(v, "loaded")
    /\ UNCHANGED <<asked, target, seen, requestVars, tableVars, bucketVars>>

Downloading(v) == rpc[v] = IF asked[v] = "verify" THEN "loaded" ELSE "opened"

\* verify_evidence_integrity and get_evidence_bytes: the object is downloaded
\* between two transactions.  Verifying reports an absent object as "missing";
\* exporting one fails with 503.
Observe(v) ==
    /\ Downloading(v)
    /\ \E key \in target[v] :
       /\ seen' = [seen EXCEPT ![v] = Inspect(key)]
       /\ ReaderGoto(v, IF asked[v] = "export" /\ Inspect(key) = "missing"
                        THEN "failed" ELSE "observed")
    /\ UNCHANGED <<asked, target, loaded, requestVars, tableVars, bucketVars>>

\* Any ClientError of the storage is reported as "missing" by verify; export, and
\* every other exception, fails the request.
ObserveFails(v) ==
    /\ "storage" \in faults
    /\ Downloading(v)
    /\ \/ /\ asked[v] = "verify"
          /\ seen' = [seen EXCEPT ![v] = "missing"]
          /\ ReaderGoto(v, "observed")
       \/ ReaderGoto(v, "failed") /\ UNCHANGED seen
    /\ UNCHANGED <<asked, target, loaded, requestVars, tableVars, bucketVars>>

\* Mutant of CommitReading: the status is saved, its event is not.
CommitReadingOnly(v) ==
    /\ integrity' = [id \in Evidence |->
                        IF asked[v] = "verify" /\ id \in target[v] /\ seen[v] # loaded[v]
                        THEN seen[v] ELSE integrity[id]]
    /\ UNCHANGED <<audit, verdicts>>

\* The transaction at the end of the two routes.  verify writes its verdict on the
\* row it loaded before the download, and audits it; the session emits an UPDATE
\* only for a status that differs from the one it loaded.  export audits the
\* download before the bytes leave; they are not hashed.
CommitReading(v) ==
    /\ integrity' = [id \in Evidence |->
                        IF asked[v] = "verify" /\ id \in target[v] /\ seen[v] # loaded[v]
                        THEN seen[v] ELSE integrity[id]]
    /\ IF asked[v] = "verify"
       THEN verdicts' = verdicts \cup (target[v] \X {seen[v]}) /\ UNCHANGED audit
       ELSE audit' = audit \cup ({"EVIDENCE_EXPORTED"} \X target[v]) /\ UNCHANGED verdicts

Record(v) ==
    /\ rpc[v] = "observed"
    /\ CommitReading(v)
    /\ ReaderGoto(v, "recorded")
    /\ UNCHANGED <<asked, target, loaded, seen, acquisitions, links, requestVars, bucketVars>>

\* Loading the row again or the transaction with the event fails; or the commit
\* takes effect, and only its acknowledgement is lost: the caller gets a 500 for a
\* reading that is on record.
RecordFails(v) ==
    /\ \/ "database" \in faults /\ rpc[v] \in {"opened", "observed"}
          /\ UNCHANGED <<integrity, audit, verdicts>>
       \/ "ack" \in faults /\ rpc[v] = "observed" /\ CommitReading(v)
    /\ ReaderGoto(v, "failed")
    /\ UNCHANGED <<asked, target, loaded, seen, acquisitions, links, requestVars, bucketVars>>

\* What is committed is answered, unless the process stops in between.
Respond(v) ==
    /\ rpc[v] = "recorded"
    /\ ReaderGoto(v, "answered")
    /\ UNCHANGED <<asked, target, loaded, seen, requestVars, tableVars, bucketVars>>

-----------------------------------------------------------------------------
(***************************************************************************)
(* The environment.                                                        *)
(***************************************************************************)

\* The API process stops: every open request is cut off where it stands, what
\* it has committed stays.
Crash ==
    /\ "crash" \in faults
    /\ pc' = [r \in Requests |->
                IF pc[r] \in Finished \cup {"idle"} THEN pc[r] ELSE "crashed"]
    /\ rpc' = [v \in Readers |->
                IF rpc[v] \in Finished \cup {"idle"} THEN rpc[v] ELSE "crashed"]
    /\ UNCHANGED <<faults, position, found, asked, target, loaded, seen, tableVars, bucketVars>>

Damage(key) ==
    /\ \/ "loss" \in faults /\ missing' = missing \cup {key} /\ UNCHANGED corrupt
       \/ "corruption" \in faults /\ corrupt' = corrupt \cup {key} /\ UNCHANGED missing
    /\ UNCHANGED <<faults, stored, requestVars, readerVars, tableVars>>

Upload(r) ==
    \/ Refuse(r) \/ Lookup(r) \/ LookupFails(r)
    \/ Store(r) \/ StoreFails(r) \/ Persist(r) \/ PersistFails(r)
    \/ RecordOrphan(r) \/ RecordOrphanFails(r)
    \/ Restore(r) \/ RestoreFails(r) \/ Relink(r) \/ RelinkFails(r)
    \/ Answer(r)

Read(v) ==
    \/ Reload(v) \/ Observe(v) \/ ObserveFails(v)
    \/ Record(v) \/ RecordFails(v) \/ Respond(v)

Next ==
    \/ \E r \in Requests : Arrive(r) \/ Upload(r)
    \/ \E v \in Readers : Open(v) \/ OpenFails(v) \/ Read(v)
    \/ \E key \in stored : Damage(key)
    \/ Crash

Spec == Init /\ [][Next]_vars

\* The event loop resumes every coroutine whose await has returned, and every
\* call returns or raises: a request that has started keeps moving.
FairSpec ==
    /\ Spec
    /\ \A r \in Requests : WF_vars(Upload(r))
    /\ \A v \in Readers : WF_vars(Read(v))

-----------------------------------------------------------------------------
(***************************************************************************)
(* Properties.                                                             *)
(***************************************************************************)

\* The same bytes are never recorded as two acquisitions, although the lookup that
\* is meant to find the first one runs long before the second is inserted.
OneRecordPerContent ==
    \A a, b \in acquisitions : ContentOf(a) = ContentOf(b) => a = b

\* Acquisitions and evidence rows come in pairs, links point at recorded
\* acquisitions, and no row exists without the two audit events of its creation.
\* The branch of the dedupe path for an acquisition without evidence is dead code.
RowsBelongTogether ==
    /\ acquisitions = Evidence
    /\ \A link \in links : link[2] \in acquisitions
    /\ {"ACQUISITION_CREATED", "EVIDENCE_STORED"} \X acquisitions \subseteq audit

\* Both together: one set of rows for each content, and none without the others.
RecordsConsistent == OneRecordPerContent /\ RowsBelongTogether

\* The object of an evidence row was in the bucket before the row was visible:
\* whatever the faults, metadata never runs ahead of the bytes.
EvidenceBacked == Evidence \subseteq stored

\* While nobody tampers with the bucket and no call fails, verifying never raises
\* an alarm, however uploads, re-uploads and verifications of the same bytes
\* interleave.
HealthyStoreVerifies ==
    faults = {} => \A id \in Evidence : integrity[id] \in {"pending", "verified"}

\* Every file that a request got past, also one that failed on a later file of its
\* batch, is recorded and listed under the request's case; a request is answered
\* only when that holds of its whole batch.
FiledUnder(case, content) ==
    \E id \in acquisitions : ContentOf(id) = content /\ <<case, id>> \in links

BatchPrefixFiled ==
    \A r \in Requests :
        /\ \A i \in 1..Len(Batch[r]) : i < position[r] => FiledUnder(CaseOf[r], Batch[r][i])
        /\ pc[r] = "answered" => position[r] > Len(Batch[r])

\* An object that no evidence row refers to, and that no request will still refer
\* to, is on record as orphaned (docs/api/ACQUISITIONS_EVIDENCE_API_V1.md), and
\* nothing else is: reconciliation may remove what the record names.  Promised while
\* nothing fails; a crash or a lost acknowledgement breaks both directions.
InFlight(id) == id = Current(id[1]) /\ pc[id[1]] \in {"persist", "orphan"}

OrphansOnRecord ==
    faults = {} =>
    /\ \A id \in stored \ Evidence : InFlight(id) \/ <<"EVIDENCE_ORPHANED", id>> \in audit
    /\ \A id \in Ids : <<"EVIDENCE_ORPHANED", id>> \in audit => id \notin Evidence

\* The row of an evidence and the trail tell the same, however verifications overlap,
\* fail after their commit or are cut off: a row is pending exactly as long as no
\* verdict on it is on record, and carries one that is.  A caller who gets a report
\* gets one that is on record, and one who gets bytes is on record for them.
ReadingsAudited ==
    /\ \A id \in Evidence : integrity[id] # "pending" => <<id, integrity[id]>> \in verdicts
    /\ \A id \in Evidence : integrity[id] = "pending" => \A s \in Verdicts : <<id, s>> \notin verdicts
    /\ \A v \in Readers : rpc[v] = "answered" /\ asked[v] = "verify" =>
          target[v] \X {seen[v]} \subseteq verdicts
    /\ \A v \in Readers : rpc[v] = "answered" /\ asked[v] = "export" =>
          {"EVIDENCE_VIEWED", "EVIDENCE_EXPORTED"} \X target[v] \subseteq audit

\* With no fault at all, a reader of existing evidence is served
\* (docs/api/ACQUISITIONS_EVIDENCE_API_V1.md, GET /api/v1/evidence/{evidence_id}).
EvidenceReadable == \A v \in Readers : rpc[v] # "failed"

\* Uploading bytes that are known brings their object back: a request that goes on to
\* link what it found leaves it in the bucket, whatever had become of it, as long as
\* no call of the storage fails ("Always upload to ensure the file physically exists in MinIO").
Restored ==
    \A r \in Requests : "storage" \notin faults /\ pc[r] = "restore" /\ pc'[r] = "relink" =>
        found[r] \subseteq stored' \ (missing' \cup corrupt')

RestoresObjects == [][Restored]_vars

\* A request that has started is answered, refused or cut off by a crash.
EveryUploadEnds == \A r \in Requests : pc[r] # "idle" ~> pc[r] \in Finished

\* The refinement: a content is filed under a case when an acquisition of it is
\* linked, and a request is accepted when it is answered.
filedContents == {<<link[1], ContentOf(link[2])>> : link \in links}
outcomes ==
    [r \in Requests |-> IF pc[r] = "answered" THEN "accepted"
                        ELSE IF pc[r] \in {"failed", "crashed"} THEN "refused" ELSE "open"]

Catalogue == INSTANCE EvidenceCatalogue WITH filed <- filedContents, outcome <- outcomes

\* The upload service keeps the promise EvidenceCatalogue states.
ImplementsCatalogue == Catalogue!Spec

=============================================================================
