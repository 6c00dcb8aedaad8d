# NetSleuth-AI: models, checks and proofs

NetSleuth-AI is a network forensics application. Investigators upload packet captures to cases; an
in-process pipeline extracts (M1), classifies (M2), correlates (M3) and files (M4) what a capture
holds; reports are rendered, finalised and exported; analysts read the case and question an LLM about
it. The backend is `src/backend/app`: FastAPI on asyncio, PostgreSQL through SQLAlchemy (READ
COMMITTED), MinIO for bytes, Zeek in Docker, Ollama for the language model. The client is React, in
`src/frontend`.

This directory holds TLA+ models of that code, TLC runs over small instances, and TLAPS proofs for
every instance. `PROJECT.json` lists components, runs, mutants, hazards, findings, theorems, and the
source lines each definition stands for.

    tlasany M.tla                              parse a module
    tlc -workers 2 -config X.cfg MCM.tla       check a run
    tlapm M_proofs.tla                         check the proofs

Contents: 1 the system; 2 the modules and how they correspond to the code; 3 the runs; 4 what is
proved; 5 what is only model-checked; 6 what is abstracted and what is not modelled; 7 findings and
other divergences; 8 the plan.

## 1. The system

### Components, state, operations

| Component | Code (`src/backend/app/`) | State | Operations | Module |
|---|---|---|---|---|
| Evidence upload | `services/app_acquisition_service.py`, `api/v1/acquisitions.py` | bucket of evidence objects; tables `acquisitions`, `evidence`, `case_acquisition_links`, `audit_events` | upload a batch: validate, deduplicate by SHA-256, store, commit metadata, restore, relink, record an orphan | EvidenceStore |
| Evidence reading | `services/evidence_service.py`, `api/v1/evidence.py` | `evidence.integrity_status`, audit | view, verify, export | EvidenceStore |
| Analysis jobs | `services/analysis_orchestrator.py`, `api/v1/analysis.py`, `orchestrator/pipeline.py` | table `analysis_jobs`, audit; results of the engines | start, poll, background execution, failure recording | AnalysisJobs |
| Cases | `services/case_service.py`, `api/v1/cases.py` | `investigation_cases` (status, closed_at), audit | create, view, PATCH (listing: CaseViews) | CaseRecords |
| Reports | `services/reports_service.py`, `api/v1/reports.py` | table `reports`, reports bucket, audit | generate, finalize, export | Reports |
| M1 packet intelligence | `engines/packet_intelligence/` | Zeek's output directory per acquisition; tables `flows`, `protocol_events`, `artifacts` | run Zeek, two passes over its logs, artifacts, integrity checks, persist | PacketIntelligence, CaseGraph |
| M2 analysis | `engines/analysis/` | tables of findings | features, models, decision, risk, findings, persist | DecisionEngine, CaseGraph |
| M3 correlation | `engines/correlation/` | the investigation graph: entities, relationships, behaviors, timeline events, MITRE mappings, attack chains | correlate, reconstruct, map, hypothesise, validate, conclude, build and persist the case | Correlation, CaseGraph |
| M4 packages and renderers | `engines/reporting/` | a package in memory; tables `evidence_items`, `custody_events` | build, verify, export, persist; generate a report and render it as PDF, HTML, JSON or text | EvidencePackage |
| Access | `auth/`, `persistence/models/identity_models.py` | users, tokens, `case_access`, refusals on the audit trail | login, role gates, case gates | AccessControl |
| Views | `services/investigation_service.py`, `api/v1/investigation.py`, reads of `reports_service.py`, `copilot_service.py` and `case_service.py` | none | read the tables, statement by statement | CaseViews |
| Copilot | `engines/llm_assistant/`, `services/copilot_service.py`; the panel in `src/frontend` | conversations in browsers, audit | assemble the context, ask the model, check the reply, record, answer | Copilot |
| Network queries | `services/network_service.py` | none | aggregate flows into profiles | - |
| Other pages of the frontend | `src/frontend/src/features/` | polling timers, caches | upload, start, poll, show | - |

### Interaction

- **Through tables.** Every service opens units of work: transactions that commit at the end of a
  `with` block and roll back on an exception. No service takes locks or uses SERIALIZABLE, so between
  a read and the write that relies on it another request may commit, and each statement of a view has
  a snapshot of its own. Unique indexes and check constraints are what is left to object.
- **Through the buckets.** MinIO calls are not part of any transaction. Upload stores the object
  first and the rows after; reports do the same; finalising copies an object, then updates its row.
- **Through the background task.** The job route commits a queued row and then schedules a task in
  the same process, which drives the engines and updates the row. Nothing resumes it after a crash.
- **Through the file system.** All runs of Zeek on one acquisition write to one directory.
- **Through shared keys.** Addresses and domains are entities whose key does not contain the case;
  M3's transactions of different cases insert the same rows with `ON CONFLICT DO NOTHING` and wait
  for each other inside PostgreSQL. The upsert of a case locks its row.
- **Analysis over cases and reports.** M3 writes `status = 'open'` over the row of a case that
  investigators PATCH; M4 files a report row that finalize and export take like a rendered one.
- **Through the event loop.** One process serves all requests and runs all analyses. The copilot's
  call of the language model is not awaited: for as long as it takes, nothing else runs.
- **Gates in front of routes.** A request's user is read from the database each time, its access to
  the case once; the statements that follow rely on it.

### What is hard about it

Check-then-act across transactions (deduplication, one active job, allowed transitions, draft before
finalize, the gate before the reads); two stores without a common transaction; commits whose
acknowledgement is lost, which the `except` clauses treat as failures; crashes between the steps; the
shared Zeek directory read in two passes; multi-row inserts that wait for, skip and deadlock with each
other; views put together from several snapshots; a model that may reply anything, compared with what was
read before it was asked; a custody log ordered by a wall clock; and, in M3, a chain of rules (mapping,
hypothesis, validation, root cause, impact) each of which recomputes evidence and confidence that it
should only pass on.

### What makes each component correct

- *Evidence*: rows never run ahead of bytes; the same bytes are recorded once; an object nobody
  refers to is on record as orphaned, and nothing else is; an answered batch is filed in full; a
  stored verdict is one that is audited, and what a caller is told is on record.
- *Jobs*: the row never contradicts itself or goes back; "completed" means results; the audit trail
  agrees with the row; no failure of an engine blocks an acquisition; every job ends.
- *Cases*: only somebody entitled closes a case, and on record; statuses move along the table of
  transitions, whatever was read before the write.
- *Reports*: a final report never changes; objects agree with rows; an export answers its own report;
  the trail tells what was done.
- *M1 to M3*: an analysis is visible in full or not at all, under its own case, and the graph is
  closed under its references; the integrity checks never fire; every conclusion follows from its
  premise; every analysis ends.
- *M4*: the chain of custody tells all that was done to a piece of evidence, in order; a report counts
  and shows all of it; no document loses a card or an event from its tables.
- *Access and views*: whoever is answered was entitled to it; a refusal is recorded, and a recorded
  refusal happened; what a view shows together belongs together.
- *Copilot*: what is answered as grounded cites the case; every answer is on the trail; every answer
  stands under its question; every question ends.

## 2. The modules

One module per component, with its abstract specification beside it; `MC*` modules hold instances for
TLC, `*_proofs` the theorems.

### EvidenceStore, EvidenceCatalogue

Requests and readers step from await to await: a lookup, a MinIO call, a committed transaction. `pc`
and `position` say where a request is in its batch, `found` what its lookup by digest returned;
`acquisitions`, `integrity` (the evidence rows), `links` and `audit` are the tables; `stored`,
`missing` and `corrupt` the bucket. `Lookup`, `Store`, `Persist`, `RecordOrphan`, `Restore`, `Relink`
are the code's calls in order, each with the branch in which it fails; `PersistFails` is the `except`
clause however it is reached (unique violation, rollback, lost acknowledgement). `Open`, `Reload`,
`Observe`, `Record`, `Respond` are the three reading routes; `CommitReading` is their last transaction,
which writes only a status other than the one loaded before the download, as the session does, and
which may take effect and raise (`RecordFails`) or be the last thing the process does (`Crash` before
`Respond`). `Damage` and `Crash` are
the environment. **EvidenceCatalogue** promises what an investigator can rely on: contents appear
under cases one at a time and stay, and a request is accepted only with its whole batch filed.

### AnalysisJobs, JobLifecycle

`Check` and `Insert` are the two halves of `start_analysis` with other commits in between; the actions
from `Begin` to `Complete` are the transactions and engine runs of `execute_analysis_background`,
`current` is its local variable `current_stage`. `Settle` is the end of each transaction, with the case
that it commits and raises. `RecordFailure` is the `except` clause. The engines are reduced to what
the orchestration can tell apart: whether M2 reports a finding, whether M3 has anything to put on a
timeline (`Traffic`), and the run whose logs were read (`package`, `logs`, `flows`). `reports` has for
each case the analysis its report row is of: the first to file one, since a second insert under the
same key fails and is ignored. **JobLifecycle** is what a polling client is promised.

### CaseRecords

`LoadCase` is a PATCH up to the read and its checks, `WriteCase` the UPDATE with audit and commit,
refused by the check constraint for a status the table does not know. A PATCH that names no status has
other fields only ("unchanged"), an explicit null, or nothing at all ("empty"), which the service tells
apart; every transaction may also commit and raise. `UpsertCase` is M3's statement on
the same row. `Alias` and `Allowed` are `status_alias_map` and `allowed_transitions` as written.

### Reports, ReportArchive

`Generate`, `Upload`, `InsertReport`; `LoadDraft`, `CopyObject`, `FinalizeReport`; `LoadFinal`,
`FetchFinal`, `FetchDraft`, `RecordExport`: the awaits of the three routes, with the failures the code
swallows (upload, copy, audit) and those it turns into a stub or an error. `FilePipelineReport` is M4's
row, one for each of the `Analyses` that finds its key free, as it is again after a finalization. A digest
is the name of the rendering it is a digest of. **ReportArchive**: drafts become final once and stay, only
final reports are released.

### PacketIntelligence, DecisionEngine, Correlation

Pure operators. *PacketIntelligence*: the adapters (`FlowOf`, `EventOf`), the index from Zeek's uids to
flows, the extraction of artifacts, `Package` and its integrity checks (`WellFormed`).
*DecisionEngine*: decision, risk (the formula of `risk.py` in exact 200000ths) and finding from a
`Verdict`, i.e. any output of the two models. *Correlation*: entities and relationships in the order in
which they are written, the timeline, MITRE mappings, hypotheses, validations, root causes, impacts
with their confidences in hundredths, and the case builder's checks (`Checked`, `Builds`).

### CaseGraph, GraphPublication

The machine that runs those operators concurrently: `RunZeek` overwrites the directory, `ReadFlows` and
`ReadEvents` are the two passes, which may find the logs of different runs; `StoreM1` runs into the
unique uids; `Analyze` makes the document; `UpsertCase` waits for the lock on the case; `InsertRow`
writes the next of the rows that the document shares with other cases (`shared`, from each key to its
place in the order of the statements), unless another transaction has inserted it and not ended
(`Blockers`); `Commit`, `Rollback`, and `Deadlock` for PostgreSQL's detector.
PostgreSQL's locks and waits are external: modelled from how the code uses them. **GraphPublication**:
results appear at once and in their case; no row is changed, removed or handed over; the chain is
replaced together with its mappings.

### AccessControl, CaseViews

*AccessControl* is users, tokens, cases, grants and the refusals on the trail: `Login`, `Expire`,
`CreateCase` (the row and its creator's grant in one commit), and maintenance of the database,
`SetActive` and `SetGrant`; `KnownUser` and `MayRead` are the two gates. *CaseViews* extends it.
`Plan` gives each route as the sequence of its statements in the order of the code; `Arrive` is
`get_current_user`, `Gate` the check of the case, `Read` one statement, `Answer` the answer.
`Publish` is what the analyses do in between: a step that GraphPublication allows, as a conjunct of
the action, which is how CaseViews and CaseGraph are composed through their common abstraction.
`wasActive`, `couldRead` and `asOf` are history variables: what was so at some moment of a request, and
what had been published when a statement was answered.

### Copilot

The panel (`Send`, `Settle`, `Leave`), the handler (`ReadMappings`, `ReadFindings`, `RefuseTarget`,
`Invoke`, `Commit`, `Answer`), the model (`Reply`, `ModelFails`), and what can fail (`DatabaseFails`,
`Disconnect`, `Crash`). `thinking` is the request that waits for the model and holds the event loop:
every other step of the process has `LoopIsFree` as its guard, the analyses' included. `Response` is
what the assistant makes of a reply, pure: normalisation, the comparison of identifiers with the
context, the correction of figures, and the search for claims, which any word of malice in the dumped
context satisfies (`Mentioned`), also one in a label, a description, a rationale or the title that
`Rename` gave the case.

### EvidencePackage

`Build`, `Verify`, `Export`, `Persist`, `GenerateReport`, `Render`, and `SetClock`, since the wall clock
that stamps custody entries may be set back. `RecordAction` inserts by time, as the stable sort does;
the last record of an id stands; `Kept`, `Grouped` and `Detailed` are the PDF's timeline (each event has
its place by the number of events before it, so a stable sort is a count and not a fold), while the
other three renderers list every event; the one of texts refuses a report of v1.3. `Stamp` is the order
of the timestamps as strings: `isoformat` writes no fraction at a whole second, so "...01Z" comes after
"...01.5Z". `Second` is how many moments a second has.

## 3. The runs

| Run | Instance | Shows |
|---|---|---|
| `evidence_faults` | 2 uploads (the second refused at its last file), 2 overlapping verifications or a verification and an export; three environments: no fault, the database's with corruption, the storage's with loss, the last two with lost acknowledgements and crashes; fair | types, one record per content and consistent tables, rows backed by bytes, batches filed, no false alarm and orphans on record where nothing fails, readings audited, every upload ends, EvidenceCatalogue is implemented |
| `evidence_shared` | 2 uploads of the same bytes for 2 cases, a view | **violated**: the evidence can no longer be read |
| `job_faults` | 3 jobs on 2 acquisitions, all five faults, fair | types, readable rows and results behind "completed", audit agrees, reports rest on committed results, every job ends, JobLifecycle is implemented |
| `job_race` | 2 jobs on one acquisition | **violated**: both become active |
| `case_requests` | 4 requests (1 of an analyst), 2 cases, 7 contents of a PATCH, failing transactions, lost acknowledgements, crashes, symmetry | types, closed by decision, workflow kept |
| `report_requests` | 1 generation, 3 finalizations (1 of an analyst), 1 export, 2 reports of the pipeline, formats json and txt, all faults, symmetry | types, objects match rows, exports and trail truthful, ReportArchive is implemented |
| `case_graph` | 2 runs of one acquisition and case, 1 of another case sharing addresses and a domain; 5 captures, 7 verdicts; one run's database fails; fair | types, all or nothing, only committed rows, checks idle, mapped iff hypothesised, conclusions follow, every run ends, GraphPublication is implemented |
| `case_graph_scope` | the same with benign verdicts, `StoresFindings = FALSE` | **violated**: an entity belongs to the case that came first |
| `case_reads` | 1 request to any of 8 routes, 2 users (an administrator; an analyst whom maintenance opens, closes, grants and deprives), 2 cases, 3 analyses sharing addresses, pages of 2 | types, served were entitled and the trail of refusals true, views are consistent |
| `refused_reads` | the same | **violated**: a refusal that no audit event tells of |
| `copilot_requests` | 1 panel, 2 questions out of 3 kinds, 6 replies, 2 analyses, a case that is renamed, all failures, fair | types, points grounded, answers on the trail, conversation in order, every question ends |
| `evidence_package` | 2 ids, 2 contents, clock of 2 readings, 4 custody actions; every timeline of 3 or 4 events over 3 kinds and 3 moments of two seconds, those of 5 over 6 of these 9; groups of 2 | custody complete, the report tells the package, whichever document |

**Bounds.** Every named bound is the size of a constant: requests, readers, jobs and runs carry out one
operation each, so their number bounds every history. Two of a kind show a race; the third job of
`job_faults` and finalization of `report_requests` are there because the second then meets what a race has
left behind (stale flows, a final row), and the second report of the pipeline because the first gives its
key free. One content that is uploaded twice and a malformed one are all the upload distinguishes; two
cases all that a link, a shared row or a refused access distinguishes. The captures of `MCCaseGraph` reach
each branch of the rules: `Lookup` (a DNS event, an event of an unknown uid), `Browsing` (HTTP and TLS, an
absent value), `Scan` (two targets, an unreadable line, no events), `Refused` (a rejected connection, an
unreadable event), and for the other acquisition `Swapped`, with the addresses of the others in opposite
order, which is what makes two transactions wait for each other. The verdicts reach every activity,
detection without confidence, and no detection.

`case_reads` has one request because requests do not touch each other: a view writes nothing but a
refusal. What races with it are sessions, maintenance and three analyses; two of one case exceed a page
of two entities, and the third shares an address with the other case. The constraint `SomeoneAtWork`
ends a behaviour when the request has ended, since what the surroundings do then nobody sees.

The two questions of `copilot_requests` meet in the process when the first is cut off and the panel
asks again: `QuestionBound`. The replies of `MCCopilot` reach each branch of the normalisation and each
kind of reference, known and unknown; the two analyses map one technique with different confidence. Of the two
titles, two findings, two rationales and two sets of labels one each is `Suspected`.

In `evidence_package`, `ClockBound` 2 is what setting a clock back needs, and `ActionBound` 4 an ingest,
two verifications and an export. `Second` is 2: a second then has its whole start and a broken rest, which
is what the order of strings tells apart. The code's groups hold at least five events and six are shown
(`GroupMin`, `GroupLimit`); with two and two, timelines of five events already reach collapsing,
grouping and cutting off. The cases of `MCEvidencePackage` hold a reference declared twice, one whose
digest the column has no room for, one with a source, and two the builder refuses.

`evidence_faults` starts in one of three environments (`FaultSets`): two of the properties,
`HealthyStoreVerifies` and `OrphansOnRecord`, say what holds as long as nothing fails, and have
`faults = {}` as their premise; with lost acknowledgements they are false of the code, and section 7 says
so. All faults at once would only multiply the states: the database's failures and the storage's lead
out of different awaits. `case_graph`
injects an M2 persistence that stores findings (`StoresFindings = TRUE`), as the pipeline's own
integration tests do (`tests/integration/test_investigation_engine_production.py:151`); the
application's own refuses every package with a finding (section 7), and with it most of M3 would never
run. The copilot reads whatever findings are in the table.

**Deadlock checking** is on in `evidence_package`, where something can always be done, and off in the
other runs: requests and jobs are finitely many, and when all have ended the system rests. That none
of them gets stuck before its end is what `EveryUploadEnds`, `EveryJobEnds`, `EveryRunEnds` and
`EveryQuestionEnds` check. (CaseRecords, Reports and CaseViews have no loop and no waiting; their runs
state safety only, and assume no fairness.)

**Fairness** is that of asyncio and of a database that answers. `EvidenceStore`: weak fairness of each
request's `Upload` and each reader's `Read`; arriving, damage and crashes are not fair. `AnalysisJobs`:
weak fairness of each `Request` and `Task`, as each await returns or raises and Zeek has a time limit.
`CaseGraph`: weak fairness of each run's progress and of PostgreSQL's deadlock detector. The former is
written out: `Ready(r)`, a run that has not ended and waits for nobody, stands for `ENABLED`, and
`Moves(r)`, any change of the run itself, for its actions. `Copilot`: weak fairness of each request's
`Handle`, which contains neither `Reply` nor `ModelFails`: the model need not reply, and nothing makes the
client give up. The limit that the code passes (`timeout=180.0`, `engines/llm_assistant/service.py:359`)
is no field of ChatOllama, whose client waits without one. So `EveryQuestionEnds` has a premise,
`[]<>LoopIsFree`: every call of the model returns some time. Without it the whole process stands still,
which is what the code does. Other failures never have to happen, and nobody has to ask. Weak fairness
suffices although requests disable each other while one of them thinks: thinking ends, and questions are
finitely many.

**Symmetry** is used for requests, and finalizations, of one role, in two runs whose properties are all
safety.

**Mutants.** Each property of each passing run has a mutant in `PROJECT.json`, a plausible bug written
beside the definition it replaces (`LookupThenPersist`, `CompleteUnaudited`, `CommitHolding`,
`KnownByToken`, `InvokeInBackground`, ...) that makes the run fail.

## 4. What is proved

TLAPS checks all of the following for every value of the constants that satisfies the modules'
assumptions: any number of requests, users, runs and cases, any batches, captures, verdicts, grants and
replies, any set of faults unless said otherwise.

**EvidenceStore_proofs.** `TypeCorrect`, `RecordsCorrect` (one record per content, tables agree),
`MetadataIsBacked`, `BatchesAreFiled`, `ServiceImplementsCatalogue`, `ReadingsAreAudited`, and, for
behaviours with `faults = {}`, `HealthyNeverAlarms` and `OrphansAreOnRecord`. Two say what a failure takes
to happen: `ReuploadsRestore`, that bytes uploaded again are there before they are linked, as long as no
storage call fails; and `OnlySharingHidesEvidence`, that what `evidence_shared` shows to fail holds as
long as nothing fails and no bytes are uploaded to two cases. Types need `TypeInv`: a request that works
on a file is within its batch. Uniqueness needs what a lookup knew to stay true: `FoundRecorded` says that
a found acquisition exists, and is one of the bytes being uploaded, as long as the request goes on to
restore and relink. Backing needs `BackedInv`: a request about to commit has stored its object. That every
file passed is filed needs the links of the dedupe path to be those of the same content, which is
`FoundRecorded` again. That verdicts are audited needs `ReadingInv`: what a reader works on is on record
from the moment it opened it, and what it has committed from then on; whether it still answers does not
matter to it. `HealthyInv` adds what a reader has seen, and `OrphanInv` that evidence lies behind the
position of its request, and a recorded orphan at the file where its request ended. The refinement maps a
step that links to `File`, an answer to `Accept`, a failure or a crash to `Refuse`, and everything else to
a stutter. `OnlySharingHidesEvidence` goes through it: that a case lists only what was brought to it
(`BroughtInv`) is shown of the catalogue's three steps, and so holds of the service.

**AnalysisJobs_proofs.** `TypeCorrect`, `RowsAndResultsCorrect` (readable rows with an error code
exactly when they failed, results behind "completed" and behind the report of a case, engines in
order), `AuditIsFaithful`, `RowsNeverGoBack`, `OrchestratorImplementsLifecycle`, and
`OnlyOverlappingChecksRace`: what `job_race` shows to fail holds as long as no two start requests for one
acquisition are between check and insert, whatever else happens, since then what a request has checked
stays so until it inserts (`CheckedStaysFree`).
None of these is inductive: whether "completed" is honest depends on how the task got there. The
invariant `JobsInv` says for every job what its row holds at each step of its task (`RowAtStep`,
`ProgressAtStep`) and which engines have committed (`ResultsAtStep`, `InOrder`); `AuditInv` adds the
trail. The step "failing" allows a completed row, since the last commit may raise. A report is filed
where `ResultsAtStep` has all three engines committed, and commits only accumulate.

**CaseRecords_proofs.** `TypeCorrect`, `OnlyDecisionsClose`, `WorkflowIsKept`. The PATCH checks a status
that may be stale when it writes. `CasesInv` says why that does no harm: only "open" and "closed" can
ever be stored, since the aliases of everything else end in the check constraint, and from either the
table allows the way to the other; and a request about to write has passed the check of its role, which
does not go stale.

**Reports_proofs.** `TypeCorrect`, `DigestsAreTrue`, `ExportsAreTrue`, `TrailIsTrue`,
`ReportsImplementArchive`, `OnlyTheBucketLosesReports`. `ReportsInv` is a conjunction: a row's key and
digest are its own report's (`RowsInv`), an object is the rendering its key names (`ObjectsInv`), a
request that may still file a report has not (`FreshInv`), and, for the race of finalizations, the row
that a finalizer has read is still on file or by now exactly what it is about to write (`TakenInv`): two
finalizations of one draft write the same row. The service swallows every exception of MinIO, so a row may
point to nothing and an export may answer the stub; `OnlyTheBucketLosesReports` says that nothing else
leads there. Where no call of the bucket fails, `StoredInv` has the object of a draft before its row, and
the copy before the row turns final (`DraftStored`, `TakenStored`, `RowsStored`), nothing is ever deleted
(`ObjectsStay`), and an export in the format of its report finds it (`OwnFormatServed`). Reports of the
pipeline, for which no object is ever stored, are left out of it.

**CaseGraph_proofs.** `TypeCorrect`; `WrittenInFullOrNotAtAll`; `OnlyCommittedRows`; `ChecksAreIdle`;
`MappingsAndHypothesesAgree`; `ConclusionsAlwaysFollow`; `GraphImplementsPublication`;
`OnlySharingMisfilesEntities`; `NeverStuck`; `WaitsForOne`; `OneOrderNeverDeadlocks`; `RiskIsMonotone`.
It begins with lemmas about the pure operators: the index of M1 names flows of the package
(`IndexNamesFlows`), so packages are well-formed whichever logs they come from (`PackageWellFormed`);
packages cite finitely much (`PackageFinite`), without which counting means nothing; every validator
returns one of three shapes (`ValidationShape`); a root cause is no surer than its validation, an impact
no surer than its cause (`CauseNoSurer`, `ImpactNoSurer`), by cases on the shape and the caps; the case
builder finds nothing wrong (`DocumentChecked`); a finding is mapped exactly when it has a hypothesis
(`MappedAndHypothesized`). They apply to the documents of the machine through `PackagesInv` (a package
is what two passes made of the logs of some runs) and `DocumentsInv` (a document is what M2 and M3 make
of such a package). `OnlyCommittedRows` rests on `DoneStays` (who has committed keeps the document),
`GraphChangesAtCommits` and `CommitWrites`.

`WrittenInFullOrNotAtAll` has the most to it, because rows of several analyses are one row.
`DocumentRows` and `OwnIsPrivate` say which keys no other run can have: those that carry an identifier
the run drew (`NamesTheRun`, `PackageNames`). `ReferencesAreRows` says, rule by rule of M3, that whatever
a document refers to is among its own rows or the shared ones. `ConcludedInv` ties both to the documents
of the machine, from the end of M3 on; `WrittenInv` says that the rows of a committed analysis, its own
and the shared, are in the graph. Its step is the commit: no shared row is left, so each is either the
run's own or in the graph, committed by the transaction it had waited for; had that one been rolled
back, the row would be left. Conversely a row in the graph is of a committed run (`OnlyCommittedRows`),
and, where the key is private, of the only one that can have it. The same two facts give
`OnlySharingMisfilesEntities`: a shared row in the graph is of a committed run that has it among its own
shared rows (`SharedRowIsShared`), so what `case_graph_scope` shows to fail holds of an analysis as long
as no other case has met what it has met. `RiskIsMonotone` is about the formula of M2 alone: neither the
floor of an activity nor the bound at full risk breaks the order of two verdicts on one activity.

Three theorems are about waiting. `NeverStuck` is what of `EveryRunEnds` can be said without fairness:
in every state all runs have ended, one is ready, or some are deadlocked. Who holds the row of a case is
writing, and who is writing waits for others who are; of finitely many that wait, some set is its own
set of blockers (`SomeCycle`, by taking the smallest set that is closed under waiting). `WaitsForOne` is
why that is a cycle: the places of addresses and of domains are different numbers (`IpsHavePlaces`,
`DomainsHavePlaces`), so the turns of shared rows differ (`TurnsDiffer`), one of those left is first
(`SomeTurnIsFirst`, `OneComesFirst`), and one transaction holds it (`HeldOnce`, whose step is that an
INSERT waits for the holder and a commit adds no row that another may hold). `OneOrderNeverDeadlocks`
says where deadlocks come from: `InOrderInv` has every transaction hold what comes first in its document,
so if all documents agreed with one order, the awaited rows round a cycle would come ever earlier in it.
The code writes rows in the order of the capture, which agrees with no such order: TLC reaches deadlocks
in `case_graph` where two captures name two addresses the other way round.

**CaseViews_proofs.** `TypeCorrect`, `OnlyTheEntitledAreServed`, `ViewsBelongTogether`. `Inv` relates the
position of a request in its plan to what has been checked: behind the gate, the verified case is the one
asked for and one that its user could read; a row read by its key is of such a case once its own gate is
passed; every row a statement showed belongs to a case the user could read at some moment (`Shown`,
`Progress`). `Plans` looks the eight routes up once: where the gate stands, and which statements need it.
`UntouchedRequest` carries all that through publications and maintenance, as rows stay and `couldRead`
grows. `TrailInv` has a refusal on the trail for each request that a gate with the request refused, and a
refused request for each on the trail. `ViewsInv` is about what is shown together: a page that was not
full is all there is, and stays so until the next publication (`Fresh`), so a statement answered before
that publication agrees with it (`EndsExplained`, `ChainMapped`, `TotalShown`). A behaviour's entities are
looked up after the events and edges that name them (`EndsShown`), and rows named by rows are there
(`EndsKnown`).

**Copilot_proofs.** `TypeCorrect`, `ConversationsStayInOrder`, `AnswersStayOnTrail`,
`ResponsesAreGrounded`. `ConversationInv`: the last message of a panel that waits is the question it
waits for, so a late answer of an earlier question has no place to go. `TrailInv` and `ShownInv`: a
request is on the trail only from its commit on, once, with the result it then answers. `GroundInv`: what
a request has read of the case is still there, as rows only grow, so a response checked against the
context is grounded in the tables of any later moment. That is why the claims are compared with all the
titles that the case has had: a title, unlike a row, may be gone by then.

**EvidencePackage_proofs.** `CustodyAlwaysComplete`, `ReportsTellThePackage`. Custody: `CustodyInv` says
that the numbers of packages are given out one after the other (`Numbered`), so nothing has been done yet
on a new one; that each chain is in order of time, whatever the clock was set to, and holds exactly what
was done on its evidence, an ingest included (`ChainTells`); that a result is that of bytes checked
against the declared reference at the time of a verification in the chain (`ResultStands`); and that the
rows on file are of things that were done, an ingest among them (`ItemTells`). `InsertKeepsOrder` is the
lemma about the stable insertion.

Reports: `ReportInv` says that the cards of a report are the records of the package (`AdaptedDeclares`,
`CardsAreTheRecords`, `CardIsTrue`) and its totals count each once (`EachCountedOnce`), whatever cards a
caller has collected before; `TellingInv` adds what each document shows. The PDF's timeline is the hard
part: the order of the strings is total (`PrecedesIsOrder`) and agrees with the
seconds (`StampsKeepSeconds`), which is all the order of time there is, so counting what comes before gives each
event a place of its own (`RanksGrow`, `EachHasItsSpot`, `CollapsedInOrder`); what is not kept repeats an
earlier extraction (`NotKeptIsRepeated`); the groups follow each other and are large, all but the last
(`GroupsAreLarge`), so those shown are the first events and, if any are left, at least
`GroupMin * GroupLimit` of them (`DetailedIsPrefix`, `PdfIsTold`). Groups are cut by a recursive function.
Induction with a predicate as a parameter is out of the provers' reach, so that the function exists and
satisfies its equation (`PlacesExist`, `GroupedUnfolds`), like every induction here, is shown by taking
the least number at which it would fail (`SmallestNumber`, `FirstSoMany`).

**Assumptions.** each module with CONSTANTS has one named assumption (`EvidenceStoreAssumption`,
`ViewsAssumption`, ...) that types them: batches are not empty, captures are `Traces`, verdicts are in the
range of the models, results belong to cases, replies are lists of points. TLC evaluates each of them on
every run of its module. Nothing else is assumed.

## 5. What is only model-checked

- Liveness (`EveryUploadEnds`, `EveryJobEnds`, `EveryRunEnds`, `EveryQuestionEnds`): out of the prover's
  reach. Of `EveryRunEnds` the part without fairness is proved (`NeverStuck`).
- That `evidence_package` never deadlocks, which speaks of `ENABLED`.

Every other property of a passing run is stated by a theorem of section 4.

## 6. Abstractions, and what is not modelled

- Files, digests, renderings and rows are named by who made them; texts, times, tactics, reasons and
  layout are left out. Object keys keep the parts that can collide.
- Role and case gates come before the other modules and are modelled in CaseViews; the routes of
  EvidenceStore, AnalysisJobs, CaseRecords and Reports start behind them, except where the role
  matters to a property.
- Zeek is external. Its overwriting of the directory is one step, so a half-written log is not
  modelled; a line that cannot be read is.
- M2's features and models are numeric: `Verdict` is any result they can have.
- `Init` of AnalysisJobs and CaseGraph has recorded acquisitions with evidence and existing cases; none
  is ever deleted by the application.
- M3's rows that no other analysis can have are written with the commit, since nobody can wait for them.
- Views are what they select, not how they show it: filters, sorting and search are left out, pages
  other than the first too. A refusal that is logged and never committed is no event.
- What a language model says is reduced to what it cites, the figures it gives, and whether it calls
  something known malicious; the prompts' wording is left out. `Suspected` are the findings and texts
  that have a word of that kind. The rows that M3 writes in one transaction (mappings, labels,
  descriptions) are read in one step, the findings and the case in another, although each table is a
  statement of its own; the limit of 1000 rows a table is left out, and so is the attack chain, whose
  stages have names from a fixed list.
- A verification that loads its row a second time within its last transaction reads what it has written
  itself, and is one step.
- EvidencePackage has one case at a time. Of what documents contain it has evidence cards, custody and
  timeline; findings, indicators, MITRE tables and the assessment are copied, and layout is left out. Times of a
  timeline have six digits after the second or none, the two forms that `isoformat` writes.
- Bind parameter limits (M3 inserts all entities of a case in one statement,
  `engines/correlation/persistence_service.py:115`, more than 4095 of which PostgreSQL refuses), disk
  and memory are not modelled.
- Not modelled at all: the profiles of `network_service.py`, aggregates of flows without a state of
  their own; the frontend's polling and pages other than the copilot's panel, which render what routes
  answer; migrations as programs. `PROJECT.json` gives the reason for each component.

## 7. Findings, and divergences without a run

Runs that end in a violation: `evidence_shared`, `job_race`, `case_graph_scope`, `refused_reads`; each
quotes what it refutes in `PROJECT.json`.

Seen while modelling and either modelled as the code does them, or left out:

*Evidence and jobs*

- The transaction that records an orphan can fail itself, and then the object is on no record
  (`app_acquisition_service.py:187`, against `docs/api/ACQUISITIONS_EVIDENCE_API_V1.md:41`); a commit
  whose acknowledgement is lost is recorded as orphaned although it is evidence (line 169).
- Restoring an object of a known digest may fail silently (`app_acquisition_service.py:78`,
  against the comment at line 75, that the file then "physically exists"): the link is committed and
  the request answered. Where no storage call fails, `ReuploadsRestore` proves the comment.
- The commit of a verdict may take effect and raise, or the process stop before the answer
  (`evidence_service.py:91`): the status is on the row and on the trail, and its caller has a 500 or
  nothing.
- Starting an analysis does not verify that the acquisition is linked to the case
  (`analysis_orchestrator.py:51`, against `docs/api/ANALYSIS_API_V1.md:42`).
- M2's persistence uses `ActivityClass` without importing it (`engines/analysis/persistence_service.py:65`),
  so any analysis with a finding fails (against
  `tests/integration/persistence/test_db10_m2_persistence.py:135`). AnalysisJobs has it as
  `PersistM2Fails`.
- Runs of one acquisition share Zeek's directory (`zeek/runner.py:79`, against its comment).

*Cases and reports*

- The aliases of a PATCH turn "investigating" and "review" into statuses that the check constraint
  refuses (`case_service.py:146`): the documented workflow (`docs/api/CASES_API_V1.md:87`) is answered
  500.
- M3 sets a closed case to open, without an audit event and with `closed_at` left.
- The pipeline's report row has a digest of zeros and no object (`pipeline.py:322`); its export has a
  digest other than its row's (against `tests/security/test_security_regression.py:444`).
- A TXT report is never generated: the renderer has no `render`, so the request fails before its upload,
  and an export of that format is answered with the stub.
- Two concurrent finalizations are both answered 200.

*M1 to M3*

- Artifacts are put on the timeline at the time of the analysis (`timeline/builder.py:106`); timeline
  events never carry evidence ids, so `event_ids` of attack chains are always empty.
- The label of an IPv6 address is cut at its first colon when it is persisted
  (`engines/correlation/persistence_service.py:100`).
- Re-analysing a case keeps the confidence of the first mapping while its chain is overwritten.
- A capture with neither named events nor artifacts nor findings cannot be analysed: its case has an
  empty timeline.
- The formula in the docstring of `risk.py` (lines 84-89) is not the one in its code (107-116). Its comment
  that a benign verdict's risk "remains lower than malicious activity" (line 109) does not hold: with
  anomaly, volume and persistence at 1 and confidence 0 it is 1.0, and that of an exfiltration 0.725.

*M4*

- A verification is entered into the chain of custody also when no usable algorithm was declared and
  nothing was compared (`evidence_package.py:61` says otherwise); the check of references
  (`evidence_package.py:169`) covers the assessment's and not the findings'.
- Persisting refuses a second package with an evidence id that is on file, a capture with a source id
  (a foreign key to a row that never exists), and a SHA-512 digest (64 characters); custody recorded
  after persisting never reaches the tables.
- `docs/m4/M4_V1_V1_1_FINAL_RELEASE_AUDIT.md:96` has the timeline "Preserved verbatim across JSON, HTML
  tables, PDF text stream", and line 102 says "DATA LOSS: NO". The PDF collapses extractions, details six
  groups only (`pdf_renderer.py:755-793`), and, sorting strings, puts the start of a second after the rest
  of it. `ReportTellsPackage` states what is left of it: no card and no event is missing from the
  tables, and the detailed timeline is told to the second, but for repetitions and its end.
- "tampered" is counted as mismatched; of several records of one evidence the last counts
  (`report_engine.py:149`).
- The PDF's appendix promises complete identifiers; events beyond the sixth group appear by id and a
  title of 30 characters only, findings show four references of eight characters, and its labels say
  SHA-256 for digests that MD5 or SHA-512 verified.
- Only tests hand evidence packages to reports: `reports_service.py` and the pipeline call
  `generate_report(case, [])`.

*Access and views*

- What `refused_reads` shows is the documentation's claim about refused access
  (`docs/api/API_V1_OVERVIEW.md:35`): most routes call the gate without the request and record nothing.
  What `get_entity`, `get_relationship` and `get_report` log is never committed, and the event that is
  written is named `case_access_denied`.
- The line before it (`API_V1_OVERVIEW.md:33`) says that users "are strictly bound to cases they have been
  assigned to". A behaviour's detail shows the entities that its events and relationships name also when
  they belong to another case (the exception stated in `ServedWereEntitled`), which happens whenever the
  captures of two cases share an address, since the entity stays with the first.
- `case_access.expires_at` and `access_level` are never read; a token stays valid after logout.
- Findings are joined by acquisition, not by case: a capture that is linked to two cases shows its
  findings in both.
- `api/v1/network.py:152` calls a method that the service does not have; a search among an endpoint's
  details that has more than 100 matches is answered 404.

*Copilot*

- The prompts ask for evidence identifiers of the form "ev-..."; the context has none, so a reply that
  cites one is always `LLM_UNGROUNDED`. Hypotheses, root causes and impacts are never found in the
  context and always answered `LLM_INVALID_RESPONSE`.
- The client's exceptions are not those the service distinguishes: every failure of the model is
  `LLM_INVALID_RESPONSE`, and the panel shows `LLM_UNAVAILABLE` for HTTP errors instead.
- A point that cites a finding loses the status the model gave it. The search for "known malicious"
  covers the markdown only, and any mention of malice in the context satisfies it, be it a label, a
  description or the title of the case (`service.py:242`).
- While the model thinks the process serves nobody (`engines/llm_assistant/service.py:363`), and a model
  that stays silent stops it for good: the time limit at line 359 is no field of ChatOllama.

## 8. The plan

Written so far, in this order: EvidenceStore, AnalysisJobs, their abstract specifications and proofs;
CaseRecords, Reports; PacketIntelligence, DecisionEngine, Correlation, CaseGraph and their proofs;
AccessControl, CaseViews, Copilot, EvidencePackage; the proofs of CaseRecords, Reports, CaseViews,
Copilot, and the rest of EvidenceStore's; those of EvidencePackage and of the graph's `AllOrNothing`,
for which sequences made by concatenation and folds gave way to sets with an order beside them.

To extend the models: `JobPolling`, the client's polling of a job across unmounts, late answers and
restarts; two requests in CaseViews that share a session; the profiles of `network_service.py` as pure
operators over the flows of PacketIntelligence.

To prove more: every safety property of the passing runs is a theorem, and for three of the
four violated runs a theorem says when the property holds after all (of `refused_reads`, what holds is the
last part of `ServedWereEntitled`: the gates that are given the request do record their refusals). What is left is liveness, which stays with TLC, and
lemmas about operators that no theorem needs yet, such as which verdicts M2 turns into a finding and how
they survive the caps of the validation.
