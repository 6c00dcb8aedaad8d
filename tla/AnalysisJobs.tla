---------------------------- MODULE AnalysisJobs ----------------------------
(***************************************************************************)
(* The analysis API: POST /cases/{case_id}/analysis checks that the        *)
(* acquisition has no active job, inserts a queued job and hands it to a   *)
(* FastAPI background task, which drives the four engines and keeps the    *)
(* job's row up to date.                                                   *)
(*                                                                         *)
(* Start requests and background tasks run concurrently in one process, and *)
(* every transaction, download and engine run is an await, so each is a    *)
(* step.  A request and the job it creates carry the same name.            *)
(*                                                                         *)
(* The engines are abstracted to what the orchestration can tell apart of  *)
(* their results: whether M2 reports a finding, and whether M3 finds       *)
(* anything to put on a timeline.  A Zeek run is named after its job, which *)
(* also stands for the connection uids it draws.  Requests have passed the *)
(* role and case-access gates and name recorded acquisitions with evidence. *)
(***************************************************************************)
EXTENDS Naturals, FiniteSets

CONSTANTS
    Jobs,           \* POST /cases/{case_id}/analysis, and the job it asks for
    Acquisitions,
    Cases,
    AcquisitionOf,  \* the acquisition a request names
    CaseOf,         \* the case in its path
    Uploaded,       \* case_acquisition_links the uploads have left
    Traffic,        \* what the engines may find in an acquisition, see TrafficKinds
    Faults          \* what the environment may do wrong, see FaultKinds

TrafficKinds ==
    { "findings",    \* M2 reports at least one finding
      "payload",     \* none, but M3 has DNS, HTTP, TLS events or artifacts
      "silent" }     \* only plain flows: no timeline can be built

FaultKinds ==
    { "extraction",  \* the download or the Zeek run fails
      "reporting",   \* M4 does not accept the case that M3 has built
      "database",    \* a PostgreSQL transaction fails and is rolled back
      "ack",         \* a transaction commits, its acknowledgement is lost
      "crash" }      \* the API process stops; its background tasks are gone

ASSUME AnalysisJobsAssumption ==
    /\ AcquisitionOf \in [Jobs -> Acquisitions]
    /\ CaseOf \in [Jobs -> Cases]
    /\ Uploaded \subseteq Cases \X Acquisitions
    /\ Traffic \in [Acquisitions -> SUBSET TrafficKinds \ {{}}]
    /\ Faults \subseteq FaultKinds

VARIABLES
    pc,         \* where each request, and then its background task, is
    current,    \* current_stage, the local variable of the background task
    status,     \* table analysis_jobs; "absent" where there is no row
    stage,      \*   its current_stage
    progress,   \*   its progress
    error,      \*   its error_code
    audit,      \* table audit_events: <<action, job>>
    logs,       \* the Zeek output directory of an acquisition: the last run
    package,    \* the run whose logs a task has read: a set of at most one
    flows,      \* table flows: <<acquisition, run>> of the rows' unique uids
    results,    \* <<job, engine>>: what a job's pipeline has committed
    links,      \* table case_acquisition_links
    reports     \* the {case_id}/report.json row of a case: whose report it is of,
                \*   a set of at most one job

rowVars == <<status, stage, progress, error>>
dataVars == <<logs, package, flows, results, links, reports>>
vars == <<pc, current, rowVars, audit, dataVars>>

Active == {"queued", "running"}
Stages == {"INITIALIZING", "LOADING_ACQUISITION", "M1_PACKET_INTELLIGENCE",
           "M2_ANALYSIS", "M3_CORRELATION", "COMPLETED"}

\* stage_error_map; "M4_REPORTING" is in the map and never a stage.
ErrorCode(s) ==
    CASE s = "M1_PACKET_INTELLIGENCE" -> "M1_PROCESSING_FAILED"
      [] s = "LOADING_ACQUISITION"    -> "ACQUISITION_LOAD_FAILED"
      [] s = "M2_ANALYSIS"            -> "M2_ANALYSIS_FAILED"
      [] s = "M3_CORRELATION"         -> "M3_CORRELATION_FAILED"
      [] OTHER                        -> "ANALYSIS_FAILED"

\* The steps of a background task, in order.
Working == {"queued", "load", "mark1", "zeek", "read", "mark2", "persist1",
            "persist2", "persist3", "persist4", "complete", "failing"}
Labels == {"idle", "checked", "refused", "done", "dead"} \cup Working

TypeOK ==
    /\ pc \in [Jobs -> Labels]
    /\ current \in [Jobs -> Stages]
    /\ status \in [Jobs -> Active \cup {"absent", "completed", "failed"}]
    /\ stage \in [Jobs -> Stages \cup {"none"}]
    /\ progress \in [Jobs -> 0..100]
    /\ error \in [Jobs -> {ErrorCode(s) : s \in Stages} \cup {"none"}]
    /\ audit \subseteq {"ANALYSIS_REQUESTED", "ANALYSIS_STARTED",
                        "ANALYSIS_COMPLETED", "ANALYSIS_FAILED"} \X Jobs
    /\ logs \in [Acquisitions -> SUBSET Jobs]
    /\ package \in [Jobs -> SUBSET Jobs]
    /\ flows \subseteq Acquisitions \X Jobs
    /\ results \subseteq Jobs \X {"M1", "M2", "M3"}
    /\ links \subseteq Cases \X Acquisitions
    /\ reports \in [Cases -> SUBSET Jobs]

Init ==
    /\ pc = [j \in Jobs |-> "idle"]
    /\ current = [j \in Jobs |-> "INITIALIZING"]
    /\ status = [j \in Jobs |-> "absent"]
    /\ stage = [j \in Jobs |-> "none"]
    /\ progress = [j \in Jobs |-> 0]
    /\ error = [j \in Jobs |-> "none"]
    /\ audit = {}
    /\ logs = [a \in Acquisitions |-> {}]
    /\ package = [j \in Jobs |-> {}]
    /\ flows = {}
    /\ results = {}
    /\ links = Uploaded
    /\ reports = [c \in Cases |-> {}]

-----------------------------------------------------------------------------
(***************************************************************************)
(* Steps shared by the actions.                                            *)
(***************************************************************************)

Goto(j, label) == pc' = [pc EXCEPT ![j] = label]

\* The end of a transaction of the background task: it goes on in the next stage,
\* or the commit took effect and raised all the same.
Settle(j, label, next) ==
    \/ Goto(j, label) /\ current' = [current EXCEPT ![j] = next]
    \/ "ack" \in Faults /\ Goto(j, "failing") /\ UNCHANGED current

\* update_status(analysis_id, "running", stage, progress)
UpdateRunning(j, name, percent) ==
    /\ status' = [status EXCEPT ![j] = "running"]
    /\ stage' = [stage EXCEPT ![j] = name]
    /\ progress' = [progress EXCEPT ![j] = percent]
    /\ UNCHANGED error

HasActive(a) == \E k \in Jobs : AcquisitionOf[k] = a /\ status[k] \in Active

-----------------------------------------------------------------------------
(***************************************************************************)
(* start_analysis: the check and the insert are one transaction, but in    *)
(* READ COMMITTED and without a unique index others commit in between.     *)
(***************************************************************************)

Check(j) ==
    /\ pc[j] = "idle"
    /\ Goto(j, IF HasActive(AcquisitionOf[j]) THEN "refused" ELSE "checked")
    /\ UNCHANGED <<current, rowVars, audit, dataVars>>

InsertRow(j) ==
    /\ status' = [status EXCEPT ![j] = "queued"]
    /\ audit' = audit \cup {<<"ANALYSIS_REQUESTED", j>>}
    /\ UNCHANGED <<stage, progress, error>>

\* 202: the job is queued and the background task follows the response.
Insert(j) ==
    /\ pc[j] = "checked"
    /\ InsertRow(j)
    /\ Goto(j, "queued")
    /\ UNCHANGED <<current, dataVars>>

\* 500: no background task is scheduled, also when the row was committed.
InsertFails(j) ==
    /\ pc[j] = "checked"
    /\ \/ "database" \in Faults /\ UNCHANGED <<rowVars, audit>>
       \/ "ack" \in Faults /\ InsertRow(j)
    /\ Goto(j, "refused")
    /\ UNCHANGED <<current, dataVars>>

-----------------------------------------------------------------------------
(***************************************************************************)
(* execute_analysis_background.                                            *)
(***************************************************************************)

Begin(j) ==
    /\ pc[j] = "queued"
    /\ UpdateRunning(j, "INITIALIZING", 0)
    /\ audit' = audit \cup {<<"ANALYSIS_STARTED", j>>}
    /\ Settle(j, "load", "LOADING_ACQUISITION")
    /\ UNCHANGED dataVars

\* The acquisition and its evidence are read; neither is ever deleted.
Load(j) ==
    /\ pc[j] = "load"
    /\ Settle(j, "mark1", "M1_PACKET_INTELLIGENCE")
    /\ UNCHANGED <<rowVars, audit, dataVars>>

MarkM1(j) ==
    /\ pc[j] = "mark1"
    /\ UpdateRunning(j, "M1_PACKET_INTELLIGENCE", 10)
    /\ Settle(j, "zeek", "M1_PACKET_INTELLIGENCE")
    /\ UNCHANGED <<audit, dataVars>>

\* The object is downloaded and Zeek writes its logs to the output directory of
\* the acquisition, over those of an earlier run.
RunZeek(j) ==
    /\ pc[j] = "zeek"
    /\ logs' = [logs EXCEPT ![AcquisitionOf[j]] = {j}]
    /\ Goto(j, "read")
    /\ UNCHANGED <<current, rowVars, audit, package, flows, results, links, reports>>

\* Mutant of ExtractionFails: the stage is started over, without a limit.
ExtractionFailsRetry(j) ==
    /\ "extraction" \in Faults
    /\ pc[j] = "zeek"
    /\ Goto(j, "mark1")
    /\ UNCHANGED <<current, rowVars, audit, dataVars>>

\* The download, Zeek or the assembly of the package raises; a Zeek run that times
\* out may have written its logs.
ExtractionFails(j) ==
    /\ "extraction" \in Faults
    /\ \/ pc[j] = "zeek" /\ logs' = [logs EXCEPT ![AcquisitionOf[j]] = {j}]
       \/ pc[j] \in {"zeek", "read"} /\ UNCHANGED logs
    /\ Goto(j, "failing")
    /\ UNCHANGED <<current, rowVars, audit, package, flows, results, links, reports>>

\* The package is assembled from whatever is in the directory by now.
ReadLogs(j) ==
    /\ pc[j] = "read"
    /\ package' = [package EXCEPT ![j] = logs[AcquisitionOf[j]]]
    /\ Goto(j, "mark2")
    /\ current' = [current EXCEPT ![j] = "M2_ANALYSIS"]
    /\ UNCHANGED <<rowVars, audit, logs, flows, results, links, reports>>

MarkM2(j) ==
    /\ pc[j] = "mark2"
    /\ UpdateRunning(j, "M2_ANALYSIS", 40)
    /\ Settle(j, "persist1", "M3_CORRELATION")
    /\ UNCHANGED <<audit, dataVars>>

\* Mutant of FlowKeys: the rows are written under the case.
FlowKeysByCase(j) == {CaseOf[j]} \X package[j]

\* run_pipeline_from_m1, first transaction: the flows of the package, whose uids
\* must be new to the acquisition.
FlowKeys(j) == {AcquisitionOf[j]} \X package[j]

PersistM1(j) ==
    /\ pc[j] = "persist1"
    /\ FlowKeys(j) \cap flows = {}
    /\ flows' = flows \cup FlowKeys(j)
    /\ results' = results \cup {<<j, "M1">>}
    /\ Settle(j, "persist2", current[j])
    /\ UNCHANGED <<rowVars, audit, logs, package, links, reports>>

\* Mutants of PersistM1Fails: duplicates are ignored, like those of a report; they
\* are taken for a finished analysis.
PersistM1FailsIgnored(j) ==
    /\ pc[j] = "persist1"
    /\ FlowKeys(j) \cap flows # {}
    /\ Goto(j, "persist2")
    /\ UNCHANGED <<current, rowVars, audit, dataVars>>

PersistM1FailsSkipped(j) ==
    /\ pc[j] = "persist1"
    /\ FlowKeys(j) \cap flows # {}
    /\ Goto(j, "complete")
    /\ UNCHANGED <<current, rowVars, audit, dataVars>>

PersistM1Fails(j) ==
    /\ pc[j] = "persist1"
    /\ FlowKeys(j) \cap flows # {}
    /\ Goto(j, "failing")
    /\ UNCHANGED <<current, rowVars, audit, dataVars>>

\* Second transaction: the findings package.  Mapping a finding to its severity
\* uses a name the module does not import, so only an empty package is stored.
PersistM2(j) ==
    /\ pc[j] = "persist2"
    /\ Traffic[AcquisitionOf[j]] # {"findings"}
    /\ results' = results \cup {<<j, "M2">>}
    /\ Settle(j, "persist3", current[j])
    /\ UNCHANGED <<rowVars, audit, logs, package, flows, links, reports>>

PersistM2Fails(j) ==
    /\ pc[j] = "persist2"
    /\ "findings" \in Traffic[AcquisitionOf[j]]
    /\ Goto(j, "failing")
    /\ UNCHANGED <<current, rowVars, audit, dataVars>>

\* Third transaction: the case, its graph, and a link from the case to the
\* acquisition, whether or not there was one.
PersistM3(j) ==
    /\ pc[j] = "persist3"
    /\ "payload" \in Traffic[AcquisitionOf[j]]
    /\ results' = results \cup {<<j, "M3">>}
    /\ links' = links \cup {<<CaseOf[j], AcquisitionOf[j]>>}
    /\ Settle(j, "persist4", current[j])
    /\ UNCHANGED <<rowVars, audit, logs, package, flows, reports>>

\* The case builder refuses a context without timeline events.
PersistM3Fails(j) ==
    /\ pc[j] = "persist3"
    /\ "silent" \in Traffic[AcquisitionOf[j]]
    /\ Goto(j, "failing")
    /\ UNCHANGED <<current, rowVars, audit, dataVars>>

\* Fourth transaction: the report row under the one key of the case.  A duplicate
\* key, or any other failure, is logged and ignored, so the first report stays.
PersistM4(j) ==
    /\ pc[j] = "persist4"
    /\ \/ reports' = [reports EXCEPT ![CaseOf[j]] = IF @ = {} THEN {j} ELSE @]
       \/ "database" \in Faults /\ UNCHANGED reports
    /\ Goto(j, "complete")
    /\ current' = [current EXCEPT ![j] = "COMPLETED"]
    /\ UNCHANGED <<rowVars, audit, logs, package, flows, results, links>>

\* Mutant of Complete: the audit event is left to a transaction that never comes.
CompleteUnaudited(j) ==
    /\ pc[j] = "complete"
    /\ status' = [status EXCEPT ![j] = "completed"]
    /\ stage' = [stage EXCEPT ![j] = "COMPLETED"]
    /\ progress' = [progress EXCEPT ![j] = 100]
    /\ Settle(j, "done", current[j])
    /\ UNCHANGED <<error, audit, dataVars>>

Complete(j) ==
    /\ pc[j] = "complete"
    /\ status' = [status EXCEPT ![j] = "completed"]
    /\ stage' = [stage EXCEPT ![j] = "COMPLETED"]
    /\ progress' = [progress EXCEPT ![j] = 100]
    /\ audit' = audit \cup {<<"ANALYSIS_COMPLETED", j>>}
    /\ Settle(j, "done", current[j])
    /\ UNCHANGED <<error, dataVars>>

\* The report is built before the try around its row: what M4 raises fails the job.
ReportFails(j) ==
    /\ "reporting" \in Faults
    /\ pc[j] = "persist4"
    /\ Goto(j, "failing")
    /\ UNCHANGED <<current, rowVars, audit, dataVars>>

\* Any other transaction of the task that fails ends in the same except clause.
StepFails(j) ==
    /\ "database" \in Faults
    /\ pc[j] \in Working \ {"zeek", "read", "persist4", "failing"}
    /\ Goto(j, "failing")
    /\ UNCHANGED <<current, rowVars, audit, dataVars>>

\* The except clause records the failure; the progress is left where it was.  If the
\* commit raises although it took effect, nothing catches that.
RecordFailure(j) ==
    /\ pc[j] = "failing"
    /\ status' = [status EXCEPT ![j] = "failed"]
    /\ stage' = [stage EXCEPT ![j] = current[j]]
    /\ error' = [error EXCEPT ![j] = ErrorCode(current[j])]
    /\ audit' = audit \cup {<<"ANALYSIS_FAILED", j>>}
    /\ \/ Goto(j, "done")
       \/ "ack" \in Faults /\ Goto(j, "dead")
    /\ UNCHANGED <<current, progress, dataVars>>

\* Nothing catches a failure of that transaction: the row stays as it is.
RecordFailureFails(j) ==
    /\ "database" \in Faults
    /\ pc[j] = "failing"
    /\ Goto(j, "dead")
    /\ UNCHANGED <<current, rowVars, audit, dataVars>>

-----------------------------------------------------------------------------
\* The process stops.  Nothing takes the jobs up again after a restart.
Crash ==
    /\ "crash" \in Faults
    /\ pc' = [j \in Jobs |-> IF pc[j] \in Working \cup {"checked"} THEN "dead" ELSE pc[j]]
    /\ UNCHANGED <<current, rowVars, audit, dataVars>>

Request(j) == Insert(j) \/ InsertFails(j)

Task(j) ==
    \/ Begin(j) \/ Load(j) \/ MarkM1(j) \/ RunZeek(j) \/ ExtractionFails(j) \/ ReadLogs(j)
    \/ MarkM2(j) \/ PersistM1(j) \/ PersistM1Fails(j) \/ PersistM2(j) \/ PersistM2Fails(j)
    \/ PersistM3(j) \/ PersistM3Fails(j) \/ PersistM4(j) \/ Complete(j)
    \/ ReportFails(j) \/ StepFails(j) \/ RecordFailure(j) \/ RecordFailureFails(j)

Next ==
    \/ \E j \in Jobs : Check(j) \/ Request(j) \/ Task(j)
    \/ Crash

Spec == Init /\ [][Next]_vars

\* The event loop runs every background task to its end as long as the process
\* lives: transactions, the download and Zeek (with its time limit) all return.
FairSpec == Spec /\ \A j \in Jobs : WF_vars(Request(j)) /\ WF_vars(Task(j))

-----------------------------------------------------------------------------
(***************************************************************************)
(* Properties.                                                             *)
(***************************************************************************)

\* A completed job shows full progress and has committed the rows of M1, M2 and M3, and
\* its case lists the acquisition.  What a job that fails leaves behind is never the
\* result of a later engine without those of the earlier ones.
JobsHaveResults ==
    \A j \in Jobs :
        /\ status[j] = "completed" =>
              /\ stage[j] = "COMPLETED" /\ progress[j] = 100
              /\ {j} \X {"M1", "M2", "M3"} \subseteq results
              /\ <<CaseOf[j], AcquisitionOf[j]>> \in links
        /\ status[j] \in Active => stage[j] # "COMPLETED" /\ progress[j] < 100
        /\ <<j, "M3">> \in results => <<j, "M2">> \in results
        /\ <<j, "M2">> \in results => <<j, "M1">> \in results

\* The report on file of a case is of one analysis of that case, all of whose engines
\* have committed, and of an acquisition the case lists: neither a later analysis under
\* the same key, nor the failures of M4 that are ignored, leave a report of anything else.
ReportsRestOnResults ==
    \A c \in Cases : \A j \in reports[c] :
        /\ CaseOf[j] = c /\ <<c, AcquisitionOf[j]>> \in links
        /\ {j} \X {"M1", "M2", "M3"} \subseteq results

\* result_available is not a lie, and neither is a report on file.
CompletedHasResults == JobsHaveResults /\ ReportsRestOnResults

\* The audit trail tells the story of the row, also when an acknowledgement was lost:
\* no row without its request, no outcome without its event, no event out of turn; and
\* the row has an error code exactly when the trail has the failure.
AuditTellsStatus ==
    \A j \in Jobs :
        /\ status[j] # "absent" <=> <<"ANALYSIS_REQUESTED", j>> \in audit
        /\ status[j] = "running" => <<"ANALYSIS_STARTED", j>> \in audit
        /\ status[j] = "completed" => <<"ANALYSIS_COMPLETED", j>> \in audit
        /\ status[j] = "failed" <=> <<"ANALYSIS_FAILED", j>> \in audit
        /\ error[j] # "none" <=> status[j] = "failed"

\* A job never goes back: not from an outcome to an active status, not to less
\* progress, and its row never disappears.
Forward ==
    \A j \in Jobs :
        /\ status[j] \in {"completed", "failed"} => status'[j] \in {"completed", "failed"}
        /\ status[j] = "running" => status'[j] # "queued"
        /\ status[j] # "absent" => status'[j] # "absent"
        /\ progress'[j] >= progress[j]

NeverBack == [][Forward]_vars

\* Every accepted job is completed or failed in the end, unless the process stopped,
\* its insert was not acknowledged or its failure could not be recorded: no failure of
\* an engine leaves an acquisition blocked.
EveryJobEnds ==
    \A j \in Jobs :
        status[j] = "queued" ~> (status[j] \in {"completed", "failed"} \/ pc[j] \in {"dead", "refused"})

\* At most one active job per acquisition (docs/api/ANALYSIS_API_V1.md).
SingleActiveJob ==
    \A j, k \in Jobs :
        AcquisitionOf[j] = AcquisitionOf[k] /\ status[j] \in Active /\ status[k] \in Active
            => j = k

\* The refinement: an active row is an active job, and results are available when
\* every engine has committed.
phases == [j \in Jobs |-> IF status[j] \in Active THEN "active" ELSE status[j]]
availableResults == {j \in Jobs : {j} \X {"M1", "M2", "M3"} \subseteq results}

Lifecycle == INSTANCE JobLifecycle WITH phase <- phases, available <- availableResults

\* What a client sees of a job is a behaviour of JobLifecycle.
ImplementsLifecycle == Lifecycle!Spec

=============================================================================
