------------------------------- MODULE Reports -------------------------------
(***************************************************************************)
(* The report API: a draft is rendered, stored in the reports bucket and   *)
(* put on file; finalizing copies its object and turns the row final; an   *)
(* export serves the final object, or renders the case anew.               *)
(*                                                                         *)
(* Requests run concurrently.  Every call of the bucket and every commit   *)
(* is an await, and so a step.  A report that a request renders carries    *)
(* the request's name (its report_id is drawn for it); the report that a   *)
(* run of the analysis pipeline puts on file carries the name of the run.  *)
(* What is rendered contains the time of rendering, so that each rendering *)
(* has content, and a digest, of its own.  Requests have passed the gate   *)
(* on case access.                                                         *)
(***************************************************************************)
EXTENDS Naturals, FiniteSets

CONSTANTS
    Cases,
    Generators,     \* POST /reports/cases/{case_id}/reports/generate
    Finalizers,     \* POST /reports/{report_id}/finalize
    Exporters,      \* GET /reports/{report_id}/export
    Analyses,       \* runs of the analysis pipeline
    Analysts,       \* the requests of users with role analyst
    Formats,        \* the formats that requests name
    Failing         \* "bucket": calls of MinIO fail;  "database": transactions fail;
                    \* "ack": a commit's acknowledgement is lost;  "crash"

SupportedFormats == {"pdf", "html", "json", "txt"}
\* The service calls render of every renderer, and that of texts has none.
RenderedFormats == SupportedFormats \ {"txt"}

ASSUME ReportsAssumption ==
    /\ Formats \subseteq SupportedFormats
    /\ Analyses \cap (Generators \cup Exporters) = {}
    /\ Generators \cap Exporters = {}
    /\ Finalizers \cap (Generators \cup Exporters) = {}
    /\ Failing \subseteq {"bucket", "database", "ack", "crash"}

Requests == Generators \cup Finalizers \cup Exporters
Ids == Generators \cup Exporters \cup Analyses

\* reports/{case_id}/draft/{report_id}, reports/{case_id}/final/{report_id} and the
\* pipeline's {case_id}/report.json
Keys == ({"draft", "final"} \X Cases \X Ids) \cup ({"pipeline"} \X Cases \X {"report"})

\* Mutant of FinalKey: one final object for each case.
FinalKeyOfCase(r, c) == <<"final", c, CHOOSE s \in Ids : TRUE>>

FinalKey(r, c) == <<"final", c, r>>

\* Digests stand for the bytes they are digests of.  "zeros" is no digest of
\* anything, "stub" is the text an export falls back to.
Digests == Ids \cup {"zeros"}
Rows == [case : Cases, type : {"draft", "final", "forensic_investigation"},
         version : {1, 2}, key : Keys, sha : Digests, format : SupportedFormats]

VARIABLES
    pc,         \* where each request is
    task,       \* the case and format that a request renders: at most one
    taken,      \* the report row that a request has read: at most one
    reports,    \* table reports: the rows on file of each id, at most one
    objects,    \* the reports bucket: what is stored under a key, at most one
    answer,     \* what an export has in hand to answer with, at most one
    audit       \* table audit_events, for reports

vars == <<pc, task, taken, reports, objects, answer, audit>>

Rendering == {"render", "upload", "insert"}
Working == Rendering \cup {"copy", "final", "fetch", "refetch", "record"}
Ended == {"done", "refused", "failed", "dead"}

AtMostOne(S) == {{}} \cup {{x} : x \in S}
ExportedBytes == Ids \cup {"stub"}

TypeOK ==
    /\ pc \in [Requests -> Working \cup Ended \cup {"idle"}]
    /\ task \in [Requests -> AtMostOne(Cases \X Formats)]
    /\ \A q \in Requests : Cardinality(taken[q]) <= 1 /\
         \A t \in taken[q] : t.id \in Ids /\ t.row \in Rows
    /\ \A r \in Ids : reports[r] \subseteq Rows /\ Cardinality(reports[r]) <= 1
    /\ objects \in [Keys -> AtMostOne(Ids)]
    /\ answer \in [Requests -> AtMostOne(ExportedBytes)]
    /\ \A e \in audit : /\ e.action \in {"REPORT_GENERATED", "REPORT_FINALIZED",
                                         "REPORT_EXPORTED"}
                        /\ e.by \in Requests /\ e.report \in Ids
                        /\ e.sha \in ExportedBytes \cup {"none"}

Init ==
    /\ pc = [q \in Requests |-> "idle"]
    /\ task = [q \in Requests |-> {}]
    /\ taken = [q \in Requests |-> {}]
    /\ reports = [r \in Ids |-> {}]
    /\ objects = [k \in Keys |-> {}]
    /\ answer = [q \in Requests |-> {}]
    /\ audit = {}

Goto(q, label) == pc' = [pc EXCEPT ![q] = label]

Log(action, q, r, sha) ==
    audit' = audit \cup {[action |-> action, by |-> q, report |-> r, sha |-> sha]}

\* What a request does when a transaction raises: an export goes on with the text
\* that needs neither bucket nor database, everything else is answered 500.
Raised(q) ==
    IF q \in Exporters
    THEN Goto(q, "record") /\ answer' = [answer EXCEPT ![q] = {"stub"}]
    ELSE Goto(q, "failed") /\ UNCHANGED answer

\* A commit went through: the request goes on, or only the acknowledgement is lost.
Committed(q, label) ==
    \/ Goto(q, label) /\ UNCHANGED answer
    \/ "ack" \in Failing /\ Raised(q)

-----------------------------------------------------------------------------
(***************************************************************************)
(* generate_report.  The case's rows are read and rendered before the      *)
(* object is stored, and the object is stored before the row.              *)
(***************************************************************************)

Generate(q, c, f) ==
    /\ q \in Generators
    /\ pc[q] = "idle"
    /\ task' = [task EXCEPT ![q] = {<<c, f>>}]
    /\ Goto(q, "render")
    /\ UNCHANGED <<taken, reports, objects, answer, audit>>

\* The case is read and rendered, in any format but the text.
Render(q) ==
    /\ pc[q] = "render"
    /\ \E t \in task[q] :
          \/ t[2] \in RenderedFormats /\ Goto(q, "upload") /\ UNCHANGED answer
          \/ (t[2] \notin RenderedFormats \/ "database" \in Failing) /\ Raised(q)
    /\ UNCHANGED <<task, taken, reports, objects, audit>>

\* upload_report_bytes; a failure is swallowed.
Upload(q) ==
    /\ pc[q] = "upload"
    /\ \E t \in task[q] :
          \/ objects' = [objects EXCEPT ![<<"draft", t[1], q>>] = {q}]
          \/ "bucket" \in Failing /\ UNCHANGED objects
    /\ Goto(q, "insert")
    /\ UNCHANGED <<task, taken, reports, answer, audit>>

\* Mutant of Draft: the row forgets the case in the key of its object.
DraftShortKey(q, c, f) ==
    [case |-> c, type |-> "draft", version |-> 1, key |-> <<"draft", q>>,
     sha |-> q, format |-> f]

Draft(q, c, f) ==
    [case |-> c, type |-> "draft", version |-> 1, key |-> <<"draft", c, q>>,
     sha |-> q, format |-> f]

\* The row and its audit event in one commit.
InsertReport(q) ==
    /\ pc[q] = "insert"
    /\ \E t \in task[q] : reports' = [reports EXCEPT ![q] = {Draft(q, t[1], t[2])}]
    /\ Log("REPORT_GENERATED", q, q, q)
    /\ Committed(q, IF q \in Exporters THEN "refetch" ELSE "done")
    /\ UNCHANGED <<task, taken, objects>>

InsertReportFails(q) ==
    /\ "database" \in Failing
    /\ pc[q] = "insert"
    /\ Raised(q)
    /\ UNCHANGED <<task, taken, reports, objects, audit>>

\* persist_report: the pipeline puts a report on file, for which it stores no object
\* and whose digest it does not know.
PipelineRow(c) ==
    [case |-> c, type |-> "forensic_investigation", version |-> 1,
     key |-> <<"pipeline", c, "report">>, sha |-> "zeros", format |-> "json"]

\* The key is the same for every run of a case, and unique in the table: a later run
\* files nothing, unless the report before it has moved to its final key.
FilePipelineReport(a, c) ==
    /\ reports[a] = {}
    /\ \A r \in Ids : \A row \in reports[r] : row.key # PipelineRow(c).key
    /\ reports' = [reports EXCEPT ![a] = {PipelineRow(c)}]
    /\ UNCHANGED <<pc, task, taken, objects, answer, audit>>

-----------------------------------------------------------------------------
(***************************************************************************)
(* finalize_report.  The row is read, its object copied, and the row       *)
(* written from what was read; nothing locks it in between.                *)
(***************************************************************************)

LoadDraft(q, r) ==
    /\ q \in Finalizers
    /\ pc[q] = "idle"
    /\ \E row \in reports[r] :
          IF q \in Analysts \/ row.type = "final"
          THEN Goto(q, "refused") /\ UNCHANGED taken
          ELSE /\ Goto(q, "copy")
               /\ taken' = [taken EXCEPT ![q] = {[id |-> r, row |-> row]}]
    /\ UNCHANGED <<task, reports, objects, answer, audit>>

\* copy_report; a failure is swallowed, also that of a source that does not exist.
CopyObject(q) ==
    /\ pc[q] = "copy"
    /\ \E t \in taken[q] :
          \/ /\ objects[t.row.key] # {}
             /\ objects' = [objects EXCEPT ![FinalKey(t.id, t.row.case)] = objects[t.row.key]]
          \/ /\ objects[t.row.key] = {} \/ "bucket" \in Failing
             /\ UNCHANGED objects
    /\ Goto(q, "final")
    /\ UNCHANGED <<task, taken, reports, answer, audit>>

Final(t) ==
    [t.row EXCEPT !.type = "final", !.version = @ + 1, !.key = FinalKey(t.id, t.row.case)]

\* The row and its audit event in one commit.
FinalizeReport(q) ==
    /\ pc[q] = "final"
    /\ \E t \in taken[q] :
          /\ reports' = [reports EXCEPT ![t.id] = {Final(t)}]
          /\ Log("REPORT_FINALIZED", q, t.id, "none")
    /\ Committed(q, "done")
    /\ UNCHANGED <<task, taken, objects>>

FinalizeReportFails(q) ==
    /\ "database" \in Failing
    /\ pc[q] = "final"
    /\ Goto(q, "failed")
    /\ UNCHANGED <<task, taken, reports, objects, answer, audit>>

-----------------------------------------------------------------------------
(***************************************************************************)
(* export_report.  Whatever goes wrong after the checks, a file is         *)
(* answered: the final object, a draft rendered on the spot, or the stub.  *)
(***************************************************************************)

\* Mutant of LoadFinal: a draft is exported as well.
LoadFinalOrDraft(q, r, f) ==
    /\ q \in Exporters
    /\ pc[q] = "idle"
    /\ \E row \in reports[r] :
          /\ Goto(q, IF f = row.format THEN "fetch" ELSE "render")
          /\ taken' = [taken EXCEPT ![q] = {[id |-> r, row |-> row]}]
          /\ task' = [task EXCEPT ![q] = {<<row.case, f>>}]
    /\ UNCHANGED <<reports, objects, answer, audit>>

\* The row is read; only a final report goes on.  f is the format asked for, or the
\* report's own where the request names none.
LoadFinal(q, r, f) ==
    /\ q \in Exporters
    /\ pc[q] = "idle"
    /\ \E row \in reports[r] :
          IF row.type # "final"
          THEN Goto(q, "refused") /\ UNCHANGED <<task, taken>>
          ELSE /\ Goto(q, IF f = row.format THEN "fetch" ELSE "render")
               /\ taken' = [taken EXCEPT ![q] = {[id |-> r, row |-> row]}]
               /\ task' = [task EXCEPT ![q] = {<<row.case, f>>}]
    /\ UNCHANGED <<reports, objects, answer, audit>>

\* get_report_bytes of the object of the report, in its own format.
FetchFinal(q) ==
    /\ pc[q] = "fetch"
    /\ \E t \in taken[q] :
          \/ /\ objects[t.row.key] # {}
             /\ answer' = [answer EXCEPT ![q] = objects[t.row.key]]
             /\ Goto(q, "record")
          \/ /\ objects[t.row.key] = {} \/ "bucket" \in Failing
             /\ Goto(q, "render")
             /\ UNCHANGED answer
    /\ UNCHANGED <<task, taken, reports, objects, audit>>

\* The row of the draft that the export has just generated is read, and its object
\* fetched.
FetchDraft(q) ==
    /\ pc[q] = "refetch"
    /\ \E row \in reports[q] :
          \/ /\ objects[row.key] # {}
             /\ answer' = [answer EXCEPT ![q] = objects[row.key]]
             /\ Goto(q, "record")
          \/ /\ objects[row.key] = {} \/ Failing \cap {"bucket", "database"} # {}
             /\ Raised(q)
    /\ UNCHANGED <<task, taken, reports, objects, audit>>

\* Mutant of RecordExport: the event states the digest of the row.
RecordExportOfRow(q) ==
    /\ pc[q] = "record"
    /\ Goto(q, "done")
    /\ \E t \in taken[q] : Log("REPORT_EXPORTED", q, t.id, t.row.sha)
    /\ UNCHANGED <<task, taken, reports, objects, answer>>

\* The audit event, with the digest of what is answered.  A failure of the transaction
\* is swallowed, and so is a commit that raises although it took effect.
RecordExport(q) ==
    /\ pc[q] = "record"
    /\ Goto(q, "done")
    /\ \/ \E t \in taken[q], sha \in answer[q] : Log("REPORT_EXPORTED", q, t.id, sha)
       \/ "database" \in Failing /\ UNCHANGED audit
    /\ UNCHANGED <<task, taken, reports, objects, answer>>

\* A request arrives, or goes on with what it has begun.
Arrive(q) ==
    \/ \E c \in Cases, f \in Formats : Generate(q, c, f)
    \/ \E r \in Ids : LoadDraft(q, r) \/ (\E f \in Formats : LoadFinal(q, r, f))

Continue(q) ==
    \/ Render(q) \/ Upload(q) \/ InsertReport(q) \/ InsertReportFails(q)
    \/ CopyObject(q) \/ FinalizeReport(q) \/ FinalizeReportFails(q)
    \/ FetchFinal(q) \/ FetchDraft(q) \/ RecordExport(q)

\* The API process stops, and with it the requests that it works on.
Crash ==
    /\ "crash" \in Failing
    /\ pc' = [q \in Requests |-> IF pc[q] \in Working THEN "dead" ELSE pc[q]]
    /\ UNCHANGED <<task, taken, reports, objects, answer, audit>>

Next ==
    \/ \E q \in Requests : Arrive(q) \/ Continue(q)
    \/ \E a \in Analyses, c \in Cases : FilePipelineReport(a, c)
    \/ Crash

Spec == Init /\ [][Next]_vars

-----------------------------------------------------------------------------
(***************************************************************************)
(* Properties.                                                             *)
(***************************************************************************)

\* What lies in the bucket under the key of a row is what the row's digest says,
\* for drafts and for final reports, in whatever order requests store, copy and
\* commit.
ObjectsMatchRows ==
    \A r \in Ids : \A row \in reports[r] : objects[row.key] \subseteq {row.sha}

\* An export answers the report it is asked for, a rendering of its own, or the
\* stub: never the content of another report.
ExportsItsReport ==
    \A q \in Exporters : \A t \in taken[q] :
        answer[q] \subseteq {t.row.sha, q, "stub"}

\* Every row of a request and every finalization is on the audit trail, and an
\* export's event carries the digest of what the export has in hand to answer with.
TrailTellsReports ==
    /\ \A r \in Ids : \A row \in reports[r] :
          /\ r \notin Analyses => \E e \in audit : /\ e.action = "REPORT_GENERATED"
                                              /\ e.report = r /\ e.sha = row.sha
          /\ row.type = "final" => \E e \in audit : /\ e.action = "REPORT_FINALIZED"
                                                   /\ e.report = r
    /\ \A e \in audit : e.action = "REPORT_EXPORTED" => answer[e.by] = {e.sha}

-----------------------------------------------------------------------------
(***************************************************************************)
(* The refinement of ReportArchive: an export has released a report when   *)
(* it is answered.                                                         *)
(***************************************************************************)

drafts == {r \in Ids : \E row \in reports[r] : row.type # "final"}
finals == UNION {{<<r, row>> : row \in {x \in reports[r] : x.type = "final"}} : r \in Ids}
released == UNION {{<<q, t.id>> : t \in taken[q]} : q \in {x \in Exporters : pc[x] = "done"}}

Archive == INSTANCE ReportArchive

\* What is on file and what is released is a behaviour of ReportArchive.
ImplementsArchive == Archive!Spec

=============================================================================
