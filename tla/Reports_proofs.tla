-------------------------- MODULE Reports_proofs --------------------------
(***************************************************************************)
(* Proofs about Reports, for any cases, requests, formats and failures.    *)
(***************************************************************************)
EXTENDS Reports, FiniteSetTheorems, TLAPS

TakenRows == [id : Ids, row : Rows]
Events == [action : {"REPORT_GENERATED", "REPORT_FINALIZED", "REPORT_EXPORTED"},
           by : Requests, report : Ids, sha : ExportedBytes \cup {"none"}]

\* TypeOK, with taken and reports as the functions that they are.
TypeInv ==
    /\ pc \in [Requests -> Working \cup Ended \cup {"idle"}]
    /\ task \in [Requests -> AtMostOne(Cases \X Formats)]
    /\ taken \in [Requests -> AtMostOne(TakenRows)]
    /\ reports \in [Ids -> AtMostOne(Rows)]
    /\ objects \in [Keys -> AtMostOne(Ids)]
    /\ answer \in [Requests -> AtMostOne(ExportedBytes)]
    /\ audit \subseteq Events

\* The steps of each of the three routes.
PlacesInv ==
    \A q \in Requests :
        /\ q \in Finalizers => pc[q] \in {"idle", "copy", "final"} \cup Ended
        /\ q \in Generators => pc[q] \in {"idle"} \cup Rendering \cup Ended
        /\ q \in Exporters => pc[q] \notin {"copy", "final"}

(***************************************************************************)
(* Type correctness.                                                       *)
(***************************************************************************)

\* A set of at most one element has at most one element.
LEMMA AtMostOneCounts ==
    ASSUME NEW S, NEW T \in AtMostOne(S)
    PROVE  T \subseteq S /\ Cardinality(T) <= 1
  <1>1. CASE T = {}
    BY <1>1, FS_EmptySet
  <1>2. CASE \E x \in S : T = {x}
    <2>1. PICK x \in S : T = {x}
      BY <1>2
    <2>2. Cardinality({x}) = 1
      BY FS_Singleton
    <2>3. QED
      BY <2>1, <2>2
  <1>3. QED
    BY <1>1, <1>2 DEF AtMostOne

\* The typing that the proofs use entails the one that is checked.
LEMMA TypeInvImpliesTypeOK == TypeInv => TypeOK
  <1> SUFFICES ASSUME TypeInv PROVE TypeOK
    OBVIOUS
  <1>1. ASSUME NEW q \in Requests
        PROVE  Cardinality(taken[q]) <= 1 /\ \A t \in taken[q] : t.id \in Ids /\ t.row \in Rows
    <2>1. taken[q] \in AtMostOne(TakenRows)
      BY DEF TypeInv
    <2>2. taken[q] \subseteq TakenRows /\ Cardinality(taken[q]) <= 1
      BY <2>1, AtMostOneCounts
    <2>3. QED
      BY <2>2 DEF TakenRows
  <1>2. ASSUME NEW r \in Ids
        PROVE  reports[r] \subseteq Rows /\ Cardinality(reports[r]) <= 1
    <2>1. reports[r] \in AtMostOne(Rows)
      BY DEF TypeInv
    <2>2. QED
      BY <2>1, AtMostOneCounts
  <1>3. ASSUME NEW e \in audit
        PROVE  /\ e.action \in {"REPORT_GENERATED", "REPORT_FINALIZED", "REPORT_EXPORTED"}
               /\ e.by \in Requests /\ e.report \in Ids
               /\ e.sha \in ExportedBytes \cup {"none"}
    BY DEF TypeInv, Events
  <1>4. QED
    BY <1>1, <1>2, <1>3 DEF TypeInv, TypeOK

\* At first requests are at their start and nothing is on file.
LEMMA InitPlaces == Init => TypeInv /\ PlacesInv
  BY DEF Init, TypeInv, PlacesInv, AtMostOne

\* What a request knows of the sets it draws from.
LEMMA Known ==
    ASSUME TypeInv, PlacesInv, NEW q \in Requests
    PROVE  /\ \A t \in taken[q] : /\ taken[q] = {t} /\ t \in TakenRows
                                  /\ t.id \in Ids /\ t.row \in Rows
                                  /\ t.row.key \in Keys /\ t.row.case \in Cases
                                  /\ FinalKey(t.id, t.row.case) \in Keys
           /\ \A t \in task[q] : task[q] = {t} /\ t[1] \in Cases /\ t[2] \in Formats
           /\ pc[q] \in Rendering => q \in Ids /\ q \notin Analyses /\ q \notin Finalizers
           /\ q \in Exporters \cup Generators => q \in Ids /\ q \notin Analyses
           /\ pc[q] \in {"fetch", "refetch", "record"} => q \in Exporters
           /\ pc[q] \in {"copy", "final"} => q \in Finalizers /\ q \notin Exporters
  <1>1. taken[q] \in AtMostOne(TakenRows) /\ task[q] \in AtMostOne(Cases \X Formats)
    BY DEF TypeInv
  <1>2. ASSUME NEW t \in taken[q]
        PROVE  taken[q] = {t} /\ t \in TakenRows
    BY <1>1 DEF AtMostOne
  <1>3. ASSUME NEW t \in taken[q]
        PROVE  /\ t.id \in Ids /\ t.row \in Rows
               /\ t.row.key \in Keys /\ t.row.case \in Cases
    BY <1>2 DEF TakenRows, Rows
  <1>4. ASSUME NEW t \in taken[q]
        PROVE  FinalKey(t.id, t.row.case) \in Keys
    BY <1>3 DEF FinalKey, Keys
  <1>5. ASSUME NEW t \in task[q]
        PROVE  task[q] = {t} /\ t[1] \in Cases /\ t[2] \in Formats
    BY <1>1 DEF AtMostOne
  <1>6. /\ pc[q] \in Rendering => q \in Ids /\ q \notin Analyses /\ q \notin Finalizers
        /\ q \in Exporters \cup Generators => q \in Ids /\ q \notin Analyses
        /\ pc[q] \in {"fetch", "refetch", "record"} => q \in Exporters
        /\ pc[q] \in {"copy", "final"} => q \in Finalizers /\ q \notin Exporters
    BY ReportsAssumption DEF PlacesInv, Rendering, Ended, Requests, Ids
  <1>7. QED
    BY <1>2, <1>3, <1>4, <1>5, <1>6

\* Rows that requests write are rows.
LEMMA WrittenRows ==
    /\ \A q \in Ids, c \in Cases, f \in Formats : Draft(q, c, f) \in Rows
    /\ \A c \in Cases : PipelineRow(c) \in Rows
    /\ \A t \in TakenRows : t.row.version = 1 => Final(t) \in Rows
  <1>1. ASSUME NEW q \in Ids, NEW c \in Cases, NEW f \in Formats
        PROVE  Draft(q, c, f) \in Rows
    <2>1. <<"draft", c, q>> \in Keys /\ q \in Digests /\ f \in SupportedFormats
      BY ReportsAssumption DEF Keys, Digests
    <2>2. QED
      BY <2>1 DEF Draft, Rows
  <1>2. ASSUME NEW c \in Cases
        PROVE  PipelineRow(c) \in Rows
    <2>1. <<"pipeline", c, "report">> \in Keys /\ "zeros" \in Digests /\ "json" \in SupportedFormats
      BY DEF Keys, Digests, Ids, SupportedFormats
    <2>2. QED
      BY <2>1 DEF PipelineRow, Rows
  <1>3. ASSUME NEW t \in TakenRows, t.row.version = 1
        PROVE  Final(t) \in Rows
    <2>1. t.id \in Ids /\ t.row \in Rows
      BY DEF TakenRows
    <2>2. FinalKey(t.id, t.row.case) \in Keys
      BY <2>1 DEF FinalKey, Keys, Rows
    <2>3. t.row.version + 1 = 2
      BY <1>3
    <2>4. Final(t) = [t.row EXCEPT !.type = "final", !.version = 2,
                                   !.key = FinalKey(t.id, t.row.case)]
      BY <2>3 DEF Final
    <2>5. QED
      BY <2>1, <2>2, <2>4 DEF Rows
  <1>4. QED
    BY <1>1, <1>2, <1>3

\* What finalizing changes of a row, and what it does not.
LEMMA FinalFields ==
    ASSUME NEW t \in TakenRows
    PROVE  /\ Final(t).type = "final"
           /\ Final(t).key = FinalKey(t.id, t.row.case)
           /\ Final(t).sha = t.row.sha
           /\ Final(t).case = t.row.case
  BY DEF Final, TakenRows, Rows

(***************************************************************************)
(* The invariant.  Everything hangs on names: whatever is stored under a   *)
(* key of report r is the rendering named r, whoever copied it there, and  *)
(* the digest of a row of r is that of r, unless r is the pipeline's, for  *)
(* which nothing is ever stored.  What a request has read may be outdated  *)
(* when it writes: TakenInv says how far.                                  *)
(***************************************************************************)

\* The rows that report r may have.
RowOf(r, row) ==
    /\ IF row.key[1] = "pipeline" THEN r \in Analyses ELSE row.key[3] = r
    /\ r \notin Analyses => row.sha = r
    /\ row.type # "final" => row.version = 1

RowsInv == \A r \in Ids : \A row \in reports[r] : RowOf(r, row)

\* Nothing is stored under the pipeline's key.
ObjectsInv ==
    \A k \in Keys :
        objects[k] \subseteq IF k[1] = "pipeline" THEN {} ELSE {k[3]} \ Analyses

\* A request that may still put a report on file has not done so.
FreshInv ==
    \A q \in Generators \cup Exporters :
        pc[q] \in {"idle", "fetch"} \cup Rendering => reports[q] = {}

\* The row that a finalizer has read is still on file, or final by now; the row that
\* an export has read is final and stays.
TakenInv ==
    \A q \in Requests : \A t \in taken[q] :
        /\ RowOf(t.id, t.row)
        /\ q \in Finalizers => /\ t.row.type # "final"
                               /\ reports[t.id] = {t.row} \/ reports[t.id] = {Final(t)}
        /\ q \in Exporters => t.row.type = "final" /\ reports[t.id] = {t.row}

AnswerInv ==
    /\ \A q \in Exporters : pc[q] = "idle" => answer[q] = {}
    /\ \A e \in audit : e.action = "REPORT_EXPORTED" => e.by \in Exporters /\ pc[e.by] = "done"

ReportsInv ==
    /\ TypeInv /\ PlacesInv
    /\ RowsInv /\ ObjectsInv /\ FreshInv /\ TakenInv /\ AnswerInv
    /\ ExportsItsReport /\ TrailTellsReports

\* What is stored for a row of report r is the rendering named r.
LEMMA StoredForRow ==
    ASSUME ObjectsInv, NEW r \in Ids, NEW row \in Rows, RowOf(r, row)
    PROVE  objects[row.key] \subseteq {r} \ Analyses
  <1>1. row.key \in Keys
    BY DEF Rows
  <1>2. QED
    BY <1>1 DEF ObjectsInv, RowOf

\* At first no report, object or request contradicts another.
LEMMA InitReportsInv == Init => ReportsInv
  <1> SUFFICES ASSUME Init PROVE ReportsInv
    OBVIOUS
  <1>1. TypeInv /\ PlacesInv
    BY InitPlaces
  <1>2. RowsInv /\ FreshInv /\ TrailTellsReports
    BY ReportsAssumption DEF Init, RowsInv, FreshInv, TrailTellsReports, Ids
  <1>3. ObjectsInv /\ TakenInv /\ AnswerInv /\ ExportsItsReport
    BY DEF Init, ObjectsInv, TakenInv, AnswerInv, ExportsItsReport, Requests
  <1>4. QED
    BY <1>1, <1>2, <1>3 DEF ReportsInv

\* The steps of one request, without what a crash and the pipeline do.
LEMMA RequestPlaces ==
    ASSUME TypeInv, PlacesInv, NEW q \in Requests, Arrive(q) \/ Continue(q)
    PROVE  /\ PlacesInv'
           /\ pc' \in [Requests -> Working \cup Ended \cup {"idle"}]
           /\ \A p \in Requests \ {q} : pc'[p] = pc[p]
  <1> USE DEF Goto, Raised, Committed
  <1>1. \E label \in Working \cup Ended :
           /\ pc' = [pc EXCEPT ![q] = label]
           /\ q \in Finalizers => label \in {"copy", "final"} \cup Ended
           /\ q \in Generators => label \in Rendering \cup Ended
           /\ q \in Exporters => label \notin {"copy", "final"}
    <2> USE ReportsAssumption
    <2>1. CASE Arrive(q)
      BY <2>1 DEF Arrive, Generate, LoadDraft, LoadFinal, Working, Ended, Rendering
    <2>2. CASE Render(q) \/ Upload(q) \/ InsertReport(q) \/ InsertReportFails(q)
      BY <2>2, Known DEF Render, Upload, InsertReport, InsertReportFails, Working, Ended,
            Rendering
    <2>3. CASE CopyObject(q) \/ FinalizeReport(q) \/ FinalizeReportFails(q)
      BY <2>3, Known DEF CopyObject, FinalizeReport, FinalizeReportFails, Working, Ended
    <2>4. CASE FetchFinal(q) \/ FetchDraft(q) \/ RecordExport(q)
      BY <2>4, Known DEF FetchFinal, FetchDraft, RecordExport, Working, Ended, Rendering
    <2>5. QED
      BY <2>1, <2>2, <2>3, <2>4 DEF Continue
  <1>2. QED
    BY <1>1 DEF TypeInv, PlacesInv, Rendering, Ended, Working

\* Which steps change which table.
LEMMA ReportsChange ==
    ASSUME NEW q \in Requests, Arrive(q) \/ Continue(q)
    PROVE  \/ UNCHANGED reports
           \/ InsertReport(q)
           \/ FinalizeReport(q)
  BY DEF Arrive, Continue, Generate, Render, Upload, InsertReportFails, LoadDraft, CopyObject,
        FinalizeReportFails, LoadFinal, FetchFinal, FetchDraft, RecordExport

\* The two steps that write a row, with the row that they write.
LEMMA Inserted ==
    ASSUME TypeInv, PlacesInv, NEW q \in Requests, InsertReport(q)
    PROVE  \E c \in Cases, f \in Formats :
              /\ q \in Ids /\ q \notin Analyses /\ q \notin Finalizers /\ pc[q] = "insert"
              /\ Draft(q, c, f) \in Rows
              /\ reports' = [reports EXCEPT ![q] = {Draft(q, c, f)}]
              /\ audit' = audit \cup {[action |-> "REPORT_GENERATED", by |-> q,
                                       report |-> q, sha |-> q]}
              /\ UNCHANGED <<task, taken, objects>>
  <1>1. pc[q] = "insert" /\ q \in Ids /\ q \notin Analyses /\ q \notin Finalizers
    BY Known DEF InsertReport, Rendering
  <1>2. PICK t \in task[q] : reports' = [reports EXCEPT ![q] = {Draft(q, t[1], t[2])}]
    BY DEF InsertReport
  <1>3. t[1] \in Cases /\ t[2] \in Formats
    BY <1>2, Known
  <1>4. Draft(q, t[1], t[2]) \in Rows
    BY <1>1, <1>3, WrittenRows
  <1>5. QED
    BY <1>1, <1>2, <1>3, <1>4 DEF InsertReport, Log

\* What a finalization changes: its own row becomes the final one, on record.
LEMMA Finalized ==
    ASSUME ReportsInv, NEW q \in Requests, FinalizeReport(q)
    PROVE  \E t \in taken[q] :
              /\ t \in TakenRows /\ t.id \in Ids /\ q \in Finalizers /\ q \notin Exporters
              /\ Final(t) \in Rows /\ RowOf(t.id, Final(t))
              /\ reports[t.id] = {t.row} \/ reports[t.id] = {Final(t)}
              /\ t.row.type # "final"
              /\ reports' = [reports EXCEPT ![t.id] = {Final(t)}]
              /\ audit' = audit \cup {[action |-> "REPORT_FINALIZED", by |-> q,
                                       report |-> t.id, sha |-> "none"]}
              /\ UNCHANGED <<task, taken, objects>>
  <1>1. pc[q] = "final" /\ q \in Finalizers /\ q \notin Exporters
    BY Known DEF FinalizeReport, ReportsInv
  <1>2. PICK t \in taken[q] :
            /\ reports' = [reports EXCEPT ![t.id] = {Final(t)}]
            /\ Log("REPORT_FINALIZED", q, t.id, "none")
    BY DEF FinalizeReport
  <1>3. t \in TakenRows /\ t.id \in Ids /\ t.row \in Rows
    BY <1>2, Known DEF ReportsInv
  <1>4. /\ RowOf(t.id, t.row) /\ t.row.type # "final"
        /\ reports[t.id] = {t.row} \/ reports[t.id] = {Final(t)}
    BY <1>1, <1>2 DEF ReportsInv, TakenInv
  <1>5. Final(t) \in Rows
    BY <1>3, <1>4, WrittenRows DEF RowOf
  <1>6. RowOf(t.id, Final(t))
    BY <1>3, <1>4, FinalFields DEF RowOf, FinalKey
  <1>7. QED
    BY <1>1, <1>2, <1>3, <1>4, <1>5, <1>6 DEF FinalizeReport, Log

\* Every step of a request keeps the types.
LEMMA RequestTypeInv ==
    ASSUME ReportsInv, NEW q \in Requests, Arrive(q) \/ Continue(q)
    PROVE  TypeInv'
  <1> TypeInv /\ PlacesInv
    BY DEF ReportsInv
  <1>1. pc' \in [Requests -> Working \cup Ended \cup {"idle"}]
    BY RequestPlaces
  <1>2. reports' \in [Ids -> AtMostOne(Rows)]
    <2>1. CASE InsertReport(q)
      BY <2>1, Inserted DEF TypeInv, AtMostOne
    <2>2. CASE FinalizeReport(q)
      <3>1. \E r \in Ids, row \in Rows : reports' = [reports EXCEPT ![r] = {row}]
        BY <2>2, Finalized
      <3>2. QED
        BY <3>1 DEF TypeInv, AtMostOne
    <2>3. QED
      BY <2>1, <2>2, ReportsChange DEF TypeInv
  <1>3. task' \in [Requests -> AtMostOne(Cases \X Formats)]
    <2>1. ASSUME NEW c \in Cases, NEW f \in Formats, Generate(q, c, f)
          PROVE  task' \in [Requests -> AtMostOne(Cases \X Formats)]
      BY <2>1 DEF Generate, TypeInv, AtMostOne
    <2>2. ASSUME NEW r \in Ids, NEW f \in Formats, LoadFinal(q, r, f)
          PROVE  task' \in [Requests -> AtMostOne(Cases \X Formats)]
      <3>1. \A row \in reports[r] : row.case \in Cases
        BY DEF TypeInv, AtMostOne, Rows
      <3>2. QED
        BY <2>2, <3>1 DEF LoadFinal, TypeInv, AtMostOne
    <2>3. \/ UNCHANGED task
          \/ \E c \in Cases, f \in Formats : Generate(q, c, f)
          \/ \E r \in Ids, f \in Formats : LoadFinal(q, r, f)
      BY DEF Arrive, Continue, LoadDraft, Render, Upload, InsertReport, InsertReportFails,
            CopyObject, FinalizeReport, FinalizeReportFails, FetchFinal, FetchDraft, RecordExport
    <2>4. QED
      BY <2>1, <2>2, <2>3 DEF TypeInv
  <1>4. taken' \in [Requests -> AtMostOne(TakenRows)]
    <2>1. ASSUME NEW r \in Ids, NEW row \in reports[r]
          PROVE  {[id |-> r, row |-> row]} \in AtMostOne(TakenRows)
      <3>1. row \in Rows
        BY DEF TypeInv, AtMostOne
      <3>2. [id |-> r, row |-> row] \in TakenRows
        BY <3>1 DEF TakenRows
      <3>3. QED
        BY <3>2 DEF AtMostOne
    <2>2. ASSUME NEW r \in Ids, LoadDraft(q, r) \/ \E f \in Formats : LoadFinal(q, r, f)
          PROVE  taken' \in [Requests -> AtMostOne(TakenRows)]
      BY <2>1, <2>2 DEF LoadDraft, LoadFinal, TypeInv
    <2>3. UNCHANGED taken \/ \E r \in Ids : LoadDraft(q, r) \/ \E f \in Formats : LoadFinal(q, r, f)
      BY DEF Arrive, Continue, Generate, Render, Upload, InsertReport, InsertReportFails,
            CopyObject, FinalizeReport, FinalizeReportFails, FetchFinal, FetchDraft, RecordExport
    <2>4. QED
      BY <2>2, <2>3 DEF TypeInv
  <1>5. objects' \in [Keys -> AtMostOne(Ids)]
    <2>1. CASE Upload(q)
      <3>1. q \in Ids
        BY <2>1, Known DEF Upload, Rendering
      <3>2. {q} \in AtMostOne(Ids)
        BY <3>1 DEF AtMostOne
      <3>3. QED
        BY <2>1, <3>2 DEF Upload, TypeInv
    <2>2. CASE CopyObject(q)
      <3>1. \A t \in taken[q] : objects[t.row.key] \in AtMostOne(Ids)
        BY Known DEF TypeInv
      <3>2. QED
        BY <2>2, <3>1 DEF CopyObject, TypeInv
    <2>3. QED
      BY <2>1, <2>2 DEF Arrive, Continue, Generate, LoadDraft, LoadFinal, Render, InsertReport,
            InsertReportFails, FinalizeReport, FinalizeReportFails, FetchFinal, FetchDraft,
            RecordExport, TypeInv
  <1>6. answer' \in [Requests -> AtMostOne(ExportedBytes)]
    <2>1. {"stub"} \in AtMostOne(ExportedBytes)
      BY DEF AtMostOne, ExportedBytes
    <2>2. \A k \in Keys : objects[k] \in AtMostOne(ExportedBytes)
      BY DEF TypeInv, AtMostOne, ExportedBytes
    <2>3. ASSUME FetchFinal(q)
          PROVE  answer' \in [Requests -> AtMostOne(ExportedBytes)]
      <3>1. \A t \in taken[q] : objects[t.row.key] \in AtMostOne(ExportedBytes)
        BY <2>2, Known
      <3>2. QED
        BY <2>3, <3>1 DEF FetchFinal, TypeInv
    <2>4. ASSUME FetchDraft(q)
          PROVE  answer' \in [Requests -> AtMostOne(ExportedBytes)]
      <3>1. q \in Ids
        BY <2>4, Known DEF FetchDraft
      <3>2. \A row \in reports[q] : row.key \in Keys
        BY <3>1 DEF TypeInv, AtMostOne, Rows
      <3>3. QED
        BY <2>1, <2>2, <2>4, <3>1, <3>2 DEF FetchDraft, Raised, TypeInv
    <2>5. UNCHANGED answer \/ answer' = [answer EXCEPT ![q] = {"stub"}]
             \/ FetchFinal(q) \/ FetchDraft(q)
      BY DEF Arrive, Continue, Generate, LoadDraft, LoadFinal, Render, Upload, InsertReport,
            InsertReportFails, CopyObject, FinalizeReport, FinalizeReportFails, RecordExport,
            Committed, Raised
    <2>6. QED
      BY <2>1, <2>3, <2>4, <2>5 DEF TypeInv
  <1>7. audit' \subseteq Events
    <2>1. CASE InsertReport(q)
      <3>1. /\ q \in Ids
            /\ audit' = audit \cup {[action |-> "REPORT_GENERATED", by |-> q,
                                     report |-> q, sha |-> q]}
        BY <2>1, Inserted
      <3>2. [action |-> "REPORT_GENERATED", by |-> q, report |-> q, sha |-> q] \in Events
        BY <3>1 DEF Events, ExportedBytes
      <3>3. QED
        BY <3>1, <3>2 DEF TypeInv
    <2>2. CASE FinalizeReport(q)
      <3>1. PICK r \in Ids :
                audit' = audit \cup {[action |-> "REPORT_FINALIZED", by |-> q,
                                      report |-> r, sha |-> "none"]}
        BY <2>2, Finalized
      <3>2. [action |-> "REPORT_FINALIZED", by |-> q, report |-> r, sha |-> "none"] \in Events
        BY DEF Events
      <3>3. QED
        BY <3>1, <3>2 DEF TypeInv
    <2>3. CASE RecordExport(q)
      <3>1. answer[q] \subseteq ExportedBytes
        BY DEF TypeInv, AtMostOne
      <3>2. ASSUME NEW t \in taken[q], NEW sha \in answer[q]
            PROVE  [action |-> "REPORT_EXPORTED", by |-> q, report |-> t.id, sha |-> sha] \in Events
        BY <3>1, Known DEF Events
      <3>3. QED
        BY <2>3, <3>2 DEF RecordExport, Log, TypeInv
    <2>4. QED
      BY <2>1, <2>2, <2>3 DEF Arrive, Continue, Generate, LoadDraft, LoadFinal, Render, Upload,
            InsertReportFails, CopyObject, FinalizeReportFails, FetchFinal, FetchDraft, TypeInv
  <1>8. QED
    BY <1>1, <1>2, <1>3, <1>4, <1>5, <1>6, <1>7 DEF TypeInv

\* Steps that leave the rows and what a request has read alone keep what is known of them.
LEMMA SameRows ==
    ASSUME ReportsInv, UNCHANGED <<reports, taken>>
    PROVE  RowsInv' /\ TakenInv'
  BY DEF ReportsInv, RowsInv, TakenInv, RowOf

\* A row that is written belongs to its report; no other request loses what it has read.
LEMMA RequestRows ==
    ASSUME ReportsInv, NEW q \in Requests, Arrive(q) \/ Continue(q)
    PROVE  RowsInv' /\ TakenInv'
  <1> TypeInv /\ PlacesInv /\ RowsInv /\ TakenInv /\ FreshInv
    BY DEF ReportsInv
  <1>1. CASE InsertReport(q)
    <2>1. PICK c \in Cases, f \in Formats :
              /\ q \in Ids /\ q \notin Analyses /\ q \notin Finalizers /\ pc[q] = "insert"
              /\ reports' = [reports EXCEPT ![q] = {Draft(q, c, f)}]
              /\ UNCHANGED taken
      BY <1>1, Inserted
    <2>2. RowOf(q, Draft(q, c, f))
      BY DEF RowOf, Draft
    <2>3. RowsInv'
      BY <2>1, <2>2 DEF RowsInv, TypeInv, RowOf
    <2>4. reports[q] = {}
      BY <2>1 DEF FreshInv, Requests, Rendering
    <2>5. ASSUME NEW p \in Requests, NEW t \in taken[p], p \in Finalizers \cup Exporters
          PROVE  t.id # q
      BY <2>4, <2>5 DEF TakenInv
    <2>6. \A p \in Requests : \A t \in taken[p] : t.id \in Ids
      BY Known
    <2>7. \A p \in Requests : \A t \in taken[p] :
              p \in Finalizers \cup Exporters => reports'[t.id] = reports[t.id]
      BY <2>1, <2>5, <2>6 DEF TypeInv
    <2>8. TakenInv'
      BY <2>1, <2>7 DEF TakenInv, RowOf
    <2>9. QED
      BY <2>3, <2>8
  <1>2. CASE FinalizeReport(q)
    <2>1. PICK t \in taken[q] :
              /\ t \in TakenRows /\ t.id \in Ids
              /\ RowOf(t.id, Final(t))
              /\ reports[t.id] = {t.row} \/ reports[t.id] = {Final(t)}
              /\ t.row.type # "final"
              /\ reports' = [reports EXCEPT ![t.id] = {Final(t)}]
              /\ UNCHANGED taken
      BY <1>2, Finalized
    <2>2. RowsInv'
      BY <2>1 DEF RowsInv, TypeInv, RowOf
    <2>3. ASSUME NEW p \in Requests, NEW u \in taken[p]
          PROVE  /\ p \in Finalizers =>
                       reports'[u.id] = {u.row} \/ reports'[u.id] = {Final(u)}
                 /\ p \in Exporters => reports'[u.id] = {u.row}
      <3>1. u.id \in Ids /\ u \in TakenRows
        BY Known
      <3>2. CASE u.id # t.id
        BY <2>1, <3>1, <3>2 DEF TypeInv, TakenInv
      <3>3. CASE u.id = t.id
        <4>1. reports'[u.id] = {Final(t)}
          BY <2>1, <3>3 DEF TypeInv
        <4>2. Final(t).type = "final" /\ Final(u).type = "final"
          BY <2>1, <3>1, FinalFields
        <4>3. ASSUME p \in Finalizers
              PROVE  Final(u) = Final(t)
          <5>1. /\ u.row.type # "final"
                /\ reports[u.id] = {u.row} \/ reports[u.id] = {Final(u)}
            BY <4>3 DEF TakenInv
          <5>2. u.row = t.row \/ Final(u) = Final(t)
            BY <2>1, <3>3, <4>2, <5>1
          <5>3. QED
            BY <3>3, <5>2 DEF Final
        <4>4. ASSUME p \in Exporters
              PROVE  u.row = Final(t)
          <5>1. reports[u.id] = {u.row} /\ u.row.type = "final"
            BY <4>4 DEF TakenInv
          <5>2. QED
            BY <2>1, <3>3, <5>1
        <4>5. QED
          BY <4>1, <4>3, <4>4
      <3>4. QED
        BY <3>2, <3>3
    <2>4. TakenInv'
      BY <2>1, <2>3 DEF TakenInv, RowOf
    <2>5. QED
      BY <2>2, <2>4
  <1>3. ASSUME NEW r \in Ids, LoadDraft(q, r) \/ \E f \in Formats : LoadFinal(q, r, f)
        PROVE  RowsInv' /\ TakenInv'
    <2>1. \A row \in reports[r] : reports[r] = {row}
      BY DEF TypeInv, AtMostOne
    <2>2. UNCHANGED reports
      BY <1>3 DEF LoadDraft, LoadFinal
    <2>3. RowsInv'
      BY <2>2 DEF RowsInv, RowOf
    <2>4. CASE UNCHANGED taken
      BY <2>2, <2>4, SameRows
    <2>5. CASE \E row \in reports[r] :
                  /\ taken' = [taken EXCEPT ![q] = {[id |-> r, row |-> row]}]
                  /\ q \in Finalizers => row.type # "final"
                  /\ q \in Exporters => row.type = "final"
      <3>1. PICK row \in reports[r] :
                /\ taken' = [taken EXCEPT ![q] = {[id |-> r, row |-> row]}]
                /\ q \in Finalizers => row.type # "final"
                /\ q \in Exporters => row.type = "final"
        BY <2>5
      <3>2. RowOf(r, row)
        BY DEF RowsInv
      <3>3. ASSUME NEW p \in Requests, NEW t \in taken'[p]
            PROVE  \/ t \in taken[p]
                   \/ p = q /\ t.id = r /\ t.row = row
        BY <3>1 DEF TypeInv
      <3>4. QED
        BY <2>1, <2>2, <2>3, <3>1, <3>2, <3>3 DEF TakenInv, RowOf
    <2>6. QED
      BY <1>3, <2>4, <2>5, ReportsAssumption DEF LoadDraft, LoadFinal
  <1>4. \/ InsertReport(q) \/ FinalizeReport(q)
        \/ \E r \in Ids : LoadDraft(q, r) \/ \E f \in Formats : LoadFinal(q, r, f)
        \/ UNCHANGED <<reports, taken>>
    BY DEF Arrive, Continue, Generate, Render, Upload, InsertReportFails, CopyObject,
          FinalizeReportFails, FetchFinal, FetchDraft, RecordExport
  <1>5. QED
    BY <1>1, <1>2, <1>3, <1>4, SameRows

\* What is stored or copied under a key of report r is the rendering named r.
LEMMA RequestObjects ==
    ASSUME ReportsInv, NEW q \in Requests, Arrive(q) \/ Continue(q)
    PROVE  ObjectsInv'
  <1> TypeInv /\ PlacesInv /\ ObjectsInv /\ TakenInv
    BY DEF ReportsInv
  <1>1. CASE Upload(q)
    <2>1. q \in Ids /\ q \notin Analyses
      BY <1>1, Known DEF Upload, Rendering
    <2>2. ASSUME NEW t \in task[q]
          PROVE  <<"draft", t[1], q>>[3] = q /\ <<"draft", t[1], q>>[1] # "pipeline"
      OBVIOUS
    <2>3. QED
      BY <1>1, <2>1, <2>2 DEF Upload, ObjectsInv, TypeInv
  <1>2. CASE CopyObject(q)
    <2>1. ASSUME NEW t \in taken[q]
          PROVE  /\ t.id \in Ids /\ t.row \in Rows /\ RowOf(t.id, t.row)
                 /\ FinalKey(t.id, t.row.case)[3] = t.id
                 /\ FinalKey(t.id, t.row.case)[1] # "pipeline"
      BY Known DEF TakenInv, FinalKey
    <2>2. \A t \in taken[q] : objects[t.row.key] \subseteq {t.id} \ Analyses
      BY <2>1, StoredForRow
    <2>3. QED
      BY <1>2, <2>1, <2>2 DEF CopyObject, ObjectsInv, TypeInv
  <1>3. QED
    BY <1>1, <1>2 DEF Arrive, Continue, Generate, LoadDraft, LoadFinal, Render, InsertReport,
          InsertReportFails, FinalizeReport, FinalizeReportFails, FetchFinal, FetchDraft,
          RecordExport, ObjectsInv

\* Only a request's own insertion puts its report on file, and it is its last.
LEMMA RequestFresh ==
    ASSUME ReportsInv, NEW q \in Requests, Arrive(q) \/ Continue(q)
    PROVE  FreshInv'
  <1> TypeInv /\ PlacesInv /\ TakenInv /\ FreshInv
    BY DEF ReportsInv
  <1> SUFFICES ASSUME NEW p \in Generators \cup Exporters,
                      pc'[p] \in {"idle", "fetch"} \cup Rendering
               PROVE  reports'[p] = {}
    BY DEF FreshInv
  <1>1. p \in Requests /\ p \in Ids
    BY DEF Requests, Ids
  <1>2. CASE p # q
    <2>1. reports[p] = {}
      BY <1>1, <1>2, RequestPlaces DEF FreshInv
    <2>2. CASE InsertReport(q)
      BY <1>1, <1>2, <2>1, <2>2, Inserted DEF TypeInv
    <2>3. CASE FinalizeReport(q)
      <3>1. PICK r \in Ids, row \in Rows : /\ reports[r] # {}
                                           /\ reports' = [reports EXCEPT ![r] = {row}]
        BY <2>3, Finalized
      <3>2. QED
        BY <1>1, <2>1, <3>1 DEF TypeInv
    <2>4. QED
      BY <2>1, <2>2, <2>3, ReportsChange
  <1>3. CASE p = q
    <2> USE DEF Goto, Raised, Committed
    <2>1. pc[q] \in {"idle", "fetch"} \cup Rendering /\ UNCHANGED reports
      <3>1. CASE Arrive(q)
        BY <3>1 DEF Arrive, Generate, LoadDraft, LoadFinal
      <3>2. CASE Render(q) \/ Upload(q) \/ FetchFinal(q)
        BY <3>2 DEF Render, Upload, FetchFinal, Rendering
      <3>3. CASE InsertReport(q) \/ InsertReportFails(q)
        <4>1. pc'[q] \in {"refetch", "done", "record", "failed"}
          BY <3>3 DEF InsertReport, InsertReportFails, TypeInv
        <4>2. QED
          BY <1>3, <4>1 DEF Rendering
      <3>4. CASE CopyObject(q) \/ FinalizeReport(q) \/ FinalizeReportFails(q)
        BY <1>3, <3>4, Known DEF CopyObject, FinalizeReport, FinalizeReportFails, PlacesInv, Ended,
              Rendering
      <3>5. CASE FetchDraft(q) \/ RecordExport(q)
        <4>1. pc'[q] \in {"record", "done"}
          BY <3>5, Known DEF FetchDraft, RecordExport, TypeInv
        <4>2. QED
          BY <1>3, <4>1 DEF Rendering
      <3>6. QED
        BY <3>1, <3>2, <3>3, <3>4, <3>5 DEF Continue
    <2>2. QED
      BY <1>3, <2>1 DEF FreshInv
  <1>4. QED
    BY <1>2, <1>3

\* What a step may give a request to answer with: the stub, or what the bucket holds
\* for the report it is asked for or for its own.
LEMMA RequestAnswer ==
    ASSUME ReportsInv, NEW q \in Requests, Arrive(q) \/ Continue(q)
    PROVE  /\ pc[q] # "done"
           /\ \A p \in Requests \ {q} : answer'[p] = answer[p] /\ taken'[p] = taken[p]
           /\ ExportsItsReport'
  <1> TypeInv /\ PlacesInv /\ ObjectsInv /\ TakenInv /\ RowsInv /\ AnswerInv /\ ExportsItsReport
    BY DEF ReportsInv
  <1> USE DEF Goto, Raised, Committed
  <1>1. pc[q] # "done"
    BY DEF Arrive, Continue, Generate, LoadDraft, LoadFinal, Render, Upload, InsertReport,
          InsertReportFails, CopyObject, FinalizeReport, FinalizeReportFails, FetchFinal,
          FetchDraft, RecordExport
  <1>2. \A p \in Requests \ {q} : answer'[p] = answer[p] /\ taken'[p] = taken[p]
    BY DEF Arrive, Continue, Generate, LoadDraft, LoadFinal, Render, Upload, InsertReport,
          InsertReportFails, CopyObject, FinalizeReport, FinalizeReportFails, FetchFinal,
          FetchDraft, RecordExport, TypeInv
  <1>3. ASSUME q \in Exporters, NEW t \in taken'[q]
        PROVE  answer'[q] \subseteq {t.row.sha, q, "stub"}
    <2>1. CASE Arrive(q)
      <3>1. answer[q] = {} /\ UNCHANGED answer
        BY <1>3, <2>1 DEF Arrive, Generate, LoadDraft, LoadFinal, AnswerInv
      <3>2. QED
        BY <3>1
    <2>2. CASE FetchFinal(q)
      <3>1. t \in taken[q] /\ taken[q] = {t} /\ t.id \in Ids /\ t.row \in Rows
        BY <1>3, <2>2, Known DEF FetchFinal
      <3>2. RowOf(t.id, t.row)
        BY <3>1 DEF TakenInv
      <3>3. objects[t.row.key] \subseteq {t.row.sha}
        BY <3>1, <3>2, StoredForRow DEF RowOf
      <3>4. QED
        BY <1>3, <2>2, <3>1, <3>3 DEF FetchFinal, ExportsItsReport, TypeInv
    <2>3. CASE FetchDraft(q)
      <3>1. q \in Ids
        BY <2>3, Known DEF FetchDraft
      <3>2. ASSUME NEW row \in reports[q]
            PROVE  objects[row.key] \subseteq {q}
        <4>1. row \in Rows /\ RowOf(q, row)
          BY <3>1 DEF TypeInv, AtMostOne, RowsInv
        <4>2. QED
          BY <3>1, <4>1, StoredForRow
      <3>3. PICK row \in reports[q] : \/ answer' = [answer EXCEPT ![q] = objects[row.key]]
                                      \/ answer' = [answer EXCEPT ![q] = {"stub"}]
        BY <2>3, Known DEF FetchDraft
      <3>4. answer'[q] = objects[row.key] \/ answer'[q] = {"stub"}
        BY <3>3 DEF TypeInv
      <3>5. QED
        BY <3>2, <3>4
    <2>4. CASE UNCHANGED taken /\ (UNCHANGED answer \/ answer' = [answer EXCEPT ![q] = {"stub"}])
      BY <1>3, <2>4 DEF ExportsItsReport, TypeInv
    <2>5. QED
      BY <2>1, <2>2, <2>3, <2>4 DEF Continue, Render, Upload, InsertReport, InsertReportFails,
            CopyObject, FinalizeReport, FinalizeReportFails, RecordExport
  <1>4. ExportsItsReport'
    BY <1>2, <1>3 DEF ExportsItsReport, Requests
  <1>5. QED
    BY <1>1, <1>2, <1>4

\* An export is on record only when it has ended, and then with what it answers.
LEMMA RequestRecords ==
    ASSUME ReportsInv, NEW q \in Requests, Arrive(q) \/ Continue(q)
    PROVE  /\ AnswerInv'
           /\ \A e \in audit' : e.action = "REPORT_EXPORTED" => answer'[e.by] = {e.sha}
  <1> TypeInv /\ PlacesInv /\ AnswerInv /\ TrailTellsReports
    BY DEF ReportsInv
  <1>1. \A p \in Exporters : pc'[p] = "idle" => answer'[p] = {}
    <2>1. pc'[q] # "idle"
      BY DEF Arrive, Continue, Generate, LoadDraft, LoadFinal, Render, Upload, InsertReport,
            InsertReportFails, CopyObject, FinalizeReport, FinalizeReportFails, FetchFinal,
            FetchDraft, RecordExport, Goto, Raised, Committed, TypeInv
    <2>2. QED
      BY <2>1, RequestPlaces, RequestAnswer DEF AnswerInv, Requests
  <1>2. ASSUME NEW e \in audit, e.action = "REPORT_EXPORTED"
        PROVE  e.by \in Exporters /\ pc'[e.by] = "done" /\ answer'[e.by] = {e.sha}
    <2>1. e.by \in Exporters /\ pc[e.by] = "done" /\ answer[e.by] = {e.sha}
      BY <1>2 DEF AnswerInv, TrailTellsReports
    <2>2. e.by \in Requests \ {q}
      BY <2>1, RequestAnswer DEF Requests
    <2>3. QED
      BY <2>1, <2>2, RequestPlaces, RequestAnswer
  <1>3. ASSUME NEW e \in audit' \ audit, e.action = "REPORT_EXPORTED"
        PROVE  e.by \in Exporters /\ pc'[e.by] = "done" /\ answer'[e.by] = {e.sha}
    <2>1. CASE InsertReport(q)
      BY <1>3, <2>1 DEF InsertReport, Log
    <2>2. CASE FinalizeReport(q)
      BY <1>3, <2>2 DEF FinalizeReport, Log
    <2>3. CASE RecordExport(q)
      <3>1. PICK t \in taken[q], sha \in answer[q] : Log("REPORT_EXPORTED", q, t.id, sha)
        BY <1>3, <2>3 DEF RecordExport
      <3>2. e.by = q /\ e.sha = sha
        BY <1>3, <3>1 DEF Log
      <3>3. answer[q] = {sha}
        BY <3>1 DEF TypeInv, AtMostOne
      <3>4. q \in Exporters
        BY <2>3, Known DEF RecordExport
      <3>5. QED
        BY <2>3, <3>2, <3>3, <3>4 DEF RecordExport, Goto, TypeInv
    <2>4. QED
      BY <1>3, <2>1, <2>2, <2>3 DEF Arrive, Continue, Generate, LoadDraft, LoadFinal, Render,
            Upload, InsertReportFails, CopyObject, FinalizeReportFails, FetchFinal, FetchDraft
  <1>4. QED
    BY <1>1, <1>2, <1>3 DEF AnswerInv

\* Every row that a request writes comes with its event.
LEMMA RequestTrail ==
    ASSUME ReportsInv, NEW q \in Requests, Arrive(q) \/ Continue(q)
    PROVE  TrailTellsReports'
  <1> TypeInv /\ PlacesInv /\ TrailTellsReports /\ RowsInv /\ TakenInv
    BY DEF ReportsInv
  <1>1. audit \subseteq audit'
    BY DEF Arrive, Continue, Generate, LoadDraft, LoadFinal, Render, Upload, InsertReport,
          InsertReportFails, CopyObject, FinalizeReport, FinalizeReportFails, FetchFinal,
          FetchDraft, RecordExport, Log
  <1>2. ASSUME NEW r \in Ids, NEW row \in reports'[r]
        PROVE  /\ r \notin Analyses => \E e \in audit' : /\ e.action = "REPORT_GENERATED"
                                                     /\ e.report = r /\ e.sha = row.sha
               /\ row.type = "final" => \E e \in audit' : /\ e.action = "REPORT_FINALIZED"
                                                         /\ e.report = r
    <2>1. CASE row \in reports[r]
      BY <1>1, <2>1 DEF TrailTellsReports
    <2>2. CASE InsertReport(q) /\ row \notin reports[r]
      <3>1. PICK c \in Cases, f \in Formats :
                /\ reports' = [reports EXCEPT ![q] = {Draft(q, c, f)}]
                /\ audit' = audit \cup {[action |-> "REPORT_GENERATED", by |-> q,
                                         report |-> q, sha |-> q]}
        BY <2>2, Inserted
      <3>2. r = q /\ row = Draft(q, c, f)
        BY <2>2, <3>1 DEF TypeInv
      <3>3. row.sha = q /\ row.type = "draft"
        BY <3>2 DEF Draft
      <3> DEFINE event == [action |-> "REPORT_GENERATED", by |-> q, report |-> q, sha |-> q]
      <3>4. /\ event \in audit' /\ event.action = "REPORT_GENERATED"
            /\ event.report = r /\ event.sha = row.sha
        BY <3>1, <3>2, <3>3
      <3>5. QED
        BY <3>3, <3>4
    <2>3. CASE FinalizeReport(q) /\ row \notin reports[r]
      <3>1. PICK t \in taken[q] :
                /\ t \in TakenRows /\ t.id \in Ids /\ RowOf(t.id, Final(t))
                /\ reports[t.id] = {t.row} \/ reports[t.id] = {Final(t)}
                /\ reports' = [reports EXCEPT ![t.id] = {Final(t)}]
                /\ audit' = audit \cup {[action |-> "REPORT_FINALIZED", by |-> q,
                                         report |-> t.id, sha |-> "none"]}
        BY <2>3, Finalized
      <3>2. r = t.id /\ row = Final(t) /\ reports[r] = {t.row}
        BY <2>3, <3>1 DEF TypeInv
      <3>3. row.sha = t.row.sha
        BY <3>1, <3>2, FinalFields
      <3>4. r \notin Analyses => \E e \in audit : /\ e.action = "REPORT_GENERATED"
                                              /\ e.report = r /\ e.sha = row.sha
        BY <3>2, <3>3 DEF TrailTellsReports
      <3> DEFINE event == [action |-> "REPORT_FINALIZED", by |-> q, report |-> t.id,
                           sha |-> "none"]
      <3>5. event \in audit' /\ event.action = "REPORT_FINALIZED" /\ event.report = r
        BY <3>1, <3>2
      <3>6. QED
        BY <1>1, <3>4, <3>5
    <2>4. QED
      BY <2>1, <2>2, <2>3, ReportsChange
  <1>3. QED
    BY <1>2, RequestRecords DEF TrailTellsReports

\* A report of the pipeline is filed without object and without an event.
LEMMA PipelineReportsInv ==
    ASSUME ReportsInv, NEW a \in Analyses, NEW c \in Cases, FilePipelineReport(a, c)
    PROVE  ReportsInv'
  <1> TypeInv /\ PlacesInv /\ RowsInv /\ TakenInv /\ FreshInv /\ TrailTellsReports
    BY DEF ReportsInv
  <1>1. /\ a \in Ids /\ reports[a] = {}
        /\ reports' = [reports EXCEPT ![a] = {PipelineRow(c)}]
        /\ UNCHANGED <<pc, task, taken, objects, answer, audit>>
    BY DEF FilePipelineReport, Ids
  <1>2. PipelineRow(c) \in Rows /\ RowOf(a, PipelineRow(c)) /\ PipelineRow(c).type # "final"
    BY WrittenRows DEF RowOf, PipelineRow
  <1>3. TypeInv'
    BY <1>1, <1>2 DEF TypeInv, AtMostOne
  <1>4. RowsInv'
    BY <1>1, <1>2 DEF RowsInv, RowOf, TypeInv
  <1>5. TakenInv'
    <2>1. \A q \in Requests : \A t \in taken[q] :
              t.id \in Ids /\ (q \in Finalizers \cup Exporters => t.id # a)
      BY <1>1, Known DEF TakenInv
    <2>2. QED
      BY <1>1, <2>1 DEF TakenInv, RowOf, TypeInv
  <1>6. FreshInv'
    BY <1>1, ReportsAssumption DEF FreshInv, TypeInv, Ids
  <1>7. TrailTellsReports'
    BY <1>1, <1>2 DEF TrailTellsReports, TypeInv
  <1>8. QED
    BY <1>1, <1>3, <1>4, <1>5, <1>6, <1>7
       DEF ReportsInv, PlacesInv, ObjectsInv, AnswerInv, ExportsItsReport

\* A crash ends what is under way, and changes nothing else.
LEMMA CrashReportsInv ==
    ASSUME ReportsInv, Crash
    PROVE  ReportsInv'
  <1> TypeInv /\ PlacesInv /\ FreshInv /\ AnswerInv
    BY DEF ReportsInv
  <1>1. UNCHANGED <<task, taken, reports, objects, answer, audit>>
    BY DEF Crash
  <1>2. \A q \in Requests : pc'[q] = pc[q] \/ (pc[q] \in Working /\ pc'[q] = "dead")
    BY DEF Crash, TypeInv
  <1>3. TypeInv'
    BY <1>1 DEF Crash, TypeInv, Working, Ended
  <1>4. PlacesInv'
    BY <1>2 DEF PlacesInv, Ended
  <1>5. FreshInv'
    BY <1>1, <1>2 DEF FreshInv, Requests, Rendering
  <1>6. AnswerInv'
    BY <1>1, <1>2 DEF AnswerInv, Requests, Working, Rendering
  <1>7. QED
    BY <1>1, <1>3, <1>4, <1>5, <1>6
       DEF ReportsInv, RowsInv, RowOf, ObjectsInv, TakenInv, ExportsItsReport, TrailTellsReports

\* Every step keeps the invariant.
LEMMA NextReportsInv == ReportsInv /\ [Next]_vars => ReportsInv'
  <1> SUFFICES ASSUME ReportsInv, [Next]_vars PROVE ReportsInv'
    OBVIOUS
  <1>1. ASSUME NEW q \in Requests, Arrive(q) \/ Continue(q)
        PROVE  ReportsInv'
    <2>1. PlacesInv'
      BY <1>1, RequestPlaces DEF ReportsInv
    <2>2. TypeInv' /\ RowsInv' /\ TakenInv'
      BY <1>1, RequestTypeInv, RequestRows
    <2>3. ObjectsInv' /\ FreshInv'
      BY <1>1, RequestObjects, RequestFresh
    <2>4. AnswerInv' /\ ExportsItsReport'
      BY <1>1, RequestAnswer, RequestRecords
    <2>5. TrailTellsReports'
      BY <1>1, RequestTrail
    <2>6. QED
      BY <2>1, <2>2, <2>3, <2>4, <2>5 DEF ReportsInv
  <1>2. CASE UNCHANGED vars
    <2> USE <1>2 DEF vars
    <2>1. TypeInv' /\ PlacesInv' /\ ObjectsInv' /\ FreshInv'
      BY DEF ReportsInv, TypeInv, PlacesInv, ObjectsInv, FreshInv
    <2>2. RowsInv' /\ TakenInv'
      BY SameRows
    <2>3. AnswerInv' /\ ExportsItsReport'
      BY DEF ReportsInv, AnswerInv, ExportsItsReport
    <2>4. TrailTellsReports'
      BY DEF ReportsInv, TrailTellsReports
    <2>5. QED
      BY <2>1, <2>2, <2>3, <2>4 DEF ReportsInv
  <1>3. QED
    BY <1>1, <1>2, PipelineReportsInv, CrashReportsInv DEF Next

\* The types of the report API hold in every reachable state.
THEOREM TypeCorrect == Spec => []TypeOK
  <1>1. ReportsInv => TypeOK
    BY TypeInvImpliesTypeOK DEF ReportsInv
  <1>2. QED
    BY <1>1, InitReportsInv, NextReportsInv, PTL DEF Spec

\* In whatever order requests store, copy and commit, and whatever fails, a row never
\* points to bytes other than those its digest is of.
THEOREM DigestsAreTrue == Spec => []ObjectsMatchRows
  <1>1. ReportsInv => ObjectsMatchRows
    <2> SUFFICES ASSUME ReportsInv, NEW r \in Ids, NEW row \in reports[r]
                 PROVE  objects[row.key] \subseteq {row.sha}
      BY DEF ObjectsMatchRows
    <2>1. row \in Rows /\ RowOf(r, row)
      BY DEF ReportsInv, TypeInv, AtMostOne, RowsInv
    <2>2. QED
      BY <2>1, StoredForRow DEF ReportsInv, RowOf
  <1>2. QED
    BY <1>1, InitReportsInv, NextReportsInv, PTL DEF Spec

\* No export answers the content of a report other than the one it is asked for.
THEOREM ExportsAreTrue == Spec => []ExportsItsReport
  <1>1. ReportsInv => ExportsItsReport
    BY DEF ReportsInv
  <1>2. QED
    BY <1>1, InitReportsInv, NextReportsInv, PTL DEF Spec

\* The audit trail tells of every report, every finalization and what exports answer.
THEOREM TrailIsTrue == Spec => []TrailTellsReports
  <1>1. ReportsInv => TrailTellsReports
    BY DEF ReportsInv
  <1>2. QED
    BY <1>1, InitReportsInv, NextReportsInv, PTL DEF Spec

(***************************************************************************)
(* The refinement.  InsertReport and the pipeline map to File; the first   *)
(* finalization of a report maps to Finalize and every later one, which    *)
(* writes the same row again, to a stutter; the answer to an export maps   *)
(* to Release; nothing else shows.                                         *)
(***************************************************************************)

\* The final reports, in the terms of ReportArchive.
LEMMA FinalOnFile ==
    ASSUME NEW r \in Ids
    PROVE  Archive!Final(r) <=> \E row \in reports[r] : row.type = "final"
  <1>1. ASSUME NEW row \in reports[r], row.type = "final"
        PROVE  <<r, row>> \in finals
    BY <1>1 DEF finals
  <1>2. ASSUME NEW f \in finals
        PROVE  \E row \in reports[f[1]] : row.type = "final"
    BY DEF finals
  <1>3. QED
    BY <1>1, <1>2 DEF Archive!Final

\* A row on file where there was none is a new draft.
LEMMA NewDraft ==
    ASSUME TypeInv, NEW r \in Ids, NEW row, row.type # "final", reports[r] = {},
           reports' = [reports EXCEPT ![r] = {row}], released' = released
    PROVE  Archive!File(r)
  <1>1. \A s \in Ids : reports'[s] = IF s = r THEN {row} ELSE reports[s]
    BY DEF TypeInv
  <1>2. r \notin drafts /\ drafts' = drafts \cup {r}
    BY <1>1 DEF drafts
  <1>3. finals' = finals
    BY <1>1 DEF finals
  <1>4. ~Archive!Final(r)
    BY FinalOnFile
  <1>5. QED
    BY <1>2, <1>3, <1>4 DEF Archive!File

\* A final row in the place of a draft finalizes it.
LEMMA NewFinal ==
    ASSUME TypeInv, NEW r \in Ids, NEW old, NEW row, old.type # "final", row.type = "final",
           reports[r] = {old}, reports' = [reports EXCEPT ![r] = {row}], released' = released
    PROVE  Archive!Finalize(r)
  <1>1. \A s \in Ids : reports'[s] = IF s = r THEN {row} ELSE reports[s]
    BY DEF TypeInv
  <1>2. r \in drafts /\ drafts' = drafts \ {r}
    BY <1>1 DEF drafts
  <1>3. finals' = finals \cup {<<r, row>>}
    <2>1. ASSUME NEW f \in finals'
          PROVE  f \in finals \cup {<<r, row>>}
      BY <1>1 DEF finals
    <2>2. ASSUME NEW f \in finals
          PROVE  f \in finals'
      BY <1>1 DEF finals
    <2>3. <<r, row>> \in finals'
      BY <1>1 DEF finals
    <2>4. QED
      BY <2>1, <2>2, <2>3
  <1>4. <<r, row>>[1] = r /\ <<r, row>> \in finals'
    BY <1>3
  <1>5. QED
    BY <1>2, <1>3, <1>4 DEF Archive!Finalize

\* Nothing but the end of an export releases anything.
LEMMA ReleasedByExports ==
    ASSUME ReportsInv, NEW q \in Requests, Arrive(q) \/ Continue(q), ~RecordExport(q)
    PROVE  released' = released
  <1> TypeInv /\ PlacesInv
    BY DEF ReportsInv
  <1>1. ASSUME q \in Exporters
        PROVE  pc[q] # "done" /\ pc'[q] # "done"
    <2> USE DEF Goto, Raised, Committed
    <2>1. CASE Arrive(q)
      BY <1>1, <2>1 DEF Arrive, Generate, LoadDraft, LoadFinal, TypeInv
    <2>2. CASE Render(q) \/ Upload(q) \/ InsertReport(q) \/ InsertReportFails(q)
      BY <1>1, <2>2 DEF Render, Upload, InsertReport, InsertReportFails, TypeInv
    <2>3. CASE CopyObject(q) \/ FinalizeReport(q) \/ FinalizeReportFails(q)
      BY <1>1, <2>3, Known DEF CopyObject, FinalizeReport, FinalizeReportFails
    <2>4. CASE FetchFinal(q) \/ FetchDraft(q)
      BY <1>1, <2>4 DEF FetchFinal, FetchDraft, TypeInv
    <2>5. QED
      BY <2>1, <2>2, <2>3, <2>4 DEF Continue
  <1>2. \A p \in Requests \ {q} : pc'[p] = pc[p] /\ taken'[p] = taken[p]
    BY RequestPlaces, RequestAnswer
  <1>3. {x \in Exporters : pc'[x] = "done"} = {x \in Exporters : pc[x] = "done"}
    BY <1>1, <1>2 DEF Requests
  <1>4. \A x \in {y \in Exporters : pc[y] = "done"} : taken'[x] = taken[x]
    BY <1>1, <1>2 DEF Requests
  <1>5. QED
    BY <1>3, <1>4 DEF released

\* The step that answers an export releases a final report, for the first time.
LEMMA ExportReleases ==
    ASSUME ReportsInv, NEW q \in Requests, RecordExport(q)
    PROVE  Archive!Next \/ UNCHANGED <<drafts, finals, released>>
  <1> TypeInv /\ PlacesInv /\ TakenInv
    BY DEF ReportsInv
  <1>1. /\ q \in Exporters /\ pc[q] = "record"
        /\ pc' = [pc EXCEPT ![q] = "done"] /\ UNCHANGED <<taken, reports>>
    BY Known DEF RecordExport, Goto
  <1>2. UNCHANGED <<drafts, finals>>
    BY <1>1 DEF drafts, finals
  <1>3. {x \in Exporters : pc'[x] = "done"} = {x \in Exporters : pc[x] = "done"} \cup {q}
    BY <1>1 DEF TypeInv, Requests
  <1>4. CASE taken[q] = {}
    <2>1. released' = released
      BY <1>1, <1>3, <1>4 DEF released
    <2>2. QED
      BY <1>2, <2>1
  <1>5. CASE taken[q] # {}
    <2>1. PICK t \in taken[q] : taken[q] = {t}
      BY <1>5, Known
    <2>2. t.id \in Ids /\ reports[t.id] = {t.row} /\ t.row.type = "final"
      BY <1>1, Known DEF TakenInv
    <2>3. released' = released \cup {<<q, t.id>>}
      <3>1. ASSUME NEW f \in released'
            PROVE  f \in released \cup {<<q, t.id>>}
        BY <1>1, <1>3, <2>1 DEF released
      <3>2. ASSUME NEW f \in released
            PROVE  f \in released'
        BY <1>1, <1>3 DEF released
      <3>3. <<q, t.id>> \in released'
        BY <1>1, <1>3, <2>1 DEF released
      <3>4. QED
        BY <3>1, <3>2, <3>3
    <2>4. Archive!Final(t.id)
      BY <2>2, FinalOnFile
    <2>5. \A s \in Ids : <<q, s>> \notin released
      BY <1>1 DEF released
    <2>6. Archive!Release(q, t.id)
      BY <1>2, <2>3, <2>4, <2>5 DEF Archive!Release
    <2>7. QED
      BY <1>1, <2>2, <2>6 DEF Archive!Next
  <1>6. QED
    BY <1>4, <1>5

\* Every step of a request is one of ReportArchive or a stutter.
LEMMA RequestArchives ==
    ASSUME ReportsInv, NEW q \in Requests, Arrive(q) \/ Continue(q)
    PROVE  Archive!Next \/ UNCHANGED <<drafts, finals, released>>
  <1> TypeInv /\ PlacesInv /\ FreshInv
    BY DEF ReportsInv
  <1>1. CASE RecordExport(q)
    BY <1>1, ExportReleases
  <1>2. CASE InsertReport(q) /\ ~RecordExport(q)
    <2>1. PICK c \in Cases, f \in Formats :
              /\ q \in Ids /\ q \notin Finalizers /\ pc[q] = "insert"
              /\ reports' = [reports EXCEPT ![q] = {Draft(q, c, f)}]
      BY <1>2, Inserted
    <2>2. reports[q] = {} /\ Draft(q, c, f).type # "final"
      BY <2>1 DEF FreshInv, Requests, Rendering, Draft
    <2>3. Archive!File(q)
      BY <1>2, <2>1, <2>2, NewDraft, ReleasedByExports
    <2>4. QED
      BY <2>1, <2>3 DEF Archive!Next
  <1>3. CASE FinalizeReport(q) /\ ~RecordExport(q)
    <2>1. PICK t \in taken[q] :
              /\ t \in TakenRows /\ t.id \in Ids
              /\ reports[t.id] = {t.row} \/ reports[t.id] = {Final(t)}
              /\ t.row.type # "final"
              /\ reports' = [reports EXCEPT ![t.id] = {Final(t)}]
      BY <1>3, Finalized
    <2>2. released' = released
      BY <1>3, ReleasedByExports
    <2>3. CASE reports[t.id] = {t.row}
      <3>1. Final(t).type = "final"
        BY <2>1, FinalFields
      <3>2. Archive!Finalize(t.id)
        BY <2>1, <2>2, <2>3, <3>1, NewFinal
      <3>3. QED
        BY <2>1, <3>2 DEF Archive!Next
    <2>4. CASE reports[t.id] = {Final(t)}
      <3>1. UNCHANGED reports
        BY <2>1, <2>4 DEF TypeInv
      <3>2. QED
        BY <2>2, <3>1 DEF drafts, finals
    <2>5. QED
      BY <2>1, <2>3, <2>4
  <1>4. CASE UNCHANGED reports /\ ~RecordExport(q)
    BY <1>4, ReleasedByExports DEF drafts, finals
  <1>5. QED
    BY <1>1, <1>2, <1>3, <1>4, ReportsChange

\* Whatever requests, the pipeline and failures do, reports are filed as drafts, become
\* final once, stay as they are, and only final ones are released.
THEOREM ReportsImplementArchive == Spec => ImplementsArchive
  <1>1. Init => Archive!Init
    BY DEF Init, Archive!Init, drafts, finals, released, Requests
  <1>2. ReportsInv /\ [Next]_vars => [Archive!Next]_<<drafts, finals, released>>
    <2> SUFFICES ASSUME ReportsInv, [Next]_vars
                 PROVE  Archive!Next \/ UNCHANGED <<drafts, finals, released>>
      OBVIOUS
    <2> TypeInv
      BY DEF ReportsInv
    <2>1. ASSUME NEW a \in Analyses, NEW c \in Cases, FilePipelineReport(a, c)
          PROVE  Archive!Next
      <3>1. /\ a \in Ids /\ reports[a] = {} /\ PipelineRow(c).type # "final"
            /\ reports' = [reports EXCEPT ![a] = {PipelineRow(c)}]
        BY <2>1 DEF FilePipelineReport, PipelineRow, Ids
      <3>2. released' = released
        BY <2>1 DEF FilePipelineReport, released
      <3>3. Archive!File(a)
        BY <3>1, <3>2, NewDraft
      <3>4. QED
        BY <3>1, <3>3 DEF Archive!Next
    <2>2. CASE Crash
      <3>1. UNCHANGED <<taken, reports>>
        BY <2>2 DEF Crash
      <3>2. {x \in Exporters : pc'[x] = "done"} = {x \in Exporters : pc[x] = "done"}
        BY <2>2 DEF Crash, TypeInv, Requests, Working, Rendering
      <3>3. QED
        BY <3>1, <3>2 DEF drafts, finals, released
    <2>3. CASE UNCHANGED vars
      BY <2>3 DEF vars, drafts, finals, released
    <2>4. QED
      BY <2>1, <2>2, <2>3, RequestArchives DEF Next
  <1>3. QED
    BY <1>1, <1>2, InitReportsInv, NextReportsInv, PTL
       DEF Spec, ImplementsArchive, Archive!Spec

(***************************************************************************)
(* The bytes of the reports.  They are stored before the row that points   *)
(* to them, and never deleted; so they are there, and exports find them,   *)
(* unless a call of the bucket fails and is swallowed.                     *)
(***************************************************************************)

\* What is stored stays stored.
LEMMA ObjectsStay ==
    ASSUME ReportsInv, NEW q \in Requests, Arrive(q) \/ Continue(q), NEW k \in Keys,
           objects[k] # {}
    PROVE  objects'[k] # {}
  <1> TypeInv
    BY DEF ReportsInv
  <1>1. CASE Upload(q)
    BY <1>1 DEF Upload, TypeInv
  <1>2. CASE CopyObject(q)
    BY <1>2 DEF CopyObject, TypeInv
  <1>3. QED
    BY <1>1, <1>2 DEF Arrive, Continue, Generate, LoadDraft, LoadFinal, Render, InsertReport,
          InsertReportFails, FinalizeReport, FinalizeReportFails, FetchFinal, FetchDraft,
          RecordExport

\* A request leaves the others as they are.
LEMMA RequestsKeepApart ==
    ASSUME ReportsInv, NEW q \in Requests, Arrive(q) \/ Continue(q), NEW p \in Requests \ {q}
    PROVE  /\ pc'[p] = pc[p] /\ taken'[p] = taken[p] /\ answer'[p] = answer[p]
           /\ task'[p] = task[p]
  <1>1. pc'[p] = pc[p] /\ taken'[p] = taken[p] /\ answer'[p] = answer[p]
    BY RequestPlaces, RequestAnswer DEF ReportsInv
  <1>2. task'[p] = task[p]
    BY DEF ReportsInv, TypeInv, Arrive, Continue, Generate, LoadDraft, LoadFinal, Render, Upload,
          InsertReport, InsertReportFails, CopyObject, FinalizeReport, FinalizeReportFails,
          FetchFinal, FetchDraft, RecordExport
  <1>3. QED
    BY <1>1, <1>2

\* The object of a draft is there before its row.
DraftStored(q) == pc[q] = "insert" => \A t \in task[q] : objects[<<"draft", t[1], q>>] # {}

\* So is that of a row that is read, and its copy before the row turns final.
TakenStored(q) ==
    \A t \in taken[q] : t.id \notin Analyses =>
        /\ objects[t.row.key] # {}
        /\ pc[q] = "final" => objects[FinalKey(t.id, t.row.case)] # {}

\* An export in the format of its report has the report in hand when it answers.
OwnFormatServed(q) ==
    \A t \in taken[q] :
        q \in Exporters /\ t.id \notin Analyses /\ <<t.row.case, t.row.format>> \in task[q] =>
            \/ pc[q] \in {"fetch", "dead"}
            \/ pc[q] \in {"record", "done"} /\ answer[q] = {t.id}

RowsStored == \A r \in Ids \ Analyses : \A row \in reports[r] : objects[row.key] # {}

StoredInv ==
    /\ RowsStored
    /\ \A q \in Requests : DraftStored(q) /\ TakenStored(q) /\ OwnFormatServed(q)

\* The keys that requests use are keys of the bucket.
LEMMA UsedKeys ==
    ASSUME ReportsInv, NEW q \in Requests
    PROVE  /\ \A t \in taken[q] : t.row.key \in Keys /\ FinalKey(t.id, t.row.case) \in Keys
           /\ \A t \in task[q] : q \in Ids => <<"draft", t[1], q>> \in Keys
           /\ \A r \in Ids : \A row \in reports[r] : row.key \in Keys
  <1>1. \A t \in taken[q] : t.row.key \in Keys /\ t.id \in Ids /\ t.row.case \in Cases
    BY Known DEF ReportsInv
  <1>2. \A t \in task[q] : t[1] \in Cases
    BY Known DEF ReportsInv
  <1>3. \A r \in Ids : \A row \in reports[r] : row.key \in Keys
    BY DEF ReportsInv, TypeInv, AtMostOne, Rows
  <1>4. QED
    BY <1>1, <1>2, <1>3 DEF Keys, FinalKey

\* The request that stores a draft goes on to its row.
LEMMA NextDraftStored ==
    ASSUME ReportsInv, StoredInv, "bucket" \notin Failing, NEW q \in Requests,
           Arrive(q) \/ Continue(q)
    PROVE  DraftStored(q)'
  <1> TypeInv /\ PlacesInv
    BY DEF ReportsInv
  <1> USE DEF Goto, Raised, Committed
  <1>1. CASE Upload(q)
    <2>1. q \in Ids
      BY <1>1, Known DEF Upload, Rendering
    <2>2. PICK t \in task[q] : objects' = [objects EXCEPT ![<<"draft", t[1], q>>] = {q}]
      BY <1>1 DEF Upload
    <2>3. task'[q] = {t}
      BY <1>1, <2>2, Known DEF Upload
    <2>4. <<"draft", t[1], q>> \in Keys
      BY <2>1, <2>2, UsedKeys
    <2>5. objects'[<<"draft", t[1], q>>] = {q}
      BY <2>2, <2>4 DEF TypeInv
    <2>6. QED
      BY <2>3, <2>5 DEF DraftStored
  <1>2. CASE pc'[q] # "insert"
    BY <1>2 DEF DraftStored
  <1>3. Upload(q) \/ pc'[q] # "insert"
    BY DEF Arrive, Continue, Generate, LoadDraft, LoadFinal, Render, InsertReport,
          InsertReportFails, CopyObject, FinalizeReport, FinalizeReportFails, FetchFinal,
          FetchDraft, RecordExport, TypeInv
  <1>4. QED
    BY <1>1, <1>2, <1>3

\* The request that copies an object goes on to the final row.
LEMMA NextTakenStored ==
    ASSUME ReportsInv, StoredInv, "bucket" \notin Failing, NEW q \in Requests,
           Arrive(q) \/ Continue(q)
    PROVE  TakenStored(q)'
  <1> TypeInv /\ PlacesInv
    BY DEF ReportsInv
  <1> USE DEF Goto, Raised, Committed
  <1> SUFFICES ASSUME NEW t \in taken'[q], t.id \notin Analyses
               PROVE  /\ objects'[t.row.key] # {}
                      /\ pc'[q] = "final" => objects'[FinalKey(t.id, t.row.case)] # {}
    BY DEF TakenStored, FinalKey
  <1>1. CASE t \in taken[q] /\ pc'[q] # "final"
    BY <1>1, UsedKeys, ObjectsStay DEF StoredInv, TakenStored
  <1>2. CASE t \notin taken[q]
    <2>1. Arrive(q)
      BY <1>2 DEF Continue, Render, Upload, InsertReport, InsertReportFails, CopyObject,
            FinalizeReport, FinalizeReportFails, FetchFinal, FetchDraft, RecordExport
    <2>2. PICK r \in Ids : LoadDraft(q, r) \/ \E f \in Formats : LoadFinal(q, r, f)
      BY <1>2, <2>1 DEF Arrive, Generate
    <2>3. t.id = r /\ t.row \in reports[r] /\ pc'[q] # "final" /\ UNCHANGED objects
      BY <1>2, <2>2 DEF LoadDraft, LoadFinal, TypeInv
    <2>4. QED
      BY <2>3 DEF StoredInv, RowsStored
  <1>3. CASE t \in taken[q] /\ pc'[q] = "final"
    <2>1. CopyObject(q)
      BY <1>3 DEF Arrive, Continue, Generate, LoadDraft, LoadFinal, Render, Upload, InsertReport,
            InsertReportFails, FinalizeReport, FinalizeReportFails, FetchFinal, FetchDraft,
            RecordExport, TypeInv
    <2>2. taken[q] = {t} /\ objects[t.row.key] # {}
      BY <1>3, Known DEF StoredInv, TakenStored
    <2>3. objects' = [objects EXCEPT ![FinalKey(t.id, t.row.case)] = objects[t.row.key]]
      BY <2>1, <2>2 DEF CopyObject
    <2>4. objects'[FinalKey(t.id, t.row.case)] # {}
      BY <1>3, <2>2, <2>3, UsedKeys DEF TypeInv
    <2>5. objects'[t.row.key] # {}
      BY <1>3, <2>2, UsedKeys, ObjectsStay
    <2>6. QED
      BY <2>4, <2>5
  <1>4. QED
    BY <1>1, <1>2, <1>3

\* The object that an export looks for is there.
LEMMA NextOwnFormatServed ==
    ASSUME ReportsInv, StoredInv, "bucket" \notin Failing, NEW q \in Requests,
           Arrive(q) \/ Continue(q)
    PROVE  OwnFormatServed(q)'
  <1> TypeInv /\ PlacesInv
    BY DEF ReportsInv
  <1> USE DEF Goto, Raised, Committed
  <1> SUFFICES ASSUME NEW t \in taken'[q], q \in Exporters, t.id \notin Analyses,
                      <<t.row.case, t.row.format>> \in task'[q]
               PROVE  \/ pc'[q] \in {"fetch", "dead"}
                      \/ pc'[q] \in {"record", "done"} /\ answer'[q] = {t.id}
    BY DEF OwnFormatServed
  <1>1. CASE Arrive(q)
    <2>1. PICK r \in Ids, f \in Formats : LoadFinal(q, r, f)
      BY <1>1, ReportsAssumption DEF Arrive, Generate, LoadDraft
    <2>2. PICK row \in reports[r] :
              \/ pc' = [pc EXCEPT ![q] = "refused"] /\ UNCHANGED <<task, taken>>
              \/ /\ pc' = [pc EXCEPT ![q] = IF f = row.format THEN "fetch" ELSE "render"]
                 /\ taken' = [taken EXCEPT ![q] = {[id |-> r, row |-> row]}]
                 /\ task' = [task EXCEPT ![q] = {<<row.case, f>>}]
      BY <2>1 DEF LoadFinal
    <2>3. CASE UNCHANGED <<task, taken>>
      <3>1. pc[q] = "idle"
        BY <2>1 DEF LoadFinal
      <3>2. t \in taken[q] /\ <<t.row.case, t.row.format>> \in task[q]
        BY <2>3
      <3>3. QED
        BY <3>1, <3>2 DEF StoredInv, OwnFormatServed
    <2>4. CASE /\ pc' = [pc EXCEPT ![q] = IF f = row.format THEN "fetch" ELSE "render"]
               /\ taken' = [taken EXCEPT ![q] = {[id |-> r, row |-> row]}]
               /\ task' = [task EXCEPT ![q] = {<<row.case, f>>}]
      <3>1. t.row = row /\ <<t.row.case, t.row.format>> = <<row.case, f>>
        BY <2>4 DEF TypeInv
      <3>2. row.format = f
        BY <3>1
      <3>3. QED
        BY <2>4, <3>2 DEF TypeInv
    <2>5. QED
      BY <2>2, <2>3, <2>4
  <1>2. CASE Continue(q)
    <2>1. t \in taken[q] /\ <<t.row.case, t.row.format>> \in task[q]
      BY <1>2 DEF Continue, Render, Upload, InsertReport, InsertReportFails, CopyObject,
            FinalizeReport, FinalizeReportFails, FetchFinal, FetchDraft, RecordExport
    <2>2. \/ pc[q] \in {"fetch", "dead"}
          \/ pc[q] \in {"record", "done"} /\ answer[q] = {t.id}
      BY <2>1 DEF StoredInv, OwnFormatServed
    <2>3. CASE FetchFinal(q)
      <3>1. /\ taken[q] = {t} /\ t.id \in Ids /\ t.row \in Rows
            /\ RowOf(t.id, t.row) /\ objects[t.row.key] # {}
        BY <2>1, Known DEF StoredInv, TakenStored, ReportsInv, TakenInv
      <3>2. objects[t.row.key] = {t.id}
        BY <3>1, StoredForRow DEF ReportsInv
      <3>3. answer' = [answer EXCEPT ![q] = objects[t.row.key]] /\ pc' = [pc EXCEPT ![q] = "record"]
        BY <2>3, <3>1 DEF FetchFinal
      <3>4. QED
        BY <3>2, <3>3 DEF TypeInv
    <2>4. CASE RecordExport(q)
      BY <2>2, <2>4 DEF RecordExport, TypeInv
    <2>5. FetchFinal(q) \/ RecordExport(q)
      BY <1>2, <2>2 DEF Continue, Render, Upload, InsertReport, InsertReportFails, CopyObject,
            FinalizeReport, FinalizeReportFails, FetchDraft
    <2>6. QED
      BY <2>3, <2>4, <2>5
  <1>3. QED
    BY <1>1, <1>2

\* A new row points to what the request has stored before.
LEMMA NextRowsStored ==
    ASSUME ReportsInv, StoredInv, NEW q \in Requests, Arrive(q) \/ Continue(q)
    PROVE  RowsStored'
  <1> TypeInv /\ PlacesInv
    BY DEF ReportsInv
  <1> SUFFICES ASSUME NEW r \in Ids \ Analyses, NEW row \in reports'[r]
               PROVE  objects'[row.key] # {}
    BY DEF RowsStored
  <1>1. CASE row \in reports[r]
    BY <1>1, UsedKeys, ObjectsStay DEF StoredInv, RowsStored
  <1>2. CASE InsertReport(q)
    <2>1. PICK t \in task[q] : reports' = [reports EXCEPT ![q] = {Draft(q, t[1], t[2])}]
      BY <1>2 DEF InsertReport
    <2>2. objects[<<"draft", t[1], q>>] # {} /\ UNCHANGED objects
      BY <1>2, <2>1 DEF InsertReport, StoredInv, DraftStored
    <2>3. row \in reports[r] \/ row = Draft(q, t[1], t[2])
      BY <2>1 DEF TypeInv
    <2>4. QED
      BY <1>1, <2>2, <2>3 DEF Draft
  <1>3. CASE FinalizeReport(q)
    <2>1. PICK t \in taken[q] : /\ t \in TakenRows /\ t.id \in Ids
                                /\ reports' = [reports EXCEPT ![t.id] = {Final(t)}]
                                /\ UNCHANGED objects
      BY <1>3, Finalized
    <2>2. row \in reports[r] \/ (r = t.id /\ row = Final(t))
      BY <2>1 DEF TypeInv
    <2>3. CASE r = t.id /\ row = Final(t)
      <3>1. objects[FinalKey(t.id, t.row.case)] # {}
        BY <1>3, <2>1, <2>3 DEF FinalizeReport, StoredInv, TakenStored
      <3>2. row.key = FinalKey(t.id, t.row.case)
        BY <2>1, <2>3, FinalFields
      <3>3. QED
        BY <2>1, <3>1, <3>2
    <2>4. QED
      BY <1>1, <2>2, <2>3
  <1>4. QED
    BY <1>1, <1>2, <1>3, ReportsChange

\* Every step keeps what is stored and served.
LEMMA NextStoredInv ==
    ASSUME "bucket" \notin Failing, ReportsInv, StoredInv, [Next]_vars
    PROVE  StoredInv'
  <1>1. ASSUME NEW q \in Requests, Arrive(q) \/ Continue(q)
        PROVE  StoredInv'
    <2>1. ASSUME NEW p \in Requests \ {q}
          PROVE  DraftStored(p)' /\ TakenStored(p)' /\ OwnFormatServed(p)'
      <3>1. /\ pc'[p] = pc[p] /\ taken'[p] = taken[p] /\ answer'[p] = answer[p]
            /\ task'[p] = task[p]
        BY <1>1, RequestsKeepApart
      <3>2. pc[p] = "insert" => p \in Ids
        BY Known DEF ReportsInv, Rendering
      <3>3. DraftStored(p)'
        BY <1>1, <3>1, <3>2, UsedKeys, ObjectsStay DEF StoredInv, DraftStored
      <3>4. TakenStored(p)'
        BY <1>1, <3>1, UsedKeys, ObjectsStay DEF StoredInv, TakenStored, FinalKey
      <3>5. OwnFormatServed(p)'
        BY <3>1 DEF StoredInv, OwnFormatServed
      <3>6. QED
        BY <3>3, <3>4, <3>5
    <2>2. DraftStored(q)' /\ TakenStored(q)' /\ OwnFormatServed(q)'
      BY <1>1, NextDraftStored, NextTakenStored, NextOwnFormatServed
    <2>3. RowsStored'
      BY <1>1, NextRowsStored
    <2>4. QED
      BY <2>1, <2>2, <2>3 DEF StoredInv
  <1>2. CASE \E a \in Analyses, c \in Cases : FilePipelineReport(a, c)
    <2>1. PICK a \in Analyses, c \in Cases : FilePipelineReport(a, c)
      BY <1>2
    <2>2. /\ UNCHANGED <<pc, task, taken, objects, answer>>
          /\ \A r \in Ids \ Analyses : reports'[r] = reports[r]
      BY <2>1 DEF FilePipelineReport, ReportsInv, TypeInv
    <2>3. QED
      BY <2>2 DEF StoredInv, RowsStored, DraftStored, TakenStored, OwnFormatServed, FinalKey
  <1>3. CASE Crash
    <2>1. \A q \in Requests : pc'[q] = pc[q] \/ pc'[q] = "dead"
      BY <1>3 DEF Crash
    <2>2. UNCHANGED <<task, taken, reports, objects, answer>>
      BY <1>3 DEF Crash
    <2>3. QED
      BY <2>1, <2>2 DEF StoredInv, RowsStored, DraftStored, TakenStored, OwnFormatServed, FinalKey
  <1>4. CASE UNCHANGED vars
    BY <1>4 DEF vars, StoredInv, RowsStored, DraftStored, TakenStored, OwnFormatServed, FinalKey
  <1>5. QED
    BY <1>1, <1>2, <1>3, <1>4 DEF Next

\* A report that a request has put on file is stored as it was rendered, and an export
\* of it in its own format answers just that, when it gets to answer.
ReportsAreServed ==
    /\ \A r \in Ids \ Analyses : \A row \in reports[r] : objects[row.key] = {row.sha}
    /\ \A q \in Exporters : \A t \in taken[q] :
           /\ t.id \notin Analyses /\ <<t.row.case, t.row.format>> \in task[q]
           /\ pc[q] \in {"record", "done"}
           => answer[q] = {t.row.sha}

\* Transactions may fail, acknowledgements be lost and the process crash: as long as the
\* calls of the bucket return, no report loses its bytes, and no export renders anew or
\* falls back to the stub where the report itself is asked for (the exceptions that
\* generate_report, finalize_report and export_report swallow are all that can do it).
THEOREM OnlyTheBucketLosesReports ==
    ASSUME "bucket" \notin Failing
    PROVE  Spec => []ReportsAreServed
  <1>1. Init => StoredInv
    BY DEF Init, StoredInv, RowsStored, DraftStored, TakenStored, OwnFormatServed
  <1>2. ReportsInv /\ StoredInv => ReportsAreServed
    <2> SUFFICES ASSUME ReportsInv, StoredInv PROVE ReportsAreServed
      OBVIOUS
    <2>1. ASSUME NEW r \in Ids \ Analyses, NEW row \in reports[r]
          PROVE  objects[row.key] = {row.sha}
      <3>1. row \in Rows /\ RowOf(r, row) /\ objects[row.key] # {}
        BY DEF ReportsInv, TypeInv, AtMostOne, RowsInv, StoredInv, RowsStored
      <3>2. QED
        BY <3>1, StoredForRow DEF ReportsInv, RowOf
    <2>2. ASSUME NEW q \in Exporters, NEW t \in taken[q], t.id \notin Analyses,
                 <<t.row.case, t.row.format>> \in task[q], pc[q] \in {"record", "done"}
          PROVE  answer[q] = {t.row.sha}
      <3>1. q \in Requests
        BY DEF Requests
      <3>2. answer[q] = {t.id}
        BY <2>2, <3>1 DEF StoredInv, OwnFormatServed
      <3>3. t.row.sha = t.id
        BY <2>2, <3>1 DEF ReportsInv, TakenInv, RowOf
      <3>4. QED
        BY <3>2, <3>3
    <2>3. QED
      BY <2>1, <2>2 DEF ReportsAreServed
  <1>3. QED
    BY <1>1, <1>2, InitReportsInv, NextReportsInv, NextStoredInv, PTL DEF Spec

=============================================================================
