------------------------ MODULE AnalysisJobs_proofs ------------------------
(***************************************************************************)
(* Proofs about AnalysisJobs, for any jobs, acquisitions and cases, any    *)
(* traffic, and any choice of Faults.                                      *)
(***************************************************************************)
EXTENDS AnalysisJobs, TLAPS

(***************************************************************************)
(* Type correctness.                                                       *)
(***************************************************************************)

\* The initial state has the types of TypeOK.
LEMMA InitTypeOK == Init => TypeOK
  BY AnalysisJobsAssumption DEF Init, TypeOK, Labels, Stages

\* Every step of one job keeps the types.
LEMMA JobTypeOK ==
    ASSUME TypeOK, NEW j \in Jobs, Check(j) \/ Request(j) \/ Task(j)
    PROVE  TypeOK'
  <1> USE DEF Goto, Settle, rowVars, dataVars
  <1>1. /\ pc' \in [Jobs -> Labels]
        /\ current' \in [Jobs -> Stages]
    <2>1. CASE Check(j) \/ Request(j)
      BY <2>1 DEF Check, Request, Insert, InsertFails, TypeOK, Labels, Working
    <2>2. CASE Task(j)
      BY <2>2 DEF Task, Begin, Load, MarkM1, RunZeek, ExtractionFails, ReadLogs, MarkM2,
            PersistM1, PersistM1Fails, PersistM2, PersistM2Fails, PersistM3, PersistM3Fails,
            PersistM4, Complete, ReportFails, StepFails, RecordFailure, RecordFailureFails,
            TypeOK, Labels, Working, Stages
    <2>3. QED
      BY <2>1, <2>2
  <1>2. /\ status' \in [Jobs -> Active \cup {"absent", "completed", "failed"}]
        /\ stage' \in [Jobs -> Stages \cup {"none"}]
        /\ progress' \in [Jobs -> 0..100]
    BY DEF Check, Request, Insert, InsertFails, InsertRow,
          Task, Begin, Load, MarkM1, RunZeek, ExtractionFails, ReadLogs, MarkM2,
          PersistM1, PersistM1Fails, PersistM2, PersistM2Fails, PersistM3, PersistM3Fails,
          PersistM4, Complete, ReportFails, StepFails, RecordFailure, RecordFailureFails,
          UpdateRunning, TypeOK, Stages, Active
  <1>3. error' \in [Jobs -> {ErrorCode(s) : s \in Stages} \cup {"none"}]
    <2>1. CASE RecordFailure(j)
      <3>1. ErrorCode(current[j]) \in {ErrorCode(s) : s \in Stages}
        BY DEF TypeOK
      <3> HIDE DEF Stages
      <3>2. QED
        BY <2>1, <3>1 DEF RecordFailure, TypeOK
    <2>2. CASE ~RecordFailure(j)
      <3>1. error' = error
        BY <2>2 DEF Check, Request, Insert, InsertFails, InsertRow,
              Task, Begin, Load, MarkM1, RunZeek, ExtractionFails, ReadLogs, MarkM2,
              PersistM1, PersistM1Fails, PersistM2, PersistM2Fails, PersistM3, PersistM3Fails,
              PersistM4, Complete, ReportFails, StepFails, RecordFailureFails, UpdateRunning
      <3>2. QED
        BY <3>1 DEF TypeOK
    <2>3. QED
      BY <2>1, <2>2
  <1>4. audit' \subseteq {"ANALYSIS_REQUESTED", "ANALYSIS_STARTED",
                          "ANALYSIS_COMPLETED", "ANALYSIS_FAILED"} \X Jobs
    BY DEF Check, Request, Insert, InsertFails, InsertRow,
          Task, Begin, Load, MarkM1, RunZeek, ExtractionFails, ReadLogs, MarkM2,
          PersistM1, PersistM1Fails, PersistM2, PersistM2Fails, PersistM3, PersistM3Fails,
          PersistM4, Complete, ReportFails, StepFails, RecordFailure, RecordFailureFails, TypeOK
  <1>5. AcquisitionOf[j] \in Acquisitions /\ CaseOf[j] \in Cases
    BY AnalysisJobsAssumption
  <1>6. FlowKeys(j) \subseteq Acquisitions \X Jobs
    BY <1>5 DEF FlowKeys, TypeOK
  <1>7. <<CaseOf[j], AcquisitionOf[j]>> \in Cases \X Acquisitions
    BY <1>5
  <1>8. /\ logs' \in [Acquisitions -> SUBSET Jobs]
        /\ package' \in [Jobs -> SUBSET Jobs]
        /\ flows' \subseteq Acquisitions \X Jobs
        /\ results' \subseteq Jobs \X {"M1", "M2", "M3"}
        /\ links' \subseteq Cases \X Acquisitions
        /\ reports' \in [Cases -> SUBSET Jobs]
    <2>1. CASE Check(j) \/ Request(j)
      BY <2>1 DEF Check, Request, Insert, InsertFails, TypeOK
    <2>2. CASE RunZeek(j) \/ ExtractionFails(j) \/ ReadLogs(j)
      BY <1>5, <2>2 DEF RunZeek, ExtractionFails, ReadLogs, TypeOK
    <2>3. CASE PersistM1(j)
      BY <1>6, <2>3 DEF PersistM1, TypeOK
    <2>4. CASE PersistM2(j)
      BY <2>4 DEF PersistM2, TypeOK
    <2>5. CASE PersistM3(j)
      BY <1>7, <2>5 DEF PersistM3, TypeOK
    <2>6. CASE PersistM4(j)
      BY <1>5, <2>6 DEF PersistM4, TypeOK
    <2>7. CASE \/ Begin(j) \/ Load(j) \/ MarkM1(j) \/ MarkM2(j) \/ PersistM1Fails(j)
               \/ PersistM2Fails(j) \/ PersistM3Fails(j) \/ Complete(j)
               \/ ReportFails(j) \/ StepFails(j)
               \/ RecordFailure(j) \/ RecordFailureFails(j)
      BY <2>7 DEF Begin, Load, MarkM1, MarkM2, PersistM1Fails, PersistM2Fails, PersistM3Fails,
            Complete, ReportFails, StepFails, RecordFailure, RecordFailureFails, TypeOK
    <2>8. QED
      BY <2>1, <2>2, <2>3, <2>4, <2>5, <2>6, <2>7 DEF Task
  <1>9. QED
    BY <1>1, <1>2, <1>3, <1>4, <1>8 DEF TypeOK

\* Type correctness is preserved by every step.
LEMMA NextTypeOK == TypeOK /\ [Next]_vars => TypeOK'
  <1> SUFFICES ASSUME TypeOK, [Next]_vars PROVE TypeOK'
    OBVIOUS
  <1>1. CASE \E j \in Jobs : Check(j) \/ Request(j) \/ Task(j)
    BY <1>1, JobTypeOK
  <1>2. CASE Crash
    <2>1. pc' \in [Jobs -> Labels]
      BY <1>2 DEF Crash, TypeOK, Labels
    <2>2. QED
      BY <1>2, <2>1 DEF Crash, TypeOK, rowVars, dataVars
  <1>3. CASE UNCHANGED vars
    BY <1>3 DEF vars, TypeOK, rowVars, dataVars
  <1>4. QED
    BY <1>1, <1>2, <1>3 DEF Next

\* Every reachable state has the types of TypeOK.
THEOREM TypeCorrect == Spec => []TypeOK
  BY InitTypeOK, NextTypeOK, PTL DEF Spec

-----------------------------------------------------------------------------
(***************************************************************************)
(* The step a job stands at determines what its row says and what its      *)
(* pipeline has committed.  This is the inductive invariant: the rows can  *)
(* only be read right because no step is taken twice or out of order.      *)
(***************************************************************************)

Running == {"load", "mark1", "zeek", "read", "mark2", "persist1", "persist2", "persist3",
            "persist4", "complete"}

RowAtStep(j) ==
    /\ pc[j] \in {"idle", "checked"} => status[j] = "absent" /\ stage[j] = "none"
    /\ pc[j] = "queued" => status[j] = "queued"
    /\ pc[j] \in Running => status[j] = "running"
    /\ pc[j] = "failing" => status[j] \in Active \cup {"completed"}
    /\ pc[j] = "done" => status[j] \in {"completed", "failed"}

ProgressAtStep(j) ==
    /\ pc[j] \in {"idle", "checked", "queued", "load", "mark1"} => progress[j] = 0
    /\ pc[j] \in {"zeek", "read", "mark2"} => progress[j] = 10

ResultsAtStep(j) ==
    /\ pc[j] \in {"persist2", "persist3", "persist4", "complete"} => <<j, "M1">> \in results
    /\ pc[j] \in {"persist3", "persist4", "complete"} => <<j, "M2">> \in results
    /\ pc[j] \in {"persist4", "complete"} =>
          <<j, "M3">> \in results /\ <<CaseOf[j], AcquisitionOf[j]>> \in links

Readable(j) ==
    /\ error[j] # "none" <=> status[j] = "failed"
    /\ status[j] = "completed" => stage[j] = "COMPLETED" /\ progress[j] = 100
    /\ status[j] \in Active => stage[j] # "COMPLETED" /\ progress[j] < 100

HasResults(j) ==
    status[j] = "completed" =>
        /\ {j} \X {"M1", "M2", "M3"} \subseteq results
        /\ <<CaseOf[j], AcquisitionOf[j]>> \in links

InOrder(j) ==
    /\ <<j, "M3">> \in results => <<j, "M2">> \in results
    /\ <<j, "M2">> \in results => <<j, "M1">> \in results

JobInv(j) ==
    RowAtStep(j) /\ ProgressAtStep(j) /\ ResultsAtStep(j) /\ Readable(j) /\ HasResults(j)
        /\ InOrder(j)

\* A code of the error map is never the missing one.
LEMMA ErrorIsSome == \A s \in Stages : ErrorCode(s) # "none"
  BY DEF Stages, ErrorCode

\* What a step of one job does to the rows and results of another: nothing.
LEMMA OthersKeepInv ==
    ASSUME TypeOK, NEW j \in Jobs, Check(j) \/ Request(j) \/ Task(j),
           NEW q \in Jobs, q # j, JobInv(q)
    PROVE  JobInv(q)'
  <1>1. /\ pc'[q] = pc[q] /\ status'[q] = status[q] /\ stage'[q] = stage[q]
        /\ progress'[q] = progress[q] /\ error'[q] = error[q]
    BY DEF Check, Request, Insert, InsertFails, InsertRow, Task, Begin, Load, MarkM1, RunZeek,
          ExtractionFails, ReadLogs, MarkM2, PersistM1, PersistM1Fails, PersistM2,
          PersistM2Fails, PersistM3, PersistM3Fails, PersistM4, Complete, ReportFails, StepFails,
          RecordFailure, RecordFailureFails, UpdateRunning, Goto, Settle, rowVars, TypeOK
  <1>2. /\ \A engine \in {"M1", "M2", "M3"} : <<q, engine>> \in results' <=> <<q, engine>> \in results
        /\ links \subseteq links'
    <2>1. CASE PersistM1(j) \/ PersistM2(j) \/ PersistM3(j)
      BY <2>1 DEF PersistM1, PersistM2, PersistM3
    <2>2. CASE ~(PersistM1(j) \/ PersistM2(j) \/ PersistM3(j))
      <3>1. UNCHANGED <<results, links>>
        BY <2>2 DEF Check, Request, Insert, InsertFails, Task, Begin, Load, MarkM1, RunZeek,
              ExtractionFails, ReadLogs, MarkM2, PersistM1Fails, PersistM2Fails,
              PersistM3Fails, PersistM4, Complete, ReportFails, StepFails, RecordFailure,
              RecordFailureFails, dataVars
      <3>2. QED
        BY <3>1
    <2>3. QED
      BY <2>1, <2>2
  <1>3. RowAtStep(q)' /\ ProgressAtStep(q)' /\ Readable(q)'
    BY <1>1 DEF JobInv, RowAtStep, ProgressAtStep, Readable, Running, Active
  <1>4. ResultsAtStep(q)' /\ InOrder(q)'
    BY <1>1, <1>2 DEF JobInv, ResultsAtStep, InOrder
  <1>5. HasResults(q)'
    <2> SUFFICES ASSUME status'[q] = "completed" PROVE HasResults(q)!2'
      BY DEF HasResults
    <2>1. /\ {q} \X {"M1", "M2", "M3"} \subseteq results
          /\ <<CaseOf[q], AcquisitionOf[q]>> \in links
      BY <1>1 DEF JobInv, HasResults
    <2>2. {q} \X {"M1", "M2", "M3"} \subseteq results'
      <3> SUFFICES ASSUME NEW engine \in {"M1", "M2", "M3"}
                   PROVE  <<q, engine>> \in results'
        OBVIOUS
      <3>1. <<q, engine>> \in results
        BY <2>1
      <3>2. QED
        BY <1>2, <3>1
    <2>3. <<CaseOf[q], AcquisitionOf[q]>> \in links'
      BY <1>2, <2>1
    <2>4. QED
      BY <2>2, <2>3
  <1>6. QED
    BY <1>3, <1>4, <1>5 DEF JobInv

\* Every step of a job keeps its own part of the invariant.
LEMMA OwnStepKeepsInv ==
    ASSUME TypeOK, NEW j \in Jobs, JobInv(j), Check(j) \/ Request(j) \/ Task(j)
    PROVE  JobInv(j)'
  <1> USE DEF Goto, Settle, rowVars, dataVars, TypeOK, JobInv, RowAtStep, ProgressAtStep,
              ResultsAtStep, Readable, HasResults, InOrder, Running, Active
  <1>1. CASE Check(j)
    BY <1>1 DEF Check
  <1>2. CASE Insert(j)
    BY <1>2 DEF Insert, InsertRow
  <1>3. CASE InsertFails(j)
    BY <1>3 DEF InsertFails, InsertRow
  <1>4. CASE Begin(j)
    BY <1>4 DEF Begin, UpdateRunning
  <1>5. CASE Load(j)
    BY <1>5 DEF Load
  <1>6. CASE MarkM1(j)
    BY <1>6 DEF MarkM1, UpdateRunning
  <1>7. CASE RunZeek(j) \/ ReadLogs(j)
    BY <1>7 DEF RunZeek, ReadLogs
  <1>8. CASE ExtractionFails(j)
    BY <1>8 DEF ExtractionFails
  <1>9. CASE MarkM2(j)
    BY <1>9 DEF MarkM2, UpdateRunning
  <1>10. CASE PersistM1(j)
    BY <1>10 DEF PersistM1
  <1>11. CASE PersistM2(j)
    BY <1>11 DEF PersistM2
  <1>12. CASE PersistM3(j)
    BY <1>12 DEF PersistM3
  <1>13. CASE PersistM1Fails(j) \/ PersistM2Fails(j) \/ PersistM3Fails(j)
    BY <1>13 DEF PersistM1Fails, PersistM2Fails, PersistM3Fails
  <1>14. CASE PersistM4(j)
    BY <1>14 DEF PersistM4
  <1>15. CASE Complete(j)
    BY <1>15 DEF Complete
  <1>16. CASE ReportFails(j) \/ StepFails(j)
    BY <1>16 DEF ReportFails, StepFails, Working
  <1>17. CASE RecordFailure(j)
    BY <1>17, ErrorIsSome DEF RecordFailure
  <1>18. CASE RecordFailureFails(j)
    BY <1>18 DEF RecordFailureFails
  <1>19. QED
    BY <1>1, <1>2, <1>3, <1>4, <1>5, <1>6, <1>7, <1>8, <1>9, <1>10, <1>11, <1>12, <1>13,
       <1>14, <1>15, <1>16, <1>17, <1>18 DEF Request, Task

JobsInv == TypeOK /\ \A j \in Jobs : JobInv(j)

\* The invariant holds at the start and is preserved by every step.
LEMMA InitJobsInv == Init => JobsInv
  <1> SUFFICES ASSUME Init PROVE \A j \in Jobs : JobInv(j)
    BY InitTypeOK DEF JobsInv
  <1>1. QED
    BY DEF Init, JobInv, RowAtStep, ProgressAtStep, ResultsAtStep, Readable, HasResults,
          InOrder, Running, Active

\* Every step keeps it, since it moves one job at a time or stops them all.
LEMMA NextJobsInv == JobsInv /\ [Next]_vars => JobsInv'
  <1> SUFFICES ASSUME JobsInv, [Next]_vars, NEW q \in Jobs PROVE JobInv(q)'
    BY NextTypeOK DEF JobsInv
  <1>1. CASE \E j \in Jobs : Check(j) \/ Request(j) \/ Task(j)
    BY <1>1, OwnStepKeepsInv, OthersKeepInv DEF JobsInv
  <1>2. CASE Crash
    <2>1. pc'[q] \in {pc[q], "dead"}
      BY <1>2 DEF Crash
    <2>2. JobInv(q)
      BY DEF JobsInv
    <2>3. UNCHANGED <<status, stage, progress, error, results, links>>
      BY <1>2 DEF Crash, rowVars, dataVars
    <2>4. QED
      BY <2>1, <2>2, <2>3 DEF JobInv, RowAtStep, ProgressAtStep, ResultsAtStep, Readable,
            HasResults, InOrder, Running
  <1>3. CASE UNCHANGED vars
    BY <1>3 DEF vars, rowVars, dataVars, JobsInv, JobInv, RowAtStep, ProgressAtStep,
          ResultsAtStep, Readable, HasResults, InOrder
  <1>4. QED
    BY <1>1, <1>2, <1>3 DEF Next

-----------------------------------------------------------------------------
(***************************************************************************)
(* The report of a case.  It is filed at a step where, by JobsInv, its own *)
(* analysis has committed everything; and commits are never taken back.    *)
(***************************************************************************)

\* What a job's pipeline has committed, and the links of a case, only grow.
LEMMA CommitsStay ==
    ASSUME NEW j \in Jobs, Check(j) \/ Request(j) \/ Task(j)
    PROVE  results \subseteq results' /\ links \subseteq links'
  <1>1. CASE PersistM1(j) \/ PersistM2(j) \/ PersistM3(j)
    BY <1>1 DEF PersistM1, PersistM2, PersistM3
  <1>2. CASE ~(PersistM1(j) \/ PersistM2(j) \/ PersistM3(j))
    BY <1>2 DEF Check, Request, Insert, InsertFails, Task, Begin, Load, MarkM1, RunZeek,
          ExtractionFails, ReadLogs, MarkM2, PersistM1Fails, PersistM2Fails, PersistM3Fails,
          PersistM4, Complete,
          ReportFails, StepFails, RecordFailure, RecordFailureFails, dataVars
  <1>3. QED
    BY <1>1, <1>2

\* A report is filed by the job that stands at that step, for its own case.
LEMMA ReportSteps ==
    ASSUME TypeOK, NEW j \in Jobs, Check(j) \/ Request(j) \/ Task(j)
    PROVE  \/ UNCHANGED reports
           \/ /\ pc[j] = "persist4"
              /\ \A c \in Cases : \A k \in reports'[c] :
                     k \in reports[c] \/ (k = j /\ c = CaseOf[j])
  <1>1. CASE PersistM4(j)
    <2>1. CaseOf[j] \in Cases /\ reports \in [Cases -> SUBSET Jobs]
      BY AnalysisJobsAssumption DEF TypeOK
    <2>2. CASE reports' = [reports EXCEPT ![CaseOf[j]] = IF @ = {} THEN {j} ELSE @]
      <3> DEFINE filed == IF reports[CaseOf[j]] = {} THEN {j} ELSE reports[CaseOf[j]]
      <3>1. DOMAIN reports = Cases /\ reports' = [reports EXCEPT ![CaseOf[j]] = filed]
        BY <2>1, <2>2
      <3>2. filed \in {{j}, reports[CaseOf[j]]}
        OBVIOUS
      <3> HIDE DEF filed
      <3>3. \A c \in Cases : reports'[c] = IF c = CaseOf[j] THEN filed ELSE reports[c]
        BY <3>1
      <3>4. QED
        BY <1>1, <3>2, <3>3 DEF PersistM4
    <2>3. QED
      BY <1>1, <2>2 DEF PersistM4
  <1>2. CASE ~PersistM4(j)
    BY <1>2 DEF Check, Request, Insert, InsertFails, Task, Begin, Load, MarkM1, RunZeek,
          ExtractionFails, ReadLogs, MarkM2, PersistM1, PersistM1Fails, PersistM2,
          PersistM2Fails, PersistM3, PersistM3Fails, Complete,
          ReportFails, StepFails, RecordFailure,
          RecordFailureFails, dataVars
  <1>3. QED
    BY <1>1, <1>2

\* At the step that files the report, everything it rests on has been committed.
LEMMA JobKeepsReports ==
    ASSUME JobsInv, ReportsRestOnResults, NEW j \in Jobs, Check(j) \/ Request(j) \/ Task(j)
    PROVE  ReportsRestOnResults'
  <1> SUFFICES ASSUME NEW c \in Cases, NEW k \in reports'[c]
               PROVE  /\ CaseOf[k] = c /\ <<c, AcquisitionOf[k]>> \in links'
                      /\ {k} \X {"M1", "M2", "M3"} \subseteq results'
    BY DEF ReportsRestOnResults
  <1>1. results \subseteq results' /\ links \subseteq links'
    BY CommitsStay
  <1>2. CASE k \in reports[c]
    BY <1>1, <1>2 DEF ReportsRestOnResults
  <1>3. CASE k \notin reports[c]
    <2>1. pc[j] = "persist4" /\ k = j /\ c = CaseOf[j]
      BY <1>3, ReportSteps DEF JobsInv
    <2>2. /\ <<j, "M1">> \in results /\ <<j, "M2">> \in results /\ <<j, "M3">> \in results
          /\ <<CaseOf[j], AcquisitionOf[j]>> \in links
      BY <2>1 DEF JobsInv, JobInv, ResultsAtStep
    <2>3. QED
      BY <1>1, <2>1, <2>2
  <1>4. QED
    BY <1>2, <1>3

\* Every step keeps the reports founded.
LEMMA NextReports == JobsInv /\ ReportsRestOnResults /\ [Next]_vars => ReportsRestOnResults'
  <1> SUFFICES ASSUME JobsInv, ReportsRestOnResults, [Next]_vars
               PROVE  ReportsRestOnResults'
    OBVIOUS
  <1>1. CASE \E j \in Jobs : Check(j) \/ Request(j) \/ Task(j)
    BY <1>1, JobKeepsReports
  <1>2. CASE Crash \/ UNCHANGED vars
    BY <1>2 DEF Crash, vars, dataVars, ReportsRestOnResults
  <1>3. QED
    BY <1>1, <1>2 DEF Next

\* Whatever fails: a completed job shows so and has all its results, no engine commits
\* before the ones it builds on, and the report of a case is of an analysis of it whose
\* results are all there, however many analyses file theirs under the same key.
THEOREM RowsAndResultsCorrect == Spec => []CompletedHasResults
  <1>1. Init => ReportsRestOnResults
    BY DEF Init, ReportsRestOnResults
  <1>2. JobsInv => JobsHaveResults
    BY DEF JobsInv, JobInv, Readable, HasResults, InOrder, JobsHaveResults
  <1>3. JobsHaveResults /\ ReportsRestOnResults => CompletedHasResults
    BY DEF CompletedHasResults
  <1>4. QED
    BY <1>1, <1>2, <1>3, NextReports, InitJobsInv, NextJobsInv, PTL DEF Spec

-----------------------------------------------------------------------------
(***************************************************************************)
(* The audit trail, the direction of the rows, and the refinement, all     *)
(* from JobsInv.                                                           *)
(***************************************************************************)

AuditTells(j) ==
    /\ status[j] # "absent" <=> <<"ANALYSIS_REQUESTED", j>> \in audit
    /\ status[j] = "running" => <<"ANALYSIS_STARTED", j>> \in audit
    /\ status[j] = "completed" => <<"ANALYSIS_COMPLETED", j>> \in audit
    /\ status[j] = "failed" <=> <<"ANALYSIS_FAILED", j>> \in audit

\* The steps that write neither the status of a row nor an audit event.
LEMMA QuietSteps ==
    ASSUME NEW j \in Jobs, TypeOK, JobInv(j),
           \/ Check(j) \/ Load(j) \/ MarkM1(j) \/ RunZeek(j) \/ ExtractionFails(j)
           \/ ReadLogs(j) \/ MarkM2(j) \/ PersistM1(j) \/ PersistM1Fails(j) \/ PersistM2(j)
           \/ PersistM2Fails(j) \/ PersistM3(j) \/ PersistM3Fails(j) \/ PersistM4(j)
           \/ ReportFails(j) \/ StepFails(j) \/ RecordFailureFails(j)
    PROVE  UNCHANGED <<status, audit>>
  <1>1. CASE MarkM1(j) \/ MarkM2(j)
    BY <1>1 DEF MarkM1, MarkM2, UpdateRunning, JobInv, RowAtStep, Running, TypeOK
  <1>2. CASE ~(MarkM1(j) \/ MarkM2(j))
    BY <1>2 DEF Check, Load, RunZeek, ExtractionFails, ReadLogs, PersistM1, PersistM1Fails,
          PersistM2, PersistM2Fails, PersistM3, PersistM3Fails, PersistM4,
          ReportFails, StepFails,
          RecordFailureFails, rowVars
  <1>3. QED
    BY <1>1, <1>2

\* One step of a job, in the terms of the row and its audit events.
LEMMA RowSteps ==
    ASSUME NEW j \in Jobs, TypeOK, JobInv(j), Check(j) \/ Request(j) \/ Task(j)
    PROVE  \/ UNCHANGED <<status, audit>>
           \/ /\ status[j] = "absent" /\ status' = [status EXCEPT ![j] = "queued"]
              /\ audit' = audit \cup {<<"ANALYSIS_REQUESTED", j>>}
           \/ /\ status[j] = "queued" /\ status' = [status EXCEPT ![j] = "running"]
              /\ audit' = audit \cup {<<"ANALYSIS_STARTED", j>>}
           \/ /\ status[j] = "running" /\ status' = [status EXCEPT ![j] = "completed"]
              /\ audit' = audit \cup {<<"ANALYSIS_COMPLETED", j>>}
           \/ /\ status[j] \in Active \cup {"completed"}
              /\ status' = [status EXCEPT ![j] = "failed"]
              /\ audit' = audit \cup {<<"ANALYSIS_FAILED", j>>}
  <1> USE DEF JobInv, RowAtStep, Running
  <1>1. CASE Insert(j) \/ InsertFails(j)
    BY <1>1 DEF Insert, InsertFails, InsertRow, rowVars
  <1>2. CASE Begin(j)
    BY <1>2 DEF Begin, UpdateRunning
  <1>3. CASE Complete(j)
    BY <1>3 DEF Complete
  <1>4. CASE RecordFailure(j)
    BY <1>4 DEF RecordFailure
  <1>5. QED
    BY <1>1, <1>2, <1>3, <1>4, QuietSteps DEF Request, Task

AuditInv == JobsInv /\ \A j \in Jobs : AuditTells(j)

\* A job is audited as its row moves, and no step touches the events of another job.
LEMMA JobAuditInv ==
    ASSUME JobsInv, NEW j \in Jobs, Check(j) \/ Request(j) \/ Task(j),
           NEW q \in Jobs, AuditTells(q)
    PROVE  AuditTells(q)'
  <1>1. status \in [Jobs -> Active \cup {"absent", "completed", "failed"}] /\ JobInv(j)
    BY DEF JobsInv, TypeOK
  <1>2. CASE q = j
    BY <1>1, <1>2, RowSteps DEF AuditTells, Active, JobsInv
  <1>3. CASE q # j
    BY <1>1, <1>3, RowSteps DEF AuditTells, JobsInv
  <1>4. QED
    BY <1>2, <1>3

\* The trail is kept by every step.
LEMMA NextAuditInv == AuditInv /\ [Next]_vars => AuditInv'
  <1> SUFFICES ASSUME AuditInv, [Next]_vars, NEW q \in Jobs PROVE AuditTells(q)'
    BY NextJobsInv DEF AuditInv
  <1>1. CASE \E j \in Jobs : Check(j) \/ Request(j) \/ Task(j)
    BY <1>1, JobAuditInv DEF AuditInv
  <1>2. CASE Crash
    BY <1>2 DEF Crash, rowVars, AuditInv, AuditTells
  <1>3. CASE UNCHANGED vars
    BY <1>3 DEF vars, rowVars, AuditInv, AuditTells
  <1>4. QED
    BY <1>1, <1>2, <1>3 DEF Next

\* The audit trail and the rows agree, whatever fails and whatever commit is not
\* acknowledged.
THEOREM AuditIsFaithful == Spec => []AuditTellsStatus
  <1>1. Init => AuditInv
    BY InitJobsInv DEF AuditInv, Init, AuditTells
  <1>2. AuditInv => AuditTellsStatus
    BY DEF AuditInv, AuditTells, AuditTellsStatus, JobsInv, JobInv, Readable
  <1>3. QED
    BY <1>1, <1>2, NextAuditInv, PTL DEF Spec

\* The progress of a job, as one of its steps changes it.
LEMMA ProgressSteps ==
    ASSUME NEW j \in Jobs, TypeOK, JobInv(j), Check(j) \/ Request(j) \/ Task(j)
    PROVE  \A q \in Jobs : progress'[q] >= progress[q]
  <1>1. progress \in [Jobs -> 0..100]
    BY DEF TypeOK
  <1>2. CASE Begin(j) \/ MarkM1(j) \/ MarkM2(j)
    BY <1>1, <1>2 DEF Begin, MarkM1, MarkM2, UpdateRunning, JobInv, ProgressAtStep
  <1>3. CASE Complete(j)
    BY <1>1, <1>3 DEF Complete
  <1>4. CASE ~(Begin(j) \/ MarkM1(j) \/ MarkM2(j) \/ Complete(j))
    <2>1. UNCHANGED progress
      BY <1>4 DEF Check, Request, Insert, InsertFails, InsertRow, Task, Load, RunZeek,
            ExtractionFails, ReadLogs, PersistM1, PersistM1Fails, PersistM2, PersistM2Fails,
            PersistM3, PersistM3Fails, PersistM4, ReportFails, StepFails, RecordFailure,
            RecordFailureFails, rowVars
    <2>2. QED
      BY <1>1, <2>1
  <1>5. QED
    BY <1>2, <1>3, <1>4

\* A row never goes back to an earlier status or to less progress.
THEOREM RowsNeverGoBack == Spec => NeverBack
  <1>1. JobsInv /\ [Next]_vars => [Forward]_vars
    <2> SUFFICES ASSUME JobsInv, Next PROVE Forward
      OBVIOUS
    <2> USE DEF Forward
    <2>1. /\ status \in [Jobs -> Active \cup {"absent", "completed", "failed"}]
          /\ progress \in [Jobs -> 0..100]
      BY DEF JobsInv, TypeOK
    <2>2. CASE Crash
      BY <2>1, <2>2 DEF Crash, rowVars
    <2>3. ASSUME NEW j \in Jobs, Check(j) \/ Request(j) \/ Task(j)
          PROVE  Forward
      <3>1. JobInv(j)
        BY DEF JobsInv
      <3>2. \A q \in Jobs : progress'[q] >= progress[q]
        BY <2>3, <3>1, ProgressSteps DEF JobsInv
      <3>3. \A q \in Jobs :
              /\ status[q] \in {"completed", "failed"} => status'[q] \in {"completed", "failed"}
              /\ status[q] = "running" => status'[q] # "queued"
              /\ status[q] # "absent" => status'[q] # "absent"
        BY <2>1, <2>3, <3>1, RowSteps DEF JobsInv, Active
      <3>4. QED
        BY <3>2, <3>3
    <2>4. QED
      BY <2>2, <2>3 DEF Next
  <1>2. QED
    BY <1>1, InitJobsInv, NextJobsInv, PTL DEF Spec, NeverBack

-----------------------------------------------------------------------------
(***************************************************************************)
(* One active job per acquisition is not kept, as two requests may check   *)
(* before either inserts.  That is the only reason: crashes, rows left     *)
(* active and unacknowledged inserts do not matter.                        *)
(***************************************************************************)

\* No two requests for one acquisition are between their check and their insert.
ChecksDoNotOverlap ==
    \A j, k \in Jobs :
        AcquisitionOf[j] = AcquisitionOf[k] /\ pc[j] = "checked" /\ pc[k] = "checked" => j = k

\* A request that has passed its check would still pass it.
CheckedStaysFree ==
    \A j \in Jobs : pc[j] = "checked" => ~HasActive(AcquisitionOf[j])

SingleInv == SingleActiveJob /\ CheckedStaysFree

\* A job becomes active by its own insert, and is checked by its own check.
LEMMA ActivationSteps ==
    ASSUME JobsInv, NEW j \in Jobs, Check(j) \/ Request(j) \/ Task(j), NEW q \in Jobs
    PROVE  /\ status'[q] \in Active => status[q] \in Active \/ (q = j /\ pc[j] = "checked")
           /\ pc'[q] = "checked" =>
                 \/ pc[q] = "checked" /\ (q = j => UNCHANGED status)
                 \/ q = j /\ ~HasActive(AcquisitionOf[j]) /\ UNCHANGED status
  <1>1. TypeOK /\ JobInv(j) /\ status \in [Jobs -> Active \cup {"absent", "completed", "failed"}]
    BY DEF JobsInv, TypeOK
  <1>2. pc \in [Jobs -> Labels]
    BY <1>1 DEF TypeOK
  <1>3. CASE Check(j)
    BY <1>1, <1>2, <1>3 DEF Check, Goto, rowVars
  <1>4. CASE Request(j)
    BY <1>1, <1>2, <1>4 DEF Request, Insert, InsertFails, InsertRow, Goto, rowVars, Active
  <1>5. CASE Task(j)
    <2>1. pc[j] # "checked" /\ pc'[j] # "checked" /\ (q # j => pc'[q] = pc[q])
      BY <1>2, <1>5 DEF Task, Begin, Load, MarkM1, RunZeek, ExtractionFails, ReadLogs, MarkM2,
            PersistM1, PersistM1Fails, PersistM2, PersistM2Fails, PersistM3, PersistM3Fails,
            PersistM4, Complete,
            ReportFails, StepFails, RecordFailure, RecordFailureFails, Goto, Settle,
            Working
    <2>2. pc[j] # "idle"
      BY <1>5 DEF Task, Begin, Load, MarkM1, RunZeek, ExtractionFails, ReadLogs, MarkM2,
            PersistM1, PersistM1Fails, PersistM2, PersistM2Fails, PersistM3, PersistM3Fails,
            PersistM4, Complete,
            ReportFails, StepFails, RecordFailure, RecordFailureFails, Working
    <2>3. status'[q] \in Active => status[q] \in Active
      BY <1>1, <1>5, <2>1, <2>2 DEF Task, Begin, Load, MarkM1, RunZeek, ExtractionFails,
            ReadLogs, MarkM2, PersistM1, PersistM1Fails, PersistM2, PersistM2Fails, PersistM3,
            PersistM3Fails, PersistM4, Complete,
            ReportFails, StepFails, RecordFailure, RecordFailureFails,
            UpdateRunning, rowVars, JobInv, RowAtStep, Running, Active
    <2>4. QED
      BY <2>1, <2>3
  <1>6. QED
    BY <1>3, <1>4, <1>5

\* The induction step, for the steps of one job.
LEMMA JobKeepsSingle ==
    ASSUME JobsInv, SingleInv, ChecksDoNotOverlap,
           NEW j \in Jobs, Check(j) \/ Request(j) \/ Task(j)
    PROVE  SingleInv'
  <1>1. ASSUME NEW q \in Jobs, NEW k \in Jobs, AcquisitionOf[q] = AcquisitionOf[k],
               status'[q] \in Active, status'[k] \in Active
        PROVE  q = k
    BY <1>1, ActivationSteps DEF SingleInv, SingleActiveJob, CheckedStaysFree, HasActive
  <1>2. ASSUME NEW q \in Jobs, pc'[q] = "checked",
               NEW k \in Jobs, AcquisitionOf[k] = AcquisitionOf[q], status'[k] \in Active
        PROVE  FALSE
    <2>1. CASE UNCHANGED status
      BY <1>2, <2>1, ActivationSteps DEF SingleInv, CheckedStaysFree, HasActive
    <2>2. CASE ~UNCHANGED status
      <3>1. pc[q] = "checked" /\ q # j
        BY <1>2, <2>2, ActivationSteps
      <3>2. k = j /\ pc[j] = "checked"
        BY <1>2, <3>1, ActivationSteps DEF SingleInv, CheckedStaysFree, HasActive
      <3>3. QED
        BY <1>2, <3>1, <3>2 DEF ChecksDoNotOverlap
    <2>3. QED
      BY <2>1, <2>2
  <1>3. QED
    BY <1>1, <1>2 DEF SingleInv, SingleActiveJob, CheckedStaysFree, HasActive

\* As long as the checks of requests for one acquisition do not overlap, it has at most
\* one active job, whatever fails: the race that job_race shows is the only way to two.
THEOREM OnlyOverlappingChecksRace == Spec /\ []ChecksDoNotOverlap => []SingleActiveJob
  <1>1. Init => SingleInv
    BY DEF Init, SingleInv, SingleActiveJob, CheckedStaysFree, Active
  <1>2. JobsInv /\ SingleInv /\ ChecksDoNotOverlap /\ [Next]_vars => SingleInv'
    <2> SUFFICES ASSUME JobsInv, SingleInv, ChecksDoNotOverlap, [Next]_vars
                 PROVE  SingleInv'
      OBVIOUS
    <2>1. CASE \E j \in Jobs : Check(j) \/ Request(j) \/ Task(j)
      BY <2>1, JobKeepsSingle
    <2>2. CASE Crash
      <3>1. UNCHANGED status /\ \A q \in Jobs : pc'[q] = "checked" => pc[q] = "checked"
        BY <2>2 DEF Crash, rowVars
      <3>2. QED
        BY <3>1 DEF SingleInv, SingleActiveJob, CheckedStaysFree, HasActive
    <2>3. CASE UNCHANGED vars
      BY <2>3 DEF vars, rowVars, SingleInv, SingleActiveJob, CheckedStaysFree, HasActive
    <2>4. QED
      BY <2>1, <2>2, <2>3 DEF Next
  <1>3. SingleInv => SingleActiveJob
    BY DEF SingleInv
  <1>4. QED
    BY <1>1, <1>2, <1>3, InitJobsInv, NextJobsInv, PTL DEF Spec

-----------------------------------------------------------------------------
\* What a step does to the phase of a job and to its results, in the terms of
\* JobLifecycle.
LEMMA JobRefines ==
    ASSUME JobsInv, NEW j \in Jobs, Check(j) \/ Request(j) \/ Task(j)
    PROVE  Lifecycle!Next \/ UNCHANGED <<phases, availableResults>>
  <1>1. TypeOK /\ JobInv(j) /\ status \in [Jobs -> Active \cup {"absent", "completed", "failed"}]
    BY DEF JobsInv, TypeOK
  <1>2. CASE PersistM1(j) \/ PersistM2(j) \/ PersistM3(j)
    <2>1. UNCHANGED status
      BY <1>2 DEF PersistM1, PersistM2, PersistM3, rowVars
    <2>2. UNCHANGED phases
      BY <2>1 DEF phases
    <2>3. \/ availableResults' = availableResults
          \/ PersistM3(j) /\ availableResults' = availableResults \cup {j}
      <3>1. CASE PersistM1(j)
        <4>1. /\ results' = results \cup {<<j, "M1">>}
              /\ <<j, "M3">> \in results => <<j, "M1">> \in results
          BY <1>1, <3>1 DEF PersistM1, JobInv, InOrder
        <4>2. \A q \in Jobs : {q} \X {"M1", "M2", "M3"} \subseteq results'
                               <=> {q} \X {"M1", "M2", "M3"} \subseteq results
          BY <4>1
        <4>3. QED
          BY <4>2 DEF availableResults
      <3>2. CASE PersistM2(j)
        <4>1. /\ results' = results \cup {<<j, "M2">>}
              /\ <<j, "M3">> \in results => <<j, "M2">> \in results
          BY <1>1, <3>2 DEF PersistM2, JobInv, InOrder
        <4>2. \A q \in Jobs : {q} \X {"M1", "M2", "M3"} \subseteq results'
                               <=> {q} \X {"M1", "M2", "M3"} \subseteq results
          BY <4>1
        <4>3. QED
          BY <4>2 DEF availableResults
      <3>3. CASE PersistM3(j)
        <4>1. /\ results' = results \cup {<<j, "M3">>}
              /\ <<j, "M1">> \in results /\ <<j, "M2">> \in results
          BY <1>1, <3>3 DEF PersistM3, JobInv, ResultsAtStep, InOrder
        <4>2. \A q \in Jobs : {q} \X {"M1", "M2", "M3"} \subseteq results'
                               <=> q = j \/ {q} \X {"M1", "M2", "M3"} \subseteq results
          BY <4>1
        <4>3. QED
          BY <3>3, <4>2 DEF availableResults
      <3>4. QED
        BY <1>2, <3>1, <3>2, <3>3
    <2>4. CASE UNCHANGED availableResults
      BY <2>2, <2>4
    <2>5. CASE PersistM3(j) /\ availableResults' = availableResults \cup {j}
      <3>1. status[j] = "running"
        BY <1>1, <2>5 DEF PersistM3, JobInv, RowAtStep, Running
      <3>2. phases[j] = "active"
        BY <3>1 DEF phases, Active
      <3>3. Lifecycle!Deliver(j)
        BY <2>2, <2>5, <3>2 DEF Lifecycle!Deliver
      <3>4. QED
        BY <3>3 DEF Lifecycle!Next
    <2>6. QED
      BY <2>3, <2>4, <2>5
  <1>3. CASE ~(PersistM1(j) \/ PersistM2(j) \/ PersistM3(j))
    <2>1. UNCHANGED results
      BY <1>3 DEF Check, Request, Insert, InsertFails, Task, Begin, Load, MarkM1, RunZeek,
            ExtractionFails, ReadLogs, MarkM2, PersistM1Fails, PersistM2Fails,
            PersistM3Fails, PersistM4, Complete, ReportFails, StepFails, RecordFailure,
            RecordFailureFails, dataVars
    <2>2. UNCHANGED availableResults
      BY <2>1 DEF availableResults
    <2>3. CASE UNCHANGED status
      BY <2>2, <2>3 DEF phases
    <2>4. CASE status[j] = "absent" /\ status' = [status EXCEPT ![j] = "queued"]
      <3>1. Lifecycle!Accept(j)
        BY <1>1, <2>2, <2>4 DEF Lifecycle!Accept, Lifecycle!Move, phases, Active
      <3>2. QED
        BY <3>1 DEF Lifecycle!Next
    <2>5. CASE status[j] = "queued" /\ status' = [status EXCEPT ![j] = "running"]
      <3>1. UNCHANGED phases
        BY <1>1, <2>5 DEF phases, Active
      <3>2. QED
        BY <2>2, <3>1
    <2>6. CASE status[j] = "running" /\ status' = [status EXCEPT ![j] = "completed"]
      <3>1. Complete(j)
        BY <1>1, <2>6 DEF Check, Request, Insert, InsertFails, InsertRow, Task, Begin, Load,
              MarkM1, RunZeek, ExtractionFails, ReadLogs, MarkM2, PersistM1, PersistM1Fails,
              PersistM2, PersistM2Fails, PersistM3, PersistM3Fails, PersistM4,
              ReportFails, StepFails,
              RecordFailure, RecordFailureFails, UpdateRunning, rowVars
      <3>2. \A engine \in {"M1", "M2", "M3"} : <<j, engine>> \in results
        BY <1>1, <3>1 DEF Complete, JobInv, ResultsAtStep, InOrder
      <3>3. j \in availableResults
        BY <3>2 DEF availableResults
      <3>4. Lifecycle!Complete(j)
        BY <1>1, <2>2, <2>6, <3>3 DEF Lifecycle!Complete, Lifecycle!Move, phases, Active
      <3>5. QED
        BY <3>4 DEF Lifecycle!Next
    <2>7. CASE /\ status[j] \in Active \cup {"completed"}
               /\ status' = [status EXCEPT ![j] = "failed"]
      <3>1. Lifecycle!Fail(j)
        BY <1>1, <2>2, <2>7 DEF Lifecycle!Fail, Lifecycle!Move, phases, Active
      <3>2. QED
        BY <3>1 DEF Lifecycle!Next
    <2>8. QED
      BY <1>1, <2>3, <2>4, <2>5, <2>6, <2>7, RowSteps
  <1>4. QED
    BY <1>2, <1>3

\* A client polling any job sees a behaviour of JobLifecycle.
THEOREM OrchestratorImplementsLifecycle == Spec => ImplementsLifecycle
  <1>1. Init => Lifecycle!Init
    <2> SUFFICES ASSUME Init PROVE Lifecycle!Init
      OBVIOUS
    <2>1. phases = [j \in Jobs |-> "absent"]
      BY DEF Init, phases, Active
    <2>2. \A j \in Jobs : <<j, "M1">> \in {j} \X {"M1", "M2", "M3"} /\ <<j, "M1">> \notin results
      BY DEF Init
    <2>3. availableResults = {}
      BY <2>2 DEF availableResults
    <2>4. QED
      BY <2>1, <2>3 DEF Lifecycle!Init
  <1>2. JobsInv /\ [Next]_vars => [Lifecycle!Next]_<<phases, availableResults>>
    <2> SUFFICES ASSUME JobsInv, [Next]_vars
                 PROVE  Lifecycle!Next \/ UNCHANGED <<phases, availableResults>>
      OBVIOUS
    <2>1. CASE \E j \in Jobs : Check(j) \/ Request(j) \/ Task(j)
      BY <2>1, JobRefines
    <2>2. CASE Crash \/ UNCHANGED vars
      <3>1. UNCHANGED <<status, results>>
        BY <2>2 DEF Crash, vars, rowVars, dataVars
      <3>2. QED
        BY <3>1 DEF phases, availableResults
    <2>3. QED
      BY <2>1, <2>2 DEF Next
  <1>3. QED
    BY <1>1, <1>2, InitJobsInv, NextJobsInv, PTL DEF Spec, ImplementsLifecycle, Lifecycle!Spec

=============================================================================
