---------------------------- MODULE JobLifecycle ----------------------------
(***************************************************************************)
(* What the analysis API promises to a client that polls a job: it is      *)
(* accepted once, stays active until it has one outcome, and is completed  *)
(* only when its results are there.  A completed job may still be failed,  *)
(* because the orchestrator treats a lost acknowledgement of its last      *)
(* transaction like any other error; nothing leads out of "failed".        *)
(* AnalysisJobs implements this specification.                             *)
(***************************************************************************)

CONSTANT Jobs

VARIABLES
    phase,      \* what the client sees of each job
    available   \* the jobs with a full set of results

Init ==
    /\ phase = [j \in Jobs |-> "absent"]
    /\ available = {}

Move(j, from, to) == phase[j] \in from /\ phase' = [phase EXCEPT ![j] = to]

Accept(j) == Move(j, {"absent"}, "active") /\ UNCHANGED available

Deliver(j) ==
    /\ phase[j] = "active"
    /\ available' = available \cup {j}
    /\ UNCHANGED phase

Complete(j) ==
    /\ j \in available
    /\ Move(j, {"active"}, "completed")
    /\ UNCHANGED available

Fail(j) == Move(j, {"active", "completed"}, "failed") /\ UNCHANGED available

Next == \E j \in Jobs : Accept(j) \/ Deliver(j) \/ Complete(j) \/ Fail(j)

Spec == Init /\ [][Next]_<<phase, available>>

=============================================================================
