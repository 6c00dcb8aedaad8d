-------------------------- MODULE MCAnalysisJobs --------------------------
(***************************************************************************)
(* Instances of AnalysisJobs for TLC.                                      *)
(***************************************************************************)
EXTENDS AnalysisJobs, TLC

CONSTANTS j1, j2, j3, caseA, caseB, acqA, acqB

MCAcquisitionOf == (j1 :> acqA) @@ (j2 :> acqA) @@ (j3 :> acqB)
MCCaseOf == (j1 :> caseA) @@ (j2 :> caseA) @@ (j3 :> caseB)
MCUploaded == {<<caseA, acqA>>, <<caseB, acqB>>}

\* Two jobs of one acquisition with something to put on a timeline, and one job of
\* an acquisition the engines may make nothing or a finding of.
MixedTraffic == (acqA :> {"payload"}) @@ (acqB :> {"silent", "findings"})

PairAcquisitionOf == (j1 :> acqA) @@ (j2 :> acqA)
PairCaseOf == (j1 :> caseA) @@ (j2 :> caseA)
=============================================================================
