---------------------------- MODULE MCCaseRecords ----------------------------
(***************************************************************************)
(* Instances of CaseRecords for TLC.                                       *)
(***************************************************************************)
EXTENDS CaseRecords, TLC

CONSTANTS c1, c2, p1, p2, p3, p4

\* No two requests of one role differ in anything but their name.
Interchangeable == Permutations(CaseRequests \ Analysts)
=============================================================================
