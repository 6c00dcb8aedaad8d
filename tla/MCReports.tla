------------------------------ MODULE MCReports ------------------------------
(***************************************************************************)
(* Instances of Reports for TLC.                                           *)
(***************************************************************************)
EXTENDS Reports, TLC

CONSTANTS c1, g1, f1, f2, f3, e1, a1, a2

\* No two finalizations of one role, and no two analyses, differ in anything but their
\* name.
Interchangeable == Permutations(Finalizers \ Analysts) \cup Permutations(Analyses)
=============================================================================
