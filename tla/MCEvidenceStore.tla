-------------------------- MODULE MCEvidenceStore --------------------------
(***************************************************************************)
(* Instances of EvidenceStore for TLC.  Two contents can be uploaded and   *)
(* one is refused by the validator.                                        *)
(***************************************************************************)
EXTENDS EvidenceStore, TLC

CONSTANTS r1, r2, v1, v2, caseA, caseB, pcapA, pcapB, notPcap

MCContents == {pcapA, pcapB, notPcap}
MCMalformed == {notPcap}

\* Two requests with the same bytes for two cases; in one instance the second is
\* refused at the last file of its batch.
MCCaseOf == (r1 :> caseA) @@ (r2 :> caseB)
MCBatch == (r1 :> <<pcapA>>) @@ (r2 :> <<pcapA, notPcap>>)
TwinBatch == (r1 :> <<pcapA>>) @@ (r2 :> <<pcapA>>)

\* Two readers, whose verifications overlap; or a single one.
MCAsks == (v1 :> {"verify"}) @@ (v2 :> {"verify", "export"})
OneView == v1 :> {"view"}

\* Nothing goes wrong; the database, the process and the bytes in the bucket do;
\* the storage and the process do, and objects get lost.
FairAndFoul ==
    { {},
      {"database", "ack", "crash", "corruption"},
      {"storage", "ack", "crash", "loss"} }
NoFaults == {{}}
=============================================================================
