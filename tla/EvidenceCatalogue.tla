------------------------- MODULE EvidenceCatalogue -------------------------
(***************************************************************************)
(* What the upload service promises to the investigators who use it, with  *)
(* no bucket, table or transaction in sight.  Contents are filed under     *)
(* cases, one at a time; nothing that was filed is ever taken out again;   *)
(* and a request is accepted only when every file it brought is filed      *)
(* under its case.  A request that is not accepted may leave any part of   *)
(* its batch filed.  EvidenceStore implements this specification.          *)
(***************************************************************************)
EXTENDS Naturals, Sequences

CONSTANTS Requests, Cases, Contents, CaseOf, Batch

VARIABLES
    filed,      \* <<case, content>> pairs an investigator of the case can list
    outcome     \* what each request was told

Init ==
    /\ filed = {}
    /\ outcome = [r \in Requests |-> "open"]

Brought(r) == {Batch[r][i] : i \in 1..Len(Batch[r])}

\* Filing a content can be the last thing a request does: when it is not told that
\* the content was filed, it is refused all the same.
File(r) ==
    /\ outcome[r] = "open"
    /\ \E content \in Brought(r) : filed' = filed \cup {<<CaseOf[r], content>>}
    /\ \/ UNCHANGED outcome
       \/ outcome' = [outcome EXCEPT ![r] = "refused"]

Accept(r) ==
    /\ outcome[r] = "open"
    /\ {CaseOf[r]} \X Brought(r) \subseteq filed
    /\ outcome' = [outcome EXCEPT ![r] = "accepted"]
    /\ UNCHANGED filed

\* Several requests are refused at once when the service stops.
Refuse ==
    /\ \E refused \in SUBSET {r \in Requests : outcome[r] = "open"} :
          outcome' = [r \in Requests |-> IF r \in refused THEN "refused" ELSE outcome[r]]
    /\ UNCHANGED filed

Next == Refuse \/ \E r \in Requests : File(r) \/ Accept(r)

Spec == Init /\ [][Next]_<<filed, outcome>>

=============================================================================
