-------------------------- MODULE GraphPublication --------------------------
(***************************************************************************)
(* What the investigation graph promises to those who read it: a case gets *)
(* the results of an analysis at once, nothing that is there is ever       *)
(* changed, removed or given to another case, and the attack chain is the  *)
(* one thing that is replaced, together with the mappings it rests on.     *)
(* CaseGraph implements this specification.                                *)
(***************************************************************************)

CONSTANT Cases

VARIABLES
    table,      \* rows: key -> case
    chains      \* the techniques of each case's attack chain

Init ==
    /\ DOMAIN table = {}
    /\ chains = [c \in Cases |-> {}]

Kept == \A key \in DOMAIN table : key \in DOMAIN table' /\ table'[key] = table[key]

\* The results of an analysis appear in a case.
Publish(c) ==
    /\ Kept
    /\ \A key \in DOMAIN table' \ DOMAIN table : table'[key] = c
    /\ \A d \in Cases \ {c} : chains'[d] = chains[d]
    /\ DOMAIN chains' = Cases
    /\ \A t \in chains'[c] : <<"mitre", c, t>> \in DOMAIN table'

Next == \E c \in Cases : Publish(c)

Spec == Init /\ [][Next]_<<table, chains>>

=============================================================================
