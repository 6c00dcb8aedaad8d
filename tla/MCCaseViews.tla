----------------------------- MODULE MCCaseViews -----------------------------
(***************************************************************************)
(* Instances of CaseViews for TLC: two cases whose captures share an       *)
(* address, one of them analysed twice.                                    *)
(***************************************************************************)
EXTENDS CaseViews, TLC

CONSTANTS admin, ann, q1, caseA, caseB, a1, a2, b1, ip1, ip2, ip3, t1, t2

MCRoleOf == admin :> "administrator" @@ ann :> "analyst"

MCCreators == caseA :> {admin} @@ caseB :> {admin, ann}

MCResult ==
    a1 :> [case |-> caseA, entities |-> {ip1, ip2}, edges |-> {<<ip1, ip2>>}, techniques |-> {t1},
           source |-> {ip1}, linked |-> {"event"}]
    @@ a2 :> [case |-> caseA, entities |-> {ip2, ip3}, edges |-> {<<ip2, ip3>>}, techniques |-> {t2},
              source |-> {}, linked |-> {"mitre"}]
    @@ b1 :> [case |-> caseB, entities |-> {ip1, ip3}, edges |-> {<<ip1, ip3>>}, techniques |-> {t1},
              source |-> {ip3}, linked |-> {"event", "relationship", "mitre"}]

\* Nothing is asked of the system once every request has ended.
SomeoneAtWork == \E q \in Requests : stage[q] \notin Ended

=============================================================================
