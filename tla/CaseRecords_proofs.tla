------------------------ MODULE CaseRecords_proofs ------------------------
(***************************************************************************)
(* Proofs about CaseRecords, for any cases, requests, roles, wanted        *)
(* statuses and failures.                                                  *)
(***************************************************************************)
EXTENDS CaseRecords, FiniteSetTheorems, TLAPS

Patches == [case : Cases, read : StoredStatuses, wanted : RawStatuses]
AtMostOne(S) == {{}} \cup {{x} : x \in S}

\* TypeOK, with patch and closedBy as the functions that they are.
TypeInv ==
    /\ step \in [CaseRequests -> {"idle", "loaded", "ended", "failed"}]
    /\ patch \in [CaseRequests -> AtMostOne(Patches)]
    /\ status \in [Cases -> StoredStatuses \cup {"absent"}]
    /\ closedBy \in [Cases -> AtMostOne(CaseRequests)]
    /\ trail \subseteq {"CASE_CREATED", "CASE_VIEWED", "CASE_UPDATED"} \X CaseRequests
    /\ analysed \subseteq Cases

(***************************************************************************)
(* Type correctness.                                                       *)
(***************************************************************************)

\* Sets of at most one element are what TypeOK counts.
LEMMA TypeInvImpliesTypeOK == TypeInv => TypeOK
  <1> SUFFICES ASSUME TypeInv PROVE TypeOK
    OBVIOUS
  <1>1. ASSUME NEW q \in CaseRequests
        PROVE  patch[q] = {} \/
                 \E c \in Cases, s \in StoredStatuses, w \in RawStatuses :
                    patch[q] = {[case |-> c, read |-> s, wanted |-> w]}
    <2>1. patch[q] \in AtMostOne(Patches)
      BY DEF TypeInv
    <2>2. CASE \E p \in Patches : patch[q] = {p}
      <3>1. PICK p \in Patches : patch[q] = {p}
        BY <2>2
      <3>2. p = [case |-> p.case, read |-> p.read, wanted |-> p.wanted]
        BY DEF Patches
      <3>3. p.case \in Cases /\ p.read \in StoredStatuses /\ p.wanted \in RawStatuses
        BY DEF Patches
      <3>4. QED
        BY <3>1, <3>2, <3>3
    <2>3. QED
      BY <2>1, <2>2 DEF AtMostOne
  <1>2. ASSUME NEW c \in Cases
        PROVE  closedBy[c] \subseteq CaseRequests /\ Cardinality(closedBy[c]) <= 1
    <2>1. closedBy[c] \in AtMostOne(CaseRequests)
      BY DEF TypeInv
    <2>2. CASE closedBy[c] = {}
      BY <2>2, FS_EmptySet
    <2>3. CASE \E q \in CaseRequests : closedBy[c] = {q}
      <3>1. PICK q \in CaseRequests : closedBy[c] = {q}
        BY <2>3
      <3>2. Cardinality({q}) = 1
        BY FS_Singleton
      <3>3. QED
        BY <3>1, <3>2
    <2>4. QED
      BY <2>1, <2>2, <2>3 DEF AtMostOne
  <1>3. QED
    BY <1>1, <1>2 DEF TypeInv, TypeOK

\* The initial state is well typed.
LEMMA InitTypeInv == Init => TypeInv
  BY DEF Init, TypeInv, AtMostOne, StoredStatuses

\* What a PATCH has loaded, and what its UPDATE would make of the status.
LEMMA LoadedPatch ==
    ASSUME TypeInv, NEW q \in CaseRequests, NEW p \in patch[q]
    PROVE  /\ p \in Patches
           /\ patch[q] = {p}
           /\ p.case \in Cases
           /\ p.wanted \in RawStatuses
  BY DEF TypeInv, AtMostOne, Patches

\* Every step of a request keeps the types.
LEMMA RequestTypeInv ==
    ASSUME TypeInv, NEW q \in CaseRequests, CaseRequest(q)
    PROVE  TypeInv'
  <1>1. ASSUME NEW c \in Cases, CreateCase(q, c)
        PROVE  TypeInv'
    BY <1>1 DEF CreateCase, Commit, Advance, TypeInv, StoredStatuses
  <1>2. ASSUME NEW c \in Cases, ViewCase(q, c)
        PROVE  TypeInv'
    BY <1>2 DEF ViewCase, Commit, Advance, TypeInv
  <1>3. ASSUME NEW c \in Cases, NEW raw \in WantedStatuses, LoadCase(q, c, raw)
        PROVE  TypeInv'
    <2>1. [case |-> c, read |-> status[c], wanted |-> raw] \in Patches
      BY <1>3, CaseRecordsAssumption DEF LoadCase, TypeInv, Patches
    <2>2. patch' \in [CaseRequests -> AtMostOne(Patches)]
      BY <1>3, <2>1 DEF LoadCase, TypeInv, AtMostOne
    <2>3. QED
      BY <1>3, <2>2 DEF LoadCase, Advance, TypeInv
  <1>4. CASE WriteCase(q)
    <2>1. PICK p \in patch[q] : WriteCase(q)!2!(p)
      BY <1>4 DEF WriteCase
    <2>2. p.case \in Cases
      BY <2>1, LoadedPatch
    <2>3. closedBy' \in [Cases -> AtMostOne(CaseRequests)]
      BY <2>1 DEF TypeInv, AtMostOne
    <2>4. patch' \in [CaseRequests -> AtMostOne(Patches)]
      BY <2>1 DEF TypeInv, AtMostOne
    <2>5. QED
      BY <1>4, <2>1, <2>2, <2>3, <2>4 DEF WriteCase, Commit, Advance, TypeInv
  <1>5. CASE TransactionFails(q)
    BY <1>5 DEF TransactionFails, Advance, TypeInv
  <1>6. QED
    BY <1>1, <1>2, <1>3, <1>4, <1>5 DEF CaseRequest

\* Every step keeps the types.
LEMMA NextTypeInv == TypeInv /\ [Next]_vars => TypeInv'
  <1> SUFFICES ASSUME TypeInv, [Next]_vars PROVE TypeInv'
    OBVIOUS
  <1>1. CASE \E q \in CaseRequests : CaseRequest(q)
    BY <1>1, RequestTypeInv
  <1>2. CASE \E c \in Cases : UpsertCase(c)
    BY <1>2 DEF UpsertCase, TypeInv, StoredStatuses
  <1>3. CASE Crash
    BY <1>3 DEF Crash, TypeInv, AtMostOne
  <1>4. CASE UNCHANGED vars
    BY <1>4 DEF vars, TypeInv
  <1>5. QED
    BY <1>1, <1>2, <1>3, <1>4 DEF Next

\* The types of the case records hold in every reachable state.
THEOREM TypeCorrect == Spec => []TypeOK
  BY InitTypeInv, NextTypeInv, TypeInvImpliesTypeOK, PTL DEF Spec

(***************************************************************************)
(* Who closes a case, and along which way a status moves.  Both need to    *)
(* know what a PATCH that is about to write has passed, and which of the   *)
(* stored statuses can occur at all: the aliases lead only to the two that *)
(* the service and the table both know.                                    *)
(***************************************************************************)

CasesInv ==
    /\ TypeInv
    /\ \A c \in Cases : status[c] \in {"absent", "open", "closed"}
    /\ \A q \in CaseRequests : step[q] = "loaded" =>
          \A p \in patch[q] : status[p.case] # "absent" /\ ~Forbidden(q, p.wanted)
    /\ ClosedByDecision

\* At first no case is closed and no request has read one.
LEMMA InitCasesInv == Init => CasesInv
  <1> SUFFICES ASSUME Init PROVE CasesInv
    OBVIOUS
  <1>1. TypeInv
    BY InitTypeInv
  <1>2. QED
    BY <1>1 DEF Init, CasesInv, ClosedByDecision

\* The statuses that an UPDATE can write.
LEMMA WrittenStatus ==
    ASSUME CasesInv, NEW q \in CaseRequests, step[q] = "loaded", NEW p \in patch[q],
           StatusAfter(p) \in StoredStatuses
    PROVE  /\ StatusAfter(p) \in {"open", "closed"}
           /\ p.wanted = "closed" => q \notin Analysts
           /\ StatusAfter(p) = "closed" => p.wanted = "closed" \/ status[p.case] = "closed"
  <1>1. p.case \in Cases /\ p.wanted \in RawStatuses
    BY LoadedPatch DEF CasesInv
  <1>2. status[p.case] \in {"open", "closed"}
    BY <1>1 DEF CasesInv
  <1>3. p.wanted = "closed" => q \notin Analysts
    BY DEF CasesInv, Forbidden, Unnamed
  <1>4. CASE p.wanted = "unchanged"
    BY <1>2, <1>3, <1>4 DEF StatusAfter
  <1>5. CASE p.wanted # "unchanged"
    BY <1>1, <1>3, <1>5 DEF StatusAfter, Alias, RawStatuses, StoredStatuses
  <1>6. QED
    BY <1>4, <1>5

\* The UPDATE of one PATCH keeps CasesInv.
LEMMA WriteCasesInv ==
    ASSUME CasesInv, TypeInv', NEW q \in CaseRequests, WriteCase(q)
    PROVE  CasesInv'
  <1>1. PICK p \in patch[q] : WriteCase(q)!2!(p)
    BY DEF WriteCase
  <1>2. p.case \in Cases /\ step[q] = "loaded"
    BY LoadedPatch DEF CasesInv, WriteCase
  <1>3. CASE StatusAfter(p) \notin StoredStatuses
    <2>1. UNCHANGED <<patch, status, closedBy, trail>> /\ step' = [step EXCEPT ![q] = "failed"]
      BY <1>1, <1>3 DEF Advance
    <2>2. QED
      BY <2>1 DEF CasesInv, TypeInv, ClosedByDecision, Forbidden
  <1>4. CASE StatusAfter(p) \in StoredStatuses
    <2>1. /\ StatusAfter(p) \in {"open", "closed"}
          /\ p.wanted = "closed" => q \notin Analysts
          /\ StatusAfter(p) = "closed" => p.wanted = "closed" \/ status[p.case] = "closed"
      BY <1>2, <1>4, WrittenStatus
    <2>2. /\ \E label \in {"ended", "failed"} : step' = [step EXCEPT ![q] = label]
          /\ patch' = [patch EXCEPT ![q] = {}]
          /\ status' = [status EXCEPT ![p.case] = StatusAfter(p)]
          /\ closedBy' = IF p.wanted = "closed"
                         THEN [closedBy EXCEPT ![p.case] = {q}]
                         ELSE closedBy
          /\ trail' = trail \cup {<<"CASE_UPDATED", q>>}
      BY <1>1, <1>4 DEF Commit, Advance
    <2>3. \A c \in Cases : status'[c] \in {"absent", "open", "closed"}
      BY <1>2, <2>1, <2>2 DEF CasesInv, TypeInv
    <2>4. ASSUME NEW r \in CaseRequests, step'[r] = "loaded", NEW p2 \in patch'[r]
          PROVE  status'[p2.case] # "absent" /\ ~Forbidden(r, p2.wanted)
      <3>1. r # q /\ step[r] = "loaded" /\ p2 \in patch[r]
        BY <2>2, <2>4 DEF CasesInv, TypeInv
      <3>2. p2.case \in Cases
        BY <3>1, LoadedPatch DEF CasesInv
      <3>3. QED
        BY <1>2, <2>1, <2>2, <3>1, <3>2 DEF CasesInv, TypeInv
    <2>5. ASSUME NEW c \in Cases, status'[c] = "closed"
          PROVE  \E r \in closedBy'[c] : r \notin Analysts /\ <<"CASE_UPDATED", r>> \in trail'
      <3>1. CASE c = p.case /\ p.wanted = "closed"
        <4>1. closedBy'[c] = {q}
          BY <1>2, <2>2, <3>1 DEF CasesInv, TypeInv
        <4>2. QED
          BY <2>1, <2>2, <3>1, <4>1
      <3>2. CASE ~(c = p.case /\ p.wanted = "closed")
        <4>1. status[c] = "closed" /\ closedBy'[c] = closedBy[c]
          BY <1>2, <2>1, <2>2, <2>5, <3>2 DEF CasesInv, TypeInv
        <4>2. QED
          BY <2>2, <4>1 DEF CasesInv, ClosedByDecision
      <3>3. QED
        BY <3>1, <3>2
    <2>6. QED
      BY <2>3, <2>4, <2>5 DEF CasesInv, ClosedByDecision, Forbidden
  <1>5. QED
    BY <1>3, <1>4

\* Every step keeps the invariant.
LEMMA NextCasesInv == CasesInv /\ [Next]_vars => CasesInv'
  <1> SUFFICES ASSUME CasesInv, [Next]_vars PROVE CasesInv'
    OBVIOUS
  <1>1. TypeInv'
    BY NextTypeInv DEF CasesInv
  <1>2. ASSUME NEW q \in CaseRequests, NEW c \in Cases, CreateCase(q, c)
        PROVE  CasesInv'
    <2>1. \A r \in CaseRequests : step'[r] = "loaded" => step[r] = "loaded"
      BY <1>2 DEF CreateCase, Commit, Advance, CasesInv, TypeInv
    <2>2. \A r \in CaseRequests : \A p \in patch[r] : p.case \in Cases
      BY LoadedPatch DEF CasesInv
    <2>3. /\ UNCHANGED <<patch, closedBy>>
          /\ \A d \in Cases : status'[d] = status[d] \/ status'[d] = "open"
          /\ trail \subseteq trail'
      BY <1>2 DEF CreateCase, CasesInv, TypeInv
    <2>4. \A r \in CaseRequests : step'[r] = "loaded" =>
              \A p \in patch'[r] : status'[p.case] # "absent" /\ ~Forbidden(r, p.wanted)
      BY <2>1, <2>2, <2>3 DEF CasesInv
    <2>5. ClosedByDecision'
      BY <2>3 DEF CasesInv, ClosedByDecision
    <2>6. \A d \in Cases : status'[d] \in {"absent", "open", "closed"}
      BY <2>3 DEF CasesInv
    <2>7. QED
      BY <1>1, <2>4, <2>5, <2>6 DEF CasesInv, Forbidden
  <1>3. ASSUME NEW q \in CaseRequests, NEW c \in Cases, ViewCase(q, c)
        PROVE  CasesInv'
    BY <1>1, <1>3 DEF ViewCase, Commit, Advance, CasesInv, TypeInv, ClosedByDecision, Forbidden
  <1>4. ASSUME NEW q \in CaseRequests, NEW c \in Cases, NEW raw \in WantedStatuses,
               LoadCase(q, c, raw)
        PROVE  CasesInv'
    <2>1. UNCHANGED <<status, closedBy, trail>>
      BY <1>4 DEF LoadCase
    <2>2. ASSUME NEW r \in CaseRequests, step'[r] = "loaded", NEW p \in patch'[r]
          PROVE  status[p.case] # "absent" /\ ~Forbidden(r, p.wanted)
      <3>1. CASE r # q
        BY <1>4, <2>2, <3>1 DEF LoadCase, Advance, CasesInv, TypeInv
      <3>2. CASE r = q
        <4>1. p = [case |-> c, read |-> status[c], wanted |-> raw] /\ ~Forbidden(q, raw)
          BY <1>4, <2>2, <3>2 DEF LoadCase, Advance, CasesInv, TypeInv
        <4>2. QED
          BY <1>4, <3>2, <4>1 DEF LoadCase
      <3>3. QED
        BY <3>1, <3>2
    <2>3. QED
      BY <1>1, <2>1, <2>2 DEF CasesInv, ClosedByDecision, Forbidden
  <1>5. ASSUME NEW q \in CaseRequests, WriteCase(q)
        PROVE  CasesInv'
    BY <1>1, <1>5, WriteCasesInv
  <1>6. ASSUME NEW q \in CaseRequests, TransactionFails(q)
        PROVE  CasesInv'
    BY <1>1, <1>6 DEF TransactionFails, Advance, CasesInv, TypeInv, ClosedByDecision, Forbidden
  <1>7. ASSUME NEW c \in Cases, UpsertCase(c)
        PROVE  CasesInv'
    <2>1. \A r \in CaseRequests : \A p \in patch[r] : p.case \in Cases
      BY LoadedPatch DEF CasesInv
    <2>2. /\ UNCHANGED <<step, patch, closedBy, trail>>
          /\ \A d \in Cases : status'[d] \in {status[d], "open"}
          /\ \A d \in Cases : status[d] # "absent" => status'[d] # "absent"
      BY <1>7 DEF UpsertCase, CasesInv, TypeInv
    <2>3. \A r \in CaseRequests : step'[r] = "loaded" =>
              \A p \in patch'[r] : status'[p.case] # "absent" /\ ~Forbidden(r, p.wanted)
      BY <2>1, <2>2 DEF CasesInv
    <2>4. \A d \in Cases : status'[d] \in {"absent", "open", "closed"}
      BY <2>2 DEF CasesInv
    <2>5. ClosedByDecision'
      BY <2>2 DEF CasesInv, ClosedByDecision
    <2>6. QED
      BY <1>1, <2>3, <2>4, <2>5 DEF CasesInv, Forbidden
  <1>8. CASE Crash
    <2>1. \A r \in CaseRequests : step'[r] # "loaded"
      BY <1>8 DEF Crash, CasesInv, TypeInv
    <2>2. QED
      BY <1>1, <1>8, <2>1 DEF Crash, CasesInv, ClosedByDecision
  <1>9. CASE UNCHANGED vars
    BY <1>1, <1>9 DEF vars, CasesInv, ClosedByDecision, Forbidden
  <1>10. QED
    BY <1>2, <1>3, <1>4, <1>5, <1>6, <1>7, <1>8, <1>9 DEF Next, CaseRequest

\* A case is closed only by somebody entitled to it and on record, whatever other
\* PATCHes and analyses write in between.
THEOREM OnlyDecisionsClose == Spec => []ClosedByDecision
  <1>1. CasesInv => ClosedByDecision
    BY DEF CasesInv
  <1>2. QED
    BY <1>1, InitCasesInv, NextCasesInv, PTL DEF Spec

\* One step of a request or an analysis moves statuses along allowed_transitions.
LEMMA NextWorkflow == CasesInv /\ [Next]_vars => [Workflow]_vars
  <1> SUFFICES ASSUME CasesInv, Next, NEW c \in Cases
               PROVE  \/ status'[c] = status[c]
                      \/ status[c] = "absent" /\ status'[c] = "open"
                      \/ status'[c] \in Allowed(status[c])
                      \/ c \in analysed' \ analysed
    BY DEF Workflow
  <1>1. ASSUME NEW q \in CaseRequests, NEW d \in Cases, CreateCase(q, d)
        PROVE  status'[c] = status[c] \/ (status[c] = "absent" /\ status'[c] = "open")
    BY <1>1 DEF CreateCase, CasesInv, TypeInv
  <1>2. ASSUME NEW q \in CaseRequests, WriteCase(q)
        PROVE  status'[c] = status[c] \/ status'[c] \in Allowed(status[c])
    <2>1. PICK p \in patch[q] : WriteCase(q)!2!(p)
      BY <1>2 DEF WriteCase
    <2>2. p.case \in Cases /\ step[q] = "loaded"
      BY <1>2, LoadedPatch DEF CasesInv, WriteCase
    <2>3. CASE StatusAfter(p) \in StoredStatuses /\ c = p.case
      <3>1. status'[c] \in {"open", "closed"}
        BY <2>1, <2>2, <2>3, WrittenStatus DEF CasesInv, TypeInv
      <3>2. status[c] \in {"open", "closed"}
        BY <2>2, <2>3 DEF CasesInv
      <3>3. "closed" \in Allowed("open") /\ "open" \in Allowed("closed")
        BY DEF Allowed
      <3>4. QED
        BY <3>1, <3>2, <3>3
    <2>4. CASE ~(StatusAfter(p) \in StoredStatuses /\ c = p.case)
      BY <2>1, <2>2, <2>4 DEF CasesInv, TypeInv
    <2>5. QED
      BY <2>3, <2>4
  <1>3. ASSUME NEW d \in Cases, UpsertCase(d)
        PROVE  status'[c] = status[c] \/ c \in analysed' \ analysed
    BY <1>3 DEF UpsertCase, CasesInv, TypeInv
  <1>4. QED
    BY <1>1, <1>2, <1>3 DEF Next, CaseRequest, ViewCase, LoadCase, TransactionFails, Crash

\* No interleaving of PATCHes takes a case off the table of transitions, although none
\* of them checks the status that it writes over.
THEOREM WorkflowIsKept == Spec => WorkflowKept
  BY InitCasesInv, NextCasesInv, NextWorkflow, PTL DEF Spec, WorkflowKept

=============================================================================
