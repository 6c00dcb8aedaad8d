----------------------------- MODULE CaseRecords -----------------------------
(***************************************************************************)
(* The case API: creating, viewing and patching investigation cases.       *)
(*                                                                         *)
(* A PATCH reads the case, checks the wanted status against what it read,  *)
(* and writes in a later statement of a READ COMMITTED transaction, so the *)
(* case may change in between.  The columns of a case other than its       *)
(* status and closed_at are left out.  Requests have passed the gate on    *)
(* case access; the roles that the service itself looks at are modelled.   *)
(***************************************************************************)
EXTENDS Naturals, FiniteSets

CONSTANTS
    Cases,
    CaseRequests,   \* requests to the case API, each carries out one operation
    Analysts,       \* those of them that come from a user with role analyst
    WantedStatuses, \* the statuses that a PATCH may ask for
    Failing         \* what may go wrong, see FailureKinds

\* What a client may write into a PATCH: the status names of the service and of its
\* documentation, or none of them, see Unnamed.
RawStatuses == {"open", "active", "investigating", "under_review", "review",
                "closed", "archived", "unchanged", "null", "empty"}

\* Only other fields; status null; no field at all.
Unnamed == {"unchanged", "null", "empty"}

FailureKinds ==
    { "database",   \* a transaction fails and is rolled back
      "ack",        \* it commits, its acknowledgement is lost
      "crash" }     \* the API process stops

ASSUME CaseRecordsAssumption ==
    /\ Analysts \subseteq CaseRequests
    /\ WantedStatuses \subseteq RawStatuses
    /\ Failing \subseteq FailureKinds

VARIABLES
    step,       \* where each request is; "failed" is the answer 500
    patch,      \* what a PATCH in progress, or failed, is about: at most one
    status,     \* table investigation_cases: status, "absent" where there is no row
    closedBy,   \*   closed_at, named after the PATCH that set it: at most one
    trail,      \* table audit_events, for cases: <<action, request>>
    analysed    \* the cases for which an analysis has finished its M3 transaction

vars == <<step, patch, status, closedBy, trail, analysed>>

\* ck_cases__status
StoredStatuses == {"open", "investigating", "review", "closed"}

\* Mutant of Alias: the names of the documentation are stored as they are.
AliasNone(raw) == raw

\* status_alias_map
Alias(raw) ==
    CASE raw = "investigating" -> "active"
      [] raw = "review"        -> "under_review"
      [] OTHER                 -> raw

\* allowed_transitions
Allowed(from) ==
    CASE from = "open"                          -> {"active", "investigating", "closed"}
      [] from \in {"active", "investigating"}   -> {"under_review", "review", "closed"}
      [] from \in {"under_review", "review"}    -> {"closed", "active", "investigating"}
      [] from = "closed"                        -> {"open", "archived"}
      [] from = "archived"                      -> {"open", "closed"}
      [] OTHER                                  -> {}

TypeOK ==
    /\ step \in [CaseRequests -> {"idle", "loaded", "ended", "failed"}]
    /\ \A q \in CaseRequests : patch[q] = {} \/
         \E c \in Cases, s \in StoredStatuses, w \in RawStatuses :
            patch[q] = {[case |-> c, read |-> s, wanted |-> w]}
    /\ status \in [Cases -> StoredStatuses \cup {"absent"}]
    /\ \A c \in Cases : closedBy[c] \subseteq CaseRequests /\ Cardinality(closedBy[c]) <= 1
    /\ trail \subseteq {"CASE_CREATED", "CASE_VIEWED", "CASE_UPDATED"} \X CaseRequests
    /\ analysed \subseteq Cases

\* The service starts on a database that may hold cases already.
Init ==
    /\ step = [q \in CaseRequests |-> "idle"]
    /\ patch = [q \in CaseRequests |-> {}]
    /\ status \in [Cases -> {"absent", "open"}]
    /\ closedBy = [c \in Cases |-> {}]
    /\ trail = {}
    /\ analysed = {}

Advance(q, label) == step' = [step EXCEPT ![q] = label]

\* The commit that ends a request; it may take effect and raise all the same.
Commit(q) ==
    \/ Advance(q, "ended")
    \/ "ack" \in Failing /\ Advance(q, "failed")

-----------------------------------------------------------------------------
(***************************************************************************)
(* The operations.                                                         *)
(***************************************************************************)

\* create_case: the row, the creator's access and the audit event in one commit.
CreateCase(q, c) ==
    /\ step[q] = "idle"
    /\ status[c] = "absent"
    /\ IF q \in Analysts
       THEN Advance(q, "ended") /\ UNCHANGED <<status, trail>>
       ELSE /\ Commit(q)
            /\ status' = [status EXCEPT ![c] = "open"]
            /\ trail' = trail \cup {<<"CASE_CREATED", q>>}
    /\ UNCHANGED <<patch, closedBy, analysed>>

\* get_case
ViewCase(q, c) ==
    /\ step[q] = "idle"
    /\ status[c] # "absent"
    /\ Commit(q)
    /\ trail' = trail \cup {<<"CASE_VIEWED", q>>}
    /\ UNCHANGED <<patch, status, closedBy, analysed>>

\* Mutant of Forbidden: only archiving is kept from analysts.
ForbiddenToArchive(q, raw) == raw = "archived" /\ q \in Analysts

Forbidden(q, raw) == raw \notin Unnamed /\ q \in Analysts

Conflicting(from, raw) ==
    raw \notin Unnamed /\ Alias(raw) # from /\ Alias(raw) \notin Allowed(from)

\* Mutant of LoadCase: a case that does not exist is patched all the same.
LoadCaseUnchecked(q, c, raw) ==
    /\ step[q] = "idle"
    /\ ~Forbidden(q, raw) /\ ~Conflicting(status[c], raw)
    /\ Advance(q, "loaded")
    /\ patch' = [patch EXCEPT ![q] = {[case |-> c, read |-> status[c], wanted |-> raw]}]
    /\ UNCHANGED <<status, closedBy, trail, analysed>>

\* update_case up to the UPDATE: the case is read and the wanted status checked; an
\* empty PATCH is answered at once.
LoadCase(q, c, raw) ==
    /\ step[q] = "idle"
    /\ status[c] # "absent"
    /\ IF raw = "empty" \/ Forbidden(q, raw) \/ Conflicting(status[c], raw)
       THEN Advance(q, "ended") /\ UNCHANGED patch
       ELSE /\ Advance(q, "loaded")
            /\ patch' = [patch EXCEPT ![q] =
                            {[case |-> c, read |-> status[c], wanted |-> raw]}]
    /\ UNCHANGED <<status, closedBy, trail, analysed>>

StatusAfter(p) == IF p.wanted = "unchanged" THEN status[p.case] ELSE Alias(p.wanted)

\* The UPDATE, its audit event and the commit; the table refuses null, and a status that
\* its check constraint does not list.
WriteCase(q) ==
    /\ step[q] = "loaded"
    /\ \E p \in patch[q] :
          IF StatusAfter(p) \in StoredStatuses
          THEN /\ Commit(q)
               /\ patch' = [patch EXCEPT ![q] = {}]
               /\ status' = [status EXCEPT ![p.case] = StatusAfter(p)]
               /\ closedBy' = IF p.wanted = "closed"
                              THEN [closedBy EXCEPT ![p.case] = {q}]
                              ELSE closedBy
               /\ trail' = trail \cup {<<"CASE_UPDATED", q>>}
          ELSE Advance(q, "failed") /\ UNCHANGED <<patch, status, closedBy, trail>>
    /\ UNCHANGED analysed

\* The transaction of a request fails before its commit.
TransactionFails(q) ==
    /\ "database" \in Failing
    /\ step[q] \in {"idle", "loaded"}
    /\ Advance(q, "failed")
    /\ UNCHANGED <<patch, status, closedBy, trail, analysed>>

\* The API process stops, and with it the requests that it works on.
Crash ==
    /\ "crash" \in Failing
    /\ patch' = [q \in CaseRequests |-> IF step[q] = "loaded" THEN {} ELSE patch[q]]
    /\ step' = [q \in CaseRequests |-> IF step[q] = "loaded" THEN "ended" ELSE step[q]]
    /\ UNCHANGED <<status, closedBy, trail, analysed>>

CaseRequest(q) ==
    \/ \E c \in Cases :
          \/ CreateCase(q, c) \/ ViewCase(q, c)
          \/ \E raw \in WantedStatuses : LoadCase(q, c, raw)
    \/ WriteCase(q) \/ TransactionFails(q)

\* persist_investigation_case: a finished analysis writes its case document over the
\* row of the case, whose status is always "open".  Each case is analysed once.
UpsertCase(c) ==
    /\ status[c] # "absent" /\ c \notin analysed
    /\ status' = [status EXCEPT ![c] = "open"]
    /\ analysed' = analysed \cup {c}
    /\ UNCHANGED <<step, patch, closedBy, trail>>

Next ==
    \/ \E q \in CaseRequests : CaseRequest(q)
    \/ \E c \in Cases : UpsertCase(c)
    \/ Crash

Spec == Init /\ [][Next]_vars

-----------------------------------------------------------------------------
(***************************************************************************)
(* Properties.                                                             *)
(***************************************************************************)

\* A case is closed only by somebody who may close it, with closed_at set and the
\* change in the audit trail, whatever analyses and other PATCHes come in between.
ClosedByDecision ==
    \A c \in Cases : status[c] = "closed" =>
        \E q \in closedBy[c] : q \notin Analysts /\ <<"CASE_UPDATED", q>> \in trail

\* Requests move a case along allowed_transitions, although each checks the status
\* that it has read and not the one that it writes over.  A finished analysis is no
\* request: it sets the case back to open.
Workflow ==
    \A c \in Cases :
        \/ status'[c] = status[c]
        \/ status[c] = "absent" /\ status'[c] = "open"
        \/ status'[c] \in Allowed(status[c])
        \/ c \in analysed' \ analysed

WorkflowKept == [][Workflow]_vars

=============================================================================
