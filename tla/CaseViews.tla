----------------------------- MODULE CaseViews -----------------------------
(***************************************************************************)
(* Reading a case while it is analysed, and while users come and go.       *)
(*                                                                         *)
(* A view is answered from several statements.  Each of them is an await   *)
(* and, under READ COMMITTED, has a snapshot of its own: analyses may      *)
(* publish, and maintenance may withdraw what a gate has just found,       *)
(* between any two of them.  Rows are abstracted to their keys; what       *)
(* analyses publish is what GraphPublication allows, which CaseGraph       *)
(* implements.                                                             *)
(***************************************************************************)
EXTENDS AccessControl, Naturals, Sequences

CONSTANTS
    Requests,
    Views,          \* the routes that requests go to
    Analyses,
    Result,         \* what each analysis finds, for which case, the entity its event is
                    \* about, and which kinds of its rows name its finding
    Limit           \* the page size of every list

\* The statements of each route, in the order of the code.  A list reads a page and
\* then the total; the list of cases counts first.  The links of a behaviour or of
\* mappings are the findings they rest on; events, mappings and edges are those of a
\* behaviour, endpoints the entities they name.
ListEntities == <<"gate", "entities", "total">>
GetGraph == <<"gate", "entities", "relationships">>
GetAttackChain == <<"gate", "chain">>
GetBehavior == <<"gate", "behavior", "events", "links", "mappings", "edges", "endpoints">>
GetRow == <<"row", "gate">>
GenerateReport == <<"gate", "case", "entities", "relationships", "timeline", "behaviors">>
BuildContext ==
    <<"gate", "entities", "relationships", "timeline", "mitre", "links", "chain", "findings", "case">>
ListCases == <<"count", "cases">>

Plan ==
    [entities |-> ListEntities, graph |-> GetGraph, chain |-> GetAttackChain,
     behavior |-> GetBehavior, row |-> GetRow, report |-> GenerateReport,
     context |-> BuildContext, cases |-> ListCases]

\* The routes that hand the HTTP request to the gate, which then records a refusal.
Recording == {"context"}

ASSUME ViewsAssumption ==
    /\ Views \subseteq DOMAIN Plan
    /\ Limit \in Nat
    /\ \A a \in Analyses :
          /\ Result[a].case \in Cases
          /\ \A e \in Result[a].edges : {e[1], e[2]} \subseteq Result[a].entities
          /\ Result[a].source \subseteq Result[a].entities
          /\ Result[a].linked \subseteq {"event", "relationship", "mitre"}

VARIABLES
    table,          \* the rows of the investigation schema: key -> case
    chains,         \* the techniques of each case's attack chain
    published,      \* the analyses that have committed
    stage,          \* where each request is
    position,       \* the statement of its plan that is next
    asked,          \* user, route, case and key of a request
    verified,       \* verified_case_id: the case whose gate it has passed, at most one
    seen,           \* the answers of the statements so far: statement -> rows
    asOf,           \* history: what was published when a statement was answered
    wasActive,      \* history: the account was open at some moment of the request
    couldRead       \* history: the cases that its user could read at some moment of it

dataVars == <<table, chains, published>>
requestVars == <<stage, position, asked, verified, seen, asOf>>
history == <<wasActive, couldRead>>
vars == <<accessVars, dataVars, requestVars, history>>

Ended == {"answered", "refused", "missing", "unauthenticated"}

\* The ids a row or a behaviour is asked by.
Keys(view) ==
    IF view = "behavior" THEN {<<"behavior", a>> : a \in Analyses}
    ELSE UNION {{<<"entity", e>> : e \in Result[a].entities}
                    \cup {<<"relationship", a, e[1], e[2]>> : e \in Result[a].edges} : a \in Analyses}

\* Who asks, which route, and what for: a case, a row by its key, or both.
Questions ==
    UNION {[user : Users, view : {view},
            case : IF view \in {"row", "cases"} THEN {{}} ELSE {{c} : c \in Cases},
            key : IF view \in {"row", "behavior"} THEN {{k} : k \in Keys(view)} ELSE {{}}] :
           view \in Views}

TypeOK ==
    /\ AccessTypeOK
    /\ chains \in [Cases -> SUBSET UNION {Result[a].techniques : a \in Analyses}]
    /\ published \subseteq Analyses
    /\ \A key \in DOMAIN table : table[key] \in Cases
    /\ \A q \in Requests :
          /\ stage[q] \in {"idle", "open"} \cup Ended
          /\ asked[q] \subseteq Questions /\ Cardinality(asked[q]) <= 1
          /\ verified[q] \subseteq Cases /\ Cardinality(verified[q]) <= 1
          /\ couldRead[q] \subseteq Cases /\ wasActive[q] \in BOOLEAN
          /\ DOMAIN seen[q] = DOMAIN asOf[q]

Init ==
    /\ AccessInit
    /\ table = [key \in {} |-> {}]
    /\ chains = [c \in Cases |-> {}]
    /\ published = {}
    /\ stage = [q \in Requests |-> "idle"]
    /\ position = [q \in Requests |-> 1]
    /\ asked = [q \in Requests |-> {}]
    /\ verified = [q \in Requests |-> {}]
    /\ seen = [q \in Requests |-> [part \in {} |-> {}]]
    /\ asOf = [q \in Requests |-> [part \in {} |-> {}]]
    /\ wasActive = [q \in Requests |-> FALSE]
    /\ couldRead = [q \in Requests |-> {}]

-----------------------------------------------------------------------------
(***************************************************************************)
(* What is read.                                                           *)
(***************************************************************************)

Publication == INSTANCE GraphPublication WITH table <- table, chains <- chains

MappingsOf(c, techniques) == {<<"mitre", c, t>> : t \in techniques}

RowsBy(a) ==
    {<<"entity", e>> : e \in Result[a].entities}
        \cup {<<"relationship", a, e[1], e[2]>> : e \in Result[a].edges}
        \cup {<<"event", a>>, <<"behavior", a>>}
        \cup MappingsOf(Result[a].case, Result[a].techniques)

\* An analysis commits; rows that are there already stay with the case they belong to.
Publish(a) ==
    LET c == Result[a].case
    IN  /\ c \in cases /\ a \notin published
        /\ published' = published \cup {a}
        /\ table' = [key \in DOMAIN table \cup RowsBy(a) |->
                        IF key \in DOMAIN table THEN table[key] ELSE c]
        /\ chains' = [chains EXCEPT ![c] = Result[a].techniques]
        /\ Publication!Publish(c)
        /\ UNCHANGED <<accessVars, requestVars, history>>

RowsOf(kind, c) == {key \in DOMAIN table : key[1] = kind /\ table[key] = c}

\* A first page: all rows where they fit, and else any of them, since the rows of one
\* transaction are equally old.
Page(rows) ==
    IF Cardinality(rows) <= Limit THEN {rows}
    ELSE {P \in SUBSET rows : Cardinality(P) = Limit}

Ends(rows) == {<<"entity", r[3]>> : r \in rows} \cup {<<"entity", r[4]>> : r \in rows}

\* The entities that events are about.
Sources(events) == {<<"entity", e>> : e \in UNION {Result[k[2]].source : k \in events}}

\* The rows of an analysis that name its finding, by a link table or a column.
Linked(a) == {<<"behavior", a>>} \cup {key \in RowsBy(a) : key[1] \in Result[a].linked}

\* The findings that rows are linked to, and the rows of a kind linked to findings.
FindingsOf(rows) == {<<"finding", a>> : a \in {b \in published : Linked(b) \cap rows # {}}}

LinkedTo(findings, kind) ==
    {key \in DOMAIN table : key[1] = kind /\ \E f \in findings : key \in Linked(f[2])}

\* The rows that a links statement goes by.
LinkSources(q) == UNION {seen[q][part] : part \in DOMAIN seen[q] \cap {"behavior", "mitre"}}

\* Mutant of Endpoints: what was named is looked up among the entities of the case.
EndpointsOfCase(named, c) == {named \cap RowsOf("entity", c)}

\* The entities of a behaviour: those its events and edges name, whichever case they
\* belong to, or any of the case where none is named.
Endpoints(named, c) == IF named # {} THEN {named \cap DOMAIN table} ELSE Page(RowsOf("entity", c))

\* What a statement on the verified case may answer.  Findings are joined by the
\* acquisitions of the case.  They are committed ahead of the rest by a transaction of
\* their own, so that those of an analysis that has not published may be there too.
AnswersOf(part, q, c) ==
    CASE part \in {"entities", "relationships", "timeline", "behaviors", "mitre"} ->
             Page(RowsOf([entities |-> "entity", relationships |-> "relationship",
                          timeline |-> "event", behaviors |-> "behavior",
                          mitre |-> "mitre"][part], c))
      [] part = "total" -> {RowsOf("entity", c)}
      [] part = "chain" -> {MappingsOf(c, chains[c])}
      [] part = "findings" ->
             LET mine == {a \in Analyses : Result[a].case = c}
             IN  UNION {Page({<<"finding", a>> : a \in A}) :
                           A \in {B \in SUBSET mine : published \cap mine \subseteq B}}

\* What a statement on the behaviour of key b may answer; its mappings and edges are
\* those linked to its findings, and those of its case where there is no link.
AnswersOn(part, q, b) ==
    CASE part = "events" -> {LinkedTo({<<"finding", b[2]>>}, "event")}
      [] part = "mappings" ->
             LET linked == LinkedTo(seen[q].links, "mitre")
             IN  {IF linked # {} THEN linked ELSE RowsOf("mitre", table[b])}
      [] part = "edges" ->
             LET linked == LinkedTo(seen[q].links, "relationship")
             IN  IF linked # {} THEN {linked} ELSE Page(RowsOf("relationship", table[b]))
      [] part = "endpoints" -> Endpoints(Ends(seen[q].edges) \cup Sources(seen[q].events), table[b])

\* What a statement that does not go by the verified case may answer: the row of a key,
\* the case itself, or the cases of a user.
AnswersTo(part, question) ==
    CASE part \in {"row", "behavior"} -> {question.key \cap DOMAIN table}
      [] part = "case" -> {question.case \cap cases}
      [] part = "count" -> {Listed(question.user)}
      [] part = "cases" -> Page(Listed(question.user))

ByQuestion == {"row", "behavior", "case", "count", "cases"}
OnBehavior == {"events", "mappings", "edges", "endpoints"}

Answers(part, q, x) ==
    IF part \in ByQuestion THEN AnswersTo(part, x)
    ELSE IF part = "links" THEN {FindingsOf(LinkSources(q))}
    ELSE IF part \in OnBehavior THEN UNION {AnswersOn(part, q, b) : b \in seen[q].behavior}
    ELSE UNION {AnswersOf(part, q, c) : c \in verified[q]}

-----------------------------------------------------------------------------
(***************************************************************************)
(* The steps of a request.                                                 *)
(***************************************************************************)

Readable(u) == {c \in Cases : MayRead(u, c)}

\* get_current_user, before anything else.
Arrive(q, question) ==
    /\ stage[q] = "idle"
    /\ asked' = [asked EXCEPT ![q] = {question}]
    /\ wasActive' = [wasActive EXCEPT ![q] = question.user \in active]
    /\ couldRead' = [couldRead EXCEPT ![q] = Readable(question.user)]
    /\ stage' = [stage EXCEPT ![q] = IF KnownUser(question.user) THEN "open" ELSE "unauthenticated"]
    /\ UNCHANGED <<accessVars, dataVars, position, verified, seen, asOf>>

Advance(q) == position' = [position EXCEPT ![q] = @ + 1]

\* The statement that request q is about to make.
At(q, x, part) ==
    /\ stage[q] = "open" /\ x \in asked[q]
    /\ position[q] <= Len(Plan[x.view]) /\ Plan[x.view][position[q]] = part

\* The case whose gate a request has to pass: that of the row, where it asks for one.
GatedCase(q, x) == IF x.view = "row" THEN {table[key] : key \in seen[q].row} ELSE x.case

\* The gate.  A refusal is on the trail only where the gate is given the request: what
\* get_entity and get_relationship log is lost, since nothing commits it.
Gate(q) ==
    \E x \in asked[q] :
        /\ At(q, x, "gate")
        /\ \E c \in GatedCase(q, x) :
              IF MayRead(x.user, c)
              THEN /\ verified' = [verified EXCEPT ![q] = {c}]
                   /\ Advance(q)
                   /\ UNCHANGED <<stage, trail>>
              ELSE /\ stage' = [stage EXCEPT ![q] = "refused"]
                   /\ IF x.view \in Recording THEN Record("case_access_denied", x.user, c)
                      ELSE UNCHANGED trail
                   /\ UNCHANGED <<position, verified>>
        /\ UNCHANGED <<active, tokens, cases, grants, dataVars, asked, seen, asOf, history>>

\* A key without a row ends the request with 404, and so does a case in the report; the
\* context then names the case by a default.
Required(part, x) == part \in {"row", "behavior"} \/ (part = "case" /\ x.view = "report")

\* A statement is answered.
Read(q, part) ==
    \E x \in asked[q] :
        /\ At(q, x, part)
        /\ \E rows \in Answers(part, q, x) :
              /\ seen' = [seen EXCEPT ![q] = [p \in DOMAIN @ \cup {part} |->
                               IF p = part THEN rows ELSE @[p]]]
              /\ IF rows = {} /\ Required(part, x)
                 THEN stage' = [stage EXCEPT ![q] = "missing"] /\ UNCHANGED position
                 ELSE Advance(q) /\ UNCHANGED stage
        /\ asOf' = [asOf EXCEPT ![q] = [p \in DOMAIN @ \cup {part} |->
                         IF p = part THEN published ELSE @[p]]]
        /\ UNCHANGED <<accessVars, dataVars, asked, verified, history>>

\* A behaviour of another case, and a chain that no analysis has written yet.
FoundMissing(q, x) ==
    \/ x.view = "behavior" /\ \E key \in seen[q].behavior : table[key] \notin x.case
    \/ x.view = "chain" /\ \A a \in asOf[q].chain : Result[a].case \notin x.case

\* Everything is read; what is not there is answered 404 only now.
Answer(q) ==
    \E x \in asked[q] :
        /\ stage[q] = "open" /\ position[q] > Len(Plan[x.view])
        /\ stage' = [stage EXCEPT ![q] = IF FoundMissing(q, x) THEN "missing" ELSE "answered"]
        /\ UNCHANGED <<accessVars, dataVars, position, asked, verified, seen, asOf, history>>

\* Sessions, new cases and maintenance; the history keeps what was so for a moment.
Surroundings ==
    /\ AccessNext
    /\ wasActive' = [q \in Requests |->
          wasActive[q] \/ (stage[q] = "open" /\ \E x \in asked[q] : x.user \in active')]
    /\ couldRead' = [q \in Requests |->
          IF stage[q] = "open" THEN couldRead[q] \cup UNION {Readable(x.user)' : x \in asked[q]}
          ELSE couldRead[q]]
    /\ UNCHANGED <<dataVars, requestVars>>

Parts == (UNION {{Plan[v][i] : i \in 1..Len(Plan[v])} : v \in Views}) \ {"gate"}

Next ==
    \/ \E q \in Requests :
          \/ \E question \in Questions : Arrive(q, question)
          \/ Gate(q) \/ Answer(q)
          \/ \E part \in Parts : Read(q, part)
    \/ \E a \in Analyses : Publish(a)
    \/ Surroundings

Spec == Init /\ [][Next]_vars

-----------------------------------------------------------------------------
(***************************************************************************)
(* Properties.                                                             *)
(***************************************************************************)

\* The case of what an answer shows.
CaseShown(part, x) ==
    IF part \in {"case", "count", "cases"} THEN x
    ELSE IF part \in {"links", "findings"} THEN Result[x[2]].case
    ELSE table[x]

\* Whoever is answered had an open account, and the right to the case of every row
\* that is shown, at some moment of the request, however accounts and grants change
\* between the gate and the statements.  An entity of another case is shown only in a
\* behaviour, and only because an event or a relationship shown with it names it.  A
\* gate that is given the request records its refusal, and what is on the trail is a
\* refusal that took place.
ServedWereEntitled ==
    /\ \A q \in Requests : stage[q] = "answered" =>
          /\ wasActive[q]
          /\ \A part \in DOMAIN seen[q] : \A x \in seen[q][part] :
                \/ CaseShown(part, x) \in couldRead[q]
                \/ part = "endpoints" /\ x \in Ends(seen[q].edges) \cup Sources(seen[q].events)
    /\ \A q \in Requests : stage[q] = "refused" => \A x \in asked[q] :
          x.view \in Recording =>
              \A c \in x.case : <<"case_access_denied", x.user, c>> \in trail
    /\ \A u \in Users, c \in Cases : <<"case_access_denied", u, c>> \in trail =>
          \E q \in Requests : stage[q] = "refused" /\ \E x \in asked[q] : x.user = u /\ x.case = {c}

\* What the API documentation says of a case that is not assigned: whoever asks for it
\* is answered 403, and an audit event is logged.
RefusalsAudited ==
    \A q \in Requests : stage[q] = "refused" => \A x \in asked[q] :
        \A c \in GatedCase(q, x) : <<"case_access_denied", x.user, c>> \in trail

\* Two statements of a request, and nothing was published between them; the page of
\* entities was not full.
Undisturbed(q, part, later) ==
    asOf[q][part] = asOf[q][later] /\ Cardinality(seen[q][part]) < Limit

\* A behaviour is shown with every entity that its events and edges name, whatever
\* commits in the meantime.  In the views that read entities before relationships, mappings before
\* the chain, or a page before its total, what has no counterpart is explained: the
\* page was full, an analysis published in between, or the entity belongs elsewhere.
ViewsAreConsistent ==
    \A q \in Requests : \A x \in asked[q] : stage[q] = "answered" =>
        LET got == seen[q] IN
        /\ x.view = "behavior" => Ends(got.edges) \cup Sources(got.events) \subseteq got.endpoints
        /\ x.view \in {"graph", "report", "context"}
              /\ Undisturbed(q, "entities", "relationships") =>
              \A e \in Ends(got.relationships) \ got.entities : table[e] \notin x.case
        /\ x.view = "context" /\ Undisturbed(q, "mitre", "chain") => got.chain \subseteq got.mitre
        /\ x.view = "entities" /\ Undisturbed(q, "entities", "total") => got.total = got.entities

=============================================================================
