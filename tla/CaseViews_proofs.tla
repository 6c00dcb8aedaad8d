--------------------------- MODULE CaseViews_proofs ---------------------------
(***************************************************************************)
(* Proofs about CaseViews, for any users, roles, cases, grants, analyses   *)
(* and page size: who is served was entitled to what is shown, and what is *)
(* shown together belongs together.                                        *)
(***************************************************************************)
EXTENDS CaseViews, FiniteSetTheorems, TLAPS

(***************************************************************************)
(* The plans of the routes: where the gate stands in them, and which       *)
(* statements belong to which route.                                       *)
(***************************************************************************)

Ungated == {"row", "cases"}
ByUser == {"case", "count", "cases"}
ByKey == {"row", "behavior"}
OfCase == {"entities", "relationships", "timeline", "behaviors", "mitre", "total", "chain"}

PlanFacts(view, i) ==
    LET part == Plan[view][i] IN
    /\ part \in {"gate", "links", "findings"} \cup OnBehavior \cup ByUser \cup ByKey \cup OfCase
    /\ part = "gate" <=> i = (IF view = "row" THEN 2 ELSE 1) /\ view # "cases"
    /\ part = "row" <=> view = "row" /\ i = 1
    /\ part = "behavior" <=> view = "behavior" /\ i = 2
    /\ part = "case" => view \in {"report", "context"}
    /\ part \in {"count", "cases"} <=> view = "cases"
    /\ part \in OfCase \cup {"findings"} => view \notin Ungated \cup {"behavior"}
    /\ part \in OnBehavior => view = "behavior" /\ i > 2
    /\ part = "links" => view = "context" \/ (view = "behavior" /\ i > 2)

\* What every statement of every route is.
LEMMA Plans ==
    ASSUME NEW view \in Views
    PROVE  /\ Len(Plan[view]) \in Nat
           /\ view \notin Ungated => Len(Plan[view]) > 1
           /\ view = "row" => Len(Plan[view]) = 2
           /\ view = "behavior" => Len(Plan[view]) > 2
           /\ \A i \in 1..Len(Plan[view]) : PlanFacts(view, i)
  <1> USE DEF PlanFacts, ByUser, ByKey, OfCase, OnBehavior, Ungated
  <1>1. DOMAIN Plan = {"entities", "graph", "chain", "behavior", "row", "report", "context", "cases"}
    BY DEF Plan
  <1>2. view \in DOMAIN Plan
    BY ViewsAssumption
  <1>3. CASE view = "entities"
    BY <1>3 DEF Plan, ListEntities
  <1>4. CASE view = "graph"
    BY <1>4 DEF Plan, GetGraph
  <1>5. CASE view = "chain"
    BY <1>5 DEF Plan, GetAttackChain
  <1>6. CASE view = "behavior"
    BY <1>6 DEF Plan, GetBehavior
  <1>7. CASE view = "row"
    BY <1>7 DEF Plan, GetRow
  <1>8. CASE view = "report"
    BY <1>8 DEF Plan, GenerateReport
  <1>9. CASE view = "context"
    BY <1>9 DEF Plan, BuildContext
  <1>10. CASE view = "cases"
    BY <1>10 DEF Plan, ListCases
  <1>11. QED
    BY <1>1, <1>2, <1>3, <1>4, <1>5, <1>6, <1>7, <1>8, <1>9, <1>10

-----------------------------------------------------------------------------
(***************************************************************************)
(* The invariant.  What a request has been shown is of cases its user      *)
(* could read, as far as its statements go by the verified case; the row   *)
(* of a key is of such a case once its gate is passed.                     *)
(***************************************************************************)

\* What is read: every row is of a case, that of its analysis where its key names one,
\* and the mappings of a chain are its case's.
DataInv ==
    /\ chains \in [Cases -> SUBSET UNION {Result[a].techniques : a \in Analyses}]
    /\ \A key \in DOMAIN table :
          /\ table[key] \in Cases
          /\ key[1] = "mitre" => table[key] = key[2]
          /\ key[1] \in {"event", "relationship", "behavior"} =>
                key[2] \in Analyses /\ table[key] = Result[key[2]].case
    /\ \A c \in Cases : \A t \in chains[c] : <<"mitre", c, t>> \in DOMAIN table

Functional ==
    /\ stage \in [Requests -> {"idle", "open"} \cup Ended]
    /\ position \in [Requests -> Nat \ {0}]
    /\ DOMAIN asked = Requests /\ DOMAIN verified = Requests
    /\ DOMAIN seen = Requests /\ DOMAIN asOf = Requests
    /\ wasActive \in [Requests -> BOOLEAN]
    /\ couldRead \in [Requests -> SUBSET Cases]

\* The parts of an answer that go by the case of the request or by its user.
Shown(q) ==
    \A part \in DOMAIN seen[q] :
        /\ part \in {"links", "findings"} \cup OnBehavior \cup ByUser \cup ByKey \cup OfCase
        /\ part \in ByUser => seen[q][part] \subseteq couldRead[q]
        /\ part \in ByKey => seen[q][part] \subseteq DOMAIN table
        /\ part \in OfCase => \A y \in seen[q][part] :
              y \in DOMAIN table /\ table[y] \in couldRead[q]
        /\ part = "findings" => \A y \in seen[q][part] : Result[y[2]].case \in couldRead[q]

\* The parts of a behaviour go by the case of its row, which need not be that of the gate
\* before the answer.
OfBehavior(q, b) ==
    /\ \A part \in DOMAIN seen[q] \cap {"events", "mappings", "edges"} : \A y \in seen[q][part] :
          y \in DOMAIN table /\ table[y] = table[b]
    /\ "links" \in DOMAIN seen[q] => \A y \in seen[q]["links"] :
          y[2] \in Analyses /\ Result[y[2]].case = table[b]
    /\ "endpoints" \in DOMAIN seen[q] => \A y \in seen[q]["endpoints"] :
          \/ y \in DOMAIN table /\ table[y] = table[b]
          \/ y \in Ends(seen[q]["edges"]) \cup Sources(seen[q]["events"])

\* How far a request for a behaviour is.
DetailBefore(i) == {GetBehavior[k] : k \in 2..(i - 1)}

Detail(q, x) ==
    /\ DOMAIN seen[q] \cap (OfCase \cup ByUser \cup {"findings", "row"}) = {}
    /\ stage[q] \in {"open", "answered"} => DOMAIN seen[q] = DetailBefore(position[q])
    /\ stage[q] \in {"open", "answered"} /\ "behavior" \in DOMAIN seen[q] => seen[q]["behavior"] # {}
    /\ "behavior" \in DOMAIN seen[q] =>
          seen[q]["behavior"] \subseteq x.key /\ \A b \in seen[q]["behavior"] : OfBehavior(q, b)

\* How far request q is in the plan of its question x.
Progress(q, x) ==
    /\ x.view \notin Ungated /\ position[q] > 1 => verified[q] = x.case
    /\ x.view = "behavior" => Detail(q, x)
    /\ x.view # "behavior" =>
          /\ DOMAIN seen[q] \cap (OnBehavior \cup {"behavior"}) = {}
          /\ "links" \in DOMAIN seen[q] =>
                \A y \in seen[q]["links"] : Result[y[2]].case \in couldRead[q]
    /\ "row" \in DOMAIN seen[q] => x.view = "row" /\ seen[q]["row"] \subseteq x.key
    /\ x.view = "row" /\ position[q] > 1 => "row" \in DOMAIN seen[q]
    /\ x.view = "row" /\ position[q] > 2 =>
          \A key \in seen[q]["row"] : table[key] \in couldRead[q]
    /\ stage[q] = "open" => wasActive[q] /\ Readable(x.user) \subseteq couldRead[q]
    /\ stage[q] \in {"answered", "missing", "refused"} => wasActive[q]
    /\ stage[q] = "answered" =>
          /\ position[q] > Len(Plan[x.view])
          /\ x.view = "behavior" => \A key \in seen[q]["behavior"] : table[key] \in x.case

RequestInv(q) ==
    /\ asked[q] \subseteq Questions /\ \A x, y \in asked[q] : x = y
    /\ verified[q] \subseteq couldRead[q] /\ \A c, d \in verified[q] : c = d
    /\ stage[q] = "idle" =>
          position[q] = 1 /\ verified[q] = {} /\ DOMAIN seen[q] = {} /\ asked[q] = {}
    /\ stage[q] = "answered" => asked[q] # {}
    /\ DOMAIN seen[q] = DOMAIN asOf[q]
    /\ Shown(q)
    /\ \A x \in asked[q] : Progress(q, x)

Inv == AccessTypeOK /\ published \subseteq Analyses /\ DataInv /\ Functional
           /\ \A q \in Requests : RequestInv(q)

\* It holds initially.
LEMMA InitInv == Init => Inv
  BY DEF Init, AccessInit, Inv, AccessTypeOK, DataInv, Functional, RequestInv, Shown, Progress,
         Ended

\* The fields of a question.
LEMMA QuestionFields ==
    ASSUME NEW x \in Questions
    PROVE  /\ x.user \in Users /\ x.view \in Views
           /\ x.case \subseteq Cases /\ \A c, d \in x.case : c = d
           /\ \A k, l \in x.key : k = l
           /\ x.case = {} <=> x.view \in Ungated
           /\ x.view = "behavior" => \A k \in x.key : k[1] = "behavior"
  <1>1. PICK view \in Views :
            x \in [user : Users, view : {view},
                   case : IF view \in {"row", "cases"} THEN {{}} ELSE {{c} : c \in Cases},
                   key : IF view \in {"row", "behavior"} THEN {{k} : k \in Keys(view)} ELSE {{}}]
    BY DEF Questions
  <1>2. x.view = view /\ x.user \in Users
    BY <1>1
  <1>3. /\ view \in {"row", "cases"} => x.case = {}
        /\ view \notin {"row", "cases"} => \E c \in Cases : x.case = {c}
    BY <1>1
  <1>4. /\ view \in {"row", "behavior"} => \E k \in Keys(view) : x.key = {k}
        /\ view \notin {"row", "behavior"} => x.key = {}
    BY <1>1
  <1>5. view = "behavior" => \A k \in Keys(view) : k[1] = "behavior"
    BY DEF Keys
  <1>6. QED
    BY <1>2, <1>3, <1>4, <1>5 DEF Ungated

\* What has been read of a behaviour before each of its statements.
LEMMA DetailOrder ==
    /\ \A i \in Nat : i > 2 => "behavior" \in DetailBefore(i)
    /\ \A i \in 2..7 : DetailBefore(i + 1) = DetailBefore(i) \cup {GetBehavior[i]}
    /\ DetailBefore(1) = {} /\ DetailBefore(2) = {}
    /\ \A i \in 2..7 :
          /\ GetBehavior[i] \notin DetailBefore(i)
          /\ GetBehavior[i] \in {"mappings", "edges"} => "links" \in DetailBefore(i)
          /\ "endpoints" \notin DetailBefore(i)
  <1>1. \A i \in 2..7 : 2..((i + 1) - 1) = 2..(i - 1) \cup {i}
    OBVIOUS
  <1>2. ASSUME NEW i \in 2..7
        PROVE  DetailBefore(i + 1) = DetailBefore(i) \cup {GetBehavior[i]}
    BY <1>1 DEF DetailBefore
  <1>3. DetailBefore(1) = {} /\ DetailBefore(2) = {}
    BY DEF DetailBefore
  <1>4. ASSUME NEW i \in Nat, i > 2
        PROVE  "behavior" \in DetailBefore(i)
    <2>1. 2 \in 2..(i - 1) /\ GetBehavior[2] = "behavior"
      BY <1>4 DEF GetBehavior
    <2>2. QED
      BY <2>1 DEF DetailBefore
  <1>5. ASSUME NEW i \in 2..7
        PROVE  /\ GetBehavior[i] \notin DetailBefore(i)
               /\ "endpoints" \notin DetailBefore(i)
    <2>1. \A k \in 2..(i - 1) : k \in 2..6 /\ k < i
      OBVIOUS
    <2>2. \A k \in 2..(i - 1) : GetBehavior[k] # GetBehavior[i] /\ GetBehavior[k] # "endpoints"
      BY <2>1 DEF GetBehavior
    <2>3. QED
      BY <2>2 DEF DetailBefore
  <1>6. ASSUME NEW i \in 2..7, GetBehavior[i] \in {"mappings", "edges"}
        PROVE  "links" \in DetailBefore(i)
    <2>1. i > 4
      BY <1>6 DEF GetBehavior
    <2>2. 4 \in 2..(i - 1) /\ GetBehavior[4] = "links"
      BY <2>1 DEF GetBehavior
    <2>3. QED
      BY <2>2 DEF DetailBefore
  <1>7. QED
    BY <1>2, <1>3, <1>4, <1>5, <1>6

\* The entities of a behaviour are read last.
LEMMA EndpointsLast ==
    ASSUME NEW i \in 2..7, GetBehavior[i] = "endpoints"
    PROVE  "edges" \in DetailBefore(i) /\ "events" \in DetailBefore(i)
  <1>1. i = 7
    BY DEF GetBehavior
  <1>2. 3 \in 2..(i - 1) /\ 6 \in 2..(i - 1)
    BY <1>1
  <1>3. GetBehavior[3] = "events" /\ GetBehavior[6] = "edges"
    BY DEF GetBehavior
  <1>4. QED
    BY <1>2, <1>3 DEF DetailBefore

\* A request that a step does not touch keeps its invariant, as rows stay and what its
\* user could read grows.
LEMMA UntouchedRequest ==
    ASSUME Inv, NEW q \in Requests,
           stage'[q] = stage[q], position'[q] = position[q], asked'[q] = asked[q],
           verified'[q] = verified[q], seen'[q] = seen[q], asOf'[q] = asOf[q],
           wasActive[q] => wasActive'[q],
           couldRead[q] \subseteq couldRead'[q],
           stage[q] = "open" => \A x \in asked[q] : Readable(x.user)' \subseteq couldRead'[q],
           \A key \in DOMAIN table : key \in DOMAIN table' /\ table'[key] = table[key]
    PROVE  RequestInv(q)'
  <1>1. RequestInv(q) /\ wasActive[q] \in BOOLEAN
    BY DEF Inv, Functional
  <1>2. Shown(q)'
    BY <1>1 DEF RequestInv, Shown
  <1>3. \A key \in UNION {seen[q][part] : part \in DOMAIN seen[q] \cap ByKey} : table'[key] = table[key]
    BY <1>1 DEF RequestInv, Shown
  <1>4. ASSUME NEW x \in asked[q]
        PROVE  Progress(q, x)'
    <2>1. Progress(q, x)
      BY <1>1 DEF RequestInv
    <2>2. x \in Questions
      BY <1>1 DEF RequestInv
    <2>3. "row" \in DOMAIN seen[q] => \A key \in seen[q]["row"] : table'[key] = table[key]
      BY <1>3 DEF ByKey
    <2>4. "behavior" \in DOMAIN seen[q] => \A key \in seen[q]["behavior"] :
              key \in DOMAIN table /\ table'[key] = table[key]
      BY <1>1, <1>3 DEF ByKey, RequestInv, Shown
    <2>5. x.view = "behavior" =>
              /\ Detail(q, x)'
              /\ stage[q] = "answered" => \A key \in seen[q]["behavior"] : table'[key] \in x.case
      <3>1. SUFFICES ASSUME x.view = "behavior"
                     PROVE  /\ Detail(q, x)'
                            /\ stage[q] = "answered" => \A key \in seen[q]["behavior"] : table'[key] \in x.case
        OBVIOUS
      <3>2. Detail(q, x)
        BY <2>1, <3>1 DEF Progress
      <3>3. ASSUME "behavior" \in DOMAIN seen[q], NEW b \in seen[q]["behavior"]
            PROVE  OfBehavior(q, b)'
        <4>1. OfBehavior(q, b)
          BY <3>2, <3>3 DEF Detail
        <4>2. table'[b] = table[b]
          BY <2>4, <3>3
        <4>3. QED
          BY <4>1, <4>2 DEF OfBehavior, Ends, Sources
      <3>4. Detail(q, x)'
        BY <3>2, <3>3 DEF Detail
      <3>5. ASSUME stage[q] = "answered", NEW key \in seen[q]["behavior"]
            PROVE  table'[key] \in x.case
        <4>1. position[q] > Len(Plan[x.view]) /\ table[key] \in x.case
          BY <2>1, <3>1, <3>5 DEF Progress
        <4>2. position[q] > 2
          <5>1. x.view \in Views /\ position[q] \in Nat
            BY <2>2, QuestionFields DEF Inv, Functional
          <5>2. QED
            BY <3>1, <4>1, <5>1, Plans
        <4>3. QED
          BY <2>4, <2>2, <3>2, <3>5, <4>1, <4>2, DetailOrder DEF Detail, Inv, Functional
      <3>6. QED
        BY <3>4, <3>5
    <2>6. x.view = "row" /\ position[q] > 2 =>
              \A key \in seen[q]["row"] : table'[key] \in couldRead'[q]
      <3>1. position[q] > 2 => position[q] > 1
        BY DEF Inv, Functional
      <3>2. QED
        BY <2>1, <2>3, <3>1 DEF Progress
    <2>7. QED
      BY <2>1, <2>5, <2>6 DEF Progress
  <1>5. QED
    BY <1>1, <1>2, <1>4 DEF RequestInv

-----------------------------------------------------------------------------
(***************************************************************************)
(* The steps that keep the tables: those of one request.                   *)
(***************************************************************************)

\* A step of one request that changes neither rows nor grants leaves the others alone.
LEMMA OthersKeep ==
    ASSUME Inv, NEW q \in Requests, NEW o \in Requests, o # q,
           UNCHANGED <<dataVars, grants>>,
           stage'[o] = stage[o], position'[o] = position[o], asked'[o] = asked[o],
           verified'[o] = verified[o], seen'[o] = seen[o], asOf'[o] = asOf[o],
           wasActive'[o] = wasActive[o], couldRead'[o] = couldRead[o]
    PROVE  RequestInv(o)'
  <1>1. \A x \in asked[o] : Readable(x.user)' = Readable(x.user)
    BY DEF Readable, MayRead
  <1>2. stage[o] = "open" => \A x \in asked[o] : Readable(x.user) \subseteq couldRead[o]
    BY DEF Inv, RequestInv, Progress
  <1>3. table' = table
    BY DEF dataVars
  <1>4. QED
    BY <1>1, <1>2, <1>3, UntouchedRequest

\* A request arrives.
LEMMA ArriveKeeps ==
    ASSUME Inv, NEW q \in Requests, NEW x \in Questions, Arrive(q, x)
    PROVE  Inv'
  <1> USE DEF Functional
  <1>1. /\ stage[q] = "idle"
        /\ asked' = [asked EXCEPT ![q] = {x}]
        /\ wasActive' = [wasActive EXCEPT ![q] = x.user \in active]
        /\ couldRead' = [couldRead EXCEPT ![q] = Readable(x.user)]
        /\ stage' = [stage EXCEPT ![q] = IF KnownUser(x.user) THEN "open" ELSE "unauthenticated"]
        /\ UNCHANGED <<accessVars, dataVars, position, verified, seen, asOf>>
    BY DEF Arrive
  <1>2. Functional
    BY DEF Inv
  <1>3. Functional'
    <2>1. Readable(x.user) \subseteq Cases
      BY DEF Readable
    <2>2. QED
      BY <1>1, <1>2, <2>1 DEF Ended
  <1>4. /\ position[q] = 1 /\ verified[q] = {} /\ DOMAIN seen[q] = {} /\ DOMAIN asOf[q] = {}
    BY <1>1 DEF Inv, RequestInv
  <1>5. /\ asked'[q] = {x} /\ couldRead'[q] = Readable(x.user)
        /\ wasActive'[q] = (x.user \in active)
        /\ stage'[q] = (IF KnownUser(x.user) THEN "open" ELSE "unauthenticated")
    BY <1>1, <1>2
  <1>6. Readable(x.user)' = Readable(x.user)
    BY <1>1 DEF Readable, MayRead, accessVars
  <1>7. Progress(q, x)'
    <2>1. position'[q] = 1 /\ seen'[q] = seen[q]
      BY <1>1, <1>4
    <2>2. stage'[q] = "open" => wasActive'[q]
      BY <1>5 DEF KnownUser
    <2>3. stage'[q] \notin {"answered", "missing", "refused"}
      BY <1>5
    <2>4. Detail(q, x)'
      BY <1>4, <2>1, DetailOrder DEF Detail
    <2>5. QED
      BY <1>4, <1>5, <1>6, <2>1, <2>2, <2>3, <2>4 DEF Progress
  <1>8. RequestInv(q)'
    BY <1>1, <1>4, <1>5, <1>7 DEF RequestInv, Shown
  <1>9. \A o \in Requests : o # q => RequestInv(o)'
    BY <1>1, <1>2, OthersKeep DEF accessVars
  <1>10. (AccessTypeOK /\ published \subseteq Analyses /\ DataInv)'
    BY <1>1 DEF Inv, AccessTypeOK, DataInv, accessVars, dataVars
  <1>11. QED
    BY <1>3, <1>8, <1>9, <1>10 DEF Inv

\* The case of a gate is a case, and the only one the request can mean.
LEMMA GateCase ==
    ASSUME Inv, NEW q \in Requests, NEW x \in asked[q], At(q, x, "gate"),
           NEW c \in GatedCase(q, x)
    PROVE  /\ x \in Questions /\ x.view \in Views /\ c \in Cases
           /\ x.view = "row" => position[q] = 2 /\ \A key \in seen[q]["row"] : table[key] = c
           /\ x.view # "row" => x.view \notin Ungated /\ position[q] = 1 /\ x.case = {c}
  <1>1. x \in Questions /\ position[q] \in Nat \ {0}
    BY DEF Inv, RequestInv, Functional
  <1>2. x.view \in Views
    BY <1>1, QuestionFields
  <1>3. position[q] \in 1..Len(Plan[x.view]) /\ Plan[x.view][position[q]] = "gate"
    BY <1>1, <1>2, Plans DEF At
  <1>4. PlanFacts(x.view, position[q])
    BY <1>2, <1>3, Plans
  <1>5. position[q] = (IF x.view = "row" THEN 2 ELSE 1) /\ x.view # "cases"
    BY <1>3, <1>4 DEF PlanFacts
  <1>6. CASE x.view = "row"
    <2>1. "row" \in DOMAIN seen[q] /\ seen[q]["row"] \subseteq x.key
      BY <1>5, <1>6 DEF Inv, RequestInv, Progress
    <2>2. seen[q]["row"] \subseteq DOMAIN table
      BY <2>1 DEF Inv, RequestInv, Shown, ByKey
    <2>3. PICK key \in seen[q]["row"] : c = table[key]
      BY <1>6 DEF GatedCase
    <2>4. \A k \in seen[q]["row"] : k = key
      BY <1>1, <2>1, <2>3, QuestionFields
    <2>5. c \in Cases
      BY <2>2, <2>3 DEF Inv, DataInv
    <2>6. QED
      BY <1>1, <1>2, <1>5, <1>6, <2>3, <2>4, <2>5
  <1>7. CASE x.view # "row"
    <2>1. c \in x.case
      BY <1>7 DEF GatedCase
    <2>2. QED
      BY <1>1, <1>2, <1>5, <1>7, <2>1, QuestionFields DEF Ungated
  <1>8. QED
    BY <1>6, <1>7

\* A request passes its gate or is refused by it.
LEMMA GateKeeps ==
    ASSUME Inv, NEW q \in Requests, Gate(q)
    PROVE  Inv'
  <1> USE DEF Functional
  <1>1. PICK x \in asked[q] :
            /\ At(q, x, "gate")
            /\ \E c \in GatedCase(q, x) :
                  IF MayRead(x.user, c)
                  THEN /\ verified' = [verified EXCEPT ![q] = {c}]
                       /\ Advance(q)
                       /\ UNCHANGED <<stage, trail>>
                  ELSE /\ stage' = [stage EXCEPT ![q] = "refused"]
                       /\ IF x.view \in Recording THEN Record("case_access_denied", x.user, c)
                          ELSE UNCHANGED trail
                       /\ UNCHANGED <<position, verified>>
            /\ UNCHANGED <<active, tokens, cases, grants, dataVars, asked, seen, asOf, history>>
    BY DEF Gate
  <1>2. PICK c \in GatedCase(q, x) :
            IF MayRead(x.user, c)
            THEN /\ verified' = [verified EXCEPT ![q] = {c}]
                 /\ Advance(q)
                 /\ UNCHANGED <<stage, trail>>
            ELSE /\ stage' = [stage EXCEPT ![q] = "refused"]
                 /\ IF x.view \in Recording THEN Record("case_access_denied", x.user, c)
                    ELSE UNCHANGED trail
                 /\ UNCHANGED <<position, verified>>
    BY <1>1
  <1>3. /\ x \in Questions /\ x.view \in Views /\ c \in Cases
        /\ x.view = "row" => position[q] = 2 /\ \A key \in seen[q]["row"] : table[key] = c
        /\ x.view # "row" => x.view \notin Ungated /\ position[q] = 1 /\ x.case = {c}
    BY <1>1, GateCase
  <1>4. /\ UNCHANGED <<active, tokens, cases, grants, dataVars, asked, seen, asOf, history>>
        /\ stage[q] = "open" /\ Functional /\ RequestInv(q) /\ Progress(q, x)
    BY <1>1 DEF At, Inv, RequestInv
  <1>5. \A y \in asked[q] : y = x
    BY <1>1, <1>4 DEF RequestInv
  <1>6. Readable(x.user)' = Readable(x.user)
    BY <1>4 DEF Readable, MayRead
  <1>7. CASE MayRead(x.user, c)
    <2>1. /\ verified' = [verified EXCEPT ![q] = {c}]
          /\ position' = [position EXCEPT ![q] = @ + 1]
          /\ UNCHANGED <<stage, trail>>
      BY <1>2, <1>7 DEF Advance
    <2>2. verified'[q] = {c} /\ position'[q] = position[q] + 1
      BY <1>4, <2>1
    <2>3. c \in couldRead[q]
      BY <1>3, <1>4, <1>7 DEF Progress, Readable
    <2>4. Progress(q, x)'
      <3>1. UNCHANGED <<table, seen, stage, wasActive, couldRead>>
        BY <1>4, <2>1 DEF history, dataVars
      <3>2. x.view = "behavior" => Detail(q, x)'
        <4>1. SUFFICES ASSUME x.view = "behavior"
                       PROVE  Detail(q, x)'
          OBVIOUS
        <4>2. position[q] = 1 /\ position'[q] = 2 /\ Detail(q, x)
          BY <1>3, <1>4, <2>2, <4>1 DEF Progress
        <4>3. DOMAIN seen[q] = {}
          BY <1>4, <4>2, DetailOrder DEF Detail
        <4>4. QED
          BY <3>1, <4>2, <4>3, DetailOrder DEF Detail
      <3>3. QED
        BY <1>3, <1>4, <1>6, <2>1, <2>2, <2>3, <3>1, <3>2 DEF Progress, Ungated
    <2>5. RequestInv(q)'
      BY <1>4, <1>5, <2>1, <2>2, <2>3, <2>4 DEF RequestInv, Shown, history, dataVars
    <2>6. Functional'
      BY <1>4, <2>1 DEF history
    <2>7. \A o \in Requests : o # q => RequestInv(o)'
      BY <1>4, <2>1, OthersKeep DEF history
    <2>8. (AccessTypeOK /\ published \subseteq Analyses /\ DataInv)'
      BY <1>4, <2>1 DEF Inv, AccessTypeOK, DataInv, dataVars
    <2>9. QED
      BY <2>5, <2>6, <2>7, <2>8 DEF Inv
  <1>8. CASE ~MayRead(x.user, c)
    <2>1. /\ stage' = [stage EXCEPT ![q] = "refused"]
          /\ trail' = trail \/ trail' = trail \cup {<<"case_access_denied", x.user, c>>}
          /\ UNCHANGED <<position, verified>>
      BY <1>2, <1>8 DEF Record
    <2>2. stage'[q] = "refused"
      BY <1>4, <2>1
    <2>3. Progress(q, x)'
      BY <1>4, <2>1, <2>2 DEF Progress, Detail, OfBehavior, history, dataVars
    <2>4. RequestInv(q)'
      BY <1>4, <1>5, <2>1, <2>2, <2>3 DEF RequestInv, Shown, history, dataVars
    <2>5. Functional'
      BY <1>4, <2>1 DEF history, Ended
    <2>6. \A o \in Requests : o # q => RequestInv(o)'
      BY <1>4, <2>1, OthersKeep DEF history
    <2>7. x.user \in Users
      BY <1>3, QuestionFields
    <2>8. trail' \subseteq Denials \X Users \X (Cases \cup {"system"})
      BY <1>3, <2>1, <2>7 DEF Inv, AccessTypeOK, Denials
    <2>9. (AccessTypeOK /\ published \subseteq Analyses /\ DataInv)'
      BY <1>4, <2>8 DEF Inv, AccessTypeOK, DataInv, dataVars, Denials
    <2>10. QED
      BY <2>4, <2>5, <2>6, <2>9 DEF Inv
  <1>9. QED
    BY <1>7, <1>8

\* Where a statement other than the gate stands, the gate before it has been passed.
LEMMA StatementPlace ==
    ASSUME Inv, NEW q \in Requests, NEW x \in asked[q], NEW part \in Parts, At(q, x, part)
    PROVE  /\ x \in Questions /\ x.view \in Views /\ stage[q] = "open"
           /\ position[q] \in 1..Len(Plan[x.view])
           /\ part # "gate" /\ Plan[x.view][position[q]] = part
           /\ PlanFacts(x.view, position[q])
           /\ x.view \notin Ungated => position[q] > 1 /\ verified[q] = x.case
           /\ x.view = "row" => position[q] = 1 /\ part = "row"
  <1>1. x \in Questions /\ position[q] \in Nat \ {0}
    BY DEF Inv, RequestInv, Functional
  <1>2. x.view \in Views /\ stage[q] = "open"
    BY <1>1, QuestionFields DEF At
  <1>3. /\ position[q] \in 1..Len(Plan[x.view]) /\ Plan[x.view][position[q]] = part
        /\ part # "gate"
    <2>1. Len(Plan[x.view]) \in Nat
      BY <1>2, Plans
    <2>2. position[q] <= Len(Plan[x.view]) /\ Plan[x.view][position[q]] = part
      BY DEF At
    <2>3. part # "gate"
      BY DEF Parts
    <2>4. QED
      BY <1>1, <2>1, <2>2, <2>3
  <1>4. PlanFacts(x.view, position[q])
    BY <1>2, <1>3, Plans
  <1>5. ASSUME x.view \notin Ungated
        PROVE  position[q] > 1 /\ verified[q] = x.case
    <2>1. position[q] # 1
      BY <1>3, <1>4, <1>5 DEF PlanFacts, Ungated
    <2>2. position[q] > 1
      BY <1>1, <2>1
    <2>3. QED
      BY <1>5, <2>2 DEF Inv, RequestInv, Progress
  <1>6. ASSUME x.view = "row"
        PROVE  position[q] = 1 /\ part = "row"
    <2>1. position[q] \in 1..2 /\ position[q] # 2
      BY <1>2, <1>3, <1>4, <1>6, Plans DEF PlanFacts
    <2>2. position[q] = 1
      BY <2>1
    <2>3. QED
      BY <1>3, <1>4, <1>6, <2>2 DEF PlanFacts
  <1>7. QED
    BY <1>1, <1>2, <1>3, <1>4, <1>5, <1>6

\* What a list of a case can answer are rows of that case.
LEMMA AnswersAreOfCase ==
    ASSUME DataInv, NEW q, NEW c \in Cases, NEW part \in OfCase,
           NEW rows \in AnswersOf(part, q, c), NEW y \in rows
    PROVE  y \in DOMAIN table /\ table[y] = c
  <1>1. CASE part \in {"entities", "relationships", "timeline", "behaviors", "mitre"}
    <2>1. PICK kind : rows \in Page(RowsOf(kind, c))
      BY <1>1 DEF AnswersOf
    <2>2. y \in RowsOf(kind, c)
      BY <2>1 DEF Page
    <2>3. QED
      BY <2>2 DEF RowsOf
  <1>2. CASE part = "total"
    <2>1. rows = RowsOf("entity", c)
      BY <1>2 DEF AnswersOf
    <2>2. QED
      BY <2>1 DEF RowsOf
  <1>3. CASE part = "chain"
    <2>1. rows = MappingsOf(c, chains[c])
      BY <1>3 DEF AnswersOf
    <2>2. PICK t \in chains[c] : y = <<"mitre", c, t>>
      BY <2>1 DEF MappingsOf
    <2>3. y \in DOMAIN table /\ y[1] = "mitre" /\ y[2] = c
      BY <2>2 DEF DataInv
    <2>4. QED
      BY <2>3 DEF DataInv
  <1>4. QED
    BY <1>1, <1>2, <1>3 DEF OfCase

\* The rows that name the finding of an analysis are of its case.
LEMMA LinkedCase ==
    ASSUME DataInv, NEW a \in Analyses, NEW key \in Linked(a), key \in DOMAIN table
    PROVE  /\ table[key] = Result[a].case
           /\ key[1] = "behavior" => key = <<"behavior", a>>
  <1>1. Result[a].linked \subseteq {"event", "relationship", "mitre"}
    BY ViewsAssumption
  <1>2. CASE key = <<"behavior", a>>
    <2>1. key[1] = "behavior" /\ key[2] = a
      BY <1>2
    <2>2. QED
      BY <1>2, <2>1 DEF DataInv
  <1>3. CASE key \in RowsBy(a) /\ key[1] \in Result[a].linked
    <2>1. key[1] \in {"event", "relationship", "mitre"}
      BY <1>1, <1>3
    <2>2. CASE key \in {<<"relationship", a, e[1], e[2]>> : e \in Result[a].edges}
      <3>1. key[1] = "relationship" /\ key[2] = a
        BY <2>2
      <3>2. QED
        BY <3>1 DEF DataInv
    <2>3. CASE key = <<"event", a>>
      <3>1. key[1] = "event" /\ key[2] = a
        BY <2>3
      <3>2. QED
        BY <3>1 DEF DataInv
    <2>4. CASE key \in MappingsOf(Result[a].case, Result[a].techniques)
      <3>1. key[1] = "mitre" /\ key[2] = Result[a].case
        BY <2>4 DEF MappingsOf
      <3>2. QED
        BY <3>1 DEF DataInv
    <2>5. key \notin {<<"entity", e>> : e \in Result[a].entities} /\ key # <<"behavior", a>>
      BY <2>1
    <2>6. QED
      BY <1>3, <2>2, <2>3, <2>4, <2>5 DEF RowsBy
  <1>4. QED
    BY <1>2, <1>3 DEF Linked

\* What any statement answers is what the invariant asks of it.
LEMMA StatementShows ==
    ASSUME Inv, NEW q \in Requests, NEW x \in asked[q], NEW part \in Parts, At(q, x, part),
           NEW rows \in Answers(part, q, x)
    PROVE  /\ part \in {"links", "findings"} \cup OnBehavior \cup ByUser \cup ByKey \cup OfCase
           /\ part \in ByUser => rows \subseteq couldRead[q]
           /\ part \in ByKey => rows \subseteq DOMAIN table /\ rows \subseteq x.key
           /\ part \in OfCase => \A y \in rows : y \in DOMAIN table /\ table[y] \in couldRead[q]
           /\ part = "findings" => \A y \in rows : Result[y[2]].case \in couldRead[q]
  <1>1. /\ PlanFacts(x.view, position[q]) /\ Plan[x.view][position[q]] = part /\ part # "gate"
        /\ x.view \notin Ungated => verified[q] = x.case
        /\ stage[q] = "open"
    BY StatementPlace
  <1>2. part \in {"links", "findings"} \cup OnBehavior \cup ByUser \cup ByKey \cup OfCase
    BY <1>1 DEF PlanFacts
  <1>3. verified[q] \subseteq couldRead[q] /\ verified[q] \subseteq Cases
    BY DEF Inv, RequestInv, Functional
  <1>4. Readable(x.user) \subseteq couldRead[q]
    BY <1>1 DEF Inv, RequestInv, Progress
  <1>5. ASSUME part \in ByUser
        PROVE  rows \subseteq couldRead[q]
    <2>1. rows \in AnswersTo(part, x)
      BY <1>5 DEF ByUser, Answers, ByQuestion
    <2>2. CASE part = "case"
      <3>1. x.view \in {"report", "context"}
        BY <1>1, <2>2 DEF PlanFacts
      <3>2. rows \subseteq x.case
        BY <2>1, <2>2 DEF AnswersTo
      <3>3. QED
        BY <1>1, <1>3, <3>1, <3>2 DEF Ungated
    <2>3. CASE part \in {"count", "cases"}
      <3>1. rows \subseteq Listed(x.user)
        <4>1. CASE part = "count"
          BY <2>1, <4>1 DEF AnswersTo
        <4>2. CASE part = "cases"
          BY <2>1, <4>2 DEF AnswersTo, Page
        <4>3. QED
          BY <2>3, <4>1, <4>2
      <3>2. Listed(x.user) \subseteq Readable(x.user)
        BY DEF Listed, Readable, Inv, AccessTypeOK
      <3>3. QED
        BY <1>4, <3>1, <3>2
    <2>4. QED
      BY <1>5, <2>2, <2>3 DEF ByUser
  <1>6. ASSUME part \in ByKey
        PROVE  rows \subseteq DOMAIN table /\ rows \subseteq x.key
    <2>1. rows \in AnswersTo(part, x)
      BY <1>6 DEF ByKey, Answers, ByQuestion
    <2>2. QED
      BY <1>6, <2>1 DEF ByKey, AnswersTo
  <1>7. part \in OfCase \cup {"findings"} => \E c \in verified[q] : rows \in AnswersOf(part, q, c)
    BY DEF OfCase, Answers, ByQuestion, OnBehavior
  <1>8. ASSUME part \in OfCase, NEW y \in rows
        PROVE  y \in DOMAIN table /\ table[y] \in couldRead[q]
    <2>1. PICK c \in verified[q] : rows \in AnswersOf(part, q, c)
      BY <1>7, <1>8
    <2>2. QED
      BY <1>3, <1>8, <2>1, AnswersAreOfCase DEF Inv
  <1>9. ASSUME part = "findings", NEW y \in rows
        PROVE  Result[y[2]].case \in couldRead[q]
    <2>1. PICK c \in verified[q] : rows \in AnswersOf(part, q, c)
      BY <1>7, <1>9
    <2>2. PICK A \in SUBSET {a \in Analyses : Result[a].case = c} : rows \in Page({<<"finding", a>> : a \in A})
      BY <1>9, <2>1 DEF AnswersOf
    <2>3. y \in {<<"finding", a>> : a \in A}
      BY <2>2 DEF Page
    <2>4. Result[y[2]].case = c
      BY <2>2, <2>3
    <2>5. QED
      BY <1>3, <2>4
  <1>10. QED
    BY <1>2, <1>5, <1>6, <1>8, <1>9

\* What the statements on a behaviour answer is of the case of its row, and an entity of
\* another case is one that was named.
LEMMA BehaviorShows ==
    ASSUME Inv, NEW q \in Requests, NEW x \in asked[q], NEW part \in Parts, At(q, x, part),
           NEW rows \in Answers(part, q, x), x.view = "behavior",
           part \in OnBehavior \cup {"links"}, NEW b \in seen[q]["behavior"]
    PROVE  /\ "behavior" \in DOMAIN seen[q]
           /\ part \in {"events", "mappings", "edges"} =>
                 \A y \in rows : y \in DOMAIN table /\ table[y] = table[b]
           /\ part = "links" => \A y \in rows : y[2] \in Analyses /\ Result[y[2]].case = table[b]
           /\ part = "endpoints" => \A y \in rows :
                 \/ y \in DOMAIN table /\ table[y] = table[b]
                 \/ y \in Ends(seen[q]["edges"]) \cup Sources(seen[q]["events"])
  <1>1. /\ x \in Questions /\ position[q] \in 2..7 /\ position[q] > 2
        /\ GetBehavior[position[q]] = part /\ stage[q] = "open"
    <2>1. /\ x \in Questions /\ position[q] \in 1..Len(Plan[x.view]) /\ stage[q] = "open"
          /\ Plan[x.view][position[q]] = part /\ PlanFacts(x.view, position[q])
      BY StatementPlace
    <2>2. position[q] > 2
      BY <2>1 DEF PlanFacts
    <2>3. Plan["behavior"] = GetBehavior /\ Len(GetBehavior) = 7
      BY DEF Plan, GetBehavior
    <2>4. QED
      BY <2>1, <2>2, <2>3
  <1>3. Detail(q, x) /\ Shown(q) /\ DataInv /\ published \subseteq Analyses
    BY DEF Inv, RequestInv, Progress
  <1>4. "behavior" \in DOMAIN seen[q] /\ seen[q]["behavior"] \subseteq x.key /\ OfBehavior(q, b)
    BY <1>1, <1>3, DetailOrder DEF Detail
  <1>5. b \in DOMAIN table /\ b[1] = "behavior" /\ \A d \in seen[q]["behavior"] : d = b
    BY <1>1, <1>3, <1>4, QuestionFields DEF Shown, ByKey
  <1>6. b[2] \in Analyses /\ table[b] = Result[b[2]].case
    BY <1>3, <1>5 DEF DataInv
  <1>7. ASSUME part \in OnBehavior
        PROVE  rows \in AnswersOn(part, q, b)
    BY <1>5, <1>7 DEF Answers, OnBehavior, ByQuestion
  <1>8. ASSUME part = "links", NEW y \in rows
        PROVE  y[2] \in Analyses /\ Result[y[2]].case = table[b]
    <2>1. LinkSources(q) = seen[q]["behavior"]
      <3>1. "mitre" \notin DOMAIN seen[q]
        BY <1>3 DEF Detail, OfCase
      <3>2. DOMAIN seen[q] \cap {"behavior", "mitre"} = {"behavior"}
        BY <1>4, <3>1
      <3>3. QED
        BY <3>2 DEF LinkSources
    <2>2. rows = FindingsOf(seen[q]["behavior"])
      BY <1>8, <2>1 DEF Answers, ByQuestion
    <2>3. PICK a \in published : y = <<"finding", a>> /\ Linked(a) \cap seen[q]["behavior"] # {}
      BY <1>8, <2>2 DEF FindingsOf
    <2>4. b \in Linked(a)
      BY <1>5, <2>3
    <2>5. a \in Analyses /\ table[b] = Result[a].case
      BY <1>3, <1>5, <2>4, LinkedCase
    <2>6. QED
      BY <2>3, <2>5
  <1>9. ASSUME NEW findings, NEW kind, NEW y \in LinkedTo(findings, kind),
               \A f \in findings : f[2] \in Analyses /\ Result[f[2]].case = table[b]
        PROVE  y \in DOMAIN table /\ table[y] = table[b]
    <2>1. y \in DOMAIN table /\ \E f \in findings : y \in Linked(f[2])
      BY <1>9 DEF LinkedTo
    <2>2. PICK f \in findings : y \in Linked(f[2])
      BY <2>1
    <2>3. QED
      BY <1>3, <1>9, <2>1, <2>2, LinkedCase
  <1>10. ASSUME part \in {"mappings", "edges"}
         PROVE  \A f \in seen[q]["links"] : f[2] \in Analyses /\ Result[f[2]].case = table[b]
    <2>1. "links" \in DOMAIN seen[q]
      BY <1>1, <1>3, <1>10, DetailOrder DEF Detail
    <2>2. QED
      BY <1>4, <2>1 DEF OfBehavior
  <1>11. ASSUME part \in {"events", "mappings", "edges"}, NEW y \in rows
         PROVE  y \in DOMAIN table /\ table[y] = table[b]
    <2>1. rows \in AnswersOn(part, q, b)
      BY <1>7, <1>11 DEF OnBehavior
    <2>2. CASE part = "events"
      <3>1. rows = LinkedTo({<<"finding", b[2]>>}, "event")
        BY <2>1, <2>2 DEF AnswersOn
      <3>2. \A f \in {<<"finding", b[2]>>} : f[2] \in Analyses /\ Result[f[2]].case = table[b]
        BY <1>6
      <3>3. QED
        BY <1>9, <1>11, <3>1, <3>2
    <2>3. CASE part = "mappings"
      <3>1. \/ rows = LinkedTo(seen[q]["links"], "mitre")
            \/ rows = RowsOf("mitre", table[b])
        BY <2>1, <2>3 DEF AnswersOn
      <3>2. CASE rows = LinkedTo(seen[q]["links"], "mitre")
        BY <1>9, <1>10, <1>11, <2>3, <3>2
      <3>3. CASE rows = RowsOf("mitre", table[b])
        BY <1>11, <3>3 DEF RowsOf
      <3>4. QED
        BY <3>1, <3>2, <3>3
    <2>4. CASE part = "edges"
      <3>1. \/ rows = LinkedTo(seen[q]["links"], "relationship")
            \/ rows \in Page(RowsOf("relationship", table[b]))
        BY <2>1, <2>4 DEF AnswersOn
      <3>2. CASE rows = LinkedTo(seen[q]["links"], "relationship")
        BY <1>9, <1>10, <1>11, <2>4, <3>2
      <3>3. CASE rows \in Page(RowsOf("relationship", table[b]))
        <4>1. y \in RowsOf("relationship", table[b])
          BY <1>11, <3>3 DEF Page
        <4>2. QED
          BY <4>1 DEF RowsOf
      <3>4. QED
        BY <3>1, <3>2, <3>3
    <2>5. QED
      BY <1>11, <2>2, <2>3, <2>4
  <1>12. ASSUME part = "endpoints", NEW y \in rows
         PROVE  \/ y \in DOMAIN table /\ table[y] = table[b]
                \/ y \in Ends(seen[q]["edges"]) \cup Sources(seen[q]["events"])
    <2>1. rows \in AnswersOn("endpoints", q, b)
      BY <1>7, <1>12 DEF OnBehavior
    <2>2. rows \in Endpoints(Ends(seen[q]["edges"]) \cup Sources(seen[q]["events"]), table[b])
      BY <2>1 DEF AnswersOn
    <2>3. \/ rows \subseteq Ends(seen[q]["edges"]) \cup Sources(seen[q]["events"])
          \/ rows \in Page(RowsOf("entity", table[b]))
      BY <2>2 DEF Endpoints
    <2>4. rows \in Page(RowsOf("entity", table[b])) => y \in RowsOf("entity", table[b])
      BY <1>12 DEF Page
    <2>5. QED
      BY <1>12, <2>3, <2>4 DEF RowsOf
  <1>13. QED
    BY <1>4, <1>8, <1>11, <1>12

\* The links of the mappings of a context are findings of its case.
LEMMA ContextLinks ==
    ASSUME Inv, NEW q \in Requests, NEW x \in asked[q], At(q, x, "links"), "links" \in Parts,
           NEW rows \in Answers("links", q, x), x.view # "behavior", NEW y \in rows
    PROVE  Result[y[2]].case \in couldRead[q]
  <1>1. /\ Shown(q) /\ DataInv /\ published \subseteq Analyses
        /\ "behavior" \notin DOMAIN seen[q]
    BY DEF Inv, RequestInv, Progress
  <1>2. rows = FindingsOf(LinkSources(q))
    BY DEF Answers, ByQuestion
  <1>3. PICK a \in published : y = <<"finding", a>> /\ Linked(a) \cap LinkSources(q) # {}
    BY <1>2 DEF FindingsOf
  <1>4. PICK key \in Linked(a) : key \in LinkSources(q)
    BY <1>3
  <1>5. "mitre" \in DOMAIN seen[q] /\ key \in seen[q]["mitre"]
    BY <1>1, <1>4 DEF LinkSources
  <1>6. key \in DOMAIN table /\ table[key] \in couldRead[q]
    BY <1>1, <1>5 DEF Shown, OfCase
  <1>7. table[key] = Result[a].case
    BY <1>1, <1>4, <1>6, LinkedCase
  <1>8. QED
    BY <1>3, <1>6, <1>7

\* A statement on a behaviour is answered.
LEMMA ReadDetail ==
    ASSUME Inv, NEW q \in Requests, NEW x \in asked[q], NEW part \in Parts, At(q, x, part),
           NEW rows \in Answers(part, q, x), x.view = "behavior",
           UNCHANGED <<table, couldRead>>,
           DOMAIN seen'[q] = DOMAIN seen[q] \cup {part}, seen'[q][part] = rows,
           \A p \in DOMAIN seen[q] \ {part} : seen'[q][p] = seen[q][p],
           rows = {} /\ Required(part, x) => stage'[q] = "missing",
           \/ stage'[q] = "missing" /\ position'[q] = position[q]
           \/ stage'[q] = "open" /\ position'[q] = position[q] + 1
    PROVE  Detail(q, x)'
  <1>1. /\ position[q] \in 2..7 /\ GetBehavior[position[q]] = part /\ stage[q] = "open"
        /\ PlanFacts(x.view, position[q])
    <2>1. /\ x \in Questions /\ position[q] \in 1..Len(Plan[x.view]) /\ stage[q] = "open"
          /\ Plan[x.view][position[q]] = part /\ PlanFacts(x.view, position[q])
          /\ x.view \notin Ungated => position[q] > 1
      BY StatementPlace
    <2>2. Plan["behavior"] = GetBehavior /\ Len(GetBehavior) = 7
      BY DEF Plan, GetBehavior
    <2>3. QED
      BY <2>1, <2>2 DEF Ungated
  <1>2. Detail(q, x) /\ DOMAIN seen[q] = DetailBefore(position[q])
    BY <1>1 DEF Inv, RequestInv, Progress, Detail
  <1>3. part \notin DOMAIN seen[q] /\ "endpoints" \notin DOMAIN seen[q]
    BY <1>1, <1>2, DetailOrder
  <1>4. \A p \in DOMAIN seen[q] : p # part /\ seen'[q][p] = seen[q][p]
    BY <1>3
  <1>5. DOMAIN seen'[q] \cap (OfCase \cup ByUser \cup {"findings", "row"}) = {}
    <2>1. part \in {"behavior", "links"} \cup OnBehavior
      BY <1>1 DEF GetBehavior, OnBehavior
    <2>2. part \notin OfCase \cup ByUser \cup {"findings", "row"}
      BY <2>1 DEF OnBehavior, OfCase, ByUser
    <2>3. QED
      BY <1>2, <2>2 DEF Detail
  <1>6. ASSUME stage'[q] \in {"open", "answered"}
        PROVE  DOMAIN seen'[q] = DetailBefore(position'[q])
    <2>1. position'[q] = position[q] + 1
      BY <1>6
    <2>2. DetailBefore(position[q] + 1) = DetailBefore(position[q]) \cup {GetBehavior[position[q]]}
      BY <1>1, DetailOrder
    <2>3. QED
      BY <1>1, <1>2, <2>1, <2>2
  <1>7. CASE part = "behavior"
    <2>1. position[q] = 2
      BY <1>1, <1>7 DEF GetBehavior
    <2>2. DOMAIN seen'[q] = {"behavior"}
      BY <1>2, <1>7, <2>1, DetailOrder
    <2>3. seen'[q]["behavior"] \subseteq x.key
      BY <1>7, StatementShows DEF ByKey
    <2>4. \A b \in seen'[q]["behavior"] : OfBehavior(q, b)'
      BY <2>2 DEF OfBehavior
    <2>5. QED
      BY <1>5, <1>6, <1>7, <2>3, <2>4 DEF Detail, Required
  <1>8. CASE part # "behavior"
    <2>1. part \in OnBehavior \cup {"links"}
      BY <1>1, <1>8 DEF GetBehavior, OnBehavior
    <2>2. position[q] > 2 /\ "behavior" \in DOMAIN seen[q]
      <3>1. position[q] > 2
        BY <1>1, <1>8 DEF GetBehavior
      <3>2. QED
        BY <1>1, <1>2, <3>1, DetailOrder
    <2>3. /\ seen'[q]["behavior"] = seen[q]["behavior"] /\ seen[q]["behavior"] \subseteq x.key
          /\ seen[q]["behavior"] # {}
      BY <1>1, <1>2, <1>4, <2>2 DEF Detail
    <2>4. ASSUME NEW b \in seen[q]["behavior"]
          PROVE  OfBehavior(q, b)'
      <3>1. OfBehavior(q, b)
        BY <1>2, <2>2, <2>4 DEF Detail
      <3>2. /\ part \in {"events", "mappings", "edges"} =>
                  \A y \in rows : y \in DOMAIN table /\ table[y] = table[b]
            /\ part = "links" => \A y \in rows : y[2] \in Analyses /\ Result[y[2]].case = table[b]
            /\ part = "endpoints" => \A y \in rows :
                  \/ y \in DOMAIN table /\ table[y] = table[b]
                  \/ y \in Ends(seen[q]["edges"]) \cup Sources(seen[q]["events"])
        BY <2>1, <2>4, BehaviorShows
      <3>3. ASSUME NEW p \in DOMAIN seen'[q] \cap {"events", "mappings", "edges"},
                   NEW y \in seen'[q][p]
            PROVE  y \in DOMAIN table /\ table[y] = table[b]
        BY <1>4, <3>1, <3>2, <3>3 DEF OfBehavior
      <3>4. ASSUME "links" \in DOMAIN seen'[q], NEW y \in seen'[q]["links"]
            PROVE  y[2] \in Analyses /\ Result[y[2]].case = table[b]
        BY <1>4, <3>1, <3>2, <3>4 DEF OfBehavior
      <3>5. ASSUME "endpoints" \in DOMAIN seen'[q], NEW y \in seen'[q]["endpoints"]
            PROVE  \/ y \in DOMAIN table /\ table[y] = table[b]
                   \/ y \in Ends(seen'[q]["edges"]) \cup Sources(seen'[q]["events"])
        <4>1. part = "endpoints"
          BY <1>3, <3>5
        <4>2. GetBehavior[position[q]] = "endpoints"
          BY <1>1, <4>1
        <4>3. "edges" \in DOMAIN seen[q] /\ "events" \in DOMAIN seen[q]
          BY <1>1, <1>2, <4>2, EndpointsLast
        <4>4. seen'[q]["edges"] = seen[q]["edges"] /\ seen'[q]["events"] = seen[q]["events"]
          BY <1>4, <4>3
        <4>5. QED
          BY <3>2, <3>5, <4>1, <4>4
      <3>6. QED
        BY <3>3, <3>4, <3>5 DEF OfBehavior, Ends, Sources
    <2>5. QED
      BY <1>5, <1>6, <2>3, <2>4 DEF Detail
  <1>9. QED
    BY <1>7, <1>8

\* A statement is answered.
LEMMA ReadKeeps ==
    ASSUME Inv, NEW q \in Requests, NEW part \in Parts, Read(q, part)
    PROVE  Inv'
  <1> USE DEF Functional
  <1>1. PICK x \in asked[q] :
            /\ At(q, x, part)
            /\ \E rows \in Answers(part, q, x) :
                  /\ seen' = [seen EXCEPT ![q] = [p \in DOMAIN @ \cup {part} |->
                                                     IF p = part THEN rows ELSE @[p]]]
                  /\ IF rows = {} /\ Required(part, x)
                     THEN stage' = [stage EXCEPT ![q] = "missing"] /\ UNCHANGED position
                     ELSE Advance(q) /\ UNCHANGED stage
            /\ asOf' = [asOf EXCEPT ![q] = [p \in DOMAIN @ \cup {part} |->
                                               IF p = part THEN published ELSE @[p]]]
            /\ UNCHANGED <<accessVars, dataVars, asked, verified, history>>
    BY DEF Read
  <1>2. PICK rows \in Answers(part, q, x) :
            /\ seen' = [seen EXCEPT ![q] = [p \in DOMAIN @ \cup {part} |->
                                               IF p = part THEN rows ELSE @[p]]]
            /\ IF rows = {} /\ Required(part, x)
               THEN stage' = [stage EXCEPT ![q] = "missing"] /\ UNCHANGED position
               ELSE Advance(q) /\ UNCHANGED stage
    BY <1>1
  <1>3. /\ asOf' = [asOf EXCEPT ![q] = [p \in DOMAIN @ \cup {part} |->
                                           IF p = part THEN published ELSE @[p]]]
        /\ UNCHANGED <<accessVars, dataVars, asked, verified, history>>
        /\ Functional /\ RequestInv(q) /\ Progress(q, x)
    BY <1>1 DEF Inv, RequestInv
  <1>4. /\ x.view \in Views /\ stage[q] = "open"
        /\ part # "gate" /\ Plan[x.view][position[q]] = part
        /\ PlanFacts(x.view, position[q])
        /\ x.view \notin Ungated => position[q] > 1 /\ verified[q] = x.case
        /\ x.view = "row" => position[q] = 1 /\ part = "row"
    BY <1>1, StatementPlace
  <1>5. /\ part \in {"links", "findings"} \cup OnBehavior \cup ByUser \cup ByKey \cup OfCase
        /\ part \in ByUser => rows \subseteq couldRead[q]
        /\ part \in ByKey => rows \subseteq DOMAIN table /\ rows \subseteq x.key
        /\ part \in OfCase => \A y \in rows : y \in DOMAIN table /\ table[y] \in couldRead[q]
        /\ part = "findings" => \A y \in rows : Result[y[2]].case \in couldRead[q]
    BY <1>1, <1>2, StatementShows
  <1>6. \A y \in asked[q] : y = x
    BY <1>3 DEF RequestInv
  <1>7. /\ DOMAIN seen'[q] = DOMAIN seen[q] \cup {part} /\ DOMAIN asOf'[q] = DOMAIN asOf[q] \cup {part}
        /\ seen'[q][part] = rows
        /\ \A p \in DOMAIN seen[q] \ {part} : seen'[q][p] = seen[q][p]
    BY <1>2, <1>3
  <1>8. \/ stage'[q] = "missing" /\ position'[q] = position[q]
        \/ stage'[q] = "open" /\ position'[q] = position[q] + 1
    BY <1>2, <1>3, <1>4 DEF Advance
  <1>17. rows = {} /\ Required(part, x) => stage'[q] = "missing"
    BY <1>2, <1>3
  <1>9. Functional'
    <2>1. position' \in [Requests -> Nat \ {0}] /\ stage' \in [Requests -> {"idle", "open"} \cup Ended]
      BY <1>2, <1>3 DEF Advance, Ended
    <2>2. QED
      BY <1>2, <1>3, <2>1 DEF history
  <1>10. UNCHANGED <<table, grants, couldRead, wasActive>>
    BY <1>3 DEF accessVars, dataVars, history
  <1>11. Shown(q)'
    <2>1. ASSUME NEW p \in DOMAIN seen'[q]
          PROVE  /\ p \in {"links", "findings"} \cup OnBehavior \cup ByUser \cup ByKey \cup OfCase
                 /\ p \in ByUser => seen'[q][p] \subseteq couldRead[q]
                 /\ p \in ByKey => seen'[q][p] \subseteq DOMAIN table
                 /\ p \in OfCase => \A y \in seen'[q][p] :
                       y \in DOMAIN table /\ table[y] \in couldRead[q]
                 /\ p = "findings" => \A y \in seen'[q][p] : Result[y[2]].case \in couldRead[q]
      <3>1. CASE p = part
        BY <1>5, <1>7, <3>1
      <3>2. CASE p # part
        <4>1. p \in DOMAIN seen[q] /\ seen'[q][p] = seen[q][p]
          BY <1>7, <2>1, <3>2
        <4>2. QED
          BY <1>3, <4>1 DEF RequestInv, Shown
      <3>3. QED
        BY <3>1, <3>2
    <2>2. QED
      BY <1>10, <2>1 DEF Shown
  <1>12. Progress(q, x)'
    <2>1. x.view \notin Ungated /\ position'[q] > 1 => verified'[q] = x.case
      BY <1>3, <1>4
    <2>2. position'[q] \in Nat /\ position'[q] >= position[q] /\ position[q] \in Nat
      BY <1>3, <1>8
    <2>3. x.view = "behavior" => Detail(q, x)'
      BY <1>1, <1>2, <1>3, <1>4, <1>5, <1>6, <1>7, <1>8, <1>10, <1>11, <1>17, ReadDetail
    <2>9. ASSUME x.view # "behavior"
           PROVE  /\ DOMAIN seen'[q] \cap (OnBehavior \cup {"behavior"}) = {}
                  /\ "links" \in DOMAIN seen'[q] =>
                        \A y \in seen'[q]["links"] : Result[y[2]].case \in couldRead[q]
      <3>1. part \notin OnBehavior \cup {"behavior"}
        BY <1>4, <2>9 DEF PlanFacts
      <3>2. DOMAIN seen'[q] \cap (OnBehavior \cup {"behavior"}) = {}
        BY <1>3, <1>7, <2>9, <3>1 DEF Progress
      <3>3. CASE part = "links"
        BY <1>1, <1>2, <1>7, <2>9, <3>2, <3>3, ContextLinks
      <3>4. CASE part # "links"
        BY <1>3, <1>7, <2>9, <3>2, <3>4 DEF Progress
      <3>5. QED
        BY <3>2, <3>3, <3>4
    <2>4. "row" \in DOMAIN seen'[q] => x.view = "row" /\ seen'[q]["row"] \subseteq x.key
      <3>1. CASE part = "row"
        BY <1>4, <1>5, <1>7, <3>1 DEF PlanFacts, ByKey
      <3>2. CASE part # "row"
        BY <1>3, <1>7, <3>2 DEF Progress
      <3>3. QED
        BY <3>1, <3>2
    <2>5. x.view = "row" => position'[q] \in 1..2 /\ "row" \in DOMAIN seen'[q]
      BY <1>4, <1>7, <1>8
    <2>6. Readable(x.user)' = Readable(x.user)
      BY <1>10 DEF Readable, MayRead
    <2>7. wasActive[q] /\ Readable(x.user) \subseteq couldRead[q]
      BY <1>3, <1>4 DEF Progress
    <2>8. stage'[q] # "answered"
      BY <1>8
    <2>11. QED
      BY <1>10, <2>1, <2>3, <2>4, <2>5, <2>6, <2>7, <2>8, <2>9 DEF Progress
  <1>13. RequestInv(q)'
    <2>1. stage'[q] \notin {"idle", "answered"} /\ asked'[q] = asked[q] /\ verified'[q] = verified[q]
      BY <1>3, <1>8
    <2>2. DOMAIN seen'[q] = DOMAIN asOf'[q]
      BY <1>3, <1>7 DEF RequestInv
    <2>3. QED
      BY <1>3, <1>6, <1>10, <1>11, <1>12, <2>1, <2>2 DEF RequestInv
  <1>14. ASSUME NEW o \in Requests, o # q
         PROVE  RequestInv(o)'
    <2>1. /\ stage'[o] = stage[o] /\ position'[o] = position[o] /\ seen'[o] = seen[o]
          /\ asOf'[o] = asOf[o]
      BY <1>2, <1>3, <1>14 DEF Advance
    <2>2. QED
      BY <1>3, <1>10, <1>14, <2>1, OthersKeep
  <1>15. (AccessTypeOK /\ published \subseteq Analyses /\ DataInv)'
    BY <1>3 DEF Inv, AccessTypeOK, DataInv, accessVars, dataVars
  <1>16. QED
    BY <1>9, <1>13, <1>14, <1>15 DEF Inv

\* A request is answered.
LEMMA AnswerKeeps ==
    ASSUME Inv, NEW q \in Requests, Answer(q)
    PROVE  Inv'
  <1> USE DEF Functional
  <1>1. PICK x \in asked[q] :
            /\ stage[q] = "open" /\ position[q] > Len(Plan[x.view])
            /\ stage' = [stage EXCEPT ![q] = IF FoundMissing(q, x) THEN "missing" ELSE "answered"]
            /\ UNCHANGED <<accessVars, dataVars, position, asked, verified, seen, asOf, history>>
    BY DEF Answer
  <1>2. /\ Functional /\ RequestInv(q) /\ Progress(q, x) /\ \A y \in asked[q] : y = x
    BY <1>1 DEF Inv, RequestInv
  <1>3. stage'[q] = (IF FoundMissing(q, x) THEN "missing" ELSE "answered")
    BY <1>1, <1>2
  <1>4. ASSUME stage'[q] = "answered", x.view = "behavior"
        PROVE  \A key \in seen[q]["behavior"] : table[key] \in x.case
    BY <1>3, <1>4 DEF FoundMissing
  <1>5. UNCHANGED <<table, grants, couldRead, wasActive>>
    BY <1>1 DEF accessVars, dataVars, history
  <1>6. Progress(q, x)'
    <2>1. x.view = "behavior" => Detail(q, x)'
      BY <1>1, <1>2, <1>3, <1>5 DEF Progress, Detail, OfBehavior
    <2>2. QED
      BY <1>1, <1>2, <1>3, <1>4, <1>5, <2>1 DEF Progress
  <1>7. RequestInv(q)'
    BY <1>1, <1>2, <1>3, <1>5, <1>6 DEF RequestInv, Shown
  <1>8. \A o \in Requests : o # q => RequestInv(o)'
    BY <1>1, <1>2, <1>5, OthersKeep
  <1>9. Functional'
    BY <1>1, <1>2 DEF Ended, history
  <1>10. (AccessTypeOK /\ published \subseteq Analyses /\ DataInv)'
    BY <1>1 DEF Inv, AccessTypeOK, DataInv, accessVars, dataVars
  <1>11. QED
    BY <1>7, <1>8, <1>9, <1>10 DEF Inv

-----------------------------------------------------------------------------
(***************************************************************************)
(* The steps around the requests.                                          *)
(***************************************************************************)

\* What an analysis writes is of its case, as far as the key says so.
LEMMA PublishedRows ==
    ASSUME NEW a \in Analyses, NEW key \in RowsBy(a)
    PROVE  /\ key[1] = "mitre" => key[2] = Result[a].case
           /\ key[1] \in {"event", "relationship", "behavior"} => key[2] = a
  <1>1. CASE key \in {<<"entity", e>> : e \in Result[a].entities}
    BY <1>1
  <1>2. CASE key \in {<<"relationship", a, e[1], e[2]>> : e \in Result[a].edges}
    BY <1>2
  <1>3. CASE key \in {<<"event", a>>, <<"behavior", a>>}
    BY <1>3
  <1>4. CASE key \in MappingsOf(Result[a].case, Result[a].techniques)
    BY <1>4 DEF MappingsOf
  <1>5. QED
    BY <1>1, <1>2, <1>3, <1>4 DEF RowsBy

\* An analysis commits its rows.
LEMMA PublishKeeps ==
    ASSUME Inv, NEW a \in Analyses, Publish(a)
    PROVE  Inv'
  <1> DEFINE c == Result[a].case
  <1>1. /\ published' = published \cup {a}
        /\ table' = [key \in DOMAIN table \cup RowsBy(a) |->
                        IF key \in DOMAIN table THEN table[key] ELSE c]
        /\ chains' = [chains EXCEPT ![c] = Result[a].techniques]
        /\ UNCHANGED <<accessVars, requestVars, history>>
    BY DEF Publish
  <1>2. c \in Cases
    BY ViewsAssumption
  <1>3. \A key \in DOMAIN table : key \in DOMAIN table' /\ table'[key] = table[key]
    BY <1>1
  <1>4. ASSUME NEW q \in Requests
        PROVE  RequestInv(q)'
    <2>1. stage[q] = "open" => \A x \in asked[q] : Readable(x.user) \subseteq couldRead[q]
      BY DEF Inv, RequestInv, Progress
    <2>2. \A x \in asked[q] : Readable(x.user)' = Readable(x.user)
      BY <1>1 DEF Readable, MayRead, accessVars
    <2>3. QED
      BY <1>1, <1>3, <2>1, <2>2, UntouchedRequest DEF requestVars, history
  <1>5. DataInv'
    <2>1. DataInv
      BY DEF Inv
    <2>2. chains' \in [Cases -> SUBSET UNION {Result[b].techniques : b \in Analyses}]
      BY <1>1, <1>2, <2>1 DEF DataInv
    <2>3. ASSUME NEW key \in DOMAIN table'
          PROVE  /\ table'[key] \in Cases
                 /\ key[1] = "mitre" => table'[key] = key[2]
                 /\ key[1] \in {"event", "relationship", "behavior"} =>
                       key[2] \in Analyses /\ table'[key] = Result[key[2]].case
      <3>1. CASE key \in DOMAIN table
        BY <1>3, <2>1, <3>1 DEF DataInv
      <3>2. CASE key \notin DOMAIN table
        <4>1. key \in RowsBy(a) /\ table'[key] = c
          BY <1>1, <2>3, <3>2
        <4>2. QED
          BY <1>2, <4>1, PublishedRows
      <3>3. QED
        BY <3>1, <3>2
    <2>4. ASSUME NEW d \in Cases, NEW t \in chains'[d]
          PROVE  <<"mitre", d, t>> \in DOMAIN table'
      <3>1. CASE d = c
        <4>1. t \in Result[a].techniques
          BY <1>1, <1>2, <2>1, <2>4, <3>1 DEF DataInv
        <4>2. <<"mitre", d, t>> \in RowsBy(a)
          BY <3>1, <4>1 DEF RowsBy, MappingsOf
        <4>3. QED
          BY <1>1, <4>2
      <3>2. CASE d # c
        <4>1. t \in chains[d]
          BY <1>1, <1>2, <2>1, <2>4, <3>2 DEF DataInv
        <4>2. QED
          BY <1>3, <2>1, <4>1 DEF DataInv
      <3>3. QED
        BY <3>1, <3>2
    <2>5. QED
      BY <2>2, <2>3, <2>4 DEF DataInv
  <1>6. Functional'
    BY <1>1 DEF Inv, Functional, requestVars, history
  <1>7. (AccessTypeOK /\ published \subseteq Analyses)'
    BY <1>1 DEF Inv, AccessTypeOK, accessVars
  <1>8. QED
    BY <1>4, <1>5, <1>6, <1>7 DEF Inv

\* Users, cases and grants keep their types; no refusal by a gate is recorded.
LEMMA AccessKeeps ==
    ASSUME AccessTypeOK, AccessNext
    PROVE  /\ AccessTypeOK'
           /\ \A u \in Users, c \in Cases :
                 <<"case_access_denied", u, c>> \in trail' <=> <<"case_access_denied", u, c>> \in trail
  <1> USE DEF AccessTypeOK, Denials
  <1>1. PICK u \in Users :
            \/ Login(u) \/ Expire(u) \/ SetActive(u)
            \/ \E c \in Cases : CreateCase(u, c) \/ SetGrant(u, c)
    BY DEF AccessNext
  <1>2. CASE Login(u)
    BY <1>2 DEF Login
  <1>3. CASE Expire(u)
    BY <1>3 DEF Expire
  <1>4. CASE SetActive(u)
    BY <1>4 DEF SetActive
  <1>5. ASSUME NEW c \in Cases, CreateCase(u, c)
        PROVE  /\ AccessTypeOK'
               /\ \A v \in Users, d \in Cases :
                     <<"case_access_denied", v, d>> \in trail' <=> <<"case_access_denied", v, d>> \in trail
    <2>1. CASE RoleOf[u] \in {"administrator", "investigator"}
      BY <1>5, <2>1 DEF CreateCase
    <2>2. CASE RoleOf[u] \notin {"administrator", "investigator"}
      BY <1>5, <2>2 DEF CreateCase, Record
    <2>3. QED
      BY <2>1, <2>2
  <1>6. ASSUME NEW c \in Cases, SetGrant(u, c)
        PROVE  /\ AccessTypeOK'
               /\ UNCHANGED trail
    BY <1>6 DEF SetGrant
  <1>7. QED
    BY <1>1, <1>2, <1>3, <1>4, <1>5, <1>6

\* Sessions, cases and maintenance.
LEMMA SurroundingsKeep ==
    ASSUME Inv, Surroundings
    PROVE  Inv'
  <1>1. /\ AccessNext
        /\ wasActive' = [q \in Requests |->
              wasActive[q] \/ (stage[q] = "open" /\ \E x \in asked[q] : x.user \in active')]
        /\ couldRead' = [q \in Requests |->
              IF stage[q] = "open" THEN couldRead[q] \cup UNION {Readable(x.user)' : x \in asked[q]}
              ELSE couldRead[q]]
        /\ UNCHANGED <<dataVars, requestVars>>
    BY DEF Surroundings
  <1>2. Functional'
    <2>1. wasActive' \in [Requests -> BOOLEAN]
      BY <1>1 DEF Inv, Functional
    <2>2. couldRead' \in [Requests -> SUBSET Cases]
      <3>1. \A q \in Requests : couldRead[q] \subseteq Cases
        BY DEF Inv, Functional
      <3>2. \A u : Readable(u)' \subseteq Cases
        BY DEF Readable
      <3>3. \A q \in Requests : couldRead'[q] \subseteq Cases
        BY <1>1, <3>1, <3>2
      <3>4. QED
        BY <1>1, <3>3
    <2>3. QED
      BY <1>1, <2>1, <2>2 DEF Inv, Functional, requestVars
  <1>3. ASSUME NEW q \in Requests
        PROVE  RequestInv(q)'
    <2>1. wasActive[q] => wasActive'[q]
      BY <1>1
    <2>2. couldRead[q] \subseteq couldRead'[q]
      BY <1>1
    <2>3. stage[q] = "open" => \A x \in asked[q] : Readable(x.user)' \subseteq couldRead'[q]
      BY <1>1
    <2>4. \A key \in DOMAIN table : key \in DOMAIN table' /\ table'[key] = table[key]
      BY <1>1 DEF dataVars
    <2>5. /\ stage'[q] = stage[q] /\ position'[q] = position[q] /\ asked'[q] = asked[q]
          /\ verified'[q] = verified[q] /\ seen'[q] = seen[q] /\ asOf'[q] = asOf[q]
      BY <1>1 DEF requestVars
    <2>6. QED
      BY <2>1, <2>2, <2>3, <2>4, <2>5, UntouchedRequest
  <1>4. AccessTypeOK'
    BY <1>1, AccessKeeps DEF Inv
  <1>5. (published \subseteq Analyses /\ DataInv)'
    BY <1>1 DEF Inv, DataInv, dataVars
  <1>6. QED
    BY <1>2, <1>3, <1>4, <1>5 DEF Inv

\* Every step keeps the invariant.
LEMMA NextInv == Inv /\ [Next]_vars => Inv'
  <1> SUFFICES ASSUME Inv, [Next]_vars
               PROVE  Inv'
    OBVIOUS
  <1>1. ASSUME NEW q \in Requests, NEW x \in Questions, Arrive(q, x)
        PROVE  Inv'
    BY <1>1, ArriveKeeps
  <1>2. ASSUME NEW q \in Requests, Gate(q)
        PROVE  Inv'
    BY <1>2, GateKeeps
  <1>3. ASSUME NEW q \in Requests, Answer(q)
        PROVE  Inv'
    BY <1>3, AnswerKeeps
  <1>4. ASSUME NEW q \in Requests, NEW part \in Parts, Read(q, part)
        PROVE  Inv'
    BY <1>4, ReadKeeps
  <1>5. ASSUME NEW a \in Analyses, Publish(a)
        PROVE  Inv'
    BY <1>5, PublishKeeps
  <1>6. CASE Surroundings
    BY <1>6, SurroundingsKeep
  <1>7. CASE UNCHANGED vars
    <2>1. \A q : Readable(q)' = Readable(q)
      BY <1>7 DEF Readable, MayRead, vars, accessVars
    <2>2. \A q \in Requests : RequestInv(q)'
      BY <1>7, <2>1 DEF vars, accessVars, dataVars, requestVars, history, Inv, RequestInv,
                        Shown, Progress, Detail, OfBehavior
    <2>3. (AccessTypeOK /\ published \subseteq Analyses /\ DataInv /\ Functional)'
      BY <1>7 DEF vars, accessVars, dataVars, requestVars, history, Inv, AccessTypeOK,
                  DataInv, Functional
    <2>4. QED
      BY <2>2, <2>3 DEF Inv
  <1>8. QED
    BY <1>1, <1>2, <1>3, <1>4, <1>5, <1>6, <1>7 DEF Next

-----------------------------------------------------------------------------
(***************************************************************************)
(* The refusals on the trail.                                              *)
(***************************************************************************)

Refused(q, u, c) ==
    stage[q] = "refused" /\ \E x \in asked[q] : x.view \in Recording /\ x.user = u /\ x.case = {c}

TrailInv ==
    \A u \in Users, c \in Cases :
        <<"case_access_denied", u, c>> \in trail <=> \E q \in Requests : Refused(q, u, c)

\* A step that refuses nobody and records no refusal of a gate keeps it.
LEMMA NoRefusal ==
    ASSUME TrailInv,
           \A u \in Users, c \in Cases :
              <<"case_access_denied", u, c>> \in trail' <=> <<"case_access_denied", u, c>> \in trail,
           \A q \in Requests : stage'[q] = "refused" <=> stage[q] = "refused",
           \A q \in Requests : stage[q] = "refused" => asked'[q] = asked[q]
    PROVE  TrailInv'
  <1>1. ASSUME NEW u \in Users, NEW c \in Cases
        PROVE  (\E q \in Requests : Refused(q, u, c)') <=> \E q \in Requests : Refused(q, u, c)
    BY DEF Refused
  <1>2. QED
    BY <1>1 DEF TrailInv

\* What a gate refuses is recorded where the gate has the request.
LEMMA GateRecords ==
    ASSUME Inv, TrailInv, NEW q \in Requests, Gate(q)
    PROVE  TrailInv'
  <1>1. PICK x \in asked[q] :
            /\ At(q, x, "gate")
            /\ \E c \in GatedCase(q, x) :
                  IF MayRead(x.user, c)
                  THEN UNCHANGED <<stage, trail>>
                  ELSE /\ stage' = [stage EXCEPT ![q] = "refused"]
                       /\ IF x.view \in Recording THEN Record("case_access_denied", x.user, c)
                          ELSE UNCHANGED trail
            /\ UNCHANGED asked
    BY DEF Gate
  <1>2. PICK c \in GatedCase(q, x) :
            IF MayRead(x.user, c)
            THEN UNCHANGED <<stage, trail>>
            ELSE /\ stage' = [stage EXCEPT ![q] = "refused"]
                 /\ IF x.view \in Recording THEN Record("case_access_denied", x.user, c)
                    ELSE UNCHANGED trail
    BY <1>1
  <1>3. /\ x \in Questions /\ c \in Cases
        /\ x.view \in Recording => x.case = {c}
    BY <1>1, <1>2, GateCase DEF Recording
  <1>4. CASE MayRead(x.user, c)
    BY <1>1, <1>2, <1>4, NoRefusal
  <1>5. CASE ~MayRead(x.user, c)
    <2>1. /\ stage' = [stage EXCEPT ![q] = "refused"]
          /\ asked' = asked /\ stage[q] = "open" /\ DOMAIN stage = Requests
          /\ \A y \in asked[q] : y = x
      BY <1>1, <1>2, <1>5 DEF At, Inv, RequestInv, Functional
    <2>2. \A o \in Requests : o # q => stage'[o] = stage[o]
      BY <2>1
    <2>3. ASSUME NEW u \in Users, NEW d \in Cases
          PROVE  /\ Refused(q, u, d)' <=> x.view \in Recording /\ x.user = u /\ x.case = {d}
                 /\ ~Refused(q, u, d)
                 /\ \A o \in Requests : o # q => (Refused(o, u, d)' <=> Refused(o, u, d))
      BY <2>1, <2>2 DEF Refused
    <2>4. CASE x.view \in Recording
      <3>1. trail' = trail \cup {<<"case_access_denied", x.user, c>>}
        BY <1>2, <1>5, <2>4 DEF Record
      <3>2. ASSUME NEW u \in Users, NEW d \in Cases
            PROVE  Refused(q, u, d)' <=> u = x.user /\ d = c
        BY <1>3, <2>3, <2>4
      <3>3. ASSUME NEW u \in Users, NEW d \in Cases
            PROVE  <<"case_access_denied", u, d>> \in trail' <=>
                       <<"case_access_denied", u, d>> \in trail \/ Refused(q, u, d)'
        BY <3>1, <3>2
      <3>4. ASSUME NEW u \in Users, NEW d \in Cases
            PROVE  (\E o \in Requests : Refused(o, u, d)') <=>
                       (\E o \in Requests : Refused(o, u, d)) \/ Refused(q, u, d)'
        <4>1. /\ ~Refused(q, u, d)
              /\ \A o \in Requests : o # q => (Refused(o, u, d)' <=> Refused(o, u, d))
          BY <2>3
        <4>2. QED
          BY <4>1, Zenon
      <3>5. ASSUME NEW u \in Users, NEW d \in Cases
            PROVE  <<"case_access_denied", u, d>> \in trail' <=> \E o \in Requests : Refused(o, u, d)'
        BY <3>3, <3>4 DEF TrailInv
      <3>6. QED
        BY <3>5 DEF TrailInv
    <2>5. CASE x.view \notin Recording
      <3>1. trail' = trail
        BY <1>2, <1>5, <2>5
      <3>2. QED
        BY <2>3, <2>5, <3>1 DEF TrailInv
    <2>6. QED
      BY <2>4, <2>5
  <1>6. QED
    BY <1>4, <1>5

\* Every step keeps the trail in step with the refusals.
LEMMA NextTrail == Inv /\ TrailInv /\ [Next]_vars => TrailInv'
  <1> SUFFICES ASSUME Inv, TrailInv, [Next]_vars
               PROVE  TrailInv'
    OBVIOUS
  <1>1. DOMAIN stage = Requests /\ DOMAIN asked = Requests
    BY DEF Inv, Functional
  <1>2. ASSUME NEW q \in Requests, NEW x \in Questions, Arrive(q, x)
        PROVE  TrailInv'
    <2>1. \A o \in Requests : stage'[o] = "refused" <=> stage[o] = "refused"
      BY <1>1, <1>2 DEF Arrive
    <2>2. \A o \in Requests : stage[o] = "refused" => asked'[o] = asked[o]
      BY <1>1, <1>2 DEF Arrive
    <2>3. trail' = trail
      BY <1>2 DEF Arrive, accessVars
    <2>4. QED
      BY <2>1, <2>2, <2>3, NoRefusal
  <1>3. ASSUME NEW q \in Requests, Gate(q)
        PROVE  TrailInv'
    BY <1>3, GateRecords
  <1>4. ASSUME NEW q \in Requests, Answer(q)
        PROVE  TrailInv'
    <2>1. \A o \in Requests : stage'[o] = "refused" <=> stage[o] = "refused"
      BY <1>1, <1>4 DEF Answer
    <2>2. asked' = asked /\ trail' = trail
      BY <1>4 DEF Answer, accessVars
    <2>3. QED
      BY <2>1, <2>2, NoRefusal
  <1>5. ASSUME NEW q \in Requests, NEW part \in Parts, Read(q, part)
        PROVE  TrailInv'
    <2>1. \A o \in Requests : stage'[o] = "refused" <=> stage[o] = "refused"
      BY <1>1, <1>5 DEF Read, At
    <2>2. asked' = asked /\ trail' = trail
      BY <1>5 DEF Read, accessVars
    <2>3. QED
      BY <2>1, <2>2, NoRefusal
  <1>6. ASSUME NEW a \in Analyses, Publish(a)
        PROVE  TrailInv'
    BY <1>6, NoRefusal DEF Publish, accessVars, requestVars
  <1>7. CASE Surroundings
    <2>1. stage' = stage /\ asked' = asked
      BY <1>7 DEF Surroundings, requestVars
    <2>2. \A u \in Users, c \in Cases :
              <<"case_access_denied", u, c>> \in trail' <=> <<"case_access_denied", u, c>> \in trail
      BY <1>7, AccessKeeps DEF Surroundings, Inv
    <2>3. QED
      BY <2>1, <2>2, NoRefusal
  <1>8. CASE UNCHANGED vars
    BY <1>8, NoRefusal DEF vars, accessVars, requestVars
  <1>9. QED
    BY <1>2, <1>3, <1>4, <1>5, <1>6, <1>7, <1>8 DEF Next

-----------------------------------------------------------------------------
(***************************************************************************)
(* What a view shows together.  A page that was not full is all there is,  *)
(* and stays so until the next publication.                                *)
(***************************************************************************)

\* The order in which the statements that are compared stand in their plans.
OrderFacts(view, i, j) ==
    LET first == Plan[view][i]
        then == Plan[view][j]
    IN  /\ first # then
        /\ then = "entities" => first \notin {"relationships", "total"}
        /\ then = "mitre" => first # "chain"
        /\ then \in {"edges", "events"} => first # "endpoints"

Reads(view, part) == \E i \in 1..Len(Plan[view]) : Plan[view][i] = part
ReadsAfter(view, then, first) ==
    \A j \in 1..Len(Plan[view]) : Plan[view][j] = then => \E i \in 1..(j - 1) : Plan[view][i] = first

\* Which route reads what, and what before what.
LEMMA PlanOrder ==
    ASSUME NEW view \in Views
    PROVE  /\ \A i, j \in 1..Len(Plan[view]) : i < j => OrderFacts(view, i, j)
           /\ view = "behavior" =>
                 /\ Reads(view, "endpoints")
                 /\ ReadsAfter(view, "endpoints", "edges") /\ ReadsAfter(view, "endpoints", "events")
           /\ view \in {"graph", "report", "context"} =>
                 Reads(view, "relationships") /\ ReadsAfter(view, "relationships", "entities")
           /\ view = "context" => Reads(view, "chain") /\ ReadsAfter(view, "chain", "mitre")
           /\ view = "entities" => Reads(view, "total") /\ ReadsAfter(view, "total", "entities")
  <1> USE DEF OrderFacts, Reads, ReadsAfter
  <1>1. DOMAIN Plan = {"entities", "graph", "chain", "behavior", "row", "report", "context", "cases"}
    BY DEF Plan
  <1>2. view \in DOMAIN Plan
    BY ViewsAssumption
  <1>3. CASE view = "entities"
    BY <1>3 DEF Plan, ListEntities
  <1>4. CASE view = "graph"
    BY <1>4 DEF Plan, GetGraph
  <1>5. CASE view = "chain"
    BY <1>5 DEF Plan, GetAttackChain
  <1>6. CASE view = "behavior"
    BY <1>6 DEF Plan, GetBehavior
  <1>7. CASE view = "row"
    BY <1>7 DEF Plan, GetRow
  <1>8. CASE view = "report"
    BY <1>8 DEF Plan, GenerateReport
  <1>9. CASE view = "context"
    BY <1>9 DEF Plan, BuildContext
  <1>10. CASE view = "cases"
    BY <1>10 DEF Plan, ListCases
  <1>11. QED
    BY <1>1, <1>2, <1>3, <1>4, <1>5, <1>6, <1>7, <1>8, <1>9, <1>10

\* The ends of a relationship that is there are there as well, and what an event is about.
EndsKnown ==
    \A key \in DOMAIN table :
        /\ key[1] = "relationship" =>
              <<"entity", key[3]>> \in DOMAIN table /\ <<"entity", key[4]>> \in DOMAIN table
        /\ key[1] = "event" => \A e \in Result[key[2]].source : <<"entity", e>> \in DOMAIN table

AsOfInv(q) == \A part \in DOMAIN asOf[q] : asOf[q][part] \subseteq published

\* What a request has been answered is what its plan has before its position.
SeenSoFar(q, x) ==
    DOMAIN seen[q] = {Plan[x.view][i] : i \in 1..(position[q] - 1)} \ {"gate"}

KindOf(part) == IF part = "events" THEN "event" ELSE "relationship"

RelationshipsSeen(q) ==
    \A part \in DOMAIN seen[q] \cap {"relationships", "edges", "events"} :
        \A y \in seen[q][part] : y \in DOMAIN table /\ y[1] = KindOf(part)

\* Nothing was published since a part was read, and its page was not full.
Current(q, part) ==
    part \in DOMAIN seen[q] /\ asOf[q][part] = published /\ Cardinality(seen[q][part]) < Limit

Fresh(q, x) ==
    \A c \in x.case :
        /\ Current(q, "entities") => seen[q]["entities"] = RowsOf("entity", c)
        /\ Current(q, "mitre") => seen[q]["mitre"] = RowsOf("mitre", c)

\* The conjuncts of ViewsAreConsistent, as soon as the later part has been read.
EndsShown(q, x) ==
    x.view = "behavior" /\ "endpoints" \in DOMAIN seen[q] =>
        Ends(seen[q]["edges"]) \cup Sources(seen[q]["events"]) \subseteq seen[q]["endpoints"]
EndsExplained(q, x) ==
    x.view \in {"graph", "report", "context"} /\ "relationships" \in DOMAIN seen[q]
      /\ Undisturbed(q, "entities", "relationships") =>
        \A e \in Ends(seen[q]["relationships"]) \ seen[q]["entities"] :
            e \in DOMAIN table /\ table[e] \notin x.case
ChainMapped(q, x) ==
    x.view = "context" /\ "chain" \in DOMAIN seen[q] /\ Undisturbed(q, "mitre", "chain") =>
        seen[q]["chain"] \subseteq seen[q]["mitre"]
TotalShown(q, x) ==
    x.view = "entities" /\ "total" \in DOMAIN seen[q] /\ Undisturbed(q, "entities", "total") =>
        seen[q]["total"] = seen[q]["entities"]

Together(q, x) == EndsShown(q, x) /\ EndsExplained(q, x) /\ ChainMapped(q, x) /\ TotalShown(q, x)

Consistent(q) ==
    \A x \in asked[q] : stage[q] \in {"open", "answered"} =>
        SeenSoFar(q, x) /\ RelationshipsSeen(q) /\ Fresh(q, x) /\ Together(q, x)

ViewsInv == EndsKnown /\ \A q \in Requests : AsOfInv(q) /\ Consistent(q)

\* It holds initially.
LEMMA InitViews == Init => ViewsInv
  BY DEF Init, ViewsInv, EndsKnown, AsOfInv, Consistent

\* A request to which nothing is answered in a step stays consistent: rows stay, and
\* what is published in the step ends the currency of what it has read.
LEMMA NothingRead ==
    ASSUME Inv, ViewsInv, NEW q \in Requests,
           asked'[q] = asked[q], seen'[q] = seen[q], asOf'[q] = asOf[q],
           stage'[q] \in {"open", "answered"} => stage[q] \in {"open", "answered"},
           \A x \in asked[q] : stage[q] \in {"open", "answered"} /\ SeenSoFar(q, x) => SeenSoFar(q, x)',
           published \subseteq published',
           \A key \in DOMAIN table : key \in DOMAIN table' /\ table'[key] = table[key],
           (table' = table /\ published' = published) \/ \E a \in published' : a \notin published
    PROVE  AsOfInv(q)' /\ Consistent(q)'
  <1>1. AsOfInv(q) /\ Consistent(q) /\ DOMAIN seen[q] = DOMAIN asOf[q]
    BY DEF ViewsInv, Inv, RequestInv
  <1>2. AsOfInv(q)'
    BY <1>1 DEF AsOfInv
  <1>3. ASSUME NEW x \in asked[q], stage[q] \in {"open", "answered"}
        PROVE  SeenSoFar(q, x)' /\ RelationshipsSeen(q)' /\ Fresh(q, x)' /\ Together(q, x)'
    <2>1. SeenSoFar(q, x) /\ RelationshipsSeen(q) /\ Fresh(q, x) /\ Together(q, x)
      BY <1>1, <1>3 DEF Consistent
    <2>2. SeenSoFar(q, x)'
      BY <1>3, <2>1
    <2>3. RelationshipsSeen(q)'
      BY <2>1 DEF RelationshipsSeen
    <2>4. Fresh(q, x)'
      <3>1. CASE table' = table /\ published' = published
        BY <2>1, <3>1 DEF Fresh, Current, RowsOf
      <3>2. CASE \E a \in published' : a \notin published
        BY <1>1, <3>2 DEF Fresh, Current, AsOfInv
      <3>3. QED
        BY <3>1, <3>2
    <2>5. EndsShown(q, x)' /\ ChainMapped(q, x)' /\ TotalShown(q, x)'
      BY <2>1 DEF Together, EndsShown, ChainMapped, TotalShown, Undisturbed, Ends, Sources
    <2>6. EndsExplained(q, x)'
      BY <2>1 DEF Together, EndsExplained, Undisturbed, Ends
    <2>7. QED
      BY <2>2, <2>3, <2>4, <2>5, <2>6 DEF Together
  <1>4. QED
    BY <1>2, <1>3 DEF Consistent

\* A page that is not full is all there is.
LEMMA PartialPage ==
    ASSUME NEW R, NEW P \in Page(R)
    PROVE  P \subseteq R /\ (Cardinality(P) < Limit => P = R)
  <1>1. Limit \in Nat
    BY ViewsAssumption
  <1>2. CASE Cardinality(R) <= Limit
    BY <1>2 DEF Page
  <1>3. CASE ~(Cardinality(R) <= Limit)
    <2>1. P \subseteq R /\ Cardinality(P) = Limit
      BY <1>3 DEF Page
    <2>2. QED
      BY <1>1, <2>1
  <1>4. QED
    BY <1>2, <1>3

\* What the compared statements are answered from.
LEMMA ComparedAnswers ==
    ASSUME NEW q, NEW c
    PROVE  /\ \A P \in AnswersOf("entities", q, c) : P \in Page(RowsOf("entity", c))
           /\ \A P \in AnswersOf("mitre", q, c) : P \in Page(RowsOf("mitre", c))
           /\ \A P \in AnswersOf("relationships", q, c) : P \in Page(RowsOf("relationship", c))
           /\ \A P \in AnswersOf("total", q, c) : P = RowsOf("entity", c)
           /\ \A P \in AnswersOf("chain", q, c) : P = MappingsOf(c, chains[c])
  BY DEF AnswersOf

\* The entities of a behaviour are answered from what its events and edges name, and its
\* events and edges are of these kinds.
LEMMA DetailAnswers ==
    ASSUME NEW q, NEW b
    PROVE  /\ \A P \in AnswersOn("endpoints", q, b) :
                 LET named == Ends(seen[q]["edges"]) \cup Sources(seen[q]["events"])
                 IN  named # {} => P = named \cap DOMAIN table
           /\ \A P \in AnswersOn("events", q, b) : \A y \in P : y \in DOMAIN table /\ y[1] = "event"
           /\ \A P \in AnswersOn("edges", q, b) : \A y \in P :
                 y \in DOMAIN table /\ y[1] = "relationship"
  <1>1. \A P \in AnswersOn("endpoints", q, b) :
            LET named == Ends(seen[q]["edges"]) \cup Sources(seen[q]["events"])
            IN  named # {} => P = named \cap DOMAIN table
    BY DEF AnswersOn, Endpoints
  <1>2. \A P \in AnswersOn("events", q, b) : P = LinkedTo({<<"finding", b[2]>>}, "event")
    BY DEF AnswersOn
  <1>3. \A P \in AnswersOn("edges", q, b) :
            \/ P = LinkedTo(seen[q]["links"], "relationship")
            \/ P \in Page(RowsOf("relationship", table[b]))
    BY DEF AnswersOn
  <1>4. \A findings, kind : \A y \in LinkedTo(findings, kind) : y \in DOMAIN table /\ y[1] = kind
    BY DEF LinkedTo
  <1>5. \A P \in Page(RowsOf("relationship", table[b])) : P \subseteq RowsOf("relationship", table[b])
    BY DEF Page
  <1>6. \A y \in RowsOf("relationship", table[b]) : y \in DOMAIN table /\ y[1] = "relationship"
    BY DEF RowsOf
  <1>7. QED
    BY <1>1, <1>2, <1>3, <1>4, <1>5, <1>6

\* A statement keeps its request consistent.
LEMMA ReadConsistent ==
    ASSUME Inv, ViewsInv, NEW q \in Requests, NEW part \in Parts, Read(q, part)
    PROVE  AsOfInv(q)' /\ Consistent(q)'
  <1> USE DEF Functional
  <1>1. PICK x \in asked[q] :
            /\ At(q, x, part)
            /\ \E rows \in Answers(part, q, x) :
                  /\ seen' = [seen EXCEPT ![q] = [p \in DOMAIN @ \cup {part} |->
                                                     IF p = part THEN rows ELSE @[p]]]
                  /\ IF rows = {} /\ Required(part, x)
                     THEN stage' = [stage EXCEPT ![q] = "missing"] /\ UNCHANGED position
                     ELSE Advance(q) /\ UNCHANGED stage
            /\ asOf' = [asOf EXCEPT ![q] = [p \in DOMAIN @ \cup {part} |->
                                               IF p = part THEN published ELSE @[p]]]
            /\ UNCHANGED <<accessVars, dataVars, asked, verified, history>>
    BY DEF Read
  <1>2. PICK rows \in Answers(part, q, x) :
            /\ seen' = [seen EXCEPT ![q] = [p \in DOMAIN @ \cup {part} |->
                                               IF p = part THEN rows ELSE @[p]]]
            /\ IF rows = {} /\ Required(part, x)
               THEN stage' = [stage EXCEPT ![q] = "missing"] /\ UNCHANGED position
               ELSE Advance(q) /\ UNCHANGED stage
    BY <1>1
  <1>3. /\ UNCHANGED <<table, chains, published, asked, verified>>
        /\ Functional /\ RequestInv(q) /\ AsOfInv(q) /\ Consistent(q) /\ EndsKnown /\ DataInv
        /\ \A y \in asked[q] : y = x
    BY <1>1 DEF Inv, RequestInv, ViewsInv, dataVars
  <1>4. /\ x \in Questions /\ x.view \in Views /\ stage[q] = "open"
        /\ position[q] \in 1..Len(Plan[x.view])
        /\ part # "gate" /\ Plan[x.view][position[q]] = part
        /\ PlanFacts(x.view, position[q])
        /\ x.view \notin Ungated => verified[q] = x.case
    BY <1>1, StatementPlace
  <1>5. SeenSoFar(q, x) /\ RelationshipsSeen(q) /\ Fresh(q, x) /\ Together(q, x)
    BY <1>3, <1>4 DEF Consistent
  <1>6. /\ DOMAIN seen'[q] = DOMAIN seen[q] \cup {part}
        /\ seen'[q][part] = rows /\ asOf'[q][part] = published
        /\ DOMAIN asOf'[q] = DOMAIN asOf[q] \cup {part}
        /\ \A p \in DOMAIN asOf[q] : p # part => asOf'[q][p] = asOf[q][p]
        /\ \A p \in DOMAIN seen[q] : p # part => seen'[q][p] = seen[q][p]
        /\ DOMAIN seen[q] = DOMAIN asOf[q]
    BY <1>1, <1>2, <1>3 DEF RequestInv
  <1>7. AsOfInv(q)'
    BY <1>3, <1>6 DEF AsOfInv
  <1>8. CASE stage'[q] = "missing"
    BY <1>3, <1>7, <1>8 DEF Consistent
  <1>9. CASE stage'[q] # "missing"
    <2>1. position'[q] = position[q] + 1
      BY <1>2, <1>3, <1>9 DEF Advance
    <2>2. \A i \in 1..(position[q] - 1) : OrderFacts(x.view, i, position[q])
      <3>1. Len(Plan[x.view]) \in Nat
        BY <1>4, Plans
      <3>2. \A i \in 1..(position[q] - 1) : i \in 1..Len(Plan[x.view]) /\ i < position[q]
        BY <1>4, <3>1
      <3>3. QED
        BY <1>4, <3>2, PlanOrder
    <2>3. /\ part \notin DOMAIN seen[q]
          /\ part = "entities" => "relationships" \notin DOMAIN seen[q] /\ "total" \notin DOMAIN seen[q]
          /\ part = "mitre" => "chain" \notin DOMAIN seen[q]
          /\ part \in {"edges", "events"} => "endpoints" \notin DOMAIN seen[q]
      BY <1>4, <1>5, <2>2 DEF SeenSoFar, OrderFacts
    <2>4. \A first : ReadsAfter(x.view, part, first) /\ first # "gate" => first \in DOMAIN seen[q]
      BY <1>4, <1>5 DEF SeenSoFar, ReadsAfter
    <2>5. \A p \in DOMAIN seen[q] : p # part /\ seen'[q][p] = seen[q][p] /\ asOf'[q][p] = asOf[q][p]
      BY <1>6, <2>3
    <2>6. SeenSoFar(q, x)'
      <3>1. 1..(position'[q] - 1) = (1..(position[q] - 1)) \cup {position[q]}
        BY <1>4, <2>1
      <3>2. {Plan[x.view][i] : i \in 1..(position'[q] - 1)}
                = {Plan[x.view][i] : i \in 1..(position[q] - 1)} \cup {part}
        BY <1>4, <3>1
      <3>3. QED
        BY <1>4, <1>5, <1>6, <3>2 DEF SeenSoFar
    <2>7. part \in OfCase => \E c \in x.case :
              /\ rows \in AnswersOf(part, q, c)
              /\ \A d \in x.case : d = c
              /\ c \in Cases
      <3>1. SUFFICES ASSUME part \in OfCase
                     PROVE  \E c \in x.case : /\ rows \in AnswersOf(part, q, c)
                                              /\ \A d \in x.case : d = c
                                              /\ c \in Cases
        OBVIOUS
      <3>2. verified[q] = x.case
        BY <1>4, <3>1 DEF PlanFacts
      <3>3. PICK c \in verified[q] : rows \in AnswersOf(part, q, c)
        BY <1>2, <3>1 DEF OfCase, Answers, ByQuestion, OnBehavior
      <3>4. QED
        BY <1>4, <3>2, <3>3, QuestionFields
    <2>8. part \in {"relationships", "edges", "events"} =>
              \A y \in rows : y \in DOMAIN table /\ y[1] = KindOf(part)
      <3>1. ASSUME part = "relationships", NEW y \in rows
            PROVE  y \in DOMAIN table /\ y[1] = "relationship"
        <4>1. PICK c \in x.case : rows \in AnswersOf(part, q, c)
          BY <2>7, <3>1 DEF OfCase
        <4>2. rows \subseteq RowsOf("relationship", c)
          BY <3>1, <4>1, ComparedAnswers, PartialPage
        <4>3. QED
          BY <3>1, <4>2 DEF RowsOf
      <3>2. ASSUME part \in {"edges", "events"}
            PROVE  \E d : rows \in AnswersOn(part, q, d)
        BY <1>2, <3>2 DEF Answers, OnBehavior, ByQuestion
      <3>3. QED
        BY <3>1, <3>2, DetailAnswers DEF KindOf
    <2>9. RelationshipsSeen(q)'
      <3>1. ASSUME NEW p \in DOMAIN seen'[q] \cap {"relationships", "edges", "events"},
                   NEW y \in seen'[q][p]
            PROVE  y \in DOMAIN table /\ y[1] = KindOf(p)
        <4>1. CASE p = part
          BY <1>6, <2>8, <3>1, <4>1
        <4>2. CASE p # part
          BY <1>5, <1>6, <2>5, <3>1, <4>2 DEF RelationshipsSeen
        <4>3. QED
          BY <4>1, <4>2
      <3>2. QED
        BY <1>3, <3>1 DEF RelationshipsSeen, KindOf
    <2>10. Fresh(q, x)'
      <3>1. ASSUME NEW c \in x.case, Current(q, "entities")'
            PROVE  seen'[q]["entities"] = RowsOf("entity", c)'
        <4>1. CASE part = "entities"
          <5>1. rows \in AnswersOf(part, q, c)
            BY <2>7, <4>1 DEF OfCase
          <5>2. rows \in Page(RowsOf("entity", c))
            BY <4>1, <5>1, ComparedAnswers
          <5>3. seen'[q][part] = rows /\ Cardinality(rows) < Limit
            BY <1>6, <3>1, <4>1 DEF Current
          <5>4. rows = RowsOf("entity", c)
            BY <5>2, <5>3, PartialPage
          <5>5. QED
            BY <1>3, <4>1, <5>3, <5>4 DEF RowsOf
        <4>2. CASE part # "entities"
          BY <1>3, <1>5, <1>6, <2>5, <3>1, <4>2 DEF Fresh, Current, RowsOf
        <4>3. QED
          BY <4>1, <4>2
      <3>2. ASSUME NEW c \in x.case, Current(q, "mitre")'
            PROVE  seen'[q]["mitre"] = RowsOf("mitre", c)'
        <4>1. CASE part = "mitre"
          <5>1. rows \in AnswersOf(part, q, c)
            BY <2>7, <4>1 DEF OfCase
          <5>2. rows \in Page(RowsOf("mitre", c))
            BY <4>1, <5>1, ComparedAnswers
          <5>3. seen'[q][part] = rows /\ Cardinality(rows) < Limit
            BY <1>6, <3>2, <4>1 DEF Current
          <5>4. rows = RowsOf("mitre", c)
            BY <5>2, <5>3, PartialPage
          <5>5. QED
            BY <1>3, <4>1, <5>3, <5>4 DEF RowsOf
        <4>2. CASE part # "mitre"
          BY <1>3, <1>5, <1>6, <2>5, <3>2, <4>2 DEF Fresh, Current, RowsOf
        <4>3. QED
          BY <4>1, <4>2
      <3>3. QED
        BY <3>1, <3>2 DEF Fresh
    <2>11. EndsShown(q, x)'
      <3>1. SUFFICES ASSUME x.view = "behavior", "endpoints" \in DOMAIN seen'[q]
                     PROVE  Ends(seen'[q]["edges"]) \cup Sources(seen'[q]["events"])
                                \subseteq seen'[q]["endpoints"]
        BY DEF EndsShown, Ends, Sources
      <3>2. CASE part = "endpoints"
        <4>1. "edges" \in DOMAIN seen[q] /\ "events" \in DOMAIN seen[q]
          BY <1>4, <2>4, <3>1, <3>2, PlanOrder
        <4>2. seen'[q]["edges"] = seen[q]["edges"] /\ seen'[q]["events"] = seen[q]["events"]
          BY <2>5, <4>1
        <4> DEFINE named == Ends(seen[q]["edges"]) \cup Sources(seen[q]["events"])
        <4>3. named \subseteq DOMAIN table
          <5>1. /\ \A y \in seen[q]["edges"] : y \in DOMAIN table /\ y[1] = "relationship"
                /\ \A y \in seen[q]["events"] : y \in DOMAIN table /\ y[1] = "event"
            BY <1>5, <4>1 DEF RelationshipsSeen, KindOf
          <5>2. Ends(seen[q]["edges"]) \subseteq DOMAIN table
            BY <1>3, <5>1 DEF EndsKnown, Ends
          <5>3. Sources(seen[q]["events"]) \subseteq DOMAIN table
            <6>1. ASSUME NEW k \in seen[q]["events"], NEW e \in Result[k[2]].source
                  PROVE  <<"entity", e>> \in DOMAIN table
              <7>1. k \in DOMAIN table /\ k[1] = "event"
                BY <5>1, <6>1
              <7>2. EndsKnown
                BY <1>3
              <7>3. QED
                BY <6>1, <7>1, <7>2 DEF EndsKnown
            <6>2. QED
              BY <6>1 DEF Sources
          <5>4. QED
            BY <5>2, <5>3
        <4>4. \E d : rows \in AnswersOn("endpoints", q, d)
          BY <1>2, <3>2 DEF Answers, OnBehavior, ByQuestion
        <4>5. named # {} => rows = named \cap DOMAIN table
          BY <4>4, DetailAnswers
        <4>6. named \subseteq rows
          BY <4>3, <4>5
        <4>7. QED
          BY <1>6, <3>2, <4>2, <4>6
      <3>3. CASE part # "endpoints"
        <4>1. "endpoints" \in DOMAIN seen[q]
          BY <1>6, <3>1, <3>3
        <4>2. part \notin {"edges", "events"}
          BY <2>3, <4>1
        <4>3. "edges" \in DOMAIN seen[q] /\ "events" \in DOMAIN seen[q]
          <5>1. PICK j \in 1..(position[q] - 1) : Plan[x.view][j] = "endpoints"
            BY <1>5, <4>1 DEF SeenSoFar
          <5>2. j \in 1..Len(Plan[x.view]) /\ 1..(j - 1) \subseteq 1..(position[q] - 1)
            BY <1>4, <5>1, Plans
          <5>3. /\ \E i \in 1..(j - 1) : Plan[x.view][i] = "edges"
                /\ \E i \in 1..(j - 1) : Plan[x.view][i] = "events"
            BY <1>4, <3>1, <5>1, <5>2, PlanOrder DEF ReadsAfter
          <5>4. QED
            BY <1>5, <5>2, <5>3 DEF SeenSoFar
        <4>4. seen'[q]["edges"] = seen[q]["edges"] /\ seen'[q]["events"] = seen[q]["events"]
              /\ seen'[q]["endpoints"] = seen[q]["endpoints"]
          BY <2>5, <4>1, <4>3
        <4>5. QED
          BY <1>5, <3>1, <4>1, <4>4 DEF Together, EndsShown
      <3>4. QED
        BY <3>2, <3>3
    <2>12. EndsExplained(q, x)'
      <3>1. SUFFICES ASSUME x.view \in {"graph", "report", "context"},
                            "relationships" \in DOMAIN seen'[q],
                            Undisturbed(q, "entities", "relationships")',
                            NEW e \in Ends(seen'[q]["relationships"]) \ seen'[q]["entities"]
                     PROVE  e \in DOMAIN table /\ table[e] \notin x.case
        BY <1>3 DEF EndsExplained, Ends
      <3>2. part # "entities"
        BY <1>6, <2>3, <3>1
      <3>3. CASE part = "relationships"
        <4>1. "entities" \in DOMAIN seen[q]
          BY <1>4, <2>4, <3>1, <3>3, PlanOrder
        <4>2. seen'[q]["entities"] = seen[q]["entities"] /\ asOf'[q]["entities"] = asOf[q]["entities"]
          BY <2>5, <4>1
        <4>3. Current(q, "entities")
          BY <1>6, <3>1, <3>3, <4>1, <4>2 DEF Current, Undisturbed
        <4>4. \A c \in x.case : seen[q]["entities"] = RowsOf("entity", c)
          BY <1>5, <4>3 DEF Fresh
        <4>5. e \in DOMAIN table /\ e[1] = "entity"
          <5>1. e \in Ends(rows)
            BY <1>6, <3>1, <3>3
          <5>2. PICK y \in rows : e = <<"entity", y[3]>> \/ e = <<"entity", y[4]>>
            BY <5>1 DEF Ends
          <5>3. y \in DOMAIN table /\ y[1] = "relationship"
            BY <2>8, <3>3 DEF KindOf
          <5>4. <<"entity", y[3]>> \in DOMAIN table /\ <<"entity", y[4]>> \in DOMAIN table
            <6> HIDE DEF Functional
            <6>1. EndsKnown
              BY <1>3
            <6>2. QED
              BY <5>3, <6>1 DEF EndsKnown
          <5>5. CASE e = <<"entity", y[3]>>
            BY <5>4, <5>5
          <5>6. CASE e = <<"entity", y[4]>>
            BY <5>4, <5>6
          <5>7. QED
            BY <5>2, <5>5, <5>6
        <4>6. QED
          BY <3>1, <4>2, <4>4, <4>5 DEF RowsOf
      <3>4. CASE part # "relationships"
        <4>1. "relationships" \in DOMAIN seen[q]
          BY <1>6, <3>1, <3>4
        <4>2. "entities" \in DOMAIN seen[q]
          <5>1. PICK j \in 1..(position[q] - 1) : Plan[x.view][j] = "relationships"
            BY <1>5, <4>1 DEF SeenSoFar
          <5>2. j \in 1..Len(Plan[x.view]) /\ 1..(j - 1) \subseteq 1..(position[q] - 1)
            BY <1>4, <5>1, Plans
          <5>3. PICK i \in 1..(j - 1) : Plan[x.view][i] = "entities"
            BY <1>4, <3>1, <5>1, <5>2, PlanOrder DEF ReadsAfter
          <5>4. QED
            BY <1>5, <5>2, <5>3 DEF SeenSoFar
        <4>3. Undisturbed(q, "entities", "relationships")
          BY <2>5, <3>1, <4>1, <4>2 DEF Undisturbed
        <4>4. e \in Ends(seen[q]["relationships"]) \ seen[q]["entities"]
          BY <2>5, <3>1, <4>1, <4>2
        <4>5. QED
          BY <1>5, <3>1, <4>1, <4>3, <4>4 DEF Together, EndsExplained
      <3>5. QED
        BY <3>3, <3>4
    <2>13. ChainMapped(q, x)'
      <3>1. SUFFICES ASSUME x.view = "context", "chain" \in DOMAIN seen'[q],
                            Undisturbed(q, "mitre", "chain")'
                     PROVE  seen'[q]["chain"] \subseteq seen'[q]["mitre"]
        BY DEF ChainMapped
      <3>2. part # "mitre"
        BY <1>6, <2>3, <3>1
      <3>3. CASE part = "chain"
        <4>1. "mitre" \in DOMAIN seen[q]
          BY <1>4, <2>4, <3>1, <3>3, PlanOrder
        <4>2. seen'[q]["mitre"] = seen[q]["mitre"] /\ asOf'[q]["mitre"] = asOf[q]["mitre"]
          BY <2>5, <4>1
        <4>3. Current(q, "mitre")
          BY <1>6, <3>1, <3>3, <4>1, <4>2 DEF Current, Undisturbed
        <4>4. PICK c \in x.case : rows \in AnswersOf(part, q, c) /\ c \in Cases
          BY <2>7, <3>3 DEF OfCase
        <4>5. seen[q]["mitre"] = RowsOf("mitre", c)
          BY <1>5, <4>3 DEF Fresh
        <4>6. rows = MappingsOf(c, chains[c])
          BY <3>3, <4>4, ComparedAnswers
        <4>7. ASSUME NEW y \in rows
              PROVE  y \in RowsOf("mitre", c)
          <5>1. PICK t \in chains[c] : y = <<"mitre", c, t>>
            BY <4>6 DEF MappingsOf
          <5>2. y \in DOMAIN table /\ y[1] = "mitre" /\ y[2] = c
            BY <1>3, <4>4, <5>1 DEF DataInv
          <5>3. QED
            BY <1>3, <5>2 DEF DataInv, RowsOf
        <4>8. QED
          BY <1>6, <3>3, <4>2, <4>5, <4>7
      <3>4. CASE part # "chain"
        <4>1. "chain" \in DOMAIN seen[q]
          BY <1>6, <3>1, <3>4
        <4>2. "mitre" \in DOMAIN seen[q]
          <5>1. PICK j \in 1..(position[q] - 1) : Plan[x.view][j] = "chain"
            BY <1>5, <4>1 DEF SeenSoFar
          <5>2. j \in 1..Len(Plan[x.view]) /\ 1..(j - 1) \subseteq 1..(position[q] - 1)
            BY <1>4, <5>1, Plans
          <5>3. PICK i \in 1..(j - 1) : Plan[x.view][i] = "mitre"
            BY <1>4, <3>1, <5>1, <5>2, PlanOrder DEF ReadsAfter
          <5>4. QED
            BY <1>5, <5>2, <5>3 DEF SeenSoFar
        <4>3. QED
          BY <1>5, <2>5, <3>1, <4>1, <4>2 DEF Together, ChainMapped, Undisturbed
      <3>5. QED
        BY <3>3, <3>4
    <2>14. TotalShown(q, x)'
      <3>1. SUFFICES ASSUME x.view = "entities", "total" \in DOMAIN seen'[q],
                            Undisturbed(q, "entities", "total")'
                     PROVE  seen'[q]["total"] = seen'[q]["entities"]
        BY DEF TotalShown
      <3>2. part # "entities"
        BY <1>6, <2>3, <3>1
      <3>3. CASE part = "total"
        <4>1. "entities" \in DOMAIN seen[q]
          BY <1>4, <2>4, <3>1, <3>3, PlanOrder
        <4>2. seen'[q]["entities"] = seen[q]["entities"] /\ asOf'[q]["entities"] = asOf[q]["entities"]
          BY <2>5, <4>1
        <4>3. Current(q, "entities")
          BY <1>6, <3>1, <3>3, <4>1, <4>2 DEF Current, Undisturbed
        <4>4. PICK c \in x.case : rows \in AnswersOf(part, q, c)
          BY <2>7, <3>3 DEF OfCase
        <4>5. seen[q]["entities"] = RowsOf("entity", c) /\ rows = RowsOf("entity", c)
          BY <1>5, <3>3, <4>3, <4>4, ComparedAnswers DEF Fresh
        <4>6. QED
          BY <1>6, <3>3, <4>2, <4>5
      <3>4. CASE part # "total"
        <4>1. "total" \in DOMAIN seen[q]
          BY <1>6, <3>1, <3>4
        <4>2. "entities" \in DOMAIN seen[q]
          <5>1. PICK j \in 1..(position[q] - 1) : Plan[x.view][j] = "total"
            BY <1>5, <4>1 DEF SeenSoFar
          <5>2. j \in 1..Len(Plan[x.view]) /\ 1..(j - 1) \subseteq 1..(position[q] - 1)
            BY <1>4, <5>1, Plans
          <5>3. PICK i \in 1..(j - 1) : Plan[x.view][i] = "entities"
            BY <1>4, <3>1, <5>1, <5>2, PlanOrder DEF ReadsAfter
          <5>4. QED
            BY <1>5, <5>2, <5>3 DEF SeenSoFar
        <4>3. QED
          BY <1>5, <2>5, <3>1, <4>1, <4>2 DEF Together, TotalShown, Undisturbed
      <3>5. QED
        BY <3>3, <3>4
    <2>15. QED
      BY <1>3, <1>7, <2>6, <2>9, <2>10, <2>11, <2>12, <2>13, <2>14 DEF Consistent, Together
  <1>10. QED
    BY <1>8, <1>9

\* What an analysis writes has the ends of its relationships.
LEMMA PublishedEnds ==
    ASSUME NEW a \in Analyses, NEW key \in RowsBy(a)
    PROVE  /\ key[1] = "relationship" =>
                 <<"entity", key[3]>> \in RowsBy(a) /\ <<"entity", key[4]>> \in RowsBy(a)
           /\ key[1] = "event" => \A e \in Result[key[2]].source : <<"entity", e>> \in RowsBy(a)
  <1>1. CASE key \in {<<"entity", e>> : e \in Result[a].entities}
    BY <1>1
  <1>2. CASE key \in {<<"relationship", a, e[1], e[2]>> : e \in Result[a].edges}
    <2>1. PICK e \in Result[a].edges : key = <<"relationship", a, e[1], e[2]>>
      BY <1>2
    <2>2. e[1] \in Result[a].entities /\ e[2] \in Result[a].entities
      BY <2>1, ViewsAssumption
    <2>3. <<"entity", e[1]>> \in RowsBy(a) /\ <<"entity", e[2]>> \in RowsBy(a)
      BY <2>2 DEF RowsBy
    <2>4. QED
      BY <2>1, <2>3
  <1>3. CASE key \in {<<"event", a>>, <<"behavior", a>>}
    <2>1. key[2] = a /\ key[1] # "relationship"
      BY <1>3
    <2>2. \A e \in Result[a].source : <<"entity", e>> \in RowsBy(a)
      BY ViewsAssumption DEF RowsBy
    <2>3. QED
      BY <2>1, <2>2
  <1>4. CASE key \in MappingsOf(Result[a].case, Result[a].techniques)
    BY <1>4 DEF MappingsOf
  <1>5. QED
    BY <1>1, <1>2, <1>3, <1>4 DEF RowsBy

\* A publication keeps every request consistent, and the ends of relationships there.
LEMMA PublishConsistent ==
    ASSUME Inv, ViewsInv, NEW a \in Analyses, Publish(a)
    PROVE  ViewsInv'
  <1>1. /\ published' = published \cup {a} /\ a \notin published
        /\ DOMAIN table' = DOMAIN table \cup RowsBy(a)
        /\ \A key \in DOMAIN table : table'[key] = table[key]
        /\ UNCHANGED <<stage, position, asked, seen, asOf>>
    BY DEF Publish, requestVars
  <1>2. EndsKnown'
    <2>1. EndsKnown
      BY DEF ViewsInv
    <2>2. ASSUME NEW key \in DOMAIN table'
          PROVE  /\ key[1] = "relationship" =>
                       <<"entity", key[3]>> \in DOMAIN table' /\ <<"entity", key[4]>> \in DOMAIN table'
                 /\ key[1] = "event" =>
                       \A e \in Result[key[2]].source : <<"entity", e>> \in DOMAIN table'
      <3>1. CASE key \in DOMAIN table
        BY <1>1, <2>1, <2>2, <3>1 DEF EndsKnown
      <3>2. CASE key \in RowsBy(a)
        BY <1>1, <2>2, <3>2, PublishedEnds
      <3>3. QED
        BY <1>1, <3>1, <3>2
    <2>3. QED
      BY <2>2 DEF EndsKnown
  <1>3. ASSUME NEW q \in Requests
        PROVE  AsOfInv(q)' /\ Consistent(q)'
    <2>1. \A x \in asked[q] : SeenSoFar(q, x) => SeenSoFar(q, x)'
      BY <1>1 DEF SeenSoFar
    <2>2. \E b \in published' : b \notin published
      BY <1>1
    <2>3. QED
      BY <1>1, <2>1, <2>2, NothingRead
  <1>4. QED
    BY <1>2, <1>3 DEF ViewsInv

\* A request that a step leaves where it is stays consistent, where the tables stay.
LEMMA LeftAlone ==
    ASSUME Inv, ViewsInv, NEW q \in Requests, UNCHANGED <<table, published>>,
           asked'[q] = asked[q], seen'[q] = seen[q], asOf'[q] = asOf[q],
           position'[q] = position[q],
           stage'[q] \in {"open", "answered"} => stage[q] \in {"open", "answered"}
    PROVE  AsOfInv(q)' /\ Consistent(q)'
  <1>1. \A x \in asked[q] : SeenSoFar(q, x) => SeenSoFar(q, x)'
    BY DEF SeenSoFar
  <1>2. QED
    BY <1>1, NothingRead

\* Nothing is answered to a request that arrives.
LEMMA ArriveConsistent ==
    ASSUME Inv, ViewsInv, NEW q \in Requests, NEW x \in Questions, Arrive(q, x)
    PROVE  AsOfInv(q)' /\ Consistent(q)'
  <1>1. /\ asked'[q] = {x} /\ position[q] = 1 /\ DOMAIN seen[q] = {} /\ DOMAIN asOf[q] = {}
        /\ UNCHANGED <<position, seen, asOf>>
    BY DEF Arrive, Inv, Functional, RequestInv
  <1>2. SeenSoFar(q, x)'
    <2>1. 1..(position'[q] - 1) = {}
      BY <1>1
    <2>2. QED
      BY <1>1, <2>1 DEF SeenSoFar
  <1>3. Fresh(q, x)' /\ RelationshipsSeen(q)' /\ Together(q, x)'
    BY <1>1 DEF Fresh, Current, RelationshipsSeen, Together, EndsShown, EndsExplained, ChainMapped,
                TotalShown
  <1>4. QED
    BY <1>1, <1>2, <1>3 DEF AsOfInv, Consistent

\* A gate that is passed answers nothing.
LEMMA GateConsistent ==
    ASSUME Inv, ViewsInv, NEW q \in Requests, Gate(q)
    PROVE  AsOfInv(q)' /\ Consistent(q)'
  <1>1. PICK x \in asked[q] :
            /\ At(q, x, "gate")
            /\ \E c \in GatedCase(q, x) :
                  IF MayRead(x.user, c)
                  THEN /\ verified' = [verified EXCEPT ![q] = {c}]
                       /\ Advance(q)
                       /\ UNCHANGED <<stage, trail>>
                  ELSE /\ stage' = [stage EXCEPT ![q] = "refused"]
                       /\ IF x.view \in Recording THEN Record("case_access_denied", x.user, c)
                          ELSE UNCHANGED trail
                       /\ UNCHANGED <<position, verified>>
            /\ UNCHANGED <<active, tokens, cases, grants, dataVars, asked, seen, asOf, history>>
    BY DEF Gate
  <1>2. /\ Functional /\ stage[q] = "open" /\ \A y \in asked[q] : y = x
        /\ position[q] \in Nat \ {0} /\ Plan[x.view][position[q]] = "gate"
        /\ UNCHANGED <<table, published>>
    BY <1>1 DEF Inv, RequestInv, Functional, At, dataVars
  <1>3. stage'[q] \in {"open", "answered"} => position'[q] = position[q] + 1
    BY <1>1, <1>2 DEF Functional, Advance
  <1>4. CASE stage'[q] \in {"open", "answered"}
    <2>1. 1..(position'[q] - 1) = (1..(position[q] - 1)) \cup {position[q]}
      BY <1>2, <1>3, <1>4
    <2>2. {Plan[x.view][i] : i \in 1..(position'[q] - 1)}
              = {Plan[x.view][i] : i \in 1..(position[q] - 1)} \cup {"gate"}
      BY <1>2, <2>1
    <2>3. \A y \in asked[q] : SeenSoFar(q, y) => SeenSoFar(q, y)'
      BY <1>1, <1>2, <2>2 DEF SeenSoFar
    <2>4. QED
      BY <1>1, <1>2, <2>3, NothingRead
  <1>5. CASE stage'[q] \notin {"open", "answered"}
    <2>1. AsOfInv(q)
      BY DEF ViewsInv
    <2>2. QED
      BY <1>1, <1>2, <1>5, <2>1 DEF AsOfInv, Consistent
  <1>6. QED
    BY <1>4, <1>5

\* Every step keeps the views consistent.
LEMMA NextViews == Inv /\ ViewsInv /\ [Next]_vars => ViewsInv'
  <1> SUFFICES ASSUME Inv, ViewsInv, [Next]_vars
               PROVE  ViewsInv'
    OBVIOUS
  <1>1. Functional
    BY DEF Inv
  <1>2. UNCHANGED table => EndsKnown'
    BY DEF ViewsInv, EndsKnown
  <1>3. ASSUME NEW q \in Requests, NEW x \in Questions, Arrive(q, x)
        PROVE  ViewsInv'
    <2>1. \A o \in Requests : o # q => AsOfInv(o)' /\ Consistent(o)'
      BY <1>1, <1>3, LeftAlone DEF Arrive, Functional, dataVars
    <2>2. UNCHANGED table
      BY <1>3 DEF Arrive, dataVars
    <2>3. QED
      BY <1>2, <1>3, <2>1, <2>2, ArriveConsistent DEF ViewsInv
  <1>4. ASSUME NEW q \in Requests, Gate(q)
        PROVE  ViewsInv'
    <2>1. \A o \in Requests : o # q => AsOfInv(o)' /\ Consistent(o)'
      BY <1>1, <1>4, LeftAlone DEF Gate, Advance, Functional, dataVars
    <2>2. UNCHANGED table
      BY <1>4 DEF Gate, dataVars
    <2>3. QED
      BY <1>2, <1>4, <2>1, <2>2, GateConsistent DEF ViewsInv
  <1>5. ASSUME NEW q \in Requests, Answer(q)
        PROVE  ViewsInv'
    <2>1. UNCHANGED <<table, published, position, asked, seen, asOf>> /\ stage[q] = "open"
      BY <1>5 DEF Answer, dataVars
    <2>2. \A o \in Requests : stage'[o] \in {"open", "answered"} => stage[o] \in {"open", "answered"}
      BY <1>1, <1>5, <2>1 DEF Answer, Functional
    <2>3. QED
      BY <1>2, <2>1, <2>2, LeftAlone DEF ViewsInv
  <1>6. ASSUME NEW q \in Requests, NEW part \in Parts, Read(q, part)
        PROVE  ViewsInv'
    <2>1. \A o \in Requests : o # q => AsOfInv(o)' /\ Consistent(o)'
      BY <1>1, <1>6, LeftAlone DEF Read, Advance, Functional, dataVars
    <2>2. UNCHANGED table
      BY <1>6 DEF Read, dataVars
    <2>3. QED
      BY <1>2, <1>6, <2>1, <2>2, ReadConsistent DEF ViewsInv
  <1>7. ASSUME NEW a \in Analyses, Publish(a)
        PROVE  ViewsInv'
    BY <1>7, PublishConsistent
  <1>8. CASE Surroundings \/ UNCHANGED vars
    <2>1. UNCHANGED <<table, published, stage, position, asked, seen, asOf>>
      BY <1>8 DEF Surroundings, vars, dataVars, requestVars
    <2>2. QED
      BY <1>2, <2>1, LeftAlone DEF ViewsInv
  <1>9. QED
    BY <1>3, <1>4, <1>5, <1>6, <1>7, <1>8 DEF Next

-----------------------------------------------------------------------------
(***************************************************************************)
(* The theorems.                                                           *)
(***************************************************************************)

\* Both invariants, in every state.
LEMMA Invariants == Spec => [](Inv /\ TrailInv)
  <1>1. Init => TrailInv
    BY DEF Init, AccessInit, TrailInv, Refused
  <1>2. QED
    BY <1>1, InitInv, NextInv, NextTrail, PTL DEF Spec

\* A set with at most one element has a cardinality of at most one.
LEMMA OneAtMost ==
    ASSUME NEW S, \A x, y \in S : x = y
    PROVE  Cardinality(S) <= 1
  <1>1. CASE S = {}
    BY <1>1, FS_EmptySet
  <1>2. CASE S # {}
    <2>1. PICK x : S = {x}
      BY <1>2
    <2>2. QED
      BY <2>1, FS_Singleton
  <1>3. QED
    BY <1>1, <1>2

\* Every variable keeps its type: a request has at most one question and one verified
\* case, and every row belongs to a case.
THEOREM TypeCorrect == Spec => []TypeOK
  <1>1. ASSUME Inv
        PROVE  TypeOK
    <2>1. /\ AccessTypeOK /\ published \subseteq Analyses
          /\ chains \in [Cases -> SUBSET UNION {Result[a].techniques : a \in Analyses}]
          /\ \A key \in DOMAIN table : table[key] \in Cases
      BY <1>1 DEF Inv, DataInv
    <2>2. ASSUME NEW q \in Requests
          PROVE  /\ stage[q] \in {"idle", "open"} \cup Ended
                 /\ asked[q] \subseteq Questions /\ verified[q] \subseteq Cases
                 /\ couldRead[q] \subseteq Cases /\ wasActive[q] \in BOOLEAN
                 /\ DOMAIN seen[q] = DOMAIN asOf[q]
      BY <1>1 DEF Inv, RequestInv, Functional
    <2>3. ASSUME NEW q \in Requests
          PROVE  Cardinality(asked[q]) <= 1 /\ Cardinality(verified[q]) <= 1
      BY <1>1, OneAtMost DEF Inv, RequestInv
    <2>4. QED
      BY <2>1, <2>2, <2>3 DEF TypeOK
  <1>2. QED
    BY <1>1, Invariants, PTL

\* Whoever is answered was entitled to every row that is shown: the gate, the row of
\* the user and the case of the row, as the routes check them, leave no way around
\* them however accounts, grants and analyses change between two statements.
THEOREM OnlyTheEntitledAreServed == Spec => []ServedWereEntitled
  <1>1. ASSUME Inv, NEW q \in Requests, stage[q] = "answered"
        PROVE  /\ wasActive[q]
               /\ \A part \in DOMAIN seen[q] : \A y \in seen[q][part] :
                     \/ CaseShown(part, y) \in couldRead[q]
                     \/ part = "endpoints" /\ y \in Ends(seen[q]["edges"]) \cup Sources(seen[q]["events"])
    <2>1. RequestInv(q)
      BY <1>1 DEF Inv
    <2>2. PICK x : x \in asked[q]
      BY <1>1, <2>1 DEF RequestInv
    <2>3. Progress(q, x) /\ x \in Questions /\ Shown(q)
      BY <2>1, <2>2 DEF RequestInv
    <2>4. x.view \in Views /\ position[q] > Len(Plan[x.view]) /\ position[q] \in Nat \ {0}
      BY <1>1, <2>3, QuestionFields DEF Progress, Inv, Functional
    <2>5. x.view = "behavior" =>
              /\ Detail(q, x) /\ position[q] > 2 /\ "behavior" \in DOMAIN seen[q]
              /\ \E b \in seen[q]["behavior"] : table[b] \in couldRead[q] /\ OfBehavior(q, b)
      <3>1. SUFFICES ASSUME x.view = "behavior"
                     PROVE  /\ Detail(q, x) /\ position[q] > 2 /\ "behavior" \in DOMAIN seen[q]
                            /\ \E b \in seen[q]["behavior"] : table[b] \in couldRead[q] /\ OfBehavior(q, b)
        OBVIOUS
      <3>2. Detail(q, x) /\ position[q] > 2
        BY <2>3, <2>4, <3>1, Plans DEF Progress
      <3>3. "behavior" \in DOMAIN seen[q]
        BY <1>1, <2>4, <3>2, DetailOrder DEF Detail
      <3>4. verified[q] = x.case
        BY <2>3, <2>4, <3>1, <3>2 DEF Progress, Ungated
      <3>5. \A b \in seen[q]["behavior"] : table[b] \in couldRead[q]
        BY <1>1, <2>1, <2>3, <3>1, <3>4 DEF Progress, RequestInv
      <3>6. QED
        BY <1>1, <3>2, <3>3, <3>5 DEF Detail
    <2>6. ASSUME NEW part \in DOMAIN seen[q], NEW y \in seen[q][part]
          PROVE  \/ CaseShown(part, y) \in couldRead[q]
                 \/ part = "endpoints" /\ y \in Ends(seen[q]["edges"]) \cup Sources(seen[q]["events"])
      <3>1. CASE part \in ByUser
        BY <2>3, <2>6, <3>1 DEF Shown, CaseShown, ByUser
      <3>2. CASE part \in OfCase
        BY <2>3, <2>6, <3>2 DEF Shown, CaseShown, OfCase
      <3>3. CASE part = "row"
        <4>1. x.view = "row"
          BY <2>3, <2>6, <3>3 DEF Progress
        <4>2. position[q] > 2
          BY <2>4, <4>1, Plans
        <4>3. table[y] \in couldRead[q]
          BY <2>3, <2>6, <3>3, <4>1, <4>2 DEF Progress
        <4>4. QED
          BY <3>3, <4>3 DEF CaseShown
      <3>4. CASE part = "findings"
        BY <2>3, <2>6, <3>4 DEF Shown, CaseShown
      <3>5. CASE part \in OnBehavior \cup {"behavior"} \/ (part = "links" /\ x.view = "behavior")
        <4>1. x.view = "behavior"
          BY <2>3, <2>6, <3>5 DEF Progress
        <4>2. PICK b \in seen[q]["behavior"] : table[b] \in couldRead[q] /\ OfBehavior(q, b)
          BY <2>5, <4>1
        <4>3. \A d \in seen[q]["behavior"] : d = b
          BY <2>3, <2>5, <4>1, QuestionFields DEF Detail
        <4>4. CASE part = "behavior"
          BY <2>6, <4>2, <4>3, <4>4 DEF CaseShown
        <4>5. CASE part \in {"events", "mappings", "edges"}
          BY <2>6, <4>2, <4>5 DEF CaseShown, OfBehavior
        <4>6. CASE part = "links"
          BY <2>6, <4>2, <4>6 DEF CaseShown, OfBehavior
        <4>7. CASE part = "endpoints"
          BY <2>6, <4>2, <4>7 DEF CaseShown, OfBehavior
        <4>8. QED
          BY <3>5, <4>4, <4>5, <4>6, <4>7 DEF OnBehavior
      <3>6. CASE part = "links" /\ x.view # "behavior"
        BY <2>3, <2>6, <3>6 DEF Progress, CaseShown
      <3>7. part \in {"links", "findings"} \cup OnBehavior \cup ByUser \cup ByKey \cup OfCase
        BY <2>3, <2>6 DEF Shown
      <3>8. QED
        BY <3>1, <3>2, <3>3, <3>4, <3>5, <3>6, <3>7 DEF ByKey
    <2>7. QED
      BY <1>1, <2>3, <2>6 DEF Progress
  <1>2. ASSUME Inv, TrailInv, NEW q \in Requests, stage[q] = "refused", NEW x \in asked[q],
               x.view \in Recording, NEW c \in x.case
        PROVE  <<"case_access_denied", x.user, c>> \in trail
    <2>1. x \in Questions
      BY <1>2 DEF Inv, RequestInv
    <2>2. x.user \in Users /\ c \in Cases /\ x.case = {c}
      BY <1>2, <2>1, QuestionFields
    <2>3. Refused(q, x.user, c)
      BY <1>2, <2>2 DEF Refused
    <2>4. QED
      BY <1>2, <2>2, <2>3 DEF TrailInv
  <1>3. ASSUME TrailInv, NEW u \in Users, NEW c \in Cases, <<"case_access_denied", u, c>> \in trail
        PROVE  \E q \in Requests : stage[q] = "refused" /\ \E x \in asked[q] : x.user = u /\ x.case = {c}
    BY <1>3 DEF TrailInv, Refused
  <1>4. Inv /\ TrailInv => ServedWereEntitled
    BY <1>1, <1>2, <1>3 DEF ServedWereEntitled
  <1>5. QED
    BY <1>4, Invariants, PTL

\* What an answer shows together belongs together: a behaviour has the ends of all its
\* relationships, and what has no counterpart in another part of the answer is explained
\* by a full page, by a publication in between or by the case the row belongs to.
THEOREM ViewsBelongTogether == Spec => []ViewsAreConsistent
  <1>1. ASSUME Inv, ViewsInv, NEW q \in Requests, NEW x \in asked[q], stage[q] = "answered"
        PROVE  /\ x.view = "behavior" =>
                     Ends(seen[q]["edges"]) \cup Sources(seen[q]["events"]) \subseteq seen[q]["endpoints"]
               /\ x.view \in {"graph", "report", "context"}
                     /\ Undisturbed(q, "entities", "relationships") =>
                     \A e \in Ends(seen[q]["relationships"]) \ seen[q]["entities"] :
                         table[e] \notin x.case
               /\ x.view = "context" /\ Undisturbed(q, "mitre", "chain") =>
                     seen[q]["chain"] \subseteq seen[q]["mitre"]
               /\ x.view = "entities" /\ Undisturbed(q, "entities", "total") =>
                     seen[q]["total"] = seen[q]["entities"]
    <2>1. x \in Questions /\ Progress(q, x) /\ position[q] \in Nat \ {0}
      BY <1>1 DEF Inv, RequestInv, Functional
    <2>2. x.view \in Views /\ position[q] > Len(Plan[x.view]) /\ Len(Plan[x.view]) \in Nat
      BY <1>1, <2>1, QuestionFields, Plans DEF Progress
    <2>3. SeenSoFar(q, x) /\ Together(q, x)
      BY <1>1 DEF ViewsInv, Consistent
    <2>4. \A i \in 1..Len(Plan[x.view]) : i \in 1..(position[q] - 1)
      BY <2>1, <2>2
    <2>5. \A part : part # "gate" /\ Reads(x.view, part) => part \in DOMAIN seen[q]
      BY <2>3, <2>4 DEF SeenSoFar, Reads
    <2>6. /\ x.view = "behavior" => "endpoints" \in DOMAIN seen[q]
          /\ x.view \in {"graph", "report", "context"} => "relationships" \in DOMAIN seen[q]
          /\ x.view = "context" => "chain" \in DOMAIN seen[q]
          /\ x.view = "entities" => "total" \in DOMAIN seen[q]
      BY <2>2, <2>5, PlanOrder
    <2>7. QED
      BY <2>3, <2>6 DEF Together, EndsShown, EndsExplained, ChainMapped, TotalShown
  <1>2. Inv /\ ViewsInv => ViewsAreConsistent
    BY <1>1 DEF ViewsAreConsistent
  <1>3. Inv /\ ViewsInv /\ [Next]_vars => Inv' /\ ViewsInv'
    BY NextInv, NextViews
  <1>4. QED
    BY <1>2, <1>3, InitInv, InitViews, PTL DEF Spec

==============================================================================
