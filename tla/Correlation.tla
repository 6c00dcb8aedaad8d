---------------------------- MODULE Correlation ----------------------------
(***************************************************************************)
(* M3: from the package of M1 and the findings of M2 to a case document:   *)
(* entities and relationships, the timeline, MITRE mappings and the attack *)
(* chain, hypotheses with their validations, root causes and impacts, and  *)
(* the case builder's checks of it all.                                    *)
(*                                                                         *)
(* Everything here is a function of the package and the findings; the code *)
(* runs it without an await.  Statements, reasons and times are left out;  *)
(* confidences are in hundredths.                                          *)
(***************************************************************************)
EXTENDS Naturals, Sequences, FiniteSets, PacketIntelligence, DecisionEngine

-----------------------------------------------------------------------------
(***************************************************************************)
(* Entities and relationships.  Addresses and domains are identified by    *)
(* what they are, and so the same in every case; artifacts and findings    *)
(* have identifiers of their own.                                          *)
(***************************************************************************)

\* Where an address or a domain is met first: its place in the list of entities.
Earliest(places) == CHOOSE i \in places : \A k \in places : i <= k

\* The addresses in the order the flows name them, a source before its destination.
PlacesOfIp(p, address) ==
    {2 * i : i \in {i \in DOMAIN p.flows : p.flows[i].src = address}}
        \cup {2 * i + 1 : i \in {i \in DOMAIN p.flows : p.flows[i].dst = address}}

Ips(p) ==
    [ip \in {"ip"} \X UNION {{p.flows[i].src, p.flows[i].dst} : i \in DOMAIN p.flows} |->
        Earliest(PlacesOfIp(p, ip[2]))]

NamesDomain(event) == event.proto \in {"dns", "ssl"} /\ event.name # Absent

\* The domains in the order the events name them.
Domains(p) ==
    LET naming == {i \in DOMAIN p.events : NamesDomain(p.events[i])}
    IN  [domain \in {"domain"} \X {p.events[i].name : i \in naming} |->
            Earliest({i \in naming : p.events[i].name = domain[2]})]

OwnEntities(p, F) == {<<"artifact", a.id>> : a \in p.artifacts} \cup {<<"finding", f.id>> : f \in F}

\* The first address is taken to communicate with every other.
Communicates(ips) ==
    {<<"communicates_with", first, other>> :
        first \in {ip \in DOMAIN ips : \A e \in DOMAIN ips : ips[ip] <= ips[e]},
        other \in {ip \in DOMAIN ips : \E e \in DOMAIN ips : ips[e] < ips[ip]}}

Queries(ips, domains) == {"queries_domain"} \X (DOMAIN ips) \X (DOMAIN domains)

\* The rows that other cases may have too, each with its turn to be written: addresses,
\* domains, relationships of addresses, and of each address those to the domains.
SharedRows(p) ==
    LET ips == Ips(p)  domains == Domains(p)
    IN  [row \in DOMAIN ips \cup DOMAIN domains \cup Communicates(ips) \cup Queries(ips, domains) |->
            CASE row[1] = "ip" -> <<1, ips[row], 0>>
              [] row[1] = "domain" -> <<2, domains[row], 0>>
              [] row[1] = "communicates_with" -> <<3, ips[row[3]], 0>>
              [] row[1] = "queries_domain" -> <<4, ips[row[2]], domains[row[3]]>>]

\* One turn comes before another.
Before(turn, other) ==
    \E n \in 1..3 : turn[n] < other[n] /\ \A k \in 1..(n - 1) : turn[k] = other[k]

OwnRelationships(p, F) ==
    LET ips == DOMAIN Ips(p)  domains == DOMAIN Domains(p)
    IN  ({"downloads_artifact"} \X ips \X {<<"artifact", a.id>> : a \in p.artifacts})
        \cup ({"associated_with"} \X {<<"finding", f.id>> : f \in F} \X (ips \cup domains))

\* Of a row of either table: the entities it points to.
Endpoints(row) == IF Len(row) = 3 THEN {row[2], row[3]} ELSE {}

-----------------------------------------------------------------------------
(***************************************************************************)
(* The timeline: findings, the first event of each name, and artifacts.    *)
(* An event is told with the entity it names first, if any.                *)
(***************************************************************************)

FirstOfName(p, i) ==
    /\ p.events[i].name # Absent
    /\ \A k \in {k \in DOMAIN p.events : k < i} :
           ~(p.events[k].proto = p.events[i].proto /\ p.events[k].name = p.events[i].name)

Timeline(p, F) ==
    {[id |-> f.id, entity |-> {}, findings |-> {f.id}] : f \in F}
    \cup {[id |-> p.events[i].id, findings |-> {},
           entity |-> IF NamesDomain(p.events[i]) THEN {<<"domain", p.events[i].name>>} ELSE {}] :
          i \in {i \in DOMAIN p.events : FirstOfName(p, i)}}
    \cup {[id |-> a.id, entity |-> {<<"artifact", a.id>>}, findings |-> {}] : a \in p.artifacts}

-----------------------------------------------------------------------------
(***************************************************************************)
(* MITRE ATT&CK.  Candidates are those of the knowledge base for the       *)
(* activity; telemetry is what protocols the package has events of.        *)
(***************************************************************************)

Telemetry(p) == {p.events[i].proto : i \in DOMAIN p.events}

CitedIn(f, p) == f.evidence \cap EvidenceIds(p)

Mapping(f, technique, status) == [finding |-> f.id, technique |-> technique, status |-> status]

C2Techniques(f, p) ==
    (IF Telemetry(p) \cap {"http", "ssl"} # {} THEN {Mapping(f, "T1071.001", "SUPPORTED")} ELSE {})
    \cup (IF "dns" \in Telemetry(p) THEN {Mapping(f, "T1071.004", "SUPPORTED")} ELSE {})
    \cup (IF Telemetry(p) \cap {"http", "ssl", "dns"} = {}
          THEN {Mapping(f, "T1095", "SUPPORTED")} ELSE {})

Techniques(f, p) ==
    CASE f.activity = "C2_MALWARE_COMMUNICATION" -> C2Techniques(f, p)
      [] f.activity = "DNS_ANOMALY_TUNNELING" /\ "dns" \in Telemetry(p) ->
            {Mapping(f, "T1071.004", "SUPPORTED")}
      [] f.activity = "SCANNING_RECONNAISSANCE" -> {Mapping(f, "T1046", "PARTIAL")}
      [] f.activity = "POSSIBLE_EXFILTRATION" ->
            {Mapping(f, "T1041", IF f.risk > Hundredths(75) THEN "PARTIAL" ELSE "POTENTIAL")}
      [] f.activity = "SUSPICIOUS_WEB_ACTIVITY" /\ "http" \in Telemetry(p) ->
            {Mapping(f, "T1071.001", IF f.risk > Hundredths(80) \/ f.anomaly > 90
                                     THEN "SUPPORTED" ELSE "POTENTIAL")}
      [] OTHER -> {}

Mappings(p, F) == UNION {Techniques(f, p) : f \in {f \in F : CitedIn(f, p) # {}}}

\* _build_attack_chain: a stage for every mapping; "none" without one.
Chain(mappings) == {m.technique : m \in mappings}

-----------------------------------------------------------------------------
(***************************************************************************)
(* Hypotheses: one for each activity that has evidence, of the kind the    *)
(* activity needs.                                                         *)
(***************************************************************************)

HypothesisType(activity) ==
    CASE activity = "C2_MALWARE_COMMUNICATION" -> "C2_COMMUNICATION"
      [] activity = "DNS_ANOMALY_TUNNELING" -> "DNS_C2"
      [] activity = "SCANNING_RECONNAISSANCE" -> "NETWORK_RECONNAISSANCE"
      [] activity = "POSSIBLE_EXFILTRATION" -> "POTENTIAL_EXFILTRATION"
      [] activity = "SUSPICIOUS_WEB_ACTIVITY" -> "SUSPICIOUS_WEB_ACTIVITY"
      [] OTHER -> "none"

EventsOf(p, protos) == {p.events[i].id : i \in {i \in DOMAIN p.events : p.events[i].proto \in protos}}

\* Mutant of Grounded: the DNS rule does not look for DNS.
GroundedAnyway(activity, evidence, p) ==
    /\ evidence # {}
    /\ HypothesisType(activity) # "none"
    /\ activity = "SUSPICIOUS_WEB_ACTIVITY" => evidence \cap EventsOf(p, {"http"}) # {}

Grounded(activity, evidence, p) ==
    /\ evidence # {}
    /\ HypothesisType(activity) # "none"
    /\ activity = "DNS_ANOMALY_TUNNELING" => evidence \cap EventsOf(p, {"dns"}) # {}
    /\ activity = "SUSPICIOUS_WEB_ACTIVITY" => evidence \cap EventsOf(p, {"http"}) # {}

Hypothesis(activity, F, p) ==
    LET group == {f \in F : f.activity = activity}
    IN  [type |-> HypothesisType(activity), findings |-> {f.id : f \in group},
         evidence |-> UNION {CitedIn(f, p) : f \in group}]

Hypotheses(p, F) ==
    {Hypothesis(activity, F, p) :
        activity \in {a \in {f.activity : f \in F} : Grounded(a, Hypothesis(a, F, p).evidence, p)}}

-----------------------------------------------------------------------------
(***************************************************************************)
(* Validation of a hypothesis against the flows and events it rests on.    *)
(***************************************************************************)

FlowsIn(h, p) == {i \in DOMAIN p.flows : p.flows[i].id \in h.evidence}
IdsOfFlows(p, S) == {p.flows[i].id : i \in S}

Validation(h, status, supporting, contradicting, missing, p) ==
    [hypothesis |-> h, status |-> status, supporting |-> supporting,
     contradicting |-> contradicting, missing |-> missing]

Supported(h, p, supporting, missing) == Validation(h, "VALIDATED", supporting, {}, missing, p)
Inconclusive(h, p) == Validation(h, "INCONCLUSIVE", {}, {}, TRUE, p)

ValidateC2(h, p) ==
    LET signals == h.evidence \cap (FlowIds(p) \cup EventIds(p))
        refused == IdsOfFlows(p, {i \in FlowsIn(h, p) : p.flows[i].rejected})
    IN  CASE Cardinality(signals) >= 2 -> Supported(h, p, signals, FALSE)
          [] Cardinality(signals) < 2 /\ refused # {} ->
                Validation(h, "REJECTED", {}, refused, FALSE, p)
          [] OTHER -> Inconclusive(h, p)

ValidateByEvents(h, p, protos) ==
    LET seen == h.evidence \cap EventsOf(p, protos)
    IN  IF seen # {} THEN Supported(h, p, seen, FALSE) ELSE Inconclusive(h, p)

ValidateScan(h, p) ==
    LET targets == {p.flows[i].dst : i \in FlowsIn(h, p)}
        ports == {p.flows[i].port : i \in FlowsIn(h, p)} \ {0}
    IN  IF Cardinality(targets) > 1 \/ Cardinality(ports) > 1
        THEN Supported(h, p, IdsOfFlows(p, FlowsIn(h, p)), FALSE)
        ELSE Inconclusive(h, p)

\* Sending data is all the network can tell: what is missing stays missing.
ValidateExfiltration(h, p) ==
    LET outbound == IdsOfFlows(p, {i \in FlowsIn(h, p) : p.flows[i].sends})
    IN  IF outbound # {} THEN Supported(h, p, outbound, TRUE) ELSE Inconclusive(h, p)

Validate(h, p) ==
    CASE h.type = "C2_COMMUNICATION" -> ValidateC2(h, p)
      [] h.type = "DNS_C2" -> ValidateByEvents(h, p, {"dns"})
      [] h.type = "NETWORK_RECONNAISSANCE" -> ValidateScan(h, p)
      [] h.type = "POTENTIAL_EXFILTRATION" -> ValidateExfiltration(h, p)
      [] h.type = "SUSPICIOUS_WEB_ACTIVITY" -> ValidateByEvents(h, p, {"http", "ssl"})

Validations(p, F) == {Validate(h, p) : h \in Hypotheses(p, F)}

\* A difference that is not taken below zero.
Less(m, n) == IF m >= n THEN m - n ELSE 0
Weight(S) == Smaller(Cardinality(S), 4)

ValidationConfidence(v) ==
    Smaller(IF v.missing THEN 90 ELSE 100,
            Less(50 + 10 * Weight(v.supporting), 20 * Cardinality(v.contradicting)))

-----------------------------------------------------------------------------
(***************************************************************************)
(* Root causes and impacts.                                                *)
(***************************************************************************)

MissingFor(v) == v.missing \/ v.hypothesis.type = "POTENTIAL_EXFILTRATION"

Sufficient(v) ==
    /\ v.status = "VALIDATED"
    /\ ~MissingFor(v)
    /\ v.contradicting = {}
    /\ Cardinality(v.supporting) >= 2

CauseStatus(v) ==
    CASE v.supporting = {} -> "UNRESOLVED"
      [] v.supporting # {} /\ v.contradicting # {} -> "POTENTIAL"
      [] v.supporting # {} /\ v.contradicting = {} /\ Sufficient(v) -> "SUPPORTED"
      [] OTHER -> IF v.status = "VALIDATED" THEN "PARTIALLY_SUPPORTED" ELSE "POTENTIAL"

CauseCap(status) ==
    CASE status = "SUPPORTED" -> 90
      [] status = "PARTIALLY_SUPPORTED" -> 75
      [] status = "POTENTIAL" -> 60
      [] status = "UNRESOLVED" -> 40

\* Mutant of CauseConfidence: a validated hypothesis counts for more.
CauseConfidenceEager(v) ==
    Smaller(CauseCap(CauseStatus(v)),
            Less(40 + (IF v.status = "VALIDATED" THEN 35 ELSE 0) + 5 * Weight(v.supporting),
                 15 * Cardinality(v.contradicting) + (IF MissingFor(v) THEN 10 ELSE 0)))

CauseConfidence(v) ==
    Smaller(CauseCap(CauseStatus(v)),
            Less(40 + (IF v.status = "VALIDATED" THEN 15 ELSE 0) + 5 * Weight(v.supporting),
                 15 * Cardinality(v.contradicting) + (IF MissingFor(v) THEN 10 ELSE 0)))

\* The evidence of the hypothesis stands in where the validation had none.
Cause(v) ==
    [of |-> v, status |-> CauseStatus(v), confidence |-> CauseConfidence(v),
     evidence |-> IF v.supporting # {} THEN v.supporting ELSE v.hypothesis.evidence]

RootCauses(p, F) == {Cause(v) : v \in {v \in Validations(p, F) : v.status # "REJECTED"}}

\* Several private targets among the flows of the evidence.
Lateral(c, p, private) ==
    Cardinality({p.flows[i].dst : i \in {i \in DOMAIN p.flows :
        p.flows[i].id \in c.evidence /\ p.flows[i].dst \in private}}) >= 2

HasImpact(c, p, private) ==
    /\ c.status # "UNRESOLVED"
    /\ \/ c.of.hypothesis.type \in {"C2_COMMUNICATION", "DNS_C2", "POTENTIAL_EXFILTRATION"}
       \/ c.of.hypothesis.type = "NETWORK_RECONNAISSANCE" /\ Lateral(c, p, private)

ImpactStatus(c) ==
    IF /\ c.of.hypothesis.type = "C2_COMMUNICATION"
       /\ c.status = "SUPPORTED" /\ Cardinality(c.evidence) > 2 /\ c.of.contradicting = {}
    THEN "INFERRED" ELSE "POTENTIAL"

ImpactConfidence(c) ==
    Smaller(IF ImpactStatus(c) = "INFERRED" THEN 75 ELSE 60,
            Less(30 + (IF c.status = "SUPPORTED" THEN 20 ELSE 0) + 5 * Weight(c.evidence),
                 20 * Cardinality(c.of.contradicting) + (IF MissingFor(c.of) THEN 10 ELSE 0)))

Impact(c) ==
    [of |-> c, status |-> ImpactStatus(c), confidence |-> ImpactConfidence(c),
     evidence |-> c.evidence]

Impacts(p, F, private) == {Impact(c) : c \in {c \in RootCauses(p, F) : HasImpact(c, p, private)}}

-----------------------------------------------------------------------------
(***************************************************************************)
(* The case document, and what the case builder refuses.                   *)
(***************************************************************************)

\* The evidence references of the document: all that is in the package.
Declared(p) == EvidenceIds(p)

Document(p, F, private) ==
    [shared |-> SharedRows(p), own |-> OwnEntities(p, F) \cup OwnRelationships(p, F),
     timeline |-> Timeline(p, F), declared |-> Declared(p),
     findings |-> {f.id : f \in F}, mappings |-> Mappings(p, F),
     hypotheses |-> Hypotheses(p, F), validations |-> Validations(p, F),
     causes |-> RootCauses(p, F), impacts |-> Impacts(p, F, private)]

\* Evidence that is cited has to be declared, conclusions have to cite some, and a
\* verdict needs evidence for or against it.
Cites(doc) ==
    {h.evidence : h \in doc.hypotheses} \cup {c.evidence : c \in doc.causes}
        \cup {i.evidence : i \in doc.impacts}

Checked(doc) ==
    /\ \A cited \in Cites(doc) : cited # {} /\ cited \subseteq doc.declared
    /\ \A v \in doc.validations :
           /\ v.supporting \cup v.contradicting \subseteq doc.declared
           /\ v.status # "INCONCLUSIVE" => v.supporting \cup v.contradicting # {}

Builds(doc) == doc.timeline # {} /\ Checked(doc)

=============================================================================
