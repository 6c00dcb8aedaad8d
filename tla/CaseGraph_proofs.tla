-------------------------- MODULE CaseGraph_proofs --------------------------
(***************************************************************************)
(* Proofs about CaseGraph and the pure modules it is built from, for any   *)
(* runs, cases and acquisitions, any captures and any verdicts of M2.      *)
(***************************************************************************)
EXTENDS CaseGraph, TLAPS, FiniteSetTheorems, SequenceTheorems, WellFoundedInduction

(***************************************************************************)
(* Finite sets and smallest numbers.                                       *)
(***************************************************************************)

\* What a function takes a finite set to is finite.
LEMMA ImageFinite ==
    ASSUME NEW S, IsFiniteSet(S), NEW f
    PROVE  IsFiniteSet({f[x] : x \in S})
  <1> DEFINE T == {f[x] : x \in S}
             g == [x \in S |-> f[x]]
  <1>1. g \in Surjection(S, T)
    BY DEF Surjection
  <1>2. QED
    BY <1>1, FS_Surjection

\* Line numbers are finitely many.
LEMMA LinesFinite ==
    ASSUME NEW n \in Nat, NEW S \in SUBSET (1..n)
    PROVE  IsFiniteSet(S)
  <1>1. IsFiniteSet(1..n)
    BY FS_Interval
  <1>2. QED
    BY <1>1, FS_Subset

\* Of some lines there is a last one.
LEMMA LastLine ==
    ASSUME NEW n \in Nat, NEW S \in SUBSET (1..n), S # {}
    PROVE  \E i \in S : \A k \in S : k <= i
  <1> DEFINE T == {n - i : i \in S}
  <1>1. T \subseteq Nat /\ T # {}
    <2>1. \A i \in S : n - i \in Nat
      OBVIOUS
    <2>2. QED
      BY <2>1
  <1>2. PICK x \in T : \A y \in T : ~(<<y, x>> \in OpToRel(<, Nat))
    BY <1>1, WFMin, NatLessThanWellFounded
  <1>3. PICK i \in S : x = n - i
    OBVIOUS
  <1>4. ASSUME NEW k \in S PROVE k <= i
    <2>1. ~(n - k < n - i)
      BY <1>1, <1>2, <1>3 DEF OpToRel
    <2>2. QED
      BY <2>1
  <1>5. QED
    BY <1>4

\* Counting: an empty set has no element, one with two has some.
LEMMA Counting ==
    ASSUME NEW S, IsFiniteSet(S)
    PROVE  /\ Cardinality(S) \in Nat
           /\ S = {} <=> Cardinality(S) = 0
  BY FS_CardinalityType, FS_EmptySet

-----------------------------------------------------------------------------
(***************************************************************************)
(* The package of M1.                                                      *)
(***************************************************************************)

\* The index names flows of the package.
LEMMA IndexNamesFlows ==
    ASSUME NEW run, NEW first, NEW n \in Nat, DOMAIN first \subseteq 1..n,
           NEW uid \in DOMAIN FlowIndex(Flows(run, first))
    PROVE  \E i \in DOMAIN Flows(run, first) :
               FlowIndex(Flows(run, first))[uid] = Flows(run, first)[i].id
  <1> DEFINE read == Flows(run, first)
             Named == {i \in DOMAIN read : read[i].uid = uid}
             last == CHOOSE i \in Named : \A k \in Named : k <= i
  <1>1. DOMAIN read \subseteq 1..n
    BY DEF Flows
  <1>2. Named # {}
    BY DEF FlowIndex
  <1>3. last \in Named
    BY <1>1, <1>2, LastLine
  <1>4. FlowIndex(read)[uid] = read[last].id
    BY DEF FlowIndex
  <1>5. QED
    BY <1>3, <1>4

\* The integrity checks of M1 cannot fire, also when conn.log and the other logs are of
\* different runs.
LEMMA PackageWellFormed ==
    ASSUME NEW run, NEW first, NEW log, NEW n \in Nat, DOMAIN first \subseteq 1..n
    PROVE  WellFormed(Package(run, first, log))
  <1> DEFINE p == Package(run, first, log)
             index == FlowIndex(Flows(run, first))
  <1>1. p.flows = Flows(run, first) /\ p.events = Events(run, log, index)
    BY DEF Package
  <1>2. ASSUME NEW i \in DOMAIN p.events
        PROVE  p.events[i].flow \in FlowIds(p)
    <2>1. /\ i \in DOMAIN log /\ Known(log[i], index)
          /\ p.events[i] = EventOf(run, log[i], i, index)
      BY <1>1, <1>2 DEF Events
    <2>2. p.events[i].flow = index[log[i].uid] /\ log[i].uid \in DOMAIN index
      BY <2>1 DEF EventOf, Known
    <2>3. PICK k \in DOMAIN p.flows : index[log[i].uid] = p.flows[k].id
      BY <1>1, <2>2, IndexNamesFlows
    <2>4. QED
      BY <2>2, <2>3 DEF FlowIds
  <1>3. ASSUME NEW a \in p.artifacts
        PROVE  a.event \in EventIds(p) /\ a.flow \in FlowIds(p)
    <2>1. PICK i \in DOMAIN p.events : a \in Artifacts(p.events[i])
      BY <1>1 DEF Package
    <2>2. a.event = p.events[i].id /\ a.flow = p.events[i].flow
      BY <2>1 DEF Artifacts
    <2>3. QED
      BY <1>2, <2>2 DEF EventIds
  <1>4. QED
    BY <1>2, <1>3 DEF WellFormed

\* The artifacts of an event are finitely many.
LEMMA ArtifactsFinite ==
    ASSUME NEW event, event.extras \in Seq(STRING), event.name \in STRING
    PROVE  IsFiniteSet({a.id : a \in Artifacts(event)})
  <1> DEFINE N == {k \in DOMAIN Values(event) : Values(event)[k] # Absent}
             f == [k \in N |-> <<event.id, "artifact", k>>]
  <1>1. Values(event) \in Seq(STRING)
    <2>1. <<event.name>> \in Seq(STRING)
      OBVIOUS
    <2>2. <<event.name>> \o event.extras \in Seq(STRING)
      BY <2>1, ConcatProperties
    <2>3. QED
      BY <2>2 DEF Values
  <1>2. N \subseteq 1..Len(Values(event)) /\ Len(Values(event)) \in Nat
    BY <1>1
  <1>3. IsFiniteSet(N)
    BY <1>2, LinesFinite
  <1>4. IsFiniteSet({f[k] : k \in N})
    BY <1>3, ImageFinite
  <1>5. {a.id : a \in Artifacts(event)} \subseteq {f[k] : k \in N}
    BY DEF Artifacts
  <1>6. QED
    BY <1>4, <1>5, FS_Subset

\* So is all that a finding can cite.
LEMMA PackageFinite ==
    ASSUME NEW run, NEW first, NEW log, NEW n \in Nat, NEW m \in Nat,
           DOMAIN first \subseteq 1..n, DOMAIN log \subseteq 1..m,
           \A i \in DOMAIN log : log[i].extras \in Seq(STRING) /\ log[i].name \in STRING
    PROVE  IsFiniteSet(EvidenceIds(Package(run, first, log)))
  <1> DEFINE p == Package(run, first, log)
             index == FlowIndex(Flows(run, first))
             flowId == [i \in DOMAIN p.flows |-> p.flows[i].id]
             eventId == [i \in DOMAIN p.events |-> p.events[i].id]
             artifactIds == [i \in DOMAIN p.events |-> {a.id : a \in Artifacts(p.events[i])}]
  <1>1. p.flows = Flows(run, first) /\ p.events = Events(run, log, index)
    BY DEF Package
  <1>2. IsFiniteSet(DOMAIN p.flows) /\ IsFiniteSet(DOMAIN p.events)
    <2>1. DOMAIN p.flows \subseteq 1..n /\ DOMAIN p.events \subseteq 1..m
      BY <1>1 DEF Flows, Events
    <2>2. QED
      BY <2>1, LinesFinite
  <1>3. IsFiniteSet(FlowIds(p))
    <2>1. FlowIds(p) = {flowId[i] : i \in DOMAIN p.flows}
      BY DEF FlowIds
    <2> HIDE DEF flowId
    <2>2. QED
      BY <1>2, <2>1, ImageFinite
  <1>4. IsFiniteSet(EventIds(p))
    <2>1. EventIds(p) = {eventId[i] : i \in DOMAIN p.events}
      BY DEF EventIds
    <2> HIDE DEF eventId
    <2>2. QED
      BY <1>2, <2>1, ImageFinite
  <1>5. IsFiniteSet(ArtifactIds(p))
    <2>1. ASSUME NEW i \in DOMAIN p.events
          PROVE  IsFiniteSet(artifactIds[i])
      <3>1. p.events[i].extras \in Seq(STRING) /\ p.events[i].name \in STRING
        BY <1>1, <2>1 DEF Events, EventOf
      <3>2. QED
        BY <3>1, ArtifactsFinite
    <2>2. ASSUME NEW id \in ArtifactIds(p)
          PROVE  \E i \in DOMAIN p.events : id \in artifactIds[i]
      <3>1. PICK a \in p.artifacts : id = a.id
        BY <2>2 DEF ArtifactIds
      <3>2. PICK i \in DOMAIN p.events : a \in Artifacts(p.events[i])
        BY <1>1 DEF Package
      <3>3. QED
        BY <3>1, <3>2
    <2> HIDE DEF artifactIds
    <2>3. IsFiniteSet({artifactIds[i] : i \in DOMAIN p.events})
      BY <1>2, ImageFinite
    <2>4. IsFiniteSet(UNION {artifactIds[i] : i \in DOMAIN p.events})
      BY <2>1, <2>3, FS_UNION
    <2>5. QED
      BY <2>2, <2>4, FS_Subset
  <1>6. QED
    BY <1>3, <1>4, <1>5, FS_Union DEF EvidenceIds

-----------------------------------------------------------------------------
(***************************************************************************)
(* Hypotheses and their validations.                                       *)
(***************************************************************************)

HypothesisTypes == {"C2_COMMUNICATION", "DNS_C2", "NETWORK_RECONNAISSANCE",
                    "POTENTIAL_EXFILTRATION", "SUSPICIOUS_WEB_ACTIVITY"}

\* A hypothesis has evidence, all of it from the package, and a type the validator knows.
LEMMA HypothesisShape ==
    ASSUME NEW p, NEW F, NEW h \in Hypotheses(p, F)
    PROVE  h.evidence # {} /\ h.evidence \subseteq EvidenceIds(p) /\ h.type \in HypothesisTypes
  <1>1. PICK activity \in {f.activity : f \in F} :
            /\ h = Hypothesis(activity, F, p)
            /\ Grounded(activity, Hypothesis(activity, F, p).evidence, p)
    BY DEF Hypotheses
  <1>2. h.type = HypothesisType(activity) /\ h.type # "none" /\ h.evidence # {}
    BY <1>1 DEF Hypothesis, Grounded
  <1>3. h.type \in HypothesisTypes
    BY <1>2 DEF HypothesisType, HypothesisTypes
  <1>4. h.evidence \subseteq EvidenceIds(p)
    BY <1>1 DEF Hypothesis, CitedIn
  <1>5. QED
    BY <1>2, <1>3, <1>4

\* What a validation can be: it has evidence for the hypothesis, or against it, or
\* neither and says that evidence is missing.
WellValidated(v, h) ==
    /\ v.hypothesis = h
    /\ v.supporting \subseteq h.evidence /\ v.contradicting \subseteq h.evidence
    /\ v.missing \in BOOLEAN
    /\ \/ v.status = "VALIDATED" /\ v.supporting # {} /\ v.contradicting = {}
       \/ v.status = "REJECTED" /\ v.contradicting # {}
       \/ v.status = "INCONCLUSIVE" /\ v.supporting = {} /\ v.contradicting = {} /\ v.missing

\* The two ways of most validators.
LEMMA SupportedOrNot ==
    ASSUME NEW h, NEW p, NEW S, S \subseteq h.evidence, NEW missing \in BOOLEAN
    PROVE  /\ S # {} => WellValidated(Supported(h, p, S, missing), h)
           /\ WellValidated(Inconclusive(h, p), h)
  BY DEF WellValidated, Supported, Inconclusive, Validation

\* Every validator gives one of those.
LEMMA ValidationShape ==
    ASSUME NEW p, NEW F, NEW h \in Hypotheses(p, F), IsFiniteSet(EvidenceIds(p))
    PROVE  WellValidated(Validate(h, p), h)
  <1> DEFINE flowsIn == IdsOfFlows(p, FlowsIn(h, p))
  <1>1. IsFiniteSet(h.evidence) /\ h.type \in HypothesisTypes
    BY HypothesisShape, FS_Subset
  <1>2. \A S : S \subseteq FlowsIn(h, p) => IdsOfFlows(p, S) \subseteq h.evidence
    BY DEF IdsOfFlows, FlowsIn
  <1>3. \A S : S # {} => IdsOfFlows(p, S) # {}
    BY DEF IdsOfFlows
  <1>4. CASE h.type = "C2_COMMUNICATION"
    <2> DEFINE signals == h.evidence \cap (FlowIds(p) \cup EventIds(p))
               refused == IdsOfFlows(p, {i \in FlowsIn(h, p) : p.flows[i].rejected})
    <2>1. Validate(h, p) = ValidateC2(h, p)
      BY <1>4 DEF Validate
    <2>2. IsFiniteSet(signals) /\ signals \subseteq h.evidence
      BY <1>1, FS_Subset
    <2>3. refused \subseteq h.evidence
      BY <1>2
    <2>4. CASE Cardinality(signals) >= 2
      <3>1. signals # {}
        BY <2>2, <2>4, Counting
      <3>2. ~(Cardinality(signals) < 2)
        BY <2>2, <2>4, Counting
      <3>3. ValidateC2(h, p) = Supported(h, p, signals, FALSE)
        BY <2>4, <3>2, Zenon DEF ValidateC2
      <3>4. QED
        BY <2>1, <2>2, <3>1, <3>3, SupportedOrNot
    <2>5. CASE Cardinality(signals) < 2 /\ refused # {}
      <3>1. ~(Cardinality(signals) >= 2)
        BY <2>2, <2>5, Counting
      <3>2. ValidateC2(h, p) = Validation(h, "REJECTED", {}, refused, FALSE, p)
        BY <2>5, <3>1, Zenon DEF ValidateC2
      <3> HIDE DEF refused
      <3>3. QED
        BY <2>1, <2>3, <2>5, <3>2 DEF WellValidated, Validation
    <2>6. CASE Cardinality(signals) < 2 /\ refused = {}
      <3>1. ~(Cardinality(signals) >= 2)
        BY <2>2, <2>6, Counting
      <3>2. ValidateC2(h, p) = Inconclusive(h, p)
        BY <2>6, <3>1, Zenon DEF ValidateC2
      <3>3. QED
        BY <2>1, <3>2, SupportedOrNot
    <2>7. Cardinality(signals) >= 2 \/ Cardinality(signals) < 2
      BY <2>2, Counting
    <2>8. QED
      BY <2>4, <2>5, <2>6, <2>7, Zenon
  <1>5. ASSUME NEW protos, Validate(h, p) = ValidateByEvents(h, p, protos)
        PROVE  WellValidated(Validate(h, p), h)
    BY <1>5, SupportedOrNot DEF ValidateByEvents
  <1>6. CASE h.type = "NETWORK_RECONNAISSANCE"
    <2> DEFINE targets == {p.flows[i].dst : i \in FlowsIn(h, p)}
               ports == {p.flows[i].port : i \in FlowsIn(h, p)} \ {0}
    <2>1. Validate(h, p) = ValidateScan(h, p)
      BY <1>6 DEF Validate
    <2>2. CASE FlowsIn(h, p) = {}
      <3>1. Cardinality(targets) = 0 /\ Cardinality(ports) = 0
        BY <2>2, FS_EmptySet
      <3>2. ValidateScan(h, p) = Inconclusive(h, p)
        BY <3>1 DEF ValidateScan
      <3>3. QED
        BY <2>1, <3>2, SupportedOrNot
    <2>3. CASE FlowsIn(h, p) # {}
      BY <1>2, <1>3, <2>1, <2>3, SupportedOrNot DEF ValidateScan
    <2>4. QED
      BY <2>2, <2>3
  <1>7. CASE h.type = "POTENTIAL_EXFILTRATION"
    <2> DEFINE outbound == IdsOfFlows(p, {i \in FlowsIn(h, p) : p.flows[i].sends})
    <2>1. Validate(h, p) = ValidateExfiltration(h, p)
      BY <1>7 DEF Validate
    <2>2. outbound \subseteq h.evidence
      BY <1>2
    <2>3. QED
      BY <2>1, <2>2, SupportedOrNot DEF ValidateExfiltration
  <1>8. QED
    BY <1>1, <1>4, <1>5, <1>6, <1>7 DEF HypothesisTypes, Validate

-----------------------------------------------------------------------------
(***************************************************************************)
(* Confidences, and what the case builder checks.                          *)
(***************************************************************************)

\* Evidence weighs between nothing and four.
LEMMA WeightBounds ==
    ASSUME NEW S, IsFiniteSet(S)
    PROVE  /\ Weight(S) \in 0..4
           /\ S = {} => Weight(S) = 0
           /\ S # {} => Weight(S) >= 1
  BY Counting DEF Weight, Smaller

\* A root cause is no surer than the validation it rests on.
LEMMA CauseNoSurer ==
    ASSUME NEW h, NEW v, WellValidated(v, h), IsFiniteSet(h.evidence), v.status # "REJECTED"
    PROVE  CauseConfidence(v) \in Nat /\ CauseConfidence(v) <= ValidationConfidence(v)
  <1> DEFINE W == Weight(v.supporting)
  <1>1. IsFiniteSet(v.supporting) /\ v.contradicting = {} /\ v.missing \in BOOLEAN
    BY FS_Subset DEF WellValidated
  <1>2. Cardinality(v.contradicting) = 0 /\ W \in 0..4
    BY <1>1, FS_EmptySet, WeightBounds
  <1>3. CASE v.status = "VALIDATED"
    <2>1. W >= 1 /\ v.supporting # {}
      BY <1>1, <1>3, WeightBounds DEF WellValidated
    <2>2. \/ CauseStatus(v) = "SUPPORTED" /\ ~v.missing
          \/ CauseStatus(v) = "PARTIALLY_SUPPORTED"
      BY <1>1, <1>3, <2>1 DEF CauseStatus, Sufficient, MissingFor
    <2>3. \/ CauseCap(CauseStatus(v)) = 90 /\ ~v.missing
          \/ CauseCap(CauseStatus(v)) = 75
      BY <2>2 DEF CauseCap
    <2> HIDE DEF W
    <2>4. QED
      BY <1>2, <1>3, <2>1, <2>3 DEF CauseConfidence, ValidationConfidence, Smaller, Less, W
  <1>4. CASE v.status = "INCONCLUSIVE"
    <2>1. W = 0 /\ v.supporting = {} /\ v.missing
      BY <1>1, <1>4, WeightBounds DEF WellValidated
    <2>2. CauseCap(CauseStatus(v)) = 40
      BY <2>1 DEF CauseStatus, CauseCap
    <2> HIDE DEF W
    <2>3. QED
      BY <1>2, <1>4, <2>1, <2>2 DEF CauseConfidence, ValidationConfidence, Smaller, Less, W
  <1>5. QED
    BY <1>3, <1>4 DEF WellValidated

\* An impact is no surer than its root cause.
LEMMA ImpactNoSurer ==
    ASSUME NEW h, NEW v, WellValidated(v, h), IsFiniteSet(h.evidence), v.status # "REJECTED",
           Cause(v).status # "UNRESOLVED"
    PROVE  ImpactConfidence(Cause(v)) <= Cause(v).confidence
  <1> DEFINE W == Weight(v.supporting)
             c == Cause(v)
  <1>1. IsFiniteSet(v.supporting) /\ v.contradicting = {}
    BY FS_Subset DEF WellValidated
  <1>2. Cardinality(v.contradicting) = 0 /\ W \in 0..4
    BY <1>1, FS_EmptySet, WeightBounds
  <1>3. v.status = "VALIDATED" /\ v.supporting # {}
    BY <1>1 DEF WellValidated, Cause, CauseStatus
  <1>4. /\ c.of = v /\ c.evidence = v.supporting /\ c.status = CauseStatus(v)
        /\ c.confidence = CauseConfidence(v)
    BY <1>3 DEF Cause
  <1>5. \/ c.status = "SUPPORTED" /\ CauseCap(CauseStatus(v)) = 90
        \/ c.status = "PARTIALLY_SUPPORTED" /\ CauseCap(CauseStatus(v)) = 75
    BY <1>1, <1>3, <1>4 DEF CauseStatus, Sufficient, CauseCap
  <1>6. ImpactStatus(c) = "INFERRED" => c.status = "SUPPORTED"
    BY DEF ImpactStatus
  <1> HIDE DEF W, c
  <1>7. ImpactConfidence(c) =
            Smaller(IF ImpactStatus(c) = "INFERRED" THEN 75 ELSE 60,
                    Less(30 + (IF c.status = "SUPPORTED" THEN 20 ELSE 0) + 5 * W,
                         IF MissingFor(v) THEN 10 ELSE 0))
    BY <1>2, <1>4 DEF ImpactConfidence, W
  <1>8. c.confidence = Smaller(CauseCap(CauseStatus(v)),
                               Less(40 + 15 + 5 * W, IF MissingFor(v) THEN 10 ELSE 0))
    BY <1>2, <1>3, <1>4 DEF CauseConfidence, W
  <1>9. QED
    BY <1>2, <1>5, <1>6, <1>7, <1>8 DEF Smaller, Less, c

\* A validation of the document is the validation of one of its hypotheses.
LEMMA DocumentValidations ==
    ASSUME NEW p, NEW F, IsFiniteSet(EvidenceIds(p)), NEW v \in Validations(p, F)
    PROVE  \E h \in Hypotheses(p, F) :
               /\ WellValidated(v, h) /\ v.hypothesis = h
               /\ h.evidence # {} /\ h.evidence \subseteq EvidenceIds(p)
               /\ IsFiniteSet(h.evidence)
  <1>1. PICK h \in Hypotheses(p, F) : v = Validate(h, p)
    BY DEF Validations
  <1>2. WellValidated(v, h)
    BY <1>1, ValidationShape
  <1>3. h.evidence # {} /\ h.evidence \subseteq EvidenceIds(p)
    BY HypothesisShape
  <1>4. QED
    BY <1>2, <1>3, FS_Subset DEF WellValidated

\* What a cause of the document rests on.
LEMMA DocumentCauses ==
    ASSUME NEW p, NEW F, IsFiniteSet(EvidenceIds(p)), NEW c \in RootCauses(p, F)
    PROVE  /\ c.of.status # "REJECTED"
           /\ c.confidence <= ValidationConfidence(c.of)
           /\ c.evidence # {} /\ c.evidence \subseteq c.of.hypothesis.evidence
           /\ c.evidence \subseteq EvidenceIds(p)
           /\ c.status # "UNRESOLVED" => ImpactConfidence(c) <= c.confidence
  <1>1. PICK v \in Validations(p, F) : v.status # "REJECTED" /\ c = Cause(v)
    BY DEF RootCauses
  <1>2. PICK h \in Hypotheses(p, F) :
            /\ WellValidated(v, h) /\ v.hypothesis = h
            /\ h.evidence # {} /\ h.evidence \subseteq EvidenceIds(p)
            /\ IsFiniteSet(h.evidence)
    BY DocumentValidations
  <1>3. c.of = v /\ c.confidence = CauseConfidence(v)
    BY <1>1 DEF Cause
  <1>4. c.evidence # {} /\ c.evidence \subseteq h.evidence
    BY <1>1, <1>2 DEF Cause, WellValidated
  <1>5. CauseConfidence(v) <= ValidationConfidence(v)
    BY <1>1, <1>2, CauseNoSurer
  <1>6. c.status # "UNRESOLVED" => ImpactConfidence(c) <= c.confidence
    BY <1>1, <1>2, ImpactNoSurer
  <1>7. QED
    BY <1>1, <1>2, <1>3, <1>4, <1>5, <1>6

\* The case builder finds nothing wrong with a document of M3.
LEMMA DocumentChecked ==
    ASSUME NEW p, NEW F, NEW private, IsFiniteSet(EvidenceIds(p))
    PROVE  Checked(Document(p, F, private))
  <1> DEFINE d == Document(p, F, private)
  <1>1. /\ d.hypotheses = Hypotheses(p, F) /\ d.validations = Validations(p, F)
        /\ d.causes = RootCauses(p, F) /\ d.impacts = Impacts(p, F, private)
        /\ d.declared = EvidenceIds(p)
    BY DEF Document, Declared
  <1> HIDE DEF d
  <1>2. ASSUME NEW cited \in Cites(d)
        PROVE  cited # {} /\ cited \subseteq d.declared
    <2>1. CASE \E h \in Hypotheses(p, F) : cited = h.evidence
      BY <1>1, <2>1, HypothesisShape
    <2>2. CASE \E c \in RootCauses(p, F) : cited = c.evidence
      BY <1>1, <2>2, DocumentCauses
    <2>3. CASE \E i \in Impacts(p, F, private) : cited = i.evidence
      <3>1. PICK c \in RootCauses(p, F) : cited = Impact(c).evidence
        BY <2>3 DEF Impacts
      <3>2. cited = c.evidence
        BY <3>1 DEF Impact
      <3>3. QED
        BY <1>1, <3>2, DocumentCauses
    <2>4. QED
      BY <1>1, <1>2, <2>1, <2>2, <2>3 DEF Cites
  <1>3. ASSUME NEW v \in d.validations
        PROVE  /\ v.supporting \cup v.contradicting \subseteq d.declared
               /\ v.status # "INCONCLUSIVE" => v.supporting \cup v.contradicting # {}
    <2>1. PICK h \in Hypotheses(p, F) : WellValidated(v, h) /\ h.evidence \subseteq EvidenceIds(p)
      BY <1>1, <1>3, DocumentValidations
    <2>2. QED
      BY <1>1, <2>1 DEF WellValidated
  <1>4. Checked(d)
    BY <1>2, <1>3 DEF Checked
  <1>5. QED
    BY <1>4 DEF d

-----------------------------------------------------------------------------
(***************************************************************************)
(* Mappings and hypotheses.                                                *)
(***************************************************************************)

\* The mapper looks for events of a protocol, the generator for evidence from them: for
\* a finding that cites everything they agree.
LEMMA TelemetryIsEvidence ==
    ASSUME NEW p, NEW proto
    PROVE  proto \in Telemetry(p) <=> EvidenceIds(p) \cap EventsOf(p, {proto}) # {}
  BY DEF Telemetry, EvidenceIds, EventIds, EventsOf

\* The finding of a package is mapped exactly when it has a hypothesis.
LEMMA MappedAndHypothesized ==
    ASSUME NEW run, NEW p, NEW v \in Verdict, NEW private, NEW f \in Findings(run, p, v)
    PROVE  (\E m \in Mappings(p, Findings(run, p, v)) : m.finding = f.id)
              <=> (\E h \in Hypotheses(p, Findings(run, p, v)) : f.id \in h.findings)
  <1> DEFINE F == Findings(run, p, v)
  <1>1. F = {f} /\ f.activity = v.activity /\ f.evidence = EvidenceIds(p)
    BY DEF Findings, Evidence
  <1>2. CitedIn(f, p) = EvidenceIds(p) /\ f.activity \in Activities
    BY <1>1 DEF CitedIn, Verdict
  <1> HIDE DEF F
  <1>3. Mappings(p, F) = IF EvidenceIds(p) # {} THEN Techniques(f, p) ELSE {}
    BY <1>1, <1>2 DEF Mappings
  <1>4. \A m \in Techniques(f, p) : m.finding = f.id
    BY DEF Techniques, C2Techniques, Mapping
  <1>5. Hypothesis(f.activity, F, p).evidence = EvidenceIds(p)
    BY <1>1, <1>2 DEF Hypothesis
  <1>6. Hypotheses(p, F) = IF Grounded(f.activity, EvidenceIds(p), p)
                           THEN {Hypothesis(f.activity, F, p)} ELSE {}
    BY <1>1, <1>5 DEF Hypotheses
  <1>7. f.id \in Hypothesis(f.activity, F, p).findings
    BY <1>1 DEF Hypothesis
  <1>8. EvidenceIds(p) # {} =>
            (Techniques(f, p) # {} <=> Grounded(f.activity, EvidenceIds(p), p))
    <2> SUFFICES ASSUME EvidenceIds(p) # {}
                 PROVE  Techniques(f, p) # {} <=> Grounded(f.activity, EvidenceIds(p), p)
      OBVIOUS
    <2>1. CASE f.activity = "BENIGN"
      BY <2>1 DEF Techniques, Grounded, HypothesisType
    <2>2. CASE f.activity = "SCANNING_RECONNAISSANCE"
      BY <2>2 DEF Techniques, Grounded, HypothesisType
    <2>3. CASE f.activity = "POSSIBLE_EXFILTRATION"
      BY <2>3 DEF Techniques, Grounded, HypothesisType
    <2>4. CASE f.activity = "C2_MALWARE_COMMUNICATION"
      BY <2>4 DEF Techniques, C2Techniques, Grounded, HypothesisType
    <2>5. CASE f.activity = "DNS_ANOMALY_TUNNELING"
      BY <2>5, TelemetryIsEvidence DEF Techniques, Grounded, HypothesisType
    <2>6. CASE f.activity = "SUSPICIOUS_WEB_ACTIVITY"
      BY <2>6, TelemetryIsEvidence DEF Techniques, Grounded, HypothesisType
    <2>7. QED
      BY <1>2, <2>1, <2>2, <2>3, <2>4, <2>5, <2>6 DEF Activities
  <1>9. Grounded(f.activity, EvidenceIds(p), p) => EvidenceIds(p) # {}
    BY DEF Grounded
  <1>10. (\E m \in Mappings(p, F) : m.finding = f.id) <=> (\E h \in Hypotheses(p, F) : f.id \in h.findings)
    <2>1. CASE Grounded(f.activity, EvidenceIds(p), p)
      BY <1>3, <1>4, <1>6, <1>7, <1>8, <1>9, <2>1
    <2>2. CASE ~Grounded(f.activity, EvidenceIds(p), p)
      BY <1>3, <1>6, <1>8, <2>2
    <2>3. QED
      BY <2>1, <2>2
  <1>11. QED
    BY <1>10 DEF F

-----------------------------------------------------------------------------
(***************************************************************************)
(* Type correctness.                                                       *)
(***************************************************************************)

\* The initial state has the types of TypeOK.
LEMMA InitTypeOK == Init => TypeOK
  BY DEF Init, TypeOK, Labels

\* Every step that inserts no row into the graph keeps the types.
LEMMA QuietTypeOK ==
    ASSUME TypeOK, NEW r \in Runs,
           \/ RunZeek(r) \/ ReadFlows(r) \/ ReadEvents(r) \/ StoreM1(r) \/ Analyze(r)
           \/ UpsertCase(r) \/ InsertRow(r) \/ (Abort(r) /\ pc[r] = "writing")
    PROVE  TypeOK'
  <1>1. AcquisitionOf[r] \in Acquisitions
    BY CaseGraphAssumption
  <1>2. CASE RunZeek(r)
    BY <1>1, <1>2 DEF RunZeek, TypeOK, Goto, Labels
  <1>3. CASE ReadFlows(r)
    BY <1>1, <1>3 DEF ReadFlows, TypeOK, Goto, Labels
  <1>4. CASE ReadEvents(r)
    BY <1>1, <1>4 DEF ReadEvents, TypeOK, Goto, Labels
  <1>5. CASE StoreM1(r)
    <2>1. Uids(r) \subseteq Acquisitions \X Runs
      BY <1>1 DEF Uids, TypeOK
    <2>2. QED
      BY <1>5, <2>1 DEF StoreM1, TypeOK, Goto, Labels
  <1>6. CASE Analyze(r)
    BY <1>1, <1>6 DEF Analyze, TypeOK, Goto, Labels
  <1>7. CASE UpsertCase(r)
    BY <1>1, <1>7 DEF UpsertCase, TypeOK, Goto, Labels
  <1>8. CASE InsertRow(r)
    <2>1. NextRow(r) \subseteq DOMAIN doc[r].shared
      BY DEF NextRow, Remaining
    <2>2. QED
      BY <1>8, <2>1 DEF InsertRow, TypeOK, Goto, Labels
  <1>9. CASE Abort(r) /\ pc[r] = "writing"
    BY <1>1, <1>9 DEF Abort, TypeOK, Goto, Labels
  <1>10. QED
    BY <1>2, <1>3, <1>4, <1>5, <1>6, <1>7, <1>8, <1>9

\* A commit keeps the types.
LEMMA CommitTypeOK ==
    ASSUME TypeOK, NEW r \in Runs, Commit(r)
    PROVE  TypeOK'
  <1>1. CaseOf[r] \in Cases
    BY CaseGraphAssumption
  <1>2. \A key \in DOMAIN graph' : graph'[key] \in Cases
    BY <1>1 DEF Commit, Published, TypeOK
  <1>3. QED
    BY <1>2 DEF Commit, TypeOK, Goto, Labels

\* Every step is one of those, or leaves everything as it is.
LEMMA StepKinds ==
    ASSUME TypeOK, [Next]_vars
    PROVE  \/ UNCHANGED vars
           \/ \E r \in Runs :
                 \/ RunZeek(r) \/ ReadFlows(r) \/ ReadEvents(r) \/ StoreM1(r) \/ Analyze(r)
                 \/ UpsertCase(r) \/ InsertRow(r) \/ (Abort(r) /\ pc[r] = "writing")
                 \/ Commit(r)
  <1>1. CASE Deadlock
    <2>1. PICK S \in SUBSET Runs : Deadlocked(S) /\ \E r \in S : Abort(r)
      BY <1>1 DEF Deadlock
    <2>2. PICK r \in S : Abort(r)
      BY <2>1
    <2>3. PICK q \in S : r \in Blockers(q)
      BY <2>1, <2>2 DEF Deadlocked
    <2>4. r \in Runs /\ mine[r] # {}
      BY <2>2, <2>3 DEF Blockers
    <2>5. pc[r] = "writing"
      BY <2>4 DEF TypeOK
    <2>6. QED
      BY <2>2, <2>4, <2>5
  <1>2. ASSUME NEW r \in Runs, Rollback(r)
        PROVE  Abort(r) /\ pc[r] = "writing"
    BY <1>2 DEF Rollback
  <1>3. CASE \E r \in Runs : Progress(r) \/ Rollback(r)
    <2>1. PICK r \in Runs : Progress(r) \/ Rollback(r)
      BY <1>3
    <2>2. CASE Rollback(r)
      BY <1>2, <2>2
    <2>3. CASE Progress(r)
      BY <2>3 DEF Progress
    <2>4. QED
      BY <2>1, <2>2, <2>3
  <1>4. QED
    BY <1>1, <1>3 DEF Next

\* Types are kept by every step.
LEMMA NextTypeOK == TypeOK /\ [Next]_vars => TypeOK'
  <1> SUFFICES ASSUME TypeOK, [Next]_vars PROVE TypeOK'
    OBVIOUS
  <1>1. CASE UNCHANGED vars
    BY <1>1 DEF vars, TypeOK
  <1>2. QED
    BY <1>1, StepKinds, QuietTypeOK, CommitTypeOK

\* The state of the runs, the tables and the Zeek directories keep their types; who has
\* no package or document has none, and only an open transaction holds rows back.
THEOREM TypeCorrect == Spec => []TypeOK
  BY InitTypeOK, NextTypeOK, PTL DEF Spec

-----------------------------------------------------------------------------
(***************************************************************************)
(* The graph as its readers see it.  A run writes at its commit only, and  *)
(* what it writes are rows of its document, for its case.                  *)
(***************************************************************************)

\* Who has committed keeps the document it has committed.
LEMMA DoneStays ==
    ASSUME TypeOK, [Next]_vars, NEW r \in Runs, pc[r] = "done"
    PROVE  pc'[r] = "done" /\ doc'[r] = doc[r]
  <1>1. CASE UNCHANGED vars
    BY <1>1 DEF vars
  <1>2. SUFFICES ASSUME NEW q \in Runs,
                        \/ RunZeek(q) \/ ReadFlows(q) \/ ReadEvents(q) \/ StoreM1(q)
                        \/ Analyze(q) \/ UpsertCase(q) \/ InsertRow(q)
                        \/ (Abort(q) /\ pc[q] = "writing") \/ Commit(q)
                 PROVE  pc'[r] = "done" /\ doc'[r] = doc[r]
    BY <1>1, StepKinds
  <1>3. q # r
    BY <1>2 DEF RunZeek, ReadFlows, ReadEvents, StoreM1, Analyze, UpsertCase, InsertRow, Abort, Commit
  <1>4. QED
    BY <1>2, <1>3 DEF RunZeek, ReadFlows, ReadEvents, StoreM1, Analyze, UpsertCase, InsertRow,
          Abort, Commit, Goto, TypeOK

\* The tables change at commits only.
LEMMA GraphChangesAtCommits ==
    ASSUME TypeOK, [Next]_vars
    PROVE  UNCHANGED <<graph, chain>> \/ \E r \in Runs : Commit(r)
  BY StepKinds DEF RunZeek, ReadFlows, ReadEvents, StoreM1, Analyze, UpsertCase, InsertRow,
     Abort, vars

\* What a commit adds are rows of the document, and the chain's techniques are mapped.
LEMMA CommitWrites ==
    ASSUME TypeOK, NEW r \in Runs, Commit(r)
    PROVE  /\ Written(r) \subseteq Rows(CaseOf[r], doc[r])
           /\ \A t \in chain'[CaseOf[r]] : <<"mitre", CaseOf[r], t>> \in Written(r)
  <1>1. mine[r] \subseteq DOMAIN doc[r].shared
    BY DEF TypeOK
  <1>2. Written(r) \subseteq Rows(CaseOf[r], doc[r])
    BY <1>1 DEF Written, Rows
  <1>3. ASSUME NEW t \in chain'[CaseOf[r]]
        PROVE  <<"mitre", CaseOf[r], t>> \in Written(r)
    <2>1. t \in Chain(doc[r].mappings)
      BY <1>3, CaseGraphAssumption DEF Commit, TypeOK
    <2>2. PICK m \in doc[r].mappings : t = m.technique
      BY <2>1 DEF Chain
    <2>3. <<"mitre", CaseOf[r], t>> \in MappingRows(CaseOf[r], doc[r])
      BY <2>2 DEF MappingRows
    <2>4. QED
      BY <2>3 DEF OwnRows, Written
  <1>4. QED
    BY <1>2, <1>3

\* The induction step of NothingUncommitted.
LEMMA NextNothingUncommitted ==
    ASSUME TypeOK, NothingUncommitted, [Next]_vars
    PROVE  NothingUncommitted'
  <1> SUFFICES ASSUME NEW key \in DOMAIN graph'
               PROVE  \E r \in Runs : /\ pc'[r] = "done" /\ graph'[key] = CaseOf[r]
                                      /\ key \in Rows(CaseOf[r], doc'[r])
    BY DEF NothingUncommitted, Rows, OwnRows, MappingRows
  <1>1. CASE key \in DOMAIN graph /\ graph'[key] = graph[key]
    <2>1. PICK r \in Runs : /\ pc[r] = "done" /\ graph[key] = CaseOf[r]
                            /\ key \in Rows(CaseOf[r], doc[r])
      BY <1>1 DEF NothingUncommitted
    <2>2. QED
      BY <1>1, <2>1, DoneStays
  <1>2. CASE \E r \in Runs : Commit(r)
    <2>1. PICK r \in Runs : Commit(r)
      BY <1>2
    <2>2. CASE key \in DOMAIN graph
      BY <1>1, <2>1, <2>2 DEF Commit, Published
    <2>3. CASE key \notin DOMAIN graph
      <3>1. key \in Written(r) /\ graph'[key] = CaseOf[r]
        BY <2>1, <2>3 DEF Commit, Published
      <3>2. pc'[r] = "done" /\ doc'[r] = doc[r]
        BY <2>1 DEF Commit, Goto, TypeOK
      <3>3. QED
        BY <2>1, <3>1, <3>2, CommitWrites
    <2>4. QED
      BY <2>2, <2>3
  <1>3. QED
    BY <1>1, <1>2, GraphChangesAtCommits

\* No row of the graph is there that no committed analysis has written for the case it
\* belongs to, however the transactions wait for, skip and abort each other.
THEOREM OnlyCommittedRows == Spec => []NothingUncommitted
  <1>1. Init => NothingUncommitted
    BY DEF Init, NothingUncommitted
  <1>2. QED
    BY <1>1, InitTypeOK, NextTypeOK, NextNothingUncommitted, PTL DEF Spec

\* A commit is a publication.
LEMMA CommitRefines ==
    ASSUME TypeOK, NEW r \in Runs, Commit(r)
    PROVE  Publication!Publish(CaseOf[r])
  <1>1. CaseOf[r] \in Cases
    BY CaseGraphAssumption
  <1>2. Publication!Kept
    BY DEF Commit, Published, Publication!Kept
  <1>3. \A key \in DOMAIN graph' \ DOMAIN graph : graph'[key] = CaseOf[r]
    BY DEF Commit, Published
  <1>4. /\ \A c \in Cases \ {CaseOf[r]} : chain'[c] = chain[c]
        /\ DOMAIN chain' = Cases
    BY DEF Commit, TypeOK
  <1>5. \A t \in chain'[CaseOf[r]] : <<"mitre", CaseOf[r], t>> \in DOMAIN graph'
    BY CommitWrites DEF Commit, Published
  <1>6. QED
    BY <1>2, <1>3, <1>4, <1>5 DEF Publication!Publish

\* What an investigator can see of the cases is a behaviour of GraphPublication: results
\* appear at once and in their case, no row is changed, removed or handed over, and an
\* attack chain comes with its mappings.
THEOREM GraphImplementsPublication == Spec => ImplementsPublication
  <1>1. Init => Publication!Init
    BY DEF Init, Publication!Init
  <1>2. TypeOK /\ [Next]_vars => [Publication!Next]_<<graph, chain>>
    <2> SUFFICES ASSUME TypeOK, [Next]_vars, ~UNCHANGED <<graph, chain>>
                 PROVE  Publication!Next
      OBVIOUS
    <2>1. PICK r \in Runs : Commit(r)
      BY GraphChangesAtCommits
    <2>2. CaseOf[r] \in Cases
      BY CaseGraphAssumption
    <2>3. QED
      BY <2>1, <2>2, CommitRefines DEF Publication!Next
  <1>3. QED
    BY <1>1, <1>2, InitTypeOK, NextTypeOK, PTL DEF Spec, ImplementsPublication, Publication!Spec

-----------------------------------------------------------------------------
(***************************************************************************)
(* The documents.  A package is what the passes of its run have found in   *)
(* the logs of some runs, and a document what M2 and M3 make of it: of     *)
(* that the first lemmas of this module speak.                            *)
(***************************************************************************)

Assembled(r, p) ==
    \E held \in Traces, i \in Runs, k \in Runs :
        p = Package(r, Logs(i, held).conn, Logs(k, held).log)

PackagesInv == \A r \in Runs : pc[r] \notin {"idle", "zeek", "half"} => Assembled(r, package[r])

Concluded(r, d) ==
    \E v \in Verdict : \E p :
        Assembled(r, p) /\ d = Document(p, Findings(r, p, v), Private)

DocumentsInv == \A r \in Runs : doc[r] # NoDocument => Concluded(r, doc[r])

\* The lines of a run are those of the capture, under its own uids.
LEMMA StampedLines ==
    ASSUME NEW held \in Traces, NEW r
    PROVE  /\ Len(held.conn) \in Nat /\ DOMAIN Logs(r, held).conn \subseteq 1..Len(held.conn)
           /\ Len(held.log) \in Nat /\ DOMAIN Logs(r, held).log \subseteq 1..Len(held.log)
           /\ \A i \in DOMAIN Logs(r, held).log :
                  /\ Logs(r, held).log[i].extras \in Seq(STRING)
                  /\ Logs(r, held).log[i].name \in STRING
  <1>1. held.conn \in Seq(ConnLine) /\ held.log \in Seq(LogLine)
    BY DEF Traces
  <1>2. /\ Len(held.conn) \in Nat /\ DOMAIN held.conn = 1..Len(held.conn)
        /\ Len(held.log) \in Nat /\ DOMAIN held.log = 1..Len(held.log)
    BY <1>1
  <1>3. /\ Logs(r, held).conn = Stamped(held.conn, r)
        /\ Logs(r, held).log = Stamped(held.log, r)
    BY DEF Logs
  <1>4. ASSUME NEW i \in DOMAIN held.log
        PROVE  /\ Stamped(held.log, r)[i].extras \in Seq(STRING)
               /\ Stamped(held.log, r)[i].name \in STRING
    <2>1. held.log[i] \in LogLine
      BY <1>1, <1>2, <1>4
    <2>2. Stamped(held.log, r)[i] = [held.log[i] EXCEPT !.uid = <<r, held.log[i].uid>>]
      BY DEF Stamped
    <2>3. QED
      BY <2>1, <2>2 DEF LogLine
  <1>5. QED
    BY <1>2, <1>3, <1>4 DEF Stamped

\* Packages pass their checks, and cite finitely much.
LEMMA AssembledPackage ==
    ASSUME NEW r, NEW p, Assembled(r, p)
    PROVE  WellFormed(p) /\ IsFiniteSet(EvidenceIds(p))
  <1>1. PICK held \in Traces, i \in Runs, k \in Runs :
            p = Package(r, Logs(i, held).conn, Logs(k, held).log)
    BY DEF Assembled
  <1>2. QED
    BY <1>1, StampedLines, PackageWellFormed, PackageFinite

\* What the second pass of a run assembles.
LEMMA ReadAssembles ==
    ASSUME TypeOK, NEW r \in Runs, NEW i \in conn[r], NEW k \in logs[AcquisitionOf[r]]
    PROVE  Assembled(r, PackageOf(r, i, k))
  <1>1. AcquisitionOf[r] \in Acquisitions
    BY CaseGraphAssumption
  <1>2. i \in Runs /\ k \in Runs /\ capture[AcquisitionOf[r]] \in Traces
    BY <1>1, CaseGraphAssumption DEF TypeOK
  <1>3. QED
    BY <1>2 DEF Assembled, PackageOf

\* The induction step of PackagesInv.
LEMMA NextPackagesInv ==
    ASSUME TypeOK, PackagesInv, [Next]_vars
    PROVE  PackagesInv'
  <1> SUFFICES ASSUME NEW r \in Runs, pc'[r] \notin {"idle", "zeek", "half"}
               PROVE  Assembled(r, package'[r])
    BY DEF PackagesInv, Assembled
  <1>1. CASE pc[r] \notin {"idle", "zeek", "half"} /\ package'[r] = package[r]
    BY <1>1 DEF PackagesInv
  <1>2. CASE ReadEvents(r)
    BY <1>2, ReadAssembles DEF ReadEvents, TypeOK
  <1>3. CASE UNCHANGED vars
    BY <1>1, <1>3 DEF vars
  <1>4. ASSUME NEW q \in Runs,
               \/ RunZeek(q) \/ ReadFlows(q) \/ (q # r /\ ReadEvents(q)) \/ StoreM1(q)
               \/ Analyze(q) \/ UpsertCase(q) \/ InsertRow(q)
               \/ (Abort(q) /\ pc[q] = "writing") \/ Commit(q)
        PROVE  pc[r] \notin {"idle", "zeek", "half"} /\ package'[r] = package[r]
    BY <1>4 DEF RunZeek, ReadFlows, ReadEvents, StoreM1, Analyze, UpsertCase, InsertRow,
       Abort, Commit, Goto, TypeOK
  <1>5. QED
    BY <1>1, <1>2, <1>3, <1>4, StepKinds

\* The induction step of DocumentsInv.
LEMMA NextDocumentsInv ==
    ASSUME TypeOK, PackagesInv, DocumentsInv, [Next]_vars
    PROVE  DocumentsInv'
  <1> SUFFICES ASSUME NEW r \in Runs, doc'[r] # NoDocument
               PROVE  Concluded(r, doc'[r])
    BY DEF DocumentsInv, Concluded, Assembled
  <1>1. CASE doc'[r] = doc[r]
    BY <1>1 DEF DocumentsInv
  <1>2. CASE Analyze(r)
    <2>1. PICK v \in Verdicts[AcquisitionOf[r]] :
              \/ doc' = [doc EXCEPT ![r] =
                           Document(package[r], Findings(r, package[r], v), Private)]
              \/ UNCHANGED doc
      BY <1>2 DEF Analyze
    <2>2. v \in Verdict
      <3>1. AcquisitionOf[r] \in Acquisitions
        BY CaseGraphAssumption
      <3>2. QED
        BY <2>1, <3>1, CaseGraphAssumption
    <2>3. Assembled(r, package[r])
      BY <1>2 DEF Analyze, PackagesInv
    <2>4. CASE doc' = [doc EXCEPT ![r] =
                         Document(package[r], Findings(r, package[r], v), Private)]
      BY <2>2, <2>3, <2>4 DEF Concluded, TypeOK
    <2>5. QED
      BY <1>1, <2>1, <2>4
  <1>3. CASE UNCHANGED vars
    BY <1>1, <1>3 DEF vars
  <1>4. ASSUME NEW q \in Runs,
               \/ RunZeek(q) \/ ReadFlows(q) \/ ReadEvents(q) \/ StoreM1(q)
               \/ (q # r /\ Analyze(q)) \/ UpsertCase(q) \/ InsertRow(q)
               \/ (Abort(q) /\ pc[q] = "writing") \/ Commit(q)
        PROVE  doc'[r] = doc[r]
    BY <1>4 DEF RunZeek, ReadFlows, ReadEvents, StoreM1, Analyze, UpsertCase, InsertRow,
       Abort, Commit, TypeOK
  <1>5. QED
    BY <1>1, <1>2, <1>3, <1>4, StepKinds

\* The induction step of ChecksNeverFire.
LEMMA NextChecksNeverFire ==
    ASSUME TypeOK, PackagesInv, ChecksNeverFire, [Next]_vars
    PROVE  ChecksNeverFire'
  <1> SUFFICES ASSUME NEW r \in Runs
               PROVE  pc'[r] # "broken" /\ (pc'[r] = "refused" => doc'[r].timeline = {})
    BY DEF ChecksNeverFire
  <1>1. CASE pc'[r] = pc[r] /\ doc'[r] = doc[r]
    BY <1>1 DEF ChecksNeverFire
  <1>2. CASE ReadEvents(r)
    <2>1. PICK i \in conn[r], k \in logs[AcquisitionOf[r]] :
              Goto(r, IF WellFormed(PackageOf(r, i, k)) THEN "read" ELSE "broken")
      BY <1>2 DEF ReadEvents
    <2>2. WellFormed(PackageOf(r, i, k))
      BY ReadAssembles, AssembledPackage
    <2>3. QED
      BY <2>1, <2>2 DEF Goto, TypeOK
  <1>3. CASE Analyze(r)
    <2>1. Assembled(r, package[r])
      BY <1>3 DEF Analyze, PackagesInv
    <2>2. PICK v \in Verdicts[AcquisitionOf[r]] :
              LET d == Document(package[r], Findings(r, package[r], v), Private)
              IN  \/ /\ doc' = [doc EXCEPT ![r] = d]
                     /\ Goto(r, IF Builds(d) THEN "built" ELSE "refused")
                  \/ Goto(r, "failed")
      BY <1>3 DEF Analyze
    <2> DEFINE d == Document(package[r], Findings(r, package[r], v), Private)
    <2>3. Checked(d)
      BY <2>1, AssembledPackage, DocumentChecked
    <2> HIDE DEF d
    <2>4. CASE /\ doc' = [doc EXCEPT ![r] = d]
               /\ Goto(r, IF Builds(d) THEN "built" ELSE "refused")
      BY <2>3, <2>4 DEF Builds, Goto, TypeOK
    <2>5. CASE Goto(r, "failed")
      BY <2>5 DEF Goto, TypeOK
    <2>6. QED
      BY <2>2, <2>4, <2>5 DEF d
  <1>4. CASE \/ RunZeek(r) \/ ReadFlows(r) \/ StoreM1(r) \/ UpsertCase(r) \/ InsertRow(r)
             \/ (Abort(r) /\ pc[r] = "writing") \/ Commit(r)
    BY <1>4 DEF RunZeek, ReadFlows, StoreM1, UpsertCase, InsertRow, Abort, Commit, Goto,
       TypeOK, ChecksNeverFire
  <1>5. CASE UNCHANGED vars
    BY <1>1, <1>5 DEF vars
  <1>6. ASSUME NEW q \in Runs, q # r,
               \/ RunZeek(q) \/ ReadFlows(q) \/ ReadEvents(q) \/ StoreM1(q) \/ Analyze(q)
               \/ UpsertCase(q) \/ InsertRow(q) \/ (Abort(q) /\ pc[q] = "writing")
               \/ Commit(q)
        PROVE  pc'[r] = pc[r] /\ doc'[r] = doc[r]
    BY <1>6 DEF RunZeek, ReadFlows, ReadEvents, StoreM1, Analyze, UpsertCase, InsertRow,
       Abort, Commit, Goto, TypeOK
  <1>7. QED
    BY <1>1, <1>2, <1>3, <1>4, <1>5, <1>6, StepKinds

\* Packages and documents are what they should be in every state.
LEMMA DocumentsOfSpec == Spec => [](TypeOK /\ PackagesInv /\ DocumentsInv /\ ChecksNeverFire)
  <1>1. Init => PackagesInv /\ DocumentsInv /\ ChecksNeverFire
    BY DEF Init, PackagesInv, DocumentsInv, ChecksNeverFire
  <1>2. QED
    BY <1>1, InitTypeOK, NextTypeOK, NextPackagesInv, NextDocumentsInv, NextChecksNeverFire,
       PTL DEF Spec

\* The integrity checks of M1 and of the case builder never fire, whatever the captures,
\* whatever M2 says of them, and whichever runs have written the logs that are read.
THEOREM ChecksAreIdle == Spec => []ChecksNeverFire
  BY DocumentsOfSpec, PTL

\* In every document a finding is mapped exactly when it has a hypothesis.
LEMMA DocumentsAgree == DocumentsInv => MappedIffHypothesized
  <1> SUFFICES ASSUME DocumentsInv, NEW r \in Runs, doc[r] # NoDocument,
                      NEW f \in doc[r].findings
               PROVE  (\E m \in doc[r].mappings : m.finding = f)
                          <=> (\E h \in doc[r].hypotheses : f \in h.findings)
    BY DEF MappedIffHypothesized
  <1>1. PICK v \in Verdict : \E p : doc[r] = Document(p, Findings(r, p, v), Private)
    BY DEF DocumentsInv, Concluded
  <1>2. PICK p : doc[r] = Document(p, Findings(r, p, v), Private)
    BY <1>1
  <1>3. /\ doc[r].findings = {g.id : g \in Findings(r, p, v)}
        /\ doc[r].mappings = Mappings(p, Findings(r, p, v))
        /\ doc[r].hypotheses = Hypotheses(p, Findings(r, p, v))
    BY <1>2 DEF Document
  <1>4. PICK g \in Findings(r, p, v) : f = g.id
    BY <1>3
  <1>5. QED
    BY <1>3, <1>4, MappedAndHypothesized

\* The mapper and the hypothesis generator agree on every finding of every analysis.
THEOREM MappingsAndHypothesesAgree == Spec => []MappedIffHypothesized
  BY DocumentsOfSpec, DocumentsAgree, PTL

\* In every document conclusions follow.
LEMMA DocumentsFollow == DocumentsInv => ConclusionsFollow
  <1> SUFFICES ASSUME DocumentsInv, NEW r \in Runs, doc[r] # NoDocument
               PROVE  /\ \A c \in doc[r].causes :
                             /\ c.of.status # "REJECTED"
                             /\ c.confidence <= ValidationConfidence(c.of)
                             /\ c.evidence \subseteq c.of.hypothesis.evidence
                      /\ \A i \in doc[r].impacts :
                             i.confidence <= i.of.confidence /\ i.evidence = i.of.evidence
    BY DEF ConclusionsFollow
  <1>1. PICK v \in Verdict : \E p :
            Assembled(r, p) /\ doc[r] = Document(p, Findings(r, p, v), Private)
    BY DEF DocumentsInv, Concluded
  <1>2. PICK p : Assembled(r, p) /\ doc[r] = Document(p, Findings(r, p, v), Private)
    BY <1>1
  <1> DEFINE F == Findings(r, p, v)
  <1>3. doc[r].causes = RootCauses(p, F) /\ doc[r].impacts = Impacts(p, F, Private)
    BY <1>2 DEF Document
  <1>4. IsFiniteSet(EvidenceIds(p))
    BY <1>2, AssembledPackage
  <1> HIDE DEF F
  <1>5. ASSUME NEW i \in Impacts(p, F, Private)
        PROVE  i.confidence <= i.of.confidence /\ i.evidence = i.of.evidence
    <2>1. PICK c \in RootCauses(p, F) : HasImpact(c, p, Private) /\ i = Impact(c)
      BY <1>5 DEF Impacts
    <2>2. i.of = c /\ i.evidence = c.evidence /\ i.confidence = ImpactConfidence(c)
      BY <2>1 DEF Impact
    <2>3. c.status # "UNRESOLVED"
      BY <2>1 DEF HasImpact
    <2>4. QED
      BY <1>4, <2>2, <2>3, DocumentCauses
  <1>6. QED
    BY <1>3, <1>4, <1>5, DocumentCauses

\* No conclusion of a case is surer than what it rests on, rests on a rejected
\* hypothesis, or brings evidence of its own.
THEOREM ConclusionsAlwaysFollow == Spec => []ConclusionsFollow
  BY DocumentsOfSpec, DocumentsFollow, PTL

-----------------------------------------------------------------------------
(***************************************************************************)
(* Written in full or not at all.  The rows of an analysis that no other   *)
(* can have carry an identifier that names its run, so that what it has    *)
(* not committed nobody else can have put there for it; and what its rows  *)
(* refer to are rows of its document, whoever writes them.                 *)
(***************************************************************************)

\* The identifiers a run draws.
Names(r, id) ==
    \/ id = <<r, "finding">>
    \/ \E i : id = <<r, "event", i>>
    \/ \E i, k : id = <<<<r, "event", i>>, "artifact", k>>

\* The run can be told from the identifier.
LEMMA NamesTheRun ==
    ASSUME NEW r, NEW q, NEW id, Names(r, id), Names(q, id)
    PROVE  r = q
  <1>1. Len(<<r, "finding">>) = 2 /\ Len(<<q, "finding">>) = 2
    OBVIOUS
  <1>2. \A i : Len(<<r, "event", i>>) = 3 /\ Len(<<q, "event", i>>) = 3
    OBVIOUS
  <1>3. \A i, k : /\ Len(<<<<r, "event", i>>, "artifact", k>>) = 3
                  /\ Len(<<<<q, "event", i>>, "artifact", k>>) = 3
    OBVIOUS
  <1>4. CASE id = <<r, "finding">>
    BY <1>1, <1>2, <1>3, <1>4 DEF Names
  <1>5. ASSUME NEW i, id = <<r, "event", i>>
        PROVE  r = q
    BY <1>1, <1>2, <1>5 DEF Names
  <1>6. ASSUME NEW i, NEW k, id = <<<<r, "event", i>>, "artifact", k>>
        PROVE  r = q
    BY <1>1, <1>3, <1>6 DEF Names
  <1>7. QED
    BY <1>4, <1>5, <1>6 DEF Names

\* A row that only the run r can have written.
Bears(r, key) ==
    \/ key[1] \in {"artifact", "finding", "behavior", "event"} /\ Names(r, key[2])
    \/ key[1] = "downloads_artifact" /\ Names(r, key[3][2])
    \/ key[1] = "associated_with" /\ Names(r, key[2][2])

\* So the run can be told from the row.
LEMMA BearsTheRun ==
    ASSUME NEW r, NEW q, NEW key, Bears(r, key), Bears(q, key)
    PROVE  r = q
  BY NamesTheRun DEF Bears

\* Findings, events and artifacts of a package are named by its run.
LEMMA PackageNames ==
    ASSUME NEW r, NEW p, Assembled(r, p), NEW v
    PROVE  /\ \A f \in Findings(r, p, v) : Names(r, f.id)
           /\ \A i \in DOMAIN p.events : Names(r, p.events[i].id)
           /\ \A a \in p.artifacts : Names(r, a.id)
  <1>1. PICK held \in Traces, i \in Runs, k \in Runs :
            p = Package(r, Logs(i, held).conn, Logs(k, held).log)
    BY DEF Assembled
  <1> DEFINE index == FlowIndex(Flows(r, Logs(i, held).conn))
             log == Logs(k, held).log
  <1>2. /\ p.events = Events(r, log, index)
        /\ p.artifacts = UNION {Artifacts(p.events[n]) : n \in DOMAIN p.events}
    BY <1>1 DEF Package
  <1> HIDE DEF index, log
  <1>3. ASSUME NEW n \in DOMAIN p.events
        PROVE  p.events[n].id = <<r, "event", n>>
    BY <1>2, <1>3 DEF Events, EventOf
  <1>4. ASSUME NEW a \in p.artifacts
        PROVE  Names(r, a.id)
    <2>1. PICK n \in DOMAIN p.events : a \in Artifacts(p.events[n])
      BY <1>2, <1>4
    <2>2. PICK m \in DOMAIN Values(p.events[n]) : a.id = <<p.events[n].id, "artifact", m>>
      BY <2>1 DEF Artifacts
    <2>3. QED
      BY <1>3, <2>2 DEF Names
  <1>5. \A f \in Findings(r, p, v) : f.id = <<r, "finding">>
    BY DEF Findings
  <1>6. QED
    BY <1>3, <1>4, <1>5 DEF Names

\* What the rows of a document are: its own name its run, and the shared ones and the
\* mappings are of other kinds.
LEMMA DocumentRows ==
    ASSUME NEW r, NEW d, Concluded(r, d), NEW case
    PROVE  /\ \A key \in OwnRows(case, d) \ MappingRows(case, d) : Bears(r, key)
           /\ \A key \in DOMAIN d.shared :
                  key[1] \in {"ip", "domain", "communicates_with", "queries_domain"}
           /\ \A key \in MappingRows(case, d) : key[1] = "mitre"
  <1>1. PICK v \in Verdict : \E p : Assembled(r, p) /\ d = Document(p, Findings(r, p, v), Private)
    BY DEF Concluded
  <1>2. PICK p : Assembled(r, p) /\ d = Document(p, Findings(r, p, v), Private)
    BY <1>1
  <1> DEFINE F == Findings(r, p, v)
  <1>3. /\ d.shared = SharedRows(p) /\ d.own = OwnEntities(p, F) \cup OwnRelationships(p, F)
        /\ d.timeline = Timeline(p, F) /\ d.findings = {f.id : f \in F}
    BY <1>2 DEF Document
  <1>4. /\ \A f \in F : Names(r, f.id)
        /\ \A i \in DOMAIN p.events : Names(r, p.events[i].id)
        /\ \A a \in p.artifacts : Names(r, a.id)
    BY <1>2, PackageNames
  <1> HIDE DEF F
  <1>5. \A key \in OwnEntities(p, F) : Bears(r, key)
    BY <1>4 DEF OwnEntities, Bears
  <1>6. \A key \in OwnRelationships(p, F) : Bears(r, key)
    BY <1>4 DEF OwnRelationships, Bears
  <1>7. \A t \in Timeline(p, F) : Names(r, t.id)
    BY <1>4 DEF Timeline
  <1>8. \A key \in OwnRows(case, d) \ MappingRows(case, d) : Bears(r, key)
    BY <1>3, <1>4, <1>5, <1>6, <1>7 DEF OwnRows, Bears
  <1>9. DOMAIN d.shared = DOMAIN Ips(p) \cup DOMAIN Domains(p)
            \cup Communicates(Ips(p)) \cup Queries(Ips(p), Domains(p))
    BY <1>3 DEF SharedRows
  <1>10. ASSUME NEW key \in DOMAIN d.shared
         PROVE  key[1] \in {"ip", "domain", "communicates_with", "queries_domain"}
    <2>1. CASE key \in DOMAIN Ips(p)
      BY <2>1 DEF Ips
    <2>2. CASE key \in DOMAIN Domains(p)
      BY <2>2 DEF Domains
    <2>3. CASE key \in Communicates(Ips(p))
      BY <2>3 DEF Communicates
    <2>4. CASE key \in Queries(Ips(p), Domains(p))
      BY <2>4 DEF Queries
    <2>5. QED
      BY <1>9, <1>10, <2>1, <2>2, <2>3, <2>4
  <1>11. QED
    BY <1>8, <1>10 DEF MappingRows

\* So what two analyses both have is shared, or a mapping.
LEMMA OwnIsPrivate ==
    ASSUME NEW r, NEW d, Concluded(r, d), NEW q, NEW e, Concluded(q, e), NEW case, NEW other,
           NEW key \in OwnRows(case, d) \ MappingRows(case, d), key \in Rows(other, e)
    PROVE  r = q
  <1>1. Bears(r, key)
    BY DocumentRows
  <1>2. key[1] \notin {"ip", "domain", "communicates_with", "queries_domain", "mitre"}
    BY <1>1 DEF Bears
  <1>3. key \in OwnRows(other, e) \ MappingRows(other, e)
    BY <1>2, DocumentRows DEF Rows
  <1>4. Bears(q, key)
    BY <1>3, DocumentRows
  <1>5. QED
    BY <1>1, <1>4, BearsTheRun

\* What a document refers to are rows of it: an event can name no domain that is not an
\* entity, and no relationship has an end outside.
LEMMA ReferencesAreRows ==
    ASSUME NEW r, NEW d, Concluded(r, d), NEW case
    PROVE  References(d) \subseteq Rows(case, d)
  <1>1. PICK v \in Verdict : \E p : d = Document(p, Findings(r, p, v), Private)
    BY DEF Concluded
  <1>2. PICK p : d = Document(p, Findings(r, p, v), Private)
    BY <1>1
  <1> DEFINE F == Findings(r, p, v)
             ips == Ips(p)
             domains == Domains(p)
  <1>3. /\ d.shared = SharedRows(p) /\ d.own = OwnEntities(p, F) \cup OwnRelationships(p, F)
        /\ d.timeline = Timeline(p, F) /\ d.findings = {f.id : f \in F}
    BY <1>2 DEF Document
  <1> HIDE DEF F
  <1>4. DOMAIN d.shared = DOMAIN ips \cup DOMAIN domains \cup Communicates(ips) \cup Queries(ips, domains)
    BY <1>3 DEF SharedRows
  <1>5. /\ \A key \in DOMAIN ips : key = <<"ip", key[2]>>
        /\ \A key \in DOMAIN domains : key = <<"domain", key[2]>>
    BY DEF Ips, Domains
  <1>6. \A x, y : Len(<<x, y>>) = 2
    OBVIOUS
  <1>7. ASSUME NEW key \in DOMAIN ips \cup DOMAIN domains \cup OwnEntities(p, F)
        PROVE  Endpoints(key) = {}
    <2>1. PICK x, y : key = <<x, y>>
      BY <1>5 DEF OwnEntities
    <2>2. Len(key) # 3
      BY <1>6, <2>1
    <2>3. QED
      BY <2>2 DEF Endpoints
  <1>8. ASSUME NEW key \in Communicates(ips) \cup Queries(ips, domains) \cup OwnRelationships(p, F)
        PROVE  Endpoints(key) \subseteq DOMAIN ips \cup DOMAIN domains \cup OwnEntities(p, F)
    <2> HIDE DEF ips, domains
    <2>1. \A key2 : Endpoints(key2) \subseteq {key2[2], key2[3]}
      BY DEF Endpoints
    <2>2. CASE key \in Communicates(ips)
      BY <2>1, <2>2 DEF Communicates
    <2>3. CASE key \in Queries(ips, domains)
      BY <2>1, <2>3 DEF Queries
    <2>4. CASE key \in OwnRelationships(p, F)
      BY <2>1, <2>4 DEF OwnRelationships, OwnEntities, ips, domains
    <2>5. QED
      BY <2>2, <2>3, <2>4
  <1>9. ASSUME NEW t \in Timeline(p, F)
        PROVE  /\ t.entity \subseteq DOMAIN domains \cup OwnEntities(p, F)
               /\ t.findings \subseteq {f.id : f \in F}
    <2>1. CASE \E f \in F : t = [id |-> f.id, entity |-> {}, findings |-> {f.id}]
      BY <2>1
    <2>2. CASE \E a \in p.artifacts :
                  t = [id |-> a.id, entity |-> {<<"artifact", a.id>>}, findings |-> {}]
      BY <2>2 DEF OwnEntities
    <2>3. CASE \E i \in DOMAIN p.events :
                  t = [id |-> p.events[i].id, findings |-> {},
                       entity |-> IF NamesDomain(p.events[i])
                                  THEN {<<"domain", p.events[i].name>>} ELSE {}]
      <3>1. \A i \in DOMAIN p.events :
                NamesDomain(p.events[i]) => <<"domain", p.events[i].name>> \in DOMAIN domains
        BY DEF Domains
      <3> HIDE DEF domains
      <3>2. QED
        BY <2>3, <3>1
    <2>4. QED
      BY <2>1, <2>2, <2>3 DEF Timeline
  <1> HIDE DEF ips, domains
  <1>10. QED
    <2>1. OwnEntities(p, F) \cup {<<"behavior", f>> : f \in {f.id : f \in F}} \subseteq OwnRows(case, d)
      BY <1>3 DEF OwnRows
    <2>2. DOMAIN ips \cup DOMAIN domains \subseteq Rows(case, d)
      BY <1>4 DEF Rows
    <2>3. \A row \in DOMAIN d.shared \cup d.own : Endpoints(row) \subseteq Rows(case, d)
      BY <1>3, <1>4, <1>7, <1>8, <2>1, <2>2 DEF Rows
    <2>4. \A t \in d.timeline :
              t.entity \cup {<<"behavior", f>> : f \in t.findings} \subseteq Rows(case, d)
      BY <1>3, <1>9, <2>1, <2>2 DEF Rows
    <2>5. QED
      BY <2>3, <2>4 DEF References

\* From the end of M3 on a run has its document.
ConcludedInv ==
    \A r \in Runs : pc[r] \in {"built", "writing", "done"} => Concluded(r, doc[r])

\* The induction step of ConcludedInv.
LEMMA NextConcludedInv ==
    ASSUME TypeOK, PackagesInv, ConcludedInv, [Next]_vars
    PROVE  ConcludedInv'
  <1> SUFFICES ASSUME NEW r \in Runs, pc'[r] \in {"built", "writing", "done"}
               PROVE  Concluded(r, doc'[r])
    BY DEF ConcludedInv, Concluded, Assembled
  <1>1. CASE pc[r] \in {"built", "writing", "done"} /\ doc'[r] = doc[r]
    BY <1>1 DEF ConcludedInv
  <1>2. CASE Analyze(r)
    <2>1. Assembled(r, package[r])
      BY <1>2 DEF Analyze, PackagesInv
    <2>2. PICK v \in Verdicts[AcquisitionOf[r]] :
              \/ doc' = [doc EXCEPT ![r] =
                           Document(package[r], Findings(r, package[r], v), Private)]
              \/ Goto(r, "failed")
      BY <1>2 DEF Analyze
    <2>3. v \in Verdict
      <3>1. AcquisitionOf[r] \in Acquisitions
        BY CaseGraphAssumption
      <3>2. QED
        BY <2>2, <3>1, CaseGraphAssumption
    <2>4. CASE doc' = [doc EXCEPT ![r] =
                         Document(package[r], Findings(r, package[r], v), Private)]
      BY <2>1, <2>3, <2>4 DEF Concluded, TypeOK
    <2>5. CASE Goto(r, "failed")
      BY <2>5 DEF Goto, TypeOK
    <2>6. QED
      BY <2>2, <2>4, <2>5
  <1>3. CASE UNCHANGED vars
    BY <1>1, <1>3 DEF vars
  <1>4. CASE \/ RunZeek(r) \/ ReadFlows(r) \/ ReadEvents(r) \/ StoreM1(r)
             \/ (Abort(r) /\ pc[r] = "writing")
    BY <1>4 DEF RunZeek, ReadFlows, ReadEvents, StoreM1, Abort, Goto, TypeOK
  <1>5. CASE UpsertCase(r) \/ InsertRow(r) \/ Commit(r)
    BY <1>1, <1>5 DEF UpsertCase, InsertRow, Commit
  <1>6. ASSUME NEW q \in Runs, q # r,
               \/ RunZeek(q) \/ ReadFlows(q) \/ ReadEvents(q) \/ StoreM1(q) \/ Analyze(q)
               \/ UpsertCase(q) \/ InsertRow(q) \/ (Abort(q) /\ pc[q] = "writing")
               \/ Commit(q)
        PROVE  pc'[r] = pc[r] /\ doc'[r] = doc[r]
    BY <1>6 DEF RunZeek, ReadFlows, ReadEvents, StoreM1, Analyze, UpsertCase, InsertRow,
       Abort, Commit, Goto, TypeOK
  <1>7. QED
    BY <1>1, <1>2, <1>3, <1>4, <1>5, <1>6, StepKinds

\* What a committed analysis has written is there.
WrittenInv ==
    \A r \in Runs : pc[r] = "done" => Rows(CaseOf[r], doc[r]) \subseteq DOMAIN graph

\* The induction step of WrittenInv: no commit removes a row, and one that ends has no
\* shared row left to write, because it has written it or somebody else has committed it.
LEMMA NextWrittenInv ==
    ASSUME TypeOK, WrittenInv, [Next]_vars
    PROVE  WrittenInv'
  <1> SUFFICES ASSUME NEW r \in Runs, pc'[r] = "done"
               PROVE  Rows(CaseOf[r], doc'[r]) \subseteq DOMAIN graph'
    BY DEF WrittenInv, Rows, OwnRows, MappingRows
  <1>1. DOMAIN graph \subseteq DOMAIN graph'
    <2>1. CASE UNCHANGED graph
      BY <2>1
    <2>2. CASE \E q \in Runs : Commit(q)
      BY <2>2 DEF Commit, Published
    <2>3. QED
      BY <2>1, <2>2, GraphChangesAtCommits
  <1>2. CASE pc[r] = "done"
    BY <1>1, <1>2, DoneStays DEF WrittenInv
  <1>3. CASE Commit(r)
    <2>1. DOMAIN doc[r].shared \subseteq mine[r] \cup DOMAIN graph
      BY <1>3 DEF Commit, Remaining
    <2>2. DOMAIN graph' = DOMAIN graph \cup Written(r) /\ doc' = doc
      BY <1>3 DEF Commit, Published
    <2>3. QED
      BY <2>1, <2>2 DEF Written, Rows
  <1>4. CASE UNCHANGED vars
    BY <1>2, <1>4 DEF vars
  <1>5. ASSUME NEW q \in Runs,
               \/ RunZeek(q) \/ ReadFlows(q) \/ ReadEvents(q) \/ StoreM1(q) \/ Analyze(q)
               \/ UpsertCase(q) \/ InsertRow(q) \/ (Abort(q) /\ pc[q] = "writing")
               \/ (q # r /\ Commit(q))
        PROVE  pc[r] = "done"
    BY <1>5 DEF RunZeek, ReadFlows, ReadEvents, StoreM1, Analyze, UpsertCase, InsertRow,
       Abort, Commit, Goto, TypeOK
  <1>6. QED
    BY <1>2, <1>3, <1>4, <1>5, StepKinds

\* The invariants entail AllOrNothing.
LEMMA WrittenOrNot ==
    TypeOK /\ DocumentsInv /\ ConcludedInv /\ WrittenInv /\ NothingUncommitted => AllOrNothing
  <1> SUFFICES ASSUME DocumentsInv, ConcludedInv, WrittenInv, NothingUncommitted, NEW r \in Runs
               PROVE  LET own == OwnRows(CaseOf[r], doc[r]) \ MappingRows(CaseOf[r], doc[r])
                      IN  IF pc[r] = "done"
                          THEN /\ References(doc[r]) \cup Rows(CaseOf[r], doc[r]) \subseteq DOMAIN graph
                               /\ \A key \in own : graph[key] = CaseOf[r]
                          ELSE doc[r] # NoDocument => own \cap DOMAIN graph = {}
    BY DEF AllOrNothing
  <1> DEFINE own == OwnRows(CaseOf[r], doc[r]) \ MappingRows(CaseOf[r], doc[r])
  <1>1. ASSUME Concluded(r, doc[r]), NEW key \in own, key \in DOMAIN graph
        PROVE  pc[r] = "done" /\ graph[key] = CaseOf[r]
    <2>1. PICK q \in Runs : /\ pc[q] = "done" /\ graph[key] = CaseOf[q]
                            /\ key \in Rows(CaseOf[q], doc[q])
      BY <1>1 DEF NothingUncommitted
    <2>2. Concluded(q, doc[q])
      BY <2>1 DEF ConcludedInv
    <2>3. r = q
      BY <1>1, <2>1, <2>2, OwnIsPrivate
    <2>4. QED
      BY <2>1, <2>3
  <1>2. CASE pc[r] = "done"
    <2>1. Concluded(r, doc[r]) /\ Rows(CaseOf[r], doc[r]) \subseteq DOMAIN graph
      BY <1>2 DEF ConcludedInv, WrittenInv
    <2>2. References(doc[r]) \subseteq DOMAIN graph
      BY <2>1, ReferencesAreRows
    <2>3. own \subseteq DOMAIN graph
      BY <2>1 DEF Rows
    <2>4. QED
      BY <1>1, <1>2, <2>1, <2>2, <2>3
  <1>3. CASE pc[r] # "done"
    BY <1>1, <1>3 DEF DocumentsInv
  <1>4. QED
    BY <1>2, <1>3

\* An analysis is in the graph in full, for its own case, or not at all, and whatever a
\* committed one refers to is there: also when the shared rows were written by others it
\* has waited for, who may have failed in between.
THEOREM WrittenInFullOrNotAtAll == Spec => []AllOrNothing
  <1>1. Init => ConcludedInv /\ WrittenInv
    BY DEF Init, ConcludedInv, WrittenInv
  <1>2. QED
    BY <1>1, InitTypeOK, NextTypeOK, DocumentsOfSpec, OnlyCommittedRows, NextConcludedInv,
       NextWrittenInv, WrittenOrNot, PTL DEF Spec

-----------------------------------------------------------------------------
(***************************************************************************)
(* Whose an entity is.  It belongs to the case that committed it first,    *)
(* and the cases of others only refer to it.  That is wrong as soon as two *)
(* cases have met the same address or domain, and only then.               *)
(***************************************************************************)

\* The analyses that are committed have met no address or domain of another case.
CasesShareNothing ==
    \A r, q \in Runs :
        pc[r] = "done" /\ pc[q] = "done" /\ CaseOf[r] # CaseOf[q]
            => DOMAIN doc[r].shared \cap DOMAIN doc[q].shared = {}

\* A shared row is never one that an analysis has for itself.
LEMMA SharedIsNotOwn ==
    ASSUME NEW r, NEW d, Concluded(r, d), NEW q, NEW e, Concluded(q, e), NEW case,
           NEW key \in DOMAIN d.shared
    PROVE  key \notin OwnRows(case, e)
  <1>1. key[1] \in {"ip", "domain", "communicates_with", "queries_domain"}
    BY DocumentRows
  <1>2. ~Bears(q, key) /\ key[1] # "mitre"
    BY <1>1 DEF Bears
  <1>3. QED
    BY <1>2, DocumentRows

\* Whoever has written a shared row has it among its own shared ones.
LEMMA SharedRowIsShared ==
    ASSUME NEW r, NEW d, Concluded(r, d), NEW q, NEW e, Concluded(q, e), NEW case,
           NEW key \in DOMAIN d.shared, key \in Rows(case, e)
    PROVE  key \in DOMAIN e.shared
  BY SharedIsNotOwn DEF Rows

\* The entities of an analysis belong to its case as long as no other case has met them,
\* in whatever order the analyses commit and wait for each other: sharing them is all that
\* case_graph_scope has found.
THEOREM OnlySharingMisfilesEntities == Spec => [](CasesShareNothing => EntitiesAreScoped)
  <1>1. Init => ConcludedInv /\ WrittenInv
    BY DEF Init, ConcludedInv, WrittenInv
  <1>2. ASSUME ConcludedInv, WrittenInv, NothingUncommitted, CasesShareNothing
        PROVE  EntitiesAreScoped
    <2> SUFFICES ASSUME NEW r \in Runs, pc[r] = "done", NEW key \in DOMAIN doc[r].shared
                 PROVE  graph[key] = CaseOf[r]
      BY DEF EntitiesAreScoped
    <2>1. key \in DOMAIN graph
      BY <1>2 DEF WrittenInv, Rows
    <2>2. PICK q \in Runs : /\ pc[q] = "done" /\ graph[key] = CaseOf[q]
                            /\ key \in Rows(CaseOf[q], doc[q])
      BY <2>1, <1>2 DEF NothingUncommitted
    <2>3. Concluded(r, doc[r]) /\ Concluded(q, doc[q])
      BY <1>2, <2>2 DEF ConcludedInv
    <2>4. key \in DOMAIN doc[q].shared
      BY <2>2, <2>3, SharedRowIsShared
    <2>5. QED
      BY <1>2, <2>2, <2>4 DEF CasesShareNothing
  <1>3. QED
    BY <1>1, <1>2, InitTypeOK, NextTypeOK, DocumentsOfSpec, OnlyCommittedRows,
       NextConcludedInv, NextWrittenInv, PTL DEF Spec

-----------------------------------------------------------------------------
(***************************************************************************)
(* The risk of a verdict.                                                  *)
(***************************************************************************)

\* A factor each.
LEMMA ProductGrows ==
    ASSUME NEW a \in Nat, NEW b \in Nat, NEW x \in Nat, NEW y \in Nat, a <= b, x <= y
    PROVE  a * x <= b * y
  <1>1. PICK c \in Nat : b = a + c
    <2>1. b - a \in Nat /\ b = a + (b - a)
      OBVIOUS
    <2>2. QED
      BY <2>1
  <1>2. PICK z \in Nat : y = x + z
    <2>1. y - x \in Nat /\ y = x + (y - x)
      OBVIOUS
    <2>2. QED
      BY <2>1
  <1>3. b * y = a * x + (a * z + c * y)
    BY <1>1, <1>2
  <1>4. a * x \in Nat /\ a * z \in Nat /\ c * y \in Nat
    BY <1>1, <1>2
  <1>5. QED
    BY <1>3, <1>4

\* RawRisk as a function of numbers: of what is taken for benign, and of an activity of
\* weight s without its floor.
CalmRisk(a, c, l, p) == a * (2 * (500 - 2 * c) + 6 * l + 4 * p)
ThreatRisk(s, a, c, l, p) == 55 * s * (100 + c) + 500 * a + 200 * l + 200 * p

\* Only confidence counts against the risk of what is taken for benign.
LEMMA CalmRiskGrows ==
    ASSUME NEW a \in 0..100, NEW b \in 0..100, a <= b,
           NEW c \in 0..100, NEW d \in 0..100, d <= c,
           NEW l \in 0..100, NEW m \in 0..100, l <= m,
           NEW p \in 0..100, NEW q \in 0..100, p <= q
    PROVE  /\ CalmRisk(a, c, l, p) \in Nat /\ CalmRisk(b, d, m, q) \in Nat
           /\ CalmRisk(a, c, l, p) <= CalmRisk(b, d, m, q)
  <1> DEFINE x == 2 * (500 - 2 * c) + 6 * l + 4 * p
             y == 2 * (500 - 2 * d) + 6 * m + 4 * q
  <1>1. x \in Nat /\ y \in Nat /\ x <= y /\ a \in Nat /\ b \in Nat
    OBVIOUS
  <1>2. CalmRisk(a, c, l, p) = a * x /\ CalmRisk(b, d, m, q) = b * y
    BY DEF CalmRisk
  <1> HIDE DEF x, y
  <1>3. a * x \in Nat /\ b * y \in Nat
    BY <1>1
  <1>4. a * x <= b * y
    BY <1>1, ProductGrows
  <1>5. QED
    BY <1>2, <1>3, <1>4

\* Everything counts towards the risk of an activity.
LEMMA ThreatRiskGrows ==
    ASSUME NEW s \in Nat,
           NEW a \in 0..100, NEW b \in 0..100, a <= b,
           NEW c \in 0..100, NEW d \in 0..100, c <= d,
           NEW l \in 0..100, NEW m \in 0..100, l <= m,
           NEW p \in 0..100, NEW q \in 0..100, p <= q
    PROVE  /\ ThreatRisk(s, a, c, l, p) \in Nat /\ ThreatRisk(s, b, d, m, q) \in Nat
           /\ ThreatRisk(s, a, c, l, p) <= ThreatRisk(s, b, d, m, q)
  <1> DEFINE t == 55 * s
             e == 100 + c
             f == 100 + d
             x == t * e
             y == t * f
  <1>1. t \in Nat /\ e \in Nat /\ f \in Nat /\ t <= t /\ e <= f
    OBVIOUS
  <1>2. /\ ThreatRisk(s, a, c, l, p) = x + 500 * a + 200 * l + 200 * p
        /\ ThreatRisk(s, b, d, m, q) = y + 500 * b + 200 * m + 200 * q
    BY DEF ThreatRisk
  <1> HIDE DEF t, e, f
  <1>3. x <= y
    BY <1>1, ProductGrows
  <1>4. x \in Nat /\ y \in Nat
    BY <1>1
  <1> HIDE DEF x, y
  <1>5. /\ x + 500 * a + 200 * l + 200 * p \in Nat
        /\ y + 500 * b + 200 * m + 200 * q \in Nat
        /\ x + 500 * a + 200 * l + 200 * p <= y + 500 * b + 200 * m + 200 * q
    BY <1>3, <1>4
  <1>6. QED
    BY <1>2, <1>5

\* More anomaly, volume or persistence never lowers the risk of an activity, and neither
\* does more confidence in the prediction, or less where it says that all is well: also
\* where the floor of a severe activity or the bound at full risk cuts in.
THEOREM RiskIsMonotone ==
    ASSUME NEW v \in Verdict, NEW w \in Verdict, v.activity = w.activity,
           v.anomaly <= w.anomaly, v.volume <= w.volume, v.persistence <= w.persistence,
           IF v.activity = "BENIGN" THEN w.confidence <= v.confidence
                                    ELSE v.confidence <= w.confidence
    PROVE  Risk(v) <= Risk(w) /\ Risk(w) \in 0..FullRisk
  <1>1. PICK a \in 0..100, b \in 0..100, c \in 0..100, d \in 0..100,
             l \in 0..100, m \in 0..100, p \in 0..100, q \in 0..100 :
            /\ a = v.anomaly /\ b = w.anomaly /\ c = v.confidence /\ d = w.confidence
            /\ l = v.volume /\ m = w.volume /\ p = v.persistence /\ q = w.persistence
    <2> /\ v.anomaly \in 0..100 /\ v.confidence \in 0..100
        /\ v.volume \in 0..100 /\ v.persistence \in 0..100
        /\ w.anomaly \in 0..100 /\ w.confidence \in 0..100
        /\ w.volume \in 0..100 /\ w.persistence \in 0..100
      BY DEF Verdict
    <2> WITNESS v.anomaly \in 0..100, w.anomaly \in 0..100,
                v.confidence \in 0..100, w.confidence \in 0..100,
                v.volume \in 0..100, w.volume \in 0..100,
                v.persistence \in 0..100, w.persistence \in 0..100
    <2> QED
      OBVIOUS
  <1>2. a <= b /\ l <= m /\ p <= q
    BY <1>1
  <1> DEFINE before == RawRisk(v)
             after == RawRisk(w)
  <1>3. before \in Nat /\ after \in Nat /\ before <= after
    <2>1. CASE v.activity = "BENIGN"
      <3> DEFINE x == CalmRisk(a, c, l, p)
                 y == CalmRisk(b, d, m, q)
      <3>1. before = x /\ after = y
        BY <1>1, <2>1 DEF RawRisk, CalmRisk
      <3>2. d <= c
        BY <1>1, <2>1
      <3>3. x \in Nat /\ y \in Nat /\ x <= y
        BY <1>2, <3>2, CalmRiskGrows
      <3> HIDE DEF x, y
      <3>4. QED
        BY <3>1, <3>3
    <2>2. CASE v.activity # "BENIGN"
      <3> DEFINE s == SeverityWeight(v.activity)
                 base == RiskFloor(v.activity)
                 x == ThreatRisk(s, a, c, l, p)
                 y == ThreatRisk(s, b, d, m, q)
      <3>1. s \in Nat /\ base \in Nat
        <4>1. v.activity \in Activities \ {"BENIGN"}
          BY <2>2 DEF Verdict
        <4>2. s \in {4, 6, 8, 9, 10}
          BY <4>1 DEF Activities, SeverityWeight
        <4>3. base = (IF s >= 8 THEN 13000 ELSE 8000) * s
          BY DEF RiskFloor
        <4> HIDE DEF s, base
        <4>4. QED
          BY <4>2, <4>3
      <3>2. before = Larger(base, x) /\ after = Larger(base, y)
        BY <1>1, <2>2 DEF RawRisk, ThreatRisk
      <3> HIDE DEF s, base
      <3>3. c <= d
        BY <1>1, <2>2
      <3>4. x \in Nat /\ y \in Nat /\ x <= y
        BY <1>2, <3>1, <3>3, ThreatRiskGrows
      <3> HIDE DEF x, y, before, after
      <3>5. QED
        BY <3>1, <3>2, <3>4 DEF Larger
    <2>3. QED
      BY <2>1, <2>2
  <1>4. Risk(v) = Smaller(FullRisk, before) /\ Risk(w) = Smaller(FullRisk, after)
    BY DEF Risk
  <1>5. FullRisk \in Nat
    BY DEF FullRisk
  <1> HIDE DEF before, after
  <1>6. QED
    BY <1>3, <1>4, <1>5 DEF Smaller

-----------------------------------------------------------------------------
(***************************************************************************)
(* Waiting.  A transaction waits for a row that another one has inserted   *)
(* and not committed; what follows says when that can be for ever.         *)
(***************************************************************************)

\* Where each of finitely many has some of them before it, some are in a cycle.
LEMMA SomeCycle ==
    ASSUME NEW W, IsFiniteSet(W), W # {}, NEW B, \A r \in W : B[r] # {} /\ B[r] \subseteq W
    PROVE  \E S \in SUBSET W :
               /\ S # {} /\ \A r \in S : B[r] \subseteq S
               /\ \A q \in S : \E r \in S : q \in B[r]
  <1> DEFINE Onward(S) == UNION {B[r] : r \in S}
             Closed == {S \in SUBSET W : S # {} /\ Onward(S) \subseteq S}
             sizes == {Cardinality(S) : S \in Closed}
  <1>1. \A S \in Closed : IsFiniteSet(S) /\ Cardinality(S) \in Nat
    BY FS_Subset, FS_CardinalityType
  <1>2. sizes \subseteq Nat /\ sizes # {}
    <2>1. W \in Closed
      OBVIOUS
    <2> HIDE DEF Closed
    <2>2. QED
      BY <1>1, <2>1
  <1>3. PICK n \in sizes : \A m \in sizes : ~(<<m, n>> \in OpToRel(<, Nat))
    <2> HIDE DEF sizes
    <2>1. QED
      BY <1>2, WFMin, NatLessThanWellFounded
  <1>4. PICK S \in Closed : n = Cardinality(S)
    OBVIOUS
  <1>5. S \in SUBSET W /\ Onward(S) \in SUBSET S /\ Onward(S) # {}
    OBVIOUS
  <1>6. Onward(S) \in Closed
    <2>1. Onward(Onward(S)) \subseteq Onward(S)
      BY <1>5
    <2>2. QED
      BY <1>5, <2>1
  <1>7. Cardinality(Onward(S)) = Cardinality(S)
    <2> DEFINE m == Cardinality(Onward(S))
    <2>1. m \in sizes /\ m \in Nat /\ n \in Nat /\ m <= n
      <3>1. m <= n
        BY <1>1, <1>4, <1>5, FS_Subset
      <3>2. m \in sizes
        BY <1>6
      <3>3. QED
        BY <1>2, <3>1, <3>2
    <2>2. ~(m < n)
      <3> HIDE DEF m, sizes
      <3>1. QED
        BY <1>3, <2>1 DEF OpToRel
    <2> HIDE DEF m
    <2>3. m = n
      BY <2>1, <2>2
    <2>4. QED
      BY <1>4, <2>3 DEF m
  <1>8. S = Onward(S)
    <2>1. IsFiniteSet(S)
      BY <1>1
    <2> HIDE DEF Onward
    <2>2. QED
      BY <1>5, <1>7, <2>1, FS_Subset
  <1>9. QED
    BY <1>5, <1>8

\* Only who is writing waits for rows, and only for who is writing.
LEMMA WritersWait ==
    ASSUME TypeOK, NEW r \in Runs
    PROVE  /\ Blockers(r) # {} => pc[r] = "writing"
           /\ \A q \in Blockers(r) : q \in Runs /\ pc[q] = "writing"
  BY DEF Blockers, TypeOK

\* Unless all are at their ends, somebody can go on, or some wait for each other.
GoesOn ==
    \/ \A r \in Runs : pc[r] \in Ended
    \/ \E r \in Runs : Ready(r)
    \/ \E S \in SUBSET Runs : Deadlocked(S)

\* Types are enough for that: a lock on a case is held by one who is writing, and who is
\* writing waits for others who are.
LEMMA SomebodyCanMove ==
    ASSUME IsFiniteSet(Runs), TypeOK
    PROVE  GoesOn
  <1> SUFFICES ASSUME NEW r \in Runs, pc[r] \notin Ended, \A q \in Runs : ~Ready(q)
               PROVE  \E S \in SUBSET Runs : Deadlocked(S)
    BY DEF GoesOn
  <1> DEFINE W == {q \in Runs : pc[q] = "writing"}
             B == [q \in W |-> Blockers(q)]
  <1>1. ASSUME NEW q \in W
        PROVE  Blockers(q) # {} /\ Blockers(q) \subseteq W
    BY <1>1, WritersWait DEF Ready, Ended
  <1>2. W # {}
    <2>1. CASE pc[r] = "writing"
      BY <2>1
    <2>2. CASE pc[r] # "writing"
      <3>1. Blockers(r) = {}
        BY <2>2, WritersWait
      <3>2. ~CaseFree(r)
        BY <3>1 DEF Ready
      <3>3. QED
        BY <3>2 DEF CaseFree
    <2>3. QED
      BY <2>1, <2>2
  <1>3. IsFiniteSet(W)
    BY FS_Subset
  <1>4. \A q \in W : B[q] # {} /\ B[q] \subseteq W
    BY <1>1
  <1>5. W \subseteq Runs /\ \A q \in W : B[q] = Blockers(q)
    OBVIOUS
  <1> HIDE DEF B, W
  <1>6. PICK S \in SUBSET W :
            /\ S # {} /\ \A q \in S : B[q] \subseteq S
            /\ \A q \in S : \E p \in S : q \in B[p]
    BY <1>2, <1>3, <1>4, SomeCycle
  <1>7. S = UNION {Blockers(q) : q \in S}
    BY <1>5, <1>6
  <1>8. QED
    BY <1>5, <1>6, <1>7 DEF Deadlocked

\* Transactions that nobody can end but the deadlock detector are in a cycle it finds:
\* no run waits for ever for one that has ended or that can go on
\* (persist_investigation_case and its locks).
THEOREM NeverStuck ==
    ASSUME IsFiniteSet(Runs)
    PROVE  Spec => []GoesOn
  <1>1. TypeOK => GoesOn
    BY SomebodyCanMove
  <1>2. QED
    BY <1>1, TypeCorrect, PTL

\* A run has written, of what is written by now, what comes first in its document.
InOrderInv ==
    \A r \in Runs : \A k \in mine[r], l \in Remaining(r) :
        ~Before(doc[r].shared[l], doc[r].shared[k])

\* What a step does to an open transaction: it loses none of its rows before its end, has
\* no less to look for, and adds the row whose turn it is.
LEMMA WrittenInTurn ==
    ASSUME TypeOK, [Next]_vars, NEW r \in Runs, mine'[r] # {}
    PROVE  /\ doc'[r] = doc[r] /\ Remaining(r)' \subseteq Remaining(r)
           /\ mine'[r] \subseteq mine[r] \cup NextRow(r)
  <1>1. CASE UNCHANGED vars
    BY <1>1 DEF vars, Remaining
  <1>2. SUFFICES ASSUME NEW q \in Runs,
                        \/ RunZeek(q) \/ ReadFlows(q) \/ ReadEvents(q) \/ StoreM1(q)
                        \/ Analyze(q) \/ UpsertCase(q) \/ InsertRow(q)
                        \/ (Abort(q) /\ pc[q] = "writing") \/ Commit(q)
                 PROVE  /\ doc'[r] = doc[r] /\ Remaining(r)' \subseteq Remaining(r)
                        /\ mine'[r] \subseteq mine[r] \cup NextRow(r)
    BY <1>1, StepKinds
  <1>3. CASE RunZeek(q) \/ ReadFlows(q) \/ ReadEvents(q) \/ StoreM1(q) \/ UpsertCase(q)
    BY <1>3 DEF RunZeek, ReadFlows, ReadEvents, StoreM1, UpsertCase, Remaining
  <1>4. CASE Analyze(q)
    <2>1. mine' = mine /\ graph' = graph /\ pc[q] = "stored"
      BY <1>4 DEF Analyze
    <2>2. q # r
      BY <2>1 DEF TypeOK
    <2>3. doc'[r] = doc[r]
      BY <1>4, <2>2 DEF Analyze, TypeOK
    <2>4. QED
      BY <2>1, <2>3 DEF Remaining
  <1>5. CASE InsertRow(q)
    <2>1. doc' = doc /\ graph' = graph
      BY <1>5 DEF InsertRow
    <2>2. mine'[r] \subseteq mine[r] \cup NextRow(r) /\ mine[r] \subseteq mine'[r]
      BY <1>5 DEF InsertRow, TypeOK
    <2>3. QED
      BY <2>1, <2>2 DEF Remaining
  <1>6. CASE Abort(q) /\ pc[q] = "writing"
    <2>1. doc' = doc /\ graph' = graph
      BY <1>6 DEF Abort
    <2>2. mine'[r] = mine[r]
      BY <1>6 DEF Abort, TypeOK
    <2>3. QED
      BY <2>1, <2>2 DEF Remaining
  <1>7. CASE Commit(q)
    <2>1. doc' = doc
      BY <1>7 DEF Commit
    <2>2. mine'[r] = mine[r]
      BY <1>7 DEF Commit, TypeOK
    <2>3. DOMAIN graph \subseteq DOMAIN graph'
      BY <1>7 DEF Commit, Published
    <2>4. QED
      BY <2>1, <2>2, <2>3 DEF Remaining
  <1>8. QED
    BY <1>2, <1>3, <1>4, <1>5, <1>6, <1>7

\* The induction step of InOrderInv.
LEMMA NextInOrderInv ==
    ASSUME TypeOK, InOrderInv, [Next]_vars
    PROVE  InOrderInv'
  <1> SUFFICES ASSUME NEW r \in Runs, NEW k \in mine'[r], NEW l \in Remaining(r)'
               PROVE  ~Before(doc'[r].shared[l], doc'[r].shared[k])
    BY DEF InOrderInv, Before
  <1>1. doc'[r] = doc[r] /\ l \in Remaining(r) /\ k \in mine[r] \cup NextRow(r)
    BY WrittenInTurn
  <1>2. ~Before(doc[r].shared[l], doc[r].shared[k])
    BY <1>1 DEF InOrderInv, NextRow
  <1>3. QED
    BY <1>1, <1>2

\* Some order of all shared rows that every open transaction writes its rows in.
OneOrder ==
    \E rank :
        \A r \in Runs : pc[r] = "writing" =>
            \A k, l \in DOMAIN doc[r].shared :
                /\ rank[k] \in Nat
                /\ k # l => rank[k] # rank[l]
                /\ rank[k] < rank[l] => Before(doc[r].shared[k], doc[r].shared[l])

\* Going round a cycle against the waits the rows would come ever earlier in that order.
LEMMA OrderedIsAcyclic ==
    ASSUME TypeOK, InOrderInv, OneOrder, NEW S \in SUBSET Runs
    PROVE  ~Deadlocked(S)
  <1> SUFFICES ASSUME Deadlocked(S) PROVE FALSE
    OBVIOUS
  <1>1. PICK rank :
            \A r \in Runs : pc[r] = "writing" =>
                \A k, l \in DOMAIN doc[r].shared :
                    /\ rank[k] \in Nat
                    /\ k # l => rank[k] # rank[l]
                    /\ rank[k] < rank[l] => Before(doc[r].shared[k], doc[r].shared[l])
    BY DEF OneOrder
  <1> DEFINE Awaited == {k \in UNION {NextRow(r) : r \in S} :
                            \E r, q \in S : q \in Blockers(r) /\ k \in NextRow(r) \cap mine[q]}
             ranks == {rank[k] : k \in Awaited}
  <1>2. \A q \in S : \E r \in S : q \in Blockers(r)
    BY DEF Deadlocked
  <1>3. ASSUME NEW q \in S
        PROVE  \E r \in S, k \in Awaited : q \in Blockers(r) /\ k \in NextRow(r) \cap mine[q]
    <2>1. PICK r \in S : q \in Blockers(r)
      BY <1>2
    <2>2. PICK k : k \in NextRow(r) \cap mine[q]
      BY <2>1 DEF Blockers
    <2>3. k \in Awaited
      BY <2>1, <2>2
    <2>4. QED
      BY <2>1, <2>2, <2>3
  <1>4. ASSUME NEW r \in S, NEW k \in NextRow(r) \cup mine[r], pc[r] = "writing"
        PROVE  k \in DOMAIN doc[r].shared /\ rank[k] \in Nat
    <2>1. k \in DOMAIN doc[r].shared
      BY <1>4 DEF NextRow, Remaining, TypeOK
    <2>2. QED
      BY <1>1, <1>4, <2>1
  <1>5. ranks \subseteq Nat /\ ranks # {}
    <2>1. ASSUME NEW k \in Awaited
          PROVE  rank[k] \in Nat
      <3>1. PICK r \in S, q \in S : q \in Blockers(r) /\ k \in NextRow(r)
        BY <2>1
      <3>2. pc[r] = "writing"
        BY <3>1 DEF Blockers
      <3>3. QED
        BY <1>4, <3>1, <3>2
    <2>2. Awaited # {}
      <3>1. S # {}
        BY DEF Deadlocked
      <3> HIDE DEF Awaited
      <3>2. QED
        BY <1>3, <3>1
    <2> HIDE DEF Awaited
    <2>3. QED
      BY <2>1, <2>2
  <1>6. PICK x \in ranks : \A y \in ranks : ~(<<y, x>> \in OpToRel(<, Nat))
    <2> HIDE DEF ranks
    <2>1. QED
      BY <1>5, WFMin, NatLessThanWellFounded
  <1>7. PICK k \in Awaited : x = rank[k]
    OBVIOUS
  <1>8. PICK r \in S : k \in NextRow(r) /\ pc[r] = "writing"
    BY DEF Blockers
  <1>9. PICK l \in Awaited : l \in mine[r]
    BY <1>3
  <1>10. ~(rank[l] < rank[k])
    <2>1. rank[l] \in ranks /\ rank[l] \in Nat /\ rank[k] \in Nat
      BY <1>4, <1>8, <1>9
    <2> HIDE DEF ranks, Awaited
    <2>2. QED
      BY <1>6, <1>7, <2>1 DEF OpToRel
  <1>11. k # l /\ ~Before(doc[r].shared[k], doc[r].shared[l])
    BY <1>8, <1>9 DEF NextRow, Remaining, InOrderInv
  <1> HIDE DEF ranks, Awaited
  <1>12. rank[k] \in Nat /\ rank[l] \in Nat /\ rank[k] # rank[l] /\ ~(rank[k] < rank[l])
    BY <1>1, <1>4, <1>8, <1>9, <1>11
  <1>13. QED
    BY <1>10, <1>12

\* Analyses that write the rows they share in one order never wait for each other in a
\* cycle: what the deadlock detector has to break comes from documents that name the same
\* addresses and domains in different orders (persist_investigation_case).
THEOREM OneOrderNeverDeadlocks ==
    Spec => [](OneOrder => \A S \in SUBSET Runs : ~Deadlocked(S))
  <1>1. Init => InOrderInv
    BY DEF Init, InOrderInv
  <1>2. TypeOK /\ InOrderInv /\ [Next]_vars => InOrderInv'
    BY NextInOrderInv
  <1>3. TypeOK /\ InOrderInv => (OneOrder => \A S \in SUBSET Runs : ~Deadlocked(S))
    BY OrderedIsAcyclic
  <1>4. QED
    BY <1>1, <1>2, <1>3, TypeCorrect, PTL DEF Spec

\* Of some numbers there is a smallest one.
LEMMA SmallestNumber ==
    ASSUME NEW T \in SUBSET Nat, T # {}
    PROVE  \E x \in T : \A y \in T : x <= y
  <1>1. PICK x \in T : \A y \in T : ~(<<y, x>> \in OpToRel(<, Nat))
    BY WFMin, NatLessThanWellFounded
  <1>2. \A y \in T : ~(y < x)
    BY <1>1 DEF OpToRel
  <1>3. QED
    BY <1>2

\* The earliest place is one of them.
LEMMA EarliestIsThere ==
    ASSUME NEW places \in SUBSET Nat, places # {}
    PROVE  Earliest(places) \in places
  BY SmallestNumber DEF Earliest

\* Each address of a package has a place of its own.
LEMMA IpsHavePlaces ==
    ASSUME NEW p, DOMAIN p.flows \subseteq Nat
    PROVE  /\ \A a \in DOMAIN Ips(p) : a = <<"ip", a[2]>> /\ Ips(p)[a] \in Nat
           /\ \A a, b \in DOMAIN Ips(p) : Ips(p)[a] = Ips(p)[b] => a = b
  <1>1. ASSUME NEW a \in DOMAIN Ips(p)
        PROVE  /\ a = <<"ip", a[2]>> /\ Ips(p)[a] \in Nat
               /\ \E i \in DOMAIN p.flows :
                      \/ Ips(p)[a] = 2 * i /\ p.flows[i].src = a[2]
                      \/ Ips(p)[a] = 2 * i + 1 /\ p.flows[i].dst = a[2]
    <2> DEFINE places == PlacesOfIp(p, a[2])
    <2>1. /\ a = <<"ip", a[2]>> /\ Ips(p)[a] = Earliest(places)
          /\ \E i \in DOMAIN p.flows : a[2] \in {p.flows[i].src, p.flows[i].dst}
      BY DEF Ips
    <2>2. places \subseteq Nat /\ places # {}
      <3>1. \A i \in DOMAIN p.flows : 2 * i \in Nat /\ 2 * i + 1 \in Nat
        OBVIOUS
      <3>2. QED
        BY <2>1, <3>1 DEF PlacesOfIp
    <2>3. Earliest(places) \in places
      BY <2>2, EarliestIsThere
    <2>4. QED
      BY <2>1, <2>2, <2>3 DEF PlacesOfIp
  <1>2. ASSUME NEW a \in DOMAIN Ips(p), NEW b \in DOMAIN Ips(p), Ips(p)[a] = Ips(p)[b]
        PROVE  a = b
    <2>1. PICK i \in DOMAIN p.flows : \/ Ips(p)[a] = 2 * i /\ p.flows[i].src = a[2]
                                      \/ Ips(p)[a] = 2 * i + 1 /\ p.flows[i].dst = a[2]
      BY <1>1
    <2>2. PICK j \in DOMAIN p.flows : \/ Ips(p)[b] = 2 * j /\ p.flows[j].src = b[2]
                                      \/ Ips(p)[b] = 2 * j + 1 /\ p.flows[j].dst = b[2]
      BY <1>1
    <2>3. i \in Nat /\ j \in Nat
      OBVIOUS
    <2>4. /\ 2 * i = 2 * j => i = j
          /\ 2 * i + 1 = 2 * j + 1 => i = j
          /\ 2 * i # 2 * j + 1 /\ 2 * i + 1 # 2 * j
      BY <2>3
    <2>5. a[2] = b[2]
      BY <1>2, <2>1, <2>2, <2>4
    <2>6. QED
      BY <1>1, <2>5
  <1>3. QED
    BY <1>1, <1>2

\* So has each domain.
LEMMA DomainsHavePlaces ==
    ASSUME NEW p, DOMAIN p.events \subseteq Nat
    PROVE  /\ \A a \in DOMAIN Domains(p) : a = <<"domain", a[2]>> /\ Domains(p)[a] \in Nat
           /\ \A a, b \in DOMAIN Domains(p) : Domains(p)[a] = Domains(p)[b] => a = b
  <1>1. ASSUME NEW a \in DOMAIN Domains(p)
        PROVE  /\ a = <<"domain", a[2]>> /\ Domains(p)[a] \in Nat
               /\ p.events[Domains(p)[a]].name = a[2]
    <2> DEFINE naming == {i \in DOMAIN p.events : NamesDomain(p.events[i])}
               places == {i \in naming : p.events[i].name = a[2]}
    <2>1. /\ a = <<"domain", a[2]>> /\ Domains(p)[a] = Earliest(places)
          /\ places \subseteq Nat /\ places # {}
      BY DEF Domains
    <2>2. Earliest(places) \in places
      BY <2>1, EarliestIsThere
    <2>3. QED
      BY <2>1, <2>2
  <1>2. ASSUME NEW a \in DOMAIN Domains(p), NEW b \in DOMAIN Domains(p),
               Domains(p)[a] = Domains(p)[b]
        PROVE  a = b
    <2>1. a[2] = b[2]
      BY <1>1, <1>2
    <2>2. QED
      BY <1>1, <2>1
  <1>3. QED
    BY <1>1, <1>2

Turn == {<<a, b, c>> : a \in Nat, b \in Nat, c \in Nat}

\* A turn is three numbers, and no two rows have the same.
LEMMA TurnsDiffer ==
    ASSUME NEW p, DOMAIN p.flows \subseteq Nat, DOMAIN p.events \subseteq Nat
    PROVE  /\ \A k \in DOMAIN SharedRows(p) : SharedRows(p)[k] \in Turn
           /\ \A k, l \in DOMAIN SharedRows(p) : SharedRows(p)[k] = SharedRows(p)[l] => k = l
  <1> DEFINE ips == Ips(p)
             domains == Domains(p)
             rows == SharedRows(p)
  <1>1. /\ \A a \in DOMAIN ips : a = <<"ip", a[2]>> /\ ips[a] \in Nat
        /\ \A a, b \in DOMAIN ips : ips[a] = ips[b] => a = b
    BY IpsHavePlaces
  <1>2. /\ \A a \in DOMAIN domains : a = <<"domain", a[2]>> /\ domains[a] \in Nat
        /\ \A a, b \in DOMAIN domains : domains[a] = domains[b] => a = b
    BY DomainsHavePlaces
  <1>3. rows = [row \in DOMAIN ips \cup DOMAIN domains \cup Communicates(ips) \cup Queries(ips, domains) |->
            CASE row[1] = "ip" -> <<1, ips[row], 0>>
              [] row[1] = "domain" -> <<2, domains[row], 0>>
              [] row[1] = "communicates_with" -> <<3, ips[row[3]], 0>>
              [] row[1] = "queries_domain" -> <<4, ips[row[2]], domains[row[3]]>>]
    BY DEF SharedRows
  <1> HIDE DEF ips, domains, rows
  <1>4. ASSUME NEW k \in DOMAIN rows
        PROVE  \/ k \in DOMAIN ips /\ rows[k] = <<1, ips[k], 0>>
               \/ k \in DOMAIN domains /\ rows[k] = <<2, domains[k], 0>>
               \/ /\ k = <<"communicates_with", k[2], k[3]>> /\ k[2] \in DOMAIN ips /\ k[3] \in DOMAIN ips
                  /\ \A e \in DOMAIN ips : ips[k[2]] <= ips[e]
                  /\ rows[k] = <<3, ips[k[3]], 0>>
               \/ /\ k = <<"queries_domain", k[2], k[3]>> /\ k[2] \in DOMAIN ips /\ k[3] \in DOMAIN domains
                  /\ rows[k] = <<4, ips[k[2]], domains[k[3]]>>
    <2>1. CASE k \in DOMAIN ips
      <3>1. k[1] = "ip"
        BY <1>1, <2>1
      <3>2. QED
        BY <1>3, <2>1, <3>1
    <2>2. CASE k \in DOMAIN domains
      <3>1. k[1] = "domain"
        BY <1>2, <2>2
      <3>2. QED
        BY <1>3, <2>2, <3>1
    <2>3. CASE k \in Communicates(ips)
      <3>1. /\ k = <<"communicates_with", k[2], k[3]>> /\ k[2] \in DOMAIN ips /\ k[3] \in DOMAIN ips
            /\ \A e \in DOMAIN ips : ips[k[2]] <= ips[e]
        BY <2>3 DEF Communicates
      <3>2. k[1] = "communicates_with"
        BY <3>1
      <3>3. QED
        BY <1>3, <3>1, <3>2
    <2>4. CASE k \in Queries(ips, domains)
      <3>1. k = <<"queries_domain", k[2], k[3]>> /\ k[2] \in DOMAIN ips /\ k[3] \in DOMAIN domains
        BY <2>4 DEF Queries
      <3>2. k[1] = "queries_domain"
        BY <3>1
      <3>3. QED
        BY <1>3, <3>1, <3>2
    <2>5. QED
      BY <1>3, <2>1, <2>2, <2>3, <2>4
  <1>5. ASSUME NEW k \in DOMAIN rows
        PROVE  rows[k] \in Turn
    BY <1>1, <1>2, <1>4 DEF Turn
  <1>6. ASSUME NEW k \in DOMAIN rows
        PROVE  /\ rows[k][1] \in 1..4
               /\ rows[k][1] = 1 => k \in DOMAIN ips /\ rows[k][2] = ips[k]
               /\ rows[k][1] = 2 => k \in DOMAIN domains /\ rows[k][2] = domains[k]
               /\ rows[k][1] = 3 =>
                      /\ k = <<"communicates_with", k[2], k[3]>> /\ k[2] \in DOMAIN ips /\ k[3] \in DOMAIN ips
                      /\ \A e \in DOMAIN ips : ips[k[2]] <= ips[e]
                      /\ rows[k][2] = ips[k[3]]
               /\ rows[k][1] = 4 =>
                      /\ k = <<"queries_domain", k[2], k[3]>> /\ k[2] \in DOMAIN ips /\ k[3] \in DOMAIN domains
                      /\ rows[k][2] = ips[k[2]] /\ rows[k][3] = domains[k[3]]
    <2>1. CASE k \in DOMAIN ips /\ rows[k] = <<1, ips[k], 0>>
      BY <2>1
    <2>2. CASE k \in DOMAIN domains /\ rows[k] = <<2, domains[k], 0>>
      BY <2>2
    <2>3. CASE /\ k = <<"communicates_with", k[2], k[3]>> /\ k[2] \in DOMAIN ips /\ k[3] \in DOMAIN ips
               /\ \A e \in DOMAIN ips : ips[k[2]] <= ips[e]
               /\ rows[k] = <<3, ips[k[3]], 0>>
      <3>1. rows[k][1] = 3 /\ rows[k][2] = ips[k[3]]
        BY <2>3
      <3>2. QED
        BY <2>3, <3>1
    <2>4. CASE /\ k = <<"queries_domain", k[2], k[3]>> /\ k[2] \in DOMAIN ips /\ k[3] \in DOMAIN domains
               /\ rows[k] = <<4, ips[k[2]], domains[k[3]]>>
      <3>1. rows[k][1] = 4 /\ rows[k][2] = ips[k[2]] /\ rows[k][3] = domains[k[3]]
        BY <2>4
      <3>2. QED
        BY <2>4, <3>1
    <2>5. QED
      BY <1>4, <2>1, <2>2, <2>3, <2>4
  <1>7. ASSUME NEW k \in DOMAIN rows, NEW l \in DOMAIN rows, rows[k] = rows[l]
        PROVE  k = l
    <2>1. rows[k][1] = rows[l][1] /\ rows[k][2] = rows[l][2] /\ rows[k][3] = rows[l][3]
      BY <1>7
    <2>2. CASE rows[k][1] = 1
      <3>1. /\ k \in DOMAIN ips /\ rows[k][2] = ips[k]
            /\ l \in DOMAIN ips /\ rows[l][2] = ips[l]
        BY <1>6, <2>1, <2>2
      <3>2. QED
        BY <1>1, <2>1, <3>1
    <2>3. CASE rows[k][1] = 2
      <3>1. /\ k \in DOMAIN domains /\ rows[k][2] = domains[k]
            /\ l \in DOMAIN domains /\ rows[l][2] = domains[l]
        BY <1>6, <2>1, <2>3
      <3>2. QED
        BY <1>2, <2>1, <3>1
    <2>4. CASE rows[k][1] = 3
      <3>1. /\ k = <<"communicates_with", k[2], k[3]>> /\ k[2] \in DOMAIN ips /\ k[3] \in DOMAIN ips
            /\ \A e \in DOMAIN ips : ips[k[2]] <= ips[e]
            /\ rows[k][2] = ips[k[3]]
        BY <1>6, <2>4
      <3>2. /\ l = <<"communicates_with", l[2], l[3]>> /\ l[2] \in DOMAIN ips /\ l[3] \in DOMAIN ips
            /\ \A e \in DOMAIN ips : ips[l[2]] <= ips[e]
            /\ rows[l][2] = ips[l[3]]
        BY <1>6, <2>1, <2>4
      <3>3. ips[k[2]] = ips[l[2]]
        <4>1. ips[k[2]] \in Nat /\ ips[l[2]] \in Nat /\ ips[k[2]] <= ips[l[2]] /\ ips[l[2]] <= ips[k[2]]
          BY <1>1, <3>1, <3>2
        <4>2. QED
          BY <4>1
      <3>4. k[2] = l[2] /\ k[3] = l[3]
        BY <1>1, <2>1, <3>1, <3>2, <3>3
      <3>5. QED
        BY <3>1, <3>2, <3>4
    <2>5. CASE rows[k][1] = 4
      <3>1. /\ k = <<"queries_domain", k[2], k[3]>> /\ k[2] \in DOMAIN ips /\ k[3] \in DOMAIN domains
            /\ rows[k][2] = ips[k[2]] /\ rows[k][3] = domains[k[3]]
        BY <1>6, <2>5
      <3>2. /\ l = <<"queries_domain", l[2], l[3]>> /\ l[2] \in DOMAIN ips /\ l[3] \in DOMAIN domains
            /\ rows[l][2] = ips[l[2]] /\ rows[l][3] = domains[l[3]]
        BY <1>6, <2>1, <2>5
      <3>3. k[2] = l[2] /\ k[3] = l[3]
        BY <1>1, <1>2, <2>1, <3>1, <3>2
      <3>4. QED
        BY <3>1, <3>2, <3>3
    <2>6. QED
      BY <1>6, <2>2, <2>3, <2>4, <2>5
  <1>8. QED
    BY <1>5, <1>7 DEF rows

\* Of two turns one comes before the other.
LEMMA OneComesFirst ==
    ASSUME NEW t \in Turn, NEW u \in Turn, t # u
    PROVE  Before(t, u) \/ Before(u, t)
  <1>1. /\ t[1] \in Nat /\ t[2] \in Nat /\ t[3] \in Nat /\ t = <<t[1], t[2], t[3]>>
        /\ u[1] \in Nat /\ u[2] \in Nat /\ u[3] \in Nat /\ u = <<u[1], u[2], u[3]>>
    BY DEF Turn
  <1>2. ASSUME NEW a, NEW b,
               \/ a[1] < b[1]
               \/ a[1] = b[1] /\ a[2] < b[2]
               \/ a[1] = b[1] /\ a[2] = b[2] /\ a[3] < b[3]
        PROVE  Before(a, b)
    <2>1. CASE a[1] < b[1]
      <3>1. \A k \in 1..(1 - 1) : a[k] = b[k]
        OBVIOUS
      <3>2. QED
        BY <2>1, <3>1 DEF Before
    <2>2. CASE a[1] = b[1] /\ a[2] < b[2]
      <3>1. \A k \in 1..(2 - 1) : a[k] = b[k]
        BY <2>2
      <3>2. QED
        BY <2>2, <3>1 DEF Before
    <2>3. CASE a[1] = b[1] /\ a[2] = b[2] /\ a[3] < b[3]
      <3>1. \A k \in 1..(3 - 1) : a[k] = b[k]
        BY <2>3
      <3>2. QED
        BY <2>3, <3>1 DEF Before
    <2>4. QED
      BY <1>2, <2>1, <2>2, <2>3
  <1>3. t[1] # u[1] \/ t[2] # u[2] \/ t[3] # u[3]
    <2>1. SUFFICES ASSUME t[1] = u[1], t[2] = u[2], t[3] = u[3] PROVE FALSE
      OBVIOUS
    <2>2. <<t[1], t[2], t[3]>> = <<u[1], u[2], u[3]>>
      BY <2>1
    <2>3. QED
      BY <1>1, <2>2
  <1>4. QED
    BY <1>1, <1>2, <1>3

\* Of some turns there is one that no other comes before.
LEMMA SomeTurnIsFirst ==
    ASSUME NEW T \in SUBSET Turn, T # {}
    PROVE  \E t \in T : \A u \in T : ~Before(u, t)
  <1>1. \A t \in T : t[1] \in Nat /\ t[2] \in Nat /\ t[3] \in Nat
    BY DEF Turn
  <1> DEFINE N1 == {t[1] : t \in T}
  <1>2. PICK x \in N1 : \A y \in N1 : x <= y
    <2>1. N1 \in SUBSET Nat /\ N1 # {}
      BY <1>1
    <2> HIDE DEF N1
    <2>2. QED
      BY <2>1, SmallestNumber
  <1> DEFINE T1 == {t \in T : t[1] = x}
             N2 == {t[2] : t \in T1}
  <1>3. PICK y \in N2 : \A z \in N2 : y <= z
    <2>1. N2 \in SUBSET Nat /\ N2 # {}
      BY <1>1, <1>2
    <2> HIDE DEF N2
    <2>2. QED
      BY <2>1, SmallestNumber
  <1> DEFINE T2 == {t \in T1 : t[2] = y}
             N3 == {t[3] : t \in T2}
  <1>4. PICK z \in N3 : \A w \in N3 : z <= w
    <2>1. N3 \in SUBSET Nat /\ N3 # {}
      BY <1>1, <1>3
    <2> HIDE DEF N3
    <2>2. QED
      BY <2>1, SmallestNumber
  <1>5. PICK t \in T2 : t[3] = z
    BY <1>4
  <1>6. ASSUME NEW u \in T, Before(u, t)
        PROVE  FALSE
    <2>1. PICK n \in 1..3 : u[n] < t[n] /\ \A k \in 1..(n - 1) : u[k] = t[k]
      BY <1>6 DEF Before
    <2>2. /\ u[1] \in Nat /\ u[2] \in Nat /\ u[3] \in Nat
          /\ t[1] \in Nat /\ t[2] \in Nat /\ t[3] \in Nat /\ t[1] <= u[1]
      BY <1>1, <1>2, <1>5
    <2>3. n # 1
      BY <2>1, <2>2
    <2>4. n # 2
      <3>1. SUFFICES ASSUME n = 2 PROVE FALSE
        OBVIOUS
      <3>2. u[1] = t[1] /\ u[2] < t[2]
        BY <2>1, <3>1
      <3>3. t[2] <= u[2]
        BY <1>3, <1>5, <3>2
      <3>4. QED
        BY <2>2, <3>2, <3>3
    <2>5. n # 3
      <3>1. SUFFICES ASSUME n = 3 PROVE FALSE
        OBVIOUS
      <3>2. u[1] = t[1] /\ u[2] = t[2] /\ u[3] < t[3]
        BY <2>1, <3>1
      <3>3. t[3] <= u[3]
        BY <1>4, <1>5, <3>2
      <3>4. QED
        BY <2>2, <3>2, <3>3
    <2>6. QED
      BY <2>1, <2>3, <2>4, <2>5
  <1>7. QED
    BY <1>5, <1>6

\* The shared rows of a document have turns that differ.
LEMMA DocumentTurns ==
    ASSUME NEW r, NEW d, Concluded(r, d)
    PROVE  /\ \A k \in DOMAIN d.shared : d.shared[k] \in Turn
           /\ \A k, l \in DOMAIN d.shared : d.shared[k] = d.shared[l] => k = l
  <1>1. PICK v \in Verdict : \E p : Assembled(r, p) /\ d = Document(p, Findings(r, p, v), Private)
    BY DEF Concluded
  <1>2. PICK p : Assembled(r, p) /\ d = Document(p, Findings(r, p, v), Private)
    BY <1>1
  <1>3. d.shared = SharedRows(p)
    BY <1>2 DEF Document
  <1>4. PICK held \in Traces, i \in Runs, k \in Runs :
            p = Package(r, Logs(i, held).conn, Logs(k, held).log)
    BY <1>2 DEF Assembled
  <1>5. DOMAIN Logs(i, held).conn \subseteq Nat /\ DOMAIN Logs(k, held).log \subseteq Nat
    BY StampedLines
  <1>6. DOMAIN p.flows \subseteq Nat /\ DOMAIN p.events \subseteq Nat
    BY <1>4, <1>5 DEF Package, Flows, Events
  <1>7. QED
    BY <1>3, <1>6, TurnsDiffer

\* No row is held by two transactions, or by one when it is committed already.
HeldOnce ==
    \A r \in Runs :
        /\ mine[r] \cap DOMAIN graph = {}
        /\ \A q \in Runs : r # q => mine[r] \cap mine[q] = {}

\* The induction step of HeldOnce: an INSERT waits for who holds the row, and a commit
\* adds what it holds itself and what nobody else can have.
LEMMA NextHeldOnce ==
    ASSUME TypeOK, ConcludedInv, HeldOnce, [Next]_vars
    PROVE  HeldOnce'
  <1>1. CASE UNCHANGED vars
    BY <1>1 DEF vars, HeldOnce
  <1>2. SUFFICES ASSUME NEW p \in Runs,
                        \/ RunZeek(p) \/ ReadFlows(p) \/ ReadEvents(p) \/ StoreM1(p)
                        \/ Analyze(p) \/ UpsertCase(p) \/ InsertRow(p)
                        \/ (Abort(p) /\ pc[p] = "writing") \/ Commit(p)
                 PROVE  HeldOnce'
    BY <1>1, StepKinds
  <1>3. CASE RunZeek(p) \/ ReadFlows(p) \/ ReadEvents(p) \/ StoreM1(p) \/ Analyze(p) \/ UpsertCase(p)
    BY <1>3 DEF RunZeek, ReadFlows, ReadEvents, StoreM1, Analyze, UpsertCase, HeldOnce
  <1>4. CASE InsertRow(p)
    <2>1. NextRow(p) \cap DOMAIN graph = {} /\ \A q \in Runs : q # p => NextRow(p) \cap mine[q] = {}
      BY <1>4 DEF InsertRow, Blockers, NextRow, Remaining
    <2>2. /\ graph' = graph /\ mine'[p] = mine[p] \cup NextRow(p)
          /\ \A q \in Runs : q # p => mine'[q] = mine[q]
      BY <1>4 DEF InsertRow, TypeOK
    <2>3. QED
      BY <2>1, <2>2 DEF HeldOnce
  <1>5. CASE Abort(p) /\ pc[p] = "writing"
    <2>1. graph' = graph /\ \A q \in Runs : mine'[q] = {} \/ mine'[q] = mine[q]
      BY <1>5 DEF Abort, TypeOK
    <2>2. QED
      BY <2>1 DEF HeldOnce
  <1>6. CASE Commit(p)
    <2>1. /\ mine'[p] = {} /\ \A q \in Runs : q # p => mine'[q] = mine[q]
          /\ DOMAIN graph' = DOMAIN graph \cup Written(p)
      BY <1>6 DEF Commit, Published, TypeOK
    <2>2. ASSUME NEW q \in Runs, q # p, NEW key \in mine[q]
          PROVE  key \notin Written(p)
      <3>1. pc[q] = "writing" /\ pc[p] = "writing" /\ key \in DOMAIN doc[q].shared
        BY <1>6, <2>2 DEF TypeOK, Commit
      <3>2. Concluded(q, doc[q]) /\ Concluded(p, doc[p])
        BY <3>1 DEF ConcludedInv
      <3>3. key \notin OwnRows(CaseOf[p], doc[p])
        BY <3>1, <3>2, SharedIsNotOwn
      <3>4. key \notin mine[p]
        BY <2>2 DEF HeldOnce
      <3>5. QED
        BY <3>3, <3>4 DEF Written
    <2>3. ASSUME NEW r \in Runs
          PROVE  /\ mine'[r] \cap DOMAIN graph' = {}
                 /\ \A q \in Runs : r # q => mine'[r] \cap mine'[q] = {}
      BY <2>1, <2>2 DEF HeldOnce
    <2>4. QED
      BY <2>3 DEF HeldOnce
  <1>7. QED
    BY <1>2, <1>3, <1>4, <1>5, <1>6

\* The rows are written one by one, and each waits for one transaction at most.
OneByOne ==
    \A r \in Runs : pc[r] = "writing" =>
        /\ Remaining(r) # {} => \E row : NextRow(r) = {row}
        /\ \A q, p \in Blockers(r) : q = p

\* There is a first turn, one row has it, and one transaction holds that row.
LEMMA TurnByTurn ==
    ASSUME ConcludedInv, HeldOnce
    PROVE  OneByOne
  <1> SUFFICES ASSUME NEW r \in Runs, pc[r] = "writing"
               PROVE  /\ Remaining(r) # {} => \E row : NextRow(r) = {row}
                      /\ \A q, p \in Blockers(r) : q = p
    BY DEF OneByOne
  <1> DEFINE turn == doc[r].shared
  <1>1. /\ \A k \in DOMAIN turn : turn[k] \in Turn
        /\ \A k, l \in DOMAIN turn : turn[k] = turn[l] => k = l
    BY DocumentTurns DEF ConcludedInv
  <1>2. ASSUME NEW k \in NextRow(r), NEW l \in NextRow(r)
        PROVE  k = l
    <2>1. k \in DOMAIN turn /\ l \in DOMAIN turn
      BY DEF NextRow, Remaining
    <2>2. ~Before(turn[k], turn[l]) /\ ~Before(turn[l], turn[k])
      BY DEF NextRow
    <2>3. QED
      BY <1>1, <2>1, <2>2, OneComesFirst
  <1>3. ASSUME Remaining(r) # {}
        PROVE  \E row : row \in NextRow(r)
    <2> DEFINE T == {turn[k] : k \in Remaining(r)}
    <2>1. T \in SUBSET Turn /\ T # {}
      BY <1>1, <1>3 DEF Remaining
    <2>2. PICK t \in T : \A u \in T : ~Before(u, t)
      <3> HIDE DEF T
      <3>1. QED
        BY <2>1, SomeTurnIsFirst
    <2>3. PICK row \in Remaining(r) : t = turn[row]
      OBVIOUS
    <2>4. \A other \in Remaining(r) : ~Before(turn[other], turn[row])
      BY <2>2, <2>3
    <2>5. QED
      BY <2>4 DEF NextRow
  <1>4. ASSUME NEW q \in Blockers(r), NEW p \in Blockers(r)
        PROVE  q = p
    <2>1. PICK k \in NextRow(r), l \in NextRow(r) : k \in mine[q] /\ l \in mine[p]
      BY DEF Blockers
    <2>2. k = l /\ q \in Runs /\ p \in Runs
      BY <1>2 DEF Blockers
    <2>3. QED
      BY <2>1, <2>2 DEF HeldOnce
  <1>5. QED
    BY <1>2, <1>3, <1>4

\* A transaction writes its shared rows one by one and waits for one other at most, so a
\* deadlock is a cycle; and no row that one has inserted turns out at its commit to belong
\* to another (INSERT .. ON CONFLICT DO NOTHING in persist_investigation_case).
THEOREM WaitsForOne == Spec => [](HeldOnce /\ OneByOne)
  <1>1. Init => ConcludedInv /\ HeldOnce
    BY DEF Init, ConcludedInv, HeldOnce
  <1>2. TypeOK /\ ConcludedInv /\ HeldOnce /\ [Next]_vars => HeldOnce'
    BY NextHeldOnce
  <1>3. ConcludedInv /\ HeldOnce => HeldOnce /\ OneByOne
    BY TurnByTurn
  <1>4. QED
    BY <1>1, <1>2, <1>3, TypeCorrect, DocumentsOfSpec, NextConcludedInv, PTL DEF Spec

=============================================================================
