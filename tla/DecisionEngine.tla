--------------------------- MODULE DecisionEngine ---------------------------
(***************************************************************************)
(* M2 after its two models: from an anomaly score, a predicted activity    *)
(* and a confidence to a decision, a risk score and at most one finding.   *)
(*                                                                         *)
(* The models, and the features they are fed, are statistics: a verdict is *)
(* what they say of a capture.  Scores are in hundredths, risk in          *)
(* two-hundred-thousandths, where the formula has no fractions.            *)
(***************************************************************************)
EXTENDS Naturals, PacketIntelligence

Activities == {"BENIGN", "SCANNING_RECONNAISSANCE", "SUSPICIOUS_WEB_ACTIVITY",
               "DNS_ANOMALY_TUNNELING", "C2_MALWARE_COMMUNICATION", "POSSIBLE_EXFILTRATION"}

Verdict == [activity : Activities, anomaly : 0..100, confidence : 0..100,
            volume : 0..100, persistence : 0..100]

AnomalyThreshold == 50
ConfidenceThreshold == 60
FullRisk == 200000
Hundredths(n) == 2000 * n

\* ACTIVITY_SEVERITY_WEIGHTS, in tenths
SeverityWeight(activity) ==
    CASE activity = "BENIGN" -> 0
      [] activity = "SCANNING_RECONNAISSANCE" -> 4
      [] activity = "SUSPICIOUS_WEB_ACTIVITY" -> 6
      [] activity = "DNS_ANOMALY_TUNNELING" -> 8
      [] activity = "C2_MALWARE_COMMUNICATION" -> 9
      [] activity = "POSSIBLE_EXFILTRATION" -> 10

Larger(m, n) == IF m >= n THEN m ELSE n
Smaller(m, n) == IF m <= n THEN m ELSE n

RiskFloor(activity) ==
    (IF SeverityWeight(activity) >= 8 THEN 13000 ELSE 8000) * SeverityWeight(activity)

RawRisk(v) ==
    IF v.activity = "BENIGN"
    THEN v.anomaly * (2 * (500 - 2 * v.confidence) + 6 * v.volume + 4 * v.persistence)
    ELSE Larger(RiskFloor(v.activity),
                55 * SeverityWeight(v.activity) * (100 + v.confidence)
                  + 500 * v.anomaly + 200 * v.volume + 200 * v.persistence)

Risk(v) == Smaller(FullRisk, RawRisk(v))

Decision(v) ==
    CASE v.activity = "BENIGN" ->
            IF v.anomaly >= AnomalyThreshold THEN "ANOMALOUS" ELSE "BENIGN"
      [] v.activity # "BENIGN" /\ v.confidence < ConfidenceThreshold ->
            IF v.anomaly >= AnomalyThreshold THEN "ANOMALOUS" ELSE "SUSPICIOUS_ACTIVITY"
      [] OTHER ->
            IF v.confidence >= 75 /\ (v.anomaly >= 40 \/ Risk(v) >= Hundredths(50))
            THEN "HIGH_CONFIDENCE_ACTIVITY" ELSE "SUSPICIOUS_ACTIVITY"

Detects(v) == Decision(v) # "BENIGN" \/ v.anomaly >= AnomalyThreshold

\* extract_evidence_references: a finding cites all there is in the package.
Evidence(p) == EvidenceIds(p)

\* FindingsGenerator.generate
Findings(run, p, v) ==
    IF Detects(v)
    THEN {[id |-> <<run, "finding">>, activity |-> v.activity, risk |-> Risk(v),
           anomaly |-> v.anomaly, confidence |-> v.confidence, evidence |-> Evidence(p)]}
    ELSE {}

=============================================================================
