---------------------------- MODULE MCCaseGraph ----------------------------
(***************************************************************************)
(* Instances of CaseGraph for TLC.                                         *)
(***************************************************************************)
EXTENDS CaseGraph, TLC

CONSTANTS r1, r2, r3, caseA, caseB, acqA, acqB

MCAcquisitionOf == (r1 :> acqA) @@ (r2 :> acqA) @@ (r3 :> acqB)
MCCaseOf == (r1 :> caseA) @@ (r2 :> caseA) @@ (r3 :> caseB)
MCPrivate == {"x", "y", "z"}

Conn(uid, src, dst, port, sends, rejected) ==
    [uid |-> uid, src |-> src, dst |-> dst, port |-> port, sends |-> sends,
     rejected |-> rejected, readable |-> TRUE]
Line(log, uid, name, extras) ==
    [log |-> log, uid |-> uid, name |-> name, extras |-> extras, readable |-> TRUE]
Garbled(line) == [line EXCEPT !.readable = FALSE]

Capture(conns, lines) == [conn |-> conns, log |-> lines]

Lookup == Capture(<<Conn("a", "x", "y", 53, TRUE, FALSE)>>,
                  <<Line("dns", "a", "d", <<"x">>), Line("dns", "b", "d", <<>>)>>)
Browsing == Capture(<<Conn("a", "x", "y", 80, TRUE, FALSE), Conn("b", "x", "y", 443, TRUE, FALSE)>>,
                    <<Line("http", "a", "GET /", <<Absent, "agent">>), Line("ssl", "b", "d", <<>>)>>)
Scan == Capture(<<Conn("a", "x", "y", 22, FALSE, TRUE), Conn("b", "x", "z", 22, FALSE, FALSE),
                  Garbled(Conn("c", "x", "w", 22, FALSE, TRUE))>>, <<>>)
Refused == Capture(<<Conn("a", "x", "y", 80, FALSE, TRUE)>>,
                   <<Garbled(Line("http", "a", "GET /", <<>>))>>)
Swapped == Capture(<<Conn("a", "y", "x", 53, TRUE, FALSE)>>, <<Line("dns", "a", "d", <<>>)>>)

MCCaptures == (acqA :> {Lookup, Browsing, Scan, Refused}) @@ (acqB :> {Swapped})

Says(activity, anomaly, confidence) ==
    [activity |-> activity, anomaly |-> anomaly, confidence |-> confidence,
     volume |-> 50, persistence |-> 50]

MCVerdicts ==
    (acqA :> {Says("BENIGN", 10, 90), Says("C2_MALWARE_COMMUNICATION", 95, 90),
              Says("DNS_ANOMALY_TUNNELING", 55, 40), Says("SCANNING_RECONNAISSANCE", 60, 80),
              Says("POSSIBLE_EXFILTRATION", 70, 80), Says("SUSPICIOUS_WEB_ACTIVITY", 95, 70)})
    @@ (acqB :> {Says("BENIGN", 20, 80)})

\* What the application itself gets through M2's persistence.
BenignVerdicts == [a \in Acquisitions |-> {Says("BENIGN", 20, 80)}]
=============================================================================
