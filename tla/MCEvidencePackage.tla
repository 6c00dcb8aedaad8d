-------------------------- MODULE MCEvidencePackage --------------------------
EXTENDS EvidencePackage

CONSTANTS e1, e2, k1, k2

Ref(id, type, source, hash, algorithm) ==
    [id |-> id, type |-> type, source |-> source, hash |-> hash, algorithm |-> algorithm]
Event(id, type, key, at) == [id |-> id, type |-> type, key |-> key, at |-> at]

Capture(algorithm) == Ref(e1, "pcap", {}, {Digest(k1, algorithm)}, {algorithm})
Flow == Ref(e2, "flow", {"m1"}, {}, {"MD5"})
Brief == <<Event(1, "dns", "none", 2), Event(2, "tls", "none", 1)>>

Case(version, refs, cited) ==
    [version |-> version, refs |-> refs, cited |-> cited, timeline |-> Brief]

\* A capture that is declared twice, one whose digest is too long for its column, one
\* with a source and no algorithm, and two cases that the builder refuses.
EvidenceCases ==
    {Case("v1.3", <<Capture("SHA-256"), Flow, Capture("SHA-256")>>, {e1}),
     Case("v1.2", <<Flow, Capture("SHA-512")>>, {}),
     Case("v1.1", <<Ref(e1, "pcap", {"m1"}, {Digest(k1, "MD5")}, {})>>, {e1}),
     Case("v1.1", <<Flow>>, {e1}),
     Case("v1.1", <<Capture("MD5"), Capture("SHA-256")>>, {})}

\* Timelines of three to five events of two types, some of which tell of an extraction,
\* in two seconds: the first one is whole at 2 and broken at 3, the next is whole at 4.
\* Those of five have no tls at 2, no http at 4 and no dns at 3.
TimelineOf(n, f) == [i \in 1..n |-> Event(i, f[i][1], f[i][2], f[i][3])]
Happened ==
    {<<s[1][1], s[1][2], s[2]>> :
        s \in {<<"dns", "none">>, <<"tls", "none">>, <<"http", "URI">>} \X (2..4)}
Five == Happened \ {<<"tls", "none", 2>>, <<"http", "URI", 4>>, <<"dns", "none", 3>>}
Timelines ==
    UNION {{TimelineOf(n, f) : f \in [1..n -> Happened]} : n \in 3..4}
        \cup {TimelineOf(5, f) : f \in [1..5 -> Five]}
TimelineCases ==
    {[version |-> "v1.2", refs |-> <<>>, cited |-> {}, timeline |-> t] : t \in Timelines}

MCCasePayloads == EvidenceCases \cup TimelineCases

=============================================================================
