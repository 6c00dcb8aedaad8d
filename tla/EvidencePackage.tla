--------------------------- MODULE EvidencePackage ---------------------------
(***************************************************************************)
(* Engine M4: the evidence package of one investigation case, with the     *)
(* integrity check and the chain of custody of each piece of evidence, the *)
(* report made of it, and the documents rendered from the report.          *)
(*                                                                         *)
(* One thread runs it.  Each call reads the wall clock, which an           *)
(* administrator or NTP may set back, so that later calls need not have    *)
(* later times.  A digest is the content it was taken of together with the *)
(* algorithm that took it.                                                 *)
(***************************************************************************)
EXTENDS Naturals, FiniteSets, SequencesExt

CONSTANTS
    Ids,            \* the evidence ids that a case or a caller may name
    Contents,       \* the bytes a caller may hand in
    CasePayloads,   \* the investigation cases that M3 may hand over
    ClockBound,     \* the wall clock shows a number from 1 to ClockBound
    Second,         \* 10^6 in the code: how many moments of a timeline a second has
    ActionBound,    \* how many actions on the package a behaviour has
    GroupMin,       \* 5 in the code: smallest group of the PDF's timeline
    GroupLimit      \* 6 in the code: how many groups the PDF shows

Algorithms == {"SHA-256", "SHA-512", "MD5"}
Formats == {"json", "html", "text", "pdf"}
Times == 1..ClockBound
Digest(content, algorithm) == [of |-> content, by |-> algorithm]

PhysicalTypes == {"pcap", "pcapng", "log_file", "report", "exported_session", "analyst_note"}
CaptureTypes == {"pcap", "pcapng"}

\* A reference's source, hash and algorithm are sets of at most one element.  No two
\* events of a timeline have one id; an event of the PDF's collapsing rule has a key:
\* what was extracted.
ASSUME PackageAssumption ==
    /\ ClockBound \in Nat \ {0} /\ Second \in Nat \ {0} /\ ActionBound \in Nat
    /\ GroupMin \in Nat \ {0} /\ GroupLimit \in Nat \ {0}
    /\ \A c \in CasePayloads :
          /\ c.version \in {"v1.1", "v1.2", "v1.3"}
          /\ c.refs \in Seq(Range(c.refs)) /\ c.timeline \in Seq(Range(c.timeline))
          /\ \A i \in DOMAIN c.timeline :
                /\ c.timeline[i].at \in Nat
                /\ \A k \in DOMAIN c.timeline : c.timeline[k].id = c.timeline[i].id => k = i
          /\ \A i \in DOMAIN c.refs :
                /\ c.refs[i].id \in Ids /\ c.refs[i].algorithm \subseteq Algorithms
                /\ c.refs[i].type \in STRING

VARIABLES
    case,       \* the payload of M3
    package,    \* the package built of it, at most one: its refs, results and logs
    report,     \* the last report: records, counters, timeline; at most one
    document,   \* what was last rendered of that report, at most one
    items,      \* tables evidence_items and custody_events: id -> its rows
    clock,
    done        \* every action performed on the evidence, in whatever order

vars == <<case, package, report, document, items, clock, done>>

Init ==
    /\ case \in CasePayloads
    /\ package = {} /\ report = {} /\ document = {}
    /\ items = <<>>
    /\ clock \in Times
    /\ done = {}

-----------------------------------------------------------------------------
(***************************************************************************)
(* Chain of custody and integrity check.                                   *)
(***************************************************************************)

\* A stable sort by time, one element after the other.
InsertByTime(log, e) ==
    LET n == Cardinality({i \in DOMAIN log : log[i].at <= e.at})
    IN  SubSeq(log, 1, n) \o <<e>> \o SubSeq(log, n + 1, Len(log))

\* Mutant of RecordAction: what was done before is done once and for all.
RecordActionOnce(log, e) ==
    IF \E i \in DOMAIN log : log[i].by = e.by /\ log[i].action = e.action
    THEN log ELSE InsertByTime(log, e)

\* An entry that the log already has is not recorded again.
RecordAction(log, e) ==
    IF e \in ToSet(log) THEN log ELSE InsertByTime(log, e)

Entry(by, action, at) == [by |-> by, action |-> action, at |-> at]

\* The result of verify: also without a usable algorithm there is one, with its time.
Result(ref, content, at) ==
    LET calculated == {Digest(content, a) : a \in ref.algorithm}
    IN  [status |-> IF calculated = {} \/ ref.hash = {} THEN "unverified"
                    ELSE IF calculated = ref.hash THEN "verified" ELSE "mismatch",
         calculated |-> calculated,
         at |-> at]

RefOf(p, id) == CHOOSE r \in p.refs : r.id = id
Declared(p) == {r.id : r \in p.refs}

\* verify_evidence: the new result takes the place of the one before.
Verified(p, id, content, by, at) ==
    [p EXCEPT !.results = [x \in DOMAIN @ \cup {id} |->
                              IF x = id THEN Result(RefOf(p, id), content, at) ELSE @[x]],
              !.logs[id] = RecordAction(@, Entry(by, "verify", at))]

\* get_evidence_record
Record(p, id) ==
    [id |-> id,
     hash |-> RefOf(p, id).hash,
     algorithm |-> RefOf(p, id).algorithm,
     status |-> IF id \in DOMAIN p.results THEN p.results[id].status ELSE "unverified",
     calculated |-> IF id \in DOMAIN p.results THEN p.results[id].calculated ELSE {},
     verifiedAt |-> IF id \in DOMAIN p.results THEN {p.results[id].at} ELSE {},
     chain |-> p.logs[id]]

Did(p, id, e) == [of |-> p.number, id |-> id, entry |-> e]

-----------------------------------------------------------------------------
(***************************************************************************)
(* The package.                                                            *)
(***************************************************************************)

Conflicting(refs) == \E r, s \in ToSet(refs) : r.id = s.id /\ r # s
Refused(c) ==
    \/ ~ c.cited \subseteq {r.id : r \in ToSet(c.refs)}
    \/ Conflicting(c.refs)

\* The adapter takes the first of the references with one id.
Adapted(refs) ==
    {refs[i] : i \in {i \in DOMAIN refs : \A k \in DOMAIN refs : refs[k].id = refs[i].id => i <= k}}

Busy(n) == Cardinality(done) + n <= ActionBound

\* build: every reference is ingested, then what bytes came with the case are verified,
\* each at a reading of the clock of its own.  Bytes of undeclared ids are ignored.
Build ==
    LET refs == Adapted(case.refs)
        ids == {r.id : r \in refs}
    IN  \E given \in SUBSET Ids : \E bytes \in [given -> Contents] :
        \E begun \in [ids -> Times], ended \in [given \cap ids -> Times] :
            LET number == 1 + Cardinality({d.of : d \in done})
                ingest == [id \in ids |-> Entry("m4-ingest-engine", "ingest", begun[id])]
                bare == [number |-> number, refs |-> refs, results |-> <<>>,
                         logs |-> [id \in ids |-> RecordAction(<<>>, ingest[id])]]
                verify == [id \in given \cap ids |-> Entry("m4-ingest-engine", "verify", ended[id])]
                built == [bare EXCEPT
                    !.results = [id \in given \cap ids |-> Result(RefOf(bare, id), bytes[id], ended[id])],
                    !.logs = [id \in ids |-> IF id \in given THEN RecordAction(@[id], verify[id]) ELSE @[id]]]
            IN  /\ ~ Refused(case)
                /\ Busy(Cardinality(ids) + Cardinality(given \cap ids))
                /\ package' = {built}
                /\ done' = done \cup {Did(bare, id, ingest[id]) : id \in ids}
                                \cup {Did(bare, id, verify[id]) : id \in given \cap ids}
                /\ UNCHANGED <<case, report, document, items, clock>>

\* verify_evidence and export_evidence refuse an id that the case does not declare.
Verify ==
    \E p \in package : \E id \in Declared(p), content \in Contents :
        /\ Busy(1)
        /\ package' = {Verified(p, id, content, "m4-integrity-verifier", clock)}
        /\ done' = done \cup {Did(p, id, Entry("m4-integrity-verifier", "verify", clock))}
        /\ UNCHANGED <<case, report, document, items, clock>>

Export ==
    \E p \in package : \E id \in Declared(p) :
        LET e == Entry("m4-exporter", "export", clock)
        IN  /\ Busy(1)
            /\ package' = {[p EXCEPT !.logs[id] = RecordAction(@, e)]}
            /\ done' = done \cup {Did(p, id, e)}
            /\ UNCHANGED <<case, report, document, items, clock>>

\* The wall clock moves, forward or back.
SetClock ==
    /\ clock' \in Times
    /\ UNCHANGED <<case, package, report, document, items, done>>

-----------------------------------------------------------------------------
(***************************************************************************)
(* The tables.                                                             *)
(***************************************************************************)

\* persist_evidence_package is one transaction.  Evidence of other types stays
\* out.  An id that is on file already, of this package or another, is a second row
\* with its key; a capture with a source names a row of acquisition.evidence that does
\* not exist; the column has no room for a SHA-512.
Persist ==
    \E p \in package :
        LET physical == {r \in p.refs : r.type \in PhysicalTypes}
        IN  /\ \A r \in physical :
                  /\ r.id \notin DOMAIN items
                  /\ r.type \in CaptureTypes => r.source = {}
                  /\ \A h \in r.hash : h.by # "SHA-512"
            /\ items' = [id \in DOMAIN items \cup {r.id : r \in physical} |->
                            IF id \in DOMAIN items THEN items[id]
                            ELSE [of |-> p.number, events |-> ToSet(p.logs[id])]]
            /\ UNCHANGED <<case, package, report, document, clock, done>>

-----------------------------------------------------------------------------
(***************************************************************************)
(* The report and its documents.                                           *)
(***************************************************************************)

Records(p) == [id \in Declared(p) |-> Record(p, id)]

\* Mutant of Deduplicated: the first record of an id is kept.
FirstOfEach(earlier, later) ==
    [id \in DOMAIN earlier \cup DOMAIN later |->
        IF id \in DOMAIN earlier THEN earlier[id] ELSE later[id]]

\* A record takes the place of an earlier one with its id.
Deduplicated(earlier, later) ==
    [id \in DOMAIN earlier \cup DOMAIN later |->
        IF id \in DOMAIN later THEN later[id] ELSE earlier[id]]

WithStatus(cards, status) == Cardinality({id \in DOMAIN cards : cards[id].status = status})

\* generate_report takes the package, or a list of records that the caller has
\* collected: those of the report before and those of the package now.
GenerateReport ==
    \E p \in package : \E collected \in {<<>>} \cup {r.cards : r \in report} :
        LET cards == Deduplicated(collected, Records(p))
        IN  /\ report' = {[version |-> case.version,
                           cards |-> cards,
                           total |-> Cardinality(DOMAIN cards),
                           verified |-> WithStatus(cards, "verified"),
                           mismatched |-> WithStatus(cards, "mismatch"),
                           unverified |-> WithStatus(cards, "unverified"),
                           timeline |-> case.timeline,
                           asOf |-> {d \in done : d.of = p.number}]}
            /\ document' = {}
            /\ UNCHANGED <<case, package, items, clock, done>>

\* The PDF's timeline, from here to Detailed.  The timeline is sorted by its timestamps,
\* which are strings: isoformat writes no fraction at a whole second, and '.' comes before
\* 'Z', so that a whole second comes after all its fractions.  What was extracted several
\* times is shown by the first of them, after the other events with its timestamp, and
\* the places of what is left are known by how much comes before.

\* The place of a timestamp among the others.
Stamp(event) == IF event.at % Second = 0 THEN event.at + Second ELSE event.at

Earlier(timeline, i, k) ==
    \/ Stamp(timeline[i]) < Stamp(timeline[k])
    \/ Stamp(timeline[i]) = Stamp(timeline[k]) /\ i < k

Extracted(event) == event.key # "none"

Kept(timeline) ==
    {i \in DOMAIN timeline :
        Extracted(timeline[i]) =>
            \A k \in DOMAIN timeline : timeline[k].key = timeline[i].key => ~Earlier(timeline, k, i)}

Precedes(timeline, i, k) ==
    IF Stamp(timeline[i]) = Stamp(timeline[k]) /\ Extracted(timeline[i]) # Extracted(timeline[k])
    THEN Extracted(timeline[k]) ELSE Earlier(timeline, i, k)

Collapsed(timeline) ==
    [n \in 1..Cardinality(Kept(timeline)) |->
        timeline[CHOOSE i \in Kept(timeline) :
                     n = 1 + Cardinality({k \in Kept(timeline) : Precedes(timeline, k, i)})]]

\* Events are grouped, and a group that is large enough ends where the type changes: of
\* each event the number of its group, and how much of the group is there with it.
Grouped(events) ==
    LET place[n \in DOMAIN events] ==
            IF n = 1 THEN [group |-> 1, size |-> 1]
            ELSE IF events[n].type = events[n - 1].type \/ place[n - 1].size < GroupMin
                 THEN [group |-> place[n - 1].group, size |-> place[n - 1].size + 1]
                 ELSE [group |-> place[n - 1].group + 1, size |-> 1]
    IN  place

\* The first groups, which are the first events.
Detailed(timeline) ==
    LET events == Collapsed(timeline)
        place == Grouped(events)
    IN  [n \in {n \in DOMAIN events : place[n].group <= GroupLimit} |-> events[n]]

\* The tables of the PDF's appendix, and what a document shows.
CardRows(r) == DOMAIN r.cards
EventRows(r) == {e.id : e \in ToSet(r.timeline)}
Shown(r, detailed) == [cards |-> CardRows(r), listed |-> EventRows(r), detailed |-> detailed]

PdfDocument(r) == Shown(r, Detailed(r.timeline))
HtmlDocument(r) == Shown(r, r.timeline)
JsonDocument(r) == HtmlDocument(r)
\* The renderer of texts refuses a report of v1.3.
TextDocuments(r) == IF r.version = "v1.3" THEN {} ELSE {HtmlDocument(r)}

Render(format) ==
    \E r \in report :
        \E shown \in CASE format = "pdf" -> {PdfDocument(r)}
                      [] format = "html" -> {HtmlDocument(r)}
                      [] format = "json" -> {JsonDocument(r)}
                      [] format = "text" -> TextDocuments(r) :
            /\ document' = {[format |-> format, shown |-> shown]}
            /\ UNCHANGED <<case, package, report, items, clock, done>>

-----------------------------------------------------------------------------
Next ==
    \/ Build \/ Verify \/ Export \/ SetClock \/ Persist \/ GenerateReport
    \/ \E format \in Formats : Render(format)

Spec == Init /\ [][Next]_vars

-----------------------------------------------------------------------------
(***************************************************************************)
(* Properties.                                                             *)
(***************************************************************************)

InOrder(log) == \A i, j \in DOMAIN log : i < j => log[i].at <= log[j].at
Performed(number, id) == {d.entry : d \in {x \in done : x.of = number /\ x.id = id}}

\* The chain of custody of each piece of evidence is in the order of time whatever the
\* clock did, and tells every action on it and no other; the result that stands is that
\* of a verification on the chain; and what is on file was done, from the ingest on.
CustodyIsComplete ==
    /\ \A p \in package : \A id \in Declared(p) :
          /\ InOrder(p.logs[id])
          /\ ToSet(p.logs[id]) = Performed(p.number, id)
          /\ id \in DOMAIN p.results =>
                \E e \in Performed(p.number, id) : e.action = "verify" /\ e.at = p.results[id].at
    /\ \A id \in DOMAIN items :
          /\ items[id].events \subseteq Performed(items[id].of, id)
          /\ \E e \in items[id].events : e.action = "ingest"

\* The report tells the package as it was: one card for each piece of evidence of the
\* case, counted once, with all that had been done to it; "verified" only with the
\* digest the case declares and a verification at that time.
CardsTellPackage(r) ==
    /\ DOMAIN r.cards = {ref.id : ref \in ToSet(case.refs)}
    /\ r.verified + r.mismatched + r.unverified = r.total
    /\ \A id \in DOMAIN r.cards :
          LET card == r.cards[id]
          IN  /\ ToSet(card.chain) = {d.entry : d \in {x \in r.asOf : x.id = id}}
              /\ card.status = "verified" =>
                    /\ card.calculated # {} /\ card.calculated = card.hash
                    /\ \E e \in ToSet(card.chain) : e.action = "verify" /\ e.at \in card.verifiedAt

\* The second in which an event was: all of its time that a document shows.
SecondOf(event) == event.at \div Second

\* What a document leaves out of the detailed timeline is shown by an extraction of the
\* same in no later second, or is in no earlier second than all that it shows, which is
\* then no little.  Within a second the PDF keeps no order.
TimelineIsTold(doc, timeline) ==
    LET detailed == doc.shown.detailed
        told == ToSet(detailed)
        Repeated(e) == e.key # "none" /\ \E t \in told : t.key = e.key /\ SecondOf(t) <= SecondOf(e)
        CutOff(e) == /\ Len(detailed) >= GroupMin * GroupLimit
                     /\ \A t \in told : SecondOf(t) <= SecondOf(e)
    IN  /\ told \subseteq ToSet(timeline)
        /\ Len(detailed) = Cardinality(told)
        /\ \A e \in ToSet(timeline) \ told : doc.format = "pdf" /\ (Repeated(e) \/ CutOff(e))
        /\ doc.format = "pdf" =>
              \A i, k \in DOMAIN detailed : i < k => SecondOf(detailed[i]) <= SecondOf(detailed[k])

\* A reader of any document learns of every piece of evidence and of every event.
ReportTellsPackage ==
    \A r \in report :
        /\ CardsTellPackage(r)
        /\ \A doc \in document :
              /\ doc.shown.cards = {ref.id : ref \in ToSet(case.refs)}
              /\ doc.shown.listed = {e.id : e \in ToSet(case.timeline)}
              /\ TimelineIsTold(doc, case.timeline)

=============================================================================
