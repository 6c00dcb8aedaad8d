------------------------------ MODULE CaseGraph ------------------------------
(***************************************************************************)
(* Analyses as seen from the investigation graph of the cases: a run of    *)
(* Zeek, the two passes over its logs, M1's rows, M2 and M3 in memory, and *)
(* the one transaction in which M3's document is written.                  *)
(*                                                                         *)
(* Every analysis runs in a thread or at the awaits of an event loop of    *)
(* its own pace.  They meet in the output directory of an acquisition, in  *)
(* the unique uids of its flows, and in PostgreSQL: the row of a case is   *)
(* locked by the transaction that updates it, and an INSERT .. ON CONFLICT *)
(* DO NOTHING waits for the transaction that has inserted the same key and *)
(* skips the row if that one commits.  Rows no other analysis can have are *)
(* written as the transaction ends; those it shares, one by one.           *)
(***************************************************************************)
EXTENDS Naturals, Sequences, FiniteSets, Correlation

CONSTANTS
    Runs,           \* analyses; the cases exist and are never deleted
    Acquisitions,
    Cases,
    AcquisitionOf,  \* of a run
    CaseOf,         \* of a run
    Captures,       \* for each acquisition: the captures it may hold
    Verdicts,       \* for each acquisition: what the models of M2 may say of it
    Private,        \* the private addresses among those in the captures
    StoresFindings, \* whether the injected M2 persistence stores findings at all
    Failing         \* runs whose database connection may fail

ASSUME CaseGraphAssumption ==
    /\ AcquisitionOf \in [Runs -> Acquisitions]
    /\ CaseOf \in [Runs -> Cases]
    /\ Captures \in [Acquisitions -> SUBSET Traces]
    /\ Verdicts \in [Acquisitions -> SUBSET Verdict]
    /\ StoresFindings \in BOOLEAN
    /\ Failing \subseteq Runs

VARIABLES
    pc,         \* where each run is
    capture,    \* what each acquisition holds
    logs,       \* the Zeek output directory of an acquisition: the last run
    conn,       \* the run whose conn.log the first pass of a run has read
    flows,      \* table flows: <<acquisition, run>> of the rows' unique uids
    package,    \* the NetworkIntelligencePackage of a run
    doc,        \* the case document of a run
    mine,       \* the rows a run has inserted and not committed
    graph,      \* rows of the graph: key -> case
    chain       \* table attack_chains: the techniques, for each case

vars == <<pc, capture, logs, conn, flows, package, doc, mine, graph, chain>>

Labels == {"idle", "zeek", "half", "read", "stored", "built", "writing", "done", "refused", "broken", "failed"}
Ended == {"done", "refused", "broken", "failed"}
NoPackage == [flows |-> <<>>]
NoDocument == [timeline |-> {}]

-----------------------------------------------------------------------------
(***************************************************************************)
(* The rows of a document.  A mapping has its key from the case and the    *)
(* technique alone.                                                        *)
(***************************************************************************)

MappingRows(case, d) == {<<"mitre", case, m.technique>> : m \in d.mappings}

OwnRows(case, d) ==
    d.own \cup {<<"behavior", f>> : f \in d.findings}
          \cup {<<"event", t.id>> : t \in d.timeline} \cup MappingRows(case, d)

Rows(case, d) == DOMAIN d.shared \cup OwnRows(case, d)

\* What a row of the document refers to by foreign key.
References(d) ==
    (UNION {Endpoints(row) : row \in DOMAIN d.shared \cup d.own})
        \cup UNION {t.entity \cup {<<"behavior", f>> : f \in t.findings} : t \in d.timeline}

-----------------------------------------------------------------------------
TypeOK ==
    /\ pc \in [Runs -> Labels]
    /\ \A a \in Acquisitions : capture[a] \in Captures[a]
    /\ logs \in [Acquisitions -> SUBSET Runs]
    /\ conn \in [Runs -> SUBSET Runs]
    /\ flows \subseteq Acquisitions \X Runs
    /\ DOMAIN package = Runs /\ DOMAIN doc = Runs /\ DOMAIN mine = Runs
    /\ \A r \in Runs :
           /\ pc[r] \in {"idle", "zeek", "half"} => package[r] = NoPackage
           /\ pc[r] \in {"idle", "zeek", "half", "read", "stored", "broken"} => doc[r] = NoDocument
           /\ pc[r] # "writing" => mine[r] = {}
           /\ mine[r] # {} => mine[r] \subseteq DOMAIN doc[r].shared
    /\ \A key \in DOMAIN graph : graph[key] \in Cases
    /\ DOMAIN chain = Cases

Init ==
    /\ pc = [r \in Runs |-> "idle"]
    /\ capture \in {c \in [Acquisitions -> UNION {Captures[a] : a \in Acquisitions}] :
                        \A a \in Acquisitions : c[a] \in Captures[a]}
    /\ logs = [a \in Acquisitions |-> {}]
    /\ conn = [r \in Runs |-> {}]
    /\ flows = {}
    /\ package = [r \in Runs |-> NoPackage]
    /\ doc = [r \in Runs |-> NoDocument]
    /\ mine = [r \in Runs |-> {}]
    /\ graph = [key \in {} |-> CHOOSE c \in Cases : TRUE]
    /\ chain = [c \in Cases |-> {}]

Goto(r, label) == pc' = [pc EXCEPT ![r] = label]

-----------------------------------------------------------------------------
(***************************************************************************)
(* M1, in a thread.                                                        *)
(***************************************************************************)

\* The logs of an earlier run in the directory of the acquisition are overwritten.
RunZeek(r) ==
    /\ pc[r] = "idle"
    /\ logs' = [logs EXCEPT ![AcquisitionOf[r]] = {r}]
    /\ Goto(r, "zeek")
    /\ UNCHANGED <<capture, conn, flows, package, doc, mine, graph, chain>>

\* First pass.
ReadFlows(r) ==
    /\ pc[r] = "zeek"
    /\ conn' = [conn EXCEPT ![r] = logs[AcquisitionOf[r]]]
    /\ Goto(r, "half")
    /\ UNCHANGED <<capture, logs, flows, package, doc, mine, graph, chain>>

\* What r has when its passes have found the logs of i and of k.
PackageOf(r, i, k) ==
    LET held == capture[AcquisitionOf[r]]
    IN  Package(r, Logs(i, held).conn, Logs(k, held).log)

\* Second pass, and the checks before the package is assembled.
ReadEvents(r) ==
    /\ pc[r] = "half"
    /\ \E i \in conn[r], k \in logs[AcquisitionOf[r]] :
           /\ package' = [package EXCEPT ![r] = PackageOf(r, i, k)]
           /\ Goto(r, IF WellFormed(PackageOf(r, i, k)) THEN "read" ELSE "broken")
    /\ UNCHANGED <<capture, logs, conn, flows, doc, mine, graph, chain>>

-----------------------------------------------------------------------------
(***************************************************************************)
(* run_pipeline_from_m1 up to M3's transaction.  What it reads is its own, *)
(* except for the uids that are unique in an acquisition.                  *)
(***************************************************************************)

Uids(r) == {AcquisitionOf[r]} \X conn[r]

StoreM1(r) ==
    /\ pc[r] = "read"
    /\ IF Uids(r) \cap flows = {}
       THEN flows' = flows \cup Uids(r) /\ Goto(r, "stored")
       ELSE UNCHANGED flows /\ Goto(r, "failed")
    /\ UNCHANGED <<capture, logs, conn, package, doc, mine, graph, chain>>

\* M2, whose findings have to be stored, and M3, whose builder may refuse the case.
Analyze(r) ==
    /\ pc[r] = "stored"
    /\ \E v \in Verdicts[AcquisitionOf[r]] :
           LET F == Findings(r, package[r], v)
               d == Document(package[r], F, Private)
           IN  IF F = {} \/ StoresFindings
               THEN /\ doc' = [doc EXCEPT ![r] = d]
                    /\ Goto(r, IF Builds(d) THEN "built" ELSE "refused")
               ELSE Goto(r, "failed") /\ UNCHANGED doc
    /\ UNCHANGED <<capture, logs, conn, flows, package, mine, graph, chain>>

-----------------------------------------------------------------------------
(***************************************************************************)
(* persist_investigation_case, a transaction.                              *)
(***************************************************************************)

\* No transaction has locked the row of the case.
CaseFree(r) == \A q \in Runs : pc[q] = "writing" => CaseOf[q] # CaseOf[r]

\* The upsert of the case waits for the transaction that has locked its row.
UpsertCase(r) ==
    /\ pc[r] = "built"
    /\ CaseFree(r)
    /\ Goto(r, "writing")
    /\ UNCHANGED <<capture, logs, conn, flows, package, doc, mine, graph, chain>>

\* Mutant of Remaining: a row that somebody else is writing is taken for written.
RemainingUnheld(r) == DOMAIN doc[r].shared \ (DOMAIN graph \cup UNION {mine[q] : q \in Runs})

\* The shared rows that are still to be written, and the one whose turn it is.
Remaining(r) == DOMAIN doc[r].shared \ (mine[r] \cup DOMAIN graph)
NextRow(r) ==
    {row \in Remaining(r) :
        \A other \in Remaining(r) : ~Before(doc[r].shared[other], doc[r].shared[row])}

\* The transactions that r waits for.
Blockers(r) == {q \in Runs \ {r} : pc[r] = "writing" /\ NextRow(r) \cap mine[q] # {}}

InsertRow(r) ==
    /\ pc[r] = "writing"
    /\ Remaining(r) # {}
    /\ Blockers(r) = {}
    /\ mine' = [mine EXCEPT ![r] = @ \cup NextRow(r)]
    /\ UNCHANGED <<pc, capture, logs, conn, flows, package, doc, graph, chain>>

Written(r) == mine[r] \cup OwnRows(CaseOf[r], doc[r])

\* Mutant of Published: rows that exist are taken over.
PublishedOver(r) ==
    [key \in DOMAIN graph \cup DOMAIN doc[r].shared \cup Written(r) |->
        IF key \in DOMAIN doc[r].shared \cup Written(r) THEN CaseOf[r] ELSE graph[key]]

\* The new rows of r, for its case; a key that is taken stays with whom it belongs to.
Published(r) ==
    [key \in DOMAIN graph \cup Written(r) |-> IF key \in DOMAIN graph THEN graph[key] ELSE CaseOf[r]]

\* Mutant of Commit: the list of rows is kept for the next transaction.
CommitHolding(r) ==
    /\ pc[r] = "writing"
    /\ Remaining(r) = {}
    /\ graph' = Published(r)
    /\ chain' = [chain EXCEPT ![CaseOf[r]] = Chain(doc[r].mappings)]
    /\ Goto(r, "done")
    /\ UNCHANGED <<capture, logs, conn, flows, package, doc, mine>>

\* The rows of its own, the attack chain in place of an earlier one, and the commit.
Commit(r) ==
    /\ pc[r] = "writing"
    /\ Remaining(r) = {}
    /\ graph' = Published(r)
    /\ chain' = [chain EXCEPT ![CaseOf[r]] = Chain(doc[r].mappings)]
    /\ mine' = [mine EXCEPT ![r] = {}]
    /\ Goto(r, "done")
    /\ UNCHANGED <<capture, logs, conn, flows, package, doc>>

Abort(r) ==
    /\ Goto(r, "failed")
    /\ mine' = [mine EXCEPT ![r] = {}]
    /\ UNCHANGED <<capture, logs, conn, flows, package, doc, graph, chain>>

\* Mutant of Rollback: what was inserted stays.
RollbackNothing(r) ==
    /\ r \in Failing
    /\ pc[r] = "writing"
    /\ Goto(r, "failed")
    /\ mine' = [mine EXCEPT ![r] = {}]
    /\ graph' = [key \in DOMAIN graph \cup mine[r] |->
                    IF key \in DOMAIN graph THEN graph[key] ELSE CaseOf[r]]
    /\ UNCHANGED <<capture, logs, conn, flows, package, doc, chain>>

\* A statement fails: the unit of work rolls everything back.
Rollback(r) == r \in Failing /\ pc[r] = "writing" /\ Abort(r)

\* Mutant of Deadlocked: only transactions of one case are looked at.
DeadlockedInCase(S) ==
    /\ S # {} /\ S = UNION {Blockers(r) : r \in S}
    /\ \A r, q \in S : CaseOf[q] = CaseOf[r]

\* Nobody waits for more than one transaction, so this is a cycle, or several.
Deadlocked(S) == S # {} /\ S = UNION {Blockers(r) : r \in S}

\* PostgreSQL ends a cycle of transactions that wait for each other by failing one.
Deadlock == \E S \in SUBSET Runs : Deadlocked(S) /\ \E r \in S : Abort(r)

-----------------------------------------------------------------------------
Progress(r) ==
    \/ RunZeek(r) \/ ReadFlows(r) \/ ReadEvents(r) \/ StoreM1(r) \/ Analyze(r)
    \/ UpsertCase(r) \/ InsertRow(r) \/ Commit(r)

Next ==
    \/ \E r \in Runs : Progress(r) \/ Rollback(r)
    \/ Deadlock

Spec == Init /\ [][Next]_vars

\* A run that is not at its end and waits for no other transaction can go on.
Ready(r) ==
    /\ pc[r] \notin Ended
    /\ pc[r] = "built" => CaseFree(r)
    /\ Blockers(r) = {}

\* A step of the run: it goes on, writes a row or is aborted.
Moves(r) == pc'[r] # pc[r] \/ mine'[r] # mine[r]

\* Threads and tasks go on, statements return, and the deadlock detector runs.  That is
\* weak fairness of Progress(r), with Ready(r) for ENABLED Progress(r); a run that is
\* aborted is not ready any more.
FairSpec ==
    /\ Spec /\ WF_vars(Deadlock)
    /\ \A r \in Runs : []<>~Ready(r) \/ []<><<Moves(r)>>_vars

-----------------------------------------------------------------------------
(***************************************************************************)
(* Properties.                                                             *)
(***************************************************************************)

\* An analysis is written in full, for its own case, or not at all; and whatever a
\* committed one refers to is there, although some of it belongs to others, who may
\* have been writing it at the same time and failed.
AllOrNothing ==
    \A r \in Runs :
        LET own == OwnRows(CaseOf[r], doc[r]) \ MappingRows(CaseOf[r], doc[r])
        IN  IF pc[r] = "done"
            THEN /\ References(doc[r]) \cup Rows(CaseOf[r], doc[r]) \subseteq DOMAIN graph
                 /\ \A key \in own : graph[key] = CaseOf[r]
            ELSE doc[r] # NoDocument => own \cap DOMAIN graph = {}

\* No row is there that no committed analysis has written for its case.
NothingUncommitted ==
    \A key \in DOMAIN graph :
        \E r \in Runs :
            /\ pc[r] = "done" /\ graph[key] = CaseOf[r]
            /\ key \in Rows(CaseOf[r], doc[r])

\* The integrity checks of M1 and of the case builder never fire, also when the two
\* passes have read the logs of different runs; only an empty timeline is refused.
ChecksNeverFire ==
    \A r \in Runs : pc[r] # "broken" /\ (pc[r] = "refused" => doc[r].timeline = {})

\* A finding that is mapped to a technique has a hypothesis and the other way round:
\* the mapper and the generator look at telemetry and at evidence, and agree.
MappedIffHypothesized ==
    \A r \in Runs : doc[r] # NoDocument =>
        \A f \in doc[r].findings :
            (\E m \in doc[r].mappings : m.finding = f) <=> (\E h \in doc[r].hypotheses : f \in h.findings)

\* On the way from validation to root cause to impact no conclusion is surer than what
\* it rests on, nothing rests on a rejected hypothesis, and no evidence appears.
ConclusionsFollow ==
    \A r \in Runs : doc[r] # NoDocument =>
        /\ \A c \in doc[r].causes :
               /\ c.of.status # "REJECTED"
               /\ c.confidence <= ValidationConfidence(c.of)
               /\ c.evidence \subseteq c.of.hypothesis.evidence
        /\ \A i \in doc[r].impacts :
               i.confidence <= i.of.confidence /\ i.evidence = i.of.evidence

\* Every analysis ends, also when it meets others in the rows they share.
EveryRunEnds == \A r \in Runs : <>(pc[r] \in Ended)

\* An address or a domain is an entity of the case that identified it
\* (docs/database/DB-4-RELATIONSHIP-CATALOG.md).
EntitiesAreScoped ==
    \A r \in Runs : pc[r] = "done" =>
        \A key \in DOMAIN doc[r].shared : Len(key) = 2 => graph[key] = CaseOf[r]

\* The refinement: what other transactions can see.
Publication == INSTANCE GraphPublication WITH table <- graph, chains <- chain

\* What an investigator can see of the cases is a behaviour of GraphPublication.
ImplementsPublication == Publication!Spec

=============================================================================
