------------------------- MODULE PacketIntelligence -------------------------
(***************************************************************************)
(* M1: what the logs of a Zeek run become.  Two passes over the logs: the  *)
(* first turns conn.log into flows and indexes them by Zeek's uid, the     *)
(* second turns dns.log, http.log and ssl.log into events of those flows,  *)
(* and events into artifacts.                                              *)
(*                                                                         *)
(* A line that is not JSON, lacks a required field or has one that cannot  *)
(* be converted is not readable and is dropped without a trace; so is an   *)
(* event whose uid no flow has.  Zeek's "-" for an absent value is Absent. *)
(* Identifiers are drawn afresh by each run: they name the run.  Flows and *)
(* events are told by the lines they come from, which also order them.     *)
(***************************************************************************)
EXTENDS Naturals, Sequences

Absent == "-"

\* What Zeek reports of a capture, line by line; uids are unlike those of other runs.
ConnLine == [uid : STRING, src : STRING, dst : STRING, port : Nat, sends : BOOLEAN,
             rejected : BOOLEAN, readable : BOOLEAN]
LogLine == [log : {"dns", "http", "ssl"}, uid : STRING, name : STRING, extras : Seq(STRING),
            readable : BOOLEAN]
Traces == [conn : Seq(ConnLine), log : Seq(LogLine)]

\* What a Zeek run writes of a capture: the uids are its own.
Stamped(lines, run) == [i \in DOMAIN lines |-> [lines[i] EXCEPT !.uid = <<run, lines[i].uid>>]]
Logs(run, capture) == [conn |-> Stamped(capture.conn, run), log |-> Stamped(capture.log, run)]

\* A line of conn.log: ConnAdapter.convert
FlowOf(run, line, i) ==
    [id |-> <<run, "flow", i>>, uid |-> line.uid, src |-> line.src, dst |-> line.dst,
     port |-> line.port, sends |-> line.sends, rejected |-> line.rejected]

Flows(run, conn) ==
    [i \in {i \in DOMAIN conn : conn[i].readable} |-> FlowOf(run, conn[i], i)]

\* zeek_uid -> flow_id; of flows with one uid the last wins.
FlowIndex(flows) ==
    LET Named(uid) == {i \in DOMAIN flows : flows[i].uid = uid}
    IN  [uid \in {flows[i].uid : i \in DOMAIN flows} |->
            flows[CHOOSE i \in Named(uid) : \A k \in Named(uid) : k <= i].id]

\* Mutant of EventOf: the uid is kept where the flow should be.
EventOfUid(run, line, i, index) ==
    [id |-> <<run, "event", i>>, flow |-> line.uid, proto |-> line.log,
     name |-> line.name, extras |-> line.extras]

\* A line of dns.log, http.log or ssl.log.  Its name is what the timeline tells it
\* by: the query, the method and URI, the server name.  Its extras are the answers, or
\* the host and user agent.
EventOf(run, line, i, index) ==
    [id |-> <<run, "event", i>>, flow |-> index[line.uid], proto |-> line.log,
     name |-> line.name, extras |-> line.extras]

Known(line, index) == line.readable /\ line.uid \in DOMAIN index

Events(run, log, index) ==
    [i \in {i \in DOMAIN log : Known(log[i], index)} |-> EventOf(run, log[i], i, index)]

\* ArtifactExtractor.extract: a name and every answer of DNS, the host and user agent
\* of HTTP, the server name of TLS, as far as they are there.
Values(event) == IF event.proto = "http" THEN event.extras ELSE <<event.name>> \o event.extras

Artifacts(event) ==
    {[id |-> <<event.id, "artifact", k>>, event |-> event.id, flow |-> event.flow,
      value |-> Values(event)[k]] : k \in {k \in DOMAIN Values(event) : Values(event)[k] # Absent}}

\* process_acquisition, from what the two passes over the logs have read.
Package(run, conn, log) ==
    LET flows == Flows(run, conn)
        events == Events(run, log, FlowIndex(flows))
    IN  [flows |-> flows, events |-> events,
         artifacts |-> UNION {Artifacts(events[i]) : i \in DOMAIN events}]

FlowIds(p) == {p.flows[i].id : i \in DOMAIN p.flows}
EventIds(p) == {p.events[i].id : i \in DOMAIN p.events}
ArtifactIds(p) == {a.id : a \in p.artifacts}
EvidenceIds(p) == FlowIds(p) \cup EventIds(p) \cup ArtifactIds(p)

\* The integrity checks before the package is assembled.
WellFormed(p) ==
    /\ \A i \in DOMAIN p.events : p.events[i].flow \in FlowIds(p)
    /\ \A a \in p.artifacts : a.event \in EventIds(p) /\ a.flow \in FlowIds(p)

=============================================================================
