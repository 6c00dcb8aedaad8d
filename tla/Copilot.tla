------------------------------ MODULE Copilot ------------------------------
(***************************************************************************)
(* The forensic copilot, from the panel in the browser to the language     *)
(* model and back, for one case.                                           *)
(*                                                                         *)
(* A question is answered in steps: the context is read from the tables,   *)
(* the target looked up in it, the model asked, its reply taken apart and  *)
(* compared with the context, the outcome put on the trail, and the answer *)
(* sent.  llm.invoke is a plain call in a coroutine: while the model       *)
(* thinks, the event loop stands still, and with it every other request    *)
(* and every analysis of the process.  The gate before the handler is that *)
(* of CaseViews.  The model may reply anything; what it writes is reduced  *)
(* to what it cites and whether it calls something known malicious.        *)
(***************************************************************************)
EXTENDS Naturals, SequencesExt

CONSTANTS
    Panels,         \* the copilot panels that are open in browsers
    QuestionBound,  \* how many questions each of them is used for
    Questions,      \* what may be asked: a kind, and the target where it has one
    Replies,        \* what the model may reply
    Citable,        \* the identifiers that a reply may cite, of rows or not
    Analyses,
    FindingsOf,     \* the findings that each analysis stores
    MappingsOf,     \* its techniques, each with its confidence and its rationale
    TextsOf,        \* the labels and descriptions of its entities and events
    Confidence,     \* the confidence of each finding
    Title,          \* the title that the case is opened with
    Titles,         \* the titles that it may be given, this one among them
    TitleBound,     \* how many of them it has in the course of time
    Suspected       \* the findings and texts that speak of something malicious

AllFindings == UNION {FindingsOf[a] : a \in Analyses}
AllTechniques == UNION {DOMAIN MappingsOf[a] : a \in Analyses}
Requests == Panels \X (1..QuestionBound)

Kinds == {"summary", "finding", "mitre", "hypothesis", "root_cause", "impact", "qa"}
Statuses == {"SUCCESS", "LLM_UNAVAILABLE", "LLM_INVALID_RESPONSE", "LLM_UNGROUNDED"}

\* A reply is a text that is not the JSON asked for, or a list of points; then its one
\* point may have a title of the kind that stands for none, and the text may be given
\* once more as it is.
Shapes == {"text", "points", "observation", "raw"}

ASSUME CopilotAssumption ==
    /\ QuestionBound \in Nat /\ TitleBound \in Nat
    /\ \A x \in Questions : x.kind \in Kinds
    /\ Title \in Titles
    /\ Confidence \in [AllFindings -> Nat]
    /\ \A r \in Replies :
          /\ r.shape \in Shapes /\ r.claims \subseteq {"summary", "points", "raw"}
          /\ r.points \in Seq([evidence : SUBSET Citable, findings : Seq(Citable),
                               techniques : Seq(Citable), status : SUBSET STRING,
                               confidence : SUBSET Nat])

VARIABLES
    stored,         \* the analyses that have committed their findings
    mapped,         \* those that have also committed their mappings
    mappings,       \* the rows of table mitre_mappings: technique -> row
    titles,         \* the titles that the case has had, the present one last
    stage,          \* where each request is
    asked,          \* the question of a request, at most one
    context,        \* the case as the request has read it
    outcome,        \* the response that was made for it, at most one
    thinking,       \* the request that waits for the model and holds the event loop
    trail,          \* table audit_events: <<request, "success" or "failure">>
    messages,       \* what each panel shows
    pending         \* the requests each panel waits for

dataVars == <<stored, mapped, mappings, titles>>
serverVars == <<stage, asked, context, outcome, thinking, trail>>
panelVars == <<messages, pending>>
vars == <<dataVars, serverVars, panelVars>>

AtMostOne(S) == {{}} \cup {{x} : x \in S}
Ended == {"answered", "failed"}
Waiting == {"mappings", "findings", "target", "commit", "answer"}

\* What the assembler keeps of the rows that anything here can tell apart.
Assembled(ms, fs, ts) == [mappings |-> ms, findings |-> fs, texts |-> ts]
Nothing == Assembled([t \in {} |-> 0], {}, {})

TypeOK ==
    /\ mapped \subseteq stored /\ stored \subseteq Analyses
    /\ DOMAIN mappings \subseteq AllTechniques
    /\ titles \in Seq(Titles) /\ titles # <<>>
    /\ stage \in [Requests -> {"unsent", "model"} \cup Waiting \cup Ended]
    /\ \A q \in Requests :
          /\ asked[q] \in AtMostOne(Questions)
          /\ context[q].findings \subseteq AllFindings
          /\ \A r \in outcome[q] : r.status \in Statuses
          /\ stage[q] = "model" <=> q \in thinking
    /\ thinking \in AtMostOne(Requests)
    /\ trail \subseteq Requests \X {"success", "failure"}
    /\ pending \in [Panels -> SUBSET Requests]

Init ==
    /\ stored = {} /\ mapped = {}
    /\ mappings = Nothing.mappings
    /\ titles = <<Title>>
    /\ stage = [q \in Requests |-> "unsent"]
    /\ asked = [q \in Requests |-> {}]
    /\ context = [q \in Requests |-> Nothing]
    /\ outcome = [q \in Requests |-> {}]
    /\ thinking = {}
    /\ trail = {}
    /\ messages = [p \in Panels |-> <<>>]
    /\ pending = [p \in Panels |-> {}]

LoopIsFree == thinking = {}

-----------------------------------------------------------------------------
(***************************************************************************)
(* The case: an analysis commits its findings, and later its mappings      *)
(* with its entities and events.                                           *)
(* How the findings come to their table is left open: those of the current *)
(* M2 are lost on the way (AnalysisJobs), and whatever rows are there are  *)
(* read all the same.                                                      *)
(***************************************************************************)

Findings == UNION {FindingsOf[a] : a \in stored}
Texts == UNION {TextsOf[a] : a \in mapped}

StoreFindings(a) ==
    /\ LoopIsFree /\ a \notin stored
    /\ stored' = stored \cup {a}
    /\ UNCHANGED <<mapped, mappings, titles, serverVars, panelVars>>

\* A technique of the case that is there already keeps its row.
StoreMappings(a) ==
    /\ LoopIsFree /\ a \in stored \ mapped
    /\ mapped' = mapped \cup {a}
    /\ mappings' = [t \in DOMAIN mappings \cup DOMAIN MappingsOf[a] |->
                       IF t \in DOMAIN mappings THEN mappings[t] ELSE MappingsOf[a][t]]
    /\ UNCHANGED <<stored, titles, serverVars, panelVars>>

\* A case can be renamed at any time.
Rename(u) ==
    /\ LoopIsFree /\ Len(titles) < TitleBound /\ u # Last(titles)
    /\ titles' = Append(titles, u)
    /\ UNCHANGED <<stored, mapped, mappings, serverVars, panelVars>>

-----------------------------------------------------------------------------
(***************************************************************************)
(* What may be explained: the targets that each kind of question finds in  *)
(* the context, one operator per method of the assistant.  The context     *)
(* builder looks for hypotheses, root causes and impacts in repositories   *)
(* that the service does not have.  What the methods do with the model's   *)
(* reply and with its failures is the same in all, and is Response, Reply  *)
(* and ModelFails below.                                                   *)
(***************************************************************************)

ExplainableFindings(c) == c.findings
ExplainableTechniques(c) == DOMAIN c.mappings
ExplainableHypotheses(c) == {}
ExplainableRootCauses(c) == {}
ExplainableImpacts(c) == {}

TargetFound(x, c) ==
    CASE x.kind \in {"summary", "qa"} -> TRUE
      [] x.kind = "finding" -> x.target \in ExplainableFindings(c)
      [] x.kind = "mitre" -> x.target \in ExplainableTechniques(c)
      [] x.kind = "hypothesis" -> x.target \in ExplainableHypotheses(c)
      [] x.kind = "root_cause" -> x.target \in ExplainableRootCauses(c)
      [] x.kind = "impact" -> x.target \in ExplainableImpacts(c)

-----------------------------------------------------------------------------
(***************************************************************************)
(* What becomes of a reply.                                                *)
(***************************************************************************)

Uncited == [evidence |-> {}, findings |-> <<>>, techniques |-> <<>>, status |-> {}, confidence |-> {}]

\* The points of a text cite nothing; where there is none, the summary becomes one.
Normalized(r) == IF r.shape = "text" \/ r.points = <<>> THEN <<Uncited>> ELSE r.points

\* What the explanation is made of, which is all that is searched for claims.
Markdown(r) ==
    CASE r.shape = "raw" -> {"raw"}
      [] r.shape = "observation" -> {"points"}
      [] OTHER -> {"summary", "points"}

\* The builder gives no evidence references and an empty evidence map.
TrustedEvidence(c) == {}

\* Mutant of Trusted: the findings are not looked up.
TrustedButFindings(p, c) ==
    p.evidence \subseteq TrustedEvidence(c) /\ ToSet(p.techniques) \subseteq DOMAIN c.mappings

Trusted(p, c) ==
    /\ p.evidence \subseteq TrustedEvidence(c)
    /\ ToSet(p.findings) \subseteq c.findings
    /\ ToSet(p.techniques) \subseteq DOMAIN c.mappings

\* A figure the model gives is replaced by that of the last row it cites; findings have
\* no status, and a technique of the case always has the same.
Corrected(p, c) ==
    [p EXCEPT
        !.status = IF @ = {} \/ p.findings # <<>> THEN {}
                   ELSE IF p.techniques # <<>> THEN {"SUPPORTED"} ELSE @,
        !.confidence = IF @ = {} THEN {}
                       ELSE IF p.techniques # <<>> THEN {c.mappings[Last(p.techniques)].confidence}
                       ELSE IF p.findings # <<>> THEN {Confidence[Last(p.findings)]} ELSE @]

Unanswered(status) == [status |-> status, points |-> <<>>, claims |-> {}]

Rationales(ms) == {ms[t].rationale : t \in DOMAIN ms}

\* The word is looked for in the whole context as it is dumped: in findings and
\* rationales, but as well in labels, descriptions and the title.
Mentioned(c) == (c.findings \cup c.texts \cup Rationales(c.mappings)) \cap Suspected # {}

\* The identifiers are compared first, then the explanation is searched.
Response(r, c) ==
    LET points == Normalized(r)
        claims == r.claims \cap Markdown(r)
    IN  IF (\E i \in DOMAIN points : ~Trusted(points[i], c)) \/ (claims # {} /\ ~Mentioned(c))
        THEN Unanswered("LLM_UNGROUNDED")
        ELSE [status |-> "SUCCESS", points |-> [i \in DOMAIN points |-> Corrected(points[i], c)],
              claims |-> claims]

-----------------------------------------------------------------------------
(***************************************************************************)
(* The handler.                                                            *)
(***************************************************************************)

Goto(q, to) == stage' = [stage EXCEPT ![q] = to]

\* The response is made, and the context no longer needed.
Respond(q, r) ==
    /\ outcome' = [outcome EXCEPT ![q] = {r}]
    /\ context' = [context EXCEPT ![q] = Nothing]
    /\ Goto(q, "commit")

\* The request is over, and nothing is kept of it.
Finish(q, how) ==
    /\ outcome' = [outcome EXCEPT ![q] = {}]
    /\ context' = [context EXCEPT ![q] = Nothing]
    /\ Goto(q, how)

ReadMappings(q) ==
    /\ LoopIsFree /\ stage[q] = "mappings"
    /\ context' = [context EXCEPT ![q] = Assembled(mappings, {}, Texts)]
    /\ Goto(q, "findings")
    /\ UNCHANGED <<dataVars, asked, outcome, thinking, trail, panelVars>>

ReadFindings(q) ==
    /\ LoopIsFree /\ stage[q] = "findings"
    /\ context' = [context EXCEPT ![q] = Assembled(@.mappings, Findings, @.texts \cup {Last(titles)})]
    /\ Goto(q, "target")
    /\ UNCHANGED <<dataVars, asked, outcome, thinking, trail, panelVars>>

RefuseTarget(q) ==
    /\ LoopIsFree /\ stage[q] = "target"
    /\ \E x \in asked[q] : ~TargetFound(x, context[q])
    /\ Respond(q, Unanswered("LLM_INVALID_RESPONSE"))
    /\ UNCHANGED <<dataVars, asked, thinking, trail, panelVars>>

\* Mutant of Invoke: the call is awaited, and does not hold the event loop.
InvokeInBackground(q) ==
    /\ LoopIsFree /\ stage[q] = "target"
    /\ \E x \in asked[q] : TargetFound(x, context[q])
    /\ Goto(q, "model")
    /\ UNCHANGED <<dataVars, asked, context, outcome, thinking, trail, panelVars>>

Invoke(q) ==
    /\ LoopIsFree /\ stage[q] = "target"
    /\ \E x \in asked[q] : TargetFound(x, context[q])
    /\ thinking' = {q}
    /\ Goto(q, "model")
    /\ UNCHANGED <<dataVars, asked, context, outcome, trail, panelVars>>

Reply(q, r) ==
    /\ q \in thinking
    /\ thinking' = {}
    /\ Respond(q, Response(r, context[q]))
    /\ UNCHANGED <<dataVars, asked, trail, panelVars>>

\* The server of the model cannot be reached, does not have it, or breaks off: the
\* library's own exceptions, all reported alike.  No time limit is among them: the one
\* that is passed to the constructor of ChatOllama is no field of it.
ModelFails(q) ==
    /\ q \in thinking
    /\ thinking' = {}
    /\ Respond(q, Unanswered("LLM_INVALID_RESPONSE"))
    /\ UNCHANGED <<dataVars, asked, trail, panelVars>>

\* Mutant of Commit: the answer does not wait for the commit of the trail.
CommitNothing(q) ==
    /\ LoopIsFree /\ stage[q] = "commit"
    /\ Goto(q, "answer")
    /\ UNCHANGED <<dataVars, asked, context, outcome, thinking, trail, panelVars>>

Commit(q) ==
    /\ LoopIsFree /\ stage[q] = "commit"
    /\ trail' = trail \cup {<<q, IF r.status = "SUCCESS" THEN "success" ELSE "failure">> : r \in outcome[q]}
    /\ Goto(q, "answer")
    /\ UNCHANGED <<dataVars, asked, context, outcome, thinking, panelVars>>

-----------------------------------------------------------------------------
(***************************************************************************)
(* The panel, and what can go wrong between it and the process.            *)
(***************************************************************************)

Show(p, role, q, status) ==
    messages' = [messages EXCEPT ![p] = Append(@, [role |-> role, request |-> q, status |-> status])]

\* Mutant of Send: the panel sends although it waits.
SendAnyway(q, x) ==
    /\ stage[q] = "unsent"
    /\ \A n \in 1..(q[2] - 1) : stage[<<q[1], n>>] # "unsent"
    /\ Show(q[1], "user", q, "")
    /\ pending' = [pending EXCEPT ![q[1]] = @ \cup {q}]
    /\ asked' = [asked EXCEPT ![q] = {x}]
    /\ Goto(q, "mappings")
    /\ UNCHANGED <<dataVars, context, outcome, thinking, trail>>

\* One question at a time: the panel does nothing while any of its mutations is pending.
Send(q, x) ==
    /\ pending[q[1]] = {}
    /\ stage[q] = "unsent"
    /\ \A n \in 1..(q[2] - 1) : stage[<<q[1], n>>] # "unsent"
    /\ Show(q[1], "user", q, "")
    /\ pending' = [pending EXCEPT ![q[1]] = @ \cup {q}]
    /\ asked' = [asked EXCEPT ![q] = {x}]
    /\ Goto(q, "mappings")
    /\ UNCHANGED <<dataVars, context, outcome, thinking, trail>>

\* Mutant of Settle: a call that fails does not settle the mutation.
SettleSuccess(q, status) ==
    IF q \in pending[q[1]] /\ status # "LLM_UNAVAILABLE"
    THEN Show(q[1], "assistant", q, status) /\ pending' = [pending EXCEPT ![q[1]] = @ \ {q}]
    ELSE UNCHANGED panelVars

\* The panel is told, if it still waits for this request.
Settle(q, status) ==
    IF q \in pending[q[1]]
    THEN Show(q[1], "assistant", q, status) /\ pending' = [pending EXCEPT ![q[1]] = @ \ {q}]
    ELSE UNCHANGED panelVars

Answer(q) ==
    /\ LoopIsFree /\ stage[q] = "answer"
    /\ \E r \in outcome[q] : Settle(q, r.status)
    /\ Finish(q, "answered")
    /\ UNCHANGED <<dataVars, asked, thinking, trail>>

\* A statement or the commit fails; any error of the call is shown as LLM_UNAVAILABLE.
DatabaseFails(q) ==
    /\ LoopIsFree /\ stage[q] \in {"mappings", "findings", "commit"}
    /\ Settle(q, "LLM_UNAVAILABLE")
    /\ Finish(q, "failed")
    /\ UNCHANGED <<dataVars, asked, thinking, trail>>

\* The connection is cut; the handler goes on.
Disconnect(p) ==
    /\ \E q \in pending[p] : Settle(q, "LLM_UNAVAILABLE")
    /\ UNCHANGED <<dataVars, serverVars>>

\* The tab is left: the conversation was only in the panel.
Leave(p) ==
    /\ messages[p] # <<>>
    /\ messages' = [messages EXCEPT ![p] = <<>>]
    /\ pending' = [pending EXCEPT ![p] = {}]
    /\ UNCHANGED <<dataVars, serverVars>>

\* The process is killed: every open connection is cut with it.
Crash ==
    /\ \E q \in Requests : stage[q] \in Waiting \cup {"model"}
    /\ stage' = [q \in Requests |-> IF stage[q] \in Waiting \cup {"model"} THEN "failed" ELSE stage[q]]
    /\ outcome' = [q \in Requests |-> {}]
    /\ context' = [q \in Requests |-> Nothing]
    /\ thinking' = {}
    /\ messages' = [p \in Panels |-> messages[p] \o
          SetToSeq({[role |-> "assistant", request |-> q, status |-> "LLM_UNAVAILABLE"] : q \in pending[p]})]
    /\ pending' = [p \in Panels |-> {}]
    /\ UNCHANGED <<dataVars, asked, trail>>

-----------------------------------------------------------------------------

Handle(q) ==
    \/ ReadMappings(q) \/ ReadFindings(q) \/ RefuseTarget(q) \/ Invoke(q)
    \/ Commit(q) \/ Answer(q)

Next ==
    \/ \E a \in Analyses : StoreFindings(a) \/ StoreMappings(a)
    \/ \E u \in Titles : Rename(u)
    \/ \E q \in Requests :
          \/ \E x \in Questions : Send(q, x)
          \/ Handle(q) \/ ModelFails(q) \/ DatabaseFails(q)
          \/ \E r \in Replies : Reply(q, r)
    \/ \E p \in Panels : Disconnect(p) \/ Leave(p)
    \/ Crash

\* A coroutine that can go on does; nobody has to ask, and the model need neither reply
\* nor fail.
Spec == Init /\ [][Next]_vars /\ \A q \in Requests : WF_vars(Handle(q))

-----------------------------------------------------------------------------
(***************************************************************************)
(* Properties.                                                             *)
(***************************************************************************)

\* Whatever the model replied and whatever was stored meanwhile: the points of a
\* successful response cite rows of the case only, a figure beside a citation is that
\* of the last row cited, and the explanation calls something known malicious only
\* where something that was stored of the case speaks of malice: a finding or a mapping,
\* but also a label, a description, or a title that it has had.
PointsAreGrounded ==
    \A q \in Requests : \A r \in outcome[q] : r.status = "SUCCESS" =>
        /\ r.claims # {} =>
              (Findings \cup Texts \cup Rationales(mappings) \cup ToSet(titles)) \cap Suspected # {}
        /\ \A i \in DOMAIN r.points : LET p == r.points[i] IN
              /\ p.evidence = {}
              /\ ToSet(p.findings) \subseteq Findings /\ ToSet(p.techniques) \subseteq DOMAIN mappings
              /\ p.techniques # <<>> /\ p.confidence # {} => p.confidence = {mappings[Last(p.techniques)].confidence}
              /\ p.techniques = <<>> /\ p.findings # <<>> /\ p.confidence # {} =>
                    p.confidence = {Confidence[Last(p.findings)]}
              /\ p.techniques # <<>> => p.status \subseteq {"SUPPORTED"}

\* The trail and the panels agree: an answer that a panel shows is on the trail with its
\* result, no request is on it twice, and no panel shows an explanation of a hypothesis,
\* a root cause or an impact, since none is ever given.
AnswersAreOnTrail ==
    /\ \A p \in Panels : \A i \in DOMAIN messages[p] :
          LET shown == messages[p][i] IN
          /\ shown.status = "SUCCESS" => <<shown.request, "success">> \in trail
          /\ shown.status \in {"LLM_UNGROUNDED", "LLM_INVALID_RESPONSE"} => <<shown.request, "failure">> \in trail
          /\ shown.status = "SUCCESS" => \A x \in asked[shown.request] :
                x.kind \notin {"hypothesis", "root_cause", "impact"}
    /\ \A e, f \in trail : e[1] = f[1] => e = f

\* A panel shows every answer right under its question, whatever is slow, cut off or
\* abandoned, and never answers a question twice.
ConversationInOrder ==
    \A p \in Panels : \A i \in DOMAIN messages[p] :
        messages[p][i].role = "assistant" =>
            /\ i > 1
            /\ messages[p][i - 1].role = "user"
            /\ messages[p][i - 1].request = messages[p][i].request

\* As long as no call of the model stays unanswered for ever, every question that is sent
\* comes to an end on the server and no panel waits for ever, whatever fails, is cut off,
\* or holds the event loop meanwhile.
EveryQuestionEnds ==
    []<>LoopIsFree =>
        \A q \in Requests :
            /\ stage[q] = "mappings" ~> stage[q] \in Ended
            /\ q \in pending[q[1]] ~> q \notin pending[q[1]]

=============================================================================
