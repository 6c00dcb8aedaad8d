---------------------------- MODULE Copilot_proofs ----------------------------
(***************************************************************************)
(* Proofs about Copilot, for any panels, questions, replies and analyses:  *)
(* whatever the model replies, and however requests, analyses, cut         *)
(* connections and crashes interleave.                                     *)
(***************************************************************************)
EXTENDS Copilot, FiniteSetTheorems, SequenceTheorems, TLAPS

(***************************************************************************)
(* Type correctness, with what the other proofs need to know of the        *)
(* messages and of what a panel waits for.                                 *)
(***************************************************************************)

Message == [role : {"user", "assistant"}, request : Requests, status : Statuses \cup {""}]

Point == [evidence : SUBSET Citable, findings : Seq(Citable), techniques : Seq(Citable),
          status : SUBSET STRING, confidence : SUBSET Nat]

PanelsTyped ==
    /\ messages \in [Panels -> Seq(Message)]
    /\ \A p \in Panels : \A q \in pending[p] : q[1] = p /\ stage[q] # "unsent"
    /\ \A p \in Panels : \A q, r \in pending[p] : q = r

ServerTyped ==
    /\ DOMAIN context = Requests /\ DOMAIN outcome = Requests /\ DOMAIN asked = Requests
    /\ \A q \in Requests : DOMAIN context[q] = {"mappings", "findings", "texts"}
    /\ \A q \in Requests : \A r, s \in outcome[q] : r = s

TypeInv == TypeOK /\ PanelsTyped /\ ServerTyped

\* A request names its panel.
LEMMA PanelOf == \A q \in Requests : q[1] \in Panels
  BY DEF Requests

\* The sequence of a set with at most one element.
LEMMA SeqOfOne ==
    ASSUME NEW m
    PROVE  SetToSeq({m}) = <<m>> /\ SetToSeq({}) = <<>>
  <1>1. Cardinality({m}) = 1 /\ Cardinality({}) = 0
    BY FS_EmptySet, FS_Singleton
  <1>2. SetToSeq({m}) = <<m>>
    <2>1. [i \in 1..1 |-> m] \in [1..1 -> {m}] /\ IsInjective([i \in 1..1 |-> m])
      BY DEF IsInjective
    <2>2. SetToSeq({m}) \in [1..1 -> {m}]
      BY <1>1, <2>1 DEF SetToSeq
    <2>3. QED
      BY <2>2
  <1>3. SetToSeq({}) = <<>>
    <2>1. 1..0 = {}
      OBVIOUS
    <2>2. [i \in 1..0 |-> m] \in [1..0 -> {}] /\ IsInjective([i \in 1..0 |-> m])
      BY <2>1 DEF IsInjective
    <2>3. SetToSeq({}) \in [1..0 -> {}]
      BY <1>1, <2>2 DEF SetToSeq
    <2>4. QED
      BY <2>3
  <1>4. QED
    BY <1>2, <1>3

\* The initial state has the types.
LEMMA InitTypeInv == Init => TypeInv
  <1> SUFFICES ASSUME Init PROVE TypeInv
    OBVIOUS
  <1>1. titles \in Seq(Titles) /\ titles # <<>>
    BY CopilotAssumption DEF Init
  <1>2. QED
    BY <1>1 DEF Init, TypeInv, TypeOK, PanelsTyped, ServerTyped, Nothing, Assembled, AtMostOne,
       Waiting, Ended

\* What a reply is turned into has a status that the panel knows.
LEMMA ResponseTyped ==
    ASSUME NEW r, NEW c
    PROVE  Response(r, c).status \in Statuses
  BY DEF Response, Unanswered, Statuses

\* So has the response to a question whose target is not there.
LEMMA UnansweredTyped == Unanswered("LLM_INVALID_RESPONSE").status \in Statuses
  BY DEF Unanswered, Statuses

-----------------------------------------------------------------------------
(***************************************************************************)
(* How a panel can change: not at all, left, by a question, or by the end  *)
(* of the question it waits for.                                           *)
(***************************************************************************)

Same(p) == messages'[p] = messages[p] /\ pending'[p] = pending[p]
Emptied(p) == messages'[p] = <<>> /\ pending'[p] = {}
AskedBy(p, q) ==
    /\ q \in Requests /\ q[1] = p /\ pending[p] = {}
    /\ stage[q] = "unsent" /\ stage'[q] = "mappings"
    /\ messages'[p] = Append(messages[p], [role |-> "user", request |-> q, status |-> ""])
    /\ pending'[p] = {q}
Told(p, q, status) ==
    /\ q \in pending[p]
    /\ messages'[p] = Append(messages[p], [role |-> "assistant", request |-> q, status |-> status])
    /\ pending'[p] = {}
    /\ \/ status = "LLM_UNAVAILABLE"
       \/ stage[q] = "answer" /\ \E r \in outcome[q] : status = r.status

PanelStep(p) ==
    \/ Same(p) \/ Emptied(p)
    \/ \E q \in Requests : AskedBy(p, q)
    \/ \E q \in pending[p], status \in Statuses : Told(p, q, status)

PanelsStep ==
    /\ messages' = [p \in Panels |-> messages'[p]]
    /\ pending' = [p \in Panels |-> pending'[p]]
    /\ \A p \in Panels : PanelStep(p)

\* Settling a request tells the panel that waits for it, and no other.
LEMMA SettleStep ==
    ASSUME TypeInv, NEW q \in Requests, NEW status \in Statuses, Settle(q, status),
           \/ status = "LLM_UNAVAILABLE"
           \/ stage[q] = "answer" /\ \E r \in outcome[q] : status = r.status
    PROVE  PanelsStep
  <1> USE DEF TypeInv, TypeOK, PanelsTyped
  <1>1. q[1] \in Panels
    BY PanelOf
  <1>2. CASE q \in pending[q[1]]
    <2>1. /\ messages' = [messages EXCEPT ![q[1]] =
                Append(@, [role |-> "assistant", request |-> q, status |-> status])]
          /\ pending' = [pending EXCEPT ![q[1]] = @ \ {q}]
      BY <1>2 DEF Settle, Show
    <2>2. pending[q[1]] = {q}
      BY <1>1, <1>2
    <2>3. Told(q[1], q, status)
      BY <1>1, <1>2, <2>1, <2>2 DEF Told
    <2>4. \A p \in Panels : p # q[1] => Same(p)
      BY <2>1 DEF Same
    <2>5. \A p \in Panels : PanelStep(p)
      BY <1>2, <2>3, <2>4 DEF PanelStep
    <2>6. messages' = [p \in Panels |-> messages'[p]] /\ pending' = [p \in Panels |-> pending'[p]]
      BY <2>1
    <2>7. QED
      BY <2>5, <2>6 DEF PanelsStep
  <1>3. CASE q \notin pending[q[1]]
    BY <1>3 DEF Settle, panelVars, PanelsStep, PanelStep, Same
  <1>4. QED
    BY <1>2, <1>3

\* A question is shown in its panel, which waits for it alone.
LEMMA SendStep ==
    ASSUME TypeInv, NEW q \in Requests, NEW x \in Questions, Send(q, x)
    PROVE  PanelsStep
  <1> USE DEF TypeInv, TypeOK, PanelsTyped
  <1>1. q[1] \in Panels
    BY PanelOf
  <1>2. /\ messages' = [messages EXCEPT ![q[1]] =
              Append(@, [role |-> "user", request |-> q, status |-> ""])]
        /\ pending' = [pending EXCEPT ![q[1]] = @ \cup {q}]
        /\ stage' = [stage EXCEPT ![q] = "mappings"]
        /\ pending[q[1]] = {} /\ stage[q] = "unsent"
    BY DEF Send, Show, Goto
  <1>3. AskedBy(q[1], q)
    BY <1>1, <1>2 DEF AskedBy
  <1>4. \A p \in Panels : p # q[1] => Same(p)
    BY <1>2 DEF Same
  <1>5. messages' = [p \in Panels |-> messages'[p]] /\ pending' = [p \in Panels |-> pending'[p]]
    BY <1>2
  <1>6. QED
    BY <1>3, <1>4, <1>5 DEF PanelsStep, PanelStep

\* A crash tells every panel that waits.
LEMMA CrashStep ==
    ASSUME TypeInv, Crash
    PROVE  PanelsStep
  <1> USE DEF TypeInv, TypeOK, PanelsTyped
  <1> DEFINE Lost(q) == [role |-> "assistant", request |-> q, status |-> "LLM_UNAVAILABLE"]
  <1>1. /\ messages' = [p \in Panels |-> messages[p] \o SetToSeq({Lost(q) : q \in pending[p]})]
        /\ pending' = [p \in Panels |-> {}]
    BY DEF Crash
  <1>2. ASSUME NEW p \in Panels
        PROVE  PanelStep(p)
    <2>1. messages[p] \in Seq(Message)
      OBVIOUS
    <2>2. CASE pending[p] = {}
      <3>1. {Lost(q) : q \in pending[p]} = {}
        BY <2>2
      <3>2. messages'[p] = messages[p] \o <<>>
        BY <1>1, <3>1, SeqOfOne
      <3>3. messages[p] \o <<>> = messages[p]
        BY <2>1, ConcatEmptySeq
      <3>4. QED
        BY <1>1, <2>2, <3>2, <3>3 DEF PanelStep, Same
    <2>3. ASSUME NEW q \in pending[p]
          PROVE  PanelStep(p)
      <3>1. {Lost(y) : y \in pending[p]} = {Lost(q)}
        BY <2>3
      <3>2. messages'[p] = messages[p] \o <<Lost(q)>>
        BY <1>1, <3>1, SeqOfOne
      <3>3. q \in Requests
        BY <2>3
      <3>4. Lost(q) \in Message
        BY <3>3 DEF Message, Statuses
      <3>5. messages[p] \o <<Lost(q)>> = Append(messages[p], Lost(q))
        BY <2>1, <3>4, AppendIsConcat
      <3>6. Told(p, q, "LLM_UNAVAILABLE")
        BY <1>1, <2>3, <3>2, <3>5 DEF Told
      <3>7. "LLM_UNAVAILABLE" \in Statuses
        BY DEF Statuses
      <3>8. QED
        BY <2>3, <3>6, <3>7 DEF PanelStep
    <2>4. QED
      BY <2>2, <2>3
  <1>3. messages' = [p \in Panels |-> messages'[p]] /\ pending' = [p \in Panels |-> pending'[p]]
    BY <1>1
  <1>4. QED
    BY <1>2, <1>3 DEF PanelsStep

\* Every step of the system changes each panel in one of these ways.
LEMMA PanelMoves ==
    ASSUME TypeInv, [Next]_vars
    PROVE  PanelsStep
  <1> USE DEF TypeInv, TypeOK, PanelsTyped
  <1>1. CASE UNCHANGED panelVars
    BY <1>1 DEF panelVars, PanelsStep, PanelStep, Same
  <1>2. ASSUME NEW q \in Requests, NEW x \in Questions, Send(q, x)
        PROVE  PanelsStep
    BY <1>2, SendStep
  <1>3. ASSUME NEW q \in Requests, Answer(q)
        PROVE  PanelsStep
    <2>1. PICK r \in outcome[q] : Settle(q, r.status)
      BY <1>3 DEF Answer
    <2>2. r.status \in Statuses
      BY <2>1
    <2>3. QED
      BY <1>3, <2>1, <2>2, SettleStep DEF Answer
  <1>4. ASSUME NEW q \in Requests, DatabaseFails(q)
        PROVE  PanelsStep
    BY <1>4, SettleStep DEF DatabaseFails, Statuses
  <1>5. ASSUME NEW p \in Panels, Disconnect(p)
        PROVE  PanelsStep
    <2>1. PICK q \in pending[p] : Settle(q, "LLM_UNAVAILABLE")
      BY <1>5 DEF Disconnect
    <2>2. q \in Requests
      BY <2>1
    <2>3. QED
      BY <2>1, <2>2, SettleStep DEF Statuses
  <1>6. ASSUME NEW p \in Panels, Leave(p)
        PROVE  PanelsStep
    <2>1. messages' = [messages EXCEPT ![p] = <<>>] /\ pending' = [pending EXCEPT ![p] = {}]
      BY <1>6 DEF Leave
    <2>2. \A o \in Panels : Same(o) \/ Emptied(o)
      BY <2>1 DEF Same, Emptied
    <2>3. messages' = [o \in Panels |-> messages'[o]] /\ pending' = [o \in Panels |-> pending'[o]]
      BY <2>1
    <2>4. QED
      BY <2>2, <2>3 DEF PanelsStep, PanelStep
  <1>7. CASE Crash
    BY <1>7, CrashStep
  <1>8. ASSUME \/ \E a \in Analyses : StoreFindings(a) \/ StoreMappings(a)
               \/ \E u \in Titles : Rename(u)
        PROVE  UNCHANGED panelVars
    BY <1>8 DEF StoreFindings, StoreMappings, Rename
  <1>9. ASSUME NEW q \in Requests,
               \/ ReadMappings(q) \/ ReadFindings(q) \/ RefuseTarget(q) \/ Invoke(q)
               \/ ModelFails(q) \/ Commit(q)
               \/ \E r \in Replies : Reply(q, r)
        PROVE  UNCHANGED panelVars
    BY <1>9 DEF ReadMappings, ReadFindings, RefuseTarget, Invoke, ModelFails, Commit, Reply
  <1>10. CASE UNCHANGED vars
    BY <1>1, <1>10 DEF vars
  <1>11. QED
    BY <1>1, <1>2, <1>3, <1>4, <1>5, <1>6, <1>7, <1>8, <1>9, <1>10 DEF Next, Handle

-----------------------------------------------------------------------------
(***************************************************************************)
(* Types are kept: by the steps on the server, then by the panels.         *)
(***************************************************************************)

ServerInv == TypeOK /\ ServerTyped

\* The steps of the handler keep the types of what the server holds.
LEMMA HandlerTyped ==
    ASSUME ServerInv, NEW q \in Requests,
           \/ ReadMappings(q) \/ ReadFindings(q) \/ RefuseTarget(q) \/ Invoke(q)
           \/ ModelFails(q) \/ Commit(q)
           \/ \E r \in Replies : Reply(q, r)
    PROVE  ServerInv'
  <1> USE DEF ServerInv, TypeOK, ServerTyped, Goto, dataVars, panelVars, Waiting, Ended
  <1>1. CASE ReadMappings(q)
    BY <1>1 DEF ReadMappings, Assembled
  <1>2. CASE ReadFindings(q)
    <2>1. Findings \subseteq AllFindings
      BY DEF Findings, AllFindings
    <2>2. QED
      BY <1>2, <2>1 DEF ReadFindings, Assembled
  <1>3. CASE RefuseTarget(q)
    <2>1. PICK answer : answer = Unanswered("LLM_INVALID_RESPONSE") /\ answer.status \in Statuses
      BY UnansweredTyped
    <2>2. /\ outcome' = [outcome EXCEPT ![q] = {answer}]
          /\ context' = [context EXCEPT ![q] = Nothing]
          /\ stage' = [stage EXCEPT ![q] = "commit"]
          /\ thinking = {} /\ thinking' = {} /\ asked' = asked /\ trail' = trail
          /\ UNCHANGED dataVars /\ UNCHANGED panelVars
      BY <1>3, <2>1 DEF RefuseTarget, Respond, LoopIsFree
    <2>3. QED
      BY <2>1, <2>2 DEF Nothing, Assembled
  <1>4. CASE Invoke(q)
    BY <1>4 DEF Invoke, LoopIsFree, AtMostOne
  <1>5. CASE ModelFails(q)
    <2>1. thinking = {q} /\ thinking' = {}
      BY <1>5 DEF ModelFails, AtMostOne
    <2>2. {} \in AtMostOne(Requests)
      BY DEF AtMostOne
    <2>3. PICK answer : answer = Unanswered("LLM_INVALID_RESPONSE") /\ answer.status \in Statuses
      BY UnansweredTyped
    <2>4. /\ outcome' = [outcome EXCEPT ![q] = {answer}]
          /\ context' = [context EXCEPT ![q] = Nothing]
          /\ stage' = [stage EXCEPT ![q] = "commit"]
      BY <1>5, <2>3 DEF ModelFails, Respond
    <2>5. QED
      BY <1>5, <2>1, <2>2, <2>3, <2>4 DEF ModelFails, Nothing, Assembled
  <1>6. CASE Commit(q)
    <2>1. trail' \subseteq Requests \X {"success", "failure"}
      BY <1>6 DEF Commit
    <2>2. QED
      BY <1>6, <2>1 DEF Commit, LoopIsFree
  <1>7. ASSUME NEW r \in Replies, Reply(q, r)
        PROVE  ServerInv'
    <2>1. thinking = {q} /\ thinking' = {}
      BY <1>7 DEF Reply, AtMostOne
    <2>2. {} \in AtMostOne(Requests)
      BY DEF AtMostOne
    <2>3. Response(r, context[q]).status \in Statuses
      BY ResponseTyped
    <2>4. PICK answer : answer = Response(r, context[q])
      OBVIOUS
    <2>5. /\ outcome' = [outcome EXCEPT ![q] = {answer}]
          /\ context' = [context EXCEPT ![q] = Nothing]
          /\ stage' = [stage EXCEPT ![q] = "commit"]
      BY <1>7, <2>4 DEF Reply, Respond
    <2>6. QED
      BY <1>7, <2>1, <2>2, <2>3, <2>4, <2>5 DEF Reply, Nothing, Assembled
  <1>8. QED
    BY <1>1, <1>2, <1>3, <1>4, <1>5, <1>6, <1>7

\* So do the steps that end a request, ask a question, or commit an analysis.
LEMMA ServerStepTyped ==
    ASSUME ServerInv, PanelsStep, [Next]_vars
    PROVE  ServerInv'
  <1> USE DEF ServerInv, TypeOK, ServerTyped, Goto, dataVars, serverVars, Waiting, Ended
  <1>1. pending' \in [Panels -> SUBSET Requests]
    <2>1. \A p \in Panels : pending'[p] \subseteq Requests
      <3>1. ASSUME NEW p \in Panels
            PROVE  \/ pending'[p] = pending[p]
                   \/ pending'[p] = {}
                   \/ \E q \in Requests : pending'[p] = {q}
        BY DEF PanelsStep, PanelStep, Same, Emptied, AskedBy, Told
      <3>2. QED
        BY <3>1
    <2>2. QED
      BY <2>1 DEF PanelsStep
  <1>2. ASSUME NEW q \in Requests, Answer(q) \/ DatabaseFails(q)
        PROVE  ServerInv'
    <2>1. PICK end \in Ended :
              /\ outcome' = [outcome EXCEPT ![q] = {}]
              /\ context' = [context EXCEPT ![q] = Nothing]
              /\ stage' = [stage EXCEPT ![q] = end]
      BY <1>2 DEF Answer, DatabaseFails, Finish
    <2>2. /\ thinking = {} /\ thinking' = {} /\ asked' = asked /\ trail' = trail
          /\ UNCHANGED dataVars
      BY <1>2 DEF Answer, DatabaseFails, LoopIsFree
    <2>3. QED
      BY <1>1, <2>1, <2>2 DEF Nothing, Assembled
  <1>3. ASSUME NEW q \in Requests, NEW x \in Questions, Send(q, x)
        PROVE  ServerInv'
    <2>1. {x} \in AtMostOne(Questions)
      BY DEF AtMostOne
    <2>2. QED
      BY <1>1, <1>3, <2>1 DEF Send
  <1>4. ASSUME NEW p \in Panels, Disconnect(p) \/ Leave(p)
        PROVE  ServerInv'
    BY <1>1, <1>4 DEF Disconnect, Leave
  <1>5. CASE Crash
    <2>1. {} \in AtMostOne(Requests)
      BY DEF AtMostOne
    <2>2. QED
      BY <1>1, <1>5, <2>1 DEF Crash, Nothing, Assembled
  <1>6. ASSUME NEW a \in Analyses, StoreFindings(a) \/ StoreMappings(a)
        PROVE  ServerInv'
    <2>1. CASE StoreFindings(a)
      BY <1>1, <2>1 DEF StoreFindings
    <2>2. CASE StoreMappings(a)
      <3>1. DOMAIN mappings' = DOMAIN mappings \cup DOMAIN MappingsOf[a]
        BY <2>2 DEF StoreMappings
      <3>2. DOMAIN MappingsOf[a] \subseteq AllTechniques
        BY DEF AllTechniques
      <3>3. QED
        BY <1>1, <2>2, <3>1, <3>2 DEF StoreMappings
    <2>3. QED
      BY <1>6, <2>1, <2>2
  <1>7. ASSUME NEW q \in Requests,
               \/ ReadMappings(q) \/ ReadFindings(q) \/ RefuseTarget(q) \/ Invoke(q)
               \/ ModelFails(q) \/ Commit(q)
               \/ \E r \in Replies : Reply(q, r)
        PROVE  ServerInv'
    BY <1>7, HandlerTyped
  <1>8. CASE UNCHANGED vars
    BY <1>1, <1>8 DEF vars, panelVars
  <1>9. ASSUME NEW u \in Titles, Rename(u)
        PROVE  ServerInv'
    <2>1. titles' \in Seq(Titles) /\ titles' # <<>>
      BY <1>9, AppendProperties DEF Rename
    <2>2. QED
      BY <1>1, <1>9, <2>1 DEF Rename
  <1>10. QED
    BY <1>2, <1>3, <1>4, <1>5, <1>6, <1>7, <1>8, <1>9 DEF Next, Handle

\* A request that was sent never becomes unsent, and keeps its question.
LEMMA SentStays ==
    ASSUME ServerInv, [Next]_vars, NEW q \in Requests, stage[q] # "unsent"
    PROVE  stage'[q] # "unsent" /\ asked'[q] = asked[q]
  <1> USE DEF ServerInv, TypeOK, ServerTyped, Goto
  <1>1. ASSUME NEW r \in Requests, NEW x \in Questions, Send(r, x)
        PROVE  stage'[q] # "unsent" /\ asked'[q] = asked[q]
    BY <1>1 DEF Send
  <1>2. ASSUME NEW r \in Requests, Handle(r) \/ ModelFails(r) \/ DatabaseFails(r) \/ \E reply \in Replies : Reply(r, reply)
        PROVE  stage'[q] # "unsent" /\ asked'[q] = asked[q]
    BY <1>2 DEF Handle, ReadMappings, ReadFindings, RefuseTarget, Invoke, ModelFails, Commit,
       Reply, Respond, Answer, DatabaseFails, Finish
  <1>3. CASE Crash
    BY <1>3 DEF Crash
  <1>4. CASE \/ \E a \in Analyses : StoreFindings(a) \/ StoreMappings(a)
             \/ \E u \in Titles : Rename(u)
             \/ \E p \in Panels : Disconnect(p) \/ Leave(p)
             \/ UNCHANGED vars
    BY <1>4 DEF StoreFindings, StoreMappings, Rename, Disconnect, Leave, serverVars, vars
  <1>5. QED
    BY <1>1, <1>2, <1>3, <1>4 DEF Next

\* The panels keep their types.
LEMMA PanelsStayTyped ==
    ASSUME TypeInv, [Next]_vars, PanelsStep
    PROVE  PanelsTyped'
  <1>1. ASSUME NEW p \in Panels
        PROVE  /\ messages'[p] \in Seq(Message)
               /\ \A q \in pending'[p] : q[1] = p /\ stage'[q] # "unsent"
               /\ \A q, r \in pending'[p] : q = r
    <2>1. messages[p] \in Seq(Message) /\ pending[p] \subseteq Requests
      BY DEF TypeInv, TypeOK, PanelsTyped
    <2>2. /\ \A q \in pending[p] : q[1] = p /\ stage[q] # "unsent"
          /\ \A q, r \in pending[p] : q = r
      BY DEF TypeInv, PanelsTyped
    <2>3. CASE Same(p)
      BY <2>1, <2>2, <2>3, SentStays DEF Same, TypeInv, ServerInv
    <2>4. CASE Emptied(p)
      BY <2>4 DEF Emptied
    <2>5. ASSUME NEW q \in Requests, AskedBy(p, q)
          PROVE  /\ messages'[p] \in Seq(Message)
                 /\ pending'[p] = {q} /\ q[1] = p /\ stage'[q] # "unsent"
      <3>1. [role |-> "user", request |-> q, status |-> ""] \in Message
        BY DEF Message
      <3>2. Append(messages[p], [role |-> "user", request |-> q, status |-> ""]) \in Seq(Message)
        BY <2>1, <3>1, AppendProperties
      <3>3. QED
        BY <2>5, <3>2 DEF AskedBy
    <2>6. ASSUME NEW q \in pending[p], NEW status \in Statuses, Told(p, q, status)
          PROVE  messages'[p] \in Seq(Message) /\ pending'[p] = {}
      <3>1. [role |-> "assistant", request |-> q, status |-> status] \in Message
        BY <2>1 DEF Message
      <3>2. QED
        BY <2>1, <2>6, <3>1, AppendProperties DEF Told
    <2>7. QED
      BY <2>3, <2>4, <2>5, <2>6 DEF PanelsStep, PanelStep
  <1>2. messages' \in [Panels -> Seq(Message)']
    <2>1. Seq(Message)' = Seq(Message)
      BY DEF Message, Requests, Statuses
    <2>2. QED
      BY <1>1, <2>1 DEF PanelsStep
  <1>3. QED
    BY <1>1, <1>2 DEF PanelsTyped, Message, Requests, Statuses

\* Every step keeps the types.
LEMMA NextTypeInv == TypeInv /\ [Next]_vars => TypeInv'
  <1> SUFFICES ASSUME TypeInv, [Next]_vars PROVE TypeInv'
    OBVIOUS
  <1>1. PanelsStep
    BY PanelMoves
  <1>2. ServerInv'
    BY <1>1, ServerStepTyped DEF TypeInv, ServerInv
  <1>3. QED
    BY <1>1, <1>2, PanelsStayTyped DEF TypeInv, ServerInv

\* Every reachable state has the types of TypeOK; above all, the event loop is held by
\* exactly the request that waits for the model.
THEOREM TypeCorrect == Spec => [](TypeOK /\ TypeInv)
  <1>1. TypeInv => TypeOK
    BY DEF TypeInv
  <1>2. QED
    BY <1>1, InitTypeInv, NextTypeInv, PTL DEF Spec

-----------------------------------------------------------------------------
(***************************************************************************)
(* The conversation.  While a panel waits, its last message is the         *)
(* question it waits for, so that the answer comes right under it.         *)
(***************************************************************************)

AnswerFollows(ms, i) ==
    ms[i].role = "assistant" =>
        i > 1 /\ ms[i - 1].role = "user" /\ ms[i - 1].request = ms[i].request

ConversationInv ==
    \A p \in Panels :
        /\ \A i \in DOMAIN messages[p] : AnswerFollows(messages[p], i)
        /\ \A q \in pending[p] :
              /\ Len(messages[p]) > 0
              /\ messages[p][Len(messages[p])].role = "user"
              /\ messages[p][Len(messages[p])].request = q

\* What appending a message leaves as it was, and what it adds.
LEMMA Appended ==
    ASSUME NEW ms \in Seq(Message), NEW m \in Message
    PROVE  /\ Len(Append(ms, m)) = Len(ms) + 1
           /\ DOMAIN Append(ms, m) = 1..(Len(ms) + 1)
           /\ Append(ms, m)[Len(ms) + 1] = m
           /\ \A i \in 1..Len(ms) : Append(ms, m)[i] = ms[i]
  <1>1. Append(ms, m) \in Seq(Message)
    BY AppendProperties
  <1>2. QED
    BY <1>1, AppendProperties

\* A panel stays in order, whichever way it changes.
LEMMA PanelStaysInOrder ==
    ASSUME TypeInv, ConversationInv, NEW p \in Panels, PanelStep(p)
    PROVE  /\ \A i \in DOMAIN messages'[p] : AnswerFollows(messages'[p], i)
           /\ \A q \in pending'[p] :
                 /\ Len(messages'[p]) > 0
                 /\ messages'[p][Len(messages'[p])].role = "user"
                 /\ messages'[p][Len(messages'[p])].request = q
  <1>1. messages[p] \in Seq(Message) /\ pending[p] \subseteq Requests
    BY DEF TypeInv, TypeOK, PanelsTyped
  <1>2. DOMAIN messages[p] = 1..Len(messages[p]) /\ Len(messages[p]) \in Nat
    BY <1>1
  <1>3. \A i \in 1..Len(messages[p]) : AnswerFollows(messages[p], i)
    BY <1>2 DEF ConversationInv
  <1>4. CASE Same(p)
    BY <1>4 DEF Same, ConversationInv
  <1>5. CASE Emptied(p)
    BY <1>5 DEF Emptied
  <1>6. ASSUME NEW q \in Requests, AskedBy(p, q)
        PROVE  /\ \A i \in DOMAIN messages'[p] : AnswerFollows(messages'[p], i)
               /\ \A r \in pending'[p] :
                     /\ Len(messages'[p]) > 0
                     /\ messages'[p][Len(messages'[p])].role = "user"
                     /\ messages'[p][Len(messages'[p])].request = r
    <2>1. PICK m : m = [role |-> "user", request |-> q, status |-> ""]
      OBVIOUS
    <2>2. m \in Message /\ m.role = "user" /\ m.request = q
      BY <2>1 DEF Message
    <2>3. messages'[p] = Append(messages[p], m) /\ pending'[p] = {q}
      BY <1>6, <2>1 DEF AskedBy
    <2>4. /\ DOMAIN messages'[p] = 1..(Len(messages[p]) + 1)
          /\ Len(messages'[p]) = Len(messages[p]) + 1
          /\ messages'[p][Len(messages[p]) + 1] = m
          /\ \A i \in 1..Len(messages[p]) : messages'[p][i] = messages[p][i]
      BY <1>1, <2>2, <2>3, Appended
    <2>5. ASSUME NEW i \in DOMAIN messages'[p]
          PROVE  AnswerFollows(messages'[p], i)
      <3>1. CASE i = Len(messages[p]) + 1
        BY <2>2, <2>4, <3>1 DEF AnswerFollows
      <3>2. CASE i # Len(messages[p]) + 1
        <4>1. i \in 1..Len(messages[p]) /\ (i > 1 => i - 1 \in 1..Len(messages[p]))
          BY <1>2, <2>4, <3>2
        <4>2. QED
          BY <1>3, <2>4, <4>1 DEF AnswerFollows
      <3>3. QED
        BY <3>1, <3>2
    <2>6. QED
      BY <1>2, <2>2, <2>3, <2>4, <2>5
  <1>7. ASSUME NEW q \in pending[p], NEW status \in Statuses, Told(p, q, status)
        PROVE  pending'[p] = {} /\ \A i \in DOMAIN messages'[p] : AnswerFollows(messages'[p], i)
    <2>1. PICK m : m = [role |-> "assistant", request |-> q, status |-> status]
      OBVIOUS
    <2>2. m \in Message /\ m.request = q
      BY <1>1, <2>1 DEF Message
    <2>3. messages'[p] = Append(messages[p], m) /\ pending'[p] = {}
      BY <1>7, <2>1 DEF Told
    <2>4. /\ DOMAIN messages'[p] = 1..(Len(messages[p]) + 1)
          /\ messages'[p][Len(messages[p]) + 1] = m
          /\ \A i \in 1..Len(messages[p]) : messages'[p][i] = messages[p][i]
      BY <1>1, <2>2, <2>3, Appended
    <2>5. /\ Len(messages[p]) > 0
          /\ messages[p][Len(messages[p])].role = "user"
          /\ messages[p][Len(messages[p])].request = q
      BY DEF ConversationInv
    <2>6. ASSUME NEW i \in DOMAIN messages'[p]
          PROVE  AnswerFollows(messages'[p], i)
      <3>1. CASE i = Len(messages[p]) + 1
        <4>1. i - 1 = Len(messages[p]) /\ i > 1 /\ i - 1 \in 1..Len(messages[p])
          BY <1>2, <2>5, <3>1
        <4>2. QED
          BY <2>2, <2>4, <2>5, <3>1, <4>1 DEF AnswerFollows
      <3>2. CASE i # Len(messages[p]) + 1
        <4>1. i \in 1..Len(messages[p]) /\ (i > 1 => i - 1 \in 1..Len(messages[p]))
          BY <1>2, <2>4, <3>2
        <4>2. QED
          BY <1>3, <2>4, <4>1 DEF AnswerFollows
      <3>3. QED
        BY <3>1, <3>2
    <2>7. QED
      BY <2>3, <2>6
  <1>8. QED
    BY <1>4, <1>5, <1>6, <1>7 DEF PanelStep

\* A panel shows every answer right under its question, and never answers twice.
THEOREM ConversationsStayInOrder == Spec => []ConversationInOrder
  <1>1. Init => ConversationInv
    BY DEF Init, ConversationInv
  <1>2. TypeInv /\ ConversationInv /\ [Next]_vars => ConversationInv'
    <2>1. SUFFICES ASSUME TypeInv, ConversationInv, [Next]_vars
                   PROVE  ConversationInv'
      OBVIOUS
    <2>2. \A p \in Panels : PanelStep(p)
      BY <2>1, PanelMoves DEF PanelsStep
    <2>3. QED
      BY <2>1, <2>2, PanelStaysInOrder DEF ConversationInv, AnswerFollows
  <1>3. ConversationInv => ConversationInOrder
    BY DEF ConversationInv, AnswerFollows, ConversationInOrder
  <1>4. QED
    BY <1>1, <1>2, <1>3, TypeCorrect, PTL DEF Spec

-----------------------------------------------------------------------------
(***************************************************************************)
(* The trail.  A request is put on it once, on the way from its response   *)
(* to its answer, so that what a panel is told of is there.                *)
(***************************************************************************)

Result(r) == IF r.status = "SUCCESS" THEN "success" ELSE "failure"
Explained(q) == \A x \in asked[q] : x.kind \notin {"hypothesis", "root_cause", "impact"}

TrailInv ==
    /\ \A e \in trail : e[1] \in Requests /\ stage[e[1]] \in {"answer"} \cup Ended
    /\ \A e, f \in trail : e[1] = f[1] => e = f
    /\ \A q \in Requests :
          /\ stage[q] = "answer" => \A r \in outcome[q] : <<q, Result(r)>> \in trail
          /\ stage[q] = "model" => Explained(q)
          /\ \A r \in outcome[q] : r.status = "SUCCESS" => Explained(q)
          /\ outcome[q] # {} => stage[q] \in {"commit", "answer"}

\* What a message that is shown says of the trail.
OnTrail(m) ==
    /\ m.status = "SUCCESS" => <<m.request, "success">> \in trail /\ Explained(m.request)
    /\ m.status \in {"LLM_UNGROUNDED", "LLM_INVALID_RESPONSE"} => <<m.request, "failure">> \in trail

ShownInv ==
    \A p \in Panels : \A i \in DOMAIN messages[p] :
        stage[messages[p][i].request] # "unsent" /\ OnTrail(messages[p][i])

\* A step that leaves the trail alone, and lets one request move to where it needs none.
LEMMA QuietTrail ==
    ASSUME TypeInv, TrailInv, trail' = trail, NEW q \in Requests,
           stage[q] \notin Ended,
           \/ stage'[q] \in Ended /\ outcome'[q] = {}
           \/ /\ stage[q] # "answer" /\ stage'[q] \notin {"answer", "model"}
              /\ outcome'[q] = {}
           \/ /\ stage[q] # "answer" /\ stage'[q] = "model" /\ Explained(q) /\ asked' = asked
              /\ outcome'[q] = outcome[q] /\ outcome[q] = {}
           \/ /\ stage[q] # "answer" /\ stage'[q] = "commit" /\ asked' = asked
              /\ \A r \in outcome'[q] : r.status = "SUCCESS" => Explained(q),
           \A o \in Requests : o # q =>
               stage'[o] = stage[o] /\ outcome'[o] = outcome[o] /\ asked'[o] = asked[o]
    PROVE  TrailInv'
  <1>1. \A e \in trail : e[1] \in Requests /\ stage[e[1]] \in {"answer"} \cup Ended
    BY DEF TrailInv
  <1>2. ASSUME NEW e \in trail
        PROVE  e[1] \in Requests /\ stage'[e[1]] \in {"answer"} \cup Ended
    <2>1. CASE e[1] = q
      BY <1>1, <2>1 DEF Ended
    <2>2. CASE e[1] # q
      BY <1>1, <2>2
    <2>3. QED
      BY <2>1, <2>2
  <1>3. ASSUME NEW o \in Requests
        PROVE  /\ stage'[o] = "answer" => \A r \in outcome'[o] : <<o, Result(r)>> \in trail
               /\ stage'[o] = "model" => Explained(o)'
               /\ \A r \in outcome'[o] : r.status = "SUCCESS" => Explained(o)'
               /\ outcome'[o] # {} => stage'[o] \in {"commit", "answer"}
    <2>1. CASE o = q
      BY <2>1 DEF TrailInv, Explained, Ended
    <2>2. CASE o # q
      BY <2>2 DEF TrailInv, Explained
    <2>3. QED
      BY <2>1, <2>2
  <1>4. QED
    BY <1>2, <1>3 DEF TrailInv, Result, Ended

\* The commit puts a request on the trail for the first and only time.
LEMMA CommitOnTrail ==
    ASSUME TypeInv, TrailInv, NEW q \in Requests, Commit(q)
    PROVE  TrailInv'
  <1>1. /\ stage[q] = "commit" /\ stage' = [stage EXCEPT ![q] = "answer"]
        /\ trail' = trail \cup {<<q, Result(r)>> : r \in outcome[q]}
        /\ outcome' = outcome /\ asked' = asked
    BY DEF Commit, Goto, Result
  <1>2. stage'[q] = "answer" /\ \A o \in Requests : o # q => stage'[o] = stage[o]
    BY <1>1 DEF TypeInv, TypeOK
  <1>3. \A e \in trail : e[1] # q
    BY <1>1 DEF TrailInv, Ended
  <1>4. \A e \in trail' \ trail : \E r \in outcome[q] : e = <<q, Result(r)>>
    BY <1>1
  <1>5. \A r, s \in outcome[q] : r = s
    BY DEF TypeInv, ServerTyped
  <1>6. \A e, f \in trail' : e[1] = f[1] => e = f
    <2>1. ASSUME NEW e \in trail', NEW f \in trail', e[1] = f[1]
          PROVE  e = f
      <3>1. CASE e \in trail /\ f \in trail
        BY <2>1, <3>1 DEF TrailInv
      <3>2. CASE e \notin trail /\ f \notin trail
        BY <1>4, <1>5, <3>2
      <3>3. CASE (e \in trail /\ f \notin trail) \/ (e \notin trail /\ f \in trail)
        BY <1>3, <1>4, <2>1, <3>3
      <3>4. QED
        BY <3>1, <3>2, <3>3
    <2>2. QED
      BY <2>1
  <1>7. \A e \in trail' : e[1] \in Requests /\ stage'[e[1]] \in {"answer"} \cup Ended
    <2>1. ASSUME NEW e \in trail'
          PROVE  e[1] \in Requests /\ stage'[e[1]] \in {"answer"} \cup Ended
      <3>1. CASE e \in trail
        BY <1>2, <1>3, <3>1 DEF TrailInv
      <3>2. CASE e \notin trail
        BY <1>2, <1>4, <3>2
      <3>3. QED
        BY <3>1, <3>2
    <2>2. QED
      BY <2>1
  <1>8. \A o \in Requests :
            /\ stage'[o] = "answer" => \A r \in outcome'[o] : <<o, Result(r)>> \in trail'
            /\ stage'[o] = "model" => Explained(o)'
            /\ \A r \in outcome'[o] : r.status = "SUCCESS" => Explained(o)'
            /\ outcome'[o] # {} => stage'[o] \in {"commit", "answer"}
    BY <1>1, <1>2 DEF TrailInv, Explained
  <1>9. QED
    BY <1>6, <1>7, <1>8 DEF TrailInv, Result, Ended

\* Every step keeps the trail in step with the requests.
LEMMA TrailPreserved ==
    ASSUME TypeInv, TrailInv, [Next]_vars
    PROVE  TrailInv'
  <1> USE DEF Goto
  <1>1. /\ stage \in [Requests -> {"unsent", "model"} \cup Waiting \cup Ended]
        /\ DOMAIN outcome = Requests /\ DOMAIN asked = Requests
    BY DEF TypeInv, TypeOK, ServerTyped
  <1>2. CASE UNCHANGED serverVars
    BY <1>2 DEF serverVars, TrailInv, Explained, Result, Ended
  <1>3. ASSUME NEW q \in Requests, ReadMappings(q) \/ ReadFindings(q)
        PROVE  TrailInv'
    <2>1. /\ trail' = trail /\ outcome' = outcome /\ asked' = asked
          /\ stage[q] \in {"mappings", "findings"} /\ stage'[q] \in {"findings", "target"}
          /\ \A o \in Requests : o # q => stage'[o] = stage[o]
      BY <1>1, <1>3 DEF ReadMappings, ReadFindings
    <2>2. outcome[q] = {}
      BY <2>1 DEF TrailInv
    <2>3. QED
      BY <2>1, <2>2, QuietTrail DEF Ended
  <1>4. ASSUME NEW q \in Requests, NEW answer, NEW from \in {"target", "model"},
               stage[q] = from, trail' = trail, asked' = asked, Respond(q, answer),
               answer.status = "SUCCESS" => from = "model"
        PROVE  TrailInv'
    <2>1. /\ outcome' = [outcome EXCEPT ![q] = {answer}]
          /\ stage' = [stage EXCEPT ![q] = "commit"]
      BY <1>4 DEF Respond
    <2>2. /\ outcome'[q] = {answer} /\ stage'[q] = "commit"
          /\ \A o \in Requests : o # q => stage'[o] = stage[o] /\ outcome'[o] = outcome[o]
      BY <1>1, <2>1
    <2>3. answer.status = "SUCCESS" => Explained(q)
      BY <1>4 DEF TrailInv
    <2>4. QED
      BY <1>4, <2>2, <2>3, QuietTrail DEF Ended
  <1>5. ASSUME NEW q \in Requests, RefuseTarget(q) \/ ModelFails(q)
        PROVE  TrailInv'
    <2>1. Unanswered("LLM_INVALID_RESPONSE").status # "SUCCESS"
      BY DEF Unanswered
    <2>2. /\ Respond(q, Unanswered("LLM_INVALID_RESPONSE"))
          /\ trail' = trail /\ asked' = asked /\ stage[q] \in {"target", "model"}
      BY <1>5 DEF RefuseTarget, ModelFails, TypeInv, TypeOK
    <2>3. QED
      BY <1>4, <2>1, <2>2
  <1>6. ASSUME NEW q \in Requests, NEW r \in Replies, Reply(q, r)
        PROVE  TrailInv'
    <2>1. stage[q] = "model"
      BY <1>6 DEF Reply, TypeInv, TypeOK
    <2>2. QED
      BY <1>4, <1>6, <2>1 DEF Reply
  <1>7. ASSUME NEW q \in Requests, Invoke(q)
        PROVE  TrailInv'
    <2>1. /\ trail' = trail /\ outcome' = outcome /\ asked' = asked
          /\ stage[q] = "target" /\ stage'[q] = "model"
          /\ \A o \in Requests : o # q => stage'[o] = stage[o]
      BY <1>1, <1>7 DEF Invoke
    <2>2. outcome[q] = {}
      BY <2>1 DEF TrailInv
    <2>3. Explained(q)
      <3>1. PICK x \in asked[q] : TargetFound(x, context[q])
        BY <1>7 DEF Invoke
      <3>2. \A y \in asked[q] : y = x
        BY <3>1 DEF TypeInv, TypeOK, AtMostOne
      <3>3. x.kind \notin {"hypothesis", "root_cause", "impact"}
        BY <3>1 DEF TargetFound, ExplainableHypotheses, ExplainableRootCauses, ExplainableImpacts
      <3>4. QED
        BY <3>2, <3>3 DEF Explained
    <2>4. QED
      BY <2>1, <2>2, <2>3, QuietTrail DEF Ended
  <1>8. ASSUME NEW q \in Requests, Answer(q) \/ DatabaseFails(q)
        PROVE  TrailInv'
    <2>1. /\ outcome' = [outcome EXCEPT ![q] = {}]
          /\ stage' = [stage EXCEPT ![q] = "answered"] \/ stage' = [stage EXCEPT ![q] = "failed"]
          /\ trail' = trail /\ asked' = asked /\ stage[q] \notin Ended
      BY <1>8 DEF Answer, DatabaseFails, Finish, Ended
    <2>2. /\ outcome'[q] = {} /\ stage'[q] \in Ended
          /\ \A o \in Requests : o # q => stage'[o] = stage[o] /\ outcome'[o] = outcome[o]
      BY <1>1, <2>1 DEF Ended
    <2>3. QED
      BY <2>1, <2>2, QuietTrail
  <1>9. ASSUME NEW q \in Requests, NEW x \in Questions, Send(q, x)
        PROVE  TrailInv'
    <2>1. /\ trail' = trail /\ outcome' = outcome
          /\ stage[q] = "unsent" /\ stage'[q] = "mappings"
          /\ \A o \in Requests : o # q => stage'[o] = stage[o] /\ asked'[o] = asked[o]
      BY <1>1, <1>9 DEF Send
    <2>2. outcome[q] = {}
      BY <2>1 DEF TrailInv
    <2>3. QED
      BY <2>1, <2>2, QuietTrail DEF Ended
  <1>10. CASE Crash
    <2>1. /\ trail' = trail /\ asked' = asked
          /\ \A q \in Requests : outcome'[q] = {}
          /\ \A q \in Requests : stage'[q] = IF stage[q] \in Waiting \cup {"model"} THEN "failed" ELSE stage[q]
      BY <1>10 DEF Crash
    <2>2. \A q \in Requests : stage[q] \in {"answer"} \cup Ended => stage'[q] \in Ended
      BY <2>1 DEF Waiting, Ended
    <2>3. \A q \in Requests : stage'[q] \notin {"answer", "model"}
      BY <1>1, <2>1 DEF Waiting, Ended
    <2>4. QED
      BY <2>1, <2>2, <2>3 DEF TrailInv, Ended
  <1>11. ASSUME NEW q \in Requests, Commit(q)
         PROVE  TrailInv'
    BY <1>11, CommitOnTrail
  <1>12. ASSUME \/ \E a \in Analyses : StoreFindings(a) \/ StoreMappings(a)
                \/ \E u \in Titles : Rename(u)
         PROVE  UNCHANGED serverVars
    BY <1>12 DEF StoreFindings, StoreMappings, Rename
  <1>13. ASSUME NEW p \in Panels, Disconnect(p) \/ Leave(p)
         PROVE  UNCHANGED serverVars
    BY <1>13 DEF Disconnect, Leave
  <1>14. CASE UNCHANGED vars
    BY <1>2, <1>14 DEF vars
  <1>15. QED
    BY <1>2, <1>3, <1>5, <1>6, <1>7, <1>8, <1>9, <1>10, <1>11, <1>12, <1>13, <1>14
       DEF Next, Handle

\* Nothing is taken off the trail.
LEMMA TrailGrows ==
    ASSUME [Next]_vars
    PROVE  trail \subseteq trail'
  BY DEF Next, Handle, ReadMappings, ReadFindings, RefuseTarget, Invoke, ModelFails, Commit,
         Reply, Answer, DatabaseFails, Send, Disconnect, Leave, Crash, StoreFindings,
         StoreMappings, Rename, serverVars, vars

\* The same of a message, after a step.
StillOnTrail(m) ==
    /\ m.status = "SUCCESS" =>
          /\ <<m.request, "success">> \in trail'
          /\ \A x \in asked'[m.request] : x.kind \notin {"hypothesis", "root_cause", "impact"}
    /\ m.status \in {"LLM_UNGROUNDED", "LLM_INVALID_RESPONSE"} => <<m.request, "failure">> \in trail'

\* A message that is on the trail stays so.
LEMMA MessageStays ==
    ASSUME TypeInv, [Next]_vars, NEW m \in Message, stage[m.request] # "unsent", OnTrail(m)
    PROVE  stage'[m.request] # "unsent" /\ StillOnTrail(m)
  <1>1. m.request \in Requests
    BY DEF Message
  <1>2. stage'[m.request] # "unsent" /\ asked'[m.request] = asked[m.request]
    BY <1>1, SentStays DEF TypeInv, ServerInv
  <1>3. QED
    BY <1>2, TrailGrows DEF OnTrail, StillOnTrail, Explained

\* What the panels show stays on the trail, and what they are told is.
LEMMA ShownPreserved ==
    ASSUME TypeInv, TrailInv, ShownInv, [Next]_vars
    PROVE  ShownInv'
  <1>1. ASSUME NEW p \in Panels, NEW i \in DOMAIN messages'[p]
        PROVE  stage'[messages'[p][i].request] # "unsent" /\ StillOnTrail(messages'[p][i])
    <2>1. messages[p] \in Seq(Message) /\ pending[p] \subseteq Requests
      BY DEF TypeInv, TypeOK, PanelsTyped
    <2>2. \A j \in 1..Len(messages[p]) :
              /\ messages[p][j] \in Message
              /\ stage[messages[p][j].request] # "unsent" /\ OnTrail(messages[p][j])
      BY <2>1 DEF ShownInv
    <2>3. \A j \in 1..Len(messages[p]) :
              stage'[messages[p][j].request] # "unsent" /\ StillOnTrail(messages[p][j])
      BY <2>2, MessageStays
    <2>4. PanelStep(p)
      BY PanelMoves DEF PanelsStep
    <2>5. ASSUME NEW m \in Message, messages'[p] = Append(messages[p], m),
                 stage'[m.request] # "unsent", StillOnTrail(m)
          PROVE  stage'[messages'[p][i].request] # "unsent" /\ StillOnTrail(messages'[p][i])
      <3>1. /\ DOMAIN messages'[p] = 1..(Len(messages[p]) + 1)
            /\ messages'[p][Len(messages[p]) + 1] = m
            /\ \A j \in 1..Len(messages[p]) : messages'[p][j] = messages[p][j]
        BY <2>1, <2>5, Appended
      <3>2. CASE i = Len(messages[p]) + 1
        <4>1. messages'[p][i] = m
          BY <3>1, <3>2
        <4>2. QED
          BY <2>5, <4>1
      <3>3. CASE i # Len(messages[p]) + 1
        <4>1. i \in 1..Len(messages[p])
          BY <2>1, <3>1, <3>3
        <4>2. messages'[p][i] = messages[p][i]
          BY <3>1, <4>1
        <4>3. QED
          BY <2>3, <4>1, <4>2
      <3>4. QED
        BY <3>2, <3>3
    <2>6. CASE Same(p)
      <3>1. messages'[p] = messages[p] /\ i \in 1..Len(messages[p])
        BY <2>1, <2>6 DEF Same
      <3>2. QED
        BY <2>3, <3>1
    <2>7. CASE Emptied(p)
      BY <2>7 DEF Emptied
    <2>8. ASSUME NEW q \in Requests, AskedBy(p, q)
          PROVE  stage'[messages'[p][i].request] # "unsent" /\ StillOnTrail(messages'[p][i])
      <3>1. PICK m : m = [role |-> "user", request |-> q, status |-> ""]
        OBVIOUS
      <3>2. m \in Message /\ m.request = q /\ m.status = ""
        BY <3>1 DEF Message
      <3>3. messages'[p] = Append(messages[p], m) /\ stage'[q] # "unsent"
        BY <2>8, <3>1 DEF AskedBy
      <3>4. StillOnTrail(m)
        BY <3>2 DEF StillOnTrail
      <3>5. QED
        BY <2>5, <3>2, <3>3, <3>4
    <2>9. ASSUME NEW q \in pending[p], NEW status \in Statuses, Told(p, q, status)
          PROVE  stage'[messages'[p][i].request] # "unsent" /\ StillOnTrail(messages'[p][i])
      <3>1. PICK m : m = [role |-> "assistant", request |-> q, status |-> status]
        OBVIOUS
      <3>2. m \in Message /\ m.request = q /\ m.status = status
        BY <2>1, <3>1 DEF Message
      <3>3. messages'[p] = Append(messages[p], m)
        BY <2>9, <3>1 DEF Told
      <3>4. stage[q] # "unsent"
        BY DEF TypeInv, PanelsTyped
      <3>5. OnTrail(m)
        <4>1. CASE status = "LLM_UNAVAILABLE"
          BY <3>2, <4>1 DEF OnTrail
        <4>2. ASSUME NEW r \in outcome[q], status = r.status, stage[q] = "answer"
              PROVE  OnTrail(m)
          <5>1. <<q, Result(r)>> \in trail
            BY <2>1, <4>2 DEF TrailInv
          <5>2. r.status = "SUCCESS" => Explained(q)
            BY <2>1 DEF TrailInv
          <5>3. QED
            BY <3>2, <4>2, <5>1, <5>2 DEF OnTrail, Result
        <4>3. QED
          BY <2>9, <4>1, <4>2 DEF Told
      <3>6. stage'[m.request] # "unsent" /\ StillOnTrail(m)
        BY <3>2, <3>4, <3>5, MessageStays
      <3>7. QED
        BY <2>5, <3>2, <3>3, <3>6
    <2>10. QED
      BY <2>4, <2>6, <2>7, <2>8, <2>9 DEF PanelStep
  <1>2. QED
    BY <1>1 DEF ShownInv, OnTrail, StillOnTrail, Explained

\* Every answer that a panel shows is on the trail with its result, no request is on it
\* twice, and no hypothesis, root cause or impact is ever explained.
THEOREM AnswersStayOnTrail == Spec => []AnswersAreOnTrail
  <1>1. Init => TrailInv /\ ShownInv
    BY DEF Init, TrailInv, ShownInv
  <1>2. TypeInv /\ TrailInv /\ ShownInv /\ [Next]_vars => (TrailInv /\ ShownInv)'
    BY TrailPreserved, ShownPreserved
  <1>3. TrailInv /\ ShownInv => AnswersAreOnTrail
    BY DEF TrailInv, ShownInv, OnTrail, Explained, AnswersAreOnTrail
  <1>4. QED
    BY <1>1, <1>2, <1>3, TypeCorrect, PTL DEF Spec

-----------------------------------------------------------------------------
(***************************************************************************)
(* Grounding.  A response is grounded in the context it was compared with; *)
(* the tables only grow, so what is grounded in the context of a request   *)
(* is grounded in the case, then and later.                                *)
(***************************************************************************)

PointGrounded(p, fs, ms) ==
    /\ p.findings \in Seq(Citable) /\ p.techniques \in Seq(Citable)
    /\ p.evidence = {}
    /\ ToSet(p.findings) \subseteq fs /\ ToSet(p.techniques) \subseteq DOMAIN ms
    /\ p.techniques # <<>> /\ p.confidence # {} => p.confidence = {ms[Last(p.techniques)].confidence}
    /\ p.techniques = <<>> /\ p.findings # <<>> /\ p.confidence # {} =>
          p.confidence = {Confidence[Last(p.findings)]}
    /\ p.techniques # <<>> => p.status \subseteq {"SUPPORTED"}

Grounded(r, fs, ms, ts) ==
    r.status = "SUCCESS" =>
        /\ r.claims # {} => (fs \cup ts \cup Rationales(ms)) \cap Suspected # {}
        /\ \A i \in DOMAIN r.points : PointGrounded(r.points[i], fs, ms)

Extends(ns, ms) == DOMAIN ms \subseteq DOMAIN ns /\ \A t \in DOMAIN ms : ns[t] = ms[t]

\* The last element of a sequence that is not empty is one of its elements.
LEMMA LastIsElement ==
    ASSUME NEW S, NEW seq \in Seq(S), seq # <<>>
    PROVE  Last(seq) \in ToSet(seq)
  <1>1. Len(seq) \in DOMAIN seq
    BY EmptySeq
  <1>2. QED
    BY <1>1 DEF Last, ToSet

\* Grounding survives the growth of what a response is grounded in.
LEMMA GroundingGrows ==
    ASSUME NEW r, NEW fs, NEW ms, NEW gs, NEW ns,
           NEW ts, NEW us,
           Grounded(r, fs, ms, ts), fs \subseteq gs, Extends(ns, ms), ts \subseteq us
    PROVE  Grounded(r, gs, ns, us)
  <1>1. ASSUME NEW p, PointGrounded(p, fs, ms)
        PROVE  PointGrounded(p, gs, ns)
    <2>1. p.techniques # <<>> => ns[Last(p.techniques)] = ms[Last(p.techniques)]
      <3>1. SUFFICES ASSUME p.techniques # <<>>
                     PROVE  ns[Last(p.techniques)] = ms[Last(p.techniques)]
        OBVIOUS
      <3>2. Last(p.techniques) \in ToSet(p.techniques)
        BY <1>1, <3>1, LastIsElement DEF PointGrounded
      <3>3. QED
        BY <1>1, <3>2 DEF PointGrounded, Extends
    <2>2. QED
      BY <1>1, <2>1 DEF PointGrounded, Extends
  <1>2. Rationales(ms) \subseteq Rationales(ns)
    BY DEF Rationales, Extends
  <1>3. QED
    BY <1>1, <1>2 DEF Grounded

\* A trusted point is grounded once its figures are corrected.
LEMMA CorrectedIsGrounded ==
    ASSUME NEW p \in Point, NEW c, Trusted(p, c)
    PROVE  PointGrounded(Corrected(p, c), c.findings, c.mappings)
  <1>1. /\ p.findings \in Seq(Citable) /\ p.techniques \in Seq(Citable)
        /\ p.evidence = {}
        /\ ToSet(p.findings) \subseteq c.findings /\ ToSet(p.techniques) \subseteq DOMAIN c.mappings
    BY DEF Trusted, TrustedEvidence, Point
  <1>2. /\ Corrected(p, c).findings = p.findings
        /\ Corrected(p, c).techniques = p.techniques
        /\ Corrected(p, c).evidence = p.evidence
        /\ Corrected(p, c).status =
              IF p.status = {} \/ p.findings # <<>> THEN {}
              ELSE IF p.techniques # <<>> THEN {"SUPPORTED"} ELSE p.status
        /\ Corrected(p, c).confidence =
              IF p.confidence = {} THEN {}
              ELSE IF p.techniques # <<>> THEN {c.mappings[Last(p.techniques)].confidence}
              ELSE IF p.findings # <<>> THEN {Confidence[Last(p.findings)]} ELSE p.confidence
    BY DEF Corrected, Point
  <1> HIDE DEF Point
  <1>3. QED
    BY <1>1, <1>2 DEF PointGrounded

\* The points of a reply are points, also where the summary becomes one.
LEMMA NormalizedTyped ==
    ASSUME NEW r \in Replies, NEW i \in DOMAIN Normalized(r)
    PROVE  Normalized(r)[i] \in Point
  <1>1. r.points \in Seq(Point)
    BY CopilotAssumption DEF Point
  <1>2. Uncited \in Point
    <2>1. <<>> \in Seq(Citable)
      OBVIOUS
    <2>2. QED
      BY <2>1 DEF Uncited, Point
  <1>3. CASE Normalized(r) = <<Uncited>>
    BY <1>2, <1>3
  <1>4. CASE Normalized(r) = r.points
    BY <1>1, <1>4
  <1>5. QED
    BY <1>3, <1>4 DEF Normalized

\* Whatever the model replies, the response is grounded in the context.
LEMMA ResponseGrounded ==
    ASSUME NEW r \in Replies, NEW c
    PROVE  Grounded(Response(r, c), c.findings, c.mappings, c.texts)
  <1>1. ASSUME Response(r, c).status = "SUCCESS"
        PROVE  /\ \A i \in DOMAIN Normalized(r) : Trusted(Normalized(r)[i], c)
               /\ (r.claims \cap Markdown(r)) = {} \/ Mentioned(c)
               /\ Response(r, c).claims = r.claims \cap Markdown(r)
               /\ Response(r, c).points =
                     [i \in DOMAIN Normalized(r) |-> Corrected(Normalized(r)[i], c)]
    BY <1>1 DEF Response, Unanswered
  <1>2. ASSUME Response(r, c).status = "SUCCESS", NEW i \in DOMAIN Response(r, c).points
        PROVE  PointGrounded(Response(r, c).points[i], c.findings, c.mappings)
    <2>1. i \in DOMAIN Normalized(r)
      BY <1>1, <1>2
    <2>2. Response(r, c).points[i] = Corrected(Normalized(r)[i], c)
      BY <1>1, <1>2, <2>1
    <2>3. Normalized(r)[i] \in Point /\ Trusted(Normalized(r)[i], c)
      BY <1>1, <1>2, <2>1, NormalizedTyped
    <2>4. QED
      BY <2>2, <2>3, CorrectedIsGrounded
  <1>3. Response(r, c).status = "SUCCESS" =>
            (Response(r, c).claims # {} =>
                (c.findings \cup c.texts \cup Rationales(c.mappings)) \cap Suspected # {})
    BY <1>1 DEF Mentioned
  <1>4. QED
    BY <1>2, <1>3 DEF Grounded

\* What has been written about the case.
Written == Texts \cup ToSet(titles)

GroundInv ==
    \A q \in Requests :
        /\ context[q].findings \subseteq Findings
        /\ Extends(mappings, context[q].mappings)
        /\ context[q].texts \subseteq Written
        /\ \A r \in outcome[q] : Grounded(r, Findings, mappings, Written)

CaseLarger ==
    Findings \subseteq Findings' /\ Extends(mappings', mappings) /\ Written \subseteq Written'

\* Findings, mappings and what has been written are never taken away or changed.
LEMMA CaseGrows ==
    ASSUME TypeInv, [Next]_vars
    PROVE  CaseLarger
  <1>1. CASE UNCHANGED dataVars
    BY <1>1 DEF CaseLarger, dataVars, Findings, Extends, Written, Texts
  <1>2. ASSUME NEW a \in Analyses, StoreFindings(a)
        PROVE  CaseLarger
    BY <1>2 DEF CaseLarger, StoreFindings, Findings, Extends, Written, Texts
  <1>3. ASSUME NEW a \in Analyses, StoreMappings(a)
        PROVE  CaseLarger
    BY <1>3 DEF CaseLarger, StoreMappings, Findings, Extends, Written, Texts
  <1>4. ASSUME NEW q \in Requests,
               \/ ReadMappings(q) \/ ReadFindings(q) \/ RefuseTarget(q) \/ Invoke(q)
               \/ ModelFails(q) \/ Commit(q) \/ Answer(q) \/ DatabaseFails(q)
               \/ (\E r \in Replies : Reply(q, r)) \/ (\E x \in Questions : Send(q, x))
        PROVE  UNCHANGED dataVars
    BY <1>4 DEF ReadMappings, ReadFindings, RefuseTarget, Invoke, ModelFails, Commit, Reply,
          Answer, DatabaseFails, Send
  <1>5. ASSUME Crash \/ \E p \in Panels : Disconnect(p) \/ Leave(p)
        PROVE  UNCHANGED dataVars
    BY <1>5 DEF Crash, Disconnect, Leave
  <1>6. ASSUME NEW u \in Titles, Rename(u)
        PROVE  CaseLarger
    <2>1. ToSet(titles) \subseteq ToSet(Append(titles, u))
      <3>1. titles \in Seq(Titles)
        BY DEF TypeInv, TypeOK
      <3>2. QED
        BY <3>1, AppendProperties DEF ToSet
    <2>2. QED
      BY <1>6, <2>1 DEF CaseLarger, Rename, Findings, Extends, Written, Texts
  <1>7. QED
    BY <1>1, <1>2, <1>3, <1>4, <1>5, <1>6 DEF Next, Handle, vars

\* What a step does to the context and the outcome of a request: nothing; clear them;
\* read from the tables; or put a grounded response there.
ContextKept(q) == context'[q] = context[q] \/ context'[q] = Nothing
ContextRead(q) ==
    \/ /\ context'[q].mappings = mappings /\ context'[q].findings = {}
       /\ context'[q].texts \subseteq Written
    \/ /\ context'[q].mappings = context[q].mappings /\ context'[q].findings = Findings
       /\ context'[q].texts \subseteq context[q].texts \cup Written
Answered(q) ==
    \E r : /\ outcome'[q] = {r}
           /\ Grounded(r, context[q].findings, context[q].mappings, context[q].texts)
RequestStep(q) ==
    /\ ContextKept(q) \/ ContextRead(q)
    /\ outcome'[q] = outcome[q] \/ outcome'[q] = {} \/ Answered(q)

\* Every step does one of these to each request.
LEMMA RequestMoves ==
    ASSUME TypeInv, [Next]_vars, NEW q \in Requests
    PROVE  RequestStep(q)
  <1> USE DEF RequestStep, ContextKept, ContextRead
  <1>1. /\ DOMAIN context = Requests /\ DOMAIN outcome = Requests
        /\ DOMAIN context[q] = {"mappings", "findings", "texts"}
    BY DEF TypeInv, ServerTyped
  <1>2. CASE context' = context /\ outcome' = outcome
    BY <1>2
  <1>3. ASSUME NEW o \in Requests, ReadMappings(o)
        PROVE  RequestStep(q)
    BY <1>1, <1>3 DEF ReadMappings, Assembled, Written
  <1>4. ASSUME NEW o \in Requests, ReadFindings(o)
        PROVE  RequestStep(q)
    <2>1. titles \in Seq(Titles) /\ titles # <<>>
      BY DEF TypeInv, TypeOK
    <2>2. Last(titles) \in Written
      BY <2>1, LastIsElement DEF Written
    <2>3. QED
      BY <1>1, <1>4, <2>2 DEF ReadFindings, Assembled
  <1>5. ASSUME NEW o \in Requests, NEW r, Respond(o, r),
               Grounded(r, context[o].findings, context[o].mappings, context[o].texts)
        PROVE  RequestStep(q)
    <2>1. /\ outcome' = [outcome EXCEPT ![o] = {r}]
          /\ context' = [context EXCEPT ![o] = Nothing]
      BY <1>5 DEF Respond
    <2>2. CASE o = q
      <3>1. outcome'[q] = {r} /\ context'[q] = Nothing
        BY <1>1, <2>1, <2>2
      <3>2. Answered(q)
        BY <1>5, <2>2, <3>1 DEF Answered
      <3>3. QED
        BY <3>1, <3>2
    <2>3. CASE o # q
      BY <1>1, <2>1, <2>3
    <2>4. QED
      BY <2>2, <2>3
  <1>6. ASSUME NEW o \in Requests, RefuseTarget(o) \/ ModelFails(o)
        PROVE  RequestStep(q)
    <2>1. Grounded(Unanswered("LLM_INVALID_RESPONSE"), context[o].findings, context[o].mappings,
                   context[o].texts)
      BY DEF Grounded, Unanswered
    <2>2. QED
      BY <1>5, <1>6, <2>1 DEF RefuseTarget, ModelFails
  <1>7. ASSUME NEW o \in Requests, NEW r \in Replies, Reply(o, r)
        PROVE  RequestStep(q)
    BY <1>5, <1>7, ResponseGrounded DEF Reply
  <1>8. ASSUME NEW o \in Requests, Answer(o) \/ DatabaseFails(o)
        PROVE  RequestStep(q)
    <2>1. /\ outcome' = [outcome EXCEPT ![o] = {}]
          /\ context' = [context EXCEPT ![o] = Nothing]
      BY <1>8 DEF Answer, DatabaseFails, Finish
    <2>2. QED
      BY <1>1, <2>1
  <1>9. CASE Crash
    BY <1>9 DEF Crash
  <1>10. ASSUME NEW o \in Requests,
                Invoke(o) \/ Commit(o) \/ \E x \in Questions : Send(o, x)
         PROVE  context' = context /\ outcome' = outcome
    BY <1>10 DEF Invoke, Commit, Send
  <1>11. ASSUME \/ \E p \in Panels : Disconnect(p) \/ Leave(p)
                \/ \E a \in Analyses : StoreFindings(a) \/ StoreMappings(a)
                \/ \E u \in Titles : Rename(u)
                \/ UNCHANGED vars
         PROVE  context' = context /\ outcome' = outcome
    BY <1>11 DEF Disconnect, Leave, StoreFindings, StoreMappings, Rename, serverVars, vars
  <1>12. QED
    BY <1>2, <1>3, <1>4, <1>6, <1>7, <1>8, <1>9, <1>10, <1>11 DEF Next, Handle

\* Contexts stay true of the case, and responses grounded in it.
LEMMA GroundPreserved ==
    ASSUME TypeInv, GroundInv, [Next]_vars
    PROVE  GroundInv'
  <1>1. Findings \subseteq Findings' /\ Extends(mappings', mappings) /\ Written \subseteq Written'
    BY CaseGrows DEF CaseLarger
  <1>2. ASSUME NEW q \in Requests
        PROVE  /\ context'[q].findings \subseteq Findings'
               /\ Extends(mappings', context'[q].mappings)
               /\ context'[q].texts \subseteq Written'
    <2>1. RequestStep(q)
      BY RequestMoves
    <2>2. Nothing.findings = {} /\ Extends(mappings', Nothing.mappings) /\ Nothing.texts = {}
      BY DEF Nothing, Assembled, Extends
    <2>3. /\ context[q].findings \subseteq Findings' /\ Extends(mappings', context[q].mappings)
          /\ context[q].texts \subseteq Written'
      BY <1>1 DEF GroundInv, Extends
    <2>4. CASE ContextKept(q)
      BY <2>2, <2>3, <2>4 DEF ContextKept
    <2>5. CASE ContextRead(q)
      BY <1>1, <2>3, <2>5 DEF ContextRead
    <2>6. QED
      BY <2>1, <2>4, <2>5 DEF RequestStep
  <1>3. ASSUME NEW q \in Requests, NEW r \in outcome'[q]
        PROVE  Grounded(r, Findings', mappings', Written')
    <2>1. RequestStep(q)
      BY RequestMoves
    <2>2. CASE r \in outcome[q]
      <3>1. Grounded(r, Findings, mappings, Written)
        BY <2>2 DEF GroundInv
      <3>2. QED
        BY <1>1, <3>1, GroundingGrows
    <2>3. CASE Answered(q)
      <3>1. Grounded(r, context[q].findings, context[q].mappings, context[q].texts)
        BY <1>3, <2>3 DEF Answered
      <3>2. /\ context[q].findings \subseteq Findings' /\ Extends(mappings', context[q].mappings)
            /\ context[q].texts \subseteq Written'
        BY <1>1 DEF GroundInv, Extends
      <3>3. QED
        BY <3>1, <3>2, GroundingGrows
    <2>4. QED
      BY <1>3, <2>1, <2>2, <2>3 DEF RequestStep
  <1>4. QED
    BY <1>2, <1>3 DEF GroundInv, Grounded, PointGrounded, Extends, Rationales, Written

\* Whatever the model replies and whatever is stored meanwhile, a successful response
\* cites rows of the case only, with their figures, and calls something known malicious
\* only where something that was stored of the case speaks of malice.
THEOREM ResponsesAreGrounded == Spec => []PointsAreGrounded
  <1>1. Init => GroundInv
    BY DEF Init, GroundInv, Nothing, Assembled, Extends
  <1>2. TypeInv /\ GroundInv /\ [Next]_vars => GroundInv'
    BY GroundPreserved
  <1>3. GroundInv => PointsAreGrounded
    BY DEF GroundInv, Grounded, PointGrounded, PointsAreGrounded, Written
  <1>4. QED
    BY <1>1, <1>2, <1>3, TypeCorrect, PTL DEF Spec

==============================================================================
