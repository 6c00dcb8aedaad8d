----------------------- MODULE EvidenceStore_proofs -----------------------
(***************************************************************************)
(* Proofs about EvidenceStore, for any sets of requests, readers, cases    *)
(* and contents, any batches, and any FaultSets.                           *)
(***************************************************************************)
EXTENDS EvidenceStore, FiniteSetTheorems, TLAPS

(***************************************************************************)
(* Identifiers: one for each file of each batch.                           *)
(***************************************************************************)

\* A request and a position of its batch make an identifier, and its content is the
\* file at that position.
LEMMA PairIsId ==
    ASSUME NEW r \in Requests, NEW i \in 1..Len(Batch[r])
    PROVE  /\ <<r, i>> \in Ids
           /\ ContentOf(<<r, i>>) = Batch[r][i]
  <1>1. <<r, i>> \in {r} \X (1..Len(Batch[r]))
    OBVIOUS
  <1>2. <<r, i>> \in Ids
    BY <1>1 DEF Ids
  <1>3. QED
    BY <1>2 DEF ContentOf

\* The file a request works on has an identifier as long as the batch is not done.
LEMMA CurrentIsId ==
    ASSUME NEW r \in Requests, position[r] \in Nat \ {0}, Pending(r)
    PROVE  /\ Current(r) \in Ids
           /\ ContentOf(Current(r)) = Batch[r][position[r]]
  <1>1. Len(Batch[r]) \in Nat
    BY EvidenceStoreAssumption
  <1>2. position[r] \in 1..Len(Batch[r])
    BY <1>1 DEF Pending
  <1>3. QED
    BY <1>2, PairIsId DEF Current

-----------------------------------------------------------------------------
(***************************************************************************)
(* Type correctness.  It is inductive once it also says that a request in  *)
(* the middle of a file still has a file to work on, and that a reader     *)
(* works on one row, which exists, and has a verdict when it is about to   *)
(* write it.                                                               *)
(***************************************************************************)

Busy == {"store", "persist", "orphan", "restore", "relink"}

TypeInv ==
    /\ TypeOK
    /\ \A r \in Requests : pc[r] \in Busy => Pending(r)
    /\ \A v \in Readers : target[v] \subseteq Evidence
    /\ \A v \in Readers : \A a, b \in target[v] : a = b
    /\ \A v \in Readers : rpc[v] = "observed" => seen[v] \in Verdicts

\* The initial state has the types of TypeOK.
LEMMA InitTypeInv == Init => TypeInv
  BY EvidenceStoreAssumption DEF Init, TypeInv, TypeOK, TablesTyped, Busy, Finished, Evidence, Verdicts

\* The transaction that records a file writes rows of the right types.
LEMMA CommitTyped ==
    ASSUME TypeInv, NEW r \in Requests, pc[r] = "persist", CommitMetadata(r), verdicts' = verdicts
    PROVE  TablesTyped' /\ Evidence \subseteq Evidence'
  <1>1. Current(r) \in Ids
    BY CurrentIsId DEF TypeInv, TypeOK, Busy
  <1>2. CaseOf[r] \in Cases
    BY EvidenceStoreAssumption
  <1>3. acquisitions' \subseteq Ids
    BY <1>1 DEF CommitMetadata, TypeInv, TypeOK, TablesTyped
  <1>4. /\ Evidence' = Evidence \cup {Current(r)}
        /\ integrity' \in [Evidence' -> Verdicts \cup {"pending"}]
    BY DEF CommitMetadata, TypeInv, TypeOK, TablesTyped, Evidence
  <1>5. <<CaseOf[r], Current(r)>> \in Cases \X Ids
    BY <1>1, <1>2
  <1>6. links' \subseteq Cases \X Ids
    BY <1>5 DEF CommitMetadata, TypeInv, TypeOK, TablesTyped
  <1>7. /\ <<"ACQUISITION_CREATED", Current(r)>> \in {"ACQUISITION_CREATED"} \X Ids
        /\ <<"EVIDENCE_STORED", Current(r)>> \in {"EVIDENCE_STORED"} \X Ids
    BY <1>1
  <1>8. QED
    BY <1>1, <1>3, <1>4, <1>6, <1>7 DEF CommitMetadata, TypeInv, TypeOK, TablesTyped

\* Every step of an upload request keeps the types.
LEMMA UploadTypeInv ==
    ASSUME TypeInv, NEW r \in Requests, Arrive(r) \/ Upload(r)
    PROVE  TypeInv'
  <1> USE DEF TypeInv, TypeOK, TablesTyped, Busy, Finished, Evidence, Verdicts, Goto, Pending,
              readerVars, tableVars, bucketVars
  <1>1. CASE Arrive(r)
    BY <1>1 DEF Arrive
  <1>2. CASE Refuse(r)
    BY <1>2 DEF Refuse, Fail
  <1>3. CASE Lookup(r)
    BY <1>3 DEF Lookup, WithDigest
  <1>4. CASE LookupFails(r)
    BY <1>4 DEF LookupFails, Fail
  <1>5. CASE Store(r)
    BY <1>5, CurrentIsId DEF Store, Put
  <1>6. CASE StoreFails(r)
    BY <1>6, CurrentIsId DEF StoreFails, Put, Fail
  <1>7. CASE Persist(r)
    <2>1. pc[r] = "persist"
      BY <1>7 DEF Persist
    <2>2. CommitMetadata(r) /\ verdicts' = verdicts
      BY <1>7 DEF Persist
    <2>3. TablesTyped' /\ Evidence \subseteq Evidence'
      BY <2>1, <2>2, CommitTyped
    <2>4. \A v \in Readers : target'[v] \subseteq Evidence'
      BY <1>7, <2>3 DEF Persist
    <2> HIDE DEF Evidence
    <2>5. QED
      BY <1>7, <2>3, <2>4 DEF Persist
  <1>8. CASE PersistFails(r)
    <2>1. pc[r] = "persist" /\ ((CommitMetadata(r) /\ verdicts' = verdicts) \/ UNCHANGED tableVars)
      BY <1>8 DEF PersistFails
    <2>2. CASE CommitMetadata(r) /\ verdicts' = verdicts
      <3>1. TablesTyped' /\ Evidence \subseteq Evidence'
        BY <2>1, <2>2, CommitTyped
      <3>2. \A v \in Readers : target'[v] \subseteq Evidence'
        BY <1>8, <3>1 DEF PersistFails
      <3> HIDE DEF Evidence
      <3>3. QED
        BY <1>8, <3>1, <3>2 DEF PersistFails
    <2>3. CASE UNCHANGED tableVars
      BY <1>8, <2>1, <2>3 DEF PersistFails
    <2>4. QED
      BY <2>1, <2>2, <2>3
  <1>9. CASE RecordOrphan(r)
    BY <1>9, CurrentIsId DEF RecordOrphan
  <1>10. CASE RecordOrphanFails(r)
    BY <1>10 DEF RecordOrphanFails, Fail
  <1>11. CASE Restore(r)
    BY <1>11 DEF Restore, Put
  <1>12. CASE RestoreFails(r)
    BY <1>12 DEF RestoreFails
  <1>13. CASE Relink(r)
    <2>1. CaseOf[r] \in Cases /\ found[r] \subseteq Ids
      BY EvidenceStoreAssumption
    <2>2. {CaseOf[r]} \X found[r] \subseteq Cases \X Ids
      BY <2>1
    <2>3. QED
      BY <1>13, <2>2 DEF Relink
  <1>14. CASE RelinkFails(r)
    <2>1. CaseOf[r] \in Cases /\ found[r] \subseteq Ids
      BY EvidenceStoreAssumption
    <2>2. {CaseOf[r]} \X found[r] \subseteq Cases \X Ids
      BY <2>1
    <2>3. QED
      BY <1>14, <2>2 DEF RelinkFails
  <1>15. CASE Answer(r)
    BY <1>15 DEF Answer
  <1>16. QED
    BY <1>1, <1>2, <1>3, <1>4, <1>5, <1>6, <1>7, <1>8, <1>9, <1>10, <1>11, <1>12,
       <1>13, <1>14, <1>15 DEF Upload

\* Every step of a reader keeps the types.
LEMMA ReaderTypeInv ==
    ASSUME TypeInv, NEW v \in Readers, Open(v) \/ OpenFails(v) \/ Read(v)
    PROVE  TypeInv'
  <1> USE DEF TypeInv, TypeOK, TablesTyped, Busy, Finished, Evidence, Verdicts, Pending,
              ReaderGoto, requestVars, tableVars, bucketVars
  <1>1. CASE Open(v)
    <2>1. PICK operation \in Asks[v], id \in Evidence :
              /\ asked' = [asked EXCEPT ![v] = operation]
              /\ target' = [target EXCEPT ![v] = {id}]
              /\ audit' = audit \cup {<<"EVIDENCE_VIEWED", id>>}
              /\ ReaderGoto(v, IF ~ResolvesToOneCase(id) THEN "failed"
                               ELSE IF operation = "view" THEN "recorded" ELSE "opened")
      BY <1>1 DEF Open
    <2>2. operation \in Operations
      BY EvidenceStoreAssumption
    <2>3. QED
      BY <1>1, <2>1, <2>2 DEF Open
  <1>2. CASE Reload(v) \/ Observe(v)
    <2>1. CASE Reload(v)
      <3>1. \A id \in target[v] : integrity[id] \in Verdicts \cup {"pending"}
        OBVIOUS
      <3>2. loaded' \in [Readers -> Verdicts \cup {"pending"}]
        BY <2>1, <3>1 DEF Reload
      <3>3. QED
        BY <2>1, <3>2 DEF Reload
    <2>2. CASE Observe(v)
      BY <2>2 DEF Observe, Inspect
    <2>3. QED
      BY <1>2, <2>1, <2>2
  <1>3. CASE ObserveFails(v)
    <2>1. CASE seen' = [seen EXCEPT ![v] = "missing"] /\ ReaderGoto(v, "observed")
      BY <1>3, <2>1 DEF ObserveFails
    <2>2. CASE ReaderGoto(v, "failed") /\ UNCHANGED seen
      BY <1>3, <2>2 DEF ObserveFails
    <2>3. QED
      BY <1>3, <2>1, <2>2 DEF ObserveFails
  <1>4. ASSUME CommitReading(v), rpc[v] = "observed",
               UNCHANGED <<asked, target, loaded, seen, acquisitions, links, requestVars, bucketVars>>,
               \E label \in {"recorded", "failed"} : ReaderGoto(v, label)
        PROVE  TypeInv'
    <2>1. seen[v] \in Verdicts /\ target[v] \subseteq Ids
      BY <1>4
    <2>2. integrity' \in [Evidence' -> Verdicts \cup {"pending"}] /\ Evidence' = Evidence
      BY <1>4, <2>1 DEF CommitReading
    <2>3. verdicts' \subseteq Ids \X Verdicts
      <3>1. target[v] \X {seen[v]} \subseteq Ids \X Verdicts
        BY <2>1
      <3>2. QED
        BY <1>4, <3>1 DEF CommitReading
    <2>4. /\ audit' \subseteq {"ACQUISITION_CREATED", "EVIDENCE_STORED", "EVIDENCE_ORPHANED",
                              "EVIDENCE_VIEWED", "EVIDENCE_EXPORTED"} \X Ids
      <3>1. {"EVIDENCE_EXPORTED"} \X target[v] \subseteq {"EVIDENCE_EXPORTED"} \X Ids
        BY <2>1
      <3>2. QED
        BY <1>4, <3>1 DEF CommitReading
    <2>5. QED
      BY <1>4, <2>2, <2>3, <2>4
  <1>5. CASE Record(v)
    BY <1>4, <1>5 DEF Record
  <1>6. CASE RecordFails(v)
    <2>1. CASE CommitReading(v) /\ rpc[v] = "observed"
      BY <1>4, <1>6, <2>1 DEF RecordFails
    <2>2. CASE UNCHANGED <<integrity, audit, verdicts>>
      BY <1>6, <2>2 DEF RecordFails
    <2>3. QED
      BY <1>6, <2>1, <2>2 DEF RecordFails
  <1>7. CASE Respond(v)
    BY <1>7 DEF Respond
  <1>8. CASE OpenFails(v)
    <2>1. PICK operation \in Asks[v], id \in Evidence :
              /\ asked' = [asked EXCEPT ![v] = operation]
              /\ target' = [target EXCEPT ![v] = {id}]
              /\ audit' = audit \/ audit' = audit \cup {<<"EVIDENCE_VIEWED", id>>}
      BY <1>8 DEF OpenFails
    <2>2. operation \in Operations
      BY EvidenceStoreAssumption
    <2>3. QED
      BY <1>8, <2>1, <2>2 DEF OpenFails
  <1>9. QED
    BY <1>1, <1>2, <1>3, <1>5, <1>6, <1>7, <1>8 DEF Read

\* Type correctness is preserved by every step.
LEMMA NextTypeInv == TypeInv /\ [Next]_vars => TypeInv'
  <1> SUFFICES ASSUME TypeInv, [Next]_vars PROVE TypeInv'
    OBVIOUS
  <1>1. CASE \E r \in Requests : Arrive(r) \/ Upload(r)
    BY <1>1, UploadTypeInv
  <1>2. CASE \E v \in Readers : Open(v) \/ OpenFails(v) \/ Read(v)
    BY <1>2, ReaderTypeInv
  <1>3. CASE \E key \in stored : Damage(key)
    BY <1>3 DEF Damage, TypeInv, TypeOK, TablesTyped, Evidence, Pending,
                requestVars, readerVars, tableVars
  <1>4. CASE Crash
    BY <1>4 DEF Crash, TypeInv, TypeOK, TablesTyped, Evidence, Pending, Busy, Finished,
                tableVars, bucketVars
  <1>5. CASE UNCHANGED vars
    BY <1>5 DEF vars, TypeInv, TypeOK, TablesTyped, Evidence, Pending,
                requestVars, readerVars, tableVars, bucketVars
  <1>6. QED
    BY <1>1, <1>2, <1>3, <1>4, <1>5 DEF Next

\* What may go wrong does not change in the course of a behaviour.
LEMMA FaultsFixed == [Next]_vars => faults' = faults
  <1> SUFFICES ASSUME [Next]_vars PROVE faults' = faults
    OBVIOUS
  <1>1. ASSUME NEW r \in Requests, Arrive(r) \/ Upload(r)
        PROVE  faults' = faults
    BY <1>1 DEF Arrive, Upload, Refuse, Lookup, LookupFails, Store, StoreFails, Persist,
          PersistFails, RecordOrphan, RecordOrphanFails, Restore, RestoreFails, Relink,
          RelinkFails, Answer, Fail, Goto
  <1>2. ASSUME NEW v \in Readers, Open(v) \/ OpenFails(v) \/ Read(v)
        PROVE  faults' = faults
    BY <1>2 DEF Open, OpenFails, Read, Reload, Observe, ObserveFails, Record, RecordFails, Respond,
          ReaderGoto
  <1>3. QED
    BY <1>1, <1>2 DEF Next, Damage, Crash, vars

\* Every reachable state has the types of TypeOK: no request ever works on a file
\* beyond the end of its batch.
THEOREM TypeCorrect == Spec => [](TypeOK /\ TypeInv)
  <1>1. TypeInv => TypeOK
    BY DEF TypeInv
  <1>2. QED
    BY <1>1, InitTypeInv, NextTypeInv, PTL DEF Spec

-----------------------------------------------------------------------------
(***************************************************************************)
(* What a step can do to the tables.  Every action either leaves the       *)
(* acquisition and evidence tables alone, adding at most the links of a    *)
(* dedupe, or commits the metadata of one new file.                        *)
(***************************************************************************)

LinksKnown(r) == pc[r] = "relink" /\ links' = links \cup ({CaseOf[r]} \X found[r])

TablesQuiet ==
    /\ acquisitions' = acquisitions
    /\ Evidence' = Evidence
    /\ audit \subseteq audit'
    /\ links' = links \/ \E r \in Requests : LinksKnown(r)

TablesCommit == \E r \in Requests : pc[r] = "persist" /\ CommitMetadata(r)

\* An upload step commits one file or leaves both tables alone.
LEMMA UploadTables ==
    ASSUME TypeInv, NEW r \in Requests, Arrive(r) \/ Upload(r)
    PROVE  TablesQuiet \/ TablesCommit
  <1> USE DEF TablesQuiet, tableVars, Evidence
  <1>1. CASE Persist(r)
    BY <1>1 DEF Persist, TablesCommit
  <1>2. CASE PersistFails(r)
    BY <1>2 DEF PersistFails, TablesCommit
  <1>3. CASE Relink(r) \/ RelinkFails(r)
    BY <1>3 DEF Relink, RelinkFails, LinksKnown
  <1>4. CASE RecordOrphan(r)
    BY <1>4 DEF RecordOrphan
  <1>5. CASE Refuse(r) \/ LookupFails(r) \/ StoreFails(r) \/ RecordOrphanFails(r)
    BY <1>5 DEF Refuse, LookupFails, StoreFails, RecordOrphanFails, Fail
  <1>6. CASE Arrive(r) \/ Lookup(r) \/ Store(r) \/ Restore(r) \/ RestoreFails(r) \/ Answer(r)
    BY <1>6 DEF Arrive, Lookup, Store, Restore, RestoreFails, Answer
  <1>7. QED
    BY <1>1, <1>2, <1>3, <1>4, <1>5, <1>6 DEF Upload

\* So does every step of the system.
LEMMA NextTables ==
    ASSUME TypeInv, [Next]_vars
    PROVE  TablesQuiet \/ TablesCommit
  <1>1. CASE \E r \in Requests : Arrive(r) \/ Upload(r)
    BY <1>1, UploadTables
  <1>2. ASSUME NEW v \in Readers, Open(v) \/ OpenFails(v) \/ Read(v)
        PROVE  TablesQuiet
    <2> USE DEF TablesQuiet, tableVars, Evidence, TypeInv, TypeOK, TablesTyped
    <2>1. CASE Open(v)
      BY <2>1 DEF Open
    <2>2. CASE OpenFails(v)
      BY <2>2 DEF OpenFails
    <2>3. CASE Reload(v) \/ Observe(v) \/ ObserveFails(v) \/ Respond(v)
      BY <2>3 DEF Reload, Observe, ObserveFails, Respond
    <2>4. CASE Record(v) \/ RecordFails(v)
      BY <2>4 DEF Record, RecordFails, CommitReading
    <2>5. QED
      BY <1>2, <2>1, <2>2, <2>3, <2>4 DEF Read
  <1>3. CASE \E key \in stored : Damage(key)
    BY <1>3 DEF Damage, TablesQuiet, tableVars, Evidence
  <1>4. CASE Crash
    BY <1>4 DEF Crash, TablesQuiet, tableVars, Evidence
  <1>5. CASE UNCHANGED vars
    BY <1>5 DEF vars, TablesQuiet, tableVars, Evidence
  <1>6. QED
    BY <1>1, <1>2, <1>3, <1>4, <1>5 DEF Next

-----------------------------------------------------------------------------
(***************************************************************************)
(* The records.  A request that found its digest recorded goes on to link  *)
(* what it found, so the invariant has to carry what found stands for from *)
(* the lookup to the link.                                                 *)
(***************************************************************************)

FoundRecorded ==
    \A r \in Requests :
        /\ found[r] \subseteq acquisitions
        /\ pc[r] \in {"restore", "relink"} =>
              /\ found[r] # {}
              /\ \A id \in found[r] : ContentOf(id) = Batch[r][position[r]]

RecordInv == OneRecordPerContent /\ RowsBelongTogether /\ FoundRecorded

\* The tables stay consistent, whichever way a step changes them.
LEMMA TablesStayConsistent ==
    ASSUME TypeInv, RecordInv, [Next]_vars
    PROVE  (OneRecordPerContent /\ RowsBelongTogether)'
  <1>1. CASE TablesQuiet
    <2>1. \A link \in links' : link[2] \in acquisitions
      <3>1. ASSUME NEW r \in Requests, LinksKnown(r), NEW link \in links'
            PROVE  link[2] \in acquisitions
        <4>1. link \in links \/ link \in {CaseOf[r]} \X found[r]
          BY <3>1 DEF LinksKnown
        <4>2. found[r] \subseteq acquisitions
          BY DEF RecordInv, FoundRecorded
        <4>3. QED
          BY <4>1, <4>2 DEF RecordInv, RowsBelongTogether
      <3>2. QED
        BY <1>1, <3>1 DEF TablesQuiet, RecordInv, RowsBelongTogether
    <2>2. QED
      BY <1>1, <2>1 DEF TablesQuiet, RecordInv, RowsBelongTogether, OneRecordPerContent, ContentOf
  <1>2. ASSUME NEW r \in Requests, pc[r] = "persist", CommitMetadata(r)
        PROVE  (OneRecordPerContent /\ RowsBelongTogether)'
    <2>1. \A id \in acquisitions : ContentOf(id) # ContentOf(Current(r))
      BY <1>2 DEF CommitMetadata, WithDigest
    <2>2. acquisitions' = acquisitions \cup {Current(r)}
      BY <1>2 DEF CommitMetadata
    <2>3. OneRecordPerContent'
      BY <2>1, <2>2 DEF RecordInv, OneRecordPerContent, ContentOf
    <2>4. acquisitions' = Evidence'
      BY <1>2 DEF CommitMetadata, RecordInv, RowsBelongTogether, Evidence
    <2>5. \A link \in links' : link[2] \in acquisitions'
      BY <1>2, <2>2 DEF CommitMetadata, RecordInv, RowsBelongTogether
    <2>6. ({"ACQUISITION_CREATED", "EVIDENCE_STORED"} \X acquisitions \subseteq audit)'
      BY <1>2, <2>2 DEF CommitMetadata, RecordInv, RowsBelongTogether
    <2>7. QED
      BY <2>3, <2>4, <2>5, <2>6 DEF RowsBelongTogether
  <1>3. QED
    BY <1>1, <1>2, NextTables DEF TablesCommit

\* Rows are never deleted.
LEMMA TablesGrow ==
    ASSUME TypeInv, [Next]_vars
    PROVE  acquisitions \subseteq acquisitions' /\ links \subseteq links'
  BY NextTables DEF TablesQuiet, TablesCommit, CommitMetadata, LinksKnown

\* What a lookup returned stays recorded, and stays about the file being uploaded.
LEMMA FoundStaysRecorded ==
    ASSUME TypeInv, RecordInv, [Next]_vars
    PROVE  FoundRecorded'
  <1> DEFINE Good(q) ==
        /\ found'[q] \subseteq acquisitions
        /\ pc'[q] \in {"restore", "relink"} =>
              /\ found'[q] # {}
              /\ \A id \in found'[q] : ContentOf(id) = Batch[q][position'[q]]
  <1>1. ASSUME NEW r \in Requests, Arrive(r) \/ Upload(r), NEW q \in Requests
        PROVE  Good(q)
    <2> USE DEF Goto
    <2>1. Good(q) \/ q = r
      <3>1. ASSUME q # r
            PROVE  pc'[q] = pc[q] /\ position'[q] = position[q] /\ found'[q] = found[q]
        BY <1>1, <3>1 DEF Arrive, Upload, Refuse, Lookup, LookupFails, Store, StoreFails, Persist,
              PersistFails, RecordOrphan, RecordOrphanFails, Restore, RestoreFails, Relink,
              RelinkFails, Answer, Fail, TypeInv, TypeOK
      <3>2. QED
        BY <3>1 DEF RecordInv, FoundRecorded
    <2>2. ASSUME found' = found, position' = position, pc'[r] \in Finished \cup {"acquire"}
          PROVE  Good(r)
      BY <2>2 DEF Finished, RecordInv, FoundRecorded
    <2>3. CASE Lookup(r)
      <3>1. ContentOf(Current(r)) = Batch[r][position[r]]
        BY <2>3, CurrentIsId DEF Lookup, TypeInv, TypeOK
      <3>2. Good(r)
        BY <2>3, <3>1 DEF Lookup, WithDigest, TypeInv, TypeOK
      <3>3. QED
        BY <2>1, <3>2
    <2>4. CASE Persist(r) \/ Relink(r)
      <3>1. found' = found /\ pc'[r] = "acquire"
        BY <2>4 DEF Persist, Relink, TypeInv, TypeOK
      <3>2. QED
        BY <2>1, <3>1 DEF RecordInv, FoundRecorded
    <2>5. CASE \/ Refuse(r) \/ LookupFails(r) \/ StoreFails(r) \/ RecordOrphan(r)
               \/ RecordOrphanFails(r) \/ RelinkFails(r) \/ Answer(r) \/ Arrive(r)
      <3>1. found' = found /\ position' = position /\ pc'[r] \in Finished \cup {"acquire"}
        BY <2>5 DEF Refuse, LookupFails, StoreFails, RecordOrphan, RecordOrphanFails,
                    RelinkFails, Fail, Answer, Arrive, Finished, TypeInv, TypeOK
      <3>2. QED
        BY <2>1, <2>2, <3>1
    <2>6. CASE Store(r) \/ PersistFails(r)
      <3>1. found' = found /\ pc'[r] \in {"persist", "orphan"}
        BY <2>6 DEF Store, PersistFails, TypeInv, TypeOK
      <3>2. QED
        BY <2>1, <3>1 DEF RecordInv, FoundRecorded
    <2>7. CASE Restore(r) \/ RestoreFails(r)
      <3>1. found' = found /\ position' = position /\ pc[r] = "restore"
        BY <2>7 DEF Restore, RestoreFails
      <3>2. QED
        BY <2>1, <3>1 DEF RecordInv, FoundRecorded
    <2>8. QED
      BY <1>1, <2>3, <2>4, <2>5, <2>6, <2>7 DEF Upload
  <1>2. ASSUME UNCHANGED requestVars, NEW q \in Requests
        PROVE  Good(q)
    BY <1>2 DEF requestVars, RecordInv, FoundRecorded
  <1>3. ASSUME NEW v \in Readers, Open(v) \/ OpenFails(v) \/ Read(v)
        PROVE  UNCHANGED requestVars
    BY <1>3 DEF Open, OpenFails, Read, Reload, Downloading, Observe, ObserveFails, Record, CommitReading, RecordFails, Respond
  <1>4. ASSUME Crash, NEW q \in Requests
        PROVE  Good(q)
    <2>1. pc'[q] \in {pc[q], "crashed"} /\ position' = position /\ found' = found
      BY <1>4 DEF Crash
    <2>2. QED
      BY <2>1 DEF RecordInv, FoundRecorded
  <1>5. \A q \in Requests : Good(q)
    <2>1. UNCHANGED vars => UNCHANGED requestVars
      BY DEF vars
    <2>2. (\E key \in stored : Damage(key)) => UNCHANGED requestVars
      BY DEF Damage
    <2>3. QED
      BY <1>1, <1>2, <1>3, <1>4, <2>1, <2>2 DEF Next
  <1>6. QED
    BY <1>5, TablesGrow DEF FoundRecorded, ContentOf

\* Hence the whole invariant about records is preserved.
LEMMA RecordsPreserved == TypeInv /\ RecordInv /\ [Next]_vars => RecordInv'
  BY TablesStayConsistent, FoundStaysRecorded DEF RecordInv

\* The same bytes are never recorded twice, and acquisition, evidence, link and audit
\* rows always belong together, whatever fails and however requests interleave.
THEOREM RecordsCorrect == Spec => []RecordsConsistent
  <1>1. Init => RecordInv
    BY DEF Init, RecordInv, OneRecordPerContent, RowsBelongTogether, FoundRecorded, Evidence
  <1>2. RecordInv => RecordsConsistent
    BY DEF RecordInv, RecordsConsistent
  <1>3. QED
    BY <1>1, <1>2, TypeCorrect, RecordsPreserved, PTL DEF Spec

-----------------------------------------------------------------------------
(***************************************************************************)
(* The bytes.  Between the upload and the transaction the only trace of    *)
(* the object is where its request stands, so the invariant says that a    *)
(* request about to write the rows has written the object.                 *)
(***************************************************************************)

BackedInv ==
    /\ EvidenceBacked
    /\ \A r \in Requests : pc[r] = "persist" => Current(r) \in stored

\* Every step keeps the objects that back the evidence rows.
LEMMA BackedPreserved ==
    ASSUME TypeInv, BackedInv, [Next]_vars
    PROVE  BackedInv'
  <1>1. stored \subseteq stored'
    <2>1. ASSUME NEW r \in Requests, Arrive(r) \/ Upload(r)
          PROVE  stored \subseteq stored'
      BY <2>1 DEF Arrive, Upload, Refuse, Lookup, LookupFails, Store, StoreFails, Persist,
            PersistFails, RecordOrphan, RecordOrphanFails, Restore, RestoreFails, Relink,
            RelinkFails, Answer, Put, bucketVars
    <2>2. ASSUME NEW v \in Readers, Open(v) \/ OpenFails(v) \/ Read(v)
          PROVE  stored \subseteq stored'
      BY <2>2 DEF Open, OpenFails, Read, Reload, Downloading, Observe, ObserveFails, Record, CommitReading, RecordFails, Respond,
            bucketVars
    <2>3. QED
      BY <2>1, <2>2 DEF Next, Damage, Crash, vars, bucketVars
  <1>2. ASSUME NEW q \in Requests, pc'[q] = "persist"
        PROVE  Current(q)' \in stored'
    <2>1. CASE pc[q] = "persist" /\ position'[q] = position[q]
      BY <1>1, <2>1 DEF BackedInv, Current
    <2>2. CASE Store(q)
      BY <2>2 DEF Store, Put, Current
    <2>3. ASSUME NEW r \in Requests, Arrive(r) \/ Upload(r)
          PROVE  Store(q) \/ (pc[q] = "persist" /\ position'[q] = position[q])
      BY <1>2, <2>3 DEF Arrive, Upload, Refuse, Lookup, LookupFails, Store, StoreFails, Persist,
            PersistFails, RecordOrphan, RecordOrphanFails, Restore, RestoreFails, Relink,
            RelinkFails, Answer, Fail, Goto, TypeInv, TypeOK
    <2>4. (\A r \in Requests : ~(Arrive(r) \/ Upload(r))) =>
              pc'[q] \in {pc[q], "crashed"} /\ position'[q] = position[q]
      BY DEF Next, Open, OpenFails, Read, Reload, Downloading, Observe, ObserveFails, Record, CommitReading, RecordFails, Respond,
            Damage, Crash, vars, requestVars
    <2>5. QED
      BY <1>2, <2>1, <2>2, <2>3, <2>4
  <1>3. EvidenceBacked'
    <2>1. CASE TablesQuiet
      BY <1>1, <2>1 DEF TablesQuiet, BackedInv, EvidenceBacked
    <2>2. CASE TablesCommit
      <3>1. PICK r \in Requests : pc[r] = "persist" /\ CommitMetadata(r)
        BY <2>2 DEF TablesCommit
      <3>2. Evidence' = Evidence \cup {Current(r)}
        BY <3>1 DEF CommitMetadata, Evidence
      <3>3. QED
        BY <1>1, <3>1, <3>2 DEF BackedInv, EvidenceBacked
    <2>3. QED
      BY <2>1, <2>2, NextTables
  <1>4. QED
    BY <1>2, <1>3 DEF BackedInv

\* Metadata never runs ahead of the bytes: the object of an evidence row was written
\* before the row became visible, whatever may go wrong.
THEOREM MetadataIsBacked == Spec => []EvidenceBacked
  <1>1. Init => BackedInv
    BY DEF Init, BackedInv, EvidenceBacked, Evidence
  <1>2. TypeInv /\ BackedInv /\ [Next]_vars => BackedInv'
    BY BackedPreserved
  <1>3. BackedInv => EvidenceBacked
    BY DEF BackedInv
  <1>4. QED
    BY <1>1, <1>2, <1>3, TypeCorrect, PTL DEF Spec

-----------------------------------------------------------------------------
(***************************************************************************)
(* What is filed.  A step that advances a request within its batch has     *)
(* just linked the file it worked on; a step that answers it finds the     *)
(* whole batch done.                                                       *)
(***************************************************************************)

\* What is filed under a case after a step.
FiledAfter(case, content) ==
    \E id \in acquisitions' : ContentOf(id) = content /\ <<case, id>> \in links'

\* What is filed under a case stays filed there.
LEMMA FiledStays ==
    ASSUME TypeInv, [Next]_vars, NEW case, NEW content, FiledUnder(case, content)
    PROVE  FiledAfter(case, content)
  BY TablesGrow DEF FiledUnder, FiledAfter

\* Links to acquisitions of one content, all of one case, file that content there.
LEMMA LinksFile ==
    ASSUME NEW case, NEW content, NEW ids, ids # {},
           \A id \in ids : ContentOf(id) = content,
           links' = links \cup ({case} \X ids)
    PROVE  filedContents' = filedContents \cup {<<case, content>>}
  <1> DEFINE F(link) == <<link[1], ContentOf(link[2])>>
  <1>1. \A link \in {case} \X ids : F(link) = <<case, content>>
    OBVIOUS
  <1>2. \E link \in {case} \X ids : TRUE
    <2>1. PICK id \in ids : TRUE
      OBVIOUS
    <2>2. <<case, id>> \in {case} \X ids
      BY <2>1
    <2>3. QED
      BY <2>2
  <1>3. filedContents = {F(link) : link \in links} /\ filedContents' = {F(link) : link \in links'}
    BY DEF filedContents, ContentOf
  <1> HIDE DEF F
  <1>4. QED
    BY <1>1, <1>2, <1>3

\* The transaction of a new file files it under the case of its request.
LEMMA CommitFiles ==
    ASSUME TypeInv, NEW r \in Requests, pc[r] = "persist", CommitMetadata(r)
    PROVE  /\ FiledAfter(CaseOf[r], Batch[r][position[r]])
           /\ filedContents' = filedContents \cup {<<CaseOf[r], Batch[r][position[r]]>>}
  <1>1. ContentOf(Current(r)) = Batch[r][position[r]]
    BY CurrentIsId DEF TypeInv, TypeOK, Busy
  <1>2. /\ acquisitions' = acquisitions \cup {Current(r)}
        /\ links' = links \cup {<<CaseOf[r], Current(r)>>}
    BY DEF CommitMetadata
  <1>3. {<<CaseOf[r], Current(r)>>} = {CaseOf[r]} \X {Current(r)}
    OBVIOUS
  <1>4. filedContents' = filedContents \cup {<<CaseOf[r], Batch[r][position[r]]>>}
    <2>1. PICK ids : ids = {Current(r)}
      OBVIOUS
    <2>2. ids # {} /\ \A id \in ids : ContentOf(id) = Batch[r][position[r]]
      BY <1>1, <2>1
    <2>3. links' = links \cup ({CaseOf[r]} \X ids)
      BY <1>2, <1>3, <2>1
    <2>4. QED
      BY <2>2, <2>3, LinksFile
  <1>5. FiledAfter(CaseOf[r], Batch[r][position[r]])
    BY <1>1, <1>2 DEF FiledAfter
  <1>6. QED
    BY <1>4, <1>5

\* The link of a known file files its content under the case of its request.
LEMMA RelinkFiles ==
    ASSUME TypeInv, RecordInv, NEW r \in Requests, LinksKnown(r), acquisitions' = acquisitions
    PROVE  /\ FiledAfter(CaseOf[r], Batch[r][position[r]])
           /\ filedContents' = filedContents \cup {<<CaseOf[r], Batch[r][position[r]]>>}
  <1>1. /\ found[r] # {}
        /\ found[r] \subseteq acquisitions
        /\ \A id \in found[r] : ContentOf(id) = Batch[r][position[r]]
    BY DEF LinksKnown, RecordInv, FoundRecorded
  <1>2. links' = links \cup ({CaseOf[r]} \X found[r])
    BY DEF LinksKnown
  <1>3. filedContents' = filedContents \cup {<<CaseOf[r], Batch[r][position[r]]>>}
    BY <1>1, <1>2, LinksFile
  <1>4. FiledAfter(CaseOf[r], Batch[r][position[r]])
    <2>1. PICK id \in found[r] : TRUE
      BY <1>1
    <2>2. <<CaseOf[r], id>> \in {CaseOf[r]} \X found[r]
      BY <2>1
    <2>3. QED
      BY <1>1, <1>2, <2>2 DEF FiledAfter
  <1>5. QED
    BY <1>3, <1>4

\* How a request can move: it stays on its file, or the file has just been filed.
LEMMA RequestMoves ==
    ASSUME TypeInv, RecordInv, [Next]_vars, NEW q \in Requests
    PROVE  /\ \/ position'[q] = position[q]
              \/ /\ position'[q] = position[q] + 1
                 /\ FiledAfter(CaseOf[q], Batch[q][position[q]])
           /\ pc'[q] = "answered" =>
                 /\ position'[q] = position[q]
                 /\ pc[q] = "answered" \/ ~Pending(q)
  <1> USE DEF Goto
  <1>1. CASE Persist(q)
    BY <1>1, CommitFiles DEF Persist, TypeInv, TypeOK
  <1>2. CASE Relink(q)
    BY <1>2, RelinkFiles DEF Relink, LinksKnown, TypeInv, TypeOK
  <1>3. ASSUME NEW r \in Requests, Arrive(r) \/ Upload(r), ~Persist(q), ~Relink(q)
        PROVE  /\ position'[q] = position[q]
               /\ pc'[q] = "answered" => pc[q] = "answered" \/ ~Pending(q)
    BY <1>3 DEF Arrive, Upload, Refuse, Lookup, LookupFails, Store, StoreFails, Persist,
          PersistFails, RecordOrphan, RecordOrphanFails, Restore, RestoreFails, Relink,
          RelinkFails, Answer, Fail, TypeInv, TypeOK
  <1>4. (\A r \in Requests : ~(Arrive(r) \/ Upload(r))) =>
            pc'[q] \in {pc[q], "crashed"} /\ position'[q] = position[q]
    BY DEF Next, Open, OpenFails, Read, Reload, Downloading, Observe, ObserveFails, Record, CommitReading, RecordFails, Respond,
          Damage, Crash, vars, requestVars
  <1>5. QED
    BY <1>1, <1>2, <1>3, <1>4

\* A batch is filed up to the position of its request, for ever.
LEMMA BatchStaysFiled ==
    ASSUME TypeInv, RecordInv, BatchPrefixFiled, [Next]_vars
    PROVE  BatchPrefixFiled'
  <1> DEFINE Good(q) ==
        /\ \A i \in 1..Len(Batch[q]) : i < position'[q] => FiledAfter(CaseOf[q], Batch[q][i])
        /\ pc'[q] = "answered" => position'[q] > Len(Batch[q])
  <1>1. ASSUME NEW q \in Requests
        PROVE  Good(q)
    <2>1. position[q] \in Nat \ {0} /\ Len(Batch[q]) \in Nat
      BY EvidenceStoreAssumption DEF TypeInv, TypeOK
    <2>2. ASSUME NEW i \in 1..Len(Batch[q]), i < position'[q]
          PROVE  FiledAfter(CaseOf[q], Batch[q][i])
      <3>1. CASE i < position[q]
        BY <3>1, FiledStays DEF BatchPrefixFiled
      <3>2. CASE ~(i < position[q])
        <4>1. i = position[q] /\ position'[q] = position[q] + 1
          BY <2>1, <2>2, <3>2, RequestMoves
        <4>2. QED
          BY <2>1, <4>1, RequestMoves
      <3>3. QED
        BY <3>1, <3>2
    <2>3. pc'[q] = "answered" => position'[q] > Len(Batch[q])
      BY <2>1, RequestMoves DEF BatchPrefixFiled, Pending
    <2>4. QED
      BY <2>2, <2>3
  <1>2. QED
    BY <1>1 DEF BatchPrefixFiled, FiledUnder, FiledAfter, ContentOf

\* Every file a request got past is recorded and listed under its case, also when a
\* later file of the batch failed, and an answered request got past all of them.
THEOREM BatchesAreFiled == Spec => []BatchPrefixFiled
  <1>1. Init => RecordInv
    BY DEF Init, RecordInv, OneRecordPerContent, RowsBelongTogether, FoundRecorded, Evidence
  <1>2. Init => BatchPrefixFiled
    BY DEF Init, BatchPrefixFiled
  <1>3. TypeInv /\ RecordInv /\ BatchPrefixFiled /\ [Next]_vars => BatchPrefixFiled'
    BY BatchStaysFiled
  <1>4. QED
    BY <1>1, <1>2, <1>3, TypeCorrect, RecordsPreserved, PTL DEF Spec

-----------------------------------------------------------------------------
(***************************************************************************)
(* Refinement.  Every step of the service files one content, tells         *)
(* requests how they ended, or is invisible in the catalogue.              *)
(***************************************************************************)

\* A request in the middle of a file is open, and its file is one it brought.
LEMMA CurrentWasBrought ==
    ASSUME TypeInv, NEW r \in Requests, pc[r] \in Busy
    PROVE  /\ outcomes[r] = "open"
           /\ Batch[r][position[r]] \in Catalogue!Brought(r)
  <1>1. position[r] \in 1..Len(Batch[r])
    BY EvidenceStoreAssumption DEF TypeInv, TypeOK, Pending
  <1>2. QED
    BY <1>1 DEF outcomes, Busy, Catalogue!Brought

\* Persisting or linking a file is File of the catalogue, whether or not the request
\* learns of it.
LEMMA FilingRefines ==
    ASSUME TypeInv, NEW r \in Requests, pc[r] \in Busy,
           outcomes' = outcomes \/ outcomes' = [outcomes EXCEPT ![r] = "refused"],
           filedContents' = filedContents \cup {<<CaseOf[r], Batch[r][position[r]]>>}
    PROVE  Catalogue!Next
  BY CurrentWasBrought DEF Catalogue!Next, Catalogue!File

\* Ending requests without an answer is Refuse of the catalogue.
LEMMA EndingRefines ==
    ASSUME TypeInv, filedContents' = filedContents,
           \A r \in Requests : pc'[r] = pc[r] \/ (pc[r] \notin Finished /\ pc'[r] \in {"failed", "crashed"})
                                 \/ ({pc[r], pc'[r]} \cap Finished = {})
    PROVE  Catalogue!Refuse
  <1> DEFINE refused == {r \in Requests : outcomes[r] = "open" /\ outcomes'[r] # "open"}
  <1>1. refused \in SUBSET {r \in Requests : outcomes[r] = "open"}
    OBVIOUS
  <1>2. outcomes' = [r \in Requests |-> IF r \in refused THEN "refused" ELSE outcomes[r]]
    BY DEF outcomes, Finished
  <1>3. QED
    BY <1>1, <1>2 DEF Catalogue!Refuse

\* Every step of the service is a step of the catalogue or changes nothing there.
LEMMA StepRefines ==
    ASSUME TypeInv, RecordInv, BatchPrefixFiled, [Next]_vars
    PROVE  [Catalogue!Next]_<<filedContents, outcomes>>
  <1> USE DEF Goto
  <1>1. ASSUME NEW r \in Requests, Persist(r)
        PROVE  Catalogue!Next
    <2>1. pc[r] = "persist" /\ CommitMetadata(r) /\ pc' = [pc EXCEPT ![r] = "acquire"]
      BY <1>1 DEF Persist
    <2>2. outcomes' = outcomes
      BY <2>1 DEF outcomes, TypeInv, TypeOK
    <2>3. QED
      BY <2>1, <2>2, CommitFiles, FilingRefines DEF Busy
  <1>2. ASSUME NEW r \in Requests, PersistFails(r)
        PROVE  Catalogue!Next \/ UNCHANGED <<filedContents, outcomes>>
    <2>1. /\ pc[r] = "persist" /\ pc' = [pc EXCEPT ![r] = "orphan"]
          /\ CommitMetadata(r) \/ UNCHANGED tableVars
      BY <1>2 DEF PersistFails
    <2>2. outcomes' = outcomes
      BY <2>1 DEF outcomes, TypeInv, TypeOK
    <2>3. CASE CommitMetadata(r)
      BY <2>1, <2>2, <2>3, CommitFiles, FilingRefines DEF Busy
    <2>4. CASE UNCHANGED tableVars
      BY <2>2, <2>4 DEF tableVars, filedContents, ContentOf
    <2>5. QED
      BY <2>1, <2>3, <2>4
  <1>3. ASSUME NEW r \in Requests, Relink(r)
        PROVE  Catalogue!Next
    <2>1. pc[r] = "relink" /\ pc' = [pc EXCEPT ![r] = "acquire"]
      BY <1>3 DEF Relink
    <2>2. outcomes' = outcomes
      BY <2>1 DEF outcomes, TypeInv, TypeOK
    <2>3. QED
      BY <1>3, <2>1, <2>2, RelinkFiles, FilingRefines DEF Busy, Relink, LinksKnown
  <1>4. ASSUME NEW r \in Requests, Answer(r)
        PROVE  Catalogue!Next
    <2>1. /\ pc[r] = "acquire" /\ ~Pending(r) /\ pc' = [pc EXCEPT ![r] = "answered"]
          /\ filedContents' = filedContents
      BY <1>4 DEF Answer, tableVars, filedContents, ContentOf
    <2>2. outcomes[r] = "open" /\ outcomes' = [outcomes EXCEPT ![r] = "accepted"]
      BY <2>1 DEF outcomes, TypeInv, TypeOK
    <2>3. ASSUME NEW i \in 1..Len(Batch[r])
          PROVE  <<CaseOf[r], Batch[r][i]>> \in filedContents
      <3>1. i < position[r]
        BY <2>1, EvidenceStoreAssumption DEF Pending, TypeInv, TypeOK
      <3>2. PICK id \in acquisitions :
                ContentOf(id) = Batch[r][i] /\ <<CaseOf[r], id>> \in links
        BY <3>1 DEF BatchPrefixFiled, FiledUnder
      <3>3. <<<<CaseOf[r], id>>[1], ContentOf(<<CaseOf[r], id>>[2])>> \in filedContents
        BY <3>2 DEF filedContents
      <3>4. QED
        BY <3>2, <3>3
    <2>4. {CaseOf[r]} \X Catalogue!Brought(r) \subseteq filedContents
      BY <2>3 DEF Catalogue!Brought
    <2>5. QED
      BY <2>1, <2>2, <2>4 DEF Catalogue!Next, Catalogue!Accept
  <1>5. ASSUME NEW r \in Requests, Arrive(r) \/ Upload(r),
               ~Persist(r), ~PersistFails(r), ~Relink(r), ~RelinkFails(r), ~Answer(r)
        PROVE  Catalogue!Refuse
    <2>1. links' = links
      BY <1>5 DEF Arrive, Upload, Refuse, Lookup, LookupFails, Store, StoreFails,
            RecordOrphan, RecordOrphanFails, Restore, RestoreFails, Fail, tableVars
    <2>2. \E label \in {"acquire", "store", "persist", "restore", "relink", "failed"} :
              pc' = [pc EXCEPT ![r] = label] /\ pc[r] \notin Finished
      BY <1>5 DEF Arrive, Upload, Refuse, Lookup, LookupFails, Store, StoreFails,
            RecordOrphan, RecordOrphanFails, Restore, RestoreFails, Fail, Finished
    <2>3. QED
      BY <2>1, <2>2, EndingRefines DEF filedContents, ContentOf, Finished, TypeInv, TypeOK
  <1>6. ASSUME NEW v \in Readers, Open(v) \/ OpenFails(v) \/ Read(v)
        PROVE  UNCHANGED <<filedContents, outcomes>>
    BY <1>6 DEF Open, OpenFails, Read, Reload, Downloading, Observe, ObserveFails, Record, CommitReading, RecordFails, Respond,
          requestVars, tableVars, filedContents, outcomes, ContentOf
  <1>7. CASE Crash
    BY <1>7, EndingRefines DEF Crash, tableVars, filedContents, ContentOf, Finished,
          Catalogue!Next
  <1>8. ASSUME NEW key \in stored, Damage(key)
        PROVE  UNCHANGED <<filedContents, outcomes>>
    BY <1>8 DEF Damage, requestVars, tableVars, filedContents, outcomes, ContentOf
  <1>9. CASE UNCHANGED vars
    BY <1>9 DEF vars, requestVars, tableVars, filedContents, outcomes, ContentOf
  <1>10. ASSUME NEW r \in Requests, RelinkFails(r)
         PROVE  Catalogue!Next
    <2>1. pc[r] = "relink" /\ pc' = [pc EXCEPT ![r] = "failed"]
      BY <1>10 DEF RelinkFails
    <2>2. outcomes[r] = "open" /\ outcomes' = [outcomes EXCEPT ![r] = "refused"]
      BY <2>1 DEF outcomes, TypeInv, TypeOK
    <2>3. CASE UNCHANGED links
      <3>1. filedContents' = filedContents
        BY <2>3 DEF filedContents, ContentOf
      <3>2. QED
        BY <2>1, <3>1, EndingRefines DEF Catalogue!Next, Finished, TypeInv, TypeOK
    <2>4. CASE LinksKnown(r)
      <3>1. acquisitions' = acquisitions
        BY <1>10 DEF RelinkFails
      <3>2. QED
        BY <2>1, <2>2, <2>4, <3>1, RelinkFiles, FilingRefines DEF Busy
    <2>5. QED
      BY <1>10, <2>3, <2>4 DEF RelinkFails, LinksKnown
  <1>11. QED
    BY <1>1, <1>2, <1>3, <1>4, <1>5, <1>6, <1>7, <1>8, <1>9, <1>10 DEF Next, Catalogue!Next

\* The upload service implements the catalogue: whatever fails, nothing that was
\* filed is taken out, and nobody is told of success before the whole batch is filed.
THEOREM ServiceImplementsCatalogue == Spec => ImplementsCatalogue
  <1>1. Init => Catalogue!Init
    BY DEF Init, Catalogue!Init, filedContents, outcomes
  <1>2. Init => RecordInv
    BY DEF Init, RecordInv, OneRecordPerContent, RowsBelongTogether, FoundRecorded, Evidence
  <1>3. TypeInv /\ RecordInv /\ BatchPrefixFiled /\ [Next]_vars
            => [Catalogue!Next]_<<filedContents, outcomes>>
    BY StepRefines
  <1>4. QED
    BY <1>1, <1>2, <1>3, TypeCorrect, RecordsPreserved, BatchesAreFiled, PTL
       DEF Spec, ImplementsCatalogue, Catalogue!Spec

-----------------------------------------------------------------------------
(***************************************************************************)
(* The readers.  The invariant says what each label of a reader stands for *)
(* on the trail: the view from the moment it opened the evidence, its      *)
(* reading once it has committed; and that a row which had a verdict when  *)
(* it was loaded still has one, which is why a verification may leave the  *)
(* row alone and record its verdict all the same.                          *)
(***************************************************************************)

Working == {"opened", "loaded", "observed", "recorded", "answered"}

ReaderGood(v) ==
    /\ rpc[v] \in Working => {"EVIDENCE_VIEWED"} \X target[v] \subseteq audit
    /\ rpc[v] \in {"loaded", "observed"} /\ asked[v] = "verify" /\ loaded[v] # "pending" =>
          \A id \in target[v] : integrity[id] # "pending"
    /\ rpc[v] \in {"recorded", "answered"} /\ asked[v] = "verify" =>
          target[v] \X {seen[v]} \subseteq verdicts
    /\ rpc[v] \in {"recorded", "answered"} /\ asked[v] = "export" =>
          {"EVIDENCE_EXPORTED"} \X target[v] \subseteq audit

RowsGood ==
    /\ \A id \in Evidence : integrity[id] # "pending" => <<id, integrity[id]>> \in verdicts
    /\ \A id \in Ids, s \in Verdicts :
          <<id, s>> \in verdicts => id \in Evidence /\ integrity[id] # "pending"

ReadingInv == RowsGood /\ \A v \in Readers : ReaderGood(v)

\* What no step takes back: events, verdicts, and that a row has one.
RecordsGrow ==
    /\ audit \subseteq audit'
    /\ verdicts \subseteq verdicts'
    /\ \A id \in Evidence : id \in Evidence' /\ (integrity[id] # "pending" => integrity'[id] # "pending")

\* The transaction of a new file adds a row that nobody has read.
LEMMA CommitKeepsReadings ==
    ASSUME TypeInv, RecordInv, RowsGood, NEW r \in Requests, CommitMetadata(r), verdicts' = verdicts
    PROVE  RecordsGrow /\ RowsGood'
  <1>1. Current(r) \notin Evidence
    BY DEF CommitMetadata, WithDigest, RecordInv, RowsBelongTogether
  <1>2. /\ Evidence' = Evidence \cup {Current(r)}
        /\ integrity'[Current(r)] = "pending"
        /\ \A id \in Evidence : integrity'[id] = integrity[id]
    BY <1>1 DEF CommitMetadata, Evidence
  <1>3. audit \subseteq audit'
    BY DEF CommitMetadata
  <1>4. QED
    BY <1>1, <1>2, <1>3 DEF RecordsGrow, RowsGood, Ids

\* An upload step leaves the readers and their verdicts alone.
LEMMA UploadKeepsReadings ==
    ASSUME TypeInv, RecordInv, RowsGood, NEW r \in Requests, Arrive(r) \/ Upload(r)
    PROVE  RecordsGrow /\ RowsGood' /\ UNCHANGED readerVars
  <1>1. UNCHANGED readerVars /\ verdicts' = verdicts
    BY DEF Arrive, Upload, Refuse, Lookup, LookupFails, Store, StoreFails, Persist,
          PersistFails, RecordOrphan, RecordOrphanFails, Restore, RestoreFails, Relink,
          RelinkFails, Answer, Fail, tableVars
  <1>2. CommitMetadata(r) \/ (integrity' = integrity /\ audit \subseteq audit')
    BY DEF Arrive, Upload, Refuse, Lookup, LookupFails, Store, StoreFails, Persist,
          PersistFails, RecordOrphan, RecordOrphanFails, Restore, RestoreFails, Relink,
          RelinkFails, Answer, Fail, tableVars
  <1>3. CASE CommitMetadata(r)
    BY <1>1, <1>3, CommitKeepsReadings
  <1>4. CASE integrity' = integrity /\ audit \subseteq audit'
    BY <1>1, <1>4 DEF RecordsGrow, RowsGood, Evidence, Ids
  <1>5. QED
    BY <1>1, <1>2, <1>3, <1>4

\* The transaction at the end of a reading puts a verdict on record, and on the row
\* unless the row was loaded with the same one.
LEMMA ReadingIsRecorded ==
    ASSUME TypeInv, ReadingInv, NEW v \in Readers, rpc[v] = "observed", CommitReading(v)
    PROVE  /\ RecordsGrow /\ RowsGood'
           /\ asked[v] = "verify" => target[v] \X {seen[v]} \subseteq verdicts'
           /\ asked[v] = "export" => {"EVIDENCE_EXPORTED"} \X target[v] \subseteq audit'
  <1>1. seen[v] \in Verdicts /\ "pending" \notin Verdicts /\ target[v] \subseteq Evidence /\ Evidence \subseteq Ids
    BY DEF TypeInv, TypeOK, TablesTyped, Verdicts
  <1>2. /\ Evidence' = Evidence
        /\ \A id \in Evidence : integrity'[id] =
              IF asked[v] = "verify" /\ id \in target[v] /\ seen[v] # loaded[v]
              THEN seen[v] ELSE integrity[id]
    BY DEF CommitReading, Evidence
  <1>3. CASE asked[v] = "verify"
    <2>1. verdicts' = verdicts \cup (target[v] \X {seen[v]}) /\ audit' = audit
      BY <1>3 DEF CommitReading
    <2>2. ASSUME NEW id \in Evidence, integrity'[id] # "pending"
          PROVE  <<id, integrity'[id]>> \in verdicts'
      <3>1. CASE id \in target[v] /\ seen[v] # loaded[v]
        BY <1>2, <1>3, <2>1, <3>1
      <3>2. CASE ~(id \in target[v] /\ seen[v] # loaded[v])
        BY <1>2, <2>1, <2>2, <3>2 DEF ReadingInv, RowsGood
      <3>3. QED
        BY <3>1, <3>2
    <2>3. ASSUME NEW id \in Ids, NEW s \in Verdicts, <<id, s>> \in verdicts'
          PROVE  id \in Evidence /\ integrity'[id] # "pending"
      <3>1. CASE id \in target[v]
        <4>1. seen[v] = loaded[v] => integrity[id] # "pending"
          BY <1>1, <1>3, <3>1 DEF ReadingInv, ReaderGood
        <4>2. QED
          BY <1>1, <1>2, <1>3, <3>1, <4>1
      <3>2. CASE id \notin target[v]
        <4>1. <<id, s>> \in verdicts
          BY <2>1, <2>3, <3>2
        <4>2. QED
          BY <1>2, <3>2, <4>1 DEF ReadingInv, RowsGood
      <3>3. QED
        BY <3>1, <3>2
    <2>4. \A id \in Evidence : integrity[id] # "pending" => integrity'[id] # "pending"
      BY <1>1, <1>2
    <2>5. QED
      BY <1>2, <1>3, <2>1, <2>2, <2>3, <2>4 DEF RecordsGrow, RowsGood, Ids
  <1>4. CASE asked[v] # "verify"
    <2>1. /\ verdicts' = verdicts /\ audit' = audit \cup ({"EVIDENCE_EXPORTED"} \X target[v])
          /\ \A id \in Evidence : integrity'[id] = integrity[id]
      BY <1>2, <1>4 DEF CommitReading
    <2>2. QED
      BY <1>2, <1>4, <2>1 DEF RecordsGrow, RowsGood, Ids, ReadingInv
  <1>5. QED
    BY <1>3, <1>4

\* A reader that does nothing keeps what its label stands for.
LEMMA QuietReader ==
    ASSUME TypeInv, RecordsGrow, NEW w \in Readers, ReaderGood(w),
           rpc'[w] \in {rpc[w], "crashed", "failed"},
           asked'[w] = asked[w], target'[w] = target[w],
           loaded'[w] = loaded[w], seen'[w] = seen[w]
    PROVE  ReaderGood(w)'
  <1>1. target[w] \subseteq Evidence
    BY DEF TypeInv
  <1>2. QED
    BY <1>1 DEF ReaderGood, RecordsGrow, Working

\* Every step of a reader keeps the rows and its own label honest.
LEMMA ReaderKeepsReadings ==
    ASSUME TypeInv, ReadingInv, NEW v \in Readers, Open(v) \/ OpenFails(v) \/ Read(v)
    PROVE  RecordsGrow /\ RowsGood' /\ ReaderGood(v)'
  <1> USE DEF ReaderGoto
  <1>1. /\ rpc \in [Readers -> {"idle", "opened", "loaded", "observed", "recorded"} \cup Finished]
        /\ asked \in [Readers -> Operations \cup {"nothing"}]
        /\ target \in [Readers -> SUBSET Ids]
        /\ loaded \in [Readers -> Verdicts \cup {"pending"}]
        /\ seen \in [Readers -> Verdicts \cup {"nothing"}]
        /\ target[v] \subseteq Evidence
    BY DEF TypeInv, TypeOK
  <1>2. ReaderGood(v) /\ RowsGood
    BY DEF ReadingInv
  <1>3. ASSUME integrity' = integrity, verdicts' = verdicts, audit \subseteq audit'
        PROVE  RecordsGrow /\ RowsGood'
    BY <1>2, <1>3 DEF RecordsGrow, RowsGood, Evidence, Ids
  <1>4. CASE Open(v)
    <2>1. PICK operation \in Asks[v], id \in Evidence :
              /\ asked' = [asked EXCEPT ![v] = operation]
              /\ target' = [target EXCEPT ![v] = {id}]
              /\ audit' = audit \cup {<<"EVIDENCE_VIEWED", id>>}
              /\ rpc' = [rpc EXCEPT ![v] = IF ~ResolvesToOneCase(id) THEN "failed"
                             ELSE IF operation = "view" THEN "recorded" ELSE "opened"]
      BY <1>4 DEF Open
    <2>2. integrity' = integrity /\ verdicts' = verdicts
      BY <1>4 DEF Open
    <2>3. /\ asked'[v] = operation /\ target'[v] = {id}
          /\ rpc'[v] \in {"failed", "recorded", "opened"}
          /\ rpc'[v] = "recorded" => asked'[v] = "view"
      BY <1>1, <2>1
    <2>4. {"EVIDENCE_VIEWED"} \X target'[v] \subseteq audit'
      BY <2>1, <2>3
    <2>5. ReaderGood(v)'
      BY <2>3, <2>4 DEF ReaderGood
    <2>6. QED
      BY <1>3, <2>1, <2>2, <2>5
  <1>5. CASE OpenFails(v)
    <2>1. integrity' = integrity /\ verdicts' = verdicts /\ audit \subseteq audit' /\ rpc'[v] = "failed"
      BY <1>1, <1>5 DEF OpenFails
    <2>2. QED
      BY <1>3, <2>1 DEF ReaderGood, Working
  <1>6. CASE Reload(v) \/ Observe(v) \/ ObserveFails(v) \/ Respond(v)
    <2>1. /\ integrity' = integrity /\ verdicts' = verdicts /\ audit' = audit
          /\ asked' = asked /\ target' = target
      BY <1>6 DEF Reload, Observe, ObserveFails, Respond, tableVars
    <2>2. RecordsGrow /\ RowsGood'
      BY <1>3, <2>1
    <2>3. CASE Reload(v)
      <3>1. rpc[v] = "opened" /\ rpc'[v] = "loaded" /\ \E id \in target[v] : loaded'[v] = integrity[id]
        BY <1>1, <2>3 DEF Reload
      <3>2. \A a, b \in target[v] : a = b
        BY DEF TypeInv
      <3>3. QED
        BY <1>2, <2>1, <2>2, <3>1, <3>2 DEF ReaderGood, Working
    <2>4. CASE Observe(v) \/ ObserveFails(v)
      <3>1. /\ loaded' = loaded
            /\ rpc'[v] \in {"observed", "failed"}
            /\ rpc[v] = IF asked[v] = "verify" THEN "loaded" ELSE "opened"
        BY <1>1, <2>4 DEF Observe, ObserveFails, Downloading
      <3>2. QED
        BY <1>2, <2>1, <2>2, <3>1 DEF ReaderGood, Working
    <2>5. CASE Respond(v)
      <3>1. rpc[v] = "recorded" /\ rpc'[v] = "answered" /\ seen' = seen
        BY <1>1, <2>5 DEF Respond
      <3>2. QED
        BY <1>2, <2>1, <2>2, <3>1 DEF ReaderGood, Working
    <2>6. QED
      BY <1>6, <2>3, <2>4, <2>5, <2>2
  <1>7. CASE Record(v) \/ RecordFails(v)
    <2>1. /\ asked' = asked /\ target' = target /\ seen' = seen
          /\ rpc'[v] \in {"recorded", "failed"}
      BY <1>1, <1>7 DEF Record, RecordFails
    <2>2. CASE rpc[v] = "observed" /\ CommitReading(v)
      <3>1. /\ RecordsGrow /\ RowsGood'
            /\ asked[v] = "verify" => target[v] \X {seen[v]} \subseteq verdicts'
            /\ asked[v] = "export" => {"EVIDENCE_EXPORTED"} \X target[v] \subseteq audit'
        BY <2>2, ReadingIsRecorded
      <3>2. {"EVIDENCE_VIEWED"} \X target[v] \subseteq audit'
        BY <1>2, <2>2, <3>1 DEF ReaderGood, Working, RecordsGrow
      <3>3. QED
        BY <2>1, <3>1, <3>2 DEF ReaderGood
    <2>3. CASE RecordFails(v) /\ UNCHANGED <<integrity, audit, verdicts>>
      <3>1. rpc'[v] = "failed"
        BY <1>1, <2>3 DEF RecordFails
      <3>2. QED
        BY <1>3, <2>3, <3>1 DEF ReaderGood, Working
    <2>4. QED
      BY <1>7, <2>2, <2>3 DEF Record, RecordFails
  <1>8. QED
    BY <1>4, <1>5, <1>6, <1>7 DEF Read

\* The other readers do not notice.
LEMMA OthersStayGood ==
    ASSUME TypeInv, ReadingInv, NEW v \in Readers, Open(v) \/ OpenFails(v) \/ Read(v), RecordsGrow,
           NEW w \in Readers, w # v
    PROVE  ReaderGood(w)'
  <1>1. /\ DOMAIN rpc = Readers /\ DOMAIN asked = Readers /\ DOMAIN target = Readers
        /\ DOMAIN loaded = Readers /\ DOMAIN seen = Readers
    BY DEF TypeInv, TypeOK
  <1>2. /\ rpc'[w] = rpc[w] /\ asked'[w] = asked[w] /\ target'[w] = target[w]
        /\ loaded'[w] = loaded[w] /\ seen'[w] = seen[w]
    BY <1>1 DEF Open, OpenFails, Read, Reload, Observe, ObserveFails, Record, RecordFails, Respond,
          ReaderGoto
  <1>3. QED
    BY <1>2, QuietReader DEF ReadingInv

\* Rows and trail tell the same of every evidence, and nobody is told what is not on
\* record, however readings overlap, fail after their commit or are cut off.
THEOREM ReadingsAreAudited == Spec => []ReadingsAudited
  <1>1. Init => ReadingInv
    BY DEF Init, ReadingInv, ReaderGood, RowsGood, Working, Evidence
  <1>2. Init => RecordInv
    BY DEF Init, RecordInv, OneRecordPerContent, RowsBelongTogether, FoundRecorded, Evidence
  <1>3. ASSUME TypeInv, RecordInv, ReadingInv, [Next]_vars
        PROVE  ReadingInv'
    <2>1. ASSUME RecordsGrow, UNCHANGED <<asked, target, loaded, seen>>,
                 \A w \in Readers : rpc'[w] \in {rpc[w], "crashed"}
          PROVE  \A w \in Readers : ReaderGood(w)'
      BY <1>3, <2>1, QuietReader DEF ReadingInv
    <2>2. ASSUME NEW r \in Requests, Arrive(r) \/ Upload(r)
          PROVE  ReadingInv'
      <3>1. RecordsGrow /\ RowsGood' /\ UNCHANGED readerVars
        BY <1>3, <2>2, UploadKeepsReadings DEF ReadingInv
      <3>2. QED
        BY <2>1, <3>1 DEF ReadingInv, readerVars
    <2>3. ASSUME NEW v \in Readers, Open(v) \/ OpenFails(v) \/ Read(v)
          PROVE  ReadingInv'
      <3>1. RecordsGrow /\ RowsGood' /\ ReaderGood(v)'
        BY <1>3, <2>3, ReaderKeepsReadings
      <3>2. \A w \in Readers : w # v => ReaderGood(w)'
        BY <1>3, <2>3, <3>1, OthersStayGood
      <3>3. QED
        BY <3>1, <3>2 DEF ReadingInv
    <2>4. ASSUME UNCHANGED tableVars, UNCHANGED <<asked, target, loaded, seen>>,
                 \A w \in Readers : rpc'[w] \in {rpc[w], "crashed"}
          PROVE  ReadingInv'
      <3>1. RecordsGrow /\ RowsGood'
        BY <1>3, <2>4 DEF tableVars, RecordsGrow, RowsGood, ReadingInv, Evidence, Ids
      <3>2. QED
        BY <2>1, <2>4, <3>1 DEF ReadingInv
    <2>5. CASE Crash \/ (\E key \in stored : Damage(key)) \/ UNCHANGED vars
      BY <2>4, <2>5 DEF Crash, Damage, vars, readerVars
    <2>6. QED
      BY <1>3, <2>2, <2>3, <2>5 DEF Next
  <1>4. TypeInv /\ ReadingInv => ReadingsAudited
    <2>1. SUFFICES ASSUME TypeInv, ReadingInv PROVE ReadingsAudited
      OBVIOUS
    <2>2. Evidence \subseteq Ids
      BY <2>1 DEF TypeInv, TypeOK, TablesTyped
    <2>3. \A id \in Evidence : integrity[id] = "pending" => \A s \in Verdicts : <<id, s>> \notin verdicts
      BY <2>1, <2>2 DEF ReadingInv, RowsGood
    <2>4. ASSUME NEW v \in Readers, rpc[v] = "answered", asked[v] = "export"
          PROVE  {"EVIDENCE_VIEWED", "EVIDENCE_EXPORTED"} \X target[v] \subseteq audit
      <3>1. ReaderGood(v)
        BY <2>1 DEF ReadingInv
      <3>2. {"EVIDENCE_VIEWED"} \X target[v] \subseteq audit /\ {"EVIDENCE_EXPORTED"} \X target[v] \subseteq audit
        BY <2>4, <3>1 DEF ReaderGood, Working
      <3>3. QED
        BY <3>2
    <2>5. \A v \in Readers : rpc[v] = "answered" /\ asked[v] = "verify" =>
              target[v] \X {seen[v]} \subseteq verdicts
      BY <2>1 DEF ReadingInv, ReaderGood
    <2>6. QED
      BY <2>1, <2>3, <2>4, <2>5 DEF ReadingsAudited, ReadingInv, RowsGood
  <1>5. QED
    BY <1>1, <1>2, <1>3, <1>4, TypeCorrect, RecordsPreserved, PTL DEF Spec

-----------------------------------------------------------------------------
(***************************************************************************)
(* Without faults, races remain: uploads of the same bytes still collide.  *)
(***************************************************************************)

HealthyInv ==
    /\ missing = {} /\ corrupt = {}
    /\ HealthyStoreVerifies
    /\ \A v \in Readers : rpc[v] = "observed" => seen[v] = "verified"

\* No request and no reader damages an object, and what a reader works on is stored.
LEMMA StoreStaysHealthy ==
    ASSUME faults = {}, TypeInv, BackedInv, HealthyInv, [Next]_vars
    PROVE  HealthyInv'
  <1>1. ASSUME NEW r \in Requests, Arrive(r) \/ Upload(r)
        PROVE  HealthyInv'
    <2>1. UNCHANGED readerVars
      BY <1>1 DEF Arrive, Upload, Refuse, Lookup, LookupFails, Store, StoreFails, Persist,
            PersistFails, RecordOrphan, RecordOrphanFails, Restore, RestoreFails, Relink,
            RelinkFails, Answer, Fail
    <2>2. missing' = {} /\ corrupt' = {}
      BY <1>1 DEF Arrive, Upload, Refuse, Lookup, LookupFails, Store, StoreFails, Persist,
            PersistFails, RecordOrphan, RecordOrphanFails, Restore, RestoreFails, Relink,
            RelinkFails, Answer, Fail, Put, bucketVars, HealthyInv
    <2>3. CommitMetadata(r) \/ integrity' = integrity
      BY <1>1 DEF Arrive, Upload, Refuse, Lookup, LookupFails, Store, StoreFails, Persist,
            PersistFails, RecordOrphan, RecordOrphanFails, Restore, RestoreFails, Relink,
            RelinkFails, Answer, Fail, tableVars
    <2>4. HealthyStoreVerifies'
      BY <2>3 DEF HealthyInv, HealthyStoreVerifies, CommitMetadata, Evidence
    <2>5. QED
      BY <2>1, <2>2, <2>4 DEF HealthyInv, readerVars
  <1>2. ASSUME NEW v \in Readers, Open(v) \/ OpenFails(v) \/ Read(v)
        PROVE  HealthyInv'
    <2> USE DEF ReaderGoto
    <2>1. /\ rpc \in [Readers -> {"idle", "opened", "loaded", "observed", "recorded"} \cup Finished]
          /\ seen \in [Readers -> Verdicts \cup {"nothing"}]
      BY DEF TypeInv, TypeOK
    <2>2. missing' = {} /\ corrupt' = {}
      BY <1>2 DEF Open, OpenFails, Read, Reload, Observe, ObserveFails, Record, CommitReading, RecordFails, Respond, bucketVars, HealthyInv
    <2>3. HealthyStoreVerifies'
      <3>1. CASE Record(v)
        BY <3>1 DEF Record, CommitReading, HealthyInv, HealthyStoreVerifies, Evidence
      <3>2. CASE ~Record(v)
        <4>1. integrity' = integrity
          BY <1>2, <3>2 DEF Open, OpenFails, Read, Reload, Observe, ObserveFails,
                RecordFails, Respond, tableVars
        <4>2. QED
          BY <4>1 DEF HealthyInv, HealthyStoreVerifies, Evidence
      <3>3. QED
        BY <3>1, <3>2
    <2>4. ASSUME NEW w \in Readers, rpc'[w] = "observed"
          PROVE  seen'[w] = "verified"
      <3>1. CASE Observe(v)
        <4>1. PICK key \in target[v] :
                  /\ seen' = [seen EXCEPT ![v] = Inspect(key)]
                  /\ rpc' = [rpc EXCEPT ![v] =
                        IF asked[v] = "export" /\ Inspect(key) = "missing"
                        THEN "failed" ELSE "observed"]
          BY <3>1 DEF Observe
        <4>2. key \in stored
          BY DEF TypeInv, BackedInv, EvidenceBacked
        <4>3. Inspect(key) = "verified"
          BY <4>2 DEF Inspect, HealthyInv
        <4>4. QED
          BY <2>1, <2>4, <4>1, <4>3 DEF HealthyInv
      <3>2. CASE ~Observe(v)
        BY <1>2, <2>1, <2>4, <3>2 DEF Open, OpenFails, Read, Reload, ObserveFails, Record, RecordFails, Respond,
              HealthyInv
      <3>3. QED
        BY <3>1, <3>2
    <2>5. QED
      BY <2>2, <2>3, <2>4 DEF HealthyInv
  <1>3. CASE UNCHANGED vars
    BY <1>3 DEF vars, readerVars, tableVars, bucketVars, HealthyInv, HealthyStoreVerifies, Evidence
  <1>4. QED
    BY <1>1, <1>2, <1>3 DEF Next, Damage, Crash

\* With no fault, verifying never raises an alarm, however uploads, re-uploads and
\* verifications of the same bytes interleave.
THEOREM HealthyNeverAlarms == Spec => []HealthyStoreVerifies
  <1> DEFINE HealthyIfFair == faults = {} => HealthyInv
  <1>1. Init => HealthyIfFair
    BY DEF Init, HealthyInv, HealthyStoreVerifies, Evidence
  <1>2. Init => BackedInv
    BY DEF Init, BackedInv, EvidenceBacked, Evidence
  <1>3. TypeInv /\ BackedInv /\ [Next]_vars => BackedInv'
    BY BackedPreserved
  <1>4. TypeInv /\ BackedInv /\ HealthyIfFair /\ [Next]_vars => HealthyIfFair'
    BY StoreStaysHealthy, FaultsFixed
  <1>5. HealthyIfFair => HealthyStoreVerifies
    BY DEF HealthyInv, HealthyStoreVerifies
  <1> HIDE DEF HealthyIfFair
  <1>6. QED
    BY <1>1, <1>2, <1>3, <1>4, <1>5, TypeCorrect, PTL DEF Spec

\* Without faults an object without a row is the current file of a request that will
\* still record it, or is on record; and a request that recorded an orphan ended there.
OrphanInv ==
    /\ \A id \in stored \ Evidence : InFlight(id) \/ <<"EVIDENCE_ORPHANED", id>> \in audit
    /\ \A id \in Evidence : id[2] < position[id[1]]
    /\ \A id \in Ids : <<"EVIDENCE_ORPHANED", id>> \in audit =>
          id = Current(id[1]) /\ pc[id[1]] = "failed"

\* An identifier names its request and its position.
LEMMA IdParts ==
    ASSUME NEW id \in Ids
    PROVE  id[1] \in Requests /\ id = <<id[1], id[2]>> /\ id[2] \in 1..Len(Batch[id[1]])
  <1>1. PICK r \in Requests : id \in {r} \X (1..Len(Batch[r]))
    BY DEF Ids
  <1>2. QED
    BY <1>1

\* A step that keeps the rows and the record, with every stored object that is not in
\* flight accounted for, and no request leaving its file or its end.
LEMMA QuietOrphans ==
    ASSUME TypeInv, OrphanInv, Evidence' = Evidence, audit \subseteq audit',
           stored' \subseteq stored \cup Evidence,
           \A id \in Ids : <<"EVIDENCE_ORPHANED", id>> \in audit' => <<"EVIDENCE_ORPHANED", id>> \in audit,
           \A r \in Requests : position'[r] \in Nat /\ position'[r] >= position[r],
           \A r \in Requests : pc[r] \in {"persist", "orphan", "failed"} =>
               pc'[r] = pc[r] /\ position'[r] = position[r]
    PROVE  OrphanInv'
  <1>1. ASSUME NEW id \in stored' \ Evidence'
        PROVE  InFlight(id)' \/ <<"EVIDENCE_ORPHANED", id>> \in audit'
    <2>1. id \in stored \ Evidence /\ id \in Ids
      BY DEF TypeInv, TypeOK
    <2>2. CASE InFlight(id)
      BY <2>1, <2>2, IdParts DEF InFlight, Current
    <2>3. QED
      BY <2>1, <2>2 DEF OrphanInv
  <1>2. ASSUME NEW id \in Evidence'
        PROVE  id[2] < position'[id[1]]
    <2>1. id \in Ids /\ id[2] < position[id[1]]
      BY DEF TypeInv, TypeOK, TablesTyped, OrphanInv
    <2>2. id[1] \in Requests /\ id[2] \in Nat
      BY <2>1, IdParts, EvidenceStoreAssumption
    <2>3. position[id[1]] \in Nat /\ position'[id[1]] >= position[id[1]]
      BY <2>2 DEF TypeInv, TypeOK
    <2>4. position'[id[1]] \in Nat
      BY <2>2
    <2>5. QED
      BY <2>1, <2>2, <2>3, <2>4
  <1>3. ASSUME NEW id \in Ids, <<"EVIDENCE_ORPHANED", id>> \in audit'
        PROVE  id = Current(id[1])' /\ pc'[id[1]] = "failed"
    <2>1. id = Current(id[1]) /\ pc[id[1]] = "failed" /\ id[1] \in Requests
      BY <1>3, IdParts DEF OrphanInv
    <2>2. QED
      BY <2>1 DEF Current
  <1>4. QED
    BY <1>1, <1>2, <1>3 DEF OrphanInv

\* The steps of one file that leave no row behind: its upload, the loss of the race
\* for the digest, and the record of the orphan.
LEMMA FileStepsKeepOrphans ==
    ASSUME faults = {}, TypeInv, OrphanInv, NEW r \in Requests,
           Store(r) \/ PersistFails(r) \/ RecordOrphan(r)
    PROVE  OrphanInv'
  <1> USE DEF Goto
  <1>1. /\ Evidence' = Evidence /\ position' = position
        /\ pc[r] \in {"store", "persist", "orphan"}
        /\ \A q \in Requests : q # r => pc'[q] = pc[q]
        /\ pc \in [Requests -> {"idle", "acquire", "store", "persist", "orphan",
                                "restore", "relink"} \cup Finished]
    BY DEF Store, PersistFails, RecordOrphan, tableVars, Evidence, TypeInv, TypeOK
  <1>2. stored \subseteq Ids /\ Evidence \subseteq Ids
    BY DEF TypeInv, TypeOK, TablesTyped
  <1>3. \A id \in Evidence' : id[2] < position'[id[1]]
    BY <1>1 DEF OrphanInv
  <1>4. Current(r) \in Ids /\ Current(r)[1] = r
    BY <1>1, CurrentIsId DEF TypeInv, TypeOK, Busy, Current
  <1>5. CASE Store(r)
    <2>1. stored' = stored \cup {Current(r)} /\ audit' = audit /\ pc'[r] = "persist"
      BY <1>1, <1>5 DEF Store, Put, tableVars
    <2>2. ASSUME NEW id \in stored' \ Evidence'
          PROVE  InFlight(id)' \/ <<"EVIDENCE_ORPHANED", id>> \in audit'
      <3>1. CASE id = Current(r)
        BY <1>1, <1>4, <2>1, <3>1 DEF InFlight, Current
      <3>2. CASE id # Current(r) /\ InFlight(id)
        BY <1>1, <1>2, <1>5, <2>1, <2>2, <3>2, IdParts DEF InFlight, Current, Store
      <3>3. CASE id # Current(r) /\ ~InFlight(id)
        BY <1>1, <2>1, <2>2, <3>3 DEF OrphanInv
      <3>4. QED
        BY <3>1, <3>2, <3>3
    <2>3. ASSUME NEW id \in Ids, <<"EVIDENCE_ORPHANED", id>> \in audit'
          PROVE  id = Current(id[1])' /\ pc'[id[1]] = "failed"
      <3>1. id = Current(id[1]) /\ pc[id[1]] = "failed" /\ id[1] \in Requests
        BY <2>1, <2>3, IdParts DEF OrphanInv
      <3>2. QED
        BY <1>1, <3>1 DEF Current
    <2>4. QED
      BY <1>3, <2>2, <2>3 DEF OrphanInv
  <1>6. CASE PersistFails(r)
    <2>1. stored' = stored /\ audit' = audit /\ pc'[r] = "orphan"
      BY <1>1, <1>6 DEF PersistFails, bucketVars, tableVars
    <2>2. ASSUME NEW id \in stored' \ Evidence'
          PROVE  InFlight(id)' \/ <<"EVIDENCE_ORPHANED", id>> \in audit'
      <3>1. CASE InFlight(id)
        BY <1>1, <1>2, <2>1, <2>2, <3>1, IdParts DEF InFlight, Current
      <3>2. QED
        BY <1>1, <2>1, <2>2, <3>1 DEF OrphanInv
    <2>3. ASSUME NEW id \in Ids, <<"EVIDENCE_ORPHANED", id>> \in audit'
          PROVE  id = Current(id[1])' /\ pc'[id[1]] = "failed"
      <3>1. id = Current(id[1]) /\ pc[id[1]] = "failed" /\ id[1] \in Requests
        BY <2>1, <2>3, IdParts DEF OrphanInv
      <3>2. QED
        BY <1>1, <3>1 DEF Current
    <2>4. QED
      BY <1>3, <2>2, <2>3 DEF OrphanInv
  <1>7. CASE RecordOrphan(r)
    <2>1. /\ stored' = stored /\ audit' = audit \cup {<<"EVIDENCE_ORPHANED", Current(r)>>}
          /\ pc'[r] = "failed"
      BY <1>1, <1>7 DEF RecordOrphan, bucketVars
    <2>2. ASSUME NEW id \in stored' \ Evidence'
          PROVE  InFlight(id)' \/ <<"EVIDENCE_ORPHANED", id>> \in audit'
      <3>1. CASE id = Current(r)
        BY <2>1, <3>1
      <3>2. CASE id # Current(r) /\ InFlight(id)
        BY <1>1, <1>2, <2>1, <2>2, <3>2, IdParts DEF InFlight, Current
      <3>3. CASE id # Current(r) /\ ~InFlight(id)
        BY <1>1, <2>1, <2>2, <3>3 DEF OrphanInv
      <3>4. QED
        BY <3>1, <3>2, <3>3
    <2>3. ASSUME NEW id \in Ids, <<"EVIDENCE_ORPHANED", id>> \in audit'
          PROVE  id = Current(id[1])' /\ pc'[id[1]] = "failed"
      <3>1. CASE id = Current(r)
        BY <1>1, <1>4, <2>1, <3>1 DEF Current
      <3>2. CASE id # Current(r)
        <4>1. id = Current(id[1]) /\ pc[id[1]] = "failed" /\ id[1] \in Requests
          BY <2>1, <2>3, <3>2, IdParts DEF OrphanInv
        <4>2. QED
          BY <1>1, <4>1 DEF Current
      <3>3. QED
        BY <3>1, <3>2
    <2>4. QED
      BY <1>3, <2>2, <2>3 DEF OrphanInv
  <1>8. QED
    BY <1>5, <1>6, <1>7

\* The transaction that records a file takes it out of flight and moves the request on.
LEMMA PersistKeepsOrphans ==
    ASSUME TypeInv, OrphanInv, NEW r \in Requests, Persist(r)
    PROVE  OrphanInv'
  <1> USE DEF Goto
  <1>1. /\ pc[r] = "persist" /\ CommitMetadata(r)
        /\ position' = [position EXCEPT ![r] = @ + 1]
        /\ pc' = [pc EXCEPT ![r] = "acquire"]
        /\ stored' = stored
    BY DEF Persist, bucketVars
  <1>2. /\ Evidence' = Evidence \cup {Current(r)}
        /\ audit' = audit \cup {<<"ACQUISITION_CREATED", Current(r)>>, <<"EVIDENCE_STORED", Current(r)>>}
    BY <1>1 DEF CommitMetadata, Evidence
  <1>3. /\ pc \in [Requests -> {"idle", "acquire", "store", "persist", "orphan",
                                "restore", "relink"} \cup Finished]
        /\ position \in [Requests -> Nat \ {0}]
        /\ stored \subseteq Ids /\ Evidence \subseteq Ids
    BY DEF TypeInv, TypeOK, TablesTyped
  <1>4. Current(r) = <<r, position[r]>> /\ position'[r] = position[r] + 1
    BY <1>1, <1>3 DEF Current
  <1>5. \A q \in Requests : q # r => pc'[q] = pc[q] /\ position'[q] = position[q]
    BY <1>1, <1>3
  <1>6. ASSUME NEW id \in stored' \ Evidence'
        PROVE  InFlight(id)' \/ <<"EVIDENCE_ORPHANED", id>> \in audit'
    <2>1. id \in stored \ Evidence /\ id # Current(r) /\ id \in Ids
      BY <1>1, <1>2, <1>3
    <2>2. CASE InFlight(id)
      BY <1>5, <2>1, <2>2, IdParts DEF InFlight, Current
    <2>3. QED
      BY <1>2, <2>1, <2>2 DEF OrphanInv
  <1>7. ASSUME NEW id \in Evidence'
        PROVE  id[2] < position'[id[1]]
    <2>1. CASE id = Current(r)
      BY <1>3, <1>4, <2>1
    <2>2. CASE id # Current(r)
      <3>1. id \in Ids /\ id[1] \in Requests /\ id[2] < position[id[1]]
        BY <1>2, <1>3, <2>2, IdParts DEF OrphanInv
      <3>2. id[2] \in Nat
        BY <3>1, IdParts, EvidenceStoreAssumption
      <3>3. CASE id[1] = r
        BY <1>3, <1>4, <3>1, <3>2, <3>3
      <3>4. CASE id[1] # r
        BY <1>5, <3>1, <3>4
      <3>5. QED
        BY <3>3, <3>4
    <2>3. QED
      BY <2>1, <2>2
  <1>8. ASSUME NEW id \in Ids, <<"EVIDENCE_ORPHANED", id>> \in audit'
        PROVE  id = Current(id[1])' /\ pc'[id[1]] = "failed"
    <2>1. id = Current(id[1]) /\ pc[id[1]] = "failed" /\ id[1] \in Requests
      BY <1>2, <1>8, IdParts DEF OrphanInv
    <2>2. id[1] # r
      BY <1>1, <2>1
    <2>3. QED
      BY <1>5, <2>1, <2>2 DEF Current
  <1>9. QED
    BY <1>6, <1>7, <1>8 DEF OrphanInv

\* Every step keeps orphans and their record in step.
LEMMA OrphansStayOnRecord ==
    ASSUME faults = {}, TypeInv, RecordInv, OrphanInv, [Next]_vars
    PROVE  OrphanInv'
  <1>1. \A r \in Requests : position[r] \in Nat
    BY DEF TypeInv, TypeOK
  <1>2. ASSUME NEW r \in Requests,
               Arrive(r) \/ Refuse(r) \/ Lookup(r) \/ Restore(r) \/ Relink(r) \/ Answer(r)
        PROVE  OrphanInv'
    <2> USE DEF Goto
    <2>1. Evidence' = Evidence /\ audit' = audit
      BY <1>2 DEF Arrive, Refuse, Lookup, Restore, Relink, Answer, Fail, tableVars, Evidence
    <2>2. stored' \subseteq stored \cup Evidence
      <3>1. CASE Restore(r)
        <4>1. PICK key \in found[r] : stored' = stored \cup {key}
          BY <3>1 DEF Restore, Put
        <4>2. key \in Evidence
          BY DEF RecordInv, FoundRecorded, RowsBelongTogether
        <4>3. QED
          BY <4>1, <4>2
      <3>2. CASE ~Restore(r)
        BY <1>2, <3>2 DEF Arrive, Refuse, Lookup, Relink, Answer, Fail, bucketVars
      <3>3. QED
        BY <3>1, <3>2
    <2>3. /\ pc[r] \in {"idle", "acquire", "restore", "relink"}
          /\ \A q \in Requests : q # r => pc'[q] = pc[q] /\ position'[q] = position[q]
          /\ position'[r] \in {position[r], position[r] + 1}
      BY <1>2 DEF Arrive, Refuse, Lookup, Restore, Relink, Answer, Fail, TypeInv, TypeOK
    <2>4. \A q \in Requests : position'[q] \in Nat /\ position'[q] >= position[q]
      <3>1. \A q \in Requests : position'[q] \in {position[q], position[q] + 1}
        BY <2>3
      <3>2. QED
        BY <1>1, <3>1
    <2>5. \A q \in Requests : pc[q] \in {"persist", "orphan", "failed"} =>
              pc'[q] = pc[q] /\ position'[q] = position[q]
      BY <2>3
    <2>6. QED
      BY <2>1, <2>2, <2>4, <2>5, QuietOrphans
  <1>3. ASSUME NEW r \in Requests, Upload(r)
        PROVE  OrphanInv'
    <2>1. ~(LookupFails(r) \/ StoreFails(r) \/ RecordOrphanFails(r) \/ RestoreFails(r) \/ RelinkFails(r))
      BY DEF LookupFails, StoreFails, RecordOrphanFails, RestoreFails, RelinkFails
    <2>2. QED
      BY <1>2, <1>3, <2>1, FileStepsKeepOrphans, PersistKeepsOrphans DEF Upload
  <1>4. ASSUME NEW v \in Readers, Open(v) \/ OpenFails(v) \/ Read(v)
        PROVE  OrphanInv'
    <2>1. /\ Evidence' = Evidence /\ stored' = stored /\ pc' = pc /\ position' = position
          /\ audit \subseteq audit'
          /\ \A id \in Ids : <<"EVIDENCE_ORPHANED", id>> \in audit'
                 => <<"EVIDENCE_ORPHANED", id>> \in audit
      BY <1>4 DEF Open, OpenFails, Read, Reload, Observe, ObserveFails, Record, CommitReading, RecordFails, Respond, requestVars, bucketVars, tableVars, Evidence
    <2>2. QED
      BY <1>1, <2>1, QuietOrphans
  <1>5. CASE UNCHANGED vars
    BY <1>1, <1>5, QuietOrphans DEF vars, requestVars, bucketVars, tableVars, Evidence
  <1>6. QED
    BY <1>2, <1>3, <1>4, <1>5 DEF Next, Damage, Crash

\* With no fault, an object without a row is in flight or recorded as an orphan, and
\* no recorded orphan ever gets a row: who cleans up after the record loses nothing.
THEOREM OrphansAreOnRecord == Spec => []OrphansOnRecord
  <1> DEFINE OrphansIfFair == faults = {} => OrphanInv
  <1>1. Init => OrphansIfFair
    BY DEF Init, OrphanInv, Evidence
  <1>2. Init => RecordInv
    BY DEF Init, RecordInv, OneRecordPerContent, RowsBelongTogether, FoundRecorded, Evidence
  <1>3. TypeInv /\ RecordInv /\ OrphansIfFair /\ [Next]_vars => OrphansIfFair'
    BY OrphansStayOnRecord, FaultsFixed
  <1>4. TypeInv /\ OrphansIfFair => OrphansOnRecord
    <2>1. SUFFICES ASSUME TypeInv, OrphanInv, NEW id \in Ids,
                          <<"EVIDENCE_ORPHANED", id>> \in audit, id \in Evidence
                   PROVE  FALSE
      BY DEF OrphansOnRecord, OrphanInv
    <2>2. id[1] \in Requests /\ id[2] < position[id[1]] /\ id = Current(id[1])
      BY <2>1, IdParts DEF OrphanInv
    <2>3. id[2] = position[id[1]] /\ position[id[1]] \in Nat
      BY <2>1, <2>2 DEF Current, TypeInv, TypeOK
    <2>4. QED
      BY <2>2, <2>3
  <1> HIDE DEF OrphansIfFair
  <1>5. QED
    BY <1>1, <1>2, <1>3, <1>4, TypeCorrect, RecordsPreserved, PTL DEF Spec

-----------------------------------------------------------------------------
(***************************************************************************)
(* What uploading known bytes again restores.  The request puts back one   *)
(* of the objects it found; that these are all of them is that no content  *)
(* is ever recorded twice.                                                 *)
(***************************************************************************)

\* A request found one record at most, and has it when it restores.
LEMMA FoundIsOne ==
    ASSUME RecordInv, NEW r \in Requests, pc[r] = "restore",
           NEW key \in found[r], NEW id \in found[r]
    PROVE  id = key
  BY DEF RecordInv, FoundRecorded, OneRecordPerContent

\* Only its own two steps take a request from restoring to linking.
LEMMA RestoreSteps ==
    ASSUME TypeInv, [Next]_vars, NEW r \in Requests, pc[r] = "restore", pc'[r] = "relink"
    PROVE  Restore(r) \/ RestoreFails(r)
  <1>1. DOMAIN pc = Requests
    BY DEF TypeInv, TypeOK, Finished
  <1>2. ASSUME NEW q \in Requests, Arrive(q) \/ Upload(q)
        PROVE  Restore(r) \/ RestoreFails(r)
    <2>1. CASE q = r
      BY <1>1, <1>2, <2>1 DEF Arrive, Upload, Refuse, Lookup, LookupFails, Store, StoreFails,
            Persist, PersistFails, RecordOrphan, RecordOrphanFails, Relink, RelinkFails,
            Answer, Fail, Goto
    <2>2. CASE q # r
      <3>1. pc'[r] = pc[r]
        BY <1>1, <1>2, <2>2 DEF Arrive, Upload, Refuse, Lookup, LookupFails, Store, StoreFails,
              Persist, PersistFails, RecordOrphan, RecordOrphanFails, Restore, RestoreFails,
              Relink, RelinkFails, Answer, Fail, Goto
      <3>2. QED
        BY <3>1
    <2>3. QED
      BY <2>1, <2>2
  <1>3. CASE \E v \in Readers : Open(v) \/ OpenFails(v) \/ Read(v)
    BY <1>3 DEF Open, OpenFails, Read, Reload, Observe, ObserveFails, Record, CommitReading, RecordFails, Respond, requestVars
  <1>4. CASE \E key \in stored : Damage(key)
    BY <1>4 DEF Damage, requestVars
  <1>5. CASE Crash
    BY <1>5 DEF Crash
  <1>6. CASE UNCHANGED vars
    BY <1>6 DEF vars, requestVars
  <1>7. QED
    BY <1>2, <1>3, <1>4, <1>5, <1>6 DEF Next

\* As long as no call of the storage fails, a second upload of known bytes has put their
\* object back when it links them, whatever was lost or overwritten: only the swallowed
\* exception can leave a case with bytes that are not there.
THEOREM ReuploadsRestore == Spec => RestoresObjects
  <1>1. Init => RecordInv
    BY DEF Init, RecordInv, OneRecordPerContent, RowsBelongTogether, FoundRecorded, Evidence
  <1>2. TypeInv /\ RecordInv /\ [Next]_vars => [Restored]_vars
    <2> SUFFICES ASSUME TypeInv, RecordInv, [Next]_vars,
                        NEW r \in Requests, "storage" \notin faults,
                        pc[r] = "restore", pc'[r] = "relink", NEW id \in found[r]
                 PROVE  id \in stored' \ (missing' \cup corrupt')
      BY DEF Restored
    <2>1. Restore(r)
      BY RestoreSteps DEF RestoreFails
    <2>2. PICK key \in found[r] : Put(key)
      BY <2>1 DEF Restore
    <2>3. id = key
      BY FoundIsOne
    <2>4. QED
      BY <2>2, <2>3 DEF Put
  <1>3. QED
    BY <1>1, <1>2, TypeCorrect, RecordsPreserved, PTL DEF Spec, RestoresObjects

-----------------------------------------------------------------------------
(***************************************************************************)
(* Why evidence cannot be read.  The routes of a reader ask for the one    *)
(* case of the evidence, and fail as soon as two cases list it.  That the  *)
(* same bytes are uploaded to two cases is the only way to that: of the    *)
(* catalogue, and so of the service, it holds that a case lists nothing    *)
(* that was not brought to it.                                             *)
(***************************************************************************)

\* No content is uploaded to more than one case.
ContentsKeepToTheirCase ==
    \A r, q \in Requests :
        Catalogue!Brought(r) \cap Catalogue!Brought(q) # {} => CaseOf[r] = CaseOf[q]

BroughtInv ==
    \A f \in filedContents :
        \E r \in Requests : f[1] = CaseOf[r] /\ f[2] \in Catalogue!Brought(r)

\* The catalogue lists what was brought.
LEMMA CatalogueListsBrought ==
    ASSUME BroughtInv, [Catalogue!Next]_<<filedContents, outcomes>>
    PROVE  BroughtInv'
  <1>1. CASE UNCHANGED filedContents
    BY <1>1 DEF BroughtInv, Catalogue!Brought
  <1>2. ASSUME NEW r \in Requests, Catalogue!File(r)
        PROVE  BroughtInv'
    <2>1. PICK content \in Catalogue!Brought(r) :
              filedContents' = filedContents \cup {<<CaseOf[r], content>>}
      BY <1>2 DEF Catalogue!File
    <2>2. \A f \in filedContents' :
              \E q \in Requests : f[1] = CaseOf[q] /\ f[2] \in Catalogue!Brought(q)
      BY <2>1 DEF BroughtInv
    <2>3. QED
      BY <2>2 DEF BroughtInv, Catalogue!Brought
  <1>3. QED
    BY <1>1, <1>2 DEF Catalogue!Next, Catalogue!Refuse, Catalogue!Accept

\* So evidence that keeps to its case resolves.
LEMMA EvidenceResolves ==
    ASSUME ContentsKeepToTheirCase, BroughtInv, NEW id
    PROVE  ResolvesToOneCase(id)
  <1> DEFINE listing == {case \in Cases : <<case, id>> \in links}
  <1>1. ASSUME NEW c \in listing
        PROVE  \E r \in Requests : c = CaseOf[r] /\ ContentOf(id) \in Catalogue!Brought(r)
    <2>1. <<<<c, id>>[1], ContentOf(<<c, id>>[2])>> \in filedContents
      BY <1>1 DEF filedContents
    <2>2. <<c, ContentOf(id)>> \in filedContents
      BY <2>1
    <2>3. QED
      BY <2>2 DEF BroughtInv
  <1>2. ASSUME NEW c \in listing, NEW d \in listing
        PROVE  c = d
    <2>1. PICK r \in Requests : c = CaseOf[r] /\ ContentOf(id) \in Catalogue!Brought(r)
      BY <1>1
    <2>2. PICK q \in Requests : d = CaseOf[q] /\ ContentOf(id) \in Catalogue!Brought(q)
      BY <1>1
    <2>3. QED
      BY <2>1, <2>2 DEF ContentsKeepToTheirCase
  <1>3. listing = {} \/ \E c : listing = {c}
    BY <1>2
  <1>4. Cardinality(listing) \in {0, 1}
    BY <1>3, FS_EmptySet, FS_Singleton
  <1> HIDE DEF listing
  <1>5. Cardinality(listing) <= 1
    BY <1>4
  <1>6. QED
    BY <1>5 DEF ResolvesToOneCase, listing

\* Where nothing fails, a reader fails only on evidence that does not resolve.
LEMMA ReadersAreServed ==
    ASSUME faults = {}, ContentsKeepToTheirCase, TypeInv, BackedInv, HealthyInv, BroughtInv,
           EvidenceReadable, [Next]_vars
    PROVE  EvidenceReadable'
  <1> SUFFICES ASSUME NEW w \in Readers PROVE rpc'[w] # "failed"
    BY DEF EvidenceReadable
  <1> USE DEF ReaderGoto
  <1>1. /\ rpc[w] # "failed"
        /\ rpc \in [Readers -> {"idle", "opened", "loaded", "observed", "recorded"} \cup Finished]
    BY DEF EvidenceReadable, TypeInv, TypeOK
  <1>2. ASSUME NEW v \in Readers, Open(v)
        PROVE  rpc'[w] # "failed"
    <2>1. PICK label \in {"recorded", "opened"} : rpc' = [rpc EXCEPT ![v] = label]
      BY <1>2, EvidenceResolves DEF Open
    <2>2. QED
      BY <1>1, <2>1
  <1>3. ASSUME NEW v \in Readers, Observe(v)
        PROVE  rpc'[w] # "failed"
    <2>1. PICK key \in target[v] :
              rpc' = [rpc EXCEPT ![v] = IF asked[v] = "export" /\ Inspect(key) = "missing"
                                        THEN "failed" ELSE "observed"]
      BY <1>3 DEF Observe
    <2>2. key \in stored
      BY DEF TypeInv, BackedInv, EvidenceBacked
    <2>3. Inspect(key) = "verified"
      BY <2>2 DEF Inspect, HealthyInv
    <2>4. QED
      BY <1>1, <2>1, <2>3
  <1>4. ASSUME NEW v \in Readers, OpenFails(v) \/ Read(v), ~Observe(v)
        PROVE  rpc'[w] # "failed"
    BY <1>1, <1>4 DEF OpenFails, Read, Reload, ObserveFails, Record, RecordFails, Respond
  <1>5. CASE (\E r \in Requests : Arrive(r) \/ Upload(r)) \/ UNCHANGED vars
    <2>1. rpc' = rpc
      BY <1>5 DEF Arrive, Upload, Refuse, Lookup, LookupFails, Store, StoreFails, Persist,
            PersistFails, RecordOrphan, RecordOrphanFails, Restore, RestoreFails, Relink,
            RelinkFails, Answer, Fail, readerVars, vars
    <2>2. QED
      BY <1>1, <2>1
  <1>6. QED
    BY <1>2, <1>3, <1>4, <1>5 DEF Next, Damage, Crash

\* With no fault, and as long as no bytes are uploaded to two cases, every reader of
\* evidence is served: that sharing is all that evidence_shared has found.
THEOREM OnlySharingHidesEvidence ==
    ASSUME FaultSets = {{}}, ContentsKeepToTheirCase PROVE Spec => []EvidenceReadable
  <1> DEFINE Fair == faults = {}
  <1>1. Init => RecordInv /\ BackedInv /\ HealthyInv /\ BatchPrefixFiled
    BY DEF Init, RecordInv, OneRecordPerContent, RowsBelongTogether, FoundRecorded, Evidence,
          BackedInv, EvidenceBacked, HealthyInv, HealthyStoreVerifies, BatchPrefixFiled
  <1>2. Init => BroughtInv /\ EvidenceReadable
    BY DEF Init, BroughtInv, filedContents, EvidenceReadable
  <1>3. TypeInv /\ BackedInv /\ [Next]_vars => BackedInv'
    BY BackedPreserved
  <1>4. (Init => Fair) /\ (Fair /\ [Next]_vars => Fair')
    BY FaultsFixed DEF Init
  <1>5. TypeInv /\ Fair /\ BackedInv /\ HealthyInv /\ [Next]_vars => HealthyInv'
    BY StoreStaysHealthy
  <1>6. TypeInv /\ RecordInv /\ BatchPrefixFiled /\ BroughtInv /\ [Next]_vars => BroughtInv'
    BY StepRefines, CatalogueListsBrought
  <1>7. TypeInv /\ Fair /\ BackedInv /\ HealthyInv /\ BroughtInv /\ EvidenceReadable /\ [Next]_vars
            => EvidenceReadable'
    BY ReadersAreServed
  <1> HIDE DEF Fair
  <1>8. QED
    BY <1>1, <1>2, <1>3, <1>5, <1>6, <1>7, <1>4, TypeCorrect, RecordsPreserved, BatchesAreFiled, PTL
       DEF Spec

=============================================================================
