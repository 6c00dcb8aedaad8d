----------------------- MODULE EvidencePackage_proofs -----------------------
(***************************************************************************)
(* Proofs about EvidencePackage, for any cases, contents, clocks and       *)
(* numbers of actions, and timelines of any length.                        *)
(***************************************************************************)
EXTENDS EvidencePackage, FiniteSetTheorems, SequenceTheorems, TLAPS

(***************************************************************************)
(* Smallest and largest numbers, prefixes, and counting.                   *)
(***************************************************************************)

\* Of some numbers one is the smallest.
LEMMA SmallestNumber ==
    ASSUME NEW S \in SUBSET Nat, S # {}
    PROVE  \E i \in S : \A k \in S : i <= k
  <1>1. PICK i \in S : \A k \in S : ~(<<k, i>> \in OpToRel(<, Nat))
    BY WFMin, NatLessThanWellFounded
  <1>2. ASSUME NEW k \in S PROVE i <= k
    <2>1. ~(k < i)
      BY <1>1 DEF OpToRel
    <2>2. QED
      BY <2>1
  <1>3. QED
    BY <1>2

\* Places that have all earlier ones with them are the first so many.
LEMMA FirstSoMany ==
    ASSUME NEW n \in Nat, NEW S \in SUBSET (1..n),
           \A i \in S : \A k \in 1..n : k < i => k \in S
    PROVE  Cardinality(S) \in 0..n /\ S = 1..Cardinality(S)
  <1> DEFINE Left == {k \in 1..(n + 1) : k \notin S}
  <1>1. Left \in SUBSET Nat /\ n + 1 \in Left
    OBVIOUS
  <1>2. PICK m \in Left : \A k \in Left : m <= k
    BY <1>1, SmallestNumber
  <1>3. m \in 1..(n + 1) /\ m \notin S
    OBVIOUS
  <1>4. S = 1..(m - 1)
    <2>1. ASSUME NEW i \in 1..(m - 1) PROVE i \in S
      <3>1. i \notin Left
        BY <1>2, <1>3
      <3>2. QED
        BY <1>3, <3>1
    <2>2. ASSUME NEW i \in S PROVE i \in 1..(m - 1)
      <3>1. m \in 1..n => ~(m < i)
        BY <1>3
      <3>2. QED
        BY <1>3, <3>1
    <2>3. QED
      BY <2>1, <2>2
  <1>5. Cardinality(1..(m - 1)) = m - 1
    BY <1>3, FS_Interval
  <1>6. QED
    BY <1>3, <1>4, <1>5

\* An interval is finite, and holds as many numbers as it says.
LEMMA CountedUpTo ==
    ASSUME NEW n \in Nat
    PROVE  IsFiniteSet(1..n) /\ Cardinality(1..n) = n
  BY FS_Interval

\* Places of a sequence are finitely many.
LEMMA PlacesFinite ==
    ASSUME NEW n \in Nat, NEW S \in SUBSET (1..n)
    PROVE  IsFiniteSet(S) /\ Cardinality(S) \in 0..n
  <1>1. IsFiniteSet(1..n) /\ Cardinality(1..n) = n
    BY FS_Interval
  <1>2. IsFiniteSet(S) /\ Cardinality(S) <= n
    BY <1>1, FS_Subset
  <1>3. QED
    BY <1>2, FS_CardinalityType

-----------------------------------------------------------------------------
(***************************************************************************)
(* The chain of custody of one piece of evidence.                          *)
(***************************************************************************)

Entries ==
    [by : {"m4-ingest-engine", "m4-integrity-verifier", "m4-exporter"},
     action : {"ingest", "verify", "export"},
     at : Nat]

\* A new entry comes after those of its time and before the later ones.
LEMMA InsertKeepsOrder ==
    ASSUME NEW log \in Seq(Entries), InOrder(log), NEW e \in Entries
    PROVE  /\ InsertByTime(log, e) \in Seq(Entries)
           /\ InOrder(InsertByTime(log, e))
           /\ ToSet(InsertByTime(log, e)) = ToSet(log) \cup {e}
  <1> DEFINE before == {i \in DOMAIN log : log[i].at <= e.at}
             n == Cardinality(before)
             len == Len(log)
             head == SubSeq(log, 1, n)
             tail == SubSeq(log, n + 1, len)
             new == InsertByTime(log, e)
  <1>1. len \in Nat /\ DOMAIN log = 1..len /\ \A i \in 1..len : log[i] \in Entries
    BY LenProperties
  <1>2. \A x \in Entries : x.at \in Nat
    BY DEF Entries, Entry
  <1>3. n \in 0..len /\ before = 1..n
    <2>1. \A i \in before : \A k \in 1..len : k < i => k \in before
      BY <1>1, <1>2 DEF InOrder
    <2>2. before \in SUBSET (1..len)
      BY <1>1
    <2> HIDE DEF before
    <2>3. QED
      BY <1>1, <2>1, <2>2, FirstSoMany
  <1>4. \A i \in 1..len : i <= n <=> log[i].at <= e.at
    BY <1>1, <1>3
  <1>5. new = head \o <<e>> \o tail
    BY DEF InsertByTime
  <1> HIDE DEF before, new
  <1> HIDE DEF n, len
  <1>6. /\ head \in Seq(Entries) /\ Len(head) = n
        /\ \A i \in 1..n : head[i] = log[i]
    BY <1>1, <1>3, SubSeqProperties
  <1>7. /\ tail \in Seq(Entries) /\ Len(tail) = len - n
        /\ \A i \in 1..(len - n) : tail[i] = log[n + i]
    BY <1>1, <1>3, SubSeqProperties
  <1> HIDE DEF head, tail
  <1>8. /\ head \o <<e>> \in Seq(Entries) /\ Len(head \o <<e>>) = n + 1
        /\ \A i \in 1..n : (head \o <<e>>)[i] = log[i]
        /\ (head \o <<e>>)[n + 1] = e
    <2>1. <<e>> \in Seq(Entries) /\ Len(<<e>>) = 1 /\ <<e>>[1] = e
      OBVIOUS
    <2>2. QED
      BY <1>3, <1>6, <2>1, ConcatProperties
  <1>9. /\ new \in Seq(Entries) /\ Len(new) = len + 1
        /\ \A i \in 1..n : new[i] = log[i]
        /\ new[n + 1] = e
        /\ \A i \in (n + 2)..(len + 1) : new[i] = log[i - 1]
    <2> DEFINE both == head \o <<e>>
    <2>1. /\ both \in Seq(Entries) /\ Len(both) = n + 1
          /\ \A i \in 1..n : both[i] = log[i]
          /\ both[n + 1] = e /\ new = both \o tail
      BY <1>5, <1>8
    <2> HIDE DEF both
    <2>2. /\ both \o tail \in Seq(Entries) /\ Len(both \o tail) = Len(both) + Len(tail)
          /\ \A i \in 1..(Len(both) + Len(tail)) :
                 (both \o tail)[i] = IF i <= Len(both) THEN both[i] ELSE tail[i - Len(both)]
      BY <1>7, <2>1, ConcatProperties, Zenon
    <2>3. /\ Len(both) + Len(tail) = len + 1 /\ new \in Seq(Entries) /\ Len(new) = len + 1
          /\ \A i \in 1..(len + 1) : new[i] = IF i <= n + 1 THEN both[i] ELSE tail[i - (n + 1)]
      <3>1. Len(both) + Len(tail) = len + 1
        BY <1>1, <1>3, <1>7, <2>1
      <3>2. QED
        BY <2>1, <2>2, <3>1
    <2>4. ASSUME NEW i \in (n + 2)..(len + 1) PROVE new[i] = log[i - 1]
      <3>1. i - (n + 1) \in 1..(len - n) /\ n + (i - (n + 1)) = i - 1 /\ ~(i <= n + 1)
        BY <1>1, <1>3
      <3>2. new[i] = tail[i - (n + 1)]
        BY <1>1, <1>3, <2>3, <3>1
      <3>3. QED
        BY <1>7, <3>1, <3>2
    <2>5. \A i \in 1..n : new[i] = log[i]
      BY <1>1, <1>3, <2>1, <2>3
    <2>6. new[n + 1] = e
      BY <1>1, <1>3, <2>1, <2>3
    <2>7. QED
      BY <2>3, <2>4, <2>5, <2>6
  <1>10. DOMAIN new = 1..(len + 1)
    BY <1>9
  <1>11. InOrder(new)
    <2> SUFFICES ASSUME NEW i \in 1..(len + 1), NEW j \in 1..(len + 1), i < j
                 PROVE  new[i].at <= new[j].at
      BY <1>10 DEF InOrder
    <2>1. \A x, y \in 1..len : x < y => log[x].at <= log[y].at
      BY <1>1 DEF InOrder
    <2>2. CASE j <= n
      <3>1. i \in 1..n /\ j \in 1..n /\ i \in 1..len /\ j \in 1..len
        BY <1>1, <1>3, <2>2
      <3>2. QED
        BY <1>9, <2>1, <3>1
    <2>3. CASE i <= n /\ j = n + 1
      BY <1>1, <1>3, <1>4, <1>9, <2>3
    <2>4. CASE i <= n /\ j > n + 1
      <3>1. new[i] = log[i] /\ new[j] = log[j - 1] /\ i < j - 1 /\ i \in 1..len /\ j - 1 \in 1..len
        BY <1>1, <1>3, <1>9, <2>4
      <3>2. QED
        BY <2>1, <3>1
    <2>5. CASE i = n + 1
      <3>1. new[j] = log[j - 1] /\ j - 1 \in 1..len /\ ~(j - 1 <= n) /\ new[i] = e
        BY <1>1, <1>3, <1>9, <2>5
      <3>2. ~(log[j - 1].at <= e.at)
        BY <1>4, <3>1
      <3>3. log[j - 1].at \in Nat /\ e.at \in Nat
        BY <1>1, <1>2, <3>1
      <3>4. QED
        BY <3>1, <3>2, <3>3
    <2>6. CASE i > n + 1
      <3>1. /\ new[i] = log[i - 1] /\ new[j] = log[j - 1] /\ i - 1 < j - 1
            /\ i - 1 \in 1..len /\ j - 1 \in 1..len
        BY <1>1, <1>3, <1>9, <2>6
      <3>2. QED
        BY <2>1, <3>1
    <2>7. QED
      BY <1>1, <1>3, <2>2, <2>3, <2>4, <2>5, <2>6
  <1>12. ToSet(new) = ToSet(log) \cup {e}
    <2>1. \A i \in 1..(len + 1) : new[i] \in ToSet(log) \cup {e}
      <3>1. ASSUME NEW i \in 1..(len + 1)
            PROVE  new[i] = e \/ \E k \in 1..len : new[i] = log[k]
        <4>1. CASE i <= n
          BY <1>1, <1>3, <1>9, <4>1
        <4>2. CASE i > n + 1
          <5>1. i - 1 \in 1..len /\ new[i] = log[i - 1]
            BY <1>1, <1>3, <1>9, <4>2
          <5>2. QED
            BY <5>1
        <4>3. QED
          BY <1>3, <1>9, <4>1, <4>2
      <3>2. QED
        BY <1>1, <3>1 DEF ToSet
    <2>2. \A i \in 1..len : \E k \in 1..(len + 1) : new[k] = log[i]
      <3>1. ASSUME NEW i \in 1..len PROVE \E k \in 1..(len + 1) : new[k] = log[i]
        <4>1. CASE i <= n
          BY <1>1, <1>3, <1>9, <4>1
        <4>2. CASE i > n
          <5>1. i + 1 \in (n + 2)..(len + 1) /\ (i + 1) - 1 = i
            BY <1>1, <1>3, <4>2
          <5>2. new[i + 1] = log[i]
            BY <1>9, <5>1
          <5>3. i + 1 \in 1..(len + 1)
            BY <1>1
          <5>4. QED
            BY <5>2, <5>3
        <4>3. QED
          BY <1>1, <1>3, <4>1, <4>2
      <3>2. QED
        BY <3>1
    <2>3. n + 1 \in 1..(len + 1)
      BY <1>1, <1>3
    <2>4. ASSUME NEW x \in ToSet(log) PROVE x \in ToSet(new)
      BY <1>1, <1>10, <2>2, <2>4 DEF ToSet
    <2>5. e \in ToSet(new)
      BY <1>9, <1>10, <2>3 DEF ToSet
    <2>6. ToSet(new) \subseteq ToSet(log) \cup {e}
      BY <1>10, <2>1 DEF ToSet
    <2>7. QED
      BY <2>4, <2>5, <2>6
  <1>13. QED
    BY <1>9, <1>11, <1>12 DEF new

\* Recording an action adds it to the chain, unless the same is there, and keeps the order.
LEMMA RecordKeepsOrder ==
    ASSUME NEW log \in Seq(Entries), InOrder(log), NEW e \in Entries
    PROVE  /\ RecordAction(log, e) \in Seq(Entries)
           /\ InOrder(RecordAction(log, e))
           /\ ToSet(RecordAction(log, e)) = ToSet(log) \cup {e}
  BY InsertKeepsOrder DEF RecordAction

\* The chain begins empty.
LEMMA EmptyLog == <<>> \in Seq(Entries) /\ InOrder(<<>>) /\ ToSet(<<>>) = {}
  BY DEF InOrder, ToSet

\* The first action makes a chain of its own.
LEMMA FirstEntry ==
    ASSUME NEW e \in Entries
    PROVE  /\ RecordAction(<<>>, e) \in Seq(Entries) /\ InOrder(RecordAction(<<>>, e))
           /\ ToSet(RecordAction(<<>>, e)) = {e}
  <1> DEFINE log == <<>>
  <1>1. log \in Seq(Entries) /\ InOrder(log) /\ ToSet(log) = {}
    BY EmptyLog
  <1> HIDE DEF log
  <1>2. /\ RecordAction(log, e) \in Seq(Entries) /\ InOrder(RecordAction(log, e))
        /\ ToSet(RecordAction(log, e)) = ToSet(log) \cup {e}
    BY <1>1, RecordKeepsOrder
  <1>3. ToSet(RecordAction(log, e)) = {e}
    BY <1>1, <1>2
  <1>4. QED
    BY <1>2, <1>3 DEF log

-----------------------------------------------------------------------------
(***************************************************************************)
(* The invariant of the package.  The numbers of packages are given out    *)
(* one after the other, so that nothing has been done yet on a new one.    *)
(***************************************************************************)

PerformedIn(D, number, id) == {d.entry : d \in {x \in D : x.of = number /\ x.id = id}}

\* The chain of custody of a piece of evidence tells what D says was done.
ChainTells(D, p, id) ==
    /\ p.logs[id] \in Seq(Entries)
    /\ InOrder(p.logs[id])
    /\ ToSet(p.logs[id]) = PerformedIn(D, p.number, id)
    /\ \E e \in PerformedIn(D, p.number, id) : e.action = "ingest"

\* A result is that of bytes that were checked against the reference at its time.
ResultStands(D, p, id) ==
    /\ \E content : p.results[id] = Result(RefOf(p, id), content, p.results[id].at)
    /\ \E e \in PerformedIn(D, p.number, id) : e.action = "verify" /\ e.at = p.results[id].at

PackageTells(D, refs, p) ==
    /\ DOMAIN p = {"number", "refs", "results", "logs"}
    /\ p.refs = refs
    /\ DOMAIN p.logs = Declared(p)
    /\ DOMAIN p.results \subseteq Declared(p)
    /\ \A id \in Declared(p) : ChainTells(D, p, id)
    /\ \A id \in DOMAIN p.results : ResultStands(D, p, id)

ItemTells(D, row, id) ==
    /\ row.events \subseteq PerformedIn(D, row.of, id)
    /\ \E e \in row.events : e.action = "ingest"

Numbered(D) == \E k \in Nat : {d.of : d \in D} = 1..k

CustodyInv ==
    /\ case \in CasePayloads /\ clock \in Times
    /\ Numbered(done)
    /\ \A p \in package : PackageTells(done, Adapted(case.refs), p)
    /\ \A id \in DOMAIN items : ItemTells(done, items[id], id)

\* What is on file stays true when more is done.
LEMMA ItemsStay ==
    ASSUME NEW D, NEW E, D \subseteq E, NEW row, NEW id, ItemTells(D, row, id)
    PROVE  ItemTells(E, row, id)
  BY DEF ItemTells, PerformedIn

\* What an action adds to what was done, of which piece of evidence.
More(S, x) == S \cup {x}

\* What is done on a piece of evidence is added to what was done on it.
LEMMA DoneAdds ==
    ASSUME NEW D, NEW p, NEW id, NEW e
    PROVE  PerformedIn(More(D, Did(p, id, e)), p.number, id) = More(PerformedIn(D, p.number, id), e)
  <1> DEFINE d == Did(p, id, e)
             Those(S) == {y \in S : y.of = p.number /\ y.id = id}
  <1>1. d.of = p.number /\ d.id = id /\ d.entry = e
    BY DEF Did
  <1>2. \A S : PerformedIn(S, p.number, id) = {y.entry : y \in Those(S)}
    BY DEF PerformedIn
  <1> HIDE DEF d
  <1>3. Those(D \cup {d}) = Those(D) \cup {d}
    BY <1>1
  <1> HIDE DEF Those
  <1>4. {y.entry : y \in Those(D) \cup {d}} = {y.entry : y \in Those(D)} \cup {e}
    BY <1>1
  <1>5. QED
    BY <1>2, <1>3, <1>4 DEF d, More

\* What was done on the others stays as it was.
LEMMA DoneLeaves ==
    ASSUME NEW D, NEW p, NEW id, NEW e, NEW x, x # id
    PROVE  PerformedIn(More(D, Did(p, id, e)), p.number, x) = PerformedIn(D, p.number, x)
  <1> DEFINE d == Did(p, id, e)
             Those(S) == {y \in S : y.of = p.number /\ y.id = x}
  <1>1. d.id = id
    BY DEF Did
  <1>2. \A S : PerformedIn(S, p.number, x) = {y.entry : y \in Those(S)}
    BY DEF PerformedIn
  <1> HIDE DEF d
  <1>3. Those(D \cup {d}) = Those(D)
    BY <1>1
  <1> HIDE DEF Those
  <1>4. QED
    BY <1>2, <1>3 DEF d, More

\* An action on one piece of evidence leaves a package that tells of it.
LEMMA ActionIsTold ==
    ASSUME NEW D, NEW refs, NEW p, PackageTells(D, refs, p), NEW id \in Declared(p),
           NEW e \in Entries, NEW q,
           DOMAIN q = DOMAIN p, q.number = p.number, q.refs = p.refs,
           q.logs = [p.logs EXCEPT ![id] = RecordAction(@, e)],
           DOMAIN q.results \subseteq Declared(p),
           \A x \in DOMAIN q.results : ResultStands(More(D, Did(p, id, e)), q, x)
    PROVE  PackageTells(More(D, Did(p, id, e)), refs, q)
  <1> DEFINE E == More(D, Did(p, id, e))
  <1>1. q.number = p.number /\ q.refs = p.refs /\ p.refs = refs /\ DOMAIN p.logs = Declared(p)
    BY DEF PackageTells
  <1>2. Declared(q) = Declared(p)
    BY <1>1 DEF Declared
  <1>3. q.logs = [p.logs EXCEPT ![id] = RecordAction(@, e)]
    OBVIOUS
  <1>0. E = More(D, Did(p, id, e))
    OBVIOUS
  <1> HIDE DEF E
  <1>4. ASSUME NEW x \in Declared(p)
        PROVE  ChainTells(E, q, x)
    <2>1. ChainTells(D, p, x)
      BY DEF PackageTells
    <2>2. CASE x = id
      <3>1. q.logs[x] = RecordAction(p.logs[x], e)
        BY <1>1, <1>3, <2>2
      <3>2. /\ q.logs[x] \in Seq(Entries) /\ InOrder(q.logs[x])
            /\ ToSet(q.logs[x]) = ToSet(p.logs[x]) \cup {e}
        BY <2>1, <3>1, RecordKeepsOrder DEF ChainTells
      <3>3. PerformedIn(E, q.number, x) = PerformedIn(D, p.number, x) \cup {e}
        <4>1. PerformedIn(E, p.number, id) = More(PerformedIn(D, p.number, id), e)
          BY <1>0, DoneAdds
        <4>2. QED
          BY <1>1, <2>2, <4>1 DEF More
      <3>4. QED
        BY <2>1, <3>2, <3>3 DEF ChainTells
    <2>3. CASE x # id
      <3>1. q.logs[x] = p.logs[x]
        BY <1>1, <1>3, <2>3
      <3>2. PerformedIn(E, q.number, x) = PerformedIn(D, p.number, x)
        <4>1. PerformedIn(E, p.number, x) = PerformedIn(D, p.number, x)
          BY <1>0, <2>3, DoneLeaves
        <4>2. QED
          BY <1>1, <4>1
      <3>3. QED
        BY <1>1, <2>1, <3>1, <3>2 DEF ChainTells
    <2>4. QED
      BY <2>2, <2>3
  <1>5. DOMAIN q = {"number", "refs", "results", "logs"} /\ q.refs = refs
    BY <1>1 DEF PackageTells
  <1>6. DOMAIN q.logs = Declared(q)
    BY <1>1, <1>2, <1>3
  <1>7. QED
    BY <1>2, <1>4, <1>5, <1>6 DEF PackageTells, E

\* The results that stand are not touched by an action that brings none.
LEMMA ResultsStay ==
    ASSUME NEW D, NEW E, D \subseteq E, NEW p, NEW q, q.number = p.number, q.refs = p.refs,
           NEW x, q.results[x] = p.results[x], ResultStands(D, p, x)
    PROVE  ResultStands(E, q, x)
  <1>1. RefOf(q, x) = RefOf(p, x)
    BY DEF RefOf
  <1>2. PerformedIn(D, p.number, x) \subseteq PerformedIn(E, q.number, x)
    BY DEF PerformedIn
  <1>3. QED
    BY <1>1, <1>2 DEF ResultStands

\* An action on a package that is known gives out no number.
LEMMA NumbersStay ==
    ASSUME NEW D, Numbered(D), NEW refs, NEW p, PackageTells(D, refs, p),
           NEW id \in Declared(p), NEW e
    PROVE  Numbered(More(D, Did(p, id, e)))
  <1>1. PICK d \in D : d.of = p.number
    BY DEF PackageTells, ChainTells, PerformedIn
  <1>2. {d2.of : d2 \in More(D, Did(p, id, e))} = {d2.of : d2 \in D}
    BY <1>1 DEF Did, More
  <1>3. QED
    BY <1>2 DEF Numbered

\* An action changes the chain of one piece of evidence, and a verification the results.
LEMMA OneChain ==
    ASSUME NEW p, DOMAIN p = {"number", "refs", "results", "logs"}, NEW id, NEW chain, NEW q
    PROVE  /\ q = [p EXCEPT !.logs[id] = chain] =>
                  /\ DOMAIN q = DOMAIN p /\ q.number = p.number /\ q.refs = p.refs
                  /\ q.results = p.results /\ q.logs = [p.logs EXCEPT ![id] = chain]
           /\ \A results : q = [p EXCEPT !.results = results, !.logs[id] = chain] =>
                  /\ DOMAIN q = DOMAIN p /\ q.number = p.number /\ q.refs = p.refs
                  /\ q.results = results /\ q.logs = [p.logs EXCEPT ![id] = chain]
  OBVIOUS

\* A clock shows a time.
LEMMA ClockTimes == Times \subseteq Nat
  BY PackageAssumption DEF Times

\* Verification keeps the invariant.
LEMMA VerifyKeeps ==
    ASSUME CustodyInv, Verify
    PROVE  CustodyInv'
  <1>1. PICK p \in package : \E id \in Declared(p), content \in Contents :
            /\ package' = {Verified(p, id, content, "m4-integrity-verifier", clock)}
            /\ done' = done \cup {Did(p, id, Entry("m4-integrity-verifier", "verify", clock))}
    BY DEF Verify
  <1>2. PICK id \in Declared(p), content \in Contents :
            /\ package' = {Verified(p, id, content, "m4-integrity-verifier", clock)}
            /\ done' = done \cup {Did(p, id, Entry("m4-integrity-verifier", "verify", clock))}
    BY <1>1
  <1> DEFINE e == Entry("m4-integrity-verifier", "verify", clock)
             refs == Adapted(case.refs)
             q == Verified(p, id, content, "m4-integrity-verifier", clock)
             E == More(done, Did(p, id, e))
  <1>3. case' = case /\ items' = items /\ clock' = clock
    BY DEF Verify
  <1>4. PackageTells(done, refs, p) /\ Numbered(done) /\ clock \in Nat
    BY ClockTimes DEF CustodyInv
  <1>5. /\ DOMAIN p = {"number", "refs", "results", "logs"}
        /\ DOMAIN p.results \subseteq Declared(p)
    BY <1>4 DEF PackageTells
  <1>6. /\ DOMAIN q = DOMAIN p /\ q.number = p.number /\ q.refs = p.refs
        /\ q.logs = [p.logs EXCEPT ![id] = RecordAction(@, e)]
        /\ q.results = [x \in DOMAIN p.results \cup {id} |->
                           IF x = id THEN Result(RefOf(p, id), content, clock) ELSE p.results[x]]
    BY <1>5, OneChain DEF Verified
  <1>7. e \in Entries /\ e.action = "verify" /\ e.at = clock
    <2>1. e \in Entries
      BY <1>4 DEF Entries, Entry
    <2>2. QED
      BY <2>1 DEF Entry
  <1>0. E = More(done, Did(p, id, e)) /\ package' = {q} /\ done' = E /\ done \subseteq E
    BY <1>2 DEF More
  <1> HIDE DEF q, e, E
  <1>8. ASSUME NEW x \in DOMAIN q.results
        PROVE  ResultStands(E, q, x)
    <2>1. CASE x = id
      <3>1. q.results[x] = Result(RefOf(p, id), content, clock)
        BY <1>6, <2>1
      <3>2. RefOf(q, x) = RefOf(p, id) /\ q.results[x].at = clock
        BY <1>6, <2>1, <3>1 DEF RefOf, Result
      <3>3. e \in PerformedIn(E, q.number, x)
        <4>1. PerformedIn(E, p.number, id) = More(PerformedIn(done, p.number, id), e)
          BY <1>0, DoneAdds
        <4>2. QED
          BY <1>6, <2>1, <4>1 DEF More
      <3>4. QED
        BY <1>7, <3>1, <3>2, <3>3 DEF ResultStands
    <2>2. CASE x # id
      <3>1. x \in DOMAIN p.results /\ q.results[x] = p.results[x]
        BY <1>6, <2>2
      <3>2. ResultStands(done, p, x)
        BY <1>4, <3>1 DEF PackageTells
      <3>3. q.number = p.number /\ q.refs = p.refs
        BY <1>6
      <3>4. QED
        BY <1>0, <3>1, <3>2, <3>3, ResultsStay
    <2>3. QED
      BY <2>1, <2>2
  <1>9. PackageTells(E, refs, q)
    <2>1. DOMAIN q.results \subseteq Declared(p)
      BY <1>5, <1>6
    <2>2. QED
      BY <1>0, <1>4, <1>6, <1>7, <1>8, <2>1, ActionIsTold
  <1>10. Numbered(E)
    BY <1>0, <1>4, NumbersStay
  <1>11. QED
    BY <1>0, <1>3, <1>9, <1>10, ItemsStay DEF CustodyInv

\* So does an export.
LEMMA ExportKeeps ==
    ASSUME CustodyInv, Export
    PROVE  CustodyInv'
  <1> DEFINE e == Entry("m4-exporter", "export", clock)
             refs == Adapted(case.refs)
  <1>1. PICK p \in package : \E id \in Declared(p) :
            /\ package' = {[p EXCEPT !.logs[id] = RecordAction(@, e)]}
            /\ done' = done \cup {Did(p, id, e)}
    BY DEF Export
  <1>2. PICK id \in Declared(p) :
            /\ package' = {[p EXCEPT !.logs[id] = RecordAction(@, e)]}
            /\ done' = done \cup {Did(p, id, e)}
    BY <1>1
  <1> DEFINE q == [p EXCEPT !.logs[id] = RecordAction(@, e)]
             E == More(done, Did(p, id, e))
  <1>3. case' = case /\ items' = items /\ clock' = clock
    BY DEF Export
  <1>4. PackageTells(done, refs, p) /\ Numbered(done) /\ clock \in Nat
    BY ClockTimes DEF CustodyInv
  <1>5. /\ DOMAIN p = {"number", "refs", "results", "logs"}
        /\ DOMAIN p.results \subseteq Declared(p)
    BY <1>4 DEF PackageTells
  <1>6. /\ DOMAIN q = DOMAIN p /\ q.number = p.number /\ q.refs = p.refs
        /\ q.logs = [p.logs EXCEPT ![id] = RecordAction(@, e)]
        /\ q.results = p.results
    BY <1>5, OneChain
  <1>7. e \in Entries
    BY <1>4 DEF Entries, Entry
  <1>8. E = More(done, Did(p, id, e)) /\ package' = {q} /\ done' = E /\ done \subseteq E
    BY <1>2 DEF More
  <1> HIDE DEF q, e, E
  <1>9. PackageTells(E, refs, q)
    <2>1. ASSUME NEW x \in DOMAIN q.results
          PROVE  ResultStands(E, q, x)
      <3>1. ResultStands(done, p, x)
        BY <1>4, <1>6, <2>1 DEF PackageTells
      <3>2. q.number = p.number /\ q.refs = p.refs /\ q.results[x] = p.results[x]
        BY <1>6
      <3>3. QED
        BY <1>8, <3>1, <3>2, ResultsStay
    <2>2. QED
      BY <1>4, <1>5, <1>6, <1>7, <1>8, <2>1, ActionIsTold
  <1>10. Numbered(E)
    BY <1>4, <1>8, NumbersStay
  <1>11. QED
    BY <1>3, <1>8, <1>9, <1>10, ItemsStay DEF CustodyInv

\* A package that is built and verified has the fields of the bare one but for two.
LEMMA BuiltFields ==
    ASSUME NEW number, NEW refs, NEW results, NEW logs, NEW standing, NEW chains, NEW bare, NEW q,
           bare = [number |-> number, refs |-> refs, results |-> results, logs |-> logs],
           q = [bare EXCEPT !.results = standing, !.logs = chains]
    PROVE  /\ bare.number = number /\ bare.refs = refs /\ bare.logs = logs
           /\ DOMAIN q = {"number", "refs", "results", "logs"}
           /\ q.number = number /\ q.refs = refs /\ q.results = standing /\ q.logs = chains
  OBVIOUS

\* A new package has a number that nothing bears: what has been done on it is what its
\* building did.
LEMMA NewNumber ==
    ASSUME Numbered(done)
    PROVE  \E k \in Nat : /\ 1 + Cardinality({d.of : d \in done}) = k + 1
                          /\ {d.of : d \in done} = 1..k
  <1> DEFINE numbers == {d.of : d \in done}
  <1>1. PICK k \in Nat : numbers = 1..k
    BY DEF Numbered
  <1> HIDE DEF numbers
  <1>2. Cardinality(1..k) = k
    BY FS_Interval
  <1>3. Cardinality(numbers) = k
    BY <1>1, <1>2
  <1>4. \E j \in Nat : 1 + Cardinality(numbers) = j + 1 /\ numbers = 1..j
    BY <1>1, <1>3
  <1>5. QED
    BY <1>4 DEF numbers

\* What is done on the pieces of evidence of a new package by its building.
Building(D, bare, ids, some, e, f) ==
    D \cup {Did(bare, id, e[id]) : id \in ids} \cup {Did(bare, id, f[id]) : id \in some}

BuiltOn(x, some, e, f) == IF x \in some THEN {e[x], f[x]} ELSE {e[x]}

\* Building a package does on each piece of evidence what the adapter records: an ingest,
\* and a verification where bytes were at hand.
LEMMA DoneByBuild ==
    ASSUME NEW D, NEW bare, NEW ids, NEW some \in SUBSET ids, NEW e, NEW f,
           \A d \in D : d.of # bare.number,
           NEW x \in ids
    PROVE  PerformedIn(Building(D, bare, ids, some, e, f), bare.number, x) = BuiltOn(x, some, e, f)
  <1> DEFINE E == Building(D, bare, ids, some, e, f)
             Those == {y \in E : y.of = bare.number /\ y.id = x}
  <1>1. \A id, g : Did(bare, id, g).of = bare.number /\ Did(bare, id, g).id = id
                                                     /\ Did(bare, id, g).entry = g
    BY DEF Did
  <1>2. PerformedIn(E, bare.number, x) = {y.entry : y \in Those}
    BY DEF PerformedIn
  <1>3. ASSUME NEW y \in Those
        PROVE  y = Did(bare, x, e[x]) \/ (x \in some /\ y = Did(bare, x, f[x]))
    <2>1. y \in E /\ y.of = bare.number /\ y.id = x
      OBVIOUS
    <2>2. \/ \E id \in ids : y = Did(bare, id, e[id])
          \/ \E id \in some : y = Did(bare, id, f[id])
      BY <2>1 DEF Building
    <2>3. QED
      BY <1>1, <2>1, <2>2
  <1>4. Did(bare, x, e[x]) \in Those
    BY <1>1 DEF Building
  <1>5. x \in some => Did(bare, x, f[x]) \in Those
    BY <1>1 DEF Building
  <1> HIDE DEF Those
  <1>6. CASE x \in some
    <2>1. Those = {Did(bare, x, e[x]), Did(bare, x, f[x])}
      BY <1>3, <1>4, <1>5, <1>6
    <2>2. {y.entry : y \in Those} = {e[x], f[x]}
      BY <1>1, <2>1
    <2>3. QED
      BY <1>2, <1>6, <2>2 DEF BuiltOn
  <1>7. CASE x \notin some
    <2>1. Those = {Did(bare, x, e[x])}
      BY <1>3, <1>4, <1>7
    <2>2. {y.entry : y \in Those} = {e[x]}
      BY <1>1, <2>1
    <2>3. QED
      BY <1>2, <1>7, <2>2 DEF BuiltOn
  <1>8. QED
    BY <1>6, <1>7

\* The building of a package keeps the invariant.
LEMMA BuildKeeps ==
    ASSUME CustodyInv, Build
    PROVE  CustodyInv'
  <1> DEFINE number == 1 + Cardinality({d.of : d \in done})
             refs == Adapted(case.refs)
             ids == {r.id : r \in refs}
             Ingest(begun) == [id \in ids |-> Entry("m4-ingest-engine", "ingest", begun[id])]
             Logs(begun) == [id \in ids |-> RecordAction(<<>>, Ingest(begun)[id])]
             Bare(begun) == [number |-> number, refs |-> refs, results |-> <<>>, logs |-> Logs(begun)]
             Check(given, ended) ==
                 [id \in given \cap ids |-> Entry("m4-ingest-engine", "verify", ended[id])]
             Standing(given, bytes, begun, ended) ==
                 [id \in given \cap ids |-> Result(RefOf(Bare(begun), id), bytes[id], ended[id])]
             Chains(given, begun, ended) ==
                 [id \in ids |-> IF id \in given
                                 THEN RecordAction(Bare(begun).logs[id], Check(given, ended)[id])
                                 ELSE Bare(begun).logs[id]]
             Built(given, bytes, begun, ended) ==
                 /\ package' = {[Bare(begun) EXCEPT !.results = Standing(given, bytes, begun, ended),
                                                    !.logs = Chains(given, begun, ended)]}
                 /\ done' = done \cup {Did(Bare(begun), id, Ingest(begun)[id]) : id \in ids}
                         \cup {Did(Bare(begun), id, Check(given, ended)[id]) : id \in given \cap ids}
  <1> DEFINE Step(given, bytes, begun, ended) ==
                 /\ package' = {[Bare(begun) EXCEPT
                       !.results = Standing(given, bytes, begun, ended),
                       !.logs = [id \in ids |-> IF id \in given
                                    THEN RecordAction(@[id], Check(given, ended)[id]) ELSE @[id]]]}
                 /\ done' = done \cup {Did(Bare(begun), id, Ingest(begun)[id]) : id \in ids}
                         \cup {Did(Bare(begun), id, Check(given, ended)[id]) : id \in given \cap ids}
  <1>0. PICK given \in SUBSET Ids : \E bytes \in [given -> Contents] :
        \E begun \in [ids -> Times], ended \in [given \cap ids -> Times] :
            /\ ~ Refused(case)
            /\ Busy(Cardinality(ids) + Cardinality(given \cap ids))
            /\ package' = {[Bare(begun) EXCEPT
                  !.results = Standing(given, bytes, begun, ended),
                  !.logs = [id \in ids |-> IF id \in given
                               THEN RecordAction(@[id], Check(given, ended)[id]) ELSE @[id]]]}
            /\ done' = done \cup {Did(Bare(begun), id, Ingest(begun)[id]) : id \in ids}
                    \cup {Did(Bare(begun), id, Check(given, ended)[id]) : id \in given \cap ids}
            /\ UNCHANGED <<case, report, document, items, clock>>
    BY Zenon DEF Build
  <1>1. PICK bytes \in [given -> Contents], begun \in [ids -> Times],
             ended \in [given \cap ids -> Times] :
            Step(given, bytes, begun, ended)
    <2> HIDE DEF ids, Bare, Standing, Check, Ingest
    <2>1. QED
      BY <1>0, Zenon
  <1> DEFINE ingest == Ingest(begun)
             logs == Logs(begun)
             bare == Bare(begun)
             verify == Check(given, ended)
             standing == Standing(given, bytes, begun, ended)
             chains == Chains(given, begun, ended)
             q == [bare EXCEPT !.results = standing, !.logs = chains]
             E == done \cup {Did(bare, id, ingest[id]) : id \in ids}
                       \cup {Did(bare, id, verify[id]) : id \in given \cap ids}
  <1>2. case' = case /\ items' = items /\ clock' = clock
    <2> HIDE DEF ids, Bare, Standing, Check, Ingest
    <2>1. QED
      BY <1>0, Zenon
  <1>3. /\ Numbered(done)
        /\ \A x \in ids : begun[x] \in Nat
        /\ \A x \in given \cap ids : ended[x] \in Nat
    <2> HIDE DEF ids
    <2>1. QED
      BY ClockTimes DEF CustodyInv
  <1>4. /\ bare.number = number /\ bare.refs = refs /\ bare.logs = logs
        /\ DOMAIN q = {"number", "refs", "results", "logs"}
        /\ q.number = number /\ q.refs = refs /\ q.results = standing /\ q.logs = chains
    <2>1. bare = [number |-> number, refs |-> refs, results |-> <<>>, logs |-> logs]
      <3> HIDE DEF number, refs, Logs
      <3>1. QED
        OBVIOUS
    <2>2. q = [bare EXCEPT !.results = standing, !.logs = chains]
      <3> HIDE DEF bare, standing, chains
      <3>1. QED
        OBVIOUS
    <2> HIDE DEF number, refs, logs, bare, standing, chains, q
    <2>3. QED
      BY <2>1, <2>2, BuiltFields
  <1>5. PICK k \in Nat : number = k + 1 /\ {d.of : d \in done} = 1..k
    BY <1>3, NewNumber
  <1>6. \A d \in done : d.of # bare.number
    <2>1. ASSUME NEW d \in done PROVE d.of \in 1..k
      BY <1>5
    <2>2. QED
      BY <1>4, <1>5, <2>1
  <1>7. /\ \A x \in ids : ingest[x] \in Entries /\ ingest[x].action = "ingest"
        /\ \A x \in given \cap ids :
              verify[x] \in Entries /\ verify[x].action = "verify" /\ verify[x].at = ended[x]
    <2> HIDE DEF ids
    <2>1. \A at \in Nat, action \in {"ingest", "verify"} :
              LET e == Entry("m4-ingest-engine", action, at)
              IN  e \in Entries /\ e.action = action /\ e.at = at
      BY DEF Entries, Entry
    <2>2. /\ \A x \in ids : ingest[x] = Entry("m4-ingest-engine", "ingest", begun[x])
          /\ \A x \in given \cap ids : verify[x] = Entry("m4-ingest-engine", "verify", ended[x])
      OBVIOUS
    <2> HIDE DEF ingest, verify
    <2>3. QED
      BY <1>3, <2>1, <2>2
  <1>8. package' = {q} /\ done' = E
    BY <1>1, Zenon
  <1>9. \A x \in ids : /\ x \in given => PerformedIn(E, number, x) = {ingest[x], verify[x]}
                       /\ x \notin given => PerformedIn(E, number, x) = {ingest[x]}
    <2> DEFINE some == given \cap ids
    <2>1. E = Building(done, bare, ids, some, ingest, verify)
      BY DEF Building
    <2>2. some \in SUBSET ids /\ \A x \in ids : x \in given <=> x \in some
      OBVIOUS
    <2> HIDE DEF some, E, bare, ids, ingest, verify
    <2>3. ASSUME NEW x \in ids
          PROVE  PerformedIn(Building(done, bare, ids, some, ingest, verify), bare.number, x) =
                     BuiltOn(x, some, ingest, verify)
      BY <1>6, <2>2, DoneByBuild
    <2>4. ASSUME NEW x \in ids
          PROVE  PerformedIn(E, number, x) = BuiltOn(x, some, ingest, verify)
      BY <1>4, <2>1, <2>3
    <2>5. QED
      BY <2>2, <2>4 DEF BuiltOn
  <1>10. /\ \A x \in ids : logs[x] = RecordAction(<<>>, ingest[x])
         /\ DOMAIN chains = ids /\ DOMAIN standing = given \cap ids
         /\ \A x \in ids : chains[x] = IF x \in given THEN RecordAction(logs[x], verify[x]) ELSE logs[x]
         /\ \A x \in given \cap ids : standing[x] = Result(RefOf(bare, x), bytes[x], ended[x])
    <2> HIDE DEF ids, Ingest, Check, Bare
    <2>1. \A x \in ids : logs[x] = RecordAction(<<>>, ingest[x])
      OBVIOUS
    <2>2. DOMAIN chains = ids /\ DOMAIN standing = given \cap ids
      OBVIOUS
    <2>3. \A x \in ids : chains[x] = IF x \in given THEN RecordAction(bare.logs[x], verify[x])
                                                   ELSE bare.logs[x]
      OBVIOUS
    <2>4. \A x \in given \cap ids : standing[x] = Result(RefOf(bare, x), bytes[x], ended[x])
      OBVIOUS
    <2> HIDE DEF bare, logs, chains, standing, ingest, verify
    <2>5. QED
      BY <1>4, <2>1, <2>2, <2>3, <2>4
  <1>11. ids = {r.id : r \in refs}
    OBVIOUS
  <1>12. done \subseteq E
    OBVIOUS
  <1>13. {d.of : d \in E} = {d.of : d \in done} \cup {number : x \in ids}
    <2>1. \A id, g : Did(bare, id, g).of = number
      BY <1>4 DEF Did
    <2> HIDE DEF bare, ids, ingest, verify, number
    <2>2. QED
      BY <2>1
  <1> HIDE DEF number, refs, ids, ingest, logs, bare, verify, standing, chains, q, E
  <1>14. ASSUME NEW x \in ids PROVE ChainTells(E, q, x)
    <2>1. /\ logs[x] \in Seq(Entries) /\ InOrder(logs[x])
          /\ ToSet(logs[x]) = {ingest[x]}
      BY <1>7, <1>10, FirstEntry
    <2>2. CASE x \in given
      <3>1. chains[x] = RecordAction(logs[x], verify[x])
        BY <1>10, <2>2
      <3>2. /\ chains[x] \in Seq(Entries) /\ InOrder(chains[x])
            /\ ToSet(chains[x]) = {ingest[x], verify[x]}
        <4> DEFINE log == logs[x]
                   check == verify[x]
        <4>1. log \in Seq(Entries) /\ InOrder(log) /\ ToSet(log) = {ingest[x]} /\ check \in Entries
          BY <1>7, <2>1, <2>2
        <4> HIDE DEF log, check
        <4>2. /\ RecordAction(log, check) \in Seq(Entries) /\ InOrder(RecordAction(log, check))
              /\ ToSet(RecordAction(log, check)) = ToSet(log) \cup {check}
          BY <4>1, RecordKeepsOrder, Zenon
        <4>3. chains[x] = RecordAction(log, check)
          BY <3>1 DEF log, check
        <4>4. QED
          BY <4>1, <4>2, <4>3 DEF check
      <3>3. QED
        BY <1>4, <1>7, <1>9, <2>2, <3>2 DEF ChainTells
    <2>3. CASE x \notin given
      <3>1. chains[x] = logs[x]
        BY <1>10, <2>3
      <3>2. PerformedIn(E, q.number, x) = {ingest[x]}
        BY <1>4, <1>9, <2>3
      <3>3. q.logs[x] = logs[x]
        BY <1>4, <3>1
      <3>4. \E e \in PerformedIn(E, q.number, x) : e.action = "ingest"
        BY <1>7, <3>2
      <3>5. QED
        BY <2>1, <3>2, <3>3, <3>4 DEF ChainTells
    <2>4. QED
      BY <2>2, <2>3
  <1>15. ASSUME NEW x \in given \cap ids PROVE ResultStands(E, q, x)
    <2>1. RefOf(q, x) = RefOf(bare, x)
      BY <1>4 DEF RefOf
    <2>2. q.results[x] = Result(RefOf(q, x), bytes[x], ended[x])
      BY <1>4, <1>10, <2>1
    <2>3. q.results[x].at = ended[x]
      BY <2>2 DEF Result
    <2>4. verify[x] \in PerformedIn(E, q.number, x)
      BY <1>4, <1>9
    <2>5. QED
      BY <1>7, <2>2, <2>3, <2>4 DEF ResultStands
  <1>16. PackageTells(E, refs, q)
    <2>1. Declared(q) = ids
      BY <1>4, <1>11 DEF Declared
    <2>2. QED
      BY <1>4, <1>10, <1>14, <1>15, <2>1 DEF PackageTells
  <1>17. Numbered(E)
    <2>1. CASE ids = {}
      <3>1. {d.of : d \in E} = 1..k
        BY <1>5, <1>13, <2>1
      <3>2. QED
        BY <3>1 DEF Numbered
    <2>2. CASE ids # {}
      <3>1. {d.of : d \in E} = (1..k) \cup {k + 1}
        BY <1>5, <1>13, <2>2
      <3>2. (1..k) \cup {k + 1} = 1..(k + 1)
        OBVIOUS
      <3>3. QED
        BY <3>1, <3>2 DEF Numbered
    <2>3. QED
      BY <2>1, <2>2
  <1>18. clock' \in Times /\ Adapted(case'.refs) = refs
    BY <1>2 DEF refs, CustodyInv
  <1>19. QED
    BY <1>2, <1>8, <1>12, <1>16, <1>17, <1>18, ItemsStay DEF CustodyInv

\* What is put on file is what the chain tells.
LEMMA PersistKeeps ==
    ASSUME CustodyInv, Persist
    PROVE  CustodyInv'
  <1> DEFINE Physical(p) == {r.id : r \in {r \in p.refs : r.type \in PhysicalTypes}}
  <1>1. PICK p \in package :
            items' = [id \in DOMAIN items \cup Physical(p) |->
                         IF id \in DOMAIN items THEN items[id]
                         ELSE [of |-> p.number, events |-> ToSet(p.logs[id])]]
    BY DEF Persist
  <1>2. /\ case' = case /\ clock' = clock /\ package' = package /\ done' = done
    BY DEF Persist
  <1>3. Physical(p) \subseteq Declared(p)
    BY DEF Declared
  <1> HIDE DEF Physical
  <1>4. ASSUME NEW id \in DOMAIN items'
        PROVE  ItemTells(done, items'[id], id)
    <2>1. CASE id \in DOMAIN items
      BY <1>1, <2>1 DEF CustodyInv
    <2>2. CASE id \notin DOMAIN items
      <3>1. id \in Declared(p) /\ items'[id] = [of |-> p.number, events |-> ToSet(p.logs[id])]
        BY <1>1, <1>3, <2>2
      <3>2. ChainTells(done, p, id)
        BY <3>1 DEF CustodyInv, PackageTells
      <3>3. items'[id].of = p.number /\ items'[id].events = ToSet(p.logs[id])
        BY <3>1
      <3>4. QED
        BY <3>2, <3>3 DEF ChainTells, ItemTells
    <2>3. QED
      BY <2>1, <2>2
  <1>5. QED
    BY <1>2, <1>4 DEF CustodyInv

\* Before the first package there is nothing to tell.
LEMMA CustodyInitially ==
    ASSUME Init
    PROVE  CustodyInv
  <1>1. {d.of : d \in done} = 1..0
    BY DEF Init
  <1>2. DOMAIN items = {}
    BY DEF Init
  <1>3. QED
    BY <1>1, <1>2 DEF Init, CustodyInv, Numbered

\* Every step keeps the custody of every piece of evidence complete.
LEMMA CustodyIsKept ==
    ASSUME CustodyInv, [Next]_vars
    PROVE  CustodyInv'
  <1>1. CASE SetClock
    BY <1>1 DEF SetClock, CustodyInv
  <1>2. CASE GenerateReport
    BY <1>2 DEF GenerateReport, CustodyInv
  <1>3. ASSUME NEW format \in Formats, Render(format) PROVE CustodyInv'
    BY <1>3 DEF Render, CustodyInv
  <1>4. CASE UNCHANGED vars
    BY <1>4 DEF vars, CustodyInv
  <1>5. QED
    BY <1>1, <1>2, <1>3, <1>4, BuildKeeps, VerifyKeeps, ExportKeeps, PersistKeeps DEF Next

\* The invariant says what CustodyIsComplete asks, and more.
LEMMA CustodyFollows ==
    ASSUME CustodyInv
    PROVE  CustodyIsComplete
  <1>1. \A number, id : Performed(number, id) = PerformedIn(done, number, id)
    BY DEF Performed, PerformedIn
  <1>2. QED
    BY <1>1 DEF CustodyInv, CustodyIsComplete, PackageTells, ChainTells, ResultStands, ItemTells

\* The invariant holds in every reachable state.
LEMMA CustodyInvAlways == Spec => []CustodyInv
  <1>1. Init => CustodyInv
    BY CustodyInitially
  <1>2. CustodyInv /\ [Next]_vars => CustodyInv'
    BY CustodyIsKept
  <1>3. QED
    BY <1>1, <1>2, PTL DEF Spec

(***************************************************************************)
(* Whatever the clock shows and however often a package is built, verified *)
(* and exported: each chain of custody is in the order of time and tells   *)
(* what was done on the evidence, all of it and nothing else; a result     *)
(* that stands has its verification on the chain; what is on file was      *)
(* done.                                                                   *)
(***************************************************************************)
THEOREM CustodyAlwaysComplete == Spec => []CustodyIsComplete
  <1>1. CustodyInv => CustodyIsComplete
    BY CustodyFollows
  <1>2. QED
    BY <1>1, CustodyInvAlways, PTL

-----------------------------------------------------------------------------
(***************************************************************************)
(* The cards of a report.                                                  *)
(***************************************************************************)

IdsOf(refs) == {ref.id : ref \in ToSet(refs)}

\* Of the references with one id one is the first: none is lost.
LEMMA AdaptedDeclares ==
    ASSUME NEW refs, refs \in Seq(Range(refs))
    PROVE  {r.id : r \in Adapted(refs)} = IdsOf(refs)
  <1>1. DOMAIN refs = 1..Len(refs) /\ Len(refs) \in Nat
    BY LenProperties
  <1>2. ASSUME NEW ref \in ToSet(refs)
        PROVE  \E r \in Adapted(refs) : r.id = ref.id
    <2> DEFINE Same == {k \in DOMAIN refs : refs[k].id = ref.id}
    <2>1. PICK j \in DOMAIN refs : ref = refs[j]
      BY DEF ToSet
    <2>2. Same \in SUBSET Nat /\ Same # {}
      BY <1>1, <2>1
    <2>3. PICK i \in Same : \A k \in Same : i <= k
      <3> HIDE DEF Same
      <3>1. QED
        BY <2>2, SmallestNumber
    <2>4. i \in DOMAIN refs /\ refs[i].id = ref.id
      OBVIOUS
    <2>5. \A k \in DOMAIN refs : refs[k].id = refs[i].id => i <= k
      BY <2>3, <2>4
    <2>6. refs[i] \in Adapted(refs)
      BY <2>4, <2>5 DEF Adapted
    <2>7. QED
      BY <2>4, <2>6
  <1>3. Adapted(refs) \subseteq ToSet(refs)
    BY DEF Adapted, ToSet
  <1>4. QED
    BY <1>2, <1>3 DEF IdsOf

\* A case names finitely many pieces of evidence.
LEMMA IdsFinite ==
    ASSUME NEW refs, refs \in Seq(Range(refs))
    PROVE  IsFiniteSet(IdsOf(refs))
  <1> DEFINE n == Len(refs)
             f == [i \in 1..n |-> refs[i].id]
  <1>1. DOMAIN refs = 1..n /\ n \in Nat
    BY LenProperties
  <1>2. IsFiniteSet(1..n)
    BY <1>1, FS_Interval
  <1>3. \A i \in 1..n : f[i] \in IdsOf(refs)
    BY <1>1 DEF IdsOf, ToSet
  <1>4. ASSUME NEW x \in IdsOf(refs) PROVE \E i \in 1..n : f[i] = x
    <2>1. PICK ref \in ToSet(refs) : x = ref.id
      BY DEF IdsOf
    <2>2. PICK i \in DOMAIN refs : ref = refs[i]
      BY DEF ToSet
    <2>3. QED
      BY <1>1, <2>1, <2>2
  <1>5. f \in [1..n -> IdsOf(refs)]
    BY <1>3
  <1> HIDE DEF f, n
  <1>6. f \in Surjection(1..n, IdsOf(refs))
    BY <1>4, <1>5 DEF Surjection
  <1>7. QED
    BY <1>2, <1>6, FS_Surjection

Statuses == {"verified", "mismatch", "unverified"}

\* Each card has one status and is counted once.
LEMMA EachCountedOnce ==
    ASSUME NEW cards, IsFiniteSet(DOMAIN cards), \A id \in DOMAIN cards : cards[id].status \in Statuses
    PROVE  WithStatus(cards, "verified") + WithStatus(cards, "mismatch")
               + WithStatus(cards, "unverified") = Cardinality(DOMAIN cards)
  <1> DEFINE V == {id \in DOMAIN cards : cards[id].status = "verified"}
             M == {id \in DOMAIN cards : cards[id].status = "mismatch"}
             U == {id \in DOMAIN cards : cards[id].status = "unverified"}
  <1>1. V \subseteq DOMAIN cards /\ M \subseteq DOMAIN cards /\ U \subseteq DOMAIN cards
    OBVIOUS
  <1>2. V \cap M = {} /\ (V \cup M) \cap U = {}
    OBVIOUS
  <1>3. (V \cup M) \cup U = DOMAIN cards
    BY DEF Statuses
  <1>4. /\ WithStatus(cards, "verified") = Cardinality(V)
        /\ WithStatus(cards, "mismatch") = Cardinality(M)
        /\ WithStatus(cards, "unverified") = Cardinality(U)
    BY DEF WithStatus
  <1> HIDE DEF V, M, U
  <1>5. IsFiniteSet(V) /\ IsFiniteSet(M) /\ IsFiniteSet(U)
    BY <1>1, FS_Subset
  <1>6. /\ IsFiniteSet(V \cup M)
        /\ Cardinality(V \cup M) = Cardinality(V) + Cardinality(M) - Cardinality(V \cap M)
    BY <1>5, FS_Union
  <1>7. Cardinality((V \cup M) \cup U) =
            Cardinality(V \cup M) + Cardinality(U) - Cardinality((V \cup M) \cap U)
    BY <1>5, <1>6, FS_Union
  <1>8. Cardinality(V \cap M) = 0 /\ Cardinality((V \cup M) \cap U) = 0
    BY <1>2, FS_EmptySet
  <1>9. Cardinality(V) \in Nat /\ Cardinality(M) \in Nat /\ Cardinality(U) \in Nat
    BY <1>5, FS_CardinalityType
  <1>10. Cardinality(V \cup M) = Cardinality(V) + Cardinality(M)
    BY <1>6, <1>8, <1>9
  <1>11. Cardinality((V \cup M) \cup U) = Cardinality(V) + Cardinality(M) + Cardinality(U)
    BY <1>7, <1>8, <1>9, <1>10
  <1>12. QED
    BY <1>3, <1>4, <1>11

\* What a card says is what the chain of custody and the standing result say.
LEMMA CardIsTrue ==
    ASSUME NEW D, NEW refs, NEW p, PackageTells(D, refs, p), NEW id \in Declared(p),
           NEW card, card = Record(p, id)
    PROVE  /\ card.status \in Statuses
           /\ ToSet(card.chain) = PerformedIn(D, p.number, id)
           /\ card.status = "verified" =>
                  /\ card.calculated # {} /\ card.calculated = card.hash
                  /\ \E e \in ToSet(card.chain) : e.action = "verify" /\ e.at \in card.verifiedAt
  <1> DEFINE result == p.results[id]
  <1>1. /\ card.hash = RefOf(p, id).hash
        /\ card.chain = p.logs[id]
        /\ card.status = IF id \in DOMAIN p.results THEN result.status ELSE "unverified"
        /\ card.calculated = IF id \in DOMAIN p.results THEN result.calculated ELSE {}
        /\ card.verifiedAt = IF id \in DOMAIN p.results THEN {result.at} ELSE {}
    BY DEF Record
  <1> HIDE DEF result
  <1>2. ToSet(card.chain) = PerformedIn(D, p.number, id)
    BY <1>1 DEF PackageTells, ChainTells
  <1>3. CASE id \notin DOMAIN p.results
    BY <1>1, <1>2, <1>3 DEF Statuses
  <1>4. CASE id \in DOMAIN p.results
    <2>1. ResultStands(D, p, id)
      BY <1>4 DEF PackageTells
    <2>2. PICK content : result = Result(RefOf(p, id), content, result.at)
      BY <2>1 DEF ResultStands, result
    <2> DEFINE ref == RefOf(p, id)
               calculated == {Digest(content, a) : a \in ref.algorithm}
    <2>3. /\ result.calculated = calculated
          /\ result.status = IF calculated = {} \/ ref.hash = {} THEN "unverified"
                             ELSE IF calculated = ref.hash THEN "verified" ELSE "mismatch"
      BY <2>2 DEF Result
    <2> HIDE DEF calculated, ref
    <2>4. result.status \in Statuses
      BY <2>3 DEF Statuses
    <2>5. result.status = "verified" => result.calculated # {} /\ result.calculated = ref.hash
      BY <2>3
    <2>6. PICK e \in PerformedIn(D, p.number, id) : e.action = "verify" /\ e.at = result.at
      BY <2>1 DEF ResultStands, result
    <2>7. ref.hash = card.hash
      BY <1>1 DEF ref
    <2>8. card.calculated = result.calculated /\ card.status = result.status
          /\ card.verifiedAt = {result.at}
      BY <1>1, <1>4
    <2>9. \E f \in ToSet(card.chain) : f.action = "verify" /\ f.at \in card.verifiedAt
      BY <1>2, <2>6, <2>8
    <2>10. QED
      BY <1>2, <2>4, <2>5, <2>7, <2>8, <2>9
  <1>5. QED
    BY <1>3, <1>4

\* A report is of the case, and its cards tell the package it was made of.
ReportInv ==
    /\ CustodyInv
    /\ \A r \in report : CardsTellPackage(r) /\ r.timeline = case.timeline

\* Records that come with an earlier report give way to those of the package.
LEMMA CardsAreTheRecords ==
    ASSUME ReportInv, NEW p \in package,
           NEW collected \in {<<>>} \cup {r.cards : r \in report}
    PROVE  /\ Declared(p) = IdsOf(case.refs)
           /\ DOMAIN Deduplicated(collected, Records(p)) = Declared(p)
           /\ \A id \in Declared(p) : Deduplicated(collected, Records(p))[id] = Record(p, id)
  <1>1. case.refs \in Seq(Range(case.refs))
    BY PackageAssumption DEF ReportInv, CustodyInv
  <1>2. p.refs = Adapted(case.refs)
    BY DEF ReportInv, CustodyInv, PackageTells
  <1>3. Declared(p) = IdsOf(case.refs)
    BY <1>1, <1>2, AdaptedDeclares DEF Declared
  <1>4. DOMAIN collected \subseteq Declared(p)
    <2>1. CASE collected = <<>>
      BY <2>1
    <2>2. CASE \E r \in report : collected = r.cards
      BY <1>3, <2>2 DEF ReportInv, CardsTellPackage, IdsOf
    <2>3. QED
      BY <2>1, <2>2
  <1>5. DOMAIN Records(p) = Declared(p) /\ \A id \in Declared(p) : Records(p)[id] = Record(p, id)
    BY DEF Records
  <1>6. QED
    BY <1>3, <1>4, <1>5 DEF Deduplicated

\* A generated report has the cards of the package, whatever was collected before.
LEMMA GenerateKeeps ==
    ASSUME ReportInv, GenerateReport
    PROVE  ReportInv'
  <1>1. PICK p \in package : \E collected \in {<<>>} \cup {r.cards : r \in report} :
        LET cards == Deduplicated(collected, Records(p))
        IN  report' = {[version |-> case.version,
                        cards |-> cards,
                        total |-> Cardinality(DOMAIN cards),
                        verified |-> WithStatus(cards, "verified"),
                        mismatched |-> WithStatus(cards, "mismatch"),
                        unverified |-> WithStatus(cards, "unverified"),
                        timeline |-> case.timeline,
                        asOf |-> {d \in done : d.of = p.number}]}
    BY DEF GenerateReport
  <1>2. PICK collected \in {<<>>} \cup {r.cards : r \in report} :
        LET cards == Deduplicated(collected, Records(p))
        IN  report' = {[version |-> case.version,
                        cards |-> cards,
                        total |-> Cardinality(DOMAIN cards),
                        verified |-> WithStatus(cards, "verified"),
                        mismatched |-> WithStatus(cards, "mismatch"),
                        unverified |-> WithStatus(cards, "unverified"),
                        timeline |-> case.timeline,
                        asOf |-> {d \in done : d.of = p.number}]}
    BY <1>1
  <1> DEFINE cards == Deduplicated(collected, Records(p))
             asOf == {d \in done : d.of = p.number}
             r == [version |-> case.version,
                   cards |-> cards,
                   total |-> Cardinality(DOMAIN cards),
                   verified |-> WithStatus(cards, "verified"),
                   mismatched |-> WithStatus(cards, "mismatch"),
                   unverified |-> WithStatus(cards, "unverified"),
                   timeline |-> case.timeline,
                   asOf |-> asOf]
  <1>3. report' = {r}
    BY <1>2
  <1>4. case' = case /\ CustodyInv'
    BY CustodyIsKept DEF GenerateReport, Next, ReportInv
  <1>5. /\ Declared(p) = IdsOf(case.refs) /\ DOMAIN cards = Declared(p)
        /\ \A id \in Declared(p) : cards[id] = Record(p, id)
    BY CardsAreTheRecords
  <1>6. PackageTells(done, Adapted(case.refs), p)
    BY DEF ReportInv, CustodyInv
  <1>7. \A id : {d.entry : d \in {x \in asOf : x.id = id}} = PerformedIn(done, p.number, id)
    BY DEF PerformedIn
  <1> HIDE DEF cards, asOf
  <1>8. /\ r.cards = cards /\ r.total = Cardinality(DOMAIN cards)
        /\ r.verified = WithStatus(cards, "verified")
        /\ r.mismatched = WithStatus(cards, "mismatch")
        /\ r.unverified = WithStatus(cards, "unverified")
        /\ r.timeline = case.timeline /\ r.asOf = asOf
    OBVIOUS
  <1> HIDE DEF r
  <1>9. \A id \in Declared(p) :
            /\ cards[id].status \in Statuses
            /\ ToSet(cards[id].chain) = PerformedIn(done, p.number, id)
            /\ cards[id].status = "verified" =>
                  /\ cards[id].calculated # {} /\ cards[id].calculated = cards[id].hash
                  /\ \E e \in ToSet(cards[id].chain) :
                         e.action = "verify" /\ e.at \in cards[id].verifiedAt
    BY <1>5, <1>6, CardIsTrue
  <1>10. r.verified + r.mismatched + r.unverified = r.total
    <2>1. case.refs \in Seq(Range(case.refs))
      BY PackageAssumption DEF ReportInv, CustodyInv
    <2>2. IsFiniteSet(DOMAIN cards)
      BY <1>5, <2>1, IdsFinite
    <2>3. QED
      BY <1>5, <1>8, <1>9, <2>2, EachCountedOnce
  <1>11. CardsTellPackage(r)
    BY <1>5, <1>7, <1>8, <1>9, <1>10 DEF CardsTellPackage, IdsOf
  <1>12. ASSUME NEW s \in report'
         PROVE  CardsTellPackage(s)' /\ s.timeline = case'.timeline
    <2>1. s = r
      BY <1>3
    <2>2. CardsTellPackage(s)
      BY <1>11, <2>1
    <2>3. QED
      BY <1>4, <1>8, <2>1, <2>2 DEF CardsTellPackage
  <1>13. QED
    BY <1>4, <1>12 DEF ReportInv

\* No other step touches a report, or the case it was made of.
LEMMA ReportIsKept ==
    ASSUME ReportInv, [Next]_vars
    PROVE  ReportInv'
  <1>1. CustodyInv'
    BY CustodyIsKept DEF ReportInv
  <1>2. CASE GenerateReport
    BY <1>2, GenerateKeeps
  <1>3. CASE ~GenerateReport
    <2>1. report' = report /\ case' = case
      BY <1>3 DEF Next, Build, Verify, Export, SetClock, Persist, Render, vars
    <2>2. QED
      BY <1>1, <2>1 DEF ReportInv, CardsTellPackage
  <1>4. QED
    BY <1>2, <1>3

-----------------------------------------------------------------------------
(***************************************************************************)
(* The order in which the PDF tells a timeline.                            *)
(***************************************************************************)

\* What the assumption on the cases says of their timelines.
Orderly(timeline) ==
    /\ timeline \in Seq(Range(timeline))
    /\ \A i \in DOMAIN timeline :
          /\ timeline[i].at \in Nat
          /\ \A k \in DOMAIN timeline : timeline[k].id = timeline[i].id => k = i

\* Of two products one exceeds the other by a factor if it has more of it.
LEMMA MoreOfAFactor ==
    ASSUME NEW n \in Nat, NEW x \in Nat, NEW y \in Nat, x >= y + 1
    PROVE  n * x >= n * y + n
  <1>1. PICK d \in Nat : x = y + 1 + d
    OBVIOUS
  <1>2. n * x = n * y + n + n * d
    BY <1>1
  <1>3. n * d \in Nat /\ n * y \in Nat
    OBVIOUS
  <1>4. QED
    BY <1>2, <1>3

\* A moment is so many seconds and a part of one.
LEMMA SecondsAndPart ==
    ASSUME NEW at \in Nat
    PROVE  /\ at \div Second \in Nat /\ at % Second \in 0..(Second - 1)
           /\ at = Second * (at \div Second) + (at % Second)
  BY PackageAssumption

\* Timestamps are numbers, and along them the seconds do not run back.
LEMMA StampsKeepSeconds ==
    ASSUME NEW d, NEW e, d.at \in Nat, e.at \in Nat
    PROVE  /\ Stamp(d) \in Nat
           /\ SecondOf(d) \in Nat
           /\ Stamp(d) <= Stamp(e) => SecondOf(d) <= SecondOf(e)
  <1> DEFINE a == d.at
             b == e.at
             x == a \div Second
             y == b \div Second
  <1>1. x \in Nat /\ y \in Nat
    BY SecondsAndPart
  <1>2. /\ a = Second * x + (a % Second) /\ a % Second \in 0..(Second - 1)
        /\ b = Second * y + (b % Second) /\ b % Second \in 0..(Second - 1)
    BY SecondsAndPart
  <1>3. /\ Stamp(d) = IF a % Second = 0 THEN a + Second ELSE a
        /\ Stamp(e) = IF b % Second = 0 THEN b + Second ELSE b
        /\ SecondOf(d) = x /\ SecondOf(e) = y
    BY DEF Stamp, SecondOf
  <1>4. Second \in Nat \ {0} /\ a \in Nat /\ b \in Nat
    BY PackageAssumption
  <1> HIDE DEF a, b, x, y
  <1>5. ASSUME Stamp(d) <= Stamp(e), x >= y + 1
        PROVE  FALSE
    <2>1. Second * x >= Second * y + Second
      BY <1>1, <1>4, <1>5, MoreOfAFactor
    <2>2. Second * x \in Nat /\ Second * y \in Nat
      BY <1>1, <1>4
    <2>3. QED
      BY <1>2, <1>3, <1>4, <1>5, <2>1, <2>2
  <1>6. QED
    BY <1>1, <1>3, <1>4, <1>5

\* Precedes is a strict total order of the places, along which stamps do not run back.
LEMMA PrecedesIsOrder ==
    ASSUME NEW timeline, Orderly(timeline)
    PROVE  /\ \A i \in DOMAIN timeline : ~Precedes(timeline, i, i)
           /\ \A i, j \in DOMAIN timeline :
                  /\ i # j => Precedes(timeline, i, j) \/ Precedes(timeline, j, i)
                  /\ Precedes(timeline, i, j) => Stamp(timeline[i]) <= Stamp(timeline[j])
                  /\ \A k \in DOMAIN timeline :
                        Precedes(timeline, i, j) /\ Precedes(timeline, j, k) => Precedes(timeline, i, k)
  <1>1. DOMAIN timeline \subseteq Nat /\ \A i \in DOMAIN timeline : Stamp(timeline[i]) \in Nat
    BY LenProperties, StampsKeepSeconds DEF Orderly
  <1>2. \A i \in DOMAIN timeline : Extracted(timeline[i]) \in BOOLEAN
    BY DEF Extracted
  <1>3. \A i \in DOMAIN timeline : ~Precedes(timeline, i, i)
    BY <1>1 DEF Precedes, Earlier
  <1>4. ASSUME NEW i \in DOMAIN timeline, NEW j \in DOMAIN timeline
        PROVE  /\ i # j => Precedes(timeline, i, j) \/ Precedes(timeline, j, i)
               /\ Precedes(timeline, i, j) => Stamp(timeline[i]) <= Stamp(timeline[j])
    BY <1>1, <1>2 DEF Precedes, Earlier
  <1>5. ASSUME NEW i \in DOMAIN timeline, NEW j \in DOMAIN timeline, NEW k \in DOMAIN timeline,
               Precedes(timeline, i, j), Precedes(timeline, j, k)
        PROVE  Precedes(timeline, i, k)
    BY <1>1, <1>2, <1>5 DEF Precedes, Earlier
  <1>6. QED
    BY <1>3, <1>4, <1>5

Ahead(timeline, i) == {k \in Kept(timeline) : Precedes(timeline, k, i)}
Rank(timeline, i) == 1 + Cardinality(Ahead(timeline, i))

\* What precedes has the smaller rank; ranks go from one to the number of those kept.
LEMMA RanksGrow ==
    ASSUME NEW timeline, Orderly(timeline)
    PROVE  /\ Cardinality(Kept(timeline)) \in Nat /\ Kept(timeline) \subseteq DOMAIN timeline
           /\ \A i \in Kept(timeline) :
                 /\ Rank(timeline, i) \in 1..Cardinality(Kept(timeline))
                 /\ \A j \in Kept(timeline) :
                       Precedes(timeline, i, j) => Rank(timeline, i) < Rank(timeline, j)
  <1> DEFINE kept == Kept(timeline)
             m == Cardinality(kept)
  <1>1. kept \subseteq DOMAIN timeline
    BY DEF Kept
  <1>2. IsFiniteSet(kept) /\ m \in Nat
    <2>1. DOMAIN timeline = 1..Len(timeline) /\ Len(timeline) \in Nat
      BY LenProperties DEF Orderly
    <2>2. kept \in SUBSET (1..Len(timeline))
      BY <1>1, <2>1
    <2> HIDE DEF kept
    <2>3. IsFiniteSet(kept)
      BY <2>1, <2>2, PlacesFinite
    <2>4. QED
      BY <2>3, FS_CardinalityType
  <1>3. ASSUME NEW i \in kept
        PROVE  /\ IsFiniteSet(Ahead(timeline, i)) /\ Cardinality(Ahead(timeline, i)) \in Nat
               /\ i \notin Ahead(timeline, i) /\ Ahead(timeline, i) \subseteq kept
               /\ IsFiniteSet(Ahead(timeline, i) \cup {i})
               /\ Cardinality(Ahead(timeline, i) \cup {i}) = Rank(timeline, i)
    <2>1. Ahead(timeline, i) \subseteq kept
      BY DEF Ahead
    <2>2. i \notin Ahead(timeline, i)
      BY <1>1, PrecedesIsOrder DEF Ahead
    <2> HIDE DEF kept
    <2>3. IsFiniteSet(Ahead(timeline, i))
      BY <1>2, <2>1, FS_Subset
    <2>4. Cardinality(Ahead(timeline, i)) \in Nat
      BY <2>3, FS_CardinalityType
    <2>5. /\ IsFiniteSet(Ahead(timeline, i) \cup {i})
          /\ Cardinality(Ahead(timeline, i) \cup {i}) = Cardinality(Ahead(timeline, i)) + 1
      BY <2>2, <2>3, FS_AddElement
    <2>6. QED
      BY <2>1, <2>2, <2>3, <2>4, <2>5 DEF Rank
  <1>4. ASSUME NEW i \in kept
        PROVE  Rank(timeline, i) \in 1..m
    <2>1. Ahead(timeline, i) \cup {i} \in SUBSET kept
      BY <1>3
    <2> HIDE DEF kept
    <2>2. Cardinality(Ahead(timeline, i) \cup {i}) <= Cardinality(kept)
      BY <1>2, <2>1, FS_Subset
    <2>3. /\ Cardinality(Ahead(timeline, i)) \in Nat
          /\ Cardinality(Ahead(timeline, i) \cup {i}) = Rank(timeline, i)
      BY <1>3
    <2>4. Rank(timeline, i) = 1 + Cardinality(Ahead(timeline, i))
      BY DEF Rank
    <2> HIDE DEF m
    <2>5. Rank(timeline, i) <= m
      BY <2>2, <2>3 DEF m
    <2>6. QED
      BY <1>2, <2>3, <2>4, <2>5
  <1>5. ASSUME NEW i \in kept, NEW j \in kept, Precedes(timeline, i, j)
        PROVE  Rank(timeline, i) < Rank(timeline, j)
    <2>1. Ahead(timeline, i) \cup {i} \in SUBSET Ahead(timeline, j)
      BY <1>1, <1>5, PrecedesIsOrder DEF Ahead
    <2>2. Cardinality(Ahead(timeline, i) \cup {i}) <= Cardinality(Ahead(timeline, j))
      BY <1>3, <2>1, FS_Subset
    <2>3. Cardinality(Ahead(timeline, j)) \in Nat
      BY <1>3
    <2>4. Rank(timeline, i) <= Cardinality(Ahead(timeline, j))
      BY <1>3, <2>2
    <2>5. Rank(timeline, j) = 1 + Cardinality(Ahead(timeline, j))
      BY DEF Rank
    <2>6. Rank(timeline, i) \in Nat
      BY <1>4
    <2>7. QED
      BY <2>3, <2>4, <2>5, <2>6
  <1>6. QED
    BY <1>1, <1>2, <1>4, <1>5

Spot(timeline, n) == CHOOSE i \in Kept(timeline) : n = Rank(timeline, i)

\* Each number up to that of those kept is the rank of just one of them.
LEMMA EachHasItsSpot ==
    ASSUME NEW timeline, Orderly(timeline)
    PROVE  /\ \A n \in 1..Cardinality(Kept(timeline)) :
                 Spot(timeline, n) \in Kept(timeline) /\ Rank(timeline, Spot(timeline, n)) = n
           /\ \A i \in Kept(timeline) : Spot(timeline, Rank(timeline, i)) = i
  <1> DEFINE kept == Kept(timeline)
             m == Cardinality(kept)
             rank == [i \in kept |-> Rank(timeline, i)]
  <1>1. m \in Nat /\ kept \subseteq DOMAIN timeline
    BY RanksGrow
  <1>2. \A i \in kept : Rank(timeline, i) \in 1..m
    BY RanksGrow
  <1>3. ASSUME NEW i \in kept, NEW j \in kept, i # j
        PROVE  Rank(timeline, i) # Rank(timeline, j)
    <2>1. Precedes(timeline, i, j) \/ Precedes(timeline, j, i)
      BY <1>1, <1>3, PrecedesIsOrder
    <2>2. /\ Precedes(timeline, i, j) => Rank(timeline, i) < Rank(timeline, j)
          /\ Precedes(timeline, j, i) => Rank(timeline, j) < Rank(timeline, i)
      BY RanksGrow
    <2>3. QED
      BY <1>2, <2>1, <2>2
  <1>4. IsFiniteSet(1..m) /\ Cardinality(1..m) = m
    BY <1>1, FS_Interval
  <1>5. rank \in [kept -> 1..m] /\ \A i \in kept : rank[i] = Rank(timeline, i)
    BY <1>2
  <1> HIDE DEF rank, kept
  <1>6. rank \in Injection(kept, 1..m)
    BY <1>3, <1>5 DEF Injection, IsInjective
  <1>7. rank \in Surjection(kept, 1..m)
    <2> DEFINE upto == 1..m
    <2>1. IsFiniteSet(upto) /\ Cardinality(upto) = Cardinality(kept) /\ rank \in Injection(kept, upto)
      BY <1>4, <1>6
    <2> HIDE DEF upto, m
    <2>2. rank \in Surjection(kept, upto)
      BY <2>1, FS_Injection
    <2>3. QED
      BY <2>2 DEF upto
  <1>8. \A n \in 1..m : \E i \in kept : n = Rank(timeline, i)
    BY <1>5, <1>7 DEF Surjection
  <1>9. ASSUME NEW n \in 1..m
        PROVE  Spot(timeline, n) \in kept /\ Rank(timeline, Spot(timeline, n)) = n
    BY <1>8 DEF Spot, kept
  <1>10. ASSUME NEW i \in kept PROVE Spot(timeline, Rank(timeline, i)) = i
    <2>1. Rank(timeline, i) \in 1..m
      BY <1>2 DEF kept
    <2>2. /\ Spot(timeline, Rank(timeline, i)) \in kept
          /\ Rank(timeline, Spot(timeline, Rank(timeline, i))) = Rank(timeline, i)
      BY <1>9, <2>1
    <2>3. QED
      BY <1>3, <2>2
  <1>11. QED
    BY <1>9, <1>10 DEF kept

\* The collapsed timeline has each event that is kept at its rank, in the order of time,
\* and no event twice.
LEMMA CollapsedInOrder ==
    ASSUME NEW timeline, Orderly(timeline)
    PROVE  /\ DOMAIN Collapsed(timeline) = 1..Cardinality(Kept(timeline))
           /\ \A n \in DOMAIN Collapsed(timeline) :
                 /\ Collapsed(timeline)[n] \in ToSet(timeline)
                 /\ \A k \in DOMAIN Collapsed(timeline) :
                       /\ k < n => Stamp(Collapsed(timeline)[k]) <= Stamp(Collapsed(timeline)[n])
                       /\ Collapsed(timeline)[k] = Collapsed(timeline)[n] => k = n
           /\ \A i \in Kept(timeline) :
                 \E n \in DOMAIN Collapsed(timeline) : Collapsed(timeline)[n] = timeline[i]
  <1> DEFINE m == Cardinality(Kept(timeline))
             events == Collapsed(timeline)
  <1>1. m \in Nat /\ Kept(timeline) \subseteq DOMAIN timeline
    BY RanksGrow
  <1>2. \A n \in 1..m : Spot(timeline, n) \in Kept(timeline) /\ Rank(timeline, Spot(timeline, n)) = n
    BY EachHasItsSpot
  <1>3. DOMAIN events = 1..m /\ \A n \in 1..m : events[n] = timeline[Spot(timeline, n)]
    BY DEF Collapsed, Spot, Rank, Ahead
  <1> HIDE DEF events, m
  <1>4. ASSUME NEW n \in 1..m, NEW k \in 1..m, k < n
        PROVE  Stamp(events[k]) <= Stamp(events[n])
    <2> DEFINE i == Spot(timeline, k)
               j == Spot(timeline, n)
    <2>1. i \in Kept(timeline) /\ j \in Kept(timeline) /\ Rank(timeline, i) = k /\ Rank(timeline, j) = n
      BY <1>2
    <2> HIDE DEF i, j
    <2>2. ~Precedes(timeline, j, i)
      BY <1>4, <2>1, RanksGrow
    <2>3. i # j
      BY <1>4, <2>1
    <2>4. Stamp(timeline[i]) <= Stamp(timeline[j])
      BY <1>1, <2>1, <2>2, <2>3, PrecedesIsOrder
    <2>5. QED
      BY <1>3, <2>4 DEF i, j
  <1>5. ASSUME NEW n \in 1..m, NEW k \in 1..m, events[k] = events[n]
        PROVE  k = n
    <2>1. Spot(timeline, k) = Spot(timeline, n)
      BY <1>1, <1>2, <1>3, <1>5 DEF Orderly
    <2>2. QED
      BY <1>2, <2>1
  <1>6. ASSUME NEW n \in 1..m PROVE events[n] \in ToSet(timeline)
    BY <1>1, <1>2, <1>3 DEF ToSet
  <1>7. ASSUME NEW i \in Kept(timeline) PROVE \E n \in 1..m : events[n] = timeline[i]
    <2>1. Rank(timeline, i) \in 1..m /\ Spot(timeline, Rank(timeline, i)) = i
      BY RanksGrow, EachHasItsSpot DEF m
    <2>2. QED
      BY <1>3, <2>1
  <1>8. QED
    BY <1>3, <1>4, <1>5, <1>6, <1>7 DEF events, m

\* An event that is not kept repeats one that is, of its time or before.
LEMMA NotKeptIsRepeated ==
    ASSUME NEW timeline, Orderly(timeline), NEW i \in DOMAIN timeline, i \notin Kept(timeline)
    PROVE  /\ timeline[i].key # "none"
           /\ \E j \in Kept(timeline) : /\ timeline[j].key = timeline[i].key
                                        /\ Stamp(timeline[j]) <= Stamp(timeline[i])
  <1> DEFINE Same == {k \in DOMAIN timeline : timeline[k].key = timeline[i].key}
             Times1 == {Stamp(timeline[k]) : k \in Same}
  <1>1. DOMAIN timeline \subseteq Nat /\ \A k \in DOMAIN timeline : Stamp(timeline[k]) \in Nat
    BY LenProperties, StampsKeepSeconds DEF Orderly
  <1>2. Extracted(timeline[i])
    BY DEF Kept
  <1>3. i \in Same
    OBVIOUS
  <1>4. Times1 \in SUBSET Nat /\ Times1 # {}
    BY <1>1, <1>3
  <1>5. PICK t \in Times1 : \A u \in Times1 : t <= u
    <2> HIDE DEF Times1
    <2>1. QED
      BY <1>4, SmallestNumber
  <1> DEFINE First == {k \in Same : Stamp(timeline[k]) = t}
  <1>6. First \in SUBSET Nat /\ First # {}
    BY <1>1
  <1>7. PICK j \in First : \A k \in First : j <= k
    <2> HIDE DEF First
    <2>1. QED
      BY <1>6, SmallestNumber
  <1>8. j \in DOMAIN timeline /\ timeline[j].key = timeline[i].key /\ Stamp(timeline[j]) = t
    OBVIOUS
  <1>9. \A k \in DOMAIN timeline : timeline[k].key = timeline[j].key => ~Earlier(timeline, k, j)
    <2>1. ASSUME NEW k \in DOMAIN timeline, timeline[k].key = timeline[j].key
          PROVE  ~Earlier(timeline, k, j)
      <3>1. k \in Same
        BY <1>8, <2>1
      <3>2. t <= Stamp(timeline[k])
        BY <1>5, <3>1
      <3>3. Stamp(timeline[k]) = t => j <= k
        BY <1>7, <3>1
      <3>4. t \in Nat /\ Stamp(timeline[k]) \in Nat /\ k \in Nat /\ j \in Nat
        BY <1>1, <1>8
      <3>5. QED
        BY <1>8, <3>2, <3>3, <3>4 DEF Earlier
    <2>2. QED
      BY <2>1
  <1>10. j \in Kept(timeline)
    BY <1>8, <1>9 DEF Kept
  <1>11. t <= Stamp(timeline[i])
    BY <1>3, <1>5
  <1>12. QED
    BY <1>2, <1>8, <1>10, <1>11 DEF Extracted

-----------------------------------------------------------------------------
(***************************************************************************)
(* The groups of the PDF's timeline.                                       *)
(***************************************************************************)

\* The place of the n-th event, if f tells that of the one before.
PlaceOf(events, f, n) ==
    IF n = 1 THEN [group |-> 1, size |-> 1]
    ELSE IF events[n].type = events[n - 1].type \/ f[n - 1].size < GroupMin
         THEN [group |-> f[n - 1].group, size |-> f[n - 1].size + 1]
         ELSE [group |-> f[n - 1].group + 1, size |-> 1]

\* The events up to each number can be placed, hence all of them.
LEMMA PlacesExist ==
    ASSUME NEW m \in Nat, NEW events
    PROVE  \E f : f = [n \in 1..m |-> PlaceOf(events, f, n)]
  <1> DEFINE Placed(k) == \E f : f = [n \in 1..k |-> PlaceOf(events, f, n)]
             Missing == {k \in Nat : ~Placed(k)}
  <1>1. Placed(0)
    <2> DEFINE f == [n \in 1..0 |-> {}]
    <2>1. f = [n \in 1..0 |-> PlaceOf(events, f, n)]
      OBVIOUS
    <2>2. QED
      BY <2>1
  <1>2. ASSUME NEW k \in Nat, Placed(k)
        PROVE  Placed(k + 1)
    <2>1. PICK f : f = [n \in 1..k |-> PlaceOf(events, f, n)]
      BY <1>2
    <2> DEFINE g == [n \in 1..(k + 1) |-> IF n = k + 1 THEN PlaceOf(events, f, n) ELSE f[n]]
    <2>2. \A n \in 1..k : f[n] = PlaceOf(events, f, n) /\ g[n] = f[n]
      BY <2>1
    <2>3. ASSUME NEW n \in 1..(k + 1) PROVE PlaceOf(events, g, n) = PlaceOf(events, f, n)
      <3>1. n # 1 => n - 1 \in 1..k
        OBVIOUS
      <3>2. n # 1 => g[n - 1] = f[n - 1]
        BY <2>2, <3>1
      <3> HIDE DEF g
      <3>3. QED
        BY <3>2 DEF PlaceOf
    <2>4. ASSUME NEW n \in 1..(k + 1) PROVE g[n] = PlaceOf(events, g, n)
      <3>1. g[n] = PlaceOf(events, f, n)
        <4>1. CASE n = k + 1
          BY <4>1
        <4>2. CASE n # k + 1
          <5>1. n \in 1..k
            BY <4>2
          <5>2. g[n] = f[n] /\ f[n] = PlaceOf(events, f, n)
            BY <2>2, <5>1
          <5>3. QED
            BY <5>2
        <4>3. QED
          BY <4>1, <4>2
      <3>2. QED
        BY <2>3, <3>1
    <2>5. g = [n \in 1..(k + 1) |-> g[n]]
      OBVIOUS
    <2> HIDE DEF g
    <2>6. g = [n \in 1..(k + 1) |-> PlaceOf(events, g, n)]
      BY <2>4, <2>5
    <2>7. QED
      BY <2>6
  <1> HIDE DEF Placed
  <1>3. Missing = {}
    <2> SUFFICES ASSUME Missing # {} PROVE FALSE
      OBVIOUS
    <2>1. Missing \in SUBSET Nat
      OBVIOUS
    <2>2. PICK k \in Missing : \A j \in Missing : k <= j
      <3> HIDE DEF Missing
      <3>1. QED
        BY <2>1, SmallestNumber
    <2>3. k \in Nat /\ k # 0
      BY <1>1
    <2>4. k - 1 \in Nat /\ Placed(k - 1)
      BY <2>2, <2>3
    <2>5. Placed((k - 1) + 1)
      BY <1>2, <2>4
    <2>6. QED
      BY <2>3, <2>5
  <1>4. QED
    BY <1>3 DEF Placed

\* The recursive function is the one that PlacesExist shows to exist.
LEMMA GroupedUnfolds ==
    ASSUME NEW m \in Nat, NEW events, DOMAIN events = 1..m
    PROVE  Grouped(events) = [n \in 1..m |-> PlaceOf(events, Grouped(events), n)]
  <1>1. Grouped(events) = CHOOSE f : f = [n \in DOMAIN events |-> PlaceOf(events, f, n)]
    BY DEF Grouped, PlaceOf
  <1>2. \E f : f = [n \in DOMAIN events |-> PlaceOf(events, f, n)]
    BY PlacesExist
  <1>3. QED
    BY <1>1, <1>2

\* A group that has a successor is large, so that the number of an event bounds the number
\* of its group; and the groups follow each other.
LEMMA GroupsAreLarge ==
    ASSUME NEW m \in Nat, NEW events, DOMAIN events = 1..m
    PROVE  /\ \A n \in 1..m : /\ Grouped(events)[n].group \in Nat \ {0}
                              /\ n >= GroupMin * (Grouped(events)[n].group - 1) + 1
           /\ \A n \in 1..m : n + 1 \in 1..m =>
                  Grouped(events)[n].group <= Grouped(events)[n + 1].group
  <1> DEFINE place == Grouped(events)
             Good(n) == /\ place[n].group \in Nat \ {0} /\ place[n].size \in Nat \ {0}
                        /\ n >= GroupMin * (place[n].group - 1) + place[n].size
             Bad == {n \in 1..m : ~Good(n)}
  <1>1. GroupMin \in Nat \ {0}
    BY PackageAssumption
  <1>2. \A n \in 1..m : place[n] = PlaceOf(events, place, n)
    BY GroupedUnfolds
  <1> HIDE DEF place
  <1>3. ASSUME NEW n \in 1..m, n = 1
        PROVE  place[n].group = 1 /\ place[n].size = 1
    <2>1. place[n] = PlaceOf(events, place, n)
      BY <1>2
    <2>2. place[n] = [group |-> 1, size |-> 1]
      BY <1>3, <2>1 DEF PlaceOf
    <2>3. QED
      BY <2>2
  <1>4. ASSUME NEW n \in 1..m, n # 1
        PROVE  \/ /\ place[n].group = place[n - 1].group
                  /\ place[n].size = place[n - 1].size + 1
               \/ /\ ~(place[n - 1].size < GroupMin)
                  /\ place[n].group = place[n - 1].group + 1
                  /\ place[n].size = 1
    <2>1. place[n] = PlaceOf(events, place, n)
      BY <1>2
    <2>2. CASE events[n].type = events[n - 1].type \/ place[n - 1].size < GroupMin
      <3>1. place[n] = [group |-> place[n - 1].group, size |-> place[n - 1].size + 1]
        BY <1>4, <2>1, <2>2 DEF PlaceOf
      <3>2. QED
        BY <3>1
    <2>3. CASE ~(events[n].type = events[n - 1].type \/ place[n - 1].size < GroupMin)
      <3>1. place[n] = [group |-> place[n - 1].group + 1, size |-> 1]
        BY <1>4, <2>1, <2>3 DEF PlaceOf
      <3>2. QED
        BY <2>3, <3>1
    <2>4. QED
      BY <2>2, <2>3
  <1>5. ASSUME NEW n \in 1..m, n # 1, Good(n - 1)
        PROVE  Good(n) /\ place[n - 1].group <= place[n].group
    <2> DEFINE g == place[n - 1].group
               s == place[n - 1].size
    <2>1. g \in Nat \ {0} /\ s \in Nat \ {0} /\ n - 1 >= GroupMin * (g - 1) + s
      BY <1>5
    <2> HIDE DEF g, s
    <2>2. CASE place[n].group = g /\ place[n].size = s + 1
      <3>1. GroupMin * (g - 1) \in Nat
        BY <1>1, <2>1
      <3>2. n >= GroupMin * (g - 1) + (s + 1)
        BY <2>1, <3>1
      <3>3. QED
        BY <2>1, <2>2, <3>2 DEF g
    <2>3. CASE ~(s < GroupMin) /\ place[n].group = g + 1 /\ place[n].size = 1
      <3>1. GroupMin * (g - 1) \in Nat /\ GroupMin * ((g + 1) - 1) = GroupMin * (g - 1) + GroupMin
        BY <1>1, <2>1
      <3>2. n >= GroupMin * ((g + 1) - 1) + 1
        BY <1>1, <2>1, <2>3, <3>1
      <3>3. QED
        BY <2>1, <2>3, <3>2 DEF g
    <2>4. QED
      BY <1>4, <1>5, <2>2, <2>3 DEF g, s
  <1>6. Bad = {}
    <2> SUFFICES ASSUME Bad # {} PROVE FALSE
      OBVIOUS
    <2>1. Bad \in SUBSET Nat
      OBVIOUS
    <2>2. PICK n \in Bad : \A k \in Bad : n <= k
      <3> HIDE DEF Bad
      <3>1. QED
        BY <2>1, SmallestNumber
    <2>3. n \in 1..m /\ ~Good(n)
      OBVIOUS
    <2>4. CASE n = 1
      <3>1. place[n].group = 1 /\ place[n].size = 1
        BY <1>3, <2>3, <2>4
      <3>2. n >= GroupMin * (1 - 1) + 1
        BY <1>1, <2>4
      <3>3. QED
        BY <2>3, <3>1, <3>2
    <2>5. CASE n # 1
      <3>1. n - 1 \in 1..m
        BY <2>3, <2>5
      <3>2. Good(n - 1)
        BY <2>2, <3>1
      <3>3. QED
        BY <1>5, <2>3, <2>5, <3>2
    <2>6. QED
      BY <2>4, <2>5
  <1>7. \A n \in 1..m : Good(n)
    BY <1>6
  <1>8. ASSUME NEW n \in 1..m
        PROVE  place[n].group \in Nat \ {0} /\ n >= GroupMin * (place[n].group - 1) + 1
    <2>1. Good(n)
      BY <1>7
    <2> DEFINE g == place[n].group
    <2>2. g \in Nat \ {0} /\ place[n].size \in Nat \ {0} /\ n >= GroupMin * (g - 1) + place[n].size
      BY <2>1
    <2> HIDE DEF g
    <2>3. GroupMin * (g - 1) \in Nat
      BY <1>1, <2>2
    <2>4. n >= GroupMin * (g - 1) + 1
      BY <2>2, <2>3
    <2>5. QED
      BY <2>2, <2>4 DEF g
  <1>9. ASSUME NEW n \in 1..m, n + 1 \in 1..m PROVE place[n].group <= place[n + 1].group
    <2> DEFINE k == n + 1
    <2>1. k \in 1..m /\ k # 1 /\ k - 1 = n
      BY <1>9
    <2> HIDE DEF k
    <2>2. place[k - 1].group <= place[k].group
      BY <1>5, <1>7, <2>1
    <2>3. QED
      BY <2>1, <2>2 DEF k
  <1>10. QED
    BY <1>8, <1>9 DEF place

\* The events of the first groups are the first events, and where some are cut off there
\* are no fewer than the groups that are shown must have.
LEMMA DetailedIsPrefix ==
    ASSUME NEW timeline, NEW m \in Nat, DOMAIN Collapsed(timeline) = 1..m
    PROVE  \E t \in 0..m :
              /\ Detailed(timeline) = [n \in 1..t |-> Collapsed(timeline)[n]]
              /\ t < m => t >= GroupMin * GroupLimit
  <1> DEFINE events == Collapsed(timeline)
             place == Grouped(events)
             Told == {n \in 1..m : place[n].group <= GroupLimit}
  <1>1. GroupMin \in Nat \ {0} /\ GroupLimit \in Nat \ {0}
    BY PackageAssumption
  <1>2. DOMAIN events = 1..m
    OBVIOUS
  <1>3. Detailed(timeline) = [n \in Told |-> events[n]]
    BY DEF Detailed
  <1> HIDE DEF events
  <1>4. /\ \A n \in 1..m : /\ place[n].group \in Nat \ {0}
                           /\ n >= GroupMin * (place[n].group - 1) + 1
        /\ \A n \in 1..m : n + 1 \in 1..m => place[n].group <= place[n + 1].group
    BY <1>2, GroupsAreLarge
  <1> HIDE DEF place
  <1> DEFINE Skipped == {n \in 1..m : n \notin Told}
  <1>5. ASSUME Skipped # {}
        PROVE  \E t \in 0..m : Told = 1..t /\ t < m /\ t >= GroupMin * GroupLimit
    <2>1. Skipped \in SUBSET Nat
      OBVIOUS
    <2>2. PICK n \in Skipped : \A k \in Skipped : n <= k
      <3> HIDE DEF Skipped
      <3>1. QED
        BY <1>5, <2>1, SmallestNumber
    <2>3. n \in 1..m /\ ~(place[n].group <= GroupLimit)
      OBVIOUS
    <2> DEFINE g == place[n].group
    <2>4. g \in Nat /\ g - 1 >= GroupLimit /\ n >= GroupMin * (g - 1) + 1
      BY <1>1, <1>4, <2>3
    <2> HIDE DEF g
    <2>5. n - 1 >= GroupMin * GroupLimit
      <3>1. GroupMin * (g - 1) >= GroupMin * GroupLimit
        BY <1>1, <2>4
      <3>2. GroupMin * (g - 1) \in Nat /\ GroupMin * GroupLimit \in Nat
        BY <1>1, <2>4
      <3>3. QED
        BY <2>3, <2>4, <3>1, <3>2
    <2> DEFINE Late == {k \in 1..m : n <= k /\ place[k].group <= GroupLimit}
    <2>6. Late = {}
      <3> SUFFICES ASSUME Late # {} PROVE FALSE
        OBVIOUS
      <3>1. Late \in SUBSET Nat
        OBVIOUS
      <3>2. PICK k \in Late : \A j \in Late : k <= j
        <4> HIDE DEF Late
        <4>1. QED
          BY <3>1, SmallestNumber
      <3>3. k \in 1..m /\ n <= k /\ place[k].group <= GroupLimit /\ k # n
        BY <2>3
      <3>4. k - 1 \in 1..m /\ n <= k - 1 /\ (k - 1) + 1 = k /\ k - 1 \in Nat
        BY <2>3, <3>3
      <3>5. place[k - 1].group <= place[k].group
        BY <1>4, <3>3, <3>4
      <3>6. place[k - 1].group \in Nat /\ place[k].group \in Nat
        BY <1>4, <3>3, <3>4
      <3>7. k - 1 \in Late
        BY <1>1, <3>3, <3>4, <3>5, <3>6
      <3>8. QED
        BY <3>2, <3>4, <3>7
    <2>7. \A k \in 1..m : k \in Told <=> k <= n - 1
      <3>1. ASSUME NEW k \in 1..m PROVE k \in Told <=> k <= n - 1
        <4>1. CASE n <= k
          <5>1. k \notin Told
            BY <2>6, <4>1
          <5>2. QED
            BY <2>3, <4>1, <5>1
        <4>2. CASE ~(n <= k)
          <5>1. k \notin Skipped
            BY <2>2, <4>2
          <5>2. QED
            BY <2>3, <4>2, <5>1
        <4>3. QED
          BY <4>1, <4>2
      <3>2. QED
        BY <3>1
    <2>8. Told = 1..(n - 1)
      <3>1. Told \subseteq 1..m
        OBVIOUS
      <3> HIDE DEF Told
      <3>2. ASSUME NEW k \in Told PROVE k \in 1..(n - 1)
        BY <2>3, <2>7, <3>1
      <3>3. ASSUME NEW k \in 1..(n - 1) PROVE k \in Told
        <4>1. k \in 1..m /\ k <= n - 1
          BY <2>3
        <4>2. QED
          BY <2>7, <4>1
      <3>4. QED
        BY <3>2, <3>3
    <2>9. n - 1 \in 0..m /\ n - 1 < m
      BY <2>3
    <2>10. QED
      BY <2>5, <2>8, <2>9
  <1>6. CASE Skipped # {}
    <2>1. PICK t \in 0..m : Told = 1..t /\ t < m /\ t >= GroupMin * GroupLimit
      BY <1>5, <1>6
    <2> HIDE DEF Told
    <2>2. QED
      BY <1>3, <2>1 DEF events
  <1>7. CASE Skipped = {}
    <2>1. Told = 1..m
      BY <1>7
    <2> HIDE DEF Told
    <2>2. QED
      BY <1>3, <2>1 DEF events
  <1>8. QED
    BY <1>6, <1>7

\* A sequence of different events has as many as there are.
LEMMA DifferentAreCounted ==
    ASSUME NEW t \in Nat, NEW s, s = [n \in 1..t |-> s[n]],
           \A k, n \in 1..t : s[k] = s[n] => k = n
    PROVE  /\ Len(s) = t /\ Len(s) = Cardinality(ToSet(s))
           /\ ToSet(s) = {s[n] : n \in 1..t}
  <1>0. IsFiniteSet(1..t) /\ Cardinality(1..t) = t
    BY CountedUpTo
  <1> DEFINE T == {s[n] : n \in 1..t}
             upto == 1..t
  <1>1. s \in Seq(T) /\ Len(s) = t
    <2>1. s \in Seq(T)
      <3>1. s \in [1..t -> T]
        OBVIOUS
      <3> HIDE DEF T
      <3>2. QED
        BY <3>1, SeqDef
    <2>2. Len(s) \in Nat /\ DOMAIN s = 1..Len(s)
      BY <2>1, LenProperties
    <2>3. DOMAIN s = 1..t
      OBVIOUS
    <2>4. 1..Len(s) = 1..t
      BY <2>2, <2>3
    <2> DEFINE a == Len(s)
    <2>5. a \in Nat /\ 1..a = 1..t
      BY <2>2, <2>4
    <2> HIDE DEF a
    <2>6. a = t
      <3>1. a # 0 => a \in 1..t
        BY <2>5
      <3>2. t # 0 => t \in 1..a
        BY <2>5
      <3>3. QED
        BY <2>5, <3>1, <3>2
    <2>7. QED
      BY <2>1, <2>6 DEF a
  <1>2. ToSet(s) = T
    BY DEF ToSet
  <1>3. s \in [upto -> T] /\ \A x \in T : \E n \in upto : s[n] = x
    OBVIOUS
  <1>4. \A k, n \in upto : s[k] = s[n] => k = n
    OBVIOUS
  <1>5. IsFiniteSet(upto) /\ Cardinality(upto) = t
    BY <1>0
  <1> HIDE DEF T, upto
  <1>6. s \in Surjection(upto, T) /\ s \in Injection(upto, T)
    BY <1>3, <1>4 DEF Surjection, Injection, IsInjective
  <1>7. Cardinality(T) = Cardinality(upto)
    BY <1>5, <1>6, FS_Surjection
  <1>8. QED
    BY <1>1, <1>2, <1>5, <1>7 DEF T

\* The detailed timeline of the PDF.
LEMMA PdfIsTold ==
    ASSUME NEW timeline, Orderly(timeline), NEW doc, doc.format = "pdf",
           doc.shown.detailed = Detailed(timeline)
    PROVE  TimelineIsTold(doc, timeline)
  <1> DEFINE m == Cardinality(Kept(timeline))
             events == Collapsed(timeline)
             detailed == doc.shown.detailed
             told == ToSet(detailed)
  <1>1. m \in Nat /\ Kept(timeline) \subseteq DOMAIN timeline
    BY RanksGrow
  <1>2. /\ DOMAIN events = 1..m
        /\ \A n \in 1..m :
              /\ events[n] \in ToSet(timeline)
              /\ \A k \in 1..m : /\ k < n => Stamp(events[k]) <= Stamp(events[n])
                                 /\ events[k] = events[n] => k = n
        /\ \A i \in Kept(timeline) : \E n \in 1..m : events[n] = timeline[i]
    <2>1. DOMAIN events = 1..m
      BY CollapsedInOrder, Zenon
    <2>2. \A n \in 1..m :
              /\ events[n] \in ToSet(timeline)
              /\ \A k \in 1..m : /\ k < n => Stamp(events[k]) <= Stamp(events[n])
                                 /\ events[k] = events[n] => k = n
      <3> HIDE DEF m
      <3>1. QED
        BY <2>1, CollapsedInOrder, Zenon
    <2>3. \A i \in Kept(timeline) : \E n \in 1..m : events[n] = timeline[i]
      <3>1. \A i \in Kept(timeline) : \E n \in DOMAIN events : events[n] = timeline[i]
        BY CollapsedInOrder, Zenon
      <3> HIDE DEF m, events
      <3>2. QED
        BY <2>1, <3>1
    <2>4. QED
      BY <2>1, <2>2, <2>3
  <1>3. PICK t \in 0..m : /\ detailed = [n \in 1..t |-> events[n]]
                          /\ t < m => t >= GroupMin * GroupLimit
    <2> HIDE DEF m
    <2>1. QED
      BY <1>1, <1>2, DetailedIsPrefix
  <1>4. \A x, y \in ToSet(timeline) :
            /\ Stamp(x) \in Nat /\ SecondOf(x) \in Nat
            /\ Stamp(x) <= Stamp(y) => SecondOf(x) <= SecondOf(y)
    <2>1. \A x \in ToSet(timeline) : x.at \in Nat
      BY DEF ToSet, Orderly
    <2>2. QED
      BY <2>1, StampsKeepSeconds
  <1> HIDE DEF events, m
  <1>5. /\ \A n \in 1..t : n \in 1..m /\ detailed[n] = events[n]
        /\ DOMAIN detailed = 1..t
    BY <1>1, <1>3
  <1>6. detailed = [n \in 1..t |-> detailed[n]]
    BY <1>3, <1>5
  <1> HIDE DEF detailed
  <1>7. /\ Len(detailed) = t /\ Len(detailed) = Cardinality(told)
        /\ told = {detailed[n] : n \in 1..t}
    <2>1. \A k, n \in 1..t : detailed[k] = detailed[n] => k = n
      BY <1>2, <1>5
    <2>2. t \in Nat
      BY <1>1
    <2>3. QED
      BY <1>6, <2>1, <2>2, DifferentAreCounted
  <1>8. ASSUME NEW x \in told PROVE \E k \in 1..t : k \in 1..m /\ x = events[k]
    BY <1>5, <1>7
  <1>9. told \subseteq ToSet(timeline)
    BY <1>2, <1>8
  <1>10. \A i, k \in DOMAIN detailed : i < k => SecondOf(detailed[i]) <= SecondOf(detailed[k])
    BY <1>2, <1>4, <1>5
  <1> DEFINE CutOff(y) == /\ Len(detailed) >= GroupMin * GroupLimit
                          /\ \A x \in told : Stamp(x) <= Stamp(y)
  <1> HIDE DEF told
  <1>11. ASSUME NEW i \in Kept(timeline), timeline[i] \notin told
         PROVE  CutOff(timeline[i])
    <2>1. PICK n \in 1..m : events[n] = timeline[i]
      BY <1>2
    <2>2. n \notin 1..t
      BY <1>5, <1>7, <1>11, <2>1
    <2>3. t < n /\ t < m
      BY <1>1, <2>2
    <2>4. ASSUME NEW x \in told PROVE Stamp(x) <= Stamp(timeline[i])
      <3>1. PICK k \in 1..t : k \in 1..m /\ x = events[k]
        BY <1>8
      <3>2. k < n
        BY <1>1, <2>3, <3>1
      <3>3. QED
        BY <1>2, <2>1, <3>1, <3>2
    <2>5. QED
      BY <1>3, <1>7, <2>3, <2>4
  <1>12. ASSUME NEW e \in ToSet(timeline) \ told
         PROVE  \/ e.key # "none" /\ \E x \in told : x.key = e.key /\ Stamp(x) <= Stamp(e)
                \/ CutOff(e)
    <2>1. PICK i \in DOMAIN timeline : e = timeline[i]
      BY DEF ToSet
    <2>2. CASE i \in Kept(timeline)
      BY <1>11, <2>1, <2>2
    <2>3. CASE i \notin Kept(timeline)
      <3>1. e.key # "none"
        BY <2>1, <2>3, NotKeptIsRepeated
      <3>2. PICK j \in Kept(timeline) : timeline[j].key = e.key /\ Stamp(timeline[j]) <= Stamp(e)
        BY <2>1, <2>3, NotKeptIsRepeated
      <3>3. CASE timeline[j] \in told
        BY <3>1, <3>2, <3>3
      <3>4. CASE timeline[j] \notin told
        <4>1. CutOff(timeline[j])
          BY <1>11, <3>4
        <4>2. Stamp(timeline[j]) \in Nat /\ Stamp(e) \in Nat /\ \A x \in told : Stamp(x) \in Nat
          BY <1>1, <1>4, <1>9 DEF ToSet
        <4>3. \A x \in told : Stamp(x) <= Stamp(e)
          BY <3>2, <4>1, <4>2
        <4>4. QED
          BY <4>1, <4>3
      <3>5. QED
        BY <3>3, <3>4
    <2>4. QED
      BY <2>2, <2>3
  <1>13. ASSUME NEW e \in ToSet(timeline) \ told
         PROVE  \/ e.key # "none" /\ \E x \in told : x.key = e.key /\ SecondOf(x) <= SecondOf(e)
                \/ /\ Len(detailed) >= GroupMin * GroupLimit
                   /\ \A x \in told : SecondOf(x) <= SecondOf(e)
    BY <1>4, <1>9, <1>12
  <1>14. QED
    BY <1>7, <1>9, <1>10, <1>13 DEF TimelineIsTold, detailed, told

\* The other documents show every event.
LEMMA WholeIsTold ==
    ASSUME NEW timeline, Orderly(timeline), NEW doc, doc.format # "pdf",
           doc.shown.detailed = timeline
    PROVE  TimelineIsTold(doc, timeline)
  <1> DEFINE n == Len(timeline)
             S == Range(timeline)
  <1>1. n \in Nat /\ timeline \in [1..n -> S]
    BY LenProperties DEF Orderly
  <1>2. /\ timeline = [i \in 1..n |-> timeline[i]]
        /\ \A i, k \in 1..n : timeline[i] = timeline[k] => i = k
    BY <1>1 DEF Orderly
  <1> HIDE DEF n, S
  <1>3. Len(timeline) = Cardinality(ToSet(timeline))
    BY <1>1, <1>2, DifferentAreCounted
  <1>4. QED
    BY <1>3 DEF TimelineIsTold

\* What each renderer shows.
LEMMA ShownAsTold ==
    ASSUME NEW r, Orderly(r.timeline), NEW format, NEW shown, NEW doc,
           doc = [format |-> format, shown |-> shown],
           \/ format = "pdf" /\ shown = PdfDocument(r)
           \/ format # "pdf" /\ shown = HtmlDocument(r)
    PROVE  /\ doc.shown.cards = DOMAIN r.cards
           /\ doc.shown.listed = {e.id : e \in ToSet(r.timeline)}
           /\ TimelineIsTold(doc, r.timeline)
  <1>1. doc.format = format /\ doc.shown = shown
    OBVIOUS
  <1>2. CASE format = "pdf" /\ shown = PdfDocument(r)
    <2>1. /\ shown.cards = CardRows(r) /\ shown.listed = EventRows(r)
          /\ shown.detailed = Detailed(r.timeline)
      BY <1>2 DEF PdfDocument, Shown
    <2>2. TimelineIsTold(doc, r.timeline)
      BY <1>1, <1>2, <2>1, PdfIsTold
    <2>3. QED
      BY <1>1, <2>1, <2>2 DEF CardRows, EventRows
  <1>3. CASE format # "pdf" /\ shown = HtmlDocument(r)
    <2>1. /\ shown.cards = CardRows(r) /\ shown.listed = EventRows(r)
          /\ shown.detailed = r.timeline
      BY <1>3 DEF HtmlDocument, Shown
    <2>2. TimelineIsTold(doc, r.timeline)
      BY <1>1, <1>3, <2>1, WholeIsTold
    <2>3. QED
      BY <1>1, <2>1, <2>2 DEF CardRows, EventRows
  <1>4. QED
    BY <1>2, <1>3

-----------------------------------------------------------------------------
(***************************************************************************)
(* The documents.                                                          *)
(***************************************************************************)

DocumentTells(doc) ==
    /\ doc.shown.cards = IdsOf(case.refs)
    /\ doc.shown.listed = {e.id : e \in ToSet(case.timeline)}
    /\ TimelineIsTold(doc, case.timeline)

TellingInv == ReportInv /\ \A doc \in document : DocumentTells(doc)

\* A rendered document tells the cards and the timeline of its report.
LEMMA RenderKeeps ==
    ASSUME TellingInv, NEW format \in Formats, Render(format)
    PROVE  TellingInv'
  <1>1. PICK r \in report :
           \E shown \in CASE format = "pdf" -> {PdfDocument(r)}
                         [] format = "html" -> {HtmlDocument(r)}
                         [] format = "json" -> {JsonDocument(r)}
                         [] format = "text" -> TextDocuments(r) :
               document' = {[format |-> format, shown |-> shown]}
    BY DEF Render
  <1>2. PICK shown :
           /\ \/ format = "pdf" /\ shown = PdfDocument(r)
              \/ format # "pdf" /\ shown = HtmlDocument(r)
           /\ document' = {[format |-> format, shown |-> shown]}
    BY <1>1 DEF Formats, JsonDocument, TextDocuments
  <1> DEFINE doc == [format |-> format, shown |-> shown]
  <1>3. CardsTellPackage(r) /\ r.timeline = case.timeline
    BY DEF TellingInv, ReportInv
  <1>4. Orderly(r.timeline)
    BY <1>3, PackageAssumption DEF TellingInv, ReportInv, CustodyInv, Orderly
  <1>5. /\ doc.shown.cards = DOMAIN r.cards
        /\ doc.shown.listed = {e.id : e \in ToSet(r.timeline)}
        /\ TimelineIsTold(doc, r.timeline)
    BY <1>2, <1>4, ShownAsTold
  <1> HIDE DEF doc
  <1>6. DocumentTells(doc)
    BY <1>3, <1>5 DEF DocumentTells, CardsTellPackage, IdsOf
  <1>7. case' = case /\ ReportInv' /\ document' = {doc}
    BY <1>2, ReportIsKept DEF Render, Next, TellingInv, doc
  <1>8. QED
    BY <1>6, <1>7 DEF TellingInv, DocumentTells

\* No other step leaves a document that does not tell the report on file.
LEMMA TellingIsKept ==
    ASSUME TellingInv, [Next]_vars
    PROVE  TellingInv'
  <1>1. ReportInv'
    BY ReportIsKept DEF TellingInv
  <1>2. CASE \E format \in Formats : Render(format)
    BY <1>2, RenderKeeps
  <1>3. CASE GenerateReport
    <2>1. document' = {}
      BY <1>3 DEF GenerateReport
    <2>2. QED
      BY <1>1, <2>1 DEF TellingInv
  <1>4. CASE ~GenerateReport /\ ~\E format \in Formats : Render(format)
    <2>1. document' = document /\ case' = case
      BY <1>4 DEF Next, Build, Verify, Export, SetClock, Persist, vars
    <2>2. QED
      BY <1>1, <2>1 DEF TellingInv, DocumentTells
  <1>5. QED
    BY <1>2, <1>3, <1>4

\* At first there is no document.
LEMMA TellingInitially ==
    ASSUME Init
    PROVE  TellingInv
  <1>1. CustodyInv /\ report = {} /\ document = {}
    BY CustodyInitially DEF Init
  <1>2. QED
    BY <1>1 DEF TellingInv, ReportInv

\* The invariant is what ReportTellsPackage asks of reports and documents.
LEMMA TellingFollows ==
    ASSUME TellingInv
    PROVE  ReportTellsPackage
  BY DEF TellingInv, ReportInv, DocumentTells, IdsOf, ReportTellsPackage

(***************************************************************************)
(* For every case, however often it is built, verified, exported and       *)
(* reported, and for timelines of any length: a report has one true card   *)
(* for each piece of evidence, and each document names every piece of      *)
(* evidence and every event; what the PDF leaves out of its detailed       *)
(* timeline is told by an extraction in no later second, or is in no       *)
(* earlier second than all that is told, which is then no less than its    *)
(* groups must hold.                                                       *)
(***************************************************************************)
THEOREM ReportsTellThePackage == Spec => []ReportTellsPackage
  <1>1. Init => TellingInv
    BY TellingInitially
  <1>2. TellingInv /\ [Next]_vars => TellingInv'
    BY TellingIsKept
  <1>3. TellingInv => ReportTellsPackage
    BY TellingFollows
  <1>4. QED
    BY <1>1, <1>2, <1>3, PTL DEF Spec

=============================================================================
