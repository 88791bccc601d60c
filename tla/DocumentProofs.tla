--------------------------- MODULE DocumentProofs ---------------------------
(***************************************************************************)
(* Theorems about the documents of any number of replicas: what a document *)
(* holds is what its version map counts, the anchors of the edits that can *)
(* be merged are found in it, and the backlog is never stuck.              *)
(***************************************************************************)
EXTENDS ReplicaProofs, RunTreeProofs

------------------------------------------------------------------------------
(* Texts.                                                                  *)
TextsOK ==
    \A t \in Texts :
        /\ t.by \in replicas /\ t.by \in ReplicaIds
        /\ t.start \in Nat /\ t.end \in Nat /\ t.ts \in Nat /\ t.lam \in Nat
        /\ t.start <= t.end /\ t.end <= version_map[t.by][t.by]
        /\ t.start < t.end \/ t = InitialText
        /\ \A r \in replicas :
              version_map[r][t.by] > t.start => t.lam < lamport_clock[r]

LEMMA TextsAreOK ==
    ASSUME TypeOK, ClockInvariant, TextInvariant
    PROVE  TextsOK
<1>1. SUFFICES ASSUME NEW t \in Texts
      PROVE  /\ t.by \in replicas /\ t.by \in ReplicaIds
             /\ t.start \in Nat /\ t.end \in Nat /\ t.ts \in Nat
             /\ t.lam \in Nat
             /\ t.start <= t.end /\ t.end <= version_map[t.by][t.by]
             /\ t.start < t.end \/ t = InitialText
             /\ \A r \in replicas :
                   version_map[r][t.by] > t.start => t.lam < lamport_clock[r]
  BY DEF TextsOK
<1>2. CASE t = InitialText
  <2>1. /\ t.by = Creator /\ t.start = 0 /\ t.end = InitialLen
        /\ t.ts = 0 /\ t.lam = 0
    BY <1>2 DEF InitialText
  <2>2. Creator \in replicas /\ InitialLen <= version_map[Creator][Creator]
    BY DEF TextInvariant, RunClockIsAhead, InitialTextIsCounted
  <2>3. \A r \in replicas : 0 < lamport_clock[r]
    BY DEF ClockInvariant, LamportClocksStarted, TypeOK
  <2>4. QED
    BY <1>2, <2>1, <2>2, <2>3, InitialAssumption
<1>3. CASE t \in insertions
  <2>1. /\ t.by \in ReplicaIds /\ t.start \in Nat /\ t.end \in Nat
        /\ t.ts \in Nat /\ t.lam \in Nat
    BY <1>3 DEF TypeOK, InsertionTypeOK
  <2>2. /\ t.by \in replicas /\ t.start < t.end
        /\ t.end <= version_map[t.by][t.by]
    BY <1>3 DEF ClockInvariant, InsertionsAreCounted
  <2>3. \A r \in replicas :
           version_map[r][t.by] > t.start => t.lam < lamport_clock[r]
    BY <1>3 DEF ClockInvariant, LamportClockIsAhead, HasMergedInsertion
  <2>4. QED
    BY <2>1, <2>2, <2>3
<1>4. QED
  BY <1>2, <1>3 DEF Texts

IsIn(c, t) ==
    /\ c.id = t.by /\ c.ts = t.ts /\ c.lam = t.lam
    /\ c.at \in Nat /\ t.start <= c.at /\ c.at < t.end

LEMMA MarkOfText ==
    ASSUME NEW t, t.start \in Nat, t.end \in Nat, NEW c \in TextMarks(t)
    PROVE  IsIn(c, t)
BY DEF TextMarks, IsIn

LEMMA SentMark ==
    ASSUME TextsOK, NEW c \in SentMarks
    PROVE  \E t \in Texts : c \in TextMarks(t) /\ IsIn(c, t)
<1>1. PICK t \in Texts : c \in TextMarks(t)
  BY DEF SentMarks
<1>2. t.start \in Nat /\ t.end \in Nat
  BY DEF TextsOK
<1>3. QED
  BY <1>1, <1>2, MarkOfText

LEMMA MoreTexts ==
    ASSUME NEW m, insertions' = insertions \cup {m}
    PROVE  /\ Texts' = Texts \cup {m}
           /\ SentMarks' = SentMarks \cup TextMarks(m)
<1>1. Texts' = Texts \cup {m}
  BY DEF Texts, InitialText
<1>2. SentMarks' = UNION {TextMarks(t) : t \in Texts'}
  BY DEF SentMarks, TextMarks
<1>3. QED
  BY <1>1, <1>2 DEF SentMarks

LEMMA SameTexts ==
    ASSUME UNCHANGED insertions
    PROVE  Texts' = Texts /\ SentMarks' = SentMarks
BY DEF Texts, InitialText, SentMarks, TextMarks

LEMMA MarksOfText ==
    ASSUME NEW t
    PROVE  TextMarks(t) = RunMarks(EditRunRecord(t.by, t.start, t.end, t.ts,
                                                 t.lam))
BY DEF TextMarks, RunMarks, EditRunRecord

(* The documents of the next state.                                        *)
LEMMA NextDocument ==
    ASSUME NEW r, NEW runs, runs = run_tree'[r]
    PROVE  /\ WellFormed(TypingOrder, run_tree[r])' <=> WellFormed(TypingOrder, runs)
           /\ DocumentMarks(run_tree[r])' = DocumentMarks(runs)
BY DEF WellFormed, DocumentMarks, RunsAreOrdered, OnlyLastIsEmpty,
       TypingOrder, Mark, MarksBefore, RunMarks, Runs, RunType,
       IsInitialAndEmpty

LEMMA NextDocuments ==
    ASSUME run_tree' \in [ReplicaIds -> Seq(Runs)],
           \A r \in replicas' :
              /\ WellFormed(TypingOrder, run_tree'[r])
              /\ DocumentMarks(run_tree'[r]) =
                   {c \in SentMarks' : c.at < version_map'[r][c.id]}
    PROVE  DocumentsAreSentText'
<1>1. Seq(Runs)' = Seq(Runs)
  BY DEF Runs, RunType, IsInitialAndEmpty
<1>2. \A r \in replicas' :
        /\ WellFormed(TypingOrder, run_tree[r])'
        /\ DocumentMarks(run_tree[r])' =
             {c \in SentMarks' : c.at < version_map'[r][c.id]}
  BY NextDocument
<1>3. QED
  BY <1>1, <1>2 DEF DocumentsAreSentText

(* A character was sent once.                                              *)
LEMMA MarksAreUnique ==
    ASSUME TextsOK, TextsAreDisjoint, NEW c \in SentMarks, NEW e \in SentMarks,
           c.id = e.id, c.at = e.at
    PROVE  c = e
<1>1. PICK t \in Texts : c \in TextMarks(t) /\ IsIn(c, t)
  BY SentMark
<1>2. PICK u \in Texts : e \in TextMarks(u) /\ IsIn(e, u)
  BY SentMark
<1>3. /\ t.start \in Nat /\ t.end \in Nat /\ u.start \in Nat /\ u.end \in Nat
  BY DEF TextsOK
<1>4. t.by = u.by
  BY <1>1, <1>2 DEF IsIn
<1>5. t = u \/ t.end <= u.start \/ u.end <= t.start
  BY <1>4 DEF TextsAreDisjoint
<1>6. t = u
  BY <1>1, <1>2, <1>3, <1>5 DEF IsIn
<1>7. c = [id |-> t.by, at |-> c.at, ts |-> t.ts, lam |-> t.lam]
      /\ e = [id |-> u.by, at |-> e.at, ts |-> u.ts, lam |-> u.lam]
  BY <1>1, <1>2 DEF TextMarks
<1>8. QED
  BY <1>6, <1>7

------------------------------------------------------------------------------
(* A local insertion.                                                      *)
StartsNewRun(r, m) ==
    /\ m.ts = run_clock[r] /\ m.lam = lamport_clock[r]
    /\ run_clock' = [run_clock EXCEPT ![r] = run_clock[r] + 1]
    /\ lamport_clock' = [lamport_clock EXCEPT ![r] = lamport_clock[r] + 1]

ContinuesRunAt(r, m, c) ==
    /\ c.id = r /\ c.at + 1 = m.start /\ c.ts = m.ts /\ c.lam = m.lam
    /\ m.ts = run_clock[r] - 1 /\ m.lam = lamport_clock[r] - 1
    /\ UNCHANGED <<run_clock, lamport_clock>>

InsertsText(r, m) ==
    /\ r \in replicas /\ r \in ReplicaIds
    /\ m.by = r /\ m.start = version_map[r][r] /\ m.start < m.end
    /\ m.start \in Nat /\ m.end \in Nat /\ m.ts \in Nat /\ m.lam \in Nat
    /\ insertions' = insertions \cup {m}
    /\ version_map' = [version_map EXCEPT ![r][r] = m.end]
    /\ \/ m.anchor = ZeroAnchor /\ StartsNewRun(r, m)
       \/ \E c \in DocumentMarks(run_tree[r]) :
            /\ IsAfterMark(m.anchor, c)
            /\ StartsNewRun(r, m) \/ ContinuesRunAt(r, m, c)
    /\ UNCHANGED <<replicas, deletion_map, deletions>>

(* What a local insertion does to a document.                              *)
AddsText(r, m) ==
    /\ run_tree' \in [ReplicaIds -> Seq(Runs)]
    /\ \A s \in ReplicaIds \ {r} : run_tree'[s] = run_tree[s]
    /\ WellFormed(TypingOrder, run_tree'[r])
    /\ DocumentMarks(run_tree'[r]) = DocumentMarks(run_tree[r]) \cup TextMarks(m)

(* Where it puts the text, in a document that is in any order.             *)
IsPutBetween(r, m, order, X, Y) ==
    IsPlaced(order, run_tree[r],
             EditRunRecord(m.by, m.start, m.end, m.ts, m.lam),
             run_tree'[r], X, Y)

IsPutAfterAnchor(r, m) ==
    \A order : KeepsRuns(order) /\ WellFormed(order, run_tree[r]) =>
        \E X, Y :
          /\ IsPutBetween(r, m, order, X, Y)
          /\ \/ m.anchor = ZeroAnchor /\ X = {}
             \/ \E c \in DocumentMarks(run_tree[r]) :
                  /\ IsAfterMark(m.anchor, c)
                  /\ IsRightAfter(order, c, X, Y)

LEMMA TextInserted ==
    ASSUME ClockTypes, ClockTypes', ClockInvariant, TextInvariant, TextsOK,
           DocumentsAreSentText, NEW r, NEW m, InsertsText(r, m)
    PROVE  TextInvariant'
<1>1. /\ r \in replicas /\ r \in ReplicaIds
      /\ m.by = r /\ m.start = version_map[r][r] /\ m.start < m.end
      /\ m.start \in Nat /\ m.end \in Nat /\ m.ts \in Nat /\ m.lam \in Nat
      /\ UNCHANGED <<replicas, deletion_map, deletions>>
  BY DEF InsertsText
<1>2. /\ insertions' = insertions \cup {m}
      /\ Texts' = Texts \cup {m} /\ SentMarks' = SentMarks \cup TextMarks(m)
  BY MoreTexts DEF InsertsText
<1>3. /\ version_map'[r][r] = m.end
      /\ \A s, a \in ReplicaIds :
            s # r \/ a # r => version_map'[s][a] = version_map[s][a]
  BY DEF InsertsText, ClockTypes
<1>4. /\ replicas \subseteq ReplicaIds
      /\ \A s, a \in ReplicaIds : version_map[s][a] \in Nat
      /\ \A s \in ReplicaIds : run_clock[s] \in Nat /\ lamport_clock[s] \in Nat
      /\ lamport_clock[r] > 0
  BY <1>1 DEF ClockTypes, ClockInvariant, LamportClocksStarted
(* The texts of the inserter so far.                                       *)
<1>5. ASSUME NEW t \in Texts, t.by = r
      PROVE  /\ t.start \in Nat /\ t.end \in Nat /\ t.ts \in Nat
             /\ t.lam \in Nat
             /\ t.start <= t.end /\ t.end <= m.start
             /\ t.ts < run_clock[r] /\ t.lam < lamport_clock[r]
  <2>1. /\ t.start \in Nat /\ t.end \in Nat /\ t.ts \in Nat /\ t.lam \in Nat
        /\ t.start <= t.end /\ t.end <= m.start
    BY <1>1, <1>5 DEF TextsOK
  <2>2. t.ts < run_clock[r]
    BY <1>5 DEF TextInvariant, RunClockIsAhead
  <2>3. CASE t.start < t.end
    <3>1. version_map[r][t.by] > t.start
      BY <1>1, <1>4, <1>5, <2>1, <2>3
    <3>2. QED
      BY <1>1, <2>1, <2>2, <3>1 DEF TextsOK
  <2>4. CASE t = InitialText
    BY <1>4, <2>1, <2>2, <2>4 DEF InitialText
  <2>5. QED
    BY <2>1, <2>3, <2>4 DEF TextsOK
(* The new text either starts a run or continues the latest text.          *)
<1>6. \/ StartsNewRun(r, m)
      \/ \E t \in Texts : /\ t.by = r /\ t.start < t.end /\ t.end = m.start
                          /\ t.ts = m.ts /\ t.lam = m.lam
                          /\ m.ts = run_clock[r] - 1
                          /\ m.lam = lamport_clock[r] - 1
                          /\ UNCHANGED <<run_clock, lamport_clock>>
                          /\ m.anchor =
                               [id |-> r, offset |-> m.start, ts |-> m.ts]
  <2>1. SUFFICES ASSUME NEW c \in DocumentMarks(run_tree[r]),
                        IsAfterMark(m.anchor, c), ContinuesRunAt(r, m, c)
                 PROVE  \E t \in Texts :
                          /\ t.by = r /\ t.start < t.end /\ t.end = m.start
                          /\ t.ts = m.ts /\ t.lam = m.lam
                          /\ m.ts = run_clock[r] - 1
                          /\ m.lam = lamport_clock[r] - 1
                          /\ UNCHANGED <<run_clock, lamport_clock>>
                          /\ m.anchor =
                               [id |-> r, offset |-> m.start, ts |-> m.ts]
    BY DEF InsertsText
  <2>2. c \in SentMarks
    BY <1>1 DEF DocumentsAreSentText
  <2>3. PICK t \in Texts : IsIn(c, t)
    BY <2>2, SentMark
  <2>4. t.by = r /\ t.ts = m.ts /\ t.lam = m.lam
    BY <2>1, <2>3 DEF IsIn, ContinuesRunAt
  <2>5. t.start < t.end /\ t.end = m.start
    <3>1. c.at \in Nat /\ t.start <= c.at /\ c.at < t.end /\ c.at + 1 = m.start
      BY <2>1, <2>3 DEF IsIn, ContinuesRunAt
    <3>2. t.start \in Nat /\ t.end \in Nat /\ t.end <= m.start
      BY <1>5, <2>4
    <3>3. QED
      BY <1>1, <3>1, <3>2
  <2>6. m.anchor = [id |-> r, offset |-> m.start, ts |-> m.ts]
    BY <2>1 DEF IsAfterMark, ContinuesRunAt
  <2>7. QED
    BY <2>1, <2>4, <2>5, <2>6 DEF ContinuesRunAt
<1>7. /\ m.ts < run_clock'[r] /\ m.ts = run_clock'[r] - 1
      /\ run_clock[r] <= run_clock'[r] /\ run_clock'[r] \in Nat
      /\ \A s \in ReplicaIds \ {r} : run_clock'[s] = run_clock[s]
  <2>1. CASE StartsNewRun(r, m)
    <3>1. /\ run_clock' = [run_clock EXCEPT ![r] = run_clock[r] + 1]
          /\ run_clock \in [ReplicaIds -> Nat]
          /\ m.ts = run_clock[r] /\ run_clock[r] \in Nat
      BY <1>1, <1>4, <2>1 DEF StartsNewRun, ClockTypes
    <3>2. /\ run_clock'[r] = run_clock[r] + 1
          /\ \A s \in ReplicaIds \ {r} : run_clock'[s] = run_clock[s]
      BY <1>1, <3>1
    <3>3. QED
      BY <3>1, <3>2
  <2>2. CASE m.ts = run_clock[r] - 1 /\ UNCHANGED run_clock
    BY <1>1, <1>4, <2>2
  <2>3. QED
    BY <1>6, <2>1, <2>2
<1>8. TextsAreDisjoint'
  BY <1>1, <1>2, <1>5 DEF TextInvariant, TextsAreDisjoint
<1>9. TextsHaveNoGaps'
  <2>1. SUFFICES ASSUME NEW a \in replicas,
                        NEW k \in 0 .. version_map'[a][a] - 1
                 PROVE  \E t \in Texts \cup {m} :
                           t.by = a /\ t.start <= k /\ k < t.end
    BY <1>1, <1>2 DEF TextsHaveNoGaps
  <2>2. CASE k \in 0 .. version_map[a][a] - 1
    BY <2>2 DEF TextInvariant, TextsHaveNoGaps
  <2>3. CASE k \notin 0 .. version_map[a][a] - 1
    <3>1. a = r
      BY <1>3, <1>4, <2>3
    <3>2. k \in Nat /\ m.start <= k /\ k < m.end
      BY <1>1, <1>3, <2>1, <2>3, <3>1
    <3>3. QED
      BY <1>1, <3>1, <3>2
  <2>4. QED
    BY <2>2, <2>3
<1>10. ASSUME NEW t \in Texts, t.by = r
       PROVE  t.ts <= m.ts /\ t.lam <= m.lam /\ (t.ts = m.ts <=> t.lam = m.lam)
  <2>1. /\ t.start \in Nat /\ t.end \in Nat /\ t.ts \in Nat /\ t.lam \in Nat
        /\ t.start <= t.end /\ t.end <= m.start
        /\ t.ts < run_clock[r] /\ t.lam < lamport_clock[r]
    BY <1>5, <1>10
  <2>2. CASE StartsNewRun(r, m)
    BY <1>1, <1>4, <2>1, <2>2 DEF StartsNewRun
  <2>3. CASE ~StartsNewRun(r, m)
    <3>1. PICK u \in Texts :
             /\ u.by = r /\ u.start < u.end /\ u.end = m.start
             /\ u.ts = m.ts /\ u.lam = m.lam
             /\ m.ts = run_clock[r] - 1 /\ m.lam = lamport_clock[r] - 1
      BY <1>6, <2>3
    <3>2. u.start \in Nat
      BY <1>5, <3>1
    <3>3. t.ts <= m.ts /\ t.lam <= m.lam
      BY <1>1, <1>4, <2>1, <3>1
    <3>4. t = u \/ t.end <= u.start \/ u.end <= t.start
      BY <1>10, <3>1 DEF TextInvariant, TextsAreDisjoint
    <3>5. t = u \/ t.start < u.start \/ (t.start = u.start /\ ~(t.start < t.end))
            \/ (t.start = m.start /\ ~(t.start < t.end))
      BY <1>1, <2>1, <3>1, <3>2, <3>4
    <3>6. CASE t.start < u.start
      BY <1>10, <3>1, <3>3, <3>6 DEF TextInvariant, TextsAreInOrder
    <3>7. CASE ~(t.start < t.end)
      <4>1. t = InitialText
        BY <3>7 DEF TextsOK
      <4>2. r = Creator /\ t.ts = 0 /\ t.lam = 0
        BY <1>10, <4>1 DEF InitialText
      <4>3. u.ts = 0 <=> u.lam = 0
        BY <3>1, <4>2 DEF TextInvariant, InitialTextIsFirst
      <4>4. QED
        BY <3>1, <3>3, <4>2, <4>3
    <3>8. CASE t = u
      BY <3>1, <3>3, <3>8
    <3>9. QED
      BY <3>5, <3>6, <3>7, <3>8
  <2>4. QED
    BY <2>2, <2>3
<1>11. TextsAreInOrder'
  <2>1. SUFFICES ASSUME NEW t \in Texts \cup {m}, NEW u \in Texts \cup {m},
                        t.by = u.by, t.start < u.start
                 PROVE  /\ t.ts <= u.ts /\ t.lam <= u.lam
                        /\ t.ts = u.ts <=> t.lam = u.lam
    BY <1>2 DEF TextsAreInOrder
  <2>2. CASE t \in Texts /\ u \in Texts
    BY <2>1, <2>2 DEF TextInvariant, TextsAreInOrder
  <2>3. CASE t \in Texts /\ u = m
    BY <1>1, <1>10, <2>1, <2>3
  <2>4. CASE t = m /\ u \in Texts
    BY <1>1, <1>5, <2>1, <2>4
  <2>5. CASE t = m /\ u = m
    BY <1>1, <2>1, <2>5
  <2>6. QED
    BY <2>2, <2>3, <2>4, <2>5
<1>12. InitialTextIsFirst'
  <2>1. SUFFICES ASSUME r = Creator PROVE m.ts = 0 <=> m.lam = 0
    BY <1>1, <1>2 DEF TextInvariant, InitialTextIsFirst
  <2>2. CASE StartsNewRun(r, m)
    BY <1>1, <1>4, <2>1, <2>2
       DEF StartsNewRun, TextInvariant, RunClockIsAhead
  <2>3. CASE ~StartsNewRun(r, m)
    BY <1>6, <2>1, <2>3 DEF TextInvariant, InitialTextIsFirst
  <2>4. QED
    BY <2>2, <2>3
<1>13. InitialTextIsCounted'
  <2>1. SUFFICES ASSUME NEW s \in replicas
                 PROVE  InitialLen <= version_map'[s][Creator]
    BY <1>1 DEF InitialTextIsCounted
  <2>2. InitialLen <= version_map[s][Creator] /\ Creator \in ReplicaIds
    BY InitialAssumption DEF TextInvariant, InitialTextIsCounted
  <2>3. QED
    BY <1>1, <1>3, <1>4, <2>2, InitialAssumption
<1>14. RunClockIsAhead'
  <2>1. /\ Creator \in replicas /\ run_clock[Creator] > 0
        /\ \A t \in Texts :
             /\ t.ts < run_clock[t.by]
             /\ t.start < t.end /\ t.end = version_map[t.by][t.by]
                  => t.ts = run_clock[t.by] - 1
    BY DEF TextInvariant, RunClockIsAhead
  <2>2. run_clock'[Creator] > 0
    BY <1>4, <1>7, <2>1
  <2>3. ASSUME NEW t \in Texts \cup {m}
        PROVE  /\ t.ts < run_clock'[t.by]
               /\ t.start < t.end /\ t.end = version_map'[t.by][t.by]
                    => t.ts = run_clock'[t.by] - 1
    <3>1. CASE t = m
      BY <1>1, <1>7, <3>1
    <3>2. CASE t \in Texts /\ t.by = r
      <4>1. t.end <= m.start /\ t.end \in Nat /\ t.ts < run_clock[r] /\ t.ts \in Nat
        BY <1>5, <3>2
      <4>2. t.ts < run_clock'[r]
        BY <1>1, <1>4, <1>7, <4>1
      <4>3. t.end # m.end
        BY <1>1, <4>1
      <4>4. QED
        BY <1>3, <3>2, <4>2, <4>3
    <3>3. CASE t \in Texts /\ t.by # r
      <4>1. t.by \in ReplicaIds
        BY <3>3 DEF TextsOK
      <4>2. run_clock'[t.by] = run_clock[t.by]
            /\ version_map'[t.by][t.by] = version_map[t.by][t.by]
        BY <1>3, <1>7, <3>3, <4>1
      <4>3. QED
        BY <2>1, <3>3, <4>2
    <3>4. QED
      BY <3>1, <3>2, <3>3
  <2>4. QED
    BY <1>1, <1>2, <2>1, <2>2, <2>3 DEF RunClockIsAhead
<1>15. RunsAreContinued'
  <2>1. SUFFICES ASSUME NEW n \in insertions \cup {m},
                        NEW t \in Texts \cup {m},
                        t.by = n.by, t.ts = n.ts, t.start < n.start
                 PROVE  n.anchor = [id |-> n.by, offset |-> n.start, ts |-> n.ts]
    BY <1>2 DEF RunsAreContinued
  <2>2. CASE n \in insertions /\ t \in Texts
    BY <2>1, <2>2 DEF TextInvariant, RunsAreContinued
  <2>3. CASE n = m /\ t \in Texts
    <3>1. t.by = r /\ t.ts = m.ts /\ t.ts < run_clock[r] /\ t.ts \in Nat
      BY <1>1, <1>5, <2>1, <2>3
    <3>2. ~StartsNewRun(r, m)
      BY <1>4, <3>1 DEF StartsNewRun
    <3>3. QED
      BY <1>1, <1>6, <2>3, <3>2
  <2>4. CASE n \in insertions /\ t = m
    <3>1. n \in Texts /\ n.by = r
      BY <1>1, <2>1, <2>4 DEF Texts
    <3>2. n.start \in Nat /\ n.end \in Nat /\ n.start <= n.end /\ n.end <= m.start
      BY <1>5, <3>1
    <3>3. QED
      BY <1>1, <2>1, <2>4, <3>2
  <2>5. CASE n = m /\ t = m
    BY <1>1, <2>1, <2>5
  <2>6. QED
    BY <2>2, <2>3, <2>4, <2>5

<1>16. TextsAreCountedWhole'
  <2>1. SUFFICES ASSUME NEW s \in replicas, NEW t \in Texts \cup {m}
                 PROVE  \/ version_map'[s][t.by] <= t.start
                        \/ t.end <= version_map'[s][t.by]
    BY <1>1, <1>2 DEF TextsAreCountedWhole
  <2>2. s \in ReplicaIds
    BY <1>4
  <2>3. CASE s = r /\ t.by = r
    BY <1>1, <1>3, <1>5, <2>1, <2>3
  <2>4. CASE s # r /\ t = m
    <3>1. version_map[s][r] <= version_map[r][r]
      BY <1>1 DEF ClockInvariant, NobodyKnowsMore
    <3>2. QED
      BY <1>1, <1>3, <2>2, <2>4, <3>1
  <2>5. CASE t \in Texts /\ (s # r \/ t.by # r)
    <3>1. t.by \in ReplicaIds
      BY <2>5 DEF TextsOK
    <3>2. version_map'[s][t.by] = version_map[s][t.by]
      BY <1>3, <2>2, <2>5, <3>1
    <3>3. QED
      BY <2>5, <3>2 DEF TextInvariant, TextsAreCountedWhole
  <2>6. QED
    BY <1>1, <2>1, <2>3, <2>4, <2>5
<1>17. InsertionsAreAnchored'
  <2>1. SUFFICES ASSUME NEW n \in insertions \cup {m}, n.anchor # ZeroAnchor
                 PROVE  /\ n.anchor \in AnchorType
                        /\ \E t \in Texts \cup {m} :
                             /\ IsAnchoredIn(n.anchor, "left", t)
                             /\ \/ t.lam < n.lam
                                \/ t.by = n.by /\ n.anchor.offset <= n.start
    BY <1>2 DEF InsertionsAreAnchored, IsAnchoredIn
  <2>2. CASE n \in insertions
    BY <2>1, <2>2 DEF TextInvariant, InsertionsAreAnchored
  <2>3. CASE n = m
    <3>1. PICK c \in DocumentMarks(run_tree[r]) :
             /\ IsAfterMark(m.anchor, c)
             /\ StartsNewRun(r, m) \/ ContinuesRunAt(r, m, c)
      BY <2>1, <2>3 DEF InsertsText
    <3>2. c \in SentMarks /\ c.at < version_map[r][c.id]
      BY <1>1 DEF DocumentsAreSentText
    <3>3. PICK t \in Texts : IsIn(c, t)
      BY <3>2, SentMark
    <3>4. /\ t.by = c.id /\ t.ts = c.ts /\ c.at \in Nat /\ t.start <= c.at
          /\ c.at < t.end
      BY <3>3 DEF IsIn
    <3>5. /\ t.by \in ReplicaIds /\ t.start \in Nat /\ t.end \in Nat
          /\ t.ts \in Nat /\ t.lam \in Nat
      BY DEF TextsOK
    <3>6. /\ m.anchor = [id |-> c.id, offset |-> c.at + 1, ts |-> c.ts]
      BY <3>1 DEF IsAfterMark
    <3>7. m.anchor \in AnchorType
      BY <3>4, <3>5, <3>6 DEF AnchorType
    <3>8. IsAnchoredIn(m.anchor, "left", t)
      BY <3>4, <3>5, <3>6 DEF IsAnchoredIn
    <3>9. CASE c.id = r
      <4>1. m.anchor.offset <= m.start
        BY <1>1, <3>2, <3>4, <3>6, <3>9
      <4>2. QED
        BY <1>1, <2>3, <3>4, <3>7, <3>8, <3>9, <4>1
    <3>10. CASE c.id # r
      <4>1. m.lam = lamport_clock[r]
        BY <3>1, <3>10 DEF StartsNewRun, ContinuesRunAt
      <4>2. version_map[r][t.by] > t.start
        BY <1>1, <1>4, <3>2, <3>4, <3>5
      <4>3. t.lam < lamport_clock[r]
        BY <1>1, <4>2 DEF TextsOK
      <4>4. QED
        BY <2>3, <3>7, <3>8, <4>1, <4>3
    <3>11. QED
      BY <3>9, <3>10
  <2>4. QED
    BY <2>1, <2>2, <2>3
<1>18. DeletionsAreAnchored'
  BY <1>1, <1>2 DEF TextInvariant, DeletionsAreAnchored, IsAnchoredIn
<1>19. DeletionsHaveNoGaps'
  BY <1>1 DEF TextInvariant, DeletionsHaveNoGaps
<1>20. EmptyTextIsOldest'
  <2>1. SUFFICES ASSUME InitialLen = 0 PROVE m.lam > 0
    BY <1>2 DEF TextInvariant, EmptyTextIsOldest
  <2>2. CASE StartsNewRun(r, m)
    BY <1>4, <2>2 DEF StartsNewRun
  <2>3. CASE ~StartsNewRun(r, m)
    <3>1. PICK t \in Texts : t.by = r /\ t.start < t.end /\ t.lam = m.lam
      BY <1>6, <2>3
    <3>2. t # InitialText
      BY <2>1, <3>1 DEF InitialText
    <3>3. t \in insertions
      BY <3>2 DEF Texts
    <3>4. QED
      BY <2>1, <3>1, <3>3 DEF TextInvariant, EmptyTextIsOldest
  <2>4. QED
    BY <2>2, <2>3
<1>21. QED
  BY <1>8, <1>9, <1>11, <1>12, <1>13, <1>14, <1>15, <1>16, <1>17, <1>18, <1>19,
     <1>20 DEF TextInvariant

LEMMA DocumentsInserted ==
    ASSUME ClockTypes, ClockInvariant, TextsOK, DocumentsAreSentText,
           NEW r, NEW m, InsertsText(r, m), AddsText(r, m)
    PROVE  DocumentsAreSentText'
<1>1. /\ r \in replicas /\ r \in ReplicaIds /\ replicas' = replicas
      /\ m.by = r /\ m.start = version_map[r][r] /\ m.start < m.end
      /\ m.start \in Nat /\ m.end \in Nat
  BY DEF InsertsText
<1>2. SentMarks' = SentMarks \cup TextMarks(m)
  BY MoreTexts DEF InsertsText
<1>3. /\ version_map'[r][r] = m.end
      /\ \A s, a \in ReplicaIds :
            s # r \/ a # r => version_map'[s][a] = version_map[s][a]
  BY DEF InsertsText, ClockTypes
<1>4. /\ replicas \subseteq ReplicaIds
      /\ \A s, a \in ReplicaIds : version_map[s][a] \in Nat
  BY DEF ClockTypes
<1>5. ASSUME NEW c \in SentMarks
      PROVE  /\ c.id \in ReplicaIds /\ c.at \in Nat
             /\ c.id = r => c.at < m.start
  <2>1. PICK t \in Texts : IsIn(c, t)
    BY SentMark
  <2>2. /\ t.by \in ReplicaIds /\ t.end <= version_map[t.by][t.by]
        /\ t.end \in Nat
    BY DEF TextsOK
  <2>3. c.id = t.by /\ c.at \in Nat /\ c.at < t.end
    BY <2>1 DEF IsIn
  <2>4. QED
    BY <1>1, <2>2, <2>3
<1>6. ASSUME NEW c \in TextMarks(m)
      PROVE  c.id = r /\ c.at \in Nat /\ m.start <= c.at /\ c.at < m.end
  BY <1>1, MarkOfText DEF IsIn
<1>7. ASSUME NEW s \in replicas
      PROVE  /\ WellFormed(TypingOrder, run_tree'[s])
             /\ DocumentMarks(run_tree'[s]) =
                  {c \in SentMarks' : c.at < version_map'[s][c.id]}
  <2>1. s \in ReplicaIds
    BY <1>4
  <2>2. /\ WellFormed(TypingOrder, run_tree[s])
        /\ DocumentMarks(run_tree[s]) =
             {c \in SentMarks : c.at < version_map[s][c.id]}
    BY DEF DocumentsAreSentText
  <2>3. CASE s = r
    <3>1. /\ WellFormed(TypingOrder, run_tree'[s])
          /\ DocumentMarks(run_tree'[s])
               = DocumentMarks(run_tree[s]) \cup TextMarks(m)
      BY <2>3 DEF AddsText
    <3>2. \A c \in SentMarks :
             c.at < version_map[s][c.id] <=> c.at < version_map'[s][c.id]
      <4>1. SUFFICES ASSUME NEW c \in SentMarks
                     PROVE  c.at < version_map[s][c.id]
                              <=> c.at < version_map'[s][c.id]
        OBVIOUS
      <4>2. CASE c.id = r
        BY <1>1, <1>3, <1>5, <2>3, <4>2
      <4>3. CASE c.id # r
        BY <1>3, <1>5, <2>1, <4>3
      <4>4. QED
        BY <4>2, <4>3
    <3>3. \A c \in TextMarks(m) : c.at < version_map'[s][c.id]
      BY <1>3, <1>6, <2>3
    <3>4. QED
      BY <1>2, <2>2, <3>1, <3>2, <3>3
  <2>4. CASE s # r
    <3>1. run_tree'[s] = run_tree[s]
      BY <2>1, <2>4 DEF AddsText
    <3>2. \A c \in SentMarks : version_map'[s][c.id] = version_map[s][c.id]
      BY <1>3, <1>5, <2>1, <2>4
    <3>3. ASSUME NEW c \in TextMarks(m) PROVE ~(c.at < version_map'[s][c.id])
      <4>1. version_map[s][r] <= version_map[r][r]
        BY <1>1 DEF ClockInvariant, NobodyKnowsMore
      <4>2. QED
        BY <1>1, <1>3, <1>4, <1>6, <2>1, <2>4, <4>1
    <3>4. QED
      BY <1>2, <2>2, <3>1, <3>2, <3>3
  <2>5. QED
    BY <2>3, <2>4
<1>8. run_tree' \in [ReplicaIds -> Seq(Runs)]
  BY DEF AddsText
<1>9. QED
  BY <1>1, <1>7, <1>8, NextDocuments

LEMMA InsertedAddsText ==
    ASSUME TypeOK, ClockInvariant, TextInvariant, TextsOK, DocumentsAreSentText,
           NEW r \in ReplicaIds, NEW offset \in Nat,
           offset <= DocumentLen(run_tree[r]), NEW len \in InsertLens,
           Inserted(r, offset, len)
    PROVE  \E m : InsertsText(r, m) /\ AddsText(r, m) /\ IsPutAfterAnchor(r, m)
<1> DEFINE text == [id |-> r, start |-> version_map[r][r],
                    end |-> version_map[r][r] + len]
           result == Insert(run_tree[r], offset, text, run_clock[r],
                            lamport_clock[r])
           run_clock_r == IF result.new THEN run_clock[r] + 1 ELSE run_clock[r]
           lamport_r == IF result.new THEN lamport_clock[r] + 1
                        ELSE lamport_clock[r]
           m == [by |-> r, start |-> version_map[r][r],
                 end |-> version_map[r][r] + len, anchor |-> result.anchor,
                 ts |-> IF run_clock_r = 0 THEN 0 ELSE run_clock_r - 1,
                 lam |-> HighestLamport(lamport_r)]
           run == InsertedRun(result, text, run_clock[r], lamport_clock[r])
           marks == DocumentMarks(run_tree[r])
<1>1. /\ r \in replicas
      /\ run_tree' = [run_tree EXCEPT ![r] = result.runs]
      /\ run_clock' = [run_clock EXCEPT ![r] = run_clock_r]
      /\ lamport_clock' = [lamport_clock EXCEPT ![r] = lamport_r]
      /\ version_map' = [version_map EXCEPT ![r][r] = version_map[r][r] + len]
      /\ insertions' = insertions \cup {m}
      /\ UNCHANGED <<replicas, deletion_map, deletions>>
  BY DEF Inserted, Idle, Active
<1>2. /\ version_map[r][r] \in Nat /\ len \in Nat /\ len > 0
      /\ lamport_clock[r] \in Nat /\ run_clock[r] \in Nat
      /\ run_clock \in [ReplicaIds -> Nat]
      /\ lamport_clock \in [ReplicaIds -> Nat]
      /\ lamport_clock[r] > 0
  BY InsertLensAssumption DEF TypeOK, ClockInvariant, LamportClocksStarted
<1>3. /\ text.id = r /\ text.start = version_map[r][r]
      /\ text.end = version_map[r][r] + len
      /\ text.start \in Nat /\ text.end \in Nat /\ text.start < text.end
  BY <1>2
<1>4. /\ m.by = r /\ m.start = text.start /\ m.end = text.end
      /\ m.anchor = result.anchor
      /\ m.ts = IF run_clock_r = 0 THEN 0 ELSE run_clock_r - 1
      /\ m.lam = HighestLamport(lamport_r)
  OBVIOUS
<1>5. WellFormed(TypingOrder, run_tree[r]) /\ run_tree \in [ReplicaIds -> Seq(Runs)]
  BY <1>1 DEF DocumentsAreSentText
<1> HIDE DEF text, marks
(* The inserter's text in its document.                                    *)
<1>6. ASSUME NEW c \in marks, c.id = text.id
      PROVE  /\ c.at \in Nat /\ c.at < text.start /\ c.ts < run_clock[r]
             /\ c.at + 1 = text.start => c.ts = run_clock[r] - 1
  <2>1. c \in SentMarks /\ c.at < version_map[r][c.id]
    BY <1>1 DEF DocumentsAreSentText, marks
  <2>2. PICK t \in Texts : IsIn(c, t)
    BY <2>1, SentMark
  <2>3. /\ t.by = r /\ c.ts = t.ts /\ c.at \in Nat /\ t.start <= c.at
        /\ c.at < t.end
    BY <1>3, <1>6, <2>2 DEF IsIn
  <2>4. /\ t.start \in Nat /\ t.end \in Nat /\ t.end <= version_map[r][r]
    BY <2>3 DEF TextsOK
  <2>5. /\ t.ts < run_clock[r]
        /\ t.start < t.end /\ t.end = version_map[r][r]
             => t.ts = run_clock[r] - 1
    BY <2>3 DEF TextInvariant, RunClockIsAhead
  <2>6. QED
    BY <1>2, <1>3, <1>6, <2>1, <2>3, <2>4, <2>5
<1> HIDE DEF result, run
<1>7. /\ result.new \in BOOLEAN
      /\ WellFormed(TypingOrder, result.runs)
      /\ DocumentMarks(result.runs) = marks \cup RunMarks(run)
      /\ \/ result.anchor = ZeroAnchor /\ result.new
         \/ \E c \in marks :
              /\ IsAfterMark(result.anchor, c)
              /\ ~result.new =>
                    ContinuesMark(text, run_clock[r], lamport_clock[r], c)
      /\ \A order : KeepsRuns(order) /\ WellFormed(order, run_tree[r]) =>
           \E X, Y :
             /\ IsPlaced(order, run_tree[r], run, result.runs, X, Y)
             /\ \/ result.anchor = ZeroAnchor /\ X = {}
                \/ \E c \in marks :
                     /\ IsAfterMark(result.anchor, c)
                     /\ IsRightAfter(order, c, X, Y)
  <2>1. ComesNext(run_tree[r], text, run_clock[r])
    BY <1>6 DEF ComesNext, marks
  <2>2. text.id \in ReplicaIds
    BY <1>3
  <2>3. /\ result = Insert(run_tree[r], offset, text, run_clock[r],
                           lamport_clock[r])
        /\ run = InsertedRun(result, text, run_clock[r], lamport_clock[r])
    BY DEF result, run
  <2>4. /\ WellFormed(TypingOrder, run_tree[r]) /\ offset <= DocumentLen(run_tree[r])
        /\ text.start \in Nat /\ text.end \in Nat /\ text.start < text.end
        /\ run_clock[r] \in Nat /\ lamport_clock[r] \in Nat
        /\ lamport_clock[r] > 0
    BY <1>2, <1>3, <1>5
  <2>5. result.new \in BOOLEAN
    BY <2>1, <2>2, <2>3, <2>4, InsertAdds
  <2>6. WellFormed(TypingOrder, result.runs)
    BY <2>1, <2>2, <2>3, <2>4, InsertAdds
  <2>7. DocumentMarks(result.runs) = marks \cup RunMarks(run)
    BY <2>1, <2>2, <2>3, <2>4, InsertAdds DEF marks
  <2>8. \/ result.anchor = ZeroAnchor /\ result.new
        \/ \E c \in marks :
             /\ IsAfterMark(result.anchor, c)
             /\ ~result.new =>
                   ContinuesMark(text, run_clock[r], lamport_clock[r], c)
    BY <2>1, <2>2, <2>3, <2>4, InsertAdds DEF marks
  <2>9. ASSUME NEW order, KeepsRuns(order), WellFormed(order, run_tree[r])
        PROVE  \E X, Y :
                 /\ IsPlaced(order, run_tree[r], run, result.runs, X, Y)
                 /\ \/ result.anchor = ZeroAnchor /\ X = {}
                    \/ \E c \in marks :
                         /\ IsAfterMark(result.anchor, c)
                         /\ IsRightAfter(order, c, X, Y)
    <3>1. \E X, Y :
             /\ IsPlaced(order, run_tree[r], run, result.runs, X, Y)
             /\ \/ result.anchor = ZeroAnchor /\ result.new /\ X = {}
                \/ \E c \in DocumentMarks(run_tree[r]) :
                     /\ IsAfterMark(result.anchor, c)
                     /\ IsRightAfter(order, c, X, Y)
                     /\ ~result.new => ContinuesMark(text, run_clock[r],
                                                     lamport_clock[r], c)
      BY <2>1, <2>2, <2>3, <2>4, <2>9, InsertPlaces, SMTT(30)
    <3>2. QED
      BY <3>1 DEF marks
  <2>10. QED
    BY <2>5, <2>6, <2>7, <2>8, <2>9
<1>8. ASSUME m.ts = IF result.new THEN run_clock[r] ELSE run_clock[r] - 1,
             m.lam = IF result.new THEN lamport_clock[r]
                     ELSE lamport_clock[r] - 1
      PROVE  AddsText(r, m) /\ IsPutAfterAnchor(r, m)
  <2>1. run = EditRunRecord(m.by, m.start, m.end, m.ts, m.lam)
    BY <1>3, <1>4, <1>8 DEF run, InsertedRun
  <2> HIDE DEF m
  <2>2. RunMarks(run) = TextMarks(m)
    BY <2>1, MarksOfText
  <2>3. result.runs \in Seq(Runs)
    BY <1>7 DEF WellFormed
  <2>4. /\ run_tree'[r] = result.runs
        /\ run_tree' \in [ReplicaIds -> Seq(Runs)]
        /\ \A s \in ReplicaIds \ {r} : run_tree'[s] = run_tree[s]
    BY <1>1, <1>5, <2>3
  <2>5. AddsText(r, m)
    BY <1>7, <2>2, <2>4 DEF AddsText, marks
  <2>6. IsPutAfterAnchor(r, m)
    <3>1. m.anchor = result.anchor
      BY <1>4
    <3>2. QED
      BY <1>7, <2>1, <2>4, <3>1 DEF IsPutAfterAnchor, IsPutBetween, marks
  <2>7. QED
    BY <2>5, <2>6
<1> HIDE DEF m
<1>9. /\ m.by = r /\ m.start = version_map[r][r] /\ m.start < m.end
      /\ m.start \in Nat /\ m.end \in Nat
      /\ version_map' = [version_map EXCEPT ![r][r] = m.end]
  BY <1>1, <1>3, <1>4
<1>10. CASE result.new
  <2>1. run_clock_r = run_clock[r] + 1 /\ lamport_r = lamport_clock[r] + 1
    BY <1>10
  <2> HIDE DEF run_clock_r, lamport_r
  <2>2. m.ts = run_clock[r] /\ m.lam = lamport_clock[r]
    BY <1>2, <1>4, <2>1 DEF HighestLamport
  <2>3. StartsNewRun(r, m)
    BY <1>1, <2>1, <2>2 DEF StartsNewRun
  <2>4. InsertsText(r, m)
    BY <1>1, <1>2, <1>4, <1>7, <1>9, <2>2, <2>3 DEF InsertsText, marks
  <2>5. QED
    BY <1>8, <1>10, <2>2, <2>4
<1>11. CASE ~result.new
  <2>1. run_clock_r = run_clock[r] /\ lamport_r = lamport_clock[r]
    BY <1>11
  <2> HIDE DEF run_clock_r, lamport_r
  <2>2. PICK c \in marks :
           /\ IsAfterMark(result.anchor, c)
           /\ c.id = text.id /\ c.at + 1 = text.start
           /\ c.ts = run_clock[r] - 1 /\ c.lam = lamport_clock[r] - 1
    BY <1>7, <1>11 DEF ContinuesMark
  <2>3. run_clock[r] > 0
    <3>1. c \in SentMarks
      BY <1>1 DEF DocumentsAreSentText, marks
    <3>2. PICK t \in Texts : IsIn(c, t)
      BY <3>1, SentMark
    <3>3. c.ts \in Nat
      BY <3>2 DEF TextsOK, IsIn
    <3>4. QED
      BY <1>2, <1>6, <2>2, <3>3
  <2>4. m.ts = run_clock[r] - 1 /\ m.lam = lamport_clock[r] - 1
    BY <1>2, <1>4, <2>1, <2>3 DEF HighestLamport
  <2>5. UNCHANGED <<run_clock, lamport_clock>>
    BY <1>1, <1>2, <2>1
  <2>6. ContinuesRunAt(r, m, c)
    BY <1>3, <1>4, <2>2, <2>4, <2>5 DEF ContinuesRunAt
  <2>7. m.ts \in Nat /\ m.lam \in Nat
    BY <1>2, <2>3, <2>4
  <2>8. InsertsText(r, m)
    BY <1>1, <1>4, <1>9, <2>2, <2>6, <2>7 DEF InsertsText, marks
  <2>9. QED
    BY <1>8, <1>11, <2>4, <2>8
<1>12. QED
  BY <1>7, <1>10, <1>11

------------------------------------------------------------------------------
(* A remote insertion.                                                     *)
IsPutInPlace(r, m) ==
    /\ HasAnchor(r, m.anchor)
    /\ \A order : KeepsRuns(order) /\ WellFormed(order, run_tree[r]) =>
         \E X, Y :
           /\ IsPutBetween(r, m, order, X, Y)
           /\ IsInPlace(order,
                        EditRunRecord(m.by, m.start, m.end, m.ts, m.lam),
                        m.anchor, X, Y)

(* What an insertion is anchored to is not after it in the order of runs.  *)
LEMMA AnchorsSortBefore ==
    ASSUME TextInvariant, TextsOK, NEW m \in insertions, NEW c \in SentMarks,
           m.anchor # ZeroAnchor, AnchoredAt(m.anchor, "left", c),
           NEW run, run.id = m.by, run.lam = m.lam
    PROVE  ~SortsAfter(run, c)
<1>1. /\ m.anchor \in AnchorType
      /\ \E t \in Texts :
           /\ IsAnchoredIn(m.anchor, "left", t)
           /\ \/ t.lam < m.lam
              \/ t.by = m.by /\ m.anchor.offset <= m.start
  BY DEF TextInvariant, InsertionsAreAnchored
<1>2. PICK t \in Texts :
         /\ IsAnchoredIn(m.anchor, "left", t)
         /\ \/ t.lam < m.lam
            \/ t.by = m.by /\ m.anchor.offset <= m.start
  BY <1>1
<1>3. PICK u \in Texts : IsIn(c, u)
  BY SentMark
<1>4. m \in Texts
  BY DEF Texts
<1>5. /\ t.start \in Nat /\ t.end \in Nat /\ t.lam \in Nat
      /\ u.start \in Nat /\ u.end \in Nat /\ u.lam \in Nat
      /\ m.start \in Nat /\ m.lam \in Nat
      /\ t.by \in ReplicaIds
  BY <1>4 DEF TextsOK
<1>6. /\ t.by = c.id /\ c.at + 1 = m.anchor.offset
      /\ t.start < m.anchor.offset /\ m.anchor.offset <= t.end
  BY <1>2 DEF AnchoredAt, IsAnchoredIn
<1>7. u.by = c.id /\ c.lam = u.lam /\ c.at \in Nat
      /\ u.start <= c.at /\ c.at < u.end
  BY <1>3 DEF IsIn
<1>8. t = u \/ t.end <= u.start \/ u.end <= t.start
  BY <1>6, <1>7 DEF TextInvariant, TextsAreDisjoint
<1>9. t = u
  BY <1>5, <1>6, <1>7, <1>8
<1>10. CASE t.lam < m.lam
  BY <1>5, <1>7, <1>9, <1>10 DEF SortsAfter
<1>11. CASE t.by = m.by /\ m.anchor.offset <= m.start
  <2>1. t.start < m.start
    BY <1>5, <1>6, <1>7, <1>11
  <2>2. t.lam <= m.lam
    BY <1>4, <1>11, <2>1 DEF TextInvariant, TextsAreInOrder
  <2>3. c.lam <= m.lam /\ c.id = run.id /\ c.id \in Nat
    BY <1>5, <1>6, <1>7, <1>9, <1>11, <2>2, ReplicaIdsAssumption
  <2>4. QED
    BY <1>5, <1>7, <2>3 DEF SortsAfter
<1>12. QED
  BY <1>2, <1>10, <1>11

LEMMA MergedAddsText ==
    ASSUME TypeOK, ClockInvariant, TextInvariant, TextsOK, DocumentsAreSentText,
           NEW r \in replicas, NEW m \in insertions,
           CanMergeInsertion(r, m), MergeUncheckedInsertion(r, m),
           UNCHANGED <<replicas, insertions, deletions>>
    PROVE  \/ MergesInsertion(r, m) /\ AddsText(r, m) /\ IsPutInPlace(r, m)
           \/ LeavesClocks /\ UNCHANGED run_tree
<1>1. /\ version_map[r][m.by] = m.start /\ m.start < m.end
      /\ m.by \in ReplicaIds /\ m.start \in Nat /\ m.end \in Nat
      /\ m.ts \in Nat /\ m.lam \in Nat /\ r \in ReplicaIds
  BY DEF CanMergeInsertion, TypeOK, InsertionTypeOK, ClockInvariant,
         InsertionsAreCounted
<1>2. version_map[r][m.by] + (m.end - m.start) = m.end
  BY <1>1
<1> DEFINE runs == run_tree[r]
           merged == MergeInsertion(runs, m).runs
           run == EditRunRecord(m.by, m.start, m.end, m.ts, m.lam)
<1>3. CASE m.anchor = ZeroAnchor \/ HasLeafAt(runs, m.anchor, "left")
  <2>1. /\ run_tree' = [run_tree EXCEPT ![r] = merged]
        /\ MergesInsertion(r, m)
    BY <1>1, <1>2, <1>3 DEF MergeUncheckedInsertion, MergesInsertion
  <2>2. /\ WellFormed(TypingOrder, runs) /\ run_tree \in [ReplicaIds -> Seq(Runs)]
        /\ DocumentMarks(runs) = {c \in SentMarks : c.at < version_map[r][c.id]}
    BY DEF DocumentsAreSentText
  <2> HIDE DEF runs
  <2>3. run = EditRunRecord(m.by, m.start, m.end, m.ts, m.lam)
    OBVIOUS
  <2>4. run.id = m.by /\ run.start = m.start /\ run.ts = m.ts
    BY DEF EditRunRecord
  <2>17. run.id = m.by /\ run.lam = m.lam
    BY DEF EditRunRecord
  <2> HIDE DEF run, merged
  <2>5. IsLatest(runs, run)
    BY <1>1, <2>2, <2>4 DEF IsLatest
  <2>6. \/ IsOfNewRun(runs, run)
        \/ /\ m.anchor # ZeroAnchor
           /\ m.anchor = [id |-> m.by, offset |-> m.start, ts |-> m.ts]
    <3>1. SUFFICES ASSUME NEW c \in DocumentMarks(runs),
                          c.id = m.by, c.ts = m.ts
                   PROVE  /\ m.anchor # ZeroAnchor
                          /\ m.anchor = [id |-> m.by, offset |-> m.start,
                                         ts |-> m.ts]
      BY <2>4 DEF IsOfNewRun
    <3>2. c \in SentMarks /\ c.at < m.start
      BY <1>1, <2>2, <3>1
    <3>3. PICK t \in Texts : IsIn(c, t)
      BY <3>2, SentMark
    <3>4. t.by = m.by /\ t.ts = m.ts /\ c.at \in Nat /\ t.start <= c.at
      BY <3>1, <3>3 DEF IsIn
    <3>5. t.start \in Nat
      BY DEF TextsOK
    <3>6. m.anchor = [id |-> m.by, offset |-> m.start, ts |-> m.ts]
      BY <1>1, <3>2, <3>4, <3>5 DEF TextInvariant, RunsAreContinued
    <3>7. m.by # 0
      BY <1>1, ReplicaIdsAssumption
    <3>8. QED
      BY <3>6, <3>7 DEF ZeroAnchor
  <2>7. \/ m.anchor = ZeroAnchor
        \/ m.anchor.offset \in Nat /\ HasLeafAt(runs, m.anchor, "left")
    <3>1. m.anchor = ZeroAnchor \/ m.anchor \in AnchorType
      BY DEF TextInvariant, InsertionsAreAnchored
    <3>2. m.anchor \in AnchorType => m.anchor.offset \in Nat
      BY DEF AnchorType
    <3>3. QED
      BY <1>3, <3>1, <3>2 DEF runs
  <2>14. InitialLen = 0 => m.lam > 0
    BY DEF TextInvariant, EmptyTextIsOldest
  <2>15. \A c \in DocumentMarks(runs) :
            AnchoredAt(m.anchor, "left", c) => ~SortsAfter(run, c)
    <3>1. SUFFICES ASSUME NEW c \in DocumentMarks(runs),
                          AnchoredAt(m.anchor, "left", c)
                   PROVE  ~SortsAfter(run, c)
      OBVIOUS
    <3>2. c \in SentMarks
      BY <2>2
    <3>3. PICK t \in Texts : IsIn(c, t)
      BY <3>2, SentMark
    <3>4. c.id # 0
      BY <3>3, ReplicaIdsAssumption DEF TextsOK, IsIn
    <3>5. m.anchor # ZeroAnchor
      BY <3>1, <3>4 DEF AnchoredAt, ZeroAnchor
    <3>6. QED
      BY <2>17, <3>1, <3>2, <3>5, AnchorsSortBefore
  <2>8. WellFormed(TypingOrder, merged)
    BY <1>1, <2>2, <2>3, <2>5, <2>6, <2>7, <2>14, <2>15, MergeInsertionAdds DEF merged
  <2>9. DocumentMarks(merged) = DocumentMarks(runs) \cup RunMarks(run)
    BY <1>1, <2>2, <2>3, <2>5, <2>6, <2>7, <2>14, <2>15, MergeInsertionAdds DEF merged
  <2>16. ASSUME NEW order, KeepsRuns(order), WellFormed(order, runs)
         PROVE  \E X, Y : /\ IsPlaced(order, runs, run, merged, X, Y)
                          /\ IsInPlace(order, run, m.anchor, X, Y)
    BY <1>1, <2>3, <2>7, <2>14, <2>15, <2>16, MergeInsertionPlaces DEF merged
  <2>10. RunMarks(run) = TextMarks(m)
    BY <2>3, MarksOfText
  <2>11. merged \in Seq(Runs)
    BY <2>8 DEF WellFormed
  <2>12. /\ run_tree'[r] = merged
         /\ run_tree' \in [ReplicaIds -> Seq(Runs)]
         /\ \A s \in ReplicaIds \ {r} : run_tree'[s] = run_tree[s]
    BY <1>1, <2>1, <2>2, <2>11
  <2>13. AddsText(r, m)
    BY <2>8, <2>9, <2>10, <2>12 DEF AddsText, runs
  <2>18. IsPutInPlace(r, m)
    BY <2>3, <2>12, <2>16
       DEF IsPutInPlace, IsPutBetween, CanMergeInsertion, runs
  <2>19. QED
    BY <2>1, <2>13, <2>18
<1>4. CASE ~(m.anchor = ZeroAnchor \/ HasLeafAt(runs, m.anchor, "left"))
  BY <1>4 DEF MergeUncheckedInsertion, LeavesClocks, tree_vars
<1>5. QED
  BY <1>3, <1>4

LEMMA TextMerged ==
    ASSUME ClockTypes, ClockInvariant, TextInvariant, TextsOK,
           NEW r \in ReplicaIds, NEW m \in insertions, MergesInsertion(r, m)
    PROVE  TextInvariant'
<1>1. /\ r \in replicas /\ version_map[r][m.by] = m.start
      /\ UNCHANGED <<replicas, run_clock, deletion_map, insertions, deletions>>
  BY DEF MergesInsertion
<1>2. /\ m.by \in replicas /\ m.by \in ReplicaIds /\ m.start < m.end
      /\ m.start \in Nat /\ m.end \in Nat /\ m \in Texts
      /\ m.end <= version_map[m.by][m.by]
  BY DEF ClockInvariant, InsertionsAreCounted, ClockTypes, Texts
<1>3. /\ replicas \subseteq ReplicaIds
      /\ \A s, a \in ReplicaIds : version_map[s][a] \in Nat
  BY DEF ClockTypes
<1>4. m.by # r
  BY <1>1, <1>2, <1>3
<1>5. /\ version_map'[r][m.by] = m.end
      /\ \A s, a \in ReplicaIds :
            s # r \/ a # m.by => version_map'[s][a] = version_map[s][a]
  BY <1>2 DEF MergesInsertion, ClockTypes
<1>6. \A a \in ReplicaIds : version_map'[a][a] = version_map[a][a]
  BY <1>4, <1>5
<1>7. Texts' = Texts
  BY <1>1, SameTexts
<1>8. TextsAreDisjoint' /\ TextsAreInOrder' /\ InitialTextIsFirst'
      /\ EmptyTextIsOldest' /\ RunsAreContinued'
  BY <1>1, <1>7 DEF TextInvariant, TextsAreDisjoint, TextsAreInOrder,
                    InitialTextIsFirst, EmptyTextIsOldest, RunsAreContinued
<1>9. InsertionsAreAnchored' /\ DeletionsAreAnchored' /\ DeletionsHaveNoGaps'
  BY <1>1, <1>7 DEF TextInvariant, InsertionsAreAnchored, DeletionsAreAnchored,
                    DeletionsHaveNoGaps, IsAnchoredIn
<1>10. TextsHaveNoGaps'
  BY <1>1, <1>3, <1>6, <1>7 DEF TextInvariant, TextsHaveNoGaps
<1>11. RunClockIsAhead'
  <2>1. \A t \in Texts : t.by \in ReplicaIds
    BY DEF TextsOK
  <2>2. QED
    BY <1>1, <1>6, <1>7, <2>1 DEF TextInvariant, RunClockIsAhead
<1>12. InitialTextIsCounted'
  <2>1. SUFFICES ASSUME NEW s \in replicas
                 PROVE  InitialLen <= version_map'[s][Creator]
    BY <1>1 DEF InitialTextIsCounted
  <2>2. InitialLen <= version_map[s][Creator] /\ Creator \in ReplicaIds
    BY InitialAssumption DEF TextInvariant, InitialTextIsCounted
  <2>3. QED
    BY <1>1, <1>2, <1>3, <1>5, <2>2, InitialAssumption
<1>13. TextsAreCountedWhole'
  <2>1. SUFFICES ASSUME NEW s \in replicas, NEW t \in Texts
                 PROVE  \/ version_map'[s][t.by] <= t.start
                        \/ t.end <= version_map'[s][t.by]
    BY <1>1, <1>7 DEF TextsAreCountedWhole
  <2>2. t.by \in ReplicaIds /\ t.start \in Nat /\ t.end \in Nat
    BY DEF TextsOK
  <2>3. CASE s = r /\ t.by = m.by
    <3>1. t = m \/ t.end <= m.start \/ m.end <= t.start
      BY <1>2, <2>3 DEF TextInvariant, TextsAreDisjoint
    <3>2. QED
      BY <1>2, <1>5, <2>2, <2>3, <3>1
  <2>4. CASE s # r \/ t.by # m.by
    <3>1. version_map'[s][t.by] = version_map[s][t.by]
      BY <1>3, <1>5, <2>2, <2>4
    <3>2. QED
      BY <3>1 DEF TextInvariant, TextsAreCountedWhole
  <2>5. QED
    BY <2>3, <2>4
<1>14. QED
  BY <1>8, <1>9, <1>10, <1>11, <1>12, <1>13 DEF TextInvariant

LEMMA DocumentsMerged ==
    ASSUME ClockTypes, ClockInvariant, TextInvariant, TextsOK,
           DocumentsAreSentText, NEW r \in ReplicaIds, NEW m \in insertions,
           MergesInsertion(r, m), AddsText(r, m)
    PROVE  DocumentsAreSentText'
<1>1. /\ r \in replicas /\ version_map[r][m.by] = m.start
      /\ UNCHANGED <<replicas, insertions>>
  BY DEF MergesInsertion
<1>2. /\ m.by \in ReplicaIds /\ m.start < m.end
      /\ m.start \in Nat /\ m.end \in Nat /\ m \in Texts
  BY DEF ClockInvariant, InsertionsAreCounted, ClockTypes, Texts
<1>3. SentMarks' = SentMarks
  BY <1>1, SameTexts
<1>4. /\ version_map'[r][m.by] = m.end
      /\ \A s, a \in ReplicaIds :
            s # r \/ a # m.by => version_map'[s][a] = version_map[s][a]
  BY <1>2 DEF MergesInsertion, ClockTypes
<1>5. replicas \subseteq ReplicaIds
  BY DEF ClockTypes
<1>6. ASSUME NEW c \in SentMarks
      PROVE  /\ c.id \in ReplicaIds /\ c.at \in Nat
             /\ c.id = m.by /\ m.start <= c.at /\ c.at < m.end
                  => c \in TextMarks(m)
  <2>1. PICK t \in Texts : c \in TextMarks(t) /\ IsIn(c, t)
    BY SentMark
  <2>2. t.by \in ReplicaIds /\ t.start \in Nat /\ t.end \in Nat
    BY DEF TextsOK
  <2>3. /\ c.id = t.by /\ c.at \in Nat /\ t.start <= c.at /\ c.at < t.end
    BY <2>1 DEF IsIn
  <2>4. t.by = m.by => t = m \/ t.end <= m.start \/ m.end <= t.start
    BY <1>2 DEF TextInvariant, TextsAreDisjoint
  <2>5. QED
    BY <1>2, <2>1, <2>2, <2>3, <2>4
<1>7. ASSUME NEW c \in TextMarks(m)
      PROVE  /\ c \in SentMarks /\ c.id = m.by /\ c.at \in Nat
             /\ m.start <= c.at /\ c.at < m.end
  BY <1>2, MarkOfText DEF IsIn, SentMarks
<1>8. ASSUME NEW s \in replicas
      PROVE  /\ WellFormed(TypingOrder, run_tree'[s])
             /\ DocumentMarks(run_tree'[s]) =
                  {c \in SentMarks : c.at < version_map'[s][c.id]}
  <2>1. s \in ReplicaIds
    BY <1>5
  <2>2. /\ WellFormed(TypingOrder, run_tree[s])
        /\ DocumentMarks(run_tree[s]) =
             {c \in SentMarks : c.at < version_map[s][c.id]}
    BY DEF DocumentsAreSentText
  <2>3. CASE s = r
    <3>1. /\ WellFormed(TypingOrder, run_tree'[s])
          /\ DocumentMarks(run_tree'[s])
               = DocumentMarks(run_tree[s]) \cup TextMarks(m)
      BY <2>3 DEF AddsText
    <3>2. ASSUME NEW c \in SentMarks
          PROVE  c.at < version_map'[s][c.id] <=>
                   c.at < version_map[s][c.id] \/ c \in TextMarks(m)
      <4>1. CASE c.id = m.by
        BY <1>1, <1>2, <1>4, <1>6, <1>7, <2>3, <4>1
      <4>2. CASE c.id # m.by
        BY <1>4, <1>6, <1>7, <2>1, <4>2
      <4>3. QED
        BY <4>1, <4>2
    <3>3. QED
      BY <1>7, <2>2, <3>1, <3>2
  <2>4. CASE s # r
    <3>1. run_tree'[s] = run_tree[s]
      BY <2>1, <2>4 DEF AddsText
    <3>2. \A c \in SentMarks : version_map'[s][c.id] = version_map[s][c.id]
      BY <1>4, <1>6, <2>1, <2>4
    <3>3. QED
      BY <2>2, <3>1, <3>2
  <2>5. QED
    BY <2>3, <2>4
<1>9. run_tree' \in [ReplicaIds -> Seq(Runs)]
  BY DEF AddsText
<1>10. QED
  BY <1>1, <1>3, <1>8, <1>9, NextDocuments

------------------------------------------------------------------------------
(* Deletions: the text stays, in leaves cut anew.                          *)
KeepsText(r) ==
    /\ run_tree' \in [ReplicaIds -> Seq(Runs)]
    /\ \A s \in ReplicaIds \ {r} : run_tree'[s] = run_tree[s]
    /\ WellFormed(TypingOrder, run_tree'[r])
    /\ DocumentMarks(run_tree'[r]) = DocumentMarks(run_tree[r])
    /\ \A order : KeepsRuns(order) /\ WellFormed(order, run_tree[r])
                    => WellFormed(order, run_tree'[r])

(* A local deletion is anchored to the first and the last character of its *)
(* range, and says how much of their inserters' text the replica has.      *)
AnchorsRange(r, d) ==
    /\ d.version_map \in [ReplicaIds -> Nat]
    /\ \E c, e \in DocumentMarks(run_tree[r]) :
         /\ d.start = [id |-> c.id, offset |-> c.at, ts |-> c.ts]
         /\ d.end = [id |-> e.id, offset |-> e.at + 1, ts |-> e.ts]
         /\ c.id = e.id /\ c.ts = e.ts => c.at <= e.at
         /\ d.version_map[c.id] = version_map[r][c.id]
         /\ d.version_map[e.id] = version_map[r][e.id]

LEMMA DeletedKeepsText ==
    ASSUME TypeOK, TextsOK, DocumentsAreSentText, NEW r \in ReplicaIds,
           NEW from \in 0 .. DocumentLen(run_tree[r]),
           NEW to \in 0 .. DocumentLen(run_tree[r]), from < to,
           Deleted(r, from, to)
    PROVE  \E d \in deletions' :
              Deletes(r, d) /\ AnchorsRange(r, d) /\ KeepsText(r)
<1> DEFINE runs == run_tree[r]
           result == Delete(runs, from, to)
           known == [a \in ReplicaIds |-> IF a \in result.ids \cup {r}
                                          THEN version_map[r][a] ELSE 0]
           deletion == [by |-> r, ts |-> deletion_map[r][r] + 1,
                        start |-> result.start, end |-> result.end,
                        version_map |-> known]
<1>1. /\ r \in replicas
      /\ run_tree' = [run_tree EXCEPT ![r] = result.runs]
      /\ deletion_map' = [deletion_map EXCEPT ![r][r] = @ + 1]
      /\ deletions' = deletions \cup {deletion}
      /\ UNCHANGED <<replicas, run_clock, lamport_clock, version_map,
                     insertions>>
  BY DEF Deleted, Idle, Active
<1>2. \A a \in ReplicaIds : version_map[r][a] \in Nat
  BY DEF TypeOK
<1>3. known \in [ReplicaIds -> Nat]
  BY <1>2
<1>4. /\ \A a \in ReplicaIds : known[a] <= version_map[r][a]
      /\ \A a \in result.ids :
            a \in ReplicaIds => known[a] = version_map[r][a]
  <2>1. \A a \in ReplicaIds :
           known[a] = IF a \in result.ids \cup {r} THEN version_map[r][a] ELSE 0
    OBVIOUS
  <2> HIDE DEF known
  <2>2. QED
    BY <1>2, <2>1
<1>5. /\ deletion.by = r /\ deletion.ts = deletion_map[r][r] + 1
      /\ deletion.version_map = known
      /\ deletion.start = result.start /\ deletion.end = result.end
  OBVIOUS
<1>6. /\ WellFormed(TypingOrder, runs) /\ run_tree \in [ReplicaIds -> Seq(Runs)]
      /\ DocumentMarks(runs) = {c \in SentMarks : c.at < version_map[r][c.id]}
  BY <1>1 DEF DocumentsAreSentText
<1>7. from \in Nat /\ to \in Nat /\ to <= DocumentLen(runs)
  OBVIOUS
<1> HIDE DEF result, known, deletion, runs
<1>8. /\ WellFormed(TypingOrder, result.runs)
      /\ DocumentMarks(result.runs) = DocumentMarks(runs)
      /\ \E c, e \in DocumentMarks(runs) :
           /\ result.start = [id |-> c.id, offset |-> c.at, ts |-> c.ts]
           /\ result.end = [id |-> e.id, offset |-> e.at + 1, ts |-> e.ts]
           /\ c.id \in result.ids /\ e.id \in result.ids
           /\ c.id = e.id /\ c.ts = e.ts => c.at <= e.at
  <2>1. /\ WellFormed(TypingOrder, result.runs)
        /\ DocumentMarks(result.runs) = DocumentMarks(runs)
        /\ \E c, e \in DocumentMarks(runs) :
             /\ result.start = [id |-> c.id, offset |-> c.at, ts |-> c.ts]
             /\ result.end = [id |-> e.id, offset |-> e.at + 1, ts |-> e.ts]
             /\ c.id \in result.ids /\ e.id \in result.ids
             /\ c = e \/ <<c, e>> \in TypingOrder
    BY <1>6, <1>7, TypingKeepsRuns, DeleteKeepsDocument, ZenonT(40) DEF result
  <2>2. \A c \in DocumentMarks(runs) : c.at \in Nat
    BY <1>6, SentMark DEF IsIn
  <2>3. \A c, e \in DocumentMarks(runs) :
           c = e \/ <<c, e>> \in TypingOrder
             => (c.id = e.id /\ c.ts = e.ts => c.at <= e.at)
    BY <2>2 DEF TypingOrder
  <2>4. QED
    BY <2>1, <2>3
<1>13. ASSUME NEW order, KeepsRuns(order), WellFormed(order, runs)
       PROVE  WellFormed(order, result.runs)
  BY <1>7, <1>13, DeleteKeepsDocument DEF result
<1>9. Deletes(r, deletion)
  BY <1>1, <1>4, <1>5 DEF Deletes
<1>10. AnchorsRange(r, deletion)
  <2>1. PICK c, e \in DocumentMarks(runs) :
           /\ result.start = [id |-> c.id, offset |-> c.at, ts |-> c.ts]
           /\ result.end = [id |-> e.id, offset |-> e.at + 1, ts |-> e.ts]
           /\ c.id \in result.ids /\ e.id \in result.ids
           /\ c.id = e.id /\ c.ts = e.ts => c.at <= e.at
    BY <1>8
  <2>2. c.id \in ReplicaIds /\ e.id \in ReplicaIds
    BY <1>6, SentMark DEF TextsOK, IsIn
  <2>3. known[c.id] = version_map[r][c.id] /\ known[e.id] = version_map[r][e.id]
    BY <1>4, <2>1, <2>2
  <2>4. QED
    BY <1>3, <1>5, <2>1, <2>3 DEF AnchorsRange, runs
<1>11. KeepsText(r)
  <2>1. result.runs \in Seq(Runs)
    BY <1>8 DEF WellFormed
  <2>2. /\ run_tree'[r] = result.runs
        /\ run_tree' \in [ReplicaIds -> Seq(Runs)]
        /\ \A s \in ReplicaIds \ {r} : run_tree'[s] = run_tree[s]
    BY <1>1, <1>6, <2>1
  <2>3. QED
    BY <1>8, <1>13, <2>2 DEF KeepsText, runs
<1>12. QED
  BY <1>1, <1>9, <1>10, <1>11

LEMMA MergedKeepsText ==
    ASSUME TypeOK, TextInvariant, TextsOK, DocumentsAreSentText,
           NEW r \in replicas, NEW d \in deletions,
           CanMergeDeletion(r, d), MergeUncheckedDeletion(r, d),
           UNCHANGED <<replicas, insertions, deletions>>
    PROVE  \/ MergesDeletion(r, d) /\ KeepsText(r)
           \/ LeavesClocks /\ UNCHANGED run_tree
<1> DEFINE runs == run_tree[r]
           merged == MergeDeletion(runs, d).runs
<1>1. CASE /\ HasLeafAt(runs, d.start, "right")
           /\ HasLeafAt(runs, d.end, "left")
           /\ MergeDeletion(runs, d).sound
  <2>1. /\ run_tree' = [run_tree EXCEPT ![r] = merged]
        /\ MergesDeletion(r, d)
    BY <1>1 DEF MergeUncheckedDeletion, MergesDeletion
  <2>2. /\ WellFormed(TypingOrder, runs) /\ run_tree \in [ReplicaIds -> Seq(Runs)]
        /\ DocumentMarks(runs) \subseteq SentMarks
        /\ r \in ReplicaIds
    BY DEF DocumentsAreSentText, TypeOK
  <2>3. /\ d.start \in AnchorType /\ d.end \in AnchorType
        /\ d.start.id = d.end.id /\ d.start.ts = d.end.ts
             => d.start.offset < d.end.offset
    BY DEF TextInvariant, DeletionsAreAnchored
  <2>4. d.start.offset \in Nat /\ d.end.offset \in Nat
    BY <2>3 DEF AnchorType
  <2>5. d.version_map \in [ReplicaIds -> Nat]
    BY DEF TypeOK, DeletionTypeOK
  <2> HIDE DEF runs, merged
  <2>6. \A c, e \in DocumentMarks(runs) :
           c.id = e.id /\ c.at = e.at => c.ts = e.ts
    BY <2>2, MarksAreUnique DEF TextInvariant
  <2>12. ASSUME NEW order, KeepsRuns(order), WellFormed(order, runs)
         PROVE  /\ WellFormed(order, merged)
                /\ DocumentMarks(merged) = DocumentMarks(runs)
    BY <1>1, <2>3, <2>4, <2>5, <2>6, <2>12, MergeDeletionKeeps DEF merged
  <2>7. WellFormed(TypingOrder, merged)
    BY <2>2, <2>12, TypingKeepsRuns
  <2>8. DocumentMarks(merged) = DocumentMarks(runs)
    BY <2>2, <2>12, TypingKeepsRuns
  <2>9. merged \in Seq(Runs)
    BY <2>7 DEF WellFormed
  <2>10. /\ run_tree'[r] = merged
         /\ run_tree' \in [ReplicaIds -> Seq(Runs)]
         /\ \A s \in ReplicaIds \ {r} : run_tree'[s] = run_tree[s]
    BY <2>1, <2>2, <2>9
  <2>11. QED
    BY <2>1, <2>7, <2>8, <2>10, <2>12 DEF KeepsText, runs
<1>2. CASE ~ (/\ HasLeafAt(runs, d.start, "right")
              /\ HasLeafAt(runs, d.end, "left")
              /\ MergeDeletion(runs, d).sound)
  BY <1>2 DEF MergeUncheckedDeletion, LeavesClocks, tree_vars
<1>3. QED
  BY <1>1, <1>2

LEMMA TextDeleted ==
    ASSUME ClockTypes, ClockTypes', ClockInvariant, TextInvariant, TextsOK,
           DocumentsAreSentText, NEW r \in ReplicaIds, NEW d,
           Deletes(r, d), AnchorsRange(r, d)
    PROVE  TextInvariant'
<1>1. /\ r \in replicas /\ d.by = r /\ d.ts = deletion_map[r][r] + 1
      /\ deletions' = deletions \cup {d}
      /\ UNCHANGED <<replicas, run_clock, version_map, insertions>>
  BY DEF Deletes
<1>2. Texts' = Texts
  BY <1>1, SameTexts
<1>3. /\ deletion_map'[r][r] = deletion_map[r][r] + 1
      /\ \A a \in ReplicaIds : a # r => deletion_map'[a][a] = deletion_map[a][a]
      /\ deletion_map[r][r] \in Nat
      /\ replicas \subseteq ReplicaIds
  BY <1>1 DEF Deletes, ClockTypes
<1>4. /\ TextsAreDisjoint' /\ TextsAreInOrder' /\ InitialTextIsFirst'
      /\ EmptyTextIsOldest' /\ RunsAreContinued' /\ TextsHaveNoGaps'
  BY <1>1, <1>2 DEF TextInvariant, TextsAreDisjoint, TextsAreInOrder,
                    InitialTextIsFirst, EmptyTextIsOldest, RunsAreContinued, TextsHaveNoGaps
<1>5. RunClockIsAhead' /\ InitialTextIsCounted' /\ TextsAreCountedWhole'
  BY <1>1, <1>2 DEF TextInvariant, RunClockIsAhead, InitialTextIsCounted,
                    TextsAreCountedWhole
<1>6. InsertionsAreAnchored'
  BY <1>1, <1>2 DEF TextInvariant, InsertionsAreAnchored, IsAnchoredIn
<1>7. DeletionsHaveNoGaps'
  <2>1. SUFFICES ASSUME NEW a \in replicas, NEW ts \in 1 .. deletion_map'[a][a]
                 PROVE  \E e \in deletions' : e.by = a /\ e.ts = ts
    BY <1>1 DEF DeletionsHaveNoGaps
  <2>2. CASE a = r /\ ts = deletion_map[r][r] + 1
    BY <1>1, <2>2
  <2>3. CASE ~ (a = r /\ ts = deletion_map[r][r] + 1)
    <3>1. ts \in 1 .. deletion_map[a][a]
      BY <1>3, <2>3
    <3>2. \E e \in deletions : e.by = a /\ e.ts = ts
      BY <3>1 DEF TextInvariant, DeletionsHaveNoGaps
    <3>3. QED
      BY <1>1, <3>2
  <2>4. QED
    BY <2>2, <2>3
<1>8. DeletionsAreAnchored'
  <2>1. PICK c, e \in DocumentMarks(run_tree[r]) :
           /\ d.start = [id |-> c.id, offset |-> c.at, ts |-> c.ts]
           /\ d.end = [id |-> e.id, offset |-> e.at + 1, ts |-> e.ts]
           /\ c.id = e.id /\ c.ts = e.ts => c.at <= e.at
           /\ d.version_map[c.id] = version_map[r][c.id]
           /\ d.version_map[e.id] = version_map[r][e.id]
    BY DEF AnchorsRange
  <2>2. /\ c \in SentMarks /\ c.at < version_map[r][c.id]
        /\ e \in SentMarks /\ e.at < version_map[r][e.id]
    BY <1>1 DEF DocumentsAreSentText
  <2>3. PICK t \in Texts : IsIn(c, t)
    BY <2>2, SentMark
  <2>4. PICK u \in Texts : IsIn(e, u)
    BY <2>2, SentMark
  <2>5. /\ c.id \in ReplicaIds /\ c.at \in Nat /\ c.ts \in Nat
        /\ e.id \in ReplicaIds /\ e.at \in Nat /\ e.ts \in Nat
        /\ t.start <= c.at /\ c.at < t.end /\ u.start <= e.at /\ e.at < u.end
        /\ c.id = t.by /\ c.ts = t.ts /\ e.id = u.by /\ e.ts = u.ts
        /\ t.start \in Nat /\ t.end \in Nat /\ u.start \in Nat /\ u.end \in Nat
    BY <2>3, <2>4 DEF IsIn, TextsOK
  <2>6. /\ d.start.id = c.id /\ d.start.offset = c.at /\ d.start.ts = c.ts
        /\ d.end.id = e.id /\ d.end.offset = e.at + 1 /\ d.end.ts = e.ts
    BY <2>1
  <2>7. d.start \in AnchorType /\ d.end \in AnchorType
    BY <2>1, <2>5 DEF AnchorType
  <2>8. IsAnchoredIn(d.start, "right", t)
    BY <2>5, <2>6 DEF IsAnchoredIn
  <2>9. IsAnchoredIn(d.end, "left", u)
    BY <2>5, <2>6 DEF IsAnchoredIn
  <2>10. /\ d.start.offset < d.version_map[d.start.id]
         /\ d.end.offset <= d.version_map[d.end.id]
         /\ d.start.id = d.end.id /\ d.start.ts = d.end.ts
              => d.start.offset < d.end.offset
    <3>1. version_map[r][c.id] \in Nat /\ version_map[r][e.id] \in Nat
      BY <2>5 DEF ClockTypes
    <3>2. QED
      BY <2>1, <2>2, <2>5, <2>6, <3>1
  <2>11. QED
    BY <1>1, <1>2, <2>7, <2>8, <2>9, <2>10
       DEF TextInvariant, DeletionsAreAnchored, IsAnchoredIn, AnchorType
<1>9. QED
  BY <1>4, <1>5, <1>6, <1>7, <1>8 DEF TextInvariant

LEMMA TextDeletionMerged ==
    ASSUME ClockTypes, ClockInvariant, TextInvariant,
           NEW r \in ReplicaIds, NEW d \in deletions, MergesDeletion(r, d)
    PROVE  TextInvariant'
<1>1. /\ r \in replicas /\ CanMergeDeletion(r, d)
      /\ UNCHANGED <<replicas, run_clock, version_map, insertions, deletions>>
      /\ deletion_map' = [deletion_map EXCEPT ![r][d.by] = d.ts]
  BY DEF MergesDeletion
<1>2. Texts' = Texts
  BY <1>1, SameTexts
<1>3. \A a \in replicas : deletion_map'[a][a] = deletion_map[a][a]
  <2>1. /\ d.by \in ReplicaIds /\ d.ts \in Nat
        /\ d.ts <= deletion_map[d.by][d.by] /\ replicas \subseteq ReplicaIds
        /\ deletion_map[r][d.by] + 1 = d.ts /\ deletion_map[r][d.by] \in Nat
        /\ deletion_map \in [ReplicaIds -> [ReplicaIds -> Nat]]
    BY <1>1 DEF ClockTypes, ClockInvariant, DeletionsAreCounted,
                CanMergeDeletion
  <2>2. d.by # r
    BY <2>1
  <2>3. QED
    BY <1>1, <2>1, <2>2
<1>4. /\ TextsAreDisjoint' /\ TextsAreInOrder' /\ InitialTextIsFirst'
      /\ EmptyTextIsOldest' /\ RunsAreContinued' /\ TextsHaveNoGaps'
  BY <1>1, <1>2 DEF TextInvariant, TextsAreDisjoint, TextsAreInOrder,
                    InitialTextIsFirst, EmptyTextIsOldest, RunsAreContinued, TextsHaveNoGaps
<1>5. RunClockIsAhead' /\ InitialTextIsCounted' /\ TextsAreCountedWhole'
  BY <1>1, <1>2 DEF TextInvariant, RunClockIsAhead, InitialTextIsCounted,
                    TextsAreCountedWhole
<1>6. InsertionsAreAnchored' /\ DeletionsAreAnchored'
  BY <1>1, <1>2 DEF TextInvariant, InsertionsAreAnchored, IsAnchoredIn,
                    DeletionsAreAnchored
<1>7. DeletionsHaveNoGaps'
  BY <1>1, <1>3 DEF TextInvariant, DeletionsHaveNoGaps
<1>8. QED
  BY <1>4, <1>5, <1>6, <1>7 DEF TextInvariant

LEMMA DocumentsKept ==
    ASSUME DocumentsAreSentText, NEW r \in ReplicaIds, KeepsText(r),
           replicas \subseteq ReplicaIds,
           UNCHANGED <<replicas, version_map, insertions>>
    PROVE  DocumentsAreSentText'
<1>1. SentMarks' = SentMarks
  BY SameTexts
<1>2. ASSUME NEW s \in replicas
      PROVE  /\ WellFormed(TypingOrder, run_tree'[s])
             /\ DocumentMarks(run_tree'[s]) =
                  {c \in SentMarks : c.at < version_map[s][c.id]}
  <2>1. /\ WellFormed(TypingOrder, run_tree[s])
        /\ DocumentMarks(run_tree[s]) =
             {c \in SentMarks : c.at < version_map[s][c.id]}
    BY DEF DocumentsAreSentText
  <2>2. CASE s = r
    BY <2>1, <2>2 DEF KeepsText
  <2>3. CASE s # r
    BY <2>1, <2>3 DEF KeepsText
  <2>4. QED
    BY <2>2, <2>3
<1>3. run_tree' \in [ReplicaIds -> Seq(Runs)]
  BY DEF KeepsText
<1>4. QED
  BY <1>1, <1>2, <1>3, NextDocuments

------------------------------------------------------------------------------
(* A fork.                                                                 *)
LEMMA Forked ==
    ASSUME ClockTypes, NEW r \in ReplicaIds, NEW new \in ReplicaIds,
           Fork(r, new)
    PROVE  /\ r \in replicas /\ new \in ReplicaIds \ replicas
           /\ replicas' = replicas \cup {new}
           /\ \A s \in replicas : /\ run_clock'[s] = run_clock[s]
                                  /\ version_map'[s] = version_map[s]
                                  /\ deletion_map'[s] = deletion_map[s]
           /\ \A a \in replicas : version_map'[new][a] = version_map[r][a]
           /\ version_map'[new][new] = 0 /\ deletion_map'[new][new] = 0
           /\ UNCHANGED <<insertions, deletions>>
<1>1. /\ r \in replicas /\ new \in ReplicaIds \ replicas
      /\ replicas' = replicas \cup {new}
      /\ run_clock' = [run_clock EXCEPT ![new] = 0]
      /\ version_map' =
           [version_map EXCEPT ![new] = [version_map[r] EXCEPT ![new] = 0]]
      /\ deletion_map' =
           [deletion_map EXCEPT ![new] = [deletion_map[r] EXCEPT ![new] = 0]]
      /\ UNCHANGED <<insertions, deletions>>
  BY DEF Fork, Idle, Active, sent_vars
<1>2. /\ replicas \subseteq ReplicaIds
      /\ run_clock \in [ReplicaIds -> Nat]
      /\ version_map \in [ReplicaIds -> [ReplicaIds -> Nat]]
      /\ deletion_map \in [ReplicaIds -> [ReplicaIds -> Nat]]
  BY DEF ClockTypes
<1>3. \A s \in replicas : /\ run_clock'[s] = run_clock[s]
                          /\ version_map'[s] = version_map[s]
                          /\ deletion_map'[s] = deletion_map[s]
  BY <1>1, <1>2
<1>4. /\ version_map'[new] = [version_map[r] EXCEPT ![new] = 0]
      /\ deletion_map'[new] = [deletion_map[r] EXCEPT ![new] = 0]
      /\ version_map[r] \in [ReplicaIds -> Nat]
      /\ deletion_map[r] \in [ReplicaIds -> Nat]
  BY <1>1, <1>2
<1>5. /\ \A a \in replicas : version_map'[new][a] = version_map[r][a]
      /\ version_map'[new][new] = 0 /\ deletion_map'[new][new] = 0
  BY <1>1, <1>2, <1>4
<1>6. QED
  BY <1>1, <1>3, <1>5

LEMMA TextForked ==
    ASSUME ClockTypes, TextInvariant, TextsOK,
           NEW r \in ReplicaIds, NEW new \in ReplicaIds, Fork(r, new)
    PROVE  TextInvariant'
<1>1. /\ r \in replicas /\ new \in ReplicaIds \ replicas
      /\ replicas' = replicas \cup {new}
      /\ \A s \in replicas : /\ run_clock'[s] = run_clock[s]
                             /\ version_map'[s] = version_map[s]
                             /\ deletion_map'[s] = deletion_map[s]
      /\ \A a \in replicas : version_map'[new][a] = version_map[r][a]
      /\ version_map'[new][new] = 0 /\ deletion_map'[new][new] = 0
      /\ UNCHANGED <<insertions, deletions>>
  BY Forked
<1>2. Texts' = Texts
  BY <1>1, SameTexts
<1>3. \A t \in Texts : t.by \in replicas
  BY DEF TextsOK
<1>4. /\ TextsAreDisjoint' /\ TextsAreInOrder' /\ InitialTextIsFirst'
      /\ EmptyTextIsOldest' /\ RunsAreContinued'
  BY <1>1, <1>2 DEF TextInvariant, TextsAreDisjoint, TextsAreInOrder,
                    InitialTextIsFirst, EmptyTextIsOldest, RunsAreContinued
<1>5. InsertionsAreAnchored' /\ DeletionsAreAnchored'
  BY <1>1, <1>2 DEF TextInvariant, InsertionsAreAnchored, IsAnchoredIn,
                    DeletionsAreAnchored
<1>6. TextsHaveNoGaps'
  BY <1>1, <1>2 DEF TextInvariant, TextsHaveNoGaps
<1>7. DeletionsHaveNoGaps'
  BY <1>1 DEF TextInvariant, DeletionsHaveNoGaps
<1>8. RunClockIsAhead'
  BY <1>1, <1>2, <1>3 DEF TextInvariant, RunClockIsAhead
<1>9. InitialTextIsCounted'
  <2>1. Creator \in replicas
    BY DEF TextInvariant, RunClockIsAhead
  <2>2. QED
    BY <1>1, <2>1 DEF TextInvariant, InitialTextIsCounted
<1>10. TextsAreCountedWhole'
  BY <1>1, <1>2, <1>3 DEF TextInvariant, TextsAreCountedWhole
<1>11. QED
  BY <1>4, <1>5, <1>6, <1>7, <1>8, <1>9, <1>10 DEF TextInvariant

LEMMA DocumentsForked ==
    ASSUME ClockTypes, TextsOK, DocumentsAreSentText,
           NEW r \in ReplicaIds, NEW new \in ReplicaIds, Fork(r, new)
    PROVE  DocumentsAreSentText'
<1>1. /\ r \in replicas /\ new \in ReplicaIds \ replicas
      /\ replicas' = replicas \cup {new}
      /\ \A s \in replicas : version_map'[s] = version_map[s]
      /\ \A a \in replicas : version_map'[new][a] = version_map[r][a]
      /\ UNCHANGED insertions
  BY Forked
<1>2. SentMarks' = SentMarks
  BY <1>1, SameTexts
<1>3. \A c \in SentMarks : c.id \in replicas
  BY SentMark DEF TextsOK, IsIn
<1>4. /\ run_tree \in [ReplicaIds -> Seq(Runs)]
      /\ run_tree' = [run_tree EXCEPT ![new] = run_tree[r]]
      /\ replicas \subseteq ReplicaIds
  BY DEF Fork, DocumentsAreSentText, ClockTypes
<1>5. /\ run_tree' \in [ReplicaIds -> Seq(Runs)]
      /\ run_tree'[new] = run_tree[r]
      /\ \A s \in replicas : run_tree'[s] = run_tree[s]
  BY <1>1, <1>4
<1>6. ASSUME NEW s \in replicas'
      PROVE  /\ WellFormed(TypingOrder, run_tree'[s])
             /\ DocumentMarks(run_tree'[s]) =
                  {c \in SentMarks : c.at < version_map'[s][c.id]}
  <2>1. PICK o \in replicas :
           /\ run_tree'[s] = run_tree[o]
           /\ \A a \in replicas : version_map'[s][a] = version_map[o][a]
    BY <1>1, <1>5
  <2>2. /\ WellFormed(TypingOrder, run_tree[o])
        /\ DocumentMarks(run_tree[o]) =
             {c \in SentMarks : c.at < version_map[o][c.id]}
    BY DEF DocumentsAreSentText
  <2>3. QED
    BY <1>3, <2>1, <2>2
<1>7. QED
  BY <1>2, <1>5, <1>6, NextDocuments

------------------------------------------------------------------------------
(* The invariant.                                                          *)
LEMMA TextLeft ==
    ASSUME TextInvariant, LeavesClocks
    PROVE  TextInvariant'
<1>1. UNCHANGED <<replicas, run_clock, version_map, deletion_map, insertions,
                  deletions>>
  BY DEF LeavesClocks, clock_vars
<1>2. Texts' = Texts
  BY <1>1, SameTexts
<1>3. /\ TextsAreDisjoint' /\ TextsAreInOrder' /\ InitialTextIsFirst'
      /\ EmptyTextIsOldest' /\ RunsAreContinued' /\ TextsHaveNoGaps'
  BY <1>1, <1>2 DEF TextInvariant, TextsAreDisjoint, TextsAreInOrder,
                    InitialTextIsFirst, EmptyTextIsOldest, RunsAreContinued, TextsHaveNoGaps
<1>4. RunClockIsAhead' /\ InitialTextIsCounted' /\ TextsAreCountedWhole'
  BY <1>1, <1>2 DEF TextInvariant, RunClockIsAhead, InitialTextIsCounted,
                    TextsAreCountedWhole
<1>5. InsertionsAreAnchored' /\ DeletionsAreAnchored' /\ DeletionsHaveNoGaps'
  BY <1>1, <1>2 DEF TextInvariant, InsertionsAreAnchored, IsAnchoredIn,
                    DeletionsAreAnchored, DeletionsHaveNoGaps
<1>6. QED
  BY <1>3, <1>4, <1>5 DEF TextInvariant

LEMMA DocumentsLeft ==
    ASSUME DocumentsAreSentText, LeavesClocks, UNCHANGED run_tree
    PROVE  DocumentsAreSentText'
<1>1. UNCHANGED <<replicas, version_map, insertions>>
  BY DEF LeavesClocks, clock_vars
<1>2. SentMarks' = SentMarks
  BY <1>1, SameTexts
<1>3. \A s \in replicas' :
         /\ WellFormed(TypingOrder, run_tree'[s])
         /\ DocumentMarks(run_tree'[s]) =
              {c \in SentMarks' : c.at < version_map'[s][c.id]}
  BY <1>1, <1>2 DEF DocumentsAreSentText
<1>4. run_tree' \in [ReplicaIds -> Seq(Runs)]
  BY DEF DocumentsAreSentText
<1>5. QED
  BY <1>3, <1>4, NextDocuments

LEMMA TextInit == Init => TextInvariant
<1> SUFFICES ASSUME Init PROVE TextInvariant
  OBVIOUS
<1>1. /\ replicas = {Creator} \cup InitialPeers /\ replicas \subseteq ReplicaIds
      /\ run_clock = [r \in ReplicaIds |-> IF r = Creator THEN 1 ELSE 0]
      /\ version_map = [r \in ReplicaIds |->
           [a \in ReplicaIds |-> IF a = Creator THEN InitialLen ELSE 0]]
      /\ deletion_map = [r \in ReplicaIds |-> [a \in ReplicaIds |-> 0]]
      /\ insertions = {} /\ deletions = {}
      /\ Creator \in ReplicaIds /\ InitialLen \in Nat
  BY InitialAssumption DEF Init
<1>2. /\ \A r \in replicas : version_map[r][Creator] = InitialLen
      /\ \A r, a \in replicas : a # Creator => version_map[r][a] = 0
      /\ \A a \in replicas : deletion_map[a][a] = 0
      /\ run_clock[Creator] = 1 /\ Creator \in replicas
  BY <1>1
<1>3. Texts = {InitialText}
  BY <1>1 DEF Texts
<1>4. /\ InitialText.by = Creator /\ InitialText.start = 0
      /\ InitialText.end = InitialLen /\ InitialText.ts = 0
      /\ InitialText.lam = 0
  BY DEF InitialText
<1>5. TextsAreDisjoint /\ InitialTextIsFirst /\ InitialTextIsCounted
  BY <1>1, <1>2, <1>3, <1>4
     DEF TextsAreDisjoint, InitialTextIsFirst, InitialTextIsCounted
<1>6. TextsAreInOrder
  BY <1>3, <1>4 DEF TextsAreInOrder
<1>7. TextsHaveNoGaps
  BY <1>1, <1>2, <1>3, <1>4 DEF TextsHaveNoGaps
<1>8. RunClockIsAhead
  BY <1>1, <1>2, <1>3, <1>4 DEF RunClockIsAhead
<1>9. TextsAreCountedWhole
  BY <1>1, <1>2, <1>3, <1>4 DEF TextsAreCountedWhole
<1>10. /\ RunsAreContinued /\ InsertionsAreAnchored /\ DeletionsAreAnchored
       /\ EmptyTextIsOldest
  BY <1>1 DEF RunsAreContinued, InsertionsAreAnchored, DeletionsAreAnchored,
              EmptyTextIsOldest
<1>11. DeletionsHaveNoGaps
  BY <1>1, <1>2 DEF DeletionsHaveNoGaps
<1>12. QED
  BY <1>5, <1>6, <1>7, <1>8, <1>9, <1>10, <1>11 DEF TextInvariant

LEMMA DocumentsInit == Init => DocumentsAreSentText
<1> SUFFICES ASSUME Init PROVE DocumentsAreSentText
  OBVIOUS
<1>1. /\ replicas \subseteq ReplicaIds
      /\ version_map = [r \in ReplicaIds |->
           [a \in ReplicaIds |-> IF a = Creator THEN InitialLen ELSE 0]]
      /\ run_tree = [r \in ReplicaIds |-> <<InitialRun>>]
      /\ insertions = {}
      /\ Creator \in ReplicaIds /\ InitialLen \in Nat
  BY InitialAssumption DEF Init
<1>2. /\ InitialRun \in RunType /\ InitialRun.id = Creator
      /\ InitialRun.start = 0 /\ InitialRun.end = InitialLen
      /\ InitialRun.ts = 0 /\ InitialRun.lam = 0
  BY <1>1 DEF InitialRun, EditRunRecord, RunType
<1> DEFINE runs == <<InitialRun>>
<1>3. /\ InitialRun \in Runs
  BY <1>1, <1>2 DEF Runs, IsInitialAndEmpty
<1>4. runs \in Seq(Runs) /\ runs # <<>> /\ DOMAIN runs = {1}
      /\ runs[1] = InitialRun
  BY <1>3
<1> HIDE DEF runs
<1>5. WellFormed(TypingOrder, runs)
  <2>1. Len(runs) = 1 /\ \A i \in DOMAIN runs : i = 1
    BY <1>4 DEF runs
  <2>2. OnlyLastIsEmpty(runs) /\ RunsAreOrdered(TypingOrder, runs)
    BY <2>1 DEF OnlyLastIsEmpty, RunsAreOrdered
  <2>3. QED
    BY <1>4, <2>2 DEF WellFormed
<1>6. DocumentMarks(runs) = RunMarks(InitialRun)
  BY <1>4 DEF DocumentMarks
<1>7. TextMarks(InitialText) = RunMarks(InitialRun)
  BY MarksOfText DEF InitialText, InitialRun
<1>8. SentMarks = RunMarks(InitialRun)
  <2>1. Texts = {InitialText}
    BY <1>1 DEF Texts
  <2>2. SentMarks = TextMarks(InitialText)
    BY <2>1 DEF SentMarks
  <2>3. QED
    BY <1>7, <2>2
<1>9. \A c \in RunMarks(InitialRun) : c.id = Creator /\ c.at < InitialLen
  BY <1>1, <1>2 DEF RunMarks
<1>10. \A r \in ReplicaIds : run_tree[r] = runs /\ version_map[r][Creator] = InitialLen
  BY <1>1 DEF runs
<1>11. run_tree \in [ReplicaIds -> Seq(Runs)]
  BY <1>1, <1>4 DEF runs
<1>12. ASSUME NEW r \in replicas
       PROVE  /\ WellFormed(TypingOrder, run_tree[r])
              /\ DocumentMarks(run_tree[r]) =
                   {c \in SentMarks : c.at < version_map[r][c.id]}
  <2>1. run_tree[r] = runs /\ version_map[r][Creator] = InitialLen
    BY <1>1, <1>10
  <2>2. {c \in SentMarks : c.at < version_map[r][c.id]} = SentMarks
    BY <1>8, <1>9, <2>1
  <2>3. QED
    BY <1>5, <1>6, <1>8, <2>1, <2>2
<1>13. QED
  BY <1>11, <1>12 DEF DocumentsAreSentText

(* What every step does to the texts and the documents.                    *)
LEMMA DocumentSteps ==
    ASSUME TypeOK, ClockInvariant, TextInvariant, TextsOK, DocumentsAreSentText,
           [Next]_vars
    PROVE  \/ \E r, new \in ReplicaIds : Fork(r, new)
           \/ \E r \in ReplicaIds : \E m :
                InsertsText(r, m) /\ AddsText(r, m) /\ IsPutAfterAnchor(r, m)
           \/ \E r \in ReplicaIds : \E d \in deletions' :
                Deletes(r, d) /\ AnchorsRange(r, d) /\ KeepsText(r)
           \/ \E r \in ReplicaIds : \E m \in insertions :
                MergesInsertion(r, m) /\ AddsText(r, m) /\ IsPutInPlace(r, m)
           \/ \E r \in ReplicaIds : \E d \in deletions :
                MergesDeletion(r, d) /\ KeepsText(r)
           \/ LeavesClocks /\ UNCHANGED run_tree
<1> DEFINE InsertionMerged(r) ==
             \/ \E m \in insertions :
                  MergesInsertion(r, m) /\ AddsText(r, m) /\ IsPutInPlace(r, m)
             \/ LeavesClocks /\ UNCHANGED run_tree
           DeletionMerged(r) ==
             \/ \E d \in deletions : MergesDeletion(r, d) /\ KeepsText(r)
             \/ LeavesClocks /\ UNCHANGED run_tree
<1>1. CASE UNCHANGED vars
  BY <1>1 DEF vars, tree_vars, clock_vars, sent_vars, LeavesClocks
<1>2. CASE Next
  <2>1. PICK r \in ReplicaIds :
          \/ \E new \in ReplicaIds : Fork(r, new)
          \/ InsertedAnywhere(r)
          \/ DeletedAnywhere(r)
          \/ \E m \in insertions : IntegrateInsertion(r, m)
          \/ \E d \in deletions : IntegrateDeletion(r, d)
          \/ BackloggedInsertions(r)
          \/ BackloggedDeletions(r)
          \/ NextBackloggedInsertion(r)
          \/ NextBackloggedDeletion(r)
          \/ NextQueue(r)
          \/ DropIterator(r)
    BY <1>2 DEF Next
  <2>2. CASE InsertedAnywhere(r)
    <3>1. PICK offset \in 0 .. DocumentLen(run_tree[r]), len \in InsertLens :
             Inserted(r, offset, len)
      BY <2>2 DEF InsertedAnywhere
    <3>2. offset \in Nat /\ offset <= DocumentLen(run_tree[r])
      OBVIOUS
    <3>3. QED
      BY <3>1, <3>2, InsertedAddsText
  <2>3. CASE DeletedAnywhere(r)
    <3>1. PICK from \in 0 .. DocumentLen(run_tree[r]),
               to \in 0 .. DocumentLen(run_tree[r]) :
             from < to /\ Deleted(r, from, to)
      BY <2>3 DEF DeletedAnywhere
    <3>2. QED
      BY <3>1, DeletedKeepsText
  <2>4. CASE \E m \in insertions : IntegrateInsertion(r, m)
    <3>1. PICK m \in insertions : IntegrateInsertion(r, m)
      BY <2>4
    <3>2. r \in replicas /\ UNCHANGED <<replicas, insertions, deletions>>
      BY <3>1 DEF IntegrateInsertion, Idle, Active, sent_vars
    <3>3. CASE CanMergeInsertion(r, m) /\ MergeUncheckedInsertion(r, m)
      BY <3>2, <3>3, MergedAddsText
    <3>4. CASE BacklogInsertion(r, m)
      BY <3>2, <3>4 DEF BacklogInsertion, LeavesClocks, tree_vars
    <3>5. QED
      BY <3>1, <3>3, <3>4 DEF IntegrateInsertion
  <2>5. CASE \E d \in deletions : IntegrateDeletion(r, d)
    <3>1. PICK d \in deletions : IntegrateDeletion(r, d)
      BY <2>5
    <3>2. r \in replicas /\ UNCHANGED <<replicas, insertions, deletions>>
      BY <3>1 DEF IntegrateDeletion, Idle, Active, sent_vars
    <3>3. CASE CanMergeDeletion(r, d) /\ MergeUncheckedDeletion(r, d)
      BY <3>2, <3>3, MergedKeepsText
    <3>4. CASE BacklogDeletion(r, d)
      BY <3>2, <3>4 DEF BacklogDeletion, LeavesClocks, tree_vars
    <3>5. QED
      BY <3>1, <3>3, <3>4 DEF IntegrateDeletion
  <2>6. CASE NextBackloggedInsertion(r)
    <3> DEFINE a == iterator[r].current
               queue == insertions_backlog[r][a]
    <3>1. /\ r \in replicas /\ iterator[r] # NoIterator
          /\ UNCHANGED <<replicas, insertions, deletions>>
          /\ queue # <<>> /\ CanMergeInsertion(r, Head(queue))
          /\ MergeUncheckedInsertion(r, Head(queue))
      BY <2>6 DEF NextBackloggedInsertion, Active, NoIterator, sent_vars,
                  CanMergeFirst
    <3>2. a \in ReplicaIds
      BY <3>1 DEF TypeOK, IteratorType
    <3>3. queue \in Seq(insertions)
      BY <3>2 DEF TypeOK
    <3>4. Head(queue) \in insertions
      BY <3>1, <3>3, HeadTailProperties
    <3> HIDE DEF queue
    <3>5. QED
      BY <3>1, <3>4, MergedAddsText
  <2>7. CASE NextBackloggedDeletion(r)
    <3> DEFINE a == iterator[r].current
               queue == deletions_backlog[r][a]
    <3>1. /\ r \in replicas /\ iterator[r] # NoIterator
          /\ iterator[r].kind = "deletions"
          /\ UNCHANGED <<replicas, insertions, deletions>>
      BY <2>7 DEF NextBackloggedDeletion, Active, NoIterator, sent_vars
    <3>2. /\ queue # <<>> /\ CanMergeDeletion(r, Head(queue))
          /\ MergeUncheckedDeletion(r, Head(queue))
      BY <2>7, <3>1 DEF NextBackloggedDeletion, CanMergeFirst
    <3>3. a \in ReplicaIds
      BY <3>1 DEF TypeOK, IteratorType
    <3>4. queue \in Seq(deletions)
      BY <3>3 DEF TypeOK
    <3>5. Head(queue) \in deletions
      BY <3>2, <3>4, HeadTailProperties
    <3> HIDE DEF queue
    <3>6. QED
      BY <3>1, <3>2, <3>5, MergedKeepsText
  <2>8. CASE \/ BackloggedInsertions(r) \/ BackloggedDeletions(r)
             \/ NextQueue(r) \/ DropIterator(r)
    BY <2>8 DEF BackloggedInsertions, BackloggedDeletions, StartIterator,
                NextQueue, DropIterator, sent_vars, tree_vars, LeavesClocks
  <2>9. QED
    BY <2>1, <2>2, <2>3, <2>4, <2>5, <2>6, <2>7, <2>8
<1>3. QED
  BY <1>1, <1>2

LEMMA DocumentNext ==
    DocumentInvariant /\ [Next]_vars => DocumentInvariant'
<1> SUFFICES ASSUME DocumentInvariant, [Next]_vars
             PROVE  DocumentInvariant'
  OBVIOUS
<1>1. TypeOK /\ ClockInvariant /\ TextInvariant /\ DocumentsAreSentText
  BY DEF DocumentInvariant
<1>2. TextsOK
  BY <1>1, TextsAreOK
<1>3. TypeOK' /\ ClockInvariant'
  BY <1>1, ClocksNext
<1>4. ClockTypes /\ ClockTypes'
  BY <1>1, <1>3, TypesOfClocks, PTL
<1>5. replicas \subseteq ReplicaIds
  BY <1>1 DEF TypeOK
<1>6. TextInvariant' /\ DocumentsAreSentText'
  <2>1. CASE \E r, new \in ReplicaIds : Fork(r, new)
    BY <1>1, <1>2, <1>4, <2>1, TextForked, DocumentsForked
  <2>2. CASE \E r \in ReplicaIds : \E m : InsertsText(r, m) /\ AddsText(r, m)
    BY <1>1, <1>2, <1>4, <2>2, TextInserted, DocumentsInserted
  <2>3. CASE \E r \in ReplicaIds : \E d \in deletions' :
               Deletes(r, d) /\ AnchorsRange(r, d) /\ KeepsText(r)
    <3>1. PICK r \in ReplicaIds, d \in deletions' :
            Deletes(r, d) /\ AnchorsRange(r, d) /\ KeepsText(r)
      BY <2>3
    <3>2. UNCHANGED <<replicas, version_map, insertions>>
      BY <3>1 DEF Deletes
    <3>3. QED
      BY <1>1, <1>2, <1>4, <1>5, <3>1, <3>2, TextDeleted, DocumentsKept
  <2>4. CASE \E r \in ReplicaIds : \E m \in insertions :
               MergesInsertion(r, m) /\ AddsText(r, m)
    BY <1>1, <1>2, <1>4, <2>4, TextMerged, DocumentsMerged
  <2>5. CASE \E r \in ReplicaIds : \E d \in deletions :
               MergesDeletion(r, d) /\ KeepsText(r)
    <3>1. PICK r \in ReplicaIds, d \in deletions :
            MergesDeletion(r, d) /\ KeepsText(r)
      BY <2>5
    <3>2. UNCHANGED <<replicas, version_map, insertions>>
      BY <3>1 DEF MergesDeletion
    <3>3. QED
      BY <1>1, <1>2, <1>4, <1>5, <3>1, <3>2, TextDeletionMerged, DocumentsKept
  <2>6. CASE LeavesClocks /\ UNCHANGED run_tree
    BY <1>1, <2>6, TextLeft, DocumentsLeft
  <2>7. QED
    BY <1>1, <1>2, <2>1, <2>2, <2>3, <2>4, <2>5, <2>6, DocumentSteps
<1>7. QED
  BY <1>3, <1>6 DEF DocumentInvariant

(* The documents hold the text their version maps count, in every state.   *)
THEOREM DocumentsAreCorrect == Spec => []DocumentInvariant
<1>1. Init => DocumentInvariant
  BY TypeInit, ClocksInit, TextInit, DocumentsInit DEF DocumentInvariant
<1>2. DocumentInvariant /\ [Next]_vars => DocumentInvariant'
  BY DocumentNext
<1>3. QED
  BY <1>1, <1>2, PTL DEF Spec

------------------------------------------------------------------------------
(* What documents hold.                                                    *)
LEMMA TextIsHeld ==
    ASSUME TextsOK, DocumentsAreSentText, NEW r \in replicas, NEW t \in Texts,
           NEW k \in Nat, t.start <= k, k < t.end, k < version_map[r][t.by]
    PROVE  [id |-> t.by, at |-> k, ts |-> t.ts, lam |-> t.lam]
             \in DocumentMarks(run_tree[r])
<1> DEFINE c == [id |-> t.by, at |-> k, ts |-> t.ts, lam |-> t.lam]
<1>1. t.start \in Nat /\ t.end \in Nat
  BY DEF TextsOK
<1>2. k \in t.start .. t.end - 1
  BY <1>1
<1>3. c \in TextMarks(t)
  BY <1>2 DEF TextMarks
<1>4. c \in SentMarks
  BY <1>3 DEF SentMarks
<1>5. c.at < version_map[r][c.id]
  OBVIOUS
<1> HIDE DEF c
<1>6. c \in DocumentMarks(run_tree[r])
  BY <1>4, <1>5 DEF DocumentsAreSentText
<1>7. QED
  BY <1>6 DEF c

(* The text of each mark of a document.                                    *)
LEMMA MarkIsOfText ==
    ASSUME TextsOK, DocumentsAreSentText, NEW r \in replicas,
           NEW c \in DocumentMarks(run_tree[r])
    PROVE  /\ c \in SentMarks /\ c.at < version_map[r][c.id]
           /\ \E t \in Texts : IsIn(c, t)
<1>1. c \in SentMarks /\ c.at < version_map[r][c.id]
  BY DEF DocumentsAreSentText
<1>2. QED
  BY <1>1, SentMark

LEMMA LeavesAreDisjoint ==
    ASSUME TextsOK, TextsAreDisjoint, DocumentsAreSentText, NEW r \in replicas,
           NEW i \in DOMAIN run_tree[r], NEW j \in DOMAIN run_tree[r], i < j
    PROVE  RunCharSet(run_tree[r][i]) \cap RunCharSet(run_tree[r][j]) = {}
<1> DEFINE runs == run_tree[r]
           x == runs[i]
           y == runs[j]
<1>1. SUFFICES ASSUME NEW k \in x.start .. x.end - 1,
                      k \in y.start .. y.end - 1, x.id = y.id
               PROVE  FALSE
  BY DEF RunCharSet
<1> DEFINE c == [id |-> x.id, at |-> k, ts |-> x.ts, lam |-> x.lam]
           e == [id |-> y.id, at |-> k, ts |-> y.ts, lam |-> y.lam]
<1>2. c \in RunMarks(x) /\ e \in RunMarks(y)
  BY <1>1 DEF RunMarks
<1>3. c \in DocumentMarks(runs) /\ e \in DocumentMarks(runs)
  BY <1>2 DEF DocumentMarks
<1>4. c.id = e.id /\ c.at = e.at /\ c.at = k
  BY <1>1
<1>5. MarksBefore(TypingOrder, RunMarks(x), RunMarks(y))
  BY DEF DocumentsAreSentText, WellFormed, RunsAreOrdered
<1>6. k \in Int
  BY <1>1
<1> HIDE DEF c, e, x, y
<1>7. c \in SentMarks /\ e \in SentMarks
  BY <1>3, MarkIsOfText
<1>8. c.ts = e.ts
  BY <1>4, <1>7, MarksAreUnique
<1>9. c.at < e.at
  BY <1>2, <1>4, <1>5, <1>8 DEF MarksBefore, TypingOrder
<1>10. QED
  BY <1>4, <1>6, <1>9

LEMMA CharsAreCounted ==
    ASSUME TypeOK, ClockInvariant, TextInvariant, TextsOK,
           DocumentsAreSentText, NEW r \in replicas
    PROVE  CharsAt(r) =
             UNION {{[id |-> a, at |-> k] : k \in 0 .. version_map[r][a] - 1} :
                        a \in ReplicaIds}
<1> DEFINE counted ==
             UNION {{[id |-> a, at |-> k] : k \in 0 .. version_map[r][a] - 1} :
                        a \in ReplicaIds}
           runs == run_tree[r]
<1>1. r \in ReplicaIds /\ \A a \in ReplicaIds : version_map[r][a] \in Nat
  BY DEF TypeOK
<1>2. ASSUME NEW x \in CharsAt(r) PROVE x \in counted
  <2>1. PICK i \in DOMAIN runs : x \in RunCharSet(runs[i])
    BY DEF CharsAt, CharSet
  <2> DEFINE run == runs[i]
  <2>2. PICK k \in run.start .. run.end - 1 : x = [id |-> run.id, at |-> k]
    BY <2>1 DEF RunCharSet
  <2> DEFINE c == [id |-> run.id, at |-> k, ts |-> run.ts, lam |-> run.lam]
  <2>3. c \in RunMarks(run)
    BY <2>2 DEF RunMarks
  <2>4. c \in DocumentMarks(runs)
    BY <2>3 DEF DocumentMarks
  <2>5. c.id = run.id /\ c.at = k
    OBVIOUS
  <2> HIDE DEF c, run
  <2>6. /\ c.at < version_map[r][c.id]
        /\ \E t \in Texts : IsIn(c, t)
    BY <2>4, MarkIsOfText
  <2>7. c.id \in ReplicaIds /\ c.at \in Nat
    BY <2>6 DEF TextsOK, IsIn
  <2>8. version_map[r][c.id] \in Nat
    BY <1>1, <2>7
  <2>9. c.at \in 0 .. version_map[r][c.id] - 1
    BY <2>6, <2>7, <2>8
  <2>10. QED
    BY <2>2, <2>5, <2>7, <2>9
<1>3. ASSUME NEW x \in counted PROVE x \in CharsAt(r)
  <2>1. PICK a \in ReplicaIds :
          \E k \in 0 .. version_map[r][a] - 1 : x = [id |-> a, at |-> k]
    OBVIOUS
  <2> PICK k \in 0 .. version_map[r][a] - 1 : x = [id |-> a, at |-> k]
    BY <2>1
  <2>2. version_map[r][a] \in Nat /\ k \in Nat /\ k < version_map[r][a]
    BY <1>1, <2>1
  <2>3. a \in replicas
    BY <2>1, <2>2 DEF ClockInvariant, NothingOfTheUnborn
  <2>4. version_map[a][a] \in Nat /\ version_map[r][a] <= version_map[a][a]
    BY <2>1, <2>3 DEF TypeOK, ClockInvariant, NobodyKnowsMore
  <2>5. k \in 0 .. version_map[a][a] - 1
    BY <2>2, <2>4
  <2>6. PICK t \in Texts : t.by = a /\ t.start <= k /\ k < t.end
    BY <2>3, <2>5 DEF TextInvariant, TextsHaveNoGaps
  <2> DEFINE c == [id |-> t.by, at |-> k, ts |-> t.ts, lam |-> t.lam]
  <2>7. c \in DocumentMarks(runs)
    BY <2>2, <2>6, TextIsHeld
  <2>8. c.id = a /\ c.at = k
    BY <2>6
  <2> HIDE DEF c
  <2>9. PICK i \in DOMAIN runs : c \in RunMarks(runs[i])
    BY <2>7 DEF DocumentMarks
  <2>10. /\ c.id = runs[i].id /\ c.at \in runs[i].start .. runs[i].end - 1
    BY <2>9 DEF RunMarks
  <2>11. x \in RunCharSet(runs[i])
    BY <2>1, <2>8, <2>10 DEF RunCharSet
  <2>12. QED
    BY <2>11 DEF CharsAt, CharSet
<1>4. QED
  BY <1>2, <1>3

LEMMA LeavesAreInOrder ==
    ASSUME TypeOK, TextInvariant, TextsOK, DocumentsAreSentText,
           NEW r \in replicas, NEW i \in DOMAIN run_tree[r],
           NEW j \in DOMAIN run_tree[r], NEW x, NEW y,
           x = run_tree[r][i], y = run_tree[r][j],
           x.id = y.id, x.start < y.start
    PROVE  /\ x.ts <= y.ts
           /\ x.lam <= y.lam
           /\ x.ts = y.ts <=> x.lam = y.lam
<1> DEFINE runs == run_tree[r]
<1>1. runs \in Seq(Runs)
  BY DEF DocumentsAreSentText, WellFormed
<1>2. /\ x \in Runs /\ y \in Runs
  <2>1. DOMAIN runs = 1 .. Len(runs)
    BY <1>1, LenProperties
  <2>2. QED
    BY <1>1, <2>1, ElementOfSeq
<1>3. /\ x.start \in Nat /\ x.end \in Nat /\ y.start \in Nat /\ y.end \in Nat
      /\ x.start < x.end \/ IsInitialAndEmpty(x)
      /\ y.start < y.end \/ IsInitialAndEmpty(y)
  BY <1>2 DEF Runs, RunType
<1>4. y.start < y.end
  BY <1>3 DEF IsInitialAndEmpty
<1> DEFINE e == [id |-> y.id, at |-> y.start, ts |-> y.ts, lam |-> y.lam]
           c == [id |-> x.id, at |-> x.start, ts |-> x.ts, lam |-> x.lam]
<1>5. e \in DocumentMarks(runs)
  <2>1. y.start \in y.start .. y.end - 1
    BY <1>3, <1>4
  <2>2. e \in RunMarks(y)
    BY <2>1 DEF RunMarks
  <2>3. QED
    BY <2>2 DEF DocumentMarks
<1>6. e.id = y.id /\ e.at = y.start /\ e.ts = y.ts /\ e.lam = y.lam
  OBVIOUS
<1>7. c.id = x.id /\ c.at = x.start /\ c.ts = x.ts /\ c.lam = x.lam
  OBVIOUS
<1>8. x.start < x.end => c \in DocumentMarks(runs)
  <2>1. SUFFICES ASSUME x.start < x.end PROVE c \in DocumentMarks(runs)
    OBVIOUS
  <2>2. x.start \in x.start .. x.end - 1
    BY <1>3, <2>1
  <2>3. c \in RunMarks(x)
    BY <2>2 DEF RunMarks
  <2>4. QED
    BY <2>3 DEF DocumentMarks
<1> HIDE DEF c, e
<1>9. PICK u \in Texts : IsIn(e, u)
  BY <1>5, MarkIsOfText
<1>10. /\ u.by = y.id /\ u.ts = y.ts /\ u.lam = y.lam
       /\ u.start <= y.start /\ y.start < u.end
       /\ u.start \in Nat /\ u.end \in Nat /\ u.ts \in Nat /\ u.lam \in Nat
  BY <1>6, <1>9 DEF IsIn, TextsOK
<1>11. CASE x.start < x.end
  <2>1. PICK t \in Texts : IsIn(c, t)
    BY <1>8, <1>11, MarkIsOfText
  <2>2. /\ t.by = x.id /\ t.ts = x.ts /\ t.lam = x.lam
        /\ t.start <= x.start /\ x.start < t.end
        /\ t.start \in Nat /\ t.end \in Nat /\ t.ts \in Nat /\ t.lam \in Nat
    BY <1>7, <2>1 DEF IsIn, TextsOK
  <2>3. t = u \/ t.end <= u.start \/ u.end <= t.start
    BY <1>10, <2>2 DEF TextInvariant, TextsAreDisjoint
  <2>4. t = u \/ t.start < u.start
    BY <1>3, <1>10, <2>2, <2>3
  <2>5. CASE t = u
    BY <1>10, <2>2, <2>5
  <2>6. CASE t.start < u.start
    BY <1>10, <2>2, <2>6 DEF TextInvariant, TextsAreInOrder
  <2>7. QED
    BY <2>4, <2>5, <2>6
<1>12. CASE IsInitialAndEmpty(x)
  <2>1. x.id = Creator /\ x.ts = 0 /\ x.lam = 0
    BY <1>12 DEF IsInitialAndEmpty
  <2>2. u.ts = 0 <=> u.lam = 0
    BY <1>10, <2>1 DEF TextInvariant, InitialTextIsFirst
  <2>3. QED
    BY <1>10, <2>1, <2>2
<1>13. QED
  BY <1>3, <1>11, <1>12

LEMMA VersionMapsCountDocuments ==
    DocumentInvariant => DocumentMatchesVersionMap
<1>1. SUFFICES ASSUME DocumentInvariant, NEW r \in Live
               PROVE  /\ \A i, j \in DOMAIN run_tree[r] :
                           i # j => RunCharSet(run_tree[r][i])
                                      \cap RunCharSet(run_tree[r][j]) = {}
                      /\ CharsAt(r) =
                           UNION {{[id |-> a, at |-> k] :
                                      k \in 0 .. version_map[r][a] - 1} :
                                      a \in ReplicaIds}
                      /\ \A i, j \in DOMAIN run_tree[r] :
                           LET x == run_tree[r][i]
                               y == run_tree[r][j]
                           IN  x.id = y.id /\ x.start < y.start
                                 => /\ x.ts <= y.ts
                                    /\ x.lam <= y.lam
                                    /\ x.ts = y.ts <=> x.lam = y.lam
  BY DEF DocumentMatchesVersionMap
<1>2. TypeOK /\ ClockInvariant /\ TextInvariant /\ DocumentsAreSentText
  BY <1>1 DEF DocumentInvariant
<1>3. TextsOK /\ TextsAreDisjoint
  BY <1>2, TextsAreOK DEF TextInvariant
<1>4. r \in replicas
  BY DEF Live
<1>5. run_tree[r] \in Seq(Runs) /\ DOMAIN run_tree[r] = 1 .. Len(run_tree[r])
  BY <1>2, <1>4, LenProperties DEF DocumentsAreSentText, WellFormed
<1>6. ASSUME NEW i \in DOMAIN run_tree[r], NEW j \in DOMAIN run_tree[r],
             i # j
      PROVE  RunCharSet(run_tree[r][i]) \cap RunCharSet(run_tree[r][j]) = {}
  <2>1. CASE i < j
    BY <1>2, <1>3, <1>4, <2>1, LeavesAreDisjoint
  <2>2. CASE j < i
    BY <1>2, <1>3, <1>4, <2>2, LeavesAreDisjoint
  <2>3. i < j \/ j < i
    BY <1>5, <1>6
  <2>4. QED
    BY <2>1, <2>2, <2>3
<1>7. CharsAt(r) =
        UNION {{[id |-> a, at |-> k] : k \in 0 .. version_map[r][a] - 1} :
                   a \in ReplicaIds}
  BY <1>2, <1>3, <1>4, CharsAreCounted
<1>8. ASSUME NEW i \in DOMAIN run_tree[r], NEW j \in DOMAIN run_tree[r]
      PROVE  LET x == run_tree[r][i]
                 y == run_tree[r][j]
             IN  x.id = y.id /\ x.start < y.start
                   => /\ x.ts <= y.ts
                      /\ x.lam <= y.lam
                      /\ x.ts = y.ts <=> x.lam = y.lam
  BY <1>2, <1>3, <1>4, LeavesAreInOrder
<1>9. QED
  BY <1>6, <1>7, <1>8

(* A document holds exactly the characters its version map counts, each in *)
(* one leaf, and the leaves of one inserter are in the order of its runs.  *)
THEOREM DocumentsMatchVersionMaps == Spec => []DocumentMatchesVersionMap
<1>1. DocumentInvariant => DocumentMatchesVersionMap
  BY VersionMapsCountDocuments
<1>2. QED
  BY <1>1, DocumentsAreCorrect, PTL

------------------------------------------------------------------------------
(* Anchors.                                                                *)
LEMMA AnchoredTextIsHeld ==
    ASSUME TextsOK, DocumentsAreSentText, NEW r \in replicas,
           NEW t \in Texts, NEW anchor \in AnchorType,
           NEW bias \in {"left", "right"}, IsAnchoredIn(anchor, bias, t),
           IF bias = "left" THEN anchor.offset <= version_map[r][anchor.id]
           ELSE anchor.offset < version_map[r][anchor.id],
           version_map[r][anchor.id] \in Nat
    PROVE  HasLeafAt(run_tree[r], anchor, bias)
<1> DEFINE k == IF bias = "left" THEN anchor.offset - 1 ELSE anchor.offset
           c == [id |-> t.by, at |-> k, ts |-> t.ts, lam |-> t.lam]
<1>1. /\ anchor.offset \in Nat /\ t.start \in Nat /\ t.end \in Nat
      /\ t.by = anchor.id /\ t.ts = anchor.ts
  BY DEF AnchorType, TextsOK, IsAnchoredIn
<1>2. k \in Nat /\ t.start <= k /\ k < t.end /\ k < version_map[r][t.by]
  BY <1>1 DEF IsAnchoredIn
<1>3. IF bias = "left" THEN k + 1 = anchor.offset ELSE k = anchor.offset
  BY <1>1
<1>4. c.id = anchor.id /\ c.ts = anchor.ts /\ c.at = k
  BY <1>1
<1> HIDE DEF k
<1>5. c \in DocumentMarks(run_tree[r])
  BY <1>2, TextIsHeld
<1> HIDE DEF c
<1>6. AnchoredAt(anchor, bias, c)
  BY <1>3, <1>4 DEF AnchoredAt
<1>7. run_tree[r] \in Seq(Runs)
  BY DEF DocumentsAreSentText, WellFormed
<1>8. QED
  BY <1>1, <1>5, <1>6, <1>7, HasLeafIffMark

LEMMA AcceptedAnchorsAreHeld == DocumentInvariant => AcceptedAnchorsAreFound
<1>1. SUFFICES ASSUME DocumentInvariant, NEW r \in Live
               PROVE  /\ \A m \in insertions :
                           CanMergeInsertion(r, m) /\ m.anchor # ZeroAnchor
                               => HasLeafAt(run_tree[r], m.anchor, "left")
                      /\ \A d \in deletions :
                           CanMergeDeletion(r, d)
                               => /\ HasLeafAt(run_tree[r], d.start, "right")
                                  /\ HasLeafAt(run_tree[r], d.end, "left")
  BY DEF AcceptedAnchorsAreFound
<1>2. TypeOK /\ ClockInvariant /\ TextInvariant /\ DocumentsAreSentText
  BY <1>1 DEF DocumentInvariant
<1>3. TextsOK
  BY <1>2, TextsAreOK
<1>4. /\ r \in replicas
      /\ \A a \in ReplicaIds : version_map[r][a] \in Nat
  BY <1>2 DEF Live, TypeOK
<1>5. ASSUME NEW m \in insertions, CanMergeInsertion(r, m),
             m.anchor # ZeroAnchor
      PROVE  HasLeafAt(run_tree[r], m.anchor, "left")
  <2>1. /\ m.anchor \in AnchorType
        /\ \E t \in Texts : IsAnchoredIn(m.anchor, "left", t)
    BY <1>2, <1>5 DEF TextInvariant, InsertionsAreAnchored
  <2>2. PICK t \in Texts : IsAnchoredIn(m.anchor, "left", t)
    BY <2>1
  <2>3. m.anchor.id \in ReplicaIds
    BY <2>1 DEF AnchorType
  <2>4. m.anchor.offset <= version_map[r][m.anchor.id]
    BY <1>4, <1>5, <2>1, <2>3
       DEF CanMergeInsertion, HasAnchor, VersionOf, AnchorType
  <2>5. QED
    BY <1>2, <1>3, <1>4, <2>1, <2>2, <2>3, <2>4, AnchoredTextIsHeld
<1>6. ASSUME NEW d \in deletions, CanMergeDeletion(r, d)
      PROVE  /\ HasLeafAt(run_tree[r], d.start, "right")
             /\ HasLeafAt(run_tree[r], d.end, "left")
  <2>1. /\ d.start \in AnchorType /\ d.end \in AnchorType
        /\ \E t \in Texts : IsAnchoredIn(d.start, "right", t)
        /\ \E t \in Texts : IsAnchoredIn(d.end, "left", t)
        /\ d.start.offset < d.version_map[d.start.id]
        /\ d.end.offset <= d.version_map[d.end.id]
    BY <1>2 DEF TextInvariant, DeletionsAreAnchored
  <2>2. /\ d.start.id \in ReplicaIds /\ d.start.offset \in Nat
        /\ d.end.id \in ReplicaIds /\ d.end.offset \in Nat
    BY <2>1 DEF AnchorType
  <2>3. \A a \in ReplicaIds : /\ d.version_map[a] <= version_map[r][a]
                              /\ d.version_map[a] \in Nat
    BY <1>2, <1>4, <1>6 DEF CanMergeDeletion, TypeOK, DeletionTypeOK
  <2>4. /\ d.start.offset < version_map[r][d.start.id]
        /\ d.end.offset <= version_map[r][d.end.id]
    BY <1>4, <2>1, <2>2, <2>3
  <2>5. HasLeafAt(run_tree[r], d.start, "right")
    <3>1. PICK t \in Texts : IsAnchoredIn(d.start, "right", t)
      BY <2>1
    <3>2. QED
      BY <1>2, <1>3, <1>4, <2>1, <2>2, <2>4, <3>1, AnchoredTextIsHeld
  <2>6. HasLeafAt(run_tree[r], d.end, "left")
    <3>1. PICK t \in Texts : IsAnchoredIn(d.end, "left", t)
      BY <2>1
    <3>2. QED
      BY <1>2, <1>3, <1>4, <2>1, <2>2, <2>4, <3>1, AnchoredTextIsHeld
  <2>7. QED
    BY <2>5, <2>6
<1>7. QED
  BY <1>5, <1>6

(* The lookups of the anchors of an edit that can be merged succeed.       *)
THEOREM AnchorsOfAcceptedEditsAreFound == Spec => []AcceptedAnchorsAreFound
<1>1. DocumentInvariant => AcceptedAnchorsAreFound
  BY AcceptedAnchorsAreHeld
<1>2. QED
  BY <1>1, DocumentsAreCorrect, PTL

------------------------------------------------------------------------------
(* The backlog.  Of the insertions a replica lacks, the one with the least *)
(* Lamport timestamp, and of those the one that starts first, can always   *)
(* be merged: what it is anchored to is older, or its inserter's own text. *)
Lacks(r) == {m \in insertions : ~HasMergedInsertion(r, m)}

IsOldest(r, m) ==
    \A n \in Lacks(r) :
        m.lam < n.lam \/ (m.lam = n.lam /\ m.start <= n.start)

LEMMA OldestExists ==
    ASSUME TypeOK, NEW r, Lacks(r) # {}
    PROVE  \E m \in Lacks(r) : IsOldest(r, m)
<1> DEFINE W == Lacks(r)
<1>1. \A m \in W : m.lam \in Nat /\ m.start \in Nat
  BY DEF TypeOK, InsertionTypeOK, Lacks
<1> HIDE DEF W
<1> DEFINE L == {m.lam : m \in W}
<1>2. L \subseteq Nat /\ L # {}
  BY <1>1 DEF W
<1>3. PICK l \in L : \A k \in L : l <= k
  BY <1>2, LeastNumber
<1> DEFINE S == {m.start : m \in {n \in W : n.lam = l}}
<1>4. S \subseteq Nat /\ S # {}
  BY <1>1, <1>3
<1>5. PICK s \in S : \A k \in S : s <= k
  BY <1>4, LeastNumber
<1>6. PICK m \in W : m.lam = l /\ m.start = s
  BY <1>5
<1>7. ASSUME NEW n \in W
      PROVE  m.lam < n.lam \/ (m.lam = n.lam /\ m.start <= n.start)
  <2>1. n.lam \in L /\ l <= n.lam /\ l \in Nat /\ n.lam \in Nat
    BY <1>1, <1>2, <1>3
  <2>2. CASE n.lam = l
    <3>1. n.start \in S
      BY <2>2
    <3>2. QED
      BY <1>5, <1>6, <2>2, <3>1
  <2>3. CASE n.lam # l
    BY <1>6, <2>1, <2>3
  <2>4. QED
    BY <2>2, <2>3
<1>8. QED
  BY <1>6, <1>7 DEF IsOldest, W

(* The text with the first character a replica lacks of an inserter.       *)
LEMMA FirstLacked ==
    ASSUME TypeOK, TextInvariant, TextsOK, NEW r \in replicas,
           NEW a \in replicas, version_map[r][a] < version_map[a][a]
    PROVE  \E t \in Lacks(r) : t.by = a /\ t.start = version_map[r][a]
<1> DEFINE k == version_map[r][a]
<1>1. k \in Nat /\ version_map[a][a] \in Nat
  BY DEF TypeOK
<1>2. k \in 0 .. version_map[a][a] - 1
  BY <1>1
<1>3. PICK t \in Texts : t.by = a /\ t.start <= k /\ k < t.end
  BY <1>2 DEF TextInvariant, TextsHaveNoGaps
<1>4. t.start \in Nat /\ t.end \in Nat
  BY DEF TextsOK
<1>5. k <= t.start \/ t.end <= k
  BY <1>3 DEF TextInvariant, TextsAreCountedWhole
<1>6. t.start = k
  BY <1>1, <1>3, <1>4, <1>5
<1>7. t # InitialText
  <2>1. InitialText.end = InitialLen /\ InitialText.by = Creator
    BY DEF InitialText
  <2>2. InitialLen <= version_map[r][Creator] /\ InitialLen \in Nat
    BY InitialAssumption DEF TextInvariant, InitialTextIsCounted
  <2>3. QED
    BY <1>1, <1>3, <2>1, <2>2
<1>8. t \in insertions
  BY <1>7 DEF Texts
<1>9. ~HasMergedInsertion(r, t)
  BY <1>1, <1>3, <1>6 DEF HasMergedInsertion
<1>10. QED
  BY <1>3, <1>6, <1>8, <1>9 DEF Lacks

LEMMA OldestCanBeMerged ==
    ASSUME TypeOK, ClockInvariant, TextInvariant, TextsOK, NEW r \in replicas,
           NEW m \in Lacks(r), IsOldest(r, m)
    PROVE  CanMergeInsertion(r, m)
<1>1. /\ m \in insertions /\ version_map[r][m.by] <= m.start
      /\ m.by \in replicas /\ m.by \in ReplicaIds
      /\ m.start \in Nat /\ m.end \in Nat /\ m.lam \in Nat
      /\ m.start < m.end /\ m.end <= version_map[m.by][m.by]
      /\ \A a \in ReplicaIds : version_map[r][a] \in Nat
      /\ version_map[m.by][m.by] \in Nat
      /\ m \in Texts
  <2>1. m \in insertions /\ ~(version_map[r][m.by] > m.start) /\ m \in Texts
    BY DEF Lacks, HasMergedInsertion, Texts
  <2>2. /\ m.by \in ReplicaIds /\ m.start \in Nat /\ m.end \in Nat
        /\ m.lam \in Nat
        /\ \A s, a \in ReplicaIds : version_map[s][a] \in Nat
        /\ r \in ReplicaIds
    BY <2>1 DEF TypeOK, InsertionTypeOK
  <2>3. /\ m.by \in replicas /\ m.start < m.end
        /\ m.end <= version_map[m.by][m.by]
    BY <2>1 DEF ClockInvariant, InsertionsAreCounted
  <2>4. QED
    BY <2>1, <2>2, <2>3
<1>2. version_map[r][m.by] = m.start
  <2>1. SUFFICES ASSUME version_map[r][m.by] < m.start PROVE FALSE
    BY <1>1
  <2>2. version_map[r][m.by] < version_map[m.by][m.by]
    BY <1>1, <2>1
  <2>3. PICK t \in Lacks(r) : t.by = m.by /\ t.start = version_map[r][m.by]
    BY <1>1, <2>2, FirstLacked
  <2>4. t \in Texts /\ t.lam \in Nat /\ t.start \in Nat
    BY DEF Lacks, Texts, TypeOK, InsertionTypeOK
  <2>5. t.start < m.start
    BY <2>1, <2>3
  <2>6. t.lam <= m.lam
    BY <1>1, <2>3, <2>4, <2>5 DEF TextInvariant, TextsAreInOrder
  <2>7. m.lam < t.lam \/ (m.lam = t.lam /\ m.start <= t.start)
    BY DEF IsOldest
  <2>8. QED
    BY <1>1, <2>4, <2>5, <2>6, <2>7
<1>3. HasAnchor(r, m.anchor)
  <2>1. CASE m.anchor = ZeroAnchor
    BY <2>1, ReplicaIdsAssumption DEF HasAnchor, VersionOf, ZeroAnchor
  <2>2. CASE m.anchor # ZeroAnchor
    <3>1. /\ m.anchor \in AnchorType
          /\ \E t \in Texts :
               /\ IsAnchoredIn(m.anchor, "left", t)
               /\ \/ t.lam < m.lam
                  \/ t.by = m.by /\ m.anchor.offset <= m.start
      BY <1>1, <2>2 DEF TextInvariant, InsertionsAreAnchored
    <3>2. PICK t \in Texts :
               /\ IsAnchoredIn(m.anchor, "left", t)
               /\ \/ t.lam < m.lam
                  \/ t.by = m.by /\ m.anchor.offset <= m.start
      BY <3>1
    <3>3. /\ t.by = m.anchor.id /\ t.start < m.anchor.offset
          /\ m.anchor.offset <= t.end
      BY <3>2 DEF IsAnchoredIn
    <3>4. /\ t.by \in ReplicaIds /\ t.start \in Nat /\ t.end \in Nat
          /\ t.lam \in Nat /\ m.anchor.offset \in Nat
          /\ version_map[r][t.by] \in Nat
      BY <1>1, <3>1 DEF TextsOK, AnchorType
    <3>5. m.anchor.offset <= version_map[r][t.by]
      <4>1. CASE t.by = m.by /\ m.anchor.offset <= m.start
        BY <1>2, <4>1
      <4>2. CASE t.lam < m.lam
        <5>1. t \notin Lacks(r)
          BY <1>1, <3>4, <4>2 DEF IsOldest
        <5>2. CASE t \in insertions
          <6>1. version_map[r][t.by] > t.start
            BY <5>1, <5>2 DEF Lacks, HasMergedInsertion
          <6>2. version_map[r][t.by] <= t.start \/ t.end <= version_map[r][t.by]
            BY DEF TextInvariant, TextsAreCountedWhole
          <6>3. QED
            BY <3>3, <3>4, <6>1, <6>2
        <5>3. CASE t = InitialText
          <6>1. t.by = Creator /\ t.end = InitialLen
            BY <5>3 DEF InitialText
          <6>2. InitialLen <= version_map[r][Creator] /\ InitialLen \in Nat
            BY InitialAssumption DEF TextInvariant, InitialTextIsCounted
          <6>3. QED
            BY <3>3, <3>4, <6>1, <6>2
        <5>4. QED
          BY <5>2, <5>3 DEF Texts
      <4>3. QED
        BY <3>2, <4>1, <4>2
    <3>6. QED
      BY <3>3, <3>4, <3>5 DEF HasAnchor, VersionOf
  <2>3. QED
    BY <2>1, <2>2
<1>4. QED
  BY <1>2, <1>3 DEF CanMergeInsertion

LEMMA QueueStarts ==
    ASSUME NEW S, NEW queue \in Seq(S), queue # <<>>
    PROVE  /\ Head(queue) = queue[1] /\ queue[1] \in S
           /\ 1 \in DOMAIN queue /\ DOMAIN queue = 1 .. Len(queue)
           /\ Len(queue) \in Nat
<1>1. Len(queue) \in Nat /\ DOMAIN queue = 1 .. Len(queue) /\ Len(queue) # 0
  BY LenProperties, EmptySeq
<1>2. 1 \in 1 .. Len(queue)
  BY <1>1
<1>3. QED
  BY <1>1, <1>2, ElementOfSeq

(* Once everything has been received and nothing is ready, nothing that    *)
(* was inserted is lacking.                                                *)
LEMMA NothingLacked ==
    ASSUME TypeOK, ClockInvariant, TextInvariant, TextsOK, BacklogInvariants,
           NEW r \in replicas, HasReceivedAll(r), NothingReady(r)
    PROVE  Lacks(r) = {}
<1>1. SUFFICES ASSUME Lacks(r) # {} PROVE FALSE
  OBVIOUS
<1>2. PICK m \in Lacks(r) : IsOldest(r, m)
  BY <1>1, OldestExists
<1>3. CanMergeInsertion(r, m)
  BY <1>2, OldestCanBeMerged
<1>4. /\ m \in insertions /\ ~HasMergedInsertion(r, m)
      /\ m.by \in ReplicaIds /\ m.start \in Nat /\ m.end \in Nat
      /\ m.start < m.end /\ version_map[r][m.by] = m.start
      /\ r \in ReplicaIds
  BY <1>3 DEF Lacks, TypeOK, InsertionTypeOK, ClockInvariant,
              InsertionsAreCounted, CanMergeInsertion
<1> DEFINE queue == insertions_backlog[r][m.by]
<1>5. PICK k \in DOMAIN queue : queue[k].start = m.start
  BY <1>4 DEF HasReceivedAll, IsBackloggedInsertion
<1>6. queue \in Seq(insertions) /\ queue # <<>>
  <2>1. queue \in Seq(insertions)
    BY <1>4 DEF TypeOK
  <2>2. queue # <<>>
    BY <1>5
  <2>3. QED
    BY <2>1, <2>2
<1>7. InsertionsQueueOK(queue, m.by, version_map[r][m.by])
  BY <1>4 DEF BacklogInvariants
<1>8. ~CanMergeInsertion(r, Head(queue))
  BY <1>4, <1>6 DEF NothingReady
<1> HIDE DEF queue
<1>9. /\ Head(queue) = queue[1] /\ queue[1] \in insertions
      /\ 1 \in DOMAIN queue /\ DOMAIN queue = 1 .. Len(queue)
      /\ Len(queue) \in Nat
  BY <1>6, QueueStarts
<1>10. /\ queue[1].by = m.by /\ m.start <= queue[1].start
       /\ 1 < k => queue[1].end <= queue[k].start
  BY <1>4, <1>5, <1>7, <1>9 DEF InsertionsQueueOK
<1>11. /\ queue[1].start \in Nat /\ queue[1].end \in Nat
       /\ queue[1].start < queue[1].end
  BY <1>9 DEF TypeOK, InsertionTypeOK, ClockInvariant, InsertionsAreCounted
<1>12. k = 1
  BY <1>4, <1>5, <1>9, <1>10, <1>11
<1>13. queue[1] = m
  <2>1. \/ queue[1] = m
        \/ queue[1].end <= m.start \/ m.end <= queue[1].start
    BY <1>4, <1>9, <1>10 DEF ClockInvariant, InsertionsAreDisjoint
  <2>2. QED
    BY <1>4, <1>5, <1>11, <1>12, <2>1
<1>14. QED
  BY <1>3, <1>8, <1>9, <1>13

(* Nor is a deletion.                                                      *)
LEMMA NoDeletionLacked ==
    ASSUME TypeOK, ClockInvariant, TextInvariant, TextsOK, BacklogInvariants,
           NEW r \in replicas, HasReceivedAll(r), NothingReady(r),
           Lacks(r) = {}, NEW d \in deletions
    PROVE  HasMergedDeletion(r, d)
<1>1. SUFFICES ASSUME ~HasMergedDeletion(r, d) PROVE FALSE
  OBVIOUS
<1> DEFINE a == d.by
           n == deletion_map[r][a] + 1
           queue == deletions_backlog[r][a]
<1>2. /\ a \in replicas /\ a \in ReplicaIds /\ r \in ReplicaIds
      /\ deletion_map[r][a] \in Nat /\ deletion_map[a][a] \in Nat
      /\ d.ts \in Nat /\ d.ts <= deletion_map[a][a]
  BY DEF ClockInvariant, DeletionsAreCounted, TypeOK, DeletionTypeOK
<1>3. deletion_map[r][a] < d.ts
  BY <1>1, <1>2 DEF HasMergedDeletion
<1>4. n \in 1 .. deletion_map[a][a]
  BY <1>2, <1>3
<1>5. PICK e \in deletions : e.by = a /\ e.ts = n
  BY <1>2, <1>4 DEF TextInvariant, DeletionsHaveNoGaps
<1>6. IsBackloggedDeletion(r, e)
  BY <1>2, <1>5 DEF HasReceivedAll, HasMergedDeletion
<1>7. PICK k \in DOMAIN queue : queue[k].ts = n
  BY <1>5, <1>6 DEF IsBackloggedDeletion
<1>8. queue \in Seq(deletions) /\ queue # <<>>
  <2>1. queue \in Seq(deletions)
    BY <1>2 DEF TypeOK
  <2>2. queue # <<>>
    BY <1>7
  <2>3. QED
    BY <2>1, <2>2
<1>9. DeletionsQueueOK(queue, a, deletion_map[r][a])
  BY <1>2 DEF BacklogInvariants
<1>10. ~CanMergeDeletion(r, Head(queue))
  BY <1>2, <1>8 DEF NothingReady
<1>11. n \in Nat /\ n = deletion_map[r][a] + 1
  BY <1>2
<1> HIDE DEF queue, a, n
<1>12. /\ Head(queue) = queue[1] /\ queue[1] \in deletions
       /\ 1 \in DOMAIN queue /\ DOMAIN queue = 1 .. Len(queue)
       /\ Len(queue) \in Nat
  BY <1>8, QueueStarts
<1>13. /\ queue[1].by = a /\ deletion_map[r][a] < queue[1].ts
       /\ 1 < k => queue[1].ts < queue[k].ts
       /\ queue[1].ts \in Nat
  BY <1>7, <1>9, <1>12 DEF DeletionsQueueOK, TypeOK, DeletionTypeOK
<1>14. queue[1].ts = deletion_map[r][a] + 1
  <2>1. k = 1 \/ 1 < k
    BY <1>7, <1>12
  <2>2. QED
    BY <1>2, <1>7, <1>11, <1>13, <2>1
<1>15. ASSUME NEW b \in ReplicaIds
       PROVE  version_map[r][b] >= queue[1].version_map[b]
  <2>1. /\ queue[1].version_map[b] <= version_map[a][b]
        /\ queue[1].version_map[b] \in Nat /\ version_map[a][b] \in Nat
        /\ version_map[r][b] \in Nat
    <3>1. queue[1].version_map[b] <= version_map[a][b]
      BY <1>12, <1>13 DEF ClockInvariant, DeletionsAreCounted
    <3>2. queue[1].version_map \in [ReplicaIds -> Nat]
      BY <1>12 DEF TypeOK, DeletionTypeOK
    <3>3. version_map[a][b] \in Nat /\ version_map[r][b] \in Nat
      BY <1>2 DEF TypeOK
    <3>4. QED
      BY <3>1, <3>2, <3>3
  <2>2. CASE b \in replicas
    <3>1. version_map[a][b] <= version_map[b][b] /\ version_map[b][b] \in Nat
      BY <1>2, <2>2 DEF ClockInvariant, NobodyKnowsMore, TypeOK
    <3>2. ~ (version_map[r][b] < version_map[b][b])
      BY <2>2, FirstLacked
    <3>3. QED
      BY <2>1, <3>1, <3>2
  <2>3. CASE b \notin replicas
    <3>1. version_map[a][b] = 0
      BY <1>2, <2>3 DEF ClockInvariant, NothingOfTheUnborn
    <3>2. QED
      BY <2>1, <3>1
  <2>4. QED
    BY <2>2, <2>3
<1>16. CanMergeDeletion(r, queue[1])
  BY <1>13, <1>14, <1>15 DEF CanMergeDeletion
<1>17. QED
  BY <1>10, <1>12, <1>16

LEMMA NothingWaitsForEver ==
    DocumentInvariant /\ BacklogInvariants => BacklogNeverStuck
<1>1. SUFFICES ASSUME DocumentInvariant, BacklogInvariants, NEW r \in Live,
                      HasReceivedAll(r), NothingReady(r),
                      NEW a \in ReplicaIds
               PROVE  /\ insertions_backlog[r][a] = <<>>
                      /\ deletions_backlog[r][a] = <<>>
  BY DEF BacklogNeverStuck
<1>2. TypeOK /\ ClockInvariant /\ TextInvariant /\ DocumentsAreSentText
  BY <1>1 DEF DocumentInvariant
<1>3. TextsOK
  BY <1>2, TextsAreOK
<1>4. r \in replicas /\ r \in ReplicaIds
  BY <1>2 DEF Live, TypeOK
<1>5. Lacks(r) = {}
  BY <1>1, <1>2, <1>3, <1>4, NothingLacked
<1>6. \A d \in deletions : HasMergedDeletion(r, d)
  BY <1>1, <1>2, <1>3, <1>4, <1>5, NoDeletionLacked
<1>7. insertions_backlog[r][a] = <<>>
  <2> DEFINE queue == insertions_backlog[r][a]
  <2>1. SUFFICES ASSUME queue # <<>> PROVE FALSE
    OBVIOUS
  <2>2. queue \in Seq(insertions)
    BY <1>2, <1>4 DEF TypeOK
  <2>3. InsertionsQueueOK(queue, a, version_map[r][a])
    BY <1>1, <1>4 DEF BacklogInvariants
  <2> HIDE DEF queue
  <2>4. queue[1] \in insertions /\ 1 \in DOMAIN queue
    BY <2>1, <2>2, QueueStarts
  <2>5. queue[1].by = a /\ version_map[r][a] <= queue[1].start
    BY <2>3, <2>4 DEF InsertionsQueueOK
  <2>6. version_map[r][a] > queue[1].start
    BY <1>5, <2>4, <2>5 DEF Lacks, HasMergedInsertion
  <2>7. version_map[r][a] \in Nat /\ queue[1].start \in Nat
    BY <1>2, <1>4, <2>4 DEF TypeOK, InsertionTypeOK
  <2>8. QED
    BY <2>5, <2>6, <2>7
<1>8. deletions_backlog[r][a] = <<>>
  <2> DEFINE queue == deletions_backlog[r][a]
  <2>1. SUFFICES ASSUME queue # <<>> PROVE FALSE
    OBVIOUS
  <2>2. queue \in Seq(deletions)
    BY <1>2, <1>4 DEF TypeOK
  <2>3. DeletionsQueueOK(queue, a, deletion_map[r][a])
    BY <1>1, <1>4 DEF BacklogInvariants
  <2> HIDE DEF queue
  <2>4. queue[1] \in deletions /\ 1 \in DOMAIN queue
    BY <2>1, <2>2, QueueStarts
  <2>5. queue[1].by = a /\ deletion_map[r][a] < queue[1].ts
    BY <2>3, <2>4 DEF DeletionsQueueOK
  <2>6. deletion_map[r][a] >= queue[1].ts
    BY <1>6, <2>4, <2>5 DEF HasMergedDeletion
  <2>7. deletion_map[r][a] \in Nat /\ queue[1].ts \in Nat
    BY <1>2, <1>4, <2>4 DEF TypeOK, DeletionTypeOK
  <2>8. QED
    BY <2>5, <2>6, <2>7
<1>9. QED
  BY <1>7, <1>8

(* Unless the transport repeats itself, edits never wait for each other    *)
(* for ever: what has been received is merged as soon as all of it is.     *)
THEOREM BacklogIsNeverStuck ==
    ASSUME ~Redelivery PROVE Spec => []BacklogNeverStuck
<1>1. DocumentInvariant /\ BacklogInvariants => BacklogNeverStuck
  BY NothingWaitsForEver
<1>2. Spec => []BacklogInvariants
  BY BacklogIsInOrder
<1>3. QED
  BY <1>1, <1>2, DocumentsAreCorrect, PTL

------------------------------------------------------------------------------
(* Concatenations are the same however they are bracketed.                 *)
Associate(a, b, c) == a \o (b \o c) = a \o b \o c

LEMMA AllAssociate ==
    ASSUME NEW S, NEW a \in Seq(S), NEW b \in Seq(S), NEW c \in Seq(S)
    PROVE  Associate(a, b, c)
BY ConcatAssociative, SMTT(30) DEF Associate

FiveAssociate(a, p, t, u, b) ==
    a \o (p \o t \o u) \o b = (a \o p \o t) \o (u \o b)

LEMMA AllFiveAssociate ==
    ASSUME NEW S, NEW a \in Seq(S), NEW p \in Seq(S), NEW t \in Seq(S),
           NEW u \in Seq(S), NEW b \in Seq(S)
    PROVE  FiveAssociate(a, p, t, u, b)
<1>1. PICK q \in Seq(S) : q = p \o t
  BY ConcatProperties
<1>2. PICK x \in Seq(S) : x = a \o q
  BY <1>1, ConcatProperties
<1>3. Associate(a, p, t) /\ Associate(a, q, u) /\ Associate(x, u, b)
  BY AllAssociate
<1>4. QED
  BY <1>1, <1>2, <1>3, Zenon DEF Associate, FiveAssociate

(* The visible text before a leaf depends only on the leaves before it.    *)
LEMMA SameOffsets ==
    ASSUME NEW runs \in Seq(Runs), NEW new \in Seq(Runs), NEW p \in Nat,
           p \in 1 .. Len(runs) + 1, p \in 1 .. Len(new) + 1,
           \A k \in 1 .. p - 1 : VisibleLen(new[k]) = VisibleLen(runs[k])
    PROVE  OffsetOfLeaf(new, p) = OffsetOfLeaf(runs, p)
<1> DEFINE Same(k) == OffsetOfLeaf(new, k) = OffsetOfLeaf(runs, k)
           S == {k \in Nat : k + 1 <= p => Same(k + 1)}
<1>1. Len(runs) \in Nat /\ Len(new) \in Nat
  BY LenProperties
<1>2. 0 \in S
  BY OffsetsOfLeaves
<1>3. ASSUME NEW k \in S \cap Nat PROVE k + 1 \in S
  <2>1. SUFFICES ASSUME (k + 1) + 1 <= p PROVE Same((k + 1) + 1)
    OBVIOUS
  <2>2. Same(k + 1)
    BY <2>1
  <2>3. /\ k + 1 \in 1 .. p - 1
        /\ k + 1 \in 1 .. Len(runs) /\ k + 1 \in 1 .. Len(new)
    BY <2>1, <1>1
  <2>4. OffsetOfLeaf(runs, (k + 1) + 1) =
          OffsetOfLeaf(runs, k + 1) + VisibleLen(runs[k + 1])
    BY <2>3, OffsetsOfLeaves
  <2>5. OffsetOfLeaf(new, (k + 1) + 1) =
          OffsetOfLeaf(new, k + 1) + VisibleLen(new[k + 1])
    BY <2>3, OffsetsOfLeaves
  <2>6. QED
    BY <2>2, <2>3, <2>4, <2>5
<1> HIDE DEF S
<1>4. p - 1 \in S
  BY <1>2, <1>3, Induction
<1>5. (p - 1) + 1 = p
  OBVIOUS
<1>6. QED
  BY <1>4, <1>5 DEF S

------------------------------------------------------------------------------
(* The text of a document, leaf by leaf.                                   *)
Characters == [id : ReplicaIds, at : Nat]

IsText(runs, f, n) ==
    f = [k \in 0 .. n |-> IF k = 0 THEN <<>> ELSE f[k - 1] \o RunText(runs[k])]

LEMMA TextExists ==
    ASSUME NEW runs, NEW n \in Nat
    PROVE  \E f : IsText(runs, f, n)
<1> DEFINE S == {k \in Nat : \E f : IsText(runs, f, k)}
<1>1. 0 \in S
  <2> DEFINE f == [k \in 0 .. 0 |-> <<>>]
  <2>1. f = [k \in 0 .. 0 |->
               IF k = 0 THEN <<>> ELSE f[k - 1] \o RunText(runs[k])]
    OBVIOUS
  <2>2. IsText(runs, f, 0)
    BY <2>1 DEF IsText
  <2> HIDE DEF f
  <2>3. QED
    BY <2>2
<1>2. ASSUME NEW k \in S \cap Nat PROVE k + 1 \in S
  <2>1. PICK f : IsText(runs, f, k)
    OBVIOUS
  <2> DEFINE last == f[k] \o RunText(runs[k + 1])
             g == [j \in 0 .. k + 1 |-> IF j = k + 1 THEN last ELSE f[j]]
             h == [j \in 0 .. k + 1 |->
                     IF j = 0 THEN <<>> ELSE g[j - 1] \o RunText(runs[j])]
  <2>2. \A j \in 0 .. k :
           f[j] = IF j = 0 THEN <<>> ELSE f[j - 1] \o RunText(runs[j])
    BY <2>1 DEF IsText
  <2>3. ASSUME NEW j \in 0 .. k + 1 PROVE g[j] = h[j]
    <3>1. CASE j = k + 1
      <4>1. j - 1 = k /\ k \in 0 .. k + 1 /\ k # k + 1 /\ j # 0
        BY <3>1
      <4>2. g[j - 1] = f[k] /\ g[j] = last
        BY <3>1, <4>1
      <4>3. h[j] = g[j - 1] \o RunText(runs[j])
        BY <4>1
      <4>4. QED
        BY <3>1, <4>2, <4>3
    <3>2. CASE j # k + 1 /\ j # 0
      <4>1. j - 1 \in 0 .. k + 1 /\ j - 1 # k + 1 /\ j \in 0 .. k
        BY <3>2
      <4>2. g[j - 1] = f[j - 1] /\ g[j] = f[j]
        BY <3>2, <4>1
      <4>3. h[j] = g[j - 1] \o RunText(runs[j])
        BY <3>2
      <4>4. f[j] = f[j - 1] \o RunText(runs[j])
        BY <2>2, <3>2, <4>1
      <4>5. QED
        BY <4>2, <4>3, <4>4
    <3>3. CASE j # k + 1 /\ j = 0
      <4>1. g[j] = f[j] /\ h[j] = <<>> /\ 0 \in 0 .. k
        BY <3>3
      <4>2. QED
        BY <2>2, <3>3, <4>1
    <3>4. QED
      BY <3>1, <3>2, <3>3
  <2>4. g = h
    BY <2>3
  <2>5. IsText(runs, g, k + 1)
    BY <2>4 DEF IsText
  <2> HIDE DEF g
  <2>6. QED
    BY <2>5
<1> HIDE DEF S
<1>3. n \in S
  BY <1>1, <1>2, Induction
<1>4. QED
  BY <1>3 DEF S

LEMMA TextOfLeaf ==
    ASSUME NEW run \in Runs
    PROVE  /\ RunText(run) \in Seq(Characters)
           /\ Len(RunText(run)) = VisibleLen(run)
<1>1. run.id \in ReplicaIds /\ run.start \in Nat /\ RunLen(run) \in Nat
  BY RunLength DEF Runs, RunType
<1>2. RunChars(run) \in Seq(Characters) /\ Len(RunChars(run)) = RunLen(run)
  <2> DEFINE n == RunLen(run)
             c == [k \in 1 .. n |-> [id |-> run.id, at |-> run.start + k - 1]]
  <2>1. \A k \in 1 .. n : c[k] \in Characters
    BY <1>1 DEF Characters
  <2>2. c \in Seq(Characters) /\ Len(c) = n
    <3> HIDE DEF n
    <3>1. n \in Nat
      BY <1>1 DEF n
    <3>2. c \in [1 .. n -> Characters]
      BY <2>1
    <3>3. QED
      BY <3>1, <3>2
  <2>3. QED
    BY <2>2 DEF RunChars
<1>3. QED
  BY <1>2 DEF RunText, VisibleLen

(* The text of the first n leaves.                                         *)
IsTextOf(runs, f) ==
    /\ f[0] = <<>>
    /\ \A k \in 1 .. Len(runs) : f[k] = f[k - 1] \o RunText(runs[k])
    /\ \A k \in 0 .. Len(runs) : f[k] \in Seq(Characters)
    /\ VisibleChars(runs) = f[Len(runs)]

LEMMA TextOfLeaves ==
    ASSUME NEW runs \in Seq(Runs)
    PROVE  \E f : IsTextOf(runs, f)
<1>1. Len(runs) \in Nat
  OBVIOUS
<1> DEFINE f == CHOOSE g : IsText(runs, g, Len(runs))
<1>2. IsText(runs, f, Len(runs))
  BY <1>1, TextExists
<1>3. VisibleChars(runs) = f[Len(runs)]
  BY DEF VisibleChars, IsText
<1> HIDE DEF f
<1>4. \A k \in 0 .. Len(runs) :
         f[k] = IF k = 0 THEN <<>> ELSE f[k - 1] \o RunText(runs[k])
  BY <1>2 DEF IsText
<1>5. f[0] = <<>>
  BY <1>1, <1>4
<1>6. ASSUME NEW k \in 1 .. Len(runs)
      PROVE  f[k] = f[k - 1] \o RunText(runs[k])
  <2>1. k \in 0 .. Len(runs) /\ k # 0
    BY <1>1
  <2>2. QED
    BY <2>1, <1>4
<1>7. \A k \in 0 .. Len(runs) : f[k] \in Seq(Characters)
  <2> DEFINE S == {k \in Nat : k <= Len(runs) => f[k] \in Seq(Characters)}
  <2>1. 0 \in S
    <3>1. f[0] \in Seq(Characters)
      BY <1>5, EmptySeq
    <3>2. QED
      BY <3>1
  <2>2. ASSUME NEW k \in S \cap Nat PROVE k + 1 \in S
    <3>1. SUFFICES ASSUME k + 1 <= Len(runs) PROVE f[k + 1] \in Seq(Characters)
      OBVIOUS
    <3>2. k + 1 \in 1 .. Len(runs) /\ (k + 1) - 1 = k /\ k <= Len(runs)
      BY <1>1, <3>1
    <3>3. runs[k + 1] \in Runs
      BY <3>2, ElementOfSeq
    <3>4. RunText(runs[k + 1]) \in Seq(Characters)
      BY <3>3, TextOfLeaf
    <3>5. f[k + 1] = f[k] \o RunText(runs[k + 1])
      BY <3>2, <1>6
    <3>6. f[k] \in Seq(Characters)
      BY <3>2
    <3>7. QED
      BY <3>4, <3>5, <3>6
  <2> HIDE DEF S
  <2>3. Nat \subseteq S
    BY <2>1, <2>2, Induction
  <2>4. QED
    BY <2>3 DEF S
<1>8. QED
  BY <1>3, <1>5, <1>6, <1>7 DEF IsTextOf

------------------------------------------------------------------------------
(* Cutting a text at an offset.                                            *)
UpTo(text, n) == SubSeq(text, 1, n)

TextAfter(text, n) == SubSeq(text, n + 1, Len(text))

IsCutAt(text, n, S) ==
    /\ UpTo(text, n) \in Seq(S) /\ Len(UpTo(text, n)) = n
    /\ TextAfter(text, n) \in Seq(S) /\ Len(TextAfter(text, n)) = Len(text) - n
    /\ text = UpTo(text, n) \o TextAfter(text, n)
    /\ \A i \in 1 .. n : UpTo(text, n)[i] = text[i]
    /\ \A i \in 1 .. Len(text) - n : TextAfter(text, n)[i] = text[n + i]

LEMMA TextIsCut ==
    ASSUME NEW S, NEW text \in Seq(S), NEW n \in 0 .. Len(text)
    PROVE  IsCutAt(text, n, S)
<1>1. Len(text) \in Nat /\ n \in Nat /\ \A i \in 1 .. Len(text) : text[i] \in S
  BY LenProperties, ElementOfSeq
<1>2. /\ UpTo(text, n) \in Seq(S) /\ Len(UpTo(text, n)) = n
      /\ \A i \in 1 .. n : UpTo(text, n)[i] = text[i]
  <2>1. \A i \in 1 .. n : text[i] \in S
    BY <1>1
  <2>2. /\ SubSeq(text, 1, n) \in Seq(S)
        /\ Len(SubSeq(text, 1, n)) = IF 1 <= n THEN n - 1 + 1 ELSE 0
        /\ \A i \in 1 .. n - 1 + 1 : SubSeq(text, 1, n)[i] = text[1 + i - 1]
    BY <1>1, <2>1, SubSeqProperties
  <2>3. QED
    BY <1>1, <2>2 DEF UpTo
<1>3. /\ TextAfter(text, n) \in Seq(S) /\ Len(TextAfter(text, n)) = Len(text) - n
      /\ \A i \in 1 .. Len(text) - n : TextAfter(text, n)[i] = text[n + i]
  <2>1. \A i \in n + 1 .. Len(text) : text[i] \in S
    BY <1>1
  <2>2. /\ SubSeq(text, n + 1, Len(text)) \in Seq(S)
        /\ Len(SubSeq(text, n + 1, Len(text))) =
             IF n + 1 <= Len(text) THEN Len(text) - (n + 1) + 1 ELSE 0
        /\ \A i \in 1 .. Len(text) - (n + 1) + 1 :
             SubSeq(text, n + 1, Len(text))[i] = text[(n + 1) + i - 1]
    BY <1>1, <2>1, SubSeqProperties
  <2>3. QED
    BY <1>1, <2>2 DEF TextAfter
<1>4. text = UpTo(text, n) \o TextAfter(text, n)
  <2>1. SubSeq(text, 1, n) \o SubSeq(text, n + 1, Len(text))
          = SubSeq(text, 1, Len(text))
    <3>1. 1 \in 1 .. Len(text) + 1 /\ n \in 1 - 1 .. Len(text)
          /\ Len(text) \in n .. Len(text)
      BY <1>1
    <3>2. QED
      BY <3>1, ConcatAdjacentSubSeq
  <2>2. SubSeq(text, 1, Len(text)) = text
    BY SubSeqFull
  <2>3. QED
    BY <2>1, <2>2 DEF UpTo, TextAfter
<1>5. QED
  BY <1>2, <1>3, <1>4 DEF IsCutAt

LEMMA ConcatIsCut ==
    ASSUME NEW S, NEW a \in Seq(S), NEW b \in Seq(S)
    PROVE  /\ UpTo(a \o b, Len(a)) = a /\ TextAfter(a \o b, Len(a)) = b
           /\ a \o b \in Seq(S) /\ Len(a \o b) = Len(a) + Len(b)
           /\ Len(a) \in 0 .. Len(a \o b)
<1>1. /\ Len(a) \in Nat /\ Len(b) \in Nat
  BY LenProperties
<1>2. /\ a \o b \in Seq(S) /\ Len(a \o b) = Len(a) + Len(b)
      /\ \A i \in 1 .. Len(a) + Len(b) :
           (a \o b)[i] = IF i <= Len(a) THEN a[i] ELSE b[i - Len(a)]
  BY ConcatProperties
<1>3. Len(a) \in 0 .. Len(a \o b)
  BY <1>1, <1>2
<1>4. IsCutAt(a \o b, Len(a), S)
  BY <1>2, <1>3, TextIsCut
<1>5. UpTo(a \o b, Len(a)) = a
  <2>1. \A i \in 1 .. Len(a) : UpTo(a \o b, Len(a))[i] = a[i]
    <3>1. SUFFICES ASSUME NEW i \in 1 .. Len(a)
                   PROVE  UpTo(a \o b, Len(a))[i] = a[i]
      OBVIOUS
    <3>2. UpTo(a \o b, Len(a))[i] = (a \o b)[i]
      BY <1>4 DEF IsCutAt
    <3>3. i \in 1 .. Len(a) + Len(b) /\ i <= Len(a)
      BY <1>1
    <3>4. QED
      BY <3>2, <3>3, <1>2
  <2>2. QED
    BY <2>1, <1>4, SeqEqual DEF IsCutAt
<1>6. TextAfter(a \o b, Len(a)) = b
  <2>1. \A i \in 1 .. Len(b) : TextAfter(a \o b, Len(a))[i] = b[i]
    <3>1. SUFFICES ASSUME NEW i \in 1 .. Len(b)
                   PROVE  TextAfter(a \o b, Len(a))[i] = b[i]
      OBVIOUS
    <3>2. i \in 1 .. Len(a \o b) - Len(a)
      BY <1>1, <1>2
    <3>3. TextAfter(a \o b, Len(a))[i] = (a \o b)[Len(a) + i]
      BY <3>2, <1>4 DEF IsCutAt
    <3>4. Len(a) + i \in 1 .. Len(a) + Len(b) /\ ~(Len(a) + i <= Len(a))
          /\ (Len(a) + i) - Len(a) = i
      BY <1>1
    <3>5. (a \o b)[Len(a) + i] = b[(Len(a) + i) - Len(a)]
      BY <3>4, <1>2
    <3>6. QED
      BY <3>3, <3>4, <3>5
  <2>2. Len(TextAfter(a \o b, Len(a))) = Len(b) /\ TextAfter(a \o b, Len(a)) \in Seq(S)
    BY <1>1, <1>2, <1>4 DEF IsCutAt
  <2>3. QED
    BY <2>1, <2>2, SeqEqual
<1>7. QED
  BY <1>2, <1>3, <1>5, <1>6

FollowsOn(h, f, g, n, k) == h[n + k] = f[n] \o g[k]

LEMMA TextOfConcat ==
    ASSUME NEW a \in Seq(Runs), NEW b \in Seq(Runs)
    PROVE  VisibleChars(a \o b) = VisibleChars(a) \o VisibleChars(b)
<1>1. PICK f : IsTextOf(a, f)
  BY TextOfLeaves
<1>2. PICK g : IsTextOf(b, g)
  BY TextOfLeaves
<1>3. PICK n, m : n = Len(a) /\ m = Len(b)
  OBVIOUS
<1>4. n \in Nat /\ m \in Nat
  BY <1>3, LenProperties
<1>5. PICK c : c = a \o b
  OBVIOUS
<1>6. c \in Seq(Runs) /\ Len(c) = n + m
      /\ \A i \in 1 .. n + m : c[i] = IF i <= n THEN a[i] ELSE b[i - n]
  BY <1>3, <1>5, ConcatProperties
<1>7. PICK h : IsTextOf(c, h)
  BY <1>6, TextOfLeaves
<1>8. /\ f[0] = <<>> /\ g[0] = <<>> /\ h[0] = <<>>
      /\ \A k \in 1 .. n : f[k] = f[k - 1] \o RunText(a[k])
      /\ \A k \in 1 .. m : g[k] = g[k - 1] \o RunText(b[k])
      /\ \A k \in 1 .. n + m : h[k] = h[k - 1] \o RunText(c[k])
      /\ \A k \in 0 .. n : f[k] \in Seq(Characters)
      /\ \A k \in 0 .. m : g[k] \in Seq(Characters)
      /\ VisibleChars(a) = f[n] /\ VisibleChars(b) = g[m]
      /\ VisibleChars(c) = h[n + m]
  BY <1>1, <1>2, <1>3, <1>6, <1>7 DEF IsTextOf
<1>9. h[n] = f[n]
  <2> DEFINE S == {k \in Nat : k <= n => h[k] = f[k]}
  <2>1. 0 \in S
    BY <1>8
  <2>2. ASSUME NEW k \in S \cap Nat PROVE k + 1 \in S
    <3>1. SUFFICES ASSUME k + 1 <= n PROVE h[k + 1] = f[k + 1]
      OBVIOUS
    <3>2. k + 1 \in 1 .. n /\ k + 1 \in 1 .. n + m /\ (k + 1) - 1 = k
          /\ k <= n /\ k + 1 <= n
      BY <1>4, <3>1
    <3>3. h[k] = f[k]
      BY <3>2
    <3>4. c[k + 1] = a[k + 1]
      BY <3>2, <1>6
    <3>5. h[k + 1] = h[k] \o RunText(c[k + 1])
      BY <3>2, <1>8
    <3>6. f[k + 1] = f[k] \o RunText(a[k + 1])
      BY <3>2, <1>8
    <3>7. QED
      BY <3>3, <3>4, <3>5, <3>6
  <2> HIDE DEF S
  <2>3. n \in S
    BY <2>1, <2>2, <1>4, Induction
  <2>4. QED
    BY <2>3, <1>4 DEF S
<1>10. h[n + m] = f[n] \o g[m]
  <2>1. f[n] \in Seq(Characters)
    BY <1>4, <1>8
  <2> DEFINE S == {k \in Nat : k <= m => FollowsOn(h, f, g, n, k)}
  <2>2. 0 \in S
    <3>1. f[n] \o <<>> = f[n]
      BY <2>1, ConcatEmptySeq
    <3>2. n + 0 = n
      BY <1>4
    <3>3. FollowsOn(h, f, g, n, 0)
      BY <3>1, <3>2, <1>8, <1>9 DEF FollowsOn
    <3>4. QED
      BY <3>3
  <2>3. ASSUME NEW k \in S \cap Nat PROVE k + 1 \in S
    <3>1. SUFFICES ASSUME k + 1 <= m PROVE FollowsOn(h, f, g, n, k + 1)
      OBVIOUS
    <3>2. /\ k + 1 \in 1 .. m /\ n + (k + 1) \in 1 .. n + m
          /\ (k + 1) - 1 = k /\ (n + (k + 1)) - 1 = n + k
          /\ (n + (k + 1)) - n = k + 1 /\ ~(n + (k + 1) <= n)
          /\ k <= m /\ k \in 0 .. m
      BY <1>4, <3>1
    <3>3. FollowsOn(h, f, g, n, k)
      BY <3>2
    <3>4. c[n + (k + 1)] = b[k + 1]
      BY <3>2, <1>6
    <3>5. h[n + (k + 1)] = h[n + k] \o RunText(c[n + (k + 1)])
      BY <3>2, <1>8
    <3>6. g[k + 1] = g[k] \o RunText(b[k + 1])
      BY <3>2, <1>8
    <3>7. RunText(b[k + 1]) \in Seq(Characters)
      <4>1. b[k + 1] \in Runs
        BY <3>2, <1>3, ElementOfSeq
      <4>2. QED
        BY <4>1, TextOfLeaf
    <3>8. g[k] \in Seq(Characters)
      BY <3>2, <1>8
    <3>9. Associate(f[n], g[k], RunText(b[k + 1]))
      BY <2>1, <3>7, <3>8, AllAssociate
    <3>10. QED
      BY <3>3, <3>4, <3>5, <3>6, <3>9, Zenon DEF Associate, FollowsOn
  <2> HIDE DEF S
  <2>4. m \in S
    BY <2>2, <2>3, <1>4, Induction
  <2>5. FollowsOn(h, f, g, n, m)
    BY <2>4, <1>4 DEF S
  <2>6. QED
    BY <2>5 DEF FollowsOn
<1>11. QED
  BY <1>5, <1>8, <1>10

LEMMA TextOfNone == VisibleChars(<<>>) = <<>>
<1>1. <<>> \in Seq(Runs) /\ Len(<<>>) = 0
  BY EmptySeq
<1>2. PICK f : IsTextOf(<<>>, f)
  BY <1>1, TextOfLeaves
<1>3. QED
  BY <1>1, <1>2 DEF IsTextOf

LEMMA TextOfOne ==
    ASSUME NEW run \in Runs
    PROVE  VisibleChars(<<run>>) = RunText(run)
<1>1. <<run>> \in Seq(Runs) /\ Len(<<run>>) = 1 /\ <<run>>[1] = run
  OBVIOUS
<1>2. PICK f : IsTextOf(<<run>>, f)
  BY <1>1, TextOfLeaves
<1>3. /\ f[0] = <<>> /\ f[1] = f[0] \o RunText(run)
      /\ VisibleChars(<<run>>) = f[1]
  <2>1. 1 \in 1 .. Len(<<run>>) /\ 1 - 1 = 0
    BY <1>1
  <2>2. f[1] = f[1 - 1] \o RunText(<<run>>[1])
    BY <1>2, <2>1 DEF IsTextOf
  <2>3. QED
    BY <1>1, <1>2, <2>1, <2>2 DEF IsTextOf
<1>4. <<>> \o RunText(run) = RunText(run)
  BY TextOfLeaf, ConcatEmptySeq
<1>5. QED
  BY <1>3, <1>4

(* The text before a leaf is as long as its offset says.                   *)
LEMMA TextLength ==
    ASSUME NEW runs \in Seq(Runs)
    PROVE  /\ VisibleChars(runs) \in Seq(Characters)
           /\ Len(VisibleChars(runs)) = DocumentLen(runs)
<1>1. PICK f : IsTextOf(runs, f)
  BY TextOfLeaves
<1>2. Len(runs) \in Nat
  BY LenProperties
<1>3. \A k \in 0 .. Len(runs) : Len(f[k]) = OffsetOfLeaf(runs, k + 1)
  <2> DEFINE S == {k \in Nat : k <= Len(runs) =>
                               Len(f[k]) = OffsetOfLeaf(runs, k + 1)}
  <2>1. 0 \in S
    <3>1. Len(<<>>) = 0 /\ 0 + 1 = 1 /\ OffsetOfLeaf(runs, 1) = 0
      BY OffsetsOfLeaves
    <3>2. QED
      BY <3>1, <1>1 DEF IsTextOf
  <2>2. ASSUME NEW k \in S \cap Nat PROVE k + 1 \in S
    <3>1. SUFFICES ASSUME k + 1 <= Len(runs)
                   PROVE  Len(f[k + 1]) = OffsetOfLeaf(runs, (k + 1) + 1)
      OBVIOUS
    <3>2. k + 1 \in 1 .. Len(runs) /\ (k + 1) - 1 = k /\ k \in 0 .. Len(runs)
          /\ k <= Len(runs)
      BY <1>2, <3>1
    <3>3. runs[k + 1] \in Runs
      BY <3>2, ElementOfSeq
    <3>4. /\ RunText(runs[k + 1]) \in Seq(Characters)
          /\ Len(RunText(runs[k + 1])) = VisibleLen(runs[k + 1])
      BY <3>3, TextOfLeaf
    <3>5. f[k] \in Seq(Characters) /\ f[k + 1] = f[k] \o RunText(runs[k + 1])
      BY <3>2, <1>1 DEF IsTextOf
    <3>6. Len(f[k + 1]) = Len(f[k]) + VisibleLen(runs[k + 1])
      <4>1. Len(f[k] \o RunText(runs[k + 1])) =
              Len(f[k]) + Len(RunText(runs[k + 1]))
        BY <3>4, <3>5, ConcatIsCut
      <4>2. QED
        BY <3>4, <3>5, <4>1
    <3>7. OffsetOfLeaf(runs, (k + 1) + 1) =
            OffsetOfLeaf(runs, k + 1) + VisibleLen(runs[k + 1])
      BY <3>2, OffsetsOfLeaves
    <3>8. QED
      BY <3>2, <3>6, <3>7
  <2> HIDE DEF S
  <2>3. Nat \subseteq S
    BY <2>1, <2>2, Induction
  <2>4. QED
    BY <2>3 DEF S
<1>4. Len(runs) \in 0 .. Len(runs)
  BY <1>2
<1>5. QED
  BY <1>1, <1>3, <1>4 DEF IsTextOf, DocumentLen

------------------------------------------------------------------------------
(* The text around a leaf.                                                 *)
BeforeLeaf(runs, i) == VisibleChars(SubSeq(runs, 1, i - 1))

FromLeaf(runs, i) == VisibleChars(SubSeq(runs, i, Len(runs)))

IsTextAround(runs, i) ==
    /\ BeforeLeaf(runs, i) \in Seq(Characters)
    /\ Len(BeforeLeaf(runs, i)) = OffsetOfLeaf(runs, i)
    /\ FromLeaf(runs, i) \in Seq(Characters)
    /\ VisibleChars(runs) = BeforeLeaf(runs, i) \o FromLeaf(runs, i)
    /\ UpTo(VisibleChars(runs), OffsetOfLeaf(runs, i)) = BeforeLeaf(runs, i)
    /\ TextAfter(VisibleChars(runs), OffsetOfLeaf(runs, i)) = FromLeaf(runs, i)

LEMMA TextAroundLeaf ==
    ASSUME NEW runs \in Seq(Runs), NEW i \in 1 .. Len(runs) + 1
    PROVE  IsTextAround(runs, i)
<1> DEFINE A == SubSeq(runs, 1, i - 1)
           B == SubSeq(runs, i, Len(runs))
<1>1. Len(runs) \in Nat /\ i \in Nat /\ i - 1 \in Int
      /\ \A k \in 1 .. Len(runs) : runs[k] \in Runs
  BY LenProperties, ElementOfSeq
<1>2. /\ A \in Seq(Runs) /\ Len(A) = i - 1
      /\ \A k \in 1 .. i - 1 : A[k] = runs[k]
  BY <1>1, SubSeqProperties
<1>3. B \in Seq(Runs)
  BY <1>1, SubSeqProperties
<1>4. A \o B = runs
  <2>1. /\ 1 \in 1 .. Len(runs) + 1 /\ i - 1 \in 1 - 1 .. Len(runs)
        /\ Len(runs) \in i - 1 .. Len(runs) /\ (i - 1) + 1 = i
    BY <1>1
  <2>2. A \o SubSeq(runs, (i - 1) + 1, Len(runs)) = SubSeq(runs, 1, Len(runs))
    BY <2>1, ConcatAdjacentSubSeq
  <2>3. QED
    BY <2>1, <2>2, SubSeqFull
<1>5. BeforeLeaf(runs, i) = VisibleChars(A)
      /\ FromLeaf(runs, i) = VisibleChars(B)
  BY DEF BeforeLeaf, FromLeaf
<1> HIDE DEF A, B
<1>6. VisibleChars(runs) = VisibleChars(A) \o VisibleChars(B)
  BY <1>2, <1>3, <1>4, TextOfConcat
<1>7. /\ VisibleChars(A) \in Seq(Characters)
      /\ Len(VisibleChars(A)) = OffsetOfLeaf(A, i)
      /\ VisibleChars(B) \in Seq(Characters)
  <2>1. Len(A) + 1 = i
    BY <1>1, <1>2
  <2>2. QED
    BY <2>1, <1>2, <1>3, TextLength DEF DocumentLen
<1>8. OffsetOfLeaf(A, i) = OffsetOfLeaf(runs, i)
  <2>1. /\ i \in 1 .. Len(A) + 1
        /\ \A k \in 1 .. i - 1 : VisibleLen(A[k]) = VisibleLen(runs[k])
    BY <1>1, <1>2
  <2>2. QED
    BY <2>1, <1>1, <1>2, SameOffsets
<1>9. /\ UpTo(VisibleChars(runs), OffsetOfLeaf(runs, i)) = VisibleChars(A)
      /\ TextAfter(VisibleChars(runs), OffsetOfLeaf(runs, i)) = VisibleChars(B)
  BY <1>6, <1>7, <1>8, ConcatIsCut
<1>10. QED
  BY <1>5, <1>6, <1>7, <1>8, <1>9 DEF IsTextAround

(* A leaf's own text, before that of the leaves behind it.                 *)
LEMMA TextFromLeaf ==
    ASSUME NEW runs \in Seq(Runs), NEW i \in 1 .. Len(runs)
    PROVE  /\ RunText(runs[i]) \in Seq(Characters)
           /\ FromLeaf(runs, i + 1) \in Seq(Characters)
           /\ FromLeaf(runs, i) = RunText(runs[i]) \o FromLeaf(runs, i + 1)
           /\ BeforeLeaf(runs, i + 1) = BeforeLeaf(runs, i) \o RunText(runs[i])
<1>1. /\ Len(runs) \in Nat /\ i \in 1 .. Len(runs) + 1 /\ runs[i] \in Runs
      /\ i + 1 \in 1 .. Len(runs) + 1
  BY LenProperties, ElementOfSeq
<1> DEFINE A == SubSeq(runs, 1, i - 1)
           B == SubSeq(runs, i + 1, Len(runs))
           P == <<runs[i]>>
<1>2. A \in Seq(Runs) /\ B \in Seq(Runs) /\ P \in Seq(Runs)
  BY ApartAt
<1>3. SubSeq(runs, i, Len(runs)) = P \o B
  <2>1. /\ i \in 1 .. Len(runs) + 1 /\ i \in i - 1 .. Len(runs)
        /\ Len(runs) \in i .. Len(runs)
    BY <1>1
  <2>2. SubSeq(runs, i, i) \o B = SubSeq(runs, i, Len(runs))
    BY <2>1, ConcatAdjacentSubSeq
  <2>3. /\ SubSeq(runs, i, i) \in Seq(Runs) /\ Len(SubSeq(runs, i, i)) = 1
        /\ SubSeq(runs, i, i)[1] = runs[i]
    <3>1. \A k \in i .. i : runs[k] \in Runs
      BY <1>1
    <3>2. i \in Int /\ 1 \in 1 .. i - i + 1 /\ i + 1 - 1 = i /\ i - i + 1 = 1
          /\ i <= i
      BY <1>1
    <3>3. /\ SubSeq(runs, i, i) \in Seq(Runs)
          /\ Len(SubSeq(runs, i, i)) = IF i <= i THEN i - i + 1 ELSE 0
          /\ \A k \in 1 .. i - i + 1 : SubSeq(runs, i, i)[k] = runs[i + k - 1]
      BY <3>1, <3>2, SubSeqProperties
    <3>4. SubSeq(runs, i, i)[1] = runs[i + 1 - 1]
      BY <3>2, <3>3
    <3>5. QED
      BY <3>2, <3>3, <3>4
  <2>4. SubSeq(runs, i, i) = P
    <3>1. Len(P) = 1 /\ P[1] = runs[i]
      OBVIOUS
    <3> HIDE DEF P
    <3>2. PICK s : s = SubSeq(runs, i, i)
      OBVIOUS
    <3>3. s \in Seq(Runs) /\ Len(s) = Len(P) /\ Len(s) = 1 /\ s[1] = P[1]
      BY <2>3, <3>1, <3>2
    <3>4. \A k \in 1 .. Len(s) : s[k] = P[k]
      BY <3>3
    <3>5. s = P
      BY <1>2, <3>3, <3>4, SeqEqual
    <3>6. QED
      BY <3>2, <3>5
  <2>5. QED
    BY <2>2, <2>4
<1>4. SubSeq(runs, 1, i) = A \o P
  <2>1. 1 \in 1 .. Len(runs) /\ i \in 1 .. Len(runs)
    BY <1>1
  <2>2. QED
    BY <2>1, SubSeqRecursiveSecond
<1>5. VisibleChars(P) = RunText(runs[i])
  BY <1>1, TextOfOne
<1> HIDE DEF A, B, P
<1>6. /\ VisibleChars(P \o B) = VisibleChars(P) \o VisibleChars(B)
      /\ VisibleChars(A \o P) = VisibleChars(A) \o VisibleChars(P)
  BY <1>2, TextOfConcat
<1>7. /\ FromLeaf(runs, i) = VisibleChars(P \o B)
      /\ FromLeaf(runs, i + 1) = VisibleChars(B)
      /\ BeforeLeaf(runs, i) = VisibleChars(A)
  BY <1>3 DEF FromLeaf, BeforeLeaf, A, B
<1>8. BeforeLeaf(runs, i + 1) = VisibleChars(A \o P)
  <2>1. (i + 1) - 1 = i
    BY <1>1
  <2>2. QED
    BY <2>1, <1>4 DEF BeforeLeaf
<1>9. QED
  BY <1>1, <1>2, <1>5, <1>6, <1>7, <1>8, TextLength, TextOfLeaf

LEMMA TextOfSplice ==
    ASSUME NEW runs \in Seq(Runs), NEW i \in 1 .. Len(runs), NEW Q \in Seq(Runs)
    PROVE  VisibleChars(Splice(runs, i, Q)) =
             BeforeLeaf(runs, i) \o VisibleChars(Q) \o FromLeaf(runs, i + 1)
<1> DEFINE A == SubSeq(runs, 1, i - 1)
           B == SubSeq(runs, i + 1, Len(runs))
<1>1. A \in Seq(Runs) /\ B \in Seq(Runs)
  BY ApartAt
<1>2. Splice(runs, i, Q) = A \o Q \o B
  BY DEF Splice
<1>3. /\ BeforeLeaf(runs, i) = VisibleChars(A)
      /\ FromLeaf(runs, i + 1) = VisibleChars(B)
  BY DEF BeforeLeaf, FromLeaf
<1> HIDE DEF A, B
<1>4. A \o Q \in Seq(Runs) /\ VisibleChars(A \o Q) = VisibleChars(A) \o VisibleChars(Q)
  BY <1>1, TextOfConcat, ConcatProperties
<1>5. VisibleChars(A \o Q \o B) = VisibleChars(A \o Q) \o VisibleChars(B)
  BY <1>1, <1>4, TextOfConcat
<1>6. QED
  BY <1>2, <1>3, <1>4, <1>5

LEMMA TextOfInsertAt ==
    ASSUME NEW runs \in Seq(Runs), NEW p \in 1 .. Len(runs) + 1, NEW run \in Runs
    PROVE  VisibleChars(InsertAt(runs, p, run)) =
             InsertText(VisibleChars(runs), OffsetOfLeaf(runs, p), RunText(run))
<1> DEFINE A == SubSeq(runs, 1, p - 1)
           B == SubSeq(runs, p, Len(runs))
           P == <<run>>
<1>1. Len(runs) \in Nat /\ \A k \in 1 .. Len(runs) : runs[k] \in Runs
  BY LenProperties, ElementOfSeq
<1>2. A \in Seq(Runs) /\ B \in Seq(Runs) /\ P \in Seq(Runs)
  BY <1>1, SubSeqProperties
<1>3. InsertAt(runs, p, run) = A \o P \o B
  BY DEF InsertAt
<1>4. VisibleChars(P) = RunText(run)
  BY TextOfOne
<1>5. BeforeLeaf(runs, p) = VisibleChars(A) /\ FromLeaf(runs, p) = VisibleChars(B)
  BY DEF BeforeLeaf, FromLeaf
<1> HIDE DEF A, B, P
<1>6. A \o P \in Seq(Runs) /\ VisibleChars(A \o P) = VisibleChars(A) \o VisibleChars(P)
  BY <1>2, TextOfConcat, ConcatProperties
<1>7. VisibleChars(A \o P \o B) = VisibleChars(A \o P) \o VisibleChars(B)
  BY <1>2, <1>6, TextOfConcat
<1>8. IsTextAround(runs, p)
  BY TextAroundLeaf
<1>9. InsertText(VisibleChars(runs), OffsetOfLeaf(runs, p), RunText(run)) =
        BeforeLeaf(runs, p) \o RunText(run) \o FromLeaf(runs, p)
  BY <1>8 DEF InsertText, IsTextAround, UpTo, TextAfter
<1>10. QED
  BY <1>3, <1>4, <1>5, <1>6, <1>7, <1>9

------------------------------------------------------------------------------
(* The text of a part of a run.                                            *)
LEMMA TextOfSubRun ==
    ASSUME NEW run \in Runs, NEW from \in Nat, NEW to \in Nat,
           from <= to, to <= RunLen(run)
    PROVE  /\ RunText(SubRun(run, from, to)) \in Seq(Characters)
           /\ Len(RunText(SubRun(run, from, to))) =
                IF run.del THEN 0 ELSE to - from
           /\ ~run.del => RunText(SubRun(run, from, to)) =
                            SubSeq(RunText(run), from + 1, to)
           /\ run.del => RunText(SubRun(run, from, to)) = <<>>
           /\ VisibleChars(Part(run, from, to)) = RunText(SubRun(run, from, to))
<1>1. PICK part, len, start : part = SubRun(run, from, to) /\ len = RunLen(run)
                              /\ start = run.start
  OBVIOUS
<1>2. /\ run.start \in Nat /\ RunLen(run) \in Nat /\ run.id \in ReplicaIds
      /\ run \in RunType
  BY RunLength DEF RunType
<1>3. /\ part.del = run.del /\ part.id = run.id
      /\ part.start = start + from /\ part.end = start + to
  BY <1>1, <1>2 DEF SubRun, RunType
<1>4. start \in Nat /\ len \in Nat /\ to <= len
  BY <1>1, <1>2
<1>5. RunLen(part) = to - from /\ to - from \in Nat
  BY <1>3, <1>4 DEF RunLen
<1>6. CASE run.del
  <2>1. RunText(part) = <<>>
    BY <1>3, <1>6 DEF RunText
  <2>2. <<>> \in Seq(Characters) /\ Len(<<>>) = 0
    BY EmptySeq
  <2>3. VisibleChars(Part(run, from, to)) = <<>>
    <3>1. CASE from < to
      <4>1. part \in Runs
        BY <1>1, <3>1, MarksOfSubRun
      <4>2. Part(run, from, to) = <<part>>
        BY <1>1, <3>1 DEF Part
      <4>3. QED
        BY <4>1, <4>2, <2>1, TextOfOne
    <3>2. CASE ~(from < to)
      BY <3>2, TextOfNone DEF Part
    <3>3. QED
      BY <3>1, <3>2
  <2>4. QED
    BY <1>1, <1>6, <2>1, <2>2, <2>3
<1>7. CASE ~run.del
  <2> DEFINE n == to - from
             c == [k \in 1 .. n |-> [id |-> run.id, at |-> start + from + k - 1]]
             a == [k \in 1 .. len |-> [id |-> run.id, at |-> start + k - 1]]
  <2>1. RunText(part) = c
    BY <1>3, <1>5, <1>7 DEF RunText, RunChars
  <2>2. RunText(run) = a
    BY <1>1, <1>7 DEF RunText, RunChars
  <2>3. n \in Nat
    BY <1>5
  <2>4. c \in Seq(Characters) /\ Len(c) = n
    <3>1. ASSUME NEW k \in 1 .. n PROVE c[k] \in Characters
      <4>1. start + from + k - 1 \in Nat
        BY <1>4, <2>3
      <4>2. QED
        BY <4>1, <1>2 DEF Characters
    <3> HIDE DEF n
    <3>2. c \in [1 .. n -> Characters]
      BY <3>1
    <3>3. QED
      BY <3>2, <2>3
  <2>5. a \in Seq(Characters)
    BY <2>2, TextOfLeaf
  <2>6. \A k \in 1 .. n : c[k] = a[(from + 1) + k - 1]
    <3>1. TAKE k \in 1 .. n
    <3>2. (from + 1) + k - 1 \in 1 .. len
          /\ start + from + k - 1 = start + ((from + 1) + k - 1) - 1
      BY <1>4, <2>3
    <3>3. QED
      BY <3>2
  <2>7. \A k \in from + 1 .. to : a[k] \in Characters
    <3>1. Len(a) = len
      BY <2>2, <1>1, <1>7, TextOfLeaf DEF VisibleLen
    <3>2. QED
      BY <3>1, <1>4, <2>5, ElementOfSeq
  <2> HIDE DEF a, c
  <2>8. /\ SubSeq(a, from + 1, to) \in Seq(Characters)
        /\ Len(SubSeq(a, from + 1, to)) = n
        /\ \A k \in 1 .. n : SubSeq(a, from + 1, to)[k] = a[(from + 1) + k - 1]
    <3>1. /\ SubSeq(a, from + 1, to) \in Seq(Characters)
          /\ Len(SubSeq(a, from + 1, to)) =
               IF from + 1 <= to THEN to - (from + 1) + 1 ELSE 0
          /\ \A k \in 1 .. to - (from + 1) + 1 :
               SubSeq(a, from + 1, to)[k] = a[(from + 1) + k - 1]
      BY <2>7, SubSeqProperties
    <3>2. QED
      BY <3>1
  <2>9. c = SubSeq(a, from + 1, to)
    BY <2>4, <2>6, <2>8, SeqEqual
  <2>10. VisibleChars(Part(run, from, to)) = c
    <3>1. CASE from < to
      <4>1. part \in Runs
        BY <1>1, <3>1, MarksOfSubRun
      <4>2. Part(run, from, to) = <<part>>
        BY <1>1, <3>1 DEF Part
      <4>3. QED
        BY <4>1, <4>2, <2>1, TextOfOne
    <3>2. CASE ~(from < to)
      <4>1. n = 0
        BY <3>2
      <4>2. c = <<>>
        BY <4>1, <2>4, EmptySeq
      <4>3. QED
        BY <4>2, <3>2, TextOfNone DEF Part
    <3>3. QED
      BY <3>1, <3>2
  <2>11. QED
    BY <1>1, <1>7, <2>1, <2>2, <2>4, <2>9, <2>10
<1>8. QED
  BY <1>6, <1>7

LEMMA TextOfSubRuns ==
    ASSUME NEW run \in Runs, NEW from \in Nat, NEW mid \in Nat, NEW to \in Nat,
           from <= mid, mid <= to, to <= RunLen(run)
    PROVE  RunText(SubRun(run, from, mid)) \o RunText(SubRun(run, mid, to)) =
             RunText(SubRun(run, from, to))
<1>1. RunLen(run) \in Nat /\ from <= to /\ mid <= RunLen(run)
  BY RunLength
<1>2. CASE run.del
  <2>1. /\ RunText(SubRun(run, from, mid)) = <<>>
        /\ RunText(SubRun(run, mid, to)) = <<>>
        /\ RunText(SubRun(run, from, to)) = <<>>
    BY <1>1, <1>2, TextOfSubRun
  <2>2. <<>> \in Seq(Characters)
    BY EmptySeq
  <2>3. QED
    BY <2>1, <2>2, ConcatEmptySeq
<1>3. CASE ~run.del
  <2>1. PICK text : text = RunText(run)
    OBVIOUS
  <2>2. /\ RunText(SubRun(run, from, mid)) = SubSeq(text, from + 1, mid)
        /\ RunText(SubRun(run, mid, to)) = SubSeq(text, mid + 1, to)
        /\ RunText(SubRun(run, from, to)) = SubSeq(text, from + 1, to)
    BY <1>1, <1>3, <2>1, TextOfSubRun
  <2>3. text \in Seq(Characters) /\ Len(text) = RunLen(run)
    BY <1>3, <2>1, TextOfLeaf DEF VisibleLen
  <2>4. /\ from + 1 \in 1 .. Len(text) + 1
        /\ mid \in (from + 1) - 1 .. Len(text) /\ to \in mid .. Len(text)
    BY <1>1, <2>3
  <2>5. SubSeq(text, from + 1, mid) \o SubSeq(text, mid + 1, to)
          = SubSeq(text, from + 1, to)
    BY <2>3, <2>4, ConcatAdjacentSubSeq
  <2>6. QED
    BY <2>2, <2>5
<1>4. QED
  BY <1>2, <1>3

LEMMA TextOfWholeRun ==
    ASSUME NEW run \in Runs
    PROVE  RunText(SubRun(run, 0, RunLen(run))) = RunText(run)
<1>1. run.start \in Nat /\ run.end = run.start + RunLen(run) /\ run \in RunType
      /\ run.start + 0 = run.start
  BY RunLength
<1>2. SubRun(run, 0, RunLen(run)) = run
  <2>1. SubRun(run, 0, RunLen(run)) =
          [run EXCEPT !.start = run.start, !.end = run.end]
    BY <1>1 DEF SubRun
  <2>2. QED
    BY <2>1, <1>1 DEF RunType
<1>3. QED
  BY <1>2

------------------------------------------------------------------------------
(* A range of a leaf is deleted: its text loses that range.                *)
LeftOfRange(runs, i, from) == RunText(SubRun(runs[i], 0, from))

RightOfRange(runs, i, to) == RunText(SubRun(runs[i], to, RunLen(runs[i])))

TextWithout(runs, i, from, to) ==
    BeforeLeaf(runs, i) \o LeftOfRange(runs, i, from)
      \o (RightOfRange(runs, i, to) \o FromLeaf(runs, i + 1))

LEMMA SameRunText ==
    ASSUME NEW x, NEW y, x.id = y.id, x.start = y.start, x.end = y.end,
           x.del = y.del
    PROVE  RunText(x) = RunText(y)
BY DEF RunText, RunChars, RunLen

LEMMA TombstoneText == ASSUME NEW x, x.del PROVE RunText(x) = <<>>
BY DEF RunText

LEMMA PartIsRuns ==
    ASSUME NEW run \in Runs, NEW from \in Nat, NEW to \in Nat,
           from <= to, to <= RunLen(run)
    PROVE  Part(run, from, to) \in Seq(Runs)
<1>1. CASE from < to
  <2>1. SubRun(run, from, to) \in Runs
    BY <1>1, MarksOfSubRun
  <2>2. QED
    BY <1>1, <2>1 DEF Part
<1>2. CASE ~(from < to)
  BY <1>2, EmptySeq DEF Part
<1>3. QED
  BY <1>1, <1>2

LEMMA TextOfDeletedRange ==
    ASSUME NEW run \in Runs, NEW from \in Nat, NEW to \in Nat,
           from < to, to <= RunLen(run)
    PROVE  /\ DeleteRange(run, from, to) \in Seq(Runs)
           /\ VisibleChars(DeleteRange(run, from, to)) =
                RunText(SubRun(run, 0, from))
                  \o RunText(SubRun(run, to, RunLen(run)))
<1>1. RunLen(run) \in Nat
  BY RunLength
<1> DEFINE a == Part(run, 0, from)
           t == Part(Tombstone(run), from, to)
           b == Part(run, to, RunLen(run))
<1>2. a \in Seq(Runs) /\ b \in Seq(Runs)
  BY <1>1, PartIsRuns
<1>3. /\ VisibleChars(a) = RunText(SubRun(run, 0, from))
      /\ VisibleChars(b) = RunText(SubRun(run, to, RunLen(run)))
  BY <1>1, TextOfSubRun
<1>4. t \in Seq(Runs) /\ VisibleChars(t) = <<>>
  <2>1. Tombstone(run) \in Runs /\ RunLen(Tombstone(run)) = RunLen(run)
    BY TombstoneOfRun
  <2>2. Tombstone(run).del
    BY DEF Tombstone, Runs, RunType
  <2>3. t \in Seq(Runs)
    BY <2>1, <1>1, PartIsRuns
  <2>4. PICK tomb : tomb = Tombstone(run)
    OBVIOUS
  <2>5. /\ tomb \in Runs /\ tomb.del /\ to <= RunLen(tomb) /\ from <= to
    BY <2>1, <2>2, <2>4
  <2>6. VisibleChars(Part(tomb, from, to)) = RunText(SubRun(tomb, from, to))
    BY <2>5, TextOfSubRun
  <2>7. tomb.del => RunText(SubRun(tomb, from, to)) = <<>>
    BY <2>5, TextOfSubRun
  <2>8. QED
    BY <2>3, <2>4, <2>5, <2>6, <2>7, Zenon
<1>5. DeleteRange(run, from, to) = a \o t \o b
  BY DEF DeleteRange
<1> HIDE DEF a, t, b
<1>6. a \o t \in Seq(Runs) /\ VisibleChars(a \o t) = VisibleChars(a) \o <<>>
  BY <1>2, <1>4, TextOfConcat, ConcatProperties
<1>7. VisibleChars(a) \in Seq(Characters)
  BY <1>2, TextLength
<1>8. VisibleChars(a \o t) = VisibleChars(a)
  BY <1>6, <1>7, ConcatEmptySeq
<1>9. /\ a \o t \o b \in Seq(Runs)
      /\ VisibleChars(a \o t \o b) = VisibleChars(a \o t) \o VisibleChars(b)
  BY <1>2, <1>6, TextOfConcat, ConcatProperties
<1>10. QED
  BY <1>3, <1>5, <1>8, <1>9

LEMMA TextOfPair ==
    ASSUME NEW runs \in Seq(Runs), NEW i \in 1 .. Len(runs) - 1,
           NEW e \in Runs, NEW f \in Runs, NEW new,
           IsPairReplaced(new, runs, i, e, f)
    PROVE  VisibleChars(new) =
             BeforeLeaf(runs, i) \o (RunText(e)
               \o (RunText(f) \o FromLeaf(runs, i + 2)))
<1>1. /\ new \in Seq(Runs) /\ Len(new) = Len(runs) /\ Len(runs) \in Nat
      /\ \A k \in 1 .. Len(runs) :
            new[k] = IF k = i + 1 THEN f ELSE IF k = i THEN e ELSE runs[k]
  BY LenProperties DEF IsPairReplaced
<1>2. /\ i \in 1 .. Len(new) /\ i + 1 \in 1 .. Len(new) /\ i # i + 1
      /\ i \in 1 .. Len(new) + 1 /\ (i + 1) + 1 = i + 2
  BY <1>1
<1>3. new[i] = e /\ new[i + 1] = f
  BY <1>1, <1>2
<1>4. SubSeq(new, 1, i - 1) = SubSeq(runs, 1, i - 1)
  <2>1. /\ 1 \in 1 .. Len(new) + 1 /\ i - 1 \in 0 .. Len(new)
        /\ \A k \in 1 .. i - 1 : new[k] = runs[k]
    BY <1>1
  <2>2. QED
    BY <2>1, <1>1, SameSubSeq
<1>5. SubSeq(new, i + 2, Len(new)) = SubSeq(runs, i + 2, Len(runs))
  <2>1. /\ i + 2 \in 1 .. Len(new) + 1 /\ Len(new) \in 0 .. Len(new)
        /\ \A k \in i + 2 .. Len(new) : new[k] = runs[k]
    BY <1>1
  <2>2. SubSeq(new, i + 2, Len(new)) = SubSeq(runs, i + 2, Len(new))
    BY <2>1, <1>1, SameSubSeq
  <2>3. QED
    BY <2>2, <1>1
<1>6. /\ BeforeLeaf(new, i) = BeforeLeaf(runs, i)
      /\ FromLeaf(new, i + 2) = FromLeaf(runs, i + 2)
  BY <1>4, <1>5 DEF BeforeLeaf, FromLeaf
<1>7. VisibleChars(new) = BeforeLeaf(new, i) \o FromLeaf(new, i)
  BY <1>1, <1>2, TextAroundLeaf DEF IsTextAround
<1>8. FromLeaf(new, i) = RunText(e) \o FromLeaf(new, i + 1)
  BY <1>1, <1>2, <1>3, TextFromLeaf
<1>9. FromLeaf(new, i + 1) = RunText(f) \o FromLeaf(new, i + 2)
  BY <1>1, <1>2, <1>3, TextFromLeaf
<1>10. QED
  BY <1>6, <1>7, <1>8, <1>9

LEMMA TextOfRangeDeletedInLeaf ==
    ASSUME NEW runs \in Seq(Runs), NEW i \in 1 .. Len(runs),
           NEW from \in Nat, NEW to \in Nat, from < to, to <= RunLen(runs[i])
    PROVE  VisibleChars(DeleteRangeInLeaf(runs, i, from, to)) =
             TextWithout(runs, i, from, to)
<1>1. PICK new, run : new = DeleteRangeInLeaf(runs, i, from, to)
                      /\ run = runs[i]
  OBVIOUS
<1>2. /\ Len(runs) \in Nat /\ run \in Runs /\ RunLen(run) \in Nat
      /\ run.start \in Nat /\ run.end = run.start + RunLen(run)
      /\ to <= RunLen(run) /\ i \in 1 .. Len(runs) + 1
      /\ i + 1 \in 1 .. Len(runs) + 1
  <2>1. run \in Runs
    BY <1>1, ElementOfSeq
  <2>2. QED
    BY <1>1, <2>1, LenProperties, RunLength
<1>3. PICK A, x, z, B : /\ A = BeforeLeaf(runs, i)
                        /\ x = LeftOfRange(runs, i, from)
                        /\ z = RightOfRange(runs, i, to)
                        /\ B = FromLeaf(runs, i + 1)
  OBVIOUS
<1>4. /\ A \in Seq(Characters) /\ B \in Seq(Characters)
      /\ x \in Seq(Characters) /\ z \in Seq(Characters)
  <2>1. A \in Seq(Characters) /\ B \in Seq(Characters)
    BY <1>2, <1>3, TextAroundLeaf DEF IsTextAround
  <2>2. x \in Seq(Characters)
    BY <1>1, <1>2, <1>3, TextOfSubRun DEF LeftOfRange
  <2>3. z \in Seq(Characters)
    BY <1>1, <1>2, <1>3, TextOfSubRun DEF RightOfRange
  <2>4. QED
    BY <2>1, <2>2, <2>3
<1>5. TextWithout(runs, i, from, to) = A \o x \o (z \o B)
  BY <1>3 DEF TextWithout
<1>6. CASE JoinsPrevious(runs, i, from, to)
  <2>1. from = 0 /\ to < RunLen(run) /\ i > 1 /\ 0 < to
    BY <1>1, <1>6 DEF JoinsPrevious
  <2>2. CanAppend(runs[i - 1], SubRun(Tombstone(run), 0, to))
    BY <2>1, <1>1, <1>2, <1>6, TombstoneAtStart DEF JoinsPrevious
  <2>3. new = WithPrevious(runs, i, to)
    BY <1>1, <1>6 DEF DeleteRangeInLeaf, WithPrevious
  <2>4. runs[i - 1].del /\ IsPairMoved(new, runs, i - 1, run.start + to)
    BY <2>1, <2>2, <2>3, <1>1, WithPreviousMoves
  <2>5. PICK h : h = i - 1
    OBVIOUS
  <2>6. h + 1 = i /\ h \in 1 .. Len(runs) - 1 /\ h \in 1 .. Len(runs)
        /\ h + 2 = i + 1
    BY <2>1, <2>5, <1>2
  <2>7. PICK e, f : /\ IsBoundaryMoved(runs[h], runs[h + 1], e, f, run.start + to)
                    /\ IsPairReplaced(new, runs, h, e, f)
    BY <2>4, <2>5 DEF IsPairMoved
  <2>8. /\ e \in Runs /\ f \in Runs /\ e.del = runs[h].del
        /\ f.id = run.id /\ f.start = run.start + to /\ f.end = run.end
        /\ f.del = run.del
    BY <2>6, <2>7, <1>1 DEF IsBoundaryMoved
  <2>9. VisibleChars(new) =
          BeforeLeaf(runs, h) \o (RunText(e) \o (RunText(f) \o B))
    <3>1. IsPairReplaced(new, runs, h, e, f)
      BY <2>7
    <3>2. VisibleChars(new) =
            BeforeLeaf(runs, h) \o (RunText(e)
              \o (RunText(f) \o FromLeaf(runs, h + 2)))
      BY <2>6, <2>8, <3>1, TextOfPair
    <3>3. B = FromLeaf(runs, h + 2)
      BY <2>6, <1>3
    <3>4. QED
      BY <3>2, <3>3
  <2>10. RunText(e) = <<>> /\ RunText(runs[h]) = <<>>
    <3>1. runs[h].del
      BY <2>4, <2>5, Zenon
    <3>2. e.del
      BY <2>8, <3>1
    <3>3. QED
      BY <3>1, <3>2, TombstoneText, Zenon
  <2>11. RunText(f) = z
    <3>1. PICK part : part = SubRun(run, to, RunLen(run))
      OBVIOUS
    <3>2. /\ part.id = run.id /\ part.del = run.del
          /\ part.start = run.start + to /\ part.end = run.end
      BY <3>1, <1>2 DEF SubRun, Runs, RunType
    <3>3. RunText(f) = RunText(part)
      BY <3>2, <2>8, SameRunText
    <3>4. QED
      BY <3>1, <3>3, <1>1, <1>3 DEF RightOfRange
  <2>12. x = <<>>
    <3>1. SubRun(run, 0, from).del = run.del
      BY <1>2 DEF SubRun, Runs, RunType
    <3>2. Len(x) = 0
      BY <2>1, <1>1, <1>2, <1>3, TextOfSubRun DEF LeftOfRange
    <3>3. QED
      BY <3>2, <1>4, EmptySeq
  <2>13. BeforeLeaf(runs, h) \in Seq(Characters)
         /\ A = BeforeLeaf(runs, h) \o RunText(runs[h])
    <3>1. h \in 1 .. Len(runs) + 1
      BY <2>6, <1>2
    <3>2. BeforeLeaf(runs, h) \in Seq(Characters)
      BY <3>1, TextAroundLeaf DEF IsTextAround
    <3>3. BeforeLeaf(runs, h + 1) = BeforeLeaf(runs, h) \o RunText(runs[h])
      BY <2>6, TextFromLeaf
    <3>4. QED
      BY <3>2, <3>3, <2>6, <1>3
  <2>14. A = BeforeLeaf(runs, h)
    BY <2>10, <2>13, ConcatEmptySeq
  <2>15. z \o B \in Seq(Characters)
    BY <1>4, ConcatProperties
  <2>16. VisibleChars(new) = A \o (<<>> \o (z \o B))
    BY <2>9, <2>10, <2>11, <2>14
  <2>17. A \o x = A /\ <<>> \o (z \o B) = z \o B
    BY <2>12, <2>15, <1>4, ConcatEmptySeq
  <2>18. QED
    BY <2>16, <2>17, <1>1, <1>5
<1>7. CASE ~JoinsPrevious(runs, i, from, to) /\ JoinsNext(runs, i, from, to)
  <2>1. /\ to = RunLen(run) /\ i < Len(runs) /\ 0 < from
        /\ from < RunLen(run) /\ i \in 1 .. Len(runs) - 1
        /\ i + 1 \in 1 .. Len(runs) /\ (i + 1) + 1 = i + 2
        /\ (i + 1) + 1 \in 1 .. Len(runs) + 1
    BY <1>1, <1>2, <1>7 DEF JoinsNext
  <2>2. CanPrepend(runs[i + 1], SubRun(Tombstone(run), from, RunLen(run)))
    BY <2>1, <1>1, <1>2, <1>7, TombstoneAtEnd DEF JoinsNext
  <2>3. new = WithNext(runs, i, from)
    BY <1>1, <1>7 DEF DeleteRangeInLeaf, WithNext
  <2>4. runs[i + 1].del /\ IsPairMoved(new, runs, i, run.start + from)
    BY <2>1, <2>2, <2>3, <1>1, WithNextMoves
  <2>5. PICK e, f : /\ IsBoundaryMoved(run, runs[i + 1], e, f, run.start + from)
                    /\ IsPairReplaced(new, runs, i, e, f)
    BY <2>4, <1>1 DEF IsPairMoved
  <2>6. /\ e \in Runs /\ f \in Runs /\ f.del = runs[i + 1].del
        /\ e.id = run.id /\ e.start = run.start /\ e.end = run.start + from
        /\ e.del = run.del
    BY <2>5 DEF IsBoundaryMoved
  <2>7. VisibleChars(new) =
          A \o (RunText(e) \o (RunText(f) \o FromLeaf(runs, i + 2)))
    BY <2>1, <2>5, <2>6, <1>3, TextOfPair
  <2>8. RunText(f) = <<>> /\ RunText(runs[i + 1]) = <<>>
    BY <2>4, <2>6, TombstoneText
  <2>9. RunText(e) = x
    <3>1. PICK part : part = SubRun(run, 0, from)
      OBVIOUS
    <3>2. /\ part.id = run.id /\ part.del = run.del
          /\ part.start = run.start /\ part.end = run.start + from
      <4>1. run.start + 0 = run.start
        BY <1>2
      <4>2. QED
        BY <3>1, <4>1, <1>2 DEF SubRun, Runs, RunType
    <3>3. RunText(e) = RunText(part)
      BY <3>2, <2>6, SameRunText
    <3>4. QED
      BY <3>1, <3>3, <1>1, <1>3 DEF LeftOfRange
  <2>10. z = <<>>
    <3>1. Len(z) = 0
      BY <2>1, <1>1, <1>2, <1>3, TextOfSubRun DEF RightOfRange
    <3>2. QED
      BY <3>1, <1>4, EmptySeq
  <2>11. B = RunText(runs[i + 1]) \o FromLeaf(runs, i + 2)
    BY <2>1, <1>3, TextFromLeaf
  <2>12. VisibleChars(new) = A \o (x \o B)
    BY <2>7, <2>8, <2>9, <2>11
  <2>13. z \o B = B
    BY <2>10, <1>4, ConcatEmptySeq
  <2>14. Associate(A, x, B)
    BY <1>4, AllAssociate
  <2>15. QED
    BY <2>12, <2>13, <2>14, <1>1, <1>5 DEF Associate
<1>8. CASE ~JoinsPrevious(runs, i, from, to) /\ ~JoinsNext(runs, i, from, to)
  <2>1. new = Splice(runs, i, DeleteRange(run, from, to))
    BY <1>1, <1>8 DEF DeleteRangeInLeaf
  <2>2. /\ DeleteRange(run, from, to) \in Seq(Runs)
        /\ VisibleChars(DeleteRange(run, from, to)) = x \o z
    BY <1>1, <1>2, <1>3, TextOfDeletedRange DEF LeftOfRange, RightOfRange
  <2>3. VisibleChars(new) = A \o (x \o z) \o B
    BY <2>1, <2>2, <1>3, TextOfSplice
  <2>4. Associate(A, x, z)
    BY <1>4, AllAssociate
  <2>5. A \o x \in Seq(Characters)
    BY <1>4, ConcatProperties
  <2>6. Associate(A \o x, z, B)
    BY <2>5, <1>4, AllAssociate
  <2>7. QED
    BY <2>3, <2>4, <2>6, <1>1, <1>5 DEF Associate
<1>9. QED
  BY <1>6, <1>7, <1>8

------------------------------------------------------------------------------
(* The text around a position in a leaf.                                   *)
OffsetInLeaf(runs, i, at) ==
    OffsetOfLeaf(runs, i) + VisibleLen(SubRun(runs[i], 0, at))

IsTextAroundOffset(runs, i, at) ==
    LET offset == OffsetInLeaf(runs, i, at)
        text == VisibleChars(runs)
        front == BeforeLeaf(runs, i) \o LeftOfRange(runs, i, at)
        rest == RightOfRange(runs, i, at) \o FromLeaf(runs, i + 1)
    IN  /\ text \in Seq(Characters) /\ front \in Seq(Characters)
        /\ rest \in Seq(Characters)
        /\ BeforeLeaf(runs, i) \in Seq(Characters)
        /\ LeftOfRange(runs, i, at) \in Seq(Characters)
        /\ RightOfRange(runs, i, at) \in Seq(Characters)
        /\ FromLeaf(runs, i + 1) \in Seq(Characters)
        /\ offset \in 0 .. Len(text)
        /\ text = front \o rest
        /\ UpTo(text, offset) = front /\ TextAfter(text, offset) = rest

LEMMA TextAroundOffset ==
    ASSUME NEW runs \in Seq(Runs), NEW i \in 1 .. Len(runs),
           NEW at \in 0 .. RunLen(runs[i])
    PROVE  IsTextAroundOffset(runs, i, at)
<1>1. PICK run, A, x, z, B, V : /\ run = runs[i]
                                /\ A = BeforeLeaf(runs, i)
                                /\ x = LeftOfRange(runs, i, at)
                                /\ z = RightOfRange(runs, i, at)
                                /\ B = FromLeaf(runs, i + 1)
                                /\ V = VisibleChars(runs)
  OBVIOUS
<1>2. /\ Len(runs) \in Nat /\ run \in Runs /\ RunLen(run) \in Nat
      /\ i \in 1 .. Len(runs) + 1 /\ at \in Nat /\ at <= RunLen(run)
  <2>1. run \in Runs
    BY <1>1, ElementOfSeq
  <2>2. RunLen(run) \in Nat
    BY <2>1, RunLength
  <2>3. QED
    BY <1>1, <2>1, <2>2, LenProperties
<1>3. /\ A \in Seq(Characters) /\ Len(A) = OffsetOfLeaf(runs, i)
      /\ V = A \o FromLeaf(runs, i)
  BY <1>1, <1>2, TextAroundLeaf DEF IsTextAround
<1>4. /\ B \in Seq(Characters) /\ FromLeaf(runs, i) = RunText(run) \o B
  BY <1>1, TextFromLeaf
<1>5. x = RunText(SubRun(run, 0, at)) /\ z = RunText(SubRun(run, at, RunLen(run)))
  BY <1>1 DEF LeftOfRange, RightOfRange
<1>6. /\ x \in Seq(Characters) /\ z \in Seq(Characters)
      /\ Len(x) = IF run.del THEN 0 ELSE at - 0
  BY <1>2, <1>5, TextOfSubRun
<1>7. VisibleLen(SubRun(run, 0, at)) = Len(x)
  <2>1. PICK part : part = SubRun(run, 0, at)
    OBVIOUS
  <2>2. /\ part.del = run.del /\ part.start = run.start + 0
        /\ part.end = run.start + at /\ run.start \in Nat
    BY <2>1, <1>2, RunLength DEF SubRun, Runs, RunType
  <2>3. CASE run.del
    BY <2>1, <2>2, <2>3, <1>6 DEF VisibleLen
  <2>4. CASE ~run.del
    <3>1. RunLen(part) = at
      BY <2>2, <1>2 DEF RunLen
    <3>2. QED
      BY <2>1, <2>2, <2>4, <3>1, <1>2, <1>6 DEF VisibleLen
  <2>5. QED
    BY <2>3, <2>4
<1>8. x \o z = RunText(run)
  <2>1. x \o z = RunText(SubRun(run, 0, RunLen(run)))
    <3>1. 0 \in Nat /\ 0 <= at /\ at <= RunLen(run) /\ RunLen(run) \in Nat
          /\ RunLen(run) <= RunLen(run)
      BY <1>2
    <3>2. QED
      BY <3>1, <1>2, <1>5, TextOfSubRuns
  <2>2. QED
    BY <2>1, <1>2, TextOfWholeRun
<1>9. V = (A \o x) \o (z \o B)
  <2>1. A \o x \in Seq(Characters) /\ x \o z \in Seq(Characters)
    BY <1>3, <1>6, ConcatProperties
  <2>2. Associate(x, z, B) /\ Associate(A, x, z \o B)
    <3>1. z \o B \in Seq(Characters)
      BY <1>4, <1>6, ConcatProperties
    <3>2. QED
      BY <3>1, <1>3, <1>4, <1>6, AllAssociate
  <2>3. V = A \o ((x \o z) \o B)
    BY <1>3, <1>4, <1>8
  <2>4. QED
    BY <2>2, <2>3, Zenon DEF Associate
<1>10. PICK front, rest : front = A \o x /\ rest = z \o B
  OBVIOUS
<1>11. /\ front \in Seq(Characters) /\ rest \in Seq(Characters)
       /\ Len(front) = Len(A) + Len(x)
  BY <1>3, <1>4, <1>6, <1>10, ConcatProperties
<1>12. V = front \o rest
  BY <1>9, <1>10
<1>13. /\ UpTo(V, Len(front)) = front /\ TextAfter(V, Len(front)) = rest
       /\ V \in Seq(Characters) /\ Len(front) \in 0 .. Len(V)
  BY <1>11, <1>12, ConcatIsCut
<1>14. OffsetInLeaf(runs, i, at) = Len(front)
  BY <1>1, <1>3, <1>7, <1>11 DEF OffsetInLeaf
<1>15. QED
  BY <1>1, <1>3, <1>4, <1>6, <1>10, <1>11, <1>12, <1>13, <1>14
     DEF IsTextAroundOffset

LEMMA OffsetInVisibleLeaf ==
    ASSUME NEW runs \in Seq(Runs), NEW i \in 1 .. Len(runs), ~runs[i].del,
           NEW at \in 0 .. RunLen(runs[i])
    PROVE  OffsetInLeaf(runs, i, at) = OffsetOfLeaf(runs, i) + at
<1>1. PICK run, part : run = runs[i] /\ part = SubRun(runs[i], 0, at)
  OBVIOUS
<1>2. run \in Runs
  BY <1>1, ElementOfSeq
<1>3. /\ run.start \in Nat /\ RunLen(run) \in Nat /\ at \in Nat
      /\ part.start = run.start + 0 /\ part.end = run.start + at
      /\ part.del = run.del
  <2>1. run.start \in Nat /\ RunLen(run) \in Nat /\ run \in RunType
    BY <1>2, RunLength
  <2>2. at \in Nat
    BY <1>1, <2>1
  <2>3. QED
    BY <2>1, <2>2, <1>1 DEF SubRun, RunType
<1>4. VisibleLen(part) = at
  BY <1>1, <1>3 DEF VisibleLen, RunLen
<1>5. QED
  BY <1>1, <1>4 DEF OffsetInLeaf

LEMMA TextWithoutRange ==
    ASSUME NEW runs \in Seq(Runs), NEW i \in 1 .. Len(runs),
           NEW from \in Nat, NEW to \in Nat, from < to, to <= RunLen(runs[i])
    PROVE  TextWithout(runs, i, from, to) =
             UpTo(VisibleChars(runs), OffsetInLeaf(runs, i, from))
               \o TextAfter(VisibleChars(runs), OffsetInLeaf(runs, i, to))
<1>1. RunLen(runs[i]) \in Nat
  <2>1. runs[i] \in Runs
    BY ElementOfSeq
  <2>2. QED
    BY <2>1, RunLength
<1>2. from \in 0 .. RunLen(runs[i]) /\ to \in 0 .. RunLen(runs[i])
  BY <1>1
<1>3. UpTo(VisibleChars(runs), OffsetInLeaf(runs, i, from)) =
        BeforeLeaf(runs, i) \o LeftOfRange(runs, i, from)
  BY <1>2, TextAroundOffset DEF IsTextAroundOffset
<1>4. TextAfter(VisibleChars(runs), OffsetInLeaf(runs, i, to)) =
        RightOfRange(runs, i, to) \o FromLeaf(runs, i + 1)
  BY <1>2, TextAroundOffset DEF IsTextAroundOffset
<1>5. QED
  BY <1>3, <1>4 DEF TextWithout

LEMMA RemoveRangeCuts ==
    ASSUME NEW text, NEW start, NEW end
    PROVE  RemoveRange(text, [start |-> start, end |-> end]) =
             UpTo(text, start) \o TextAfter(text, end)
BY DEF RemoveRange, UpTo, TextAfter

LEMMA InsertTextCuts ==
    ASSUME NEW text, NEW offset, NEW new
    PROVE  InsertText(text, offset, new) =
             UpTo(text, offset) \o new \o TextAfter(text, offset)
BY DEF InsertText, UpTo, TextAfter

------------------------------------------------------------------------------
(* Insertions.                                                             *)

(* A run is put inside a leaf.                                             *)
LEMMA TextOfLeafSplitAround ==
    ASSUME NEW runs \in Seq(Runs), NEW i \in 1 .. Len(runs), NEW run \in Runs,
           NEW at \in 1 .. RunLen(runs[i])
    PROVE  VisibleChars(Splice(runs, i, InsertAt(SplitRun(runs[i], at), 2, run)))
             = InsertText(VisibleChars(runs), OffsetInLeaf(runs, i, at),
                          RunText(run))
<1>1. PICK leaf, pieces, A, x, z, B :
         /\ leaf = runs[i] /\ pieces = SplitRun(leaf, at)
         /\ A = BeforeLeaf(runs, i) /\ B = FromLeaf(runs, i + 1)
         /\ x = LeftOfRange(runs, i, at) /\ z = RightOfRange(runs, i, at)
  OBVIOUS
<1>2. PICK new : new = RunText(run)
  OBVIOUS
<1>3. /\ leaf \in Runs /\ RunLen(leaf) \in Nat /\ at \in Nat /\ 0 < at
      /\ at <= RunLen(leaf) /\ at \in 0 .. RunLen(runs[i])
  <2>1. leaf \in Runs
    BY <1>1, ElementOfSeq
  <2>2. RunLen(leaf) \in Nat
    BY <2>1, RunLength
  <2>3. QED
    BY <1>1, <2>1, <2>2
<1>4. PICK left, right : left = SubRun(leaf, 0, at)
                         /\ right = Part(leaf, at, RunLen(leaf))
  OBVIOUS
<1>5. /\ left \in Runs /\ right \in Seq(Runs)
      /\ RunText(left) = x /\ VisibleChars(right) = z
  <2>1. left \in Runs
    BY <1>3, <1>4, MarksOfSubRun
  <2>2. right \in Seq(Runs)
    BY <1>3, <1>4, PartIsRuns
  <2>3. RunText(left) = x
    BY <1>1, <1>4 DEF LeftOfRange
  <2>4. VisibleChars(right) = z
    BY <1>1, <1>3, <1>4, TextOfSubRun DEF RightOfRange
  <2>5. QED
    BY <2>1, <2>2, <2>3, <2>4
<1>6. pieces = <<left>> \o right
  BY <1>1, <1>3, <1>4 DEF SplitRun, Part
<1>7. InsertAt(pieces, 2, run) = <<left>> \o <<run>> \o right
  <2>1. <<left>> \in Seq(Runs) /\ Len(<<left>>) = 1
    BY <1>5
  <2>2. PICK one : one = <<left>>
    OBVIOUS
  <2>3. /\ UpTo(one \o right, Len(one)) = one
        /\ TextAfter(one \o right, Len(one)) = right
    BY <2>1, <2>2, <1>5, ConcatIsCut
  <2>4. SubSeq(pieces, 1, 1) = one /\ SubSeq(pieces, 1 + 1, Len(pieces)) = right
    BY <2>1, <2>2, <2>3, <1>6 DEF UpTo, TextAfter
  <2>5. InsertAt(pieces, 2, run) =
          SubSeq(pieces, 1, 2 - 1) \o <<run>> \o SubSeq(pieces, 2, Len(pieces))
    BY DEF InsertAt
  <2>6. 2 - 1 = 1 /\ 1 + 1 = 2
    OBVIOUS
  <2>7. QED
    BY <2>2, <2>4, <2>5, <2>6
<1>8. PICK Q : Q = InsertAt(pieces, 2, run)
  OBVIOUS
<1>9. Q \in Seq(Runs) /\ VisibleChars(Q) = (x \o new) \o z
  <2>1. PICK a, b : a = <<left>> /\ b = <<run>>
    OBVIOUS
  <2>2. /\ a \in Seq(Runs) /\ b \in Seq(Runs)
        /\ VisibleChars(a) = x /\ VisibleChars(b) = new
    BY <2>1, <1>2, <1>5, TextOfOne
  <2>3. a \o b \in Seq(Runs) /\ VisibleChars(a \o b) = x \o new
    BY <2>2, TextOfConcat, ConcatProperties
  <2>4. PICK ab : ab = a \o b
    OBVIOUS
  <2>5. ab \o right \in Seq(Runs)
        /\ VisibleChars(ab \o right) = VisibleChars(ab) \o VisibleChars(right)
    BY <2>3, <2>4, <1>5, TextOfConcat, ConcatProperties
  <2>6. Q = ab \o right
    BY <2>1, <2>4, <1>7, <1>8
  <2>7. QED
    BY <2>3, <2>4, <2>5, <2>6, <1>5
<1>10. VisibleChars(Splice(runs, i, Q)) = A \o ((x \o new) \o z) \o B
  BY <1>1, <1>9, TextOfSplice
<1>11. /\ A \in Seq(Characters) /\ B \in Seq(Characters)
       /\ x \in Seq(Characters) /\ z \in Seq(Characters)
       /\ UpTo(VisibleChars(runs), OffsetInLeaf(runs, i, at)) = A \o x
       /\ TextAfter(VisibleChars(runs), OffsetInLeaf(runs, i, at)) = z \o B
  BY <1>1, <1>3, TextAroundOffset DEF IsTextAroundOffset
<1>12. new \in Seq(Characters)
  BY <1>2, TextOfLeaf
<1>13. A \o ((x \o new) \o z) \o B = (A \o x \o new) \o (z \o B)
  <2>1. FiveAssociate(A, x, new, z, B)
    BY <1>11, <1>12, AllFiveAssociate
  <2>2. QED
    BY <2>1, Zenon DEF FiveAssociate
<1>14. InsertText(VisibleChars(runs), OffsetInLeaf(runs, i, at), new) =
         (A \o x) \o new \o (z \o B)
  BY <1>11, InsertTextCuts
<1>15. QED
  BY <1>1, <1>2, <1>8, <1>10, <1>13, <1>14

(* A visible leaf is continued.                                            *)
LEMMA TextOfLeafExtended ==
    ASSUME NEW runs \in Seq(Runs), NEW i \in 1 .. Len(runs), ~runs[i].del,
           NEW run \in Runs, ~run.del, run.id = runs[i].id,
           run.start = runs[i].end, run.start < run.end
    PROVE  VisibleChars([runs EXCEPT ![i].end = run.end]) =
             InsertText(VisibleChars(runs),
                        OffsetOfLeaf(runs, i) + RunLen(runs[i]), RunText(run))
<1>1. PICK leaf, len, A, B :
         /\ leaf = runs[i] /\ len = RunLen(leaf)
         /\ A = BeforeLeaf(runs, i) /\ B = FromLeaf(runs, i + 1)
  OBVIOUS
<1>2. PICK e : e = [leaf EXCEPT !.end = run.end]
  OBVIOUS
<1>3. /\ leaf \in Runs /\ len \in Nat /\ leaf.end = leaf.start + len
      /\ leaf.start \in Nat /\ leaf \in RunType /\ run \in RunType
      /\ DOMAIN runs = 1 .. Len(runs) /\ len \in 0 .. RunLen(runs[i])
      /\ run.end = run.start + RunLen(run) /\ RunLen(run) \in Nat
      /\ 0 < RunLen(run)
  <2>1. leaf \in Runs
    BY <1>1, ElementOfSeq
  <2>2. /\ leaf \in RunType /\ RunLen(leaf) \in Nat /\ leaf.start \in Nat
        /\ leaf.end = leaf.start + RunLen(leaf)
    BY <2>1, RunLength
  <2>3. /\ run \in RunType /\ RunLen(run) \in Nat /\ run.start \in Nat
        /\ run.end = run.start + RunLen(run)
    BY RunLength
  <2>4. QED
    BY <1>1, <2>1, <2>2, <2>3, LenProperties
<1>4. /\ e.id = leaf.id /\ e.start = leaf.start /\ e.end = run.end
      /\ e.ts = leaf.ts /\ e.lam = leaf.lam /\ e.del = leaf.del
      /\ e \in RunType
  BY <1>2, <1>3 DEF RunType
<1>5. PICK n : n = RunLen(e)
  OBVIOUS
<1>6. /\ e \in Runs /\ n = len + RunLen(run) /\ e.start < e.end
  <2>1. e.start < e.end
    BY <1>1, <1>3, <1>4
  <2>2. n = len + RunLen(run)
    BY <1>1, <1>3, <1>4, <1>5 DEF RunLen
  <2>3. QED
    BY <2>1, <2>2, <1>4 DEF Runs
<1>7. RunText(e) = RunText(leaf) \o RunText(run)
  <2>1. RunText(SubRun(e, 0, n)) = RunText(e)
    BY <1>5, <1>6, TextOfWholeRun
  <2>2. RunText(SubRun(e, 0, len)) \o RunText(SubRun(e, len, n)) =
          RunText(SubRun(e, 0, n))
    <3>1. 0 \in Nat /\ len \in Nat /\ n \in Nat /\ 0 <= len /\ len <= n
          /\ n <= RunLen(e)
      BY <1>3, <1>5, <1>6
    <3>2. QED
      BY <3>1, <1>6, TextOfSubRuns
  <2>3. RunText(SubRun(e, 0, len)) = RunText(leaf)
    <3>1. PICK part : part = SubRun(e, 0, len)
      OBVIOUS
    <3>2. /\ part.id = leaf.id /\ part.del = leaf.del
          /\ part.start = leaf.start + 0 /\ part.end = leaf.start + len
      BY <3>1, <1>4 DEF SubRun, RunType
    <3>3. part.start = leaf.start /\ part.end = leaf.end
      BY <3>2, <1>3
    <3>4. QED
      BY <3>1, <3>2, <3>3, SameRunText
  <2>4. RunText(SubRun(e, len, n)) = RunText(run)
    <3>1. PICK part : part = SubRun(e, len, n)
      OBVIOUS
    <3>2. /\ part.id = leaf.id /\ part.del = leaf.del
          /\ part.start = leaf.start + len /\ part.end = leaf.start + n
      BY <3>1, <1>4 DEF SubRun, RunType
    <3>3. part.start = run.start /\ part.end = run.end
      BY <3>2, <1>1, <1>3, <1>6
    <3>4. part.id = run.id /\ part.del = run.del
      <4>1. ~part.del
        BY <3>2, <1>1
      <4>2. part.del \in BOOLEAN /\ run.del \in BOOLEAN
        BY <3>2, <1>3 DEF RunType
      <4>3. QED
        BY <4>1, <4>2, <3>2, <1>1
    <3>5. QED
      BY <3>1, <3>3, <3>4, SameRunText
  <2>5. QED
    BY <2>1, <2>2, <2>3, <2>4
<1>8. [runs EXCEPT ![i].end = run.end] = Splice(runs, i, <<e>>)
  <2>1. [runs EXCEPT ![i].end = run.end] = [runs EXCEPT ![i] = e]
    BY <1>1, <1>2, <1>3
  <2>2. [runs EXCEPT ![i] = e] = Splice(runs, i, <<e>>)
    BY <1>6, ExceptIsSplice
  <2>3. QED
    BY <2>1, <2>2
<1>9. VisibleChars(Splice(runs, i, <<e>>)) = A \o RunText(e) \o B
  <2>1. PICK one : one = <<e>>
    OBVIOUS
  <2>2. one \in Seq(Runs) /\ VisibleChars(one) = RunText(e)
    BY <2>1, <1>6, TextOfOne
  <2>3. VisibleChars(Splice(runs, i, one)) = A \o RunText(e) \o B
    BY <2>2, <1>1, TextOfSplice
  <2>4. QED
    BY <2>1, <2>3
<1>10. PICK x, z : x = LeftOfRange(runs, i, len) /\ z = RightOfRange(runs, i, len)
  OBVIOUS
<1>11. x = RunText(leaf)
  BY <1>1, <1>3, <1>10, TextOfWholeRun DEF LeftOfRange
<1>12. /\ A \in Seq(Characters) /\ B \in Seq(Characters)
       /\ x \in Seq(Characters) /\ z \in Seq(Characters)
       /\ UpTo(VisibleChars(runs), OffsetInLeaf(runs, i, len)) = A \o x
       /\ TextAfter(VisibleChars(runs), OffsetInLeaf(runs, i, len)) = z \o B
  BY <1>1, <1>3, <1>10, TextAroundOffset DEF IsTextAroundOffset
<1>13. z = <<>>
  <2>1. z = RunText(SubRun(leaf, len, len)) /\ len <= RunLen(leaf)
    BY <1>1, <1>3, <1>10 DEF RightOfRange
  <2>2. Len(RunText(SubRun(leaf, len, len))) = IF leaf.del THEN 0 ELSE len - len
    <3>1. leaf \in Runs /\ len \in Nat /\ len <= len /\ len <= RunLen(leaf)
      BY <2>1, <1>3
    <3>2. QED
      BY <3>1, TextOfSubRun
  <2>3. Len(z) = 0
    BY <2>1, <2>2, <1>3
  <2>4. QED
    BY <2>3, <1>12, EmptySeq
<1>14. z \o B = B
  BY <1>12, <1>13, ConcatEmptySeq
<1>15. PICK new : new = RunText(run)
  OBVIOUS
<1>16. new \in Seq(Characters)
  BY <1>15, TextOfLeaf
<1>17. InsertText(VisibleChars(runs), OffsetInLeaf(runs, i, len), new) =
         (A \o x) \o new \o B
  BY <1>12, <1>14, InsertTextCuts
<1>18. Associate(A, x, new)
  BY <1>12, <1>16, AllAssociate
<1>19. OffsetInLeaf(runs, i, len) = OffsetOfLeaf(runs, i) + RunLen(runs[i])
  BY <1>1, <1>3, OffsetInVisibleLeaf
<1>20. A \o (x \o new) \o B = (A \o x) \o new \o B
  BY <1>18, Zenon DEF Associate
<1>21. QED
  BY <1>7, <1>8, <1>9, <1>11, <1>15, <1>17, <1>19, <1>20

(* The text of an edit is that of the run it is put into the document as.  *)
LEMMA TextOfNewRun ==
    ASSUME NEW m, NEW ts, NEW lam
    PROVE  RunText(EditRunRecord(m.by, m.start, m.end, ts, lam)) = TextOf(m)
BY DEF RunText, RunChars, RunLen, EditRunRecord, TextOf

LEMMA InsertedText ==
    ASSUME NEW runs \in Seq(Runs), NEW offset \in Nat,
           offset <= DocumentLen(runs),
           NEW text, text.id \in ReplicaIds, text.start \in Nat,
           text.end \in Nat, text.start < text.end,
           NEW run_c \in Nat, NEW lam_c \in Nat,
           NEW m, m.by = text.id, m.start = text.start, m.end = text.end
    PROVE  VisibleChars(Insert(runs, offset, text, run_c, lam_c).runs) =
             InsertText(VisibleChars(runs), offset, TextOf(m))
<1>1. PICK result : result = Insert(runs, offset, text, run_c, lam_c)
  OBVIOUS
<1>2. PICK new : new = EditRunRecord(text.id, text.start, text.end, run_c, lam_c)
  OBVIOUS
<1>3. /\ new \in Runs /\ new.id = text.id /\ new.start = text.start
      /\ new.end = text.end /\ ~new.del /\ new.start < new.end
  <2>1. LET run == EditRunRecord(text.id, text.start, text.end, run_c, lam_c)
        IN  /\ run \in Runs /\ run.id = text.id /\ run.start = text.start
            /\ run.end = text.end /\ run.ts = run_c /\ run.lam = lam_c
            /\ ~run.del
    BY NewRun, ZenonT(40)
  <2>2. QED
    BY <1>2, <2>1
<1>4. RunText(new) = TextOf(m)
  BY <1>2, TextOfNewRun
<1>5. PICK V : V = VisibleChars(runs)
  OBVIOUS
<1>6. V \in Seq(Characters) /\ Len(V) = DocumentLen(runs)
  BY <1>5, TextLength
<1>7. CASE offset = 0
  <2>1. result.runs = <<new>> \o runs
    BY <1>1, <1>2, <1>7 DEF Insert
  <2>2. PICK one : one = <<new>>
    OBVIOUS
  <2>3. one \in Seq(Runs) /\ VisibleChars(one) = RunText(new)
    BY <2>2, <1>3, TextOfOne
  <2>4. VisibleChars(one \o runs) = RunText(new) \o V
    BY <2>3, <1>5, TextOfConcat
  <2>5. UpTo(V, 0) = <<>> /\ TextAfter(V, 0) = V
    <3>1. <<>> \o V = V /\ Len(<<>>) = 0
      BY <1>6, ConcatEmptySeq
    <3>2. <<>> \in Seq(Characters)
      BY EmptySeq
    <3>3. UpTo(<<>> \o V, Len(<<>>)) = <<>> /\ TextAfter(<<>> \o V, Len(<<>>)) = V
      BY <3>2, <1>6, ConcatIsCut
    <3>4. QED
      BY <3>1, <3>3
  <2>6. <<>> \o RunText(new) = RunText(new)
    BY <1>3, TextOfLeaf, ConcatEmptySeq
  <2>7. InsertText(V, 0, RunText(new)) = RunText(new) \o V
    BY <2>5, <2>6, InsertTextCuts
  <2>8. QED
    BY <2>1, <2>2, <2>4, <2>7, <1>1, <1>4, <1>5, <1>7
<1>8. CASE offset # 0
  <2>1. PICK i : i = LeafAtOffset(runs, offset)
    OBVIOUS
  <2>2. PICK at, before : before = OffsetOfLeaf(runs, i) /\ at = offset - before
    OBVIOUS
  <2>3. /\ i \in 1 .. Len(runs) /\ before \in Nat /\ before < offset
        /\ offset <= before + VisibleLen(runs[i])
    BY <2>1, <2>2, <1>8, LeafAtOffsetExists
  <2>4. runs[i] \in Runs
    BY <2>3, ElementOfSeq
  <2>5. RunLen(runs[i]) \in Nat
    BY <2>4, RunLength
  <2>6. ~runs[i].del
    <3>1. SUFFICES ASSUME runs[i].del PROVE FALSE
      OBVIOUS
    <3>2. VisibleLen(runs[i]) = 0
      BY <3>1 DEF VisibleLen
    <3>3. QED
      BY <3>2, <2>3
  <2>7. VisibleLen(runs[i]) = RunLen(runs[i])
    BY <2>6 DEF VisibleLen
  <2>8. at \in 1 .. RunLen(runs[i]) /\ at \in 0 .. RunLen(runs[i])
        /\ offset = before + at
    <3>1. \A o, b, l \in Nat :
             b < o /\ o <= b + l
               => o - b \in 1 .. l /\ o - b \in 0 .. l /\ o = b + (o - b)
      OBVIOUS
    <3>2. offset <= before + RunLen(runs[i])
      BY <2>3, <2>7
    <3>3. QED
      BY <3>1, <3>2, <2>2, <2>3, <2>5
  <2>9. CASE ContinuesRun(runs[i], at, text, lam_c)
    <3>1. result.runs = [runs EXCEPT ![i].end = text.end]
      BY <1>1, <1>8, <2>1, <2>2, <2>9 DEF Insert
    <3>2. RunLen(runs[i]) = at /\ runs[i].end = text.start
          /\ runs[i].id = text.id
      BY <2>9 DEF ContinuesRun
    <3>3. VisibleChars([runs EXCEPT ![i].end = new.end]) =
            InsertText(V, before + at, RunText(new))
      BY <3>2, <2>2, <2>3, <2>6, <1>3, <1>5, TextOfLeafExtended
    <3>4. QED
      BY <3>1, <3>3, <2>8, <1>1, <1>3, <1>4, <1>5
  <2>10. CASE ~ContinuesRun(runs[i], at, text, lam_c)
    <3>1. result.runs = Splice(runs, i, InsertAt(SplitRun(runs[i], at), 2, new))
      BY <1>1, <1>2, <1>8, <2>1, <2>2, <2>10 DEF Insert
    <3>2. VisibleChars(result.runs) =
            InsertText(V, OffsetInLeaf(runs, i, at), RunText(new))
      BY <3>1, <2>3, <2>8, <1>3, <1>5, TextOfLeafSplitAround
    <3>3. OffsetInLeaf(runs, i, at) = offset
      BY <2>2, <2>3, <2>6, <2>8, OffsetInVisibleLeaf
    <3>4. QED
      BY <3>2, <3>3, <1>1, <1>4, <1>5
  <2>11. QED
    BY <2>9, <2>10
<1>9. QED
  BY <1>7, <1>8

LEMMA MergedInsertionText ==
    ASSUME NEW runs \in Seq(Runs), runs # <<>>,
           NEW m, m.by \in ReplicaIds, m.start \in Nat, m.end \in Nat,
           m.start < m.end, m.ts \in Nat, m.lam \in Nat,
           \/ m.anchor = ZeroAnchor
           \/ m.anchor.offset \in Nat /\ HasLeafAt(runs, m.anchor, "left")
    PROVE  VisibleChars(MergeInsertion(runs, m).runs) =
             InsertText(VisibleChars(runs), MergeInsertion(runs, m).offset,
                        TextOf(m))
<1>1. PICK run : run = EditRunRecord(m.by, m.start, m.end, m.ts, m.lam)
  OBVIOUS
<1>2. PICK i : i = IdxAtAnchor(runs, m.anchor, "left")
  OBVIOUS
<1>3. /\ run \in Runs /\ run.id = m.by /\ run.start = m.start
      /\ run.end = m.end /\ ~run.del /\ run.start < run.end
  BY <1>1, NewRun, SMTT(30)
<1>4. RunText(run) = TextOf(m)
  BY <1>1, TextOfNewRun
<1>5. Len(runs) \in Nat /\ Len(runs) # 0
  BY LenProperties, EmptySeq
<1> DEFINE Shows(result) ==
             VisibleChars(result.runs) =
               InsertText(VisibleChars(runs), result.offset, RunText(run))
<1>6. ASSUME NEW p \in 1 .. Len(runs) + 1 PROVE Shows(InsertRun(runs, run, p))
  <2>1. VisibleChars(InsertAt(runs, p, run)) =
          InsertText(VisibleChars(runs), OffsetOfLeaf(runs, p), RunText(run))
    BY <1>3, TextOfInsertAt
  <2>2. QED
    BY <2>1 DEF InsertRun
<1>7. CASE m.anchor = ZeroAnchor
  <2>1. MergeInsertion(runs, m) = InsertRunAtZero(runs, run)
    BY <1>1, <1>7 DEF MergeInsertion
  <2>2. PICK q : q = PositionFrom(runs, run, 2)
    OBVIOUS
  <2>3. 2 \in 1 .. Len(runs) + 1 /\ 1 \in 1 .. Len(runs) + 1
    BY <1>5
  <2>4. q \in 2 .. Len(runs) + 1
    BY <2>2, <2>3, <1>5, PositionFromExists
  <2>5. q \in 1 .. Len(runs) + 1
    BY <2>4
  <2>6. \/ InsertRunAtZero(runs, run) = InsertRun(runs, run, 1)
        \/ InsertRunAtZero(runs, run) = InsertRun(runs, run, q)
    BY <2>2 DEF InsertRunAtZero
  <2> HIDE DEF Shows
  <2>7. Shows(InsertRunAtZero(runs, run))
    BY <2>3, <2>5, <2>6, <1>6
  <2>8. QED
    BY <2>1, <2>7, <1>4 DEF Shows
<1>8. CASE m.anchor # ZeroAnchor
  <2>1. /\ i \in 1 .. Len(runs) /\ runs[i] \in Runs
        /\ runs[i].start < m.anchor.offset /\ m.anchor.offset <= runs[i].end
        /\ m.anchor.offset \in Nat
    BY <1>2, <1>8, LeafAtAnchor
  <2>2. /\ runs[i].start \in Nat /\ RunLen(runs[i]) \in Nat
        /\ runs[i].end = runs[i].start + RunLen(runs[i])
    BY <2>1, RunLength
  <2>3. CASE m.anchor.offset < runs[i].end
    <3>1. PICK at : at = m.anchor.offset - runs[i].start
      OBVIOUS
    <3>2. MergeInsertion(runs, m) = SplitRunWithAnother(runs, run, i, at)
      BY <3>1, <2>3, <1>1, <1>2, <1>8 DEF MergeInsertion
    <3>3. at \in 1 .. RunLen(runs[i])
      BY <3>1, <2>1, <2>2
    <3>4. VisibleChars(Splice(runs, i, InsertAt(SplitRun(runs[i], at), 2, run)))
            = InsertText(VisibleChars(runs), OffsetInLeaf(runs, i, at),
                         RunText(run))
      BY <3>3, <2>1, <1>3, TextOfLeafSplitAround
    <3>5. QED
      BY <3>2, <3>4, <1>4 DEF SplitRunWithAnother, OffsetInLeaf
  <2>4. CASE ~(m.anchor.offset < runs[i].end)
    <3>1. MergeInsertion(runs, m) = InsertRunAfterAnchor(runs, run, i)
      BY <2>4, <1>1, <1>2, <1>8 DEF MergeInsertion
    <3>2. PICK q : q = PositionFrom(runs, run, i + 1)
      OBVIOUS
    <3>3. i + 1 \in 1 .. Len(runs) + 1
      BY <2>1, <1>5
    <3>4. q \in i + 1 .. Len(runs) + 1
      BY <3>2, <3>3, <1>5, PositionFromExists
    <3>5. q \in 1 .. Len(runs) + 1
      BY <3>3, <3>4
    <3>6. CASE /\ i < Len(runs)
               /\ ~SortsAfter(run, runs[i + 1])
               /\ CanAppend(runs[i], run)
      <4>1. InsertRunAfterAnchor(runs, run, i) =
              [runs |-> [runs EXCEPT ![i].end = run.end],
               offset |-> OffsetOfLeaf(runs, i) + RunLen(runs[i])]
        BY <3>6 DEF InsertRunAfterAnchor
      <4>2. /\ runs[i].end = run.start /\ runs[i].id = run.id
            /\ runs[i].del = run.del
        BY <3>6 DEF CanAppend, SameRun
      <4>3. ~runs[i].del
        BY <4>2, <1>3
      <4>4. VisibleChars([runs EXCEPT ![i].end = run.end]) =
              InsertText(VisibleChars(runs),
                         OffsetOfLeaf(runs, i) + RunLen(runs[i]), RunText(run))
        BY <4>2, <4>3, <2>1, <1>3, TextOfLeafExtended
      <4>5. QED
        BY <4>1, <4>4, <3>1, <1>4
    <3>7. CASE ~(/\ i < Len(runs)
                 /\ ~SortsAfter(run, runs[i + 1])
                 /\ CanAppend(runs[i], run))
      <4>1. InsertRunAfterAnchor(runs, run, i) = InsertRun(runs, run, q)
        BY <3>2, <3>7 DEF InsertRunAfterAnchor
      <4> HIDE DEF Shows
      <4>2. Shows(InsertRunAfterAnchor(runs, run, i))
        BY <4>1, <3>5, <1>6
      <4>3. QED
        BY <4>2, <3>1, <1>4 DEF Shows
    <3>8. QED
      BY <3>6, <3>7
  <2>5. QED
    BY <2>3, <2>4
<1>9. QED
  BY <1>7, <1>8

------------------------------------------------------------------------------
(* Local deletions.                                                        *)
LEMMA TextOfTombstones ==
    ASSUME NEW runs \in Seq(Runs), \A k \in 1 .. Len(runs) : runs[k].del
    PROVE  VisibleChars(runs) = <<>>
<1>1. PICK f : IsTextOf(runs, f)
  BY TextOfLeaves
<1>2. Len(runs) \in Nat
  BY LenProperties
<1> DEFINE S == {k \in Nat : k <= Len(runs) => f[k] = <<>>}
<1>3. 0 \in S
  BY <1>1 DEF IsTextOf
<1>4. ASSUME NEW k \in S \cap Nat PROVE k + 1 \in S
  <2>1. SUFFICES ASSUME k + 1 <= Len(runs) PROVE f[k + 1] = <<>>
    OBVIOUS
  <2>2. k + 1 \in 1 .. Len(runs) /\ (k + 1) - 1 = k /\ k <= Len(runs)
    BY <1>2, <2>1
  <2>3. RunText(runs[k + 1]) = <<>>
    BY <2>2, TombstoneText
  <2>4. f[k + 1] = f[k] \o RunText(runs[k + 1])
    BY <2>2, <1>1 DEF IsTextOf
  <2>5. f[k] = <<>>
    BY <2>2
  <2>6. QED
    BY <2>3, <2>4, <2>5
<1> HIDE DEF S
<1>5. Len(runs) \in S
  BY <1>2, <1>3, <1>4, Induction
<1>6. f[Len(runs)] = <<>>
  BY <1>2, <1>5 DEF S
<1>7. QED
  BY <1>1, <1>6 DEF IsTextOf

(* The leaves between the first and the last of a range leave no text.     *)
LEMMA TextOfInnerTombstones ==
    ASSUME NEW runs \in Seq(Runs),
           NEW p \in 1 .. Len(runs), NEW q \in 1 .. Len(runs), p < q,
           NEW T, T = [k \in 1 .. q - p - 1 |-> Tombstone(runs[p + k])]
    PROVE  T \in Seq(Runs) /\ VisibleChars(T) = <<>>
<1>1. PICK n : n = q - p - 1
  OBVIOUS
<1>2. n \in Nat /\ Len(runs) \in Nat
  BY <1>1, LenProperties
<1>3. ASSUME NEW k \in 1 .. n
      PROVE  Tombstone(runs[p + k]) \in Runs /\ Tombstone(runs[p + k]).del
  <2>1. p + k \in 1 .. Len(runs)
    BY <1>1, <1>2
  <2>2. runs[p + k] \in Runs
    BY <2>1, ElementOfSeq
  <2>3. Tombstone(runs[p + k]) \in Runs
    BY <2>2, TombstoneOfRun
  <2>4. Tombstone(runs[p + k]).del
    BY <2>2 DEF Tombstone, Runs, RunType
  <2>5. QED
    BY <2>3, <2>4
<1>4. T \in [1 .. n -> Runs] /\ \A k \in 1 .. n : T[k].del
  <2>1. \A k \in 1 .. n : T[k] = Tombstone(runs[p + k])
    BY <1>1
  <2>2. T = [k \in 1 .. n |-> Tombstone(runs[p + k])]
    BY <1>1
  <2>3. QED
    BY <1>3, <2>1, <2>2
<1>5. T \in Seq(Runs) /\ Len(T) = n
  BY <1>2, <1>4
<1>6. \A k \in 1 .. Len(T) : T[k].del
  BY <1>4, <1>5
<1>7. QED
  BY <1>5, <1>6, TextOfTombstones

LEMMA TextOfRangeDeletedInInode ==
    ASSUME NEW runs \in Seq(Runs),
           NEW p \in 1 .. Len(runs), NEW q \in 1 .. Len(runs), p < q,
           NEW from \in Nat, from < RunLen(runs[p]),
           NEW to \in Nat, 0 < to, to <= RunLen(runs[q])
    PROVE  VisibleChars(DeleteRangeInInode(runs, p, from, q, to)) =
             BeforeLeaf(runs, p) \o LeftOfRange(runs, p, from)
               \o (RightOfRange(runs, q, to) \o FromLeaf(runs, q + 1))
<1>1. PICK A, X, T, Y, B :
        /\ A = SubSeq(runs, 1, p - 1)
        /\ X = DeleteFrom(runs[p], from)
        /\ T = [k \in 1 .. q - p - 1 |-> Tombstone(runs[p + k])]
        /\ Y = DeleteUpTo(runs[q], to)
        /\ B = SubSeq(runs, q + 1, Len(runs))
  OBVIOUS
<1>2. DeleteRangeInInode(runs, p, from, q, to) = A \o X \o T \o Y \o B
  BY <1>1 DEF DeleteRangeInInode
<1>3. runs[p] \in Runs /\ runs[q] \in Runs /\ Len(runs) \in Nat
  BY ElementOfSeq, LenProperties
<1>4. /\ RunLen(runs[p]) \in Nat /\ RunLen(runs[q]) \in Nat /\ 0 \in Nat
      /\ RunLen(runs[p]) <= RunLen(runs[p])
  BY <1>3, RunLength
<1>5. /\ X \in Seq(Runs) /\ VisibleChars(X) = LeftOfRange(runs, p, from)
      /\ LeftOfRange(runs, p, from) \in Seq(Characters)
  <2>1. X \in Seq(Runs)
        /\ VisibleChars(X) = RunText(SubRun(runs[p], 0, from))
             \o RunText(SubRun(runs[p], RunLen(runs[p]), RunLen(runs[p])))
    BY <1>1, <1>3, <1>4, TextOfDeletedRange DEF DeleteFrom
  <2>2. /\ RunText(SubRun(runs[p], 0, from)) \in Seq(Characters)
        /\ RunText(SubRun(runs[p], RunLen(runs[p]), RunLen(runs[p])))
             \in Seq(Characters)
        /\ Len(RunText(SubRun(runs[p], RunLen(runs[p]), RunLen(runs[p])))) = 0
    <3>1. 0 <= from /\ from <= RunLen(runs[p]) /\ 0 \in Nat
      BY <1>4
    <3>2. RunText(SubRun(runs[p], 0, from)) \in Seq(Characters)
      BY <1>3, <3>1, TextOfSubRun
    <3>3. /\ RunText(SubRun(runs[p], RunLen(runs[p]), RunLen(runs[p])))
               \in Seq(Characters)
          /\ Len(RunText(SubRun(runs[p], RunLen(runs[p]), RunLen(runs[p])))) =
               IF runs[p].del THEN 0 ELSE RunLen(runs[p]) - RunLen(runs[p])
      BY <1>3, <1>4, TextOfSubRun
    <3>4. QED
      BY <3>2, <3>3, <1>4
  <2>3. RunText(SubRun(runs[p], RunLen(runs[p]), RunLen(runs[p]))) = <<>>
    BY <2>2
  <2>4. RunText(SubRun(runs[p], 0, from)) \o <<>>
          = RunText(SubRun(runs[p], 0, from))
    BY <2>2, ConcatEmptySeq
  <2>5. QED
    BY <2>1, <2>2, <2>3, <2>4 DEF LeftOfRange
<1>6. /\ Y \in Seq(Runs) /\ VisibleChars(Y) = RightOfRange(runs, q, to)
      /\ RightOfRange(runs, q, to) \in Seq(Characters)
  <2>1. Y \in Seq(Runs)
        /\ VisibleChars(Y) = RunText(SubRun(runs[q], 0, 0))
             \o RunText(SubRun(runs[q], to, RunLen(runs[q])))
    BY <1>1, <1>3, <1>4, TextOfDeletedRange DEF DeleteUpTo
  <2>2. /\ RunText(SubRun(runs[q], to, RunLen(runs[q]))) \in Seq(Characters)
        /\ RunText(SubRun(runs[q], 0, 0)) \in Seq(Characters)
        /\ Len(RunText(SubRun(runs[q], 0, 0))) = 0
    <3>1. 0 <= RunLen(runs[q]) /\ RunLen(runs[q]) <= RunLen(runs[q])
          /\ 0 \in Nat /\ 0 <= 0
      BY <1>4
    <3>2. RunText(SubRun(runs[q], to, RunLen(runs[q]))) \in Seq(Characters)
      BY <1>3, <1>4, <3>1, TextOfSubRun
    <3>3. /\ RunText(SubRun(runs[q], 0, 0)) \in Seq(Characters)
          /\ Len(RunText(SubRun(runs[q], 0, 0))) =
               IF runs[q].del THEN 0 ELSE 0 - 0
      BY <1>3, <3>1, TextOfSubRun
    <3>4. QED
      BY <3>2, <3>3
  <2>3. RunText(SubRun(runs[q], 0, 0)) = <<>>
    BY <2>2
  <2>4. <<>> \o RunText(SubRun(runs[q], to, RunLen(runs[q])))
          = RunText(SubRun(runs[q], to, RunLen(runs[q])))
    BY <2>2, ConcatEmptySeq
  <2>5. QED
    BY <2>1, <2>2, <2>3, <2>4 DEF RightOfRange
<1>7. T \in Seq(Runs) /\ VisibleChars(T) = <<>>
  BY <1>1, TextOfInnerTombstones
<1>8. /\ A \in Seq(Runs) /\ VisibleChars(A) = BeforeLeaf(runs, p)
      /\ B \in Seq(Runs) /\ VisibleChars(B) = FromLeaf(runs, q + 1)
      /\ BeforeLeaf(runs, p) \in Seq(Characters)
      /\ FromLeaf(runs, q + 1) \in Seq(Characters)
  <2>1. A \in Seq(Runs) /\ B \in Seq(Runs)
    BY <1>1, ApartAt
  <2>2. VisibleChars(A) = BeforeLeaf(runs, p)
        /\ VisibleChars(B) = FromLeaf(runs, q + 1)
    BY <1>1 DEF BeforeLeaf, FromLeaf
  <2>3. VisibleChars(A) \in Seq(Characters) /\ VisibleChars(B) \in Seq(Characters)
    BY <2>1, TextLength
  <2>4. QED
    BY <2>1, <2>2, <2>3
<1>9. PICK b, x, y, c : /\ b = BeforeLeaf(runs, p) /\ x = LeftOfRange(runs, p, from)
                        /\ y = RightOfRange(runs, q, to)
                        /\ c = FromLeaf(runs, q + 1)
  OBVIOUS
<1>10. /\ b \in Seq(Characters) /\ x \in Seq(Characters)
       /\ y \in Seq(Characters) /\ c \in Seq(Characters)
       /\ VisibleChars(A) = b /\ VisibleChars(X) = x /\ VisibleChars(T) = <<>>
       /\ VisibleChars(Y) = y /\ VisibleChars(B) = c
  BY <1>5, <1>6, <1>7, <1>8, <1>9
<1>11. A \o X \in Seq(Runs) /\ VisibleChars(A \o X) = b \o x
  BY <1>5, <1>8, <1>10, TextOfConcat, ConcatProperties
<1>12. A \o X \o T \in Seq(Runs) /\ VisibleChars(A \o X \o T) = b \o x
  <2>1. VisibleChars(A \o X \o T) = (b \o x) \o <<>>
    BY <1>7, <1>11, TextOfConcat
  <2>2. b \o x \in Seq(Characters)
    BY <1>10, ConcatProperties
  <2>3. (b \o x) \o <<>> = b \o x
    BY <2>2, ConcatEmptySeq
  <2>4. QED
    BY <2>1, <2>3, <1>7, <1>11, ConcatProperties
<1>13. A \o X \o T \o Y \in Seq(Runs)
       /\ VisibleChars(A \o X \o T \o Y) = (b \o x) \o y
  BY <1>6, <1>10, <1>12, TextOfConcat, ConcatProperties
<1>14. VisibleChars(A \o X \o T \o Y \o B) = ((b \o x) \o y) \o c
  BY <1>8, <1>10, <1>13, TextOfConcat
<1>15. Associate(b \o x, y, c)
  <2>1. b \o x \in Seq(Characters)
    BY <1>10, ConcatProperties
  <2>2. QED
    BY <2>1, <1>10, AllAssociate
<1>16. QED
  BY <1>2, <1>9, <1>14, <1>15, Zenon DEF Associate

(* A local deletion deletes what its offsets say.                          *)
LEMMA DeletedText ==
    ASSUME NEW runs \in Seq(Runs),
           NEW from \in Nat, NEW to \in Nat, from < to, to <= DocumentLen(runs)
    PROVE  VisibleChars(Delete(runs, from, to).runs) =
             RemoveRange(VisibleChars(runs), [start |-> from, end |-> to])
<1>0. PICK p, q : p = LeafAtOffset(runs, from + 1) /\ q = LeafAtOffset(runs, to)
  OBVIOUS
<1>00. PICK from_p, to_q, text :
         /\ from_p = from - OffsetOfLeaf(runs, p)
         /\ to_q = to - OffsetOfLeaf(runs, q)
         /\ text = VisibleChars(runs)
  OBVIOUS
<1>1. Len(runs) \in Nat
  BY LenProperties
<1>2. DocumentLen(runs) \in Nat
  <2>1. Len(runs) + 1 \in 1 .. Len(runs) + 1
    BY <1>1
  <2>2. QED
    BY <1>1, <2>1, OffsetsOfLeaves DEF DocumentLen
<1>3. /\ from + 1 \in Nat /\ 0 < from + 1 /\ from + 1 <= DocumentLen(runs)
      /\ 0 < to
  BY <1>2
<1>4. /\ p \in 1 .. Len(runs) /\ OffsetOfLeaf(runs, p) \in Nat
      /\ OffsetOfLeaf(runs, p) < from + 1
      /\ from + 1 <= OffsetOfLeaf(runs, p) + VisibleLen(runs[p])
  BY <1>0, <1>1, <1>3, LeafAtOffsetExists
<1>5. /\ q \in 1 .. Len(runs) /\ OffsetOfLeaf(runs, q) \in Nat
      /\ OffsetOfLeaf(runs, q) < to
      /\ to <= OffsetOfLeaf(runs, q) + VisibleLen(runs[q])
  BY <1>0, <1>1, <1>3, LeafAtOffsetExists
<1>6. Delete(runs, from, to).runs =
        IF p = q THEN DeleteRangeInLeaf(runs, p, from_p, to_q)
                 ELSE DeleteRangeInInode(runs, p, from_p, q, to_q)
  BY <1>0, <1>00 DEF Delete
<1>7. runs[p] \in Runs /\ runs[q] \in Runs
  BY <1>4, <1>5, ElementOfSeq
<1>8. /\ RunLen(runs[p]) \in Nat /\ RunLen(runs[q]) \in Nat
      /\ VisibleLen(runs[p]) \in Nat /\ VisibleLen(runs[q]) \in Nat
  <2>1. RunLen(runs[p]) \in Nat /\ RunLen(runs[q]) \in Nat
    BY <1>7, RunLength
  <2>2. QED
    BY <2>1 DEF VisibleLen
<1>9. /\ from_p \in Nat /\ from_p < VisibleLen(runs[p])
      /\ to_q \in Nat /\ 0 < to_q /\ to_q <= VisibleLen(runs[q])
  <2>1. \A o, v \in Nat : o < from + 1 /\ from + 1 <= o + v
                              => from - o \in Nat /\ from - o < v
    OBVIOUS
  <2>2. \A o, v \in Nat :
           o < to /\ to <= o + v
             => to - o \in Nat /\ 0 < to - o /\ to - o <= v
    OBVIOUS
  <2>3. from_p \in Nat /\ from_p < VisibleLen(runs[p])
    BY <2>1, <1>00, <1>4, <1>8
  <2>4. QED
    BY <2>2, <2>3, <1>00, <1>5, <1>8
<1>10. p <= q
  <2>1. SUFFICES ASSUME q < p PROVE FALSE
    BY <1>4, <1>5
  <2>2. q + 1 \in 1 .. Len(runs) + 1 /\ p \in 1 .. Len(runs) + 1 /\ q + 1 <= p
    BY <1>1, <1>4, <1>5, <2>1
  <2>3. OffsetOfLeaf(runs, q + 1) <= OffsetOfLeaf(runs, p)
    BY <1>1, <2>2, OffsetsGrow
  <2>4. OffsetOfLeaf(runs, q + 1) = OffsetOfLeaf(runs, q) + VisibleLen(runs[q])
    BY <1>1, <1>5, OffsetsOfLeaves
  <2>5. QED
    BY <2>3, <2>4, <1>4, <1>5, <1>8
<1>11. /\ ~runs[p].del /\ VisibleLen(runs[p]) = RunLen(runs[p])
       /\ ~runs[q].del /\ VisibleLen(runs[q]) = RunLen(runs[q])
  <2>1. \A run : VisibleLen(run) # 0 => ~run.del /\ VisibleLen(run) = RunLen(run)
    BY DEF VisibleLen
  <2>2. VisibleLen(runs[p]) # 0 /\ VisibleLen(runs[q]) # 0
    BY <1>8, <1>9
  <2>3. QED
    BY <2>1, <2>2
<1>12. /\ from_p < RunLen(runs[p]) /\ to_q <= RunLen(runs[q])
       /\ from = OffsetOfLeaf(runs, p) + from_p
       /\ to = OffsetOfLeaf(runs, q) + to_q
  <2>1. \A x, o \in Nat : x = o + (x - o)
    OBVIOUS
  <2>2. from_p < RunLen(runs[p]) /\ to_q <= RunLen(runs[q])
    BY <1>9, <1>11
  <2>3. from = OffsetOfLeaf(runs, p) + from_p
    BY <2>1, <1>00, <1>4
  <2>4. to \in Nat
    BY <1>0
  <2>5. to = OffsetOfLeaf(runs, q) + to_q
    BY <2>1, <2>4, <1>00, <1>5
  <2>6. QED
    BY <2>2, <2>3, <2>5
<1>13. RemoveRange(text, [start |-> from, end |-> to])
         = UpTo(text, from) \o TextAfter(text, to)
  BY RemoveRangeCuts, Zenon
<1>14. CASE p = q
  <2>1. from_p < to_q /\ to_q <= RunLen(runs[p])
    <3>1. to = OffsetOfLeaf(runs, p) + to_q /\ to_q <= RunLen(runs[p])
      BY <1>12, <1>14, Zenon
    <3>2. QED
      BY <3>1, <1>4, <1>9, <1>12
  <2>2. VisibleChars(DeleteRangeInLeaf(runs, p, from_p, to_q))
          = TextWithout(runs, p, from_p, to_q)
    BY <1>4, <1>9, <2>1, TextOfRangeDeletedInLeaf, Zenon
  <2>3. TextWithout(runs, p, from_p, to_q) = UpTo(text, from) \o TextAfter(text, to)
    <3>1. to = OffsetOfLeaf(runs, p) + to_q
      BY <1>12, <1>14, Zenon
    <3>2. /\ p \in 1 .. Len(runs) /\ ~runs[p].del
          /\ from_p \in Nat /\ to_q \in Nat /\ from_p < to_q
          /\ to_q <= RunLen(runs[p]) /\ from = OffsetOfLeaf(runs, p) + from_p
      BY <1>4, <1>9, <1>11, <1>12, <2>1, Zenon
    <3>3. OffsetInLeaf(runs, p, from_p) = from /\ OffsetInLeaf(runs, p, to_q) = to
      <4>1. from_p \in 0 .. RunLen(runs[p]) /\ to_q \in 0 .. RunLen(runs[p])
        BY <3>2, <1>8
      <4>2. QED
        BY <3>1, <3>2, <4>1, OffsetInVisibleLeaf
    <3>4. TextWithout(runs, p, from_p, to_q)
            = UpTo(VisibleChars(runs), OffsetInLeaf(runs, p, from_p))
                \o TextAfter(VisibleChars(runs), OffsetInLeaf(runs, p, to_q))
      BY <3>2, TextWithoutRange
    <3>5. QED
      BY <3>3, <3>4, <1>00
  <2>4. QED
    BY <2>2, <2>3, <1>00, <1>6, <1>13, <1>14
<1>15. CASE p # q
  <2>1. p < q
    BY <1>1, <1>4, <1>5, <1>10, <1>15
  <2>2. VisibleChars(DeleteRangeInInode(runs, p, from_p, q, to_q)) =
          BeforeLeaf(runs, p) \o LeftOfRange(runs, p, from_p)
               \o (RightOfRange(runs, q, to_q) \o FromLeaf(runs, q + 1))
    <3>1. /\ p \in 1 .. Len(runs) /\ q \in 1 .. Len(runs) /\ p < q
          /\ from_p \in Nat /\ from_p < RunLen(runs[p])
          /\ to_q \in Nat /\ 0 < to_q /\ to_q <= RunLen(runs[q])
      BY <1>4, <1>5, <1>9, <1>12, <2>1, Zenon
    <3>2. QED
      BY <3>1, TextOfRangeDeletedInInode
  <2>3. BeforeLeaf(runs, p) \o LeftOfRange(runs, p, from_p) = UpTo(text, from)
    <3>1. from_p \in 0 .. RunLen(runs[p])
      BY <1>8, <1>9, <1>12
    <3>2. OffsetInLeaf(runs, p, from_p) = from
      BY <1>4, <1>11, <1>12, <3>1, OffsetInVisibleLeaf
    <3>3. UpTo(text, OffsetInLeaf(runs, p, from_p))
            = BeforeLeaf(runs, p) \o LeftOfRange(runs, p, from_p)
      BY <1>00, <1>4, <3>1, TextAroundOffset DEF IsTextAroundOffset
    <3>4. QED
      BY <3>2, <3>3
  <2>4. RightOfRange(runs, q, to_q) \o FromLeaf(runs, q + 1) = TextAfter(text, to)
    <3>1. to_q \in 0 .. RunLen(runs[q])
      BY <1>8, <1>9, <1>12
    <3>2. OffsetInLeaf(runs, q, to_q) = to
      BY <1>5, <1>11, <1>12, <3>1, OffsetInVisibleLeaf
    <3>3. TextAfter(text, OffsetInLeaf(runs, q, to_q))
            = RightOfRange(runs, q, to_q) \o FromLeaf(runs, q + 1)
      BY <1>00, <1>5, <3>1, TextAroundOffset DEF IsTextAroundOffset
    <3>4. QED
      BY <3>2, <3>3
  <2>5. QED
    BY <2>2, <2>3, <2>4, <1>00, <1>6, <1>13, <1>15
<1>16. QED
  BY <1>14, <1>15
==============================================================================
