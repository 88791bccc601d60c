---------------------------- MODULE ReplicaProofs ----------------------------
(***************************************************************************)
(* Theorems about Replica for any number of replicas and edits.            *)
(***************************************************************************)
EXTENDS ReplicaInvariant, SequenceTheorems, TLAPS

------------------------------------------------------------------------------
(* Queues.                                                                 *)

(* What a sequence is after an element was put into it.                    *)
LEMMA InsertAtProperties ==
    ASSUME NEW S, NEW q \in Seq(S), NEW e \in S, NEW p \in 1 .. Len(q) + 1
    PROVE  /\ InsertAt(q, p, e) \in Seq(S)
           /\ Len(InsertAt(q, p, e)) = Len(q) + 1
           /\ \A k \in 1 .. Len(q) + 1 :
                 InsertAt(q, p, e)[k] = IF k < p THEN q[k]
                                        ELSE IF k = p THEN e ELSE q[k - 1]
<1> DEFINE left == SubSeq(q, 1, p - 1)
           upto == left \o <<e>>
           right == SubSeq(q, p, Len(q))
<1>1. Len(q) \in Nat /\ \A k \in 1 .. Len(q) : q[k] \in S
  BY ElementOfSeq, LenProperties
<1>2. /\ left \in Seq(S) /\ Len(left) = p - 1
      /\ \A k \in 1 .. p - 1 : left[k] = q[k]
  BY <1>1, SubSeqProperties
<1>3. /\ right \in Seq(S) /\ Len(right) = Len(q) - p + 1
      /\ \A k \in 1 .. Len(q) - p + 1 : right[k] = q[p + k - 1]
  BY <1>1, SubSeqProperties
<1>4. /\ upto \in Seq(S) /\ Len(upto) = p
      /\ \A k \in 1 .. p - 1 : upto[k] = q[k]
      /\ upto[p] = e
  <2> HIDE DEF left
  <2> QED
    BY <1>1, <1>2, SMTT(30)
<1>5. InsertAt(q, p, e) = upto \o right
  BY DEF InsertAt
<1> HIDE DEF left, upto, right
<1>6. /\ upto \o right \in Seq(S)
      /\ Len(upto \o right) = Len(q) + 1
      /\ \A k \in 1 .. Len(q) + 1 :
            (upto \o right)[k] = IF k <= p THEN upto[k] ELSE right[k - p]
  <2>1. /\ Len(upto) + Len(right) = Len(q) + 1
        /\ Len(upto) \in Nat /\ Len(right) \in Nat
    BY <1>1, <1>3, <1>4
  <2>2. QED
    <3>1. /\ upto \o right \in Seq(S)
          /\ Len(upto \o right) = Len(upto) + Len(right)
      BY <1>3, <1>4, ConcatProperties
    <3>2. \A k \in 1 .. Len(upto) + Len(right) :
             (upto \o right)[k] = IF k <= Len(upto) THEN upto[k]
                                  ELSE right[k - Len(upto)]
      BY <1>3, <1>4, ConcatProperties
    <3>3. QED
      BY <2>1, <3>1, <3>2, <1>4
<1>7. ASSUME NEW k \in 1 .. Len(q) + 1
      PROVE  (upto \o right)[k] = IF k < p THEN q[k]
                                  ELSE IF k = p THEN e ELSE q[k - 1]
  <2>1. CASE k < p
    BY <2>1, <1>1, <1>4, <1>6
  <2>2. CASE k = p
    BY <2>2, <1>1, <1>4, <1>6
  <2>3. CASE k > p
    <3>1. k - p \in 1 .. Len(q) - p + 1 /\ p + (k - p) - 1 = k - 1
      BY <2>3, <1>1
    <3>2. QED
      BY <2>3, <3>1, <1>1, <1>3, <1>6
  <2>4. k < p \/ k = p \/ (k > p /\ ~(k < p) /\ k # p)
    BY <1>1
  <2>5. QED
    BY <2>1, <2>2, <2>3, <2>4, Zenon
<1>8. QED
  BY <1>5, <1>6, <1>7

------------------------------------------------------------------------------
(* Types.                                                                  *)

(* The edits, and the state that refers to them, keep their types when an  *)
(* edit is added to those that were sent.                                  *)
LEMMA MoreSeqs ==
    ASSUME NEW S, NEW T, S \subseteq T,
           NEW f \in [ReplicaIds -> [ReplicaIds -> Seq(S)]]
    PROVE  f \in [ReplicaIds -> [ReplicaIds -> Seq(T)]]
<1>1. Seq(S) \subseteq Seq(T)
  BY SeqMonotonic
<1>2. QED
  BY <1>1

LEMMA TypeInit == Init => TypeOK
<1> SUFFICES ASSUME Init PROVE TypeOK
  OBVIOUS
<1>1. /\ replicas \subseteq ReplicaIds /\ panicked \subseteq ReplicaIds
      /\ run_clock \in [ReplicaIds -> Nat]
      /\ lamport_clock \in [ReplicaIds -> Nat]
  BY InitialAssumption DEF Init
<1>2. /\ version_map \in [ReplicaIds -> [ReplicaIds -> Nat]]
      /\ deletion_map \in [ReplicaIds -> [ReplicaIds -> Nat]]
  BY InitialAssumption DEF Init
<1>3. /\ insertions = {} /\ deletions = {}
      /\ insertions_backlog = [r \in ReplicaIds |-> [a \in ReplicaIds |-> <<>>]]
      /\ deletions_backlog = [r \in ReplicaIds |-> [a \in ReplicaIds |-> <<>>]]
      /\ iterator = [r \in ReplicaIds |-> NoIterator]
  BY DEF Init
<1>4. <<>> \in Seq(insertions) /\ <<>> \in Seq(deletions)
  BY EmptySeq
<1>5. QED
  BY <1>1, <1>2, <1>3, <1>4 DEF TypeOK, IteratorType

LEMMA TypeFork ==
    ASSUME TypeOK, NEW r \in ReplicaIds, NEW new \in ReplicaIds, Fork(r, new)
    PROVE  TypeOK'
BY DEF TypeOK, Fork, sent_vars, InsertionTypeOK, DeletionTypeOK

LEMMA TypeInserted ==
    ASSUME TypeOK, NEW r \in ReplicaIds, NEW offset, NEW len \in InsertLens,
           Inserted(r, offset, len)
    PROVE  TypeOK'
<1> DEFINE new == Insert(run_tree[r], offset,
                         [id |-> r, start |-> version_map[r][r],
                          end |-> version_map[r][r] + len],
                         run_clock[r], lamport_clock[r])
           run_clock_r == IF new.new THEN run_clock[r] + 1 ELSE run_clock[r]
           lamport_r == IF new.new THEN lamport_clock[r] + 1
                        ELSE lamport_clock[r]
           insertion == [by |-> r, start |-> version_map[r][r],
                         end |-> version_map[r][r] + len,
                         anchor |-> new.anchor,
                         ts |-> IF run_clock_r = 0 THEN 0 ELSE run_clock_r - 1,
                         lam |-> HighestLamport(lamport_r)]
<1>1. /\ run_clock' = [run_clock EXCEPT ![r] = run_clock_r]
      /\ lamport_clock' = [lamport_clock EXCEPT ![r] = lamport_r]
      /\ version_map' = [version_map EXCEPT ![r][r] = version_map[r][r] + len]
      /\ insertions' = insertions \cup {insertion}
      /\ UNCHANGED <<replicas, deletion_map, insertions_backlog,
                     deletions_backlog, iterator, panicked, deletions>>
  BY DEF Inserted, backlog_vars
<1>2. /\ version_map[r][r] \in Nat /\ len \in Nat
      /\ run_clock_r \in Nat /\ lamport_r \in Nat
  BY InsertLensAssumption DEF TypeOK
<1> HIDE DEF new, run_clock_r, lamport_r
<1>3. insertion \in insertions' /\ InsertionTypeOK(insertion)
  BY <1>1, <1>2 DEF InsertionTypeOK, HighestLamport
<1>4. insertions_backlog' \in [ReplicaIds -> [ReplicaIds -> Seq(insertions')]]
  BY <1>1, MoreSeqs DEF TypeOK
<1>5. \A m \in insertions' : InsertionTypeOK(m)
  BY <1>1, <1>3 DEF TypeOK
<1> HIDE DEF insertion
<1>6. QED
  BY <1>1, <1>2, <1>4, <1>5, SMTT(30) DEF TypeOK, InsertionTypeOK, DeletionTypeOK

LEMMA TypeDeleted ==
    ASSUME TypeOK, NEW r \in ReplicaIds, NEW from, NEW to,
           Deleted(r, from, to)
    PROVE  TypeOK'
<1> DEFINE result == Delete(run_tree[r], from, to)
           known == [a \in ReplicaIds |-> IF a \in result.ids \cup {r}
                                          THEN version_map[r][a] ELSE 0]
           deletion == [by |-> r, ts |-> deletion_map[r][r] + 1,
                        start |-> result.start, end |-> result.end,
                        version_map |-> known]
<1>1. /\ deletion_map' = [deletion_map EXCEPT ![r][r] = @ + 1]
      /\ deletions' = deletions \cup {deletion}
      /\ UNCHANGED <<replicas, run_clock, lamport_clock, version_map,
                     insertions_backlog, deletions_backlog, iterator,
                     panicked, insertions>>
  BY DEF Deleted, backlog_vars
<1>2. /\ deletion_map[r][r] \in Nat
      /\ known \in [ReplicaIds -> Nat]
  BY DEF TypeOK
<1> HIDE DEF result, known
<1>3. DeletionTypeOK(deletion)
  BY <1>2 DEF DeletionTypeOK
<1>4. deletions_backlog' \in [ReplicaIds -> [ReplicaIds -> Seq(deletions')]]
  <2>1. /\ deletions_backlog \in [ReplicaIds -> [ReplicaIds -> Seq(deletions)]]
        /\ deletions_backlog' = deletions_backlog
        /\ deletions \subseteq deletions'
    BY <1>1 DEF TypeOK
  <2>2. QED
    BY <2>1, MoreSeqs
<1>5. \A d \in deletions' : DeletionTypeOK(d)
  BY <1>1, <1>3 DEF TypeOK
<1>6. deletion_map' \in [ReplicaIds -> [ReplicaIds -> Nat]]
  <2>1. /\ deletion_map' = [deletion_map EXCEPT
                              ![r][r] = deletion_map[r][r] + 1]
        /\ deletion_map \in [ReplicaIds -> [ReplicaIds -> Nat]]
    BY <1>1 DEF TypeOK
  <2>2. deletion_map[r][r] + 1 \in Nat
    BY <1>2
  <2>3. QED
    BY <2>1, <2>2
<1> HIDE DEF deletion
<1>7. QED
  BY <1>1, <1>4, <1>5, <1>6 DEF TypeOK, InsertionTypeOK, DeletionTypeOK

(* What merging an edit does to the clocks.                                *)
LEMMA TypeMergeInsertion ==
    ASSUME TypeOK, NEW r \in ReplicaIds, NEW m \in insertions,
           CanMergeInsertion(r, m), MergeUncheckedInsertion(r, m)
    PROVE  /\ panicked' \subseteq ReplicaIds
           /\ run_clock' \in [ReplicaIds -> Nat]
           /\ lamport_clock' \in [ReplicaIds -> Nat]
           /\ version_map' \in [ReplicaIds -> [ReplicaIds -> Nat]]
           /\ deletion_map' \in [ReplicaIds -> [ReplicaIds -> Nat]]
<1>1. /\ panicked \subseteq ReplicaIds
      /\ run_clock \in [ReplicaIds -> Nat]
      /\ lamport_clock \in [ReplicaIds -> Nat]
      /\ version_map \in [ReplicaIds -> [ReplicaIds -> Nat]]
      /\ deletion_map \in [ReplicaIds -> [ReplicaIds -> Nat]]
      /\ InsertionTypeOK(m)
  BY DEF TypeOK
<1>2. m.by \in ReplicaIds /\ m.end \in Nat /\ m.lam \in Nat /\ m.start \in Nat
  BY <1>1 DEF InsertionTypeOK
<1>3. version_map[r][m.by] + (m.end - m.start) = m.end
  BY <1>1, <1>2 DEF CanMergeInsertion
<1>4. MergedLamport(lamport_clock[r], m.lam) \in Nat
  BY <1>1, <1>2 DEF MergedLamport
<1>5. CASE UNCHANGED clock_vars /\ panicked' = panicked \cup {r}
  BY <1>1, <1>5 DEF clock_vars
<1>6. CASE /\ version_map' = [version_map EXCEPT ![r][m.by] = m.end]
           /\ lamport_clock' = [lamport_clock EXCEPT
                                  ![r] = MergedLamport(@, m.lam)]
           /\ UNCHANGED <<run_clock, deletion_map, panicked>>
  BY <1>1, <1>2, <1>4, <1>6
<1>7. QED
  BY <1>1, <1>3, <1>5, <1>6 DEF MergeUncheckedInsertion

LEMMA TypeMergeDeletion ==
    ASSUME TypeOK, NEW r \in ReplicaIds, NEW d \in deletions,
           MergeUncheckedDeletion(r, d)
    PROVE  /\ panicked' \subseteq ReplicaIds
           /\ run_clock' \in [ReplicaIds -> Nat]
           /\ lamport_clock' \in [ReplicaIds -> Nat]
           /\ version_map' \in [ReplicaIds -> [ReplicaIds -> Nat]]
           /\ deletion_map' \in [ReplicaIds -> [ReplicaIds -> Nat]]
<1>1. d.by \in ReplicaIds /\ d.ts \in Nat
  BY DEF TypeOK, DeletionTypeOK
<1>2. /\ panicked \subseteq ReplicaIds
      /\ run_clock \in [ReplicaIds -> Nat]
      /\ lamport_clock \in [ReplicaIds -> Nat]
      /\ version_map \in [ReplicaIds -> [ReplicaIds -> Nat]]
      /\ deletion_map \in [ReplicaIds -> [ReplicaIds -> Nat]]
  BY DEF TypeOK
<1>3. CASE UNCHANGED clock_vars /\ panicked' = panicked \cup {r}
  BY <1>2, <1>3 DEF clock_vars
<1>4. CASE /\ deletion_map' = [deletion_map EXCEPT ![r][d.by] = d.ts]
           /\ UNCHANGED <<run_clock, lamport_clock, version_map, panicked>>
  BY <1>1, <1>2, <1>4
<1>5. QED
  BY <1>3, <1>4 DEF MergeUncheckedDeletion

LEMMA TypeIntegrateInsertion ==
    ASSUME TypeOK, NEW r \in ReplicaIds, NEW m \in insertions,
           IntegrateInsertion(r, m)
    PROVE  TypeOK'
<1>1. CASE /\ CanMergeInsertion(r, m)
           /\ MergeUncheckedInsertion(r, m)
           /\ UNCHANGED backlog_vars
  BY <1>1, TypeMergeInsertion
     DEF TypeOK, IntegrateInsertion, backlog_vars, sent_vars, InsertionTypeOK,
         DeletionTypeOK
<1>2. CASE BacklogInsertion(r, m)
  <2> DEFINE queue == insertions_backlog[r][m.by]
  <2>1. m.by \in ReplicaIds /\ queue \in Seq(insertions)
    BY DEF TypeOK, InsertionTypeOK
  <2>2. CASE /\ panicked' = panicked \cup {r}
             /\ UNCHANGED <<clock_vars, backlog_vars>>
    BY <2>2 DEF TypeOK, IntegrateInsertion, backlog_vars, clock_vars,
                sent_vars, InsertionTypeOK, DeletionTypeOK
  <2>3. CASE /\ \E p \in 1 .. Len(queue) + 1 :
                  insertions_backlog' = [insertions_backlog EXCEPT
                                           ![r][m.by] = InsertAt(@, p, m)]
             /\ UNCHANGED <<clock_vars, deletions_backlog, iterator, panicked>>
    <3>1. PICK p \in 1 .. Len(queue) + 1 :
             insertions_backlog' = [insertions_backlog EXCEPT
                                      ![r][m.by] = InsertAt(@, p, m)]
      BY <2>3
    <3>2. InsertAt(queue, p, m) \in Seq(insertions)
      BY <2>1, InsertAtProperties
    <3>3. insertions_backlog' \in [ReplicaIds -> [ReplicaIds -> Seq(insertions)]]
      BY <2>1, <3>1, <3>2 DEF TypeOK
    <3>4. QED
      BY <2>3, <3>3 DEF TypeOK, IntegrateInsertion, clock_vars, sent_vars,
                        InsertionTypeOK, DeletionTypeOK
  <2>4. QED
    BY <1>2, <2>2, <2>3 DEF BacklogInsertion
<1>3. QED
  BY <1>1, <1>2 DEF IntegrateInsertion

LEMMA TypeIntegrateDeletion ==
    ASSUME TypeOK, NEW r \in ReplicaIds, NEW d \in deletions,
           IntegrateDeletion(r, d)
    PROVE  TypeOK'
<1>1. CASE /\ MergeUncheckedDeletion(r, d)
           /\ UNCHANGED backlog_vars
  BY <1>1, TypeMergeDeletion
     DEF TypeOK, IntegrateDeletion, backlog_vars, sent_vars, InsertionTypeOK,
         DeletionTypeOK
<1>2. CASE BacklogDeletion(r, d)
  <2> DEFINE queue == deletions_backlog[r][d.by]
  <2>1. d.by \in ReplicaIds /\ queue \in Seq(deletions)
    BY DEF TypeOK, DeletionTypeOK
  <2>2. CASE /\ panicked' = panicked \cup {r}
             /\ UNCHANGED <<clock_vars, backlog_vars>>
    BY <2>2 DEF TypeOK, IntegrateDeletion, backlog_vars, clock_vars,
                sent_vars, InsertionTypeOK, DeletionTypeOK
  <2>3. CASE /\ \E p \in 1 .. Len(queue) + 1 :
                  deletions_backlog' = [deletions_backlog EXCEPT
                                          ![r][d.by] = InsertAt(@, p, d)]
             /\ UNCHANGED <<clock_vars, insertions_backlog, iterator, panicked>>
    <3>1. PICK p \in 1 .. Len(queue) + 1 :
             deletions_backlog' = [deletions_backlog EXCEPT
                                     ![r][d.by] = InsertAt(@, p, d)]
      BY <2>3
    <3>2. InsertAt(queue, p, d) \in Seq(deletions)
      BY <2>1, InsertAtProperties
    <3>3. deletions_backlog' \in [ReplicaIds -> [ReplicaIds -> Seq(deletions)]]
      BY <2>1, <3>1, <3>2 DEF TypeOK
    <3>4. QED
      BY <2>3, <3>3 DEF TypeOK, IntegrateDeletion, clock_vars, sent_vars,
                        InsertionTypeOK, DeletionTypeOK
  <2>4. QED
    BY <1>2, <2>2, <2>3 DEF BacklogDeletion
<1>3. QED
  BY <1>1, <1>2 DEF IntegrateDeletion

(* The iterators.                                                          *)
LEMMA TypeStartIterator ==
    ASSUME TypeOK, NEW r \in ReplicaIds,
           BackloggedInsertions(r) \/ BackloggedDeletions(r)
    PROVE  TypeOK'
<1>1. /\ \E kind \in {"insertions", "deletions"}, a \in ReplicaIds :
            \E rest \in SUBSET ReplicaIds :
              iterator' = [iterator EXCEPT
                             ![r] = [kind |-> kind, current |-> a,
                                     rest |-> rest, silent |-> FALSE]]
      /\ UNCHANGED <<replicas, clock_vars, insertions_backlog,
                     deletions_backlog, panicked, insertions, deletions>>
  BY DEF BackloggedInsertions, BackloggedDeletions, StartIterator, Queues,
         sent_vars
<1>2. PICK kind \in {"insertions", "deletions"}, a \in ReplicaIds,
           rest \in SUBSET ReplicaIds :
         iterator' = [iterator EXCEPT
                        ![r] = [kind |-> kind, current |-> a,
                                rest |-> rest, silent |-> FALSE]]
  BY <1>1
<1>3. [kind |-> kind, current |-> a, rest |-> rest, silent |-> FALSE]
        \in IteratorType
  BY DEF IteratorType
<1>4. iterator' \in [ReplicaIds -> IteratorType]
  BY <1>2, <1>3 DEF TypeOK
<1>5. QED
  BY <1>1, <1>4 DEF TypeOK, clock_vars, InsertionTypeOK, DeletionTypeOK

LEMMA TypeNextQueue ==
    ASSUME TypeOK, NEW r \in ReplicaIds, NextQueue(r) \/ DropIterator(r)
    PROVE  TypeOK'
<1>1. iterator[r] \in IteratorType
  BY DEF TypeOK
<1>2. ASSUME iterator[r] # NoIterator, NEW a \in iterator[r].rest,
             iterator' = [iterator EXCEPT ![r] =
                [kind |-> @.kind, current |-> a, rest |-> @.rest \ {a},
                 silent |-> @.silent]]
      PROVE  iterator' \in [ReplicaIds -> IteratorType]
  <2>1. /\ iterator[r].kind \in {"insertions", "deletions"}
        /\ iterator[r].rest \in SUBSET ReplicaIds
        /\ iterator[r].silent \in BOOLEAN
    BY <1>1, <1>2 DEF IteratorType
  <2>2. [kind |-> iterator[r].kind, current |-> a,
         rest |-> iterator[r].rest \ {a}, silent |-> iterator[r].silent]
          \in IteratorType
    BY <2>1, <1>2 DEF IteratorType
  <2>3. QED
    BY <1>2, <2>2 DEF TypeOK
<1>3. iterator' \in [ReplicaIds -> IteratorType]
  <2>1. CASE iterator' = [iterator EXCEPT ![r] = NoIterator]
    BY <2>1 DEF TypeOK, IteratorType
  <2>2. QED
    BY <1>2, <2>1 DEF NextQueue, DropIterator
<1>4. QED
  BY <1>3 DEF TypeOK, NextQueue, DropIterator, clock_vars, sent_vars,
              InsertionTypeOK, DeletionTypeOK

LEMMA TypeNextBacklogged ==
    ASSUME TypeOK, NEW r \in ReplicaIds,
           NextBackloggedInsertion(r) \/ NextBackloggedDeletion(r)
    PROVE  TypeOK'
<1>1. iterator[r] \in IteratorType /\ iterator[r] # NoIterator
  BY DEF TypeOK, NextBackloggedInsertion, NextBackloggedDeletion, NoIterator
<1>2. iterator[r].current \in ReplicaIds
  BY <1>1 DEF IteratorType
<1> DEFINE a == iterator[r].current
<1>3. CASE NextBackloggedInsertion(r)
  <2> DEFINE queue == insertions_backlog[r][a]
  <2>1. /\ queue \in Seq(insertions) /\ queue # <<>>
        /\ CanMergeInsertion(r, Head(queue))
    BY <1>2, <1>3 DEF TypeOK, NextBackloggedInsertion, CanMergeFirst
  <2>2. Head(queue) \in insertions /\ Tail(queue) \in Seq(insertions)
    BY <2>1, HeadTailProperties
  <2>3. /\ MergeUncheckedInsertion(r, Head(queue))
        /\ insertions_backlog' =
             [insertions_backlog EXCEPT ![r][a] = Tail(queue)]
        /\ UNCHANGED <<replicas, deletions_backlog, iterator, insertions,
                       deletions>>
    BY <1>3 DEF NextBackloggedInsertion, sent_vars
  <2>4. insertions_backlog' \in [ReplicaIds -> [ReplicaIds -> Seq(insertions)]]
    BY <1>2, <2>2, <2>3 DEF TypeOK
  <2> HIDE DEF queue
  <2>5. QED
    BY <2>1, <2>2, <2>3, <2>4, TypeMergeInsertion
       DEF TypeOK, InsertionTypeOK, DeletionTypeOK
<1>4. CASE NextBackloggedDeletion(r)
  <2> DEFINE queue == deletions_backlog[r][a]
  <2>1. queue \in Seq(deletions) /\ queue # <<>>
    <3>1. iterator[r].kind = "deletions"
      BY <1>4 DEF NextBackloggedDeletion
    <3>2. queue # <<>>
      BY <3>1, <1>4 DEF NextBackloggedDeletion, CanMergeFirst
    <3>3. QED
      BY <3>2, <1>2 DEF TypeOK
  <2>2. Head(queue) \in deletions /\ Tail(queue) \in Seq(deletions)
    BY <2>1, HeadTailProperties
  <2>3. /\ MergeUncheckedDeletion(r, Head(queue))
        /\ deletions_backlog' =
             [deletions_backlog EXCEPT ![r][a] = Tail(queue)]
        /\ UNCHANGED <<replicas, insertions_backlog, insertions, deletions>>
    BY <1>4 DEF NextBackloggedDeletion, sent_vars
  <2>4. deletions_backlog' \in [ReplicaIds -> [ReplicaIds -> Seq(deletions)]]
    BY <1>2, <2>2, <2>3 DEF TypeOK
  <2>5. iterator' \in [ReplicaIds -> IteratorType]
    <3>1. PICK silent \in BOOLEAN : iterator' = [iterator EXCEPT ![r].silent = silent]
      BY <1>4 DEF NextBackloggedDeletion
    <3>2. [iterator[r] EXCEPT !.silent = silent] \in IteratorType
      BY <1>1 DEF IteratorType
    <3>3. QED
      BY <3>1, <3>2 DEF TypeOK
  <2> HIDE DEF queue
  <2>6. QED
    BY <2>2, <2>3, <2>4, <2>5, TypeMergeDeletion
       DEF TypeOK, InsertionTypeOK, DeletionTypeOK
<1>5. QED
  BY <1>3, <1>4

LEMMA TypeNext == TypeOK /\ [Next]_vars => TypeOK'
<1> SUFFICES ASSUME TypeOK, [Next]_vars PROVE TypeOK'
  OBVIOUS
<1>1. CASE UNCHANGED vars
  BY <1>1 DEF vars, clock_vars, backlog_vars, sent_vars, TypeOK,
              InsertionTypeOK, DeletionTypeOK
<1>2. CASE Next
  <2>1. PICK r \in ReplicaIds :
          \/ \E new \in ReplicaIds : Fork(r, new)
          \/ InsertedAnywhere(r)
          \/ DeletedAnywhere(r)
          \/ \E m \in insertions : IntegrateInsertion(r, m)
          \/ \E d \in deletions : IntegrateDeletion(r, d)
          \/ BackloggedInsertions(r)
          \/ BackloggedDeletions(r)
          \/ NextBackloggedInsertion(r)
          \/ NextBackloggedDeletion(r)
          \/ NextQueue(r)
          \/ DropIterator(r)
    BY <1>2 DEF Next
  <2>2. CASE \E new \in ReplicaIds : Fork(r, new)
    BY <2>2, TypeFork
  <2>3. CASE InsertedAnywhere(r)
    BY <2>3, TypeInserted DEF InsertedAnywhere
  <2>4. CASE DeletedAnywhere(r)
    BY <2>4, TypeDeleted DEF DeletedAnywhere
  <2>5. CASE \E m \in insertions : IntegrateInsertion(r, m)
    BY <2>5, TypeIntegrateInsertion
  <2>6. CASE \E d \in deletions : IntegrateDeletion(r, d)
    BY <2>6, TypeIntegrateDeletion
  <2>7. CASE BackloggedInsertions(r) \/ BackloggedDeletions(r)
    BY <2>7, TypeStartIterator
  <2>8. CASE NextBackloggedInsertion(r) \/ NextBackloggedDeletion(r)
    BY <2>8, TypeNextBacklogged
  <2>9. CASE NextQueue(r) \/ DropIterator(r)
    BY <2>9, TypeNextQueue
  <2>10. QED
    BY <2>1, <2>2, <2>3, <2>4, <2>5, <2>6, <2>7, <2>8, <2>9
<1>3. QED
  BY <1>1, <1>2

(* The protocol state always has its types; in particular only edits that  *)
(* were sent are ever backlogged, and no clock falls below zero.           *)
THEOREM TypesAreCorrect == Spec => []TypeOK
<1>1. Init => TypeOK
  BY TypeInit
<1>2. TypeOK /\ [Next]_vars => TypeOK'
  BY TypeNext
<1>3. QED
  BY <1>1, <1>2, PTL DEF Spec

------------------------------------------------------------------------------
(* The steps of the system as the clocks see them: what happens to the     *)
(* documents, the backlogs and the iterators is left out.                  *)

ClockTypes ==
    /\ replicas \subseteq ReplicaIds
    /\ run_clock \in [ReplicaIds -> Nat]
    /\ lamport_clock \in [ReplicaIds -> Nat]
    /\ version_map \in [ReplicaIds -> [ReplicaIds -> Nat]]
    /\ deletion_map \in [ReplicaIds -> [ReplicaIds -> Nat]]
    /\ \A m \in insertions : /\ m.by \in ReplicaIds /\ m.start \in Nat
                             /\ m.end \in Nat /\ m.lam \in Nat
    /\ \A d \in deletions : /\ d.by \in ReplicaIds /\ d.ts \in Nat
                            /\ d.version_map \in [ReplicaIds -> Nat]

Inserts(r, m) ==
    /\ r \in replicas
    /\ m.by = r /\ m.start = version_map[r][r] /\ m.start < m.end
    /\ insertions' = insertions \cup {m}
    /\ version_map' = [version_map EXCEPT ![r][r] = m.end]
    /\ \/ /\ m.lam = HighestLamport(lamport_clock[r])
          /\ UNCHANGED <<run_clock, lamport_clock>>
       \/ /\ m.lam = lamport_clock[r]
          /\ run_clock' = [run_clock EXCEPT ![r] = @ + 1]
          /\ lamport_clock' = [lamport_clock EXCEPT ![r] = @ + 1]
    /\ UNCHANGED <<replicas, deletion_map, deletions>>

Deletes(r, d) ==
    /\ r \in replicas
    /\ d.by = r /\ d.ts = deletion_map[r][r] + 1
    /\ \A a \in ReplicaIds : d.version_map[a] <= version_map[r][a]
    /\ deletions' = deletions \cup {d}
    /\ deletion_map' = [deletion_map EXCEPT ![r][r] = d.ts]
    /\ UNCHANGED <<replicas, run_clock, lamport_clock, version_map, insertions>>

MergesInsertion(r, m) ==
    /\ r \in replicas /\ version_map[r][m.by] = m.start
    /\ version_map' = [version_map EXCEPT ![r][m.by] = m.end]
    /\ lamport_clock' =
         [lamport_clock EXCEPT ![r] = MergedLamport(@, m.lam)]
    /\ UNCHANGED <<replicas, run_clock, deletion_map, insertions, deletions>>

MergesDeletion(r, d) ==
    /\ r \in replicas /\ CanMergeDeletion(r, d)
    /\ deletion_map' = [deletion_map EXCEPT ![r][d.by] = d.ts]
    /\ UNCHANGED <<replicas, run_clock, lamport_clock, version_map, insertions,
                   deletions>>

LeavesClocks == UNCHANGED <<replicas, clock_vars, insertions, deletions>>

LEMMA TypesOfClocks == TypeOK => ClockTypes
BY DEF TypeOK, ClockTypes, InsertionTypeOK, DeletionTypeOK

LEMMA InsertedInserts ==
    ASSUME TypeOK, NEW r \in ReplicaIds, NEW offset, NEW len \in InsertLens,
           Inserted(r, offset, len)
    PROVE  \E m \in insertions' : Inserts(r, m)
<1> DEFINE new == Insert(run_tree[r], offset,
                         [id |-> r, start |-> version_map[r][r],
                          end |-> version_map[r][r] + len],
                         run_clock[r], lamport_clock[r])
           run_clock_r == IF new.new THEN run_clock[r] + 1 ELSE run_clock[r]
           lamport_r == IF new.new THEN lamport_clock[r] + 1
                        ELSE lamport_clock[r]
           insertion == [by |-> r, start |-> version_map[r][r],
                         end |-> version_map[r][r] + len,
                         anchor |-> new.anchor,
                         ts |-> IF run_clock_r = 0 THEN 0 ELSE run_clock_r - 1,
                         lam |-> HighestLamport(lamport_r)]
<1>1. /\ r \in replicas
      /\ run_clock' = [run_clock EXCEPT ![r] = run_clock_r]
      /\ lamport_clock' = [lamport_clock EXCEPT ![r] = lamport_r]
      /\ version_map' = [version_map EXCEPT ![r][r] = version_map[r][r] + len]
      /\ insertions' = insertions \cup {insertion}
      /\ UNCHANGED <<replicas, deletion_map, deletions>>
  BY DEF Inserted, Idle, Active
<1>2. /\ version_map[r][r] \in Nat /\ len \in Nat \ {0}
      /\ lamport_clock[r] \in Nat /\ run_clock[r] \in Nat
      /\ run_clock \in [ReplicaIds -> Nat]
      /\ lamport_clock \in [ReplicaIds -> Nat]
  BY InsertLensAssumption DEF TypeOK
<1>3. /\ insertion.by = r /\ insertion.start = version_map[r][r]
      /\ insertion.end = version_map[r][r] + len
      /\ insertion.lam = HighestLamport(lamport_r)
  OBVIOUS
<1>4. CASE new.new
  <2>1. run_clock_r = run_clock[r] + 1 /\ lamport_r = lamport_clock[r] + 1
    BY <1>4
  <2>2. HighestLamport(lamport_r) = lamport_clock[r]
    BY <1>2, <2>1 DEF HighestLamport
  <2> HIDE DEF new, run_clock_r, lamport_r, insertion
  <2>3. Inserts(r, insertion)
    BY <1>1, <1>2, <1>3, <2>1, <2>2 DEF Inserts
  <2>4. QED
    BY <1>1, <2>3
<1>5. CASE ~new.new
  <2>1. run_clock_r = run_clock[r] /\ lamport_r = lamport_clock[r]
    BY <1>5
  <2> HIDE DEF new, run_clock_r, lamport_r, insertion
  <2>2. UNCHANGED <<run_clock, lamport_clock>>
    BY <1>1, <1>2, <2>1
  <2>3. Inserts(r, insertion)
    BY <1>1, <1>2, <1>3, <2>1, <2>2 DEF Inserts
  <2>4. QED
    BY <1>1, <2>3
<1>6. QED
  BY <1>4, <1>5

LEMMA DeletedDeletes ==
    ASSUME TypeOK, NEW r \in ReplicaIds, NEW from, NEW to,
           Deleted(r, from, to)
    PROVE  \E d \in deletions' : Deletes(r, d)
<1> DEFINE result == Delete(run_tree[r], from, to)
           known == [a \in ReplicaIds |-> IF a \in result.ids \cup {r}
                                          THEN version_map[r][a] ELSE 0]
           deletion == [by |-> r, ts |-> deletion_map[r][r] + 1,
                        start |-> result.start, end |-> result.end,
                        version_map |-> known]
<1>1. /\ r \in replicas
      /\ deletion_map' = [deletion_map EXCEPT ![r][r] = @ + 1]
      /\ deletions' = deletions \cup {deletion}
      /\ UNCHANGED <<replicas, run_clock, lamport_clock, version_map,
                     insertions>>
  BY DEF Deleted, Idle, Active
<1>2. ASSUME NEW a \in ReplicaIds PROVE known[a] <= version_map[r][a]
  <2>1. version_map[r][a] \in Nat
    BY DEF TypeOK
  <2>2. known[a] = version_map[r][a] \/ known[a] = 0
    OBVIOUS
  <2> HIDE DEF known
  <2>3. QED
    BY <2>1, <2>2
<1>3. /\ deletion.by = r /\ deletion.ts = deletion_map[r][r] + 1
      /\ deletion.version_map = known
  OBVIOUS
<1> HIDE DEF result, known, deletion
<1>4. Deletes(r, deletion)
  BY <1>1, <1>2, <1>3 DEF Deletes
<1>5. QED
  BY <1>1, <1>4

LEMMA MergedInsertionMerges ==
    ASSUME TypeOK, NEW r \in replicas, NEW m \in insertions,
           CanMergeInsertion(r, m), MergeUncheckedInsertion(r, m),
           UNCHANGED <<replicas, insertions, deletions>>
    PROVE  MergesInsertion(r, m) \/ LeavesClocks
<1>1. /\ version_map[r][m.by] = m.start /\ m.start \in Nat /\ m.end \in Nat
  BY DEF CanMergeInsertion, TypeOK, InsertionTypeOK
<1>2. version_map[r][m.by] + (m.end - m.start) = m.end
  BY <1>1
<1>3. QED
  BY <1>1, <1>2 DEF MergeUncheckedInsertion, MergesInsertion, LeavesClocks

LEMMA MergedDeletionMerges ==
    ASSUME NEW r \in replicas, NEW d \in deletions,
           CanMergeDeletion(r, d), MergeUncheckedDeletion(r, d),
           UNCHANGED <<replicas, insertions, deletions>>
    PROVE  MergesDeletion(r, d) \/ LeavesClocks
BY DEF MergeUncheckedDeletion, MergesDeletion, LeavesClocks

LEMMA NextBackloggedMerges ==
    ASSUME TypeOK, NEW r \in ReplicaIds,
           NextBackloggedInsertion(r) \/ NextBackloggedDeletion(r)
    PROVE  \/ \E m \in insertions : MergesInsertion(r, m)
           \/ \E d \in deletions : MergesDeletion(r, d)
           \/ LeavesClocks
<1> DEFINE a == iterator[r].current
<1>1. /\ r \in replicas /\ iterator[r] # NoIterator
      /\ UNCHANGED <<replicas, insertions, deletions>>
  BY DEF NextBackloggedInsertion, NextBackloggedDeletion, Active, NoIterator,
         sent_vars
<1>2. a \in ReplicaIds
  BY <1>1 DEF TypeOK, IteratorType
<1>3. CASE NextBackloggedInsertion(r)
  <2> DEFINE queue == insertions_backlog[r][a]
  <2>1. /\ queue \in Seq(insertions) /\ queue # <<>>
        /\ CanMergeInsertion(r, Head(queue))
        /\ MergeUncheckedInsertion(r, Head(queue))
    BY <1>2, <1>3 DEF TypeOK, NextBackloggedInsertion, CanMergeFirst
  <2>2. Head(queue) \in insertions
    BY <2>1, HeadTailProperties
  <2> HIDE DEF queue
  <2>3. MergesInsertion(r, Head(queue)) \/ LeavesClocks
    BY <1>1, <2>1, <2>2, MergedInsertionMerges
  <2>4. QED
    BY <2>2, <2>3
<1>4. CASE NextBackloggedDeletion(r)
  <2> DEFINE queue == deletions_backlog[r][a]
  <2>1. iterator[r].kind = "deletions"
    BY <1>4 DEF NextBackloggedDeletion
  <2>2. /\ queue # <<>>
        /\ CanMergeDeletion(r, Head(queue))
        /\ MergeUncheckedDeletion(r, Head(queue))
    BY <2>1, <1>4 DEF NextBackloggedDeletion, CanMergeFirst
  <2>3. queue \in Seq(deletions)
    BY <1>2 DEF TypeOK
  <2>4. Head(queue) \in deletions
    BY <2>2, <2>3, HeadTailProperties
  <2> HIDE DEF queue
  <2>5. MergesDeletion(r, Head(queue)) \/ LeavesClocks
    BY <1>1, <2>2, <2>4, MergedDeletionMerges
  <2>6. QED
    BY <2>4, <2>5
<1>5. QED
  BY <1>3, <1>4

(* Every step does one of five things to the clocks, or nothing.           *)
LEMMA ClockSteps ==
    ASSUME TypeOK, [Next]_vars
    PROVE  \/ \E r, new \in ReplicaIds : Fork(r, new)
           \/ \E r \in ReplicaIds : \E m \in insertions' : Inserts(r, m)
           \/ \E r \in ReplicaIds : \E d \in deletions' : Deletes(r, d)
           \/ \E r \in ReplicaIds : \E m \in insertions : MergesInsertion(r, m)
           \/ \E r \in ReplicaIds : \E d \in deletions : MergesDeletion(r, d)
           \/ LeavesClocks
<1>1. CASE UNCHANGED vars
  BY <1>1 DEF vars, clock_vars, sent_vars, LeavesClocks
<1>2. CASE Next
  <2>1. PICK r \in ReplicaIds :
          \/ \E new \in ReplicaIds : Fork(r, new)
          \/ InsertedAnywhere(r)
          \/ DeletedAnywhere(r)
          \/ \E m \in insertions : IntegrateInsertion(r, m)
          \/ \E d \in deletions : IntegrateDeletion(r, d)
          \/ BackloggedInsertions(r)
          \/ BackloggedDeletions(r)
          \/ NextBackloggedInsertion(r)
          \/ NextBackloggedDeletion(r)
          \/ NextQueue(r)
          \/ DropIterator(r)
    BY <1>2 DEF Next
  <2>2. CASE InsertedAnywhere(r)
    BY <2>2, InsertedInserts DEF InsertedAnywhere
  <2>3. CASE DeletedAnywhere(r)
    BY <2>3, DeletedDeletes DEF DeletedAnywhere
  <2>4. ASSUME NEW m \in insertions, IntegrateInsertion(r, m)
        PROVE  MergesInsertion(r, m) \/ LeavesClocks
    <3>1. r \in replicas /\ UNCHANGED <<replicas, insertions, deletions>>
      BY <2>4 DEF IntegrateInsertion, Idle, Active, sent_vars
    <3>2. CASE CanMergeInsertion(r, m) /\ MergeUncheckedInsertion(r, m)
      BY <3>1, <3>2, MergedInsertionMerges
    <3>3. CASE BacklogInsertion(r, m)
      BY <3>1, <3>3 DEF BacklogInsertion, LeavesClocks
    <3>4. QED
      BY <2>4, <3>2, <3>3 DEF IntegrateInsertion
  <2>5. ASSUME NEW d \in deletions, IntegrateDeletion(r, d)
        PROVE  MergesDeletion(r, d) \/ LeavesClocks
    <3>1. r \in replicas /\ UNCHANGED <<replicas, insertions, deletions>>
      BY <2>5 DEF IntegrateDeletion, Idle, Active, sent_vars
    <3>2. CASE CanMergeDeletion(r, d) /\ MergeUncheckedDeletion(r, d)
      BY <3>1, <3>2, MergedDeletionMerges
    <3>3. CASE BacklogDeletion(r, d)
      BY <3>1, <3>3 DEF BacklogDeletion, LeavesClocks
    <3>4. QED
      BY <2>5, <3>2, <3>3 DEF IntegrateDeletion
  <2>6. CASE NextBackloggedInsertion(r) \/ NextBackloggedDeletion(r)
    BY <2>6, NextBackloggedMerges
  <2>7. CASE BackloggedInsertions(r) \/ BackloggedDeletions(r)
    BY <2>7 DEF BackloggedInsertions, BackloggedDeletions, StartIterator,
                sent_vars, LeavesClocks
  <2>8. CASE NextQueue(r) \/ DropIterator(r)
    BY <2>8 DEF NextQueue, DropIterator, sent_vars, LeavesClocks
  <2>9. QED
    BY <2>1, <2>2, <2>3, <2>4, <2>5, <2>6, <2>7, <2>8
<1>3. QED
  BY <1>1, <1>2

------------------------------------------------------------------------------
(* The clock invariant, step by step.                                      *)

LEMMA ClocksInit == Init => ClockInvariant
<1> SUFFICES ASSUME Init PROVE ClockInvariant
  OBVIOUS
<1>1. /\ replicas = {Creator} \cup InitialPeers /\ replicas \subseteq ReplicaIds
      /\ lamport_clock = [r \in ReplicaIds |-> 1]
      /\ version_map = [r \in ReplicaIds |->
           [a \in ReplicaIds |-> IF a = Creator THEN InitialLen ELSE 0]]
      /\ deletion_map = [r \in ReplicaIds |-> [a \in ReplicaIds |-> 0]]
      /\ insertions = {} /\ deletions = {}
  BY InitialAssumption DEF Init
<1>2. LamportClocksStarted
  BY <1>1 DEF LamportClocksStarted
<1>3. NothingOfTheUnborn /\ NobodyKnowsMore
  BY <1>1, InitialAssumption DEF NothingOfTheUnborn, NobodyKnowsMore
<1>4. QED
  BY <1>1, <1>2, <1>3
     DEF ClockInvariant, InsertionsAreCounted, InsertionsAreDisjoint,
         DeletionsAreCounted, DeletionsAreNumbered, LamportClockIsAhead,
         DeletionsAreCausal

(* A new replica may start from the clocks of any replica, or from what    *)
(* they once were: they know of no edit that was not made, the Lamport     *)
(* clock is ahead, and the deletions are causal.                           *)
LEMMA ClocksJoin ==
    ASSUME ClockTypes, ClockInvariant, NEW new \in ReplicaIds \ replicas,
           NEW versions \in [ReplicaIds -> Nat],
           NEW deletion_versions \in [ReplicaIds -> Nat],
           NEW lamport \in Nat, lamport > 0,
           \A a \in ReplicaIds \ replicas :
              versions[a] = 0 /\ deletion_versions[a] = 0,
           \A a \in replicas :
              /\ versions[a] <= version_map[a][a]
              /\ deletion_versions[a] <= deletion_map[a][a],
           \A m \in insertions : versions[m.by] > m.start => m.lam < lamport,
           \A d \in deletions :
              deletion_versions[d.by] >= d.ts
                => \A a \in ReplicaIds : versions[a] >= d.version_map[a],
           replicas' = replicas \cup {new},
           lamport_clock' = [lamport_clock EXCEPT ![new] = lamport],
           version_map' =
             [version_map EXCEPT ![new] = [versions EXCEPT ![new] = 0]],
           deletion_map' =
             [deletion_map EXCEPT ![new] = [deletion_versions EXCEPT ![new] = 0]],
           UNCHANGED <<insertions, deletions>>
    PROVE  ClockInvariant'
<1>1. /\ lamport_clock'[new] = lamport
      /\ \A s \in ReplicaIds \ {new} : lamport_clock'[s] = lamport_clock[s]
  BY DEF ClockTypes
<1>2. /\ version_map'[new] = versions /\ deletion_map'[new] = deletion_versions
      /\ \A s \in ReplicaIds \ {new} :
            /\ version_map'[s] = version_map[s]
            /\ deletion_map'[s] = deletion_map[s]
  <2>1. /\ [versions EXCEPT ![new] = 0] = versions
        /\ [deletion_versions EXCEPT ![new] = 0] = deletion_versions
    OBVIOUS
  <2>2. QED
    BY <2>1 DEF ClockTypes
<1>3. /\ replicas \subseteq ReplicaIds
      /\ \A m \in insertions : m.by \in replicas
      /\ \A d \in deletions : d.by \in replicas
  BY DEF ClockInvariant, InsertionsAreCounted, DeletionsAreCounted, ClockTypes
<1>4. LamportClocksStarted'
  BY <1>1 DEF ClockInvariant, LamportClocksStarted
<1>5. InsertionsAreCounted' /\ InsertionsAreDisjoint'
  BY <1>2, <1>3 DEF ClockInvariant, InsertionsAreCounted, InsertionsAreDisjoint
<1>6. DeletionsAreCounted' /\ DeletionsAreNumbered'
  BY <1>2, <1>3 DEF ClockInvariant, DeletionsAreCounted, DeletionsAreNumbered
<1>7. NothingOfTheUnborn'
  BY <1>2, <1>3 DEF ClockInvariant, NothingOfTheUnborn, ClockTypes
<1>8. NobodyKnowsMore'
  <2> SUFFICES ASSUME NEW s \in replicas', NEW a \in replicas'
               PROVE  /\ version_map'[s][a] <= version_map'[a][a]
                      /\ deletion_map'[s][a] <= deletion_map'[a][a]
    BY DEF NobodyKnowsMore
  <2>1. s \in ReplicaIds /\ a \in ReplicaIds
    BY <1>3
  <2>2. CASE a = new
    <3>1. s # new => version_map[s][a] = 0 /\ deletion_map[s][a] = 0
      BY <2>1, <2>2 DEF ClockInvariant, NothingOfTheUnborn
    <3>2. QED
      BY <1>2, <2>1, <2>2, <3>1
  <2>3. CASE a # new
    <3>1. a \in replicas
      BY <2>3
    <3>2. s # new => /\ version_map[s][a] <= version_map[a][a]
                     /\ deletion_map[s][a] <= deletion_map[a][a]
      BY <3>1 DEF ClockInvariant, NobodyKnowsMore
    <3>3. QED
      BY <1>2, <2>1, <2>3, <3>1, <3>2
  <2>4. QED
    BY <2>2, <2>3
<1>9. LamportClockIsAhead'
  <2> SUFFICES ASSUME NEW s \in replicas', NEW m \in insertions,
                      version_map'[s][m.by] > m.start
               PROVE  m.lam < lamport_clock'[s]
    BY DEF LamportClockIsAhead, HasMergedInsertion
  <2>1. CASE s = new
    BY <1>1, <1>2, <2>1
  <2>2. CASE s # new
    BY <1>1, <1>2, <1>3, <2>2
       DEF ClockInvariant, LamportClockIsAhead, HasMergedInsertion
  <2>3. QED
    BY <2>1, <2>2
<1>10. DeletionsAreCausal'
  <2> SUFFICES ASSUME NEW s \in replicas', NEW d \in deletions,
                      deletion_map'[s][d.by] >= d.ts, NEW a \in ReplicaIds
               PROVE  version_map'[s][a] >= d.version_map[a]
    BY DEF DeletionsAreCausal, HasMergedDeletion
  <2>1. CASE s = new
    BY <1>2, <2>1
  <2>2. CASE s # new
    BY <1>2, <1>3, <2>2
       DEF ClockInvariant, DeletionsAreCausal, HasMergedDeletion
  <2>3. QED
    BY <2>1, <2>2
<1>11. QED
  BY <1>4, <1>5, <1>6, <1>7, <1>8, <1>9, <1>10 DEF ClockInvariant

LEMMA ClocksFork ==
    ASSUME ClockTypes, ClockInvariant, NEW r \in ReplicaIds,
           NEW new \in ReplicaIds, Fork(r, new)
    PROVE  ClockInvariant'
<1>1. r \in replicas /\ new \in ReplicaIds \ replicas
  BY DEF Fork, Idle, Active
<1>2. /\ version_map[r] \in [ReplicaIds -> Nat]
      /\ deletion_map[r] \in [ReplicaIds -> Nat]
      /\ lamport_clock[r] \in Nat
  BY <1>1 DEF ClockTypes
<1>3. lamport_clock[r] > 0
  BY <1>1 DEF ClockInvariant, LamportClocksStarted
<1>4. /\ \A a \in ReplicaIds \ replicas :
            version_map[r][a] = 0 /\ deletion_map[r][a] = 0
      /\ \A a \in replicas : /\ version_map[r][a] <= version_map[a][a]
                             /\ deletion_map[r][a] <= deletion_map[a][a]
  BY <1>1 DEF ClockInvariant, NothingOfTheUnborn, NobodyKnowsMore
<1>5. \A m \in insertions :
         version_map[r][m.by] > m.start => m.lam < lamport_clock[r]
  BY <1>1 DEF ClockInvariant, LamportClockIsAhead, HasMergedInsertion
<1>6. \A d \in deletions :
         deletion_map[r][d.by] >= d.ts
           => \A a \in ReplicaIds : version_map[r][a] >= d.version_map[a]
  BY <1>1 DEF ClockInvariant, DeletionsAreCausal, HasMergedDeletion
<1>7. /\ replicas' = replicas \cup {new}
      /\ lamport_clock' = [lamport_clock EXCEPT ![new] = lamport_clock[r]]
      /\ version_map' =
           [version_map EXCEPT ![new] = [version_map[r] EXCEPT ![new] = 0]]
      /\ deletion_map' =
           [deletion_map EXCEPT ![new] = [deletion_map[r] EXCEPT ![new] = 0]]
      /\ UNCHANGED <<insertions, deletions>>
  BY DEF Fork, sent_vars
<1>8. QED
  BY <1>1, <1>2, <1>3, <1>4, <1>5, <1>6, <1>7, ClocksJoin

LEMMA ClocksInserts ==
    ASSUME ClockTypes, ClockTypes', ClockInvariant, NEW r \in ReplicaIds,
           NEW m \in insertions', Inserts(r, m)
    PROVE  ClockInvariant'
<1>1. /\ r \in replicas /\ m.by = r
      /\ m.start = version_map[r][r] /\ m.start < m.end
      /\ m.start \in Nat /\ m.end \in Nat /\ m.lam \in Nat
      /\ insertions' = insertions \cup {m}
      /\ UNCHANGED <<replicas, deletion_map, deletions>>
  BY DEF Inserts, ClockTypes
<1>2. /\ version_map'[r][r] = m.end
      /\ \A s, a \in ReplicaIds :
            s # r \/ a # r => version_map'[s][a] = version_map[s][a]
  BY DEF Inserts, ClockTypes
<1>3. /\ m.lam < lamport_clock'[r] /\ lamport_clock[r] <= lamport_clock'[r]
      /\ \A s \in ReplicaIds \ {r} : lamport_clock'[s] = lamport_clock[s]
  <2>1. lamport_clock[r] \in Nat /\ lamport_clock[r] > 0
    BY DEF ClockTypes, ClockInvariant, LamportClocksStarted
  <2>2. QED
    BY <2>1 DEF Inserts, ClockTypes, HighestLamport
<1>4. \A s, a \in ReplicaIds : /\ version_map[s][a] \in Nat
                               /\ version_map[s][a] <= version_map'[s][a]
  <2>1. \A s, a \in ReplicaIds : version_map[s][a] \in Nat
    BY DEF ClockTypes
  <2>2. QED
    BY <1>1, <1>2, <2>1
<1>5. /\ replicas \subseteq ReplicaIds
      /\ \A n \in insertions : /\ n.by \in ReplicaIds /\ n.start \in Nat
                               /\ n.end \in Nat /\ n.lam \in Nat
  BY DEF ClockTypes
<1>6. ASSUME NEW s \in ReplicaIds
      PROVE  /\ lamport_clock[s] \in Nat /\ lamport_clock'[s] \in Nat
             /\ lamport_clock[s] <= lamport_clock'[s]
             /\ lamport_clock'[s] > 0
  <2>1. /\ lamport_clock[s] \in Nat /\ lamport_clock'[s] \in Nat
        /\ lamport_clock[s] > 0
    BY DEF ClockTypes, ClockInvariant, LamportClocksStarted
  <2>2. s = r \/ lamport_clock'[s] = lamport_clock[s]
    BY <1>3
  <2>3. QED
    BY <1>3, <2>1, <2>2
<1>7. InsertionsAreCounted'
  <2>1. \A n \in insertions : /\ n.by \in replicas /\ n.start < n.end
                              /\ n.end <= version_map[n.by][n.by]
    BY DEF ClockInvariant, InsertionsAreCounted
  <2>2. ASSUME NEW n \in insertions
        PROVE  n.end <= version_map'[n.by][n.by]
    <3>1. /\ version_map[n.by][n.by] <= version_map'[n.by][n.by]
          /\ n.end <= version_map[n.by][n.by]
          /\ n.end \in Nat /\ version_map[n.by][n.by] \in Nat
          /\ version_map'[n.by][n.by] \in Nat
      BY <1>4, <1>5, <2>1 DEF ClockTypes
    <3>2. QED
      BY <3>1
  <2>3. QED
    BY <1>1, <1>2, <2>1, <2>2 DEF InsertionsAreCounted
<1>8. InsertionsAreDisjoint'
  <2>1. \A n \in insertions : n.by = r => n.end <= m.start
    BY <1>1 DEF ClockInvariant, InsertionsAreCounted
  <2>2. QED
    BY <1>1, <2>1 DEF ClockInvariant, InsertionsAreDisjoint
<1>9. DeletionsAreCounted'
  <2> SUFFICES ASSUME NEW d \in deletions
               PROVE  /\ d.by \in replicas
                      /\ 0 < d.ts /\ d.ts <= deletion_map[d.by][d.by]
                      /\ \A a \in ReplicaIds :
                            d.version_map[a] <= version_map'[d.by][a]
    BY <1>1 DEF DeletionsAreCounted
  <2>1. /\ d.by \in replicas
        /\ 0 < d.ts /\ d.ts <= deletion_map[d.by][d.by]
        /\ \A a \in ReplicaIds : d.version_map[a] <= version_map[d.by][a]
    BY DEF ClockInvariant, DeletionsAreCounted
  <2>2. ASSUME NEW a \in ReplicaIds
        PROVE  d.version_map[a] <= version_map'[d.by][a]
    <3>1. /\ d.version_map[a] \in Nat /\ version_map[d.by][a] \in Nat
          /\ version_map'[d.by][a] \in Nat
          /\ version_map[d.by][a] <= version_map'[d.by][a]
      BY <1>4, <1>5, <2>1 DEF ClockTypes
    <3>2. QED
      BY <2>1, <3>1
  <2>3. QED
    BY <2>1, <2>2
<1>10. DeletionsAreNumbered'
  BY <1>1 DEF ClockInvariant, DeletionsAreNumbered
<1>11. NothingOfTheUnborn'
  BY <1>1, <1>2, <1>5 DEF ClockInvariant, NothingOfTheUnborn
<1>12. NobodyKnowsMore'
  <2> SUFFICES ASSUME NEW s \in replicas, NEW a \in replicas
               PROVE  version_map'[s][a] <= version_map'[a][a]
    BY <1>1 DEF ClockInvariant, NobodyKnowsMore
  <2>1. /\ version_map[s][a] <= version_map[a][a]
        /\ version_map[a][a] <= version_map'[a][a]
        /\ version_map[s][a] \in Nat /\ version_map[a][a] \in Nat
        /\ version_map'[s][a] \in Nat /\ version_map'[a][a] \in Nat
        /\ s # a => version_map'[s][a] = version_map[s][a]
    BY <1>2, <1>4, <1>5 DEF ClockInvariant, NobodyKnowsMore, ClockTypes
  <2>2. QED
    BY <2>1
<1>13. LamportClockIsAhead'
  <2> SUFFICES ASSUME NEW s \in replicas, NEW n \in insertions',
                      version_map'[s][n.by] > n.start
               PROVE  n.lam < lamport_clock'[s]
    BY <1>1 DEF LamportClockIsAhead, HasMergedInsertion
  <2>1. CASE s = r /\ n = m
    BY <1>3, <2>1
  <2>2. CASE s # r /\ n = m
    <3>1. version_map[s][r] <= version_map[r][r]
      BY <1>1 DEF ClockInvariant, NobodyKnowsMore
    <3>2. /\ version_map'[s][r] = version_map[s][r]
          /\ version_map[s][r] \in Nat /\ version_map[r][r] \in Nat
      BY <1>2, <1>4, <1>5, <2>2
    <3>3. QED
      BY <1>1, <2>2, <3>1, <3>2
  <2>3. CASE n \in insertions
    <3>1. version_map[s][n.by] > n.start
      <4>1. CASE s = r /\ n.by = r
        BY <1>1, <1>5, <2>3, <4>1 DEF ClockInvariant, InsertionsAreCounted
      <4>2. CASE s # r \/ n.by # r
        BY <1>2, <1>5, <2>3, <4>2
      <4>3. QED
        BY <4>1, <4>2
    <3>2. n.lam < lamport_clock[s]
      BY <2>3, <3>1 DEF ClockInvariant, LamportClockIsAhead, HasMergedInsertion
    <3>3. /\ lamport_clock[s] <= lamport_clock'[s] /\ n.lam \in Nat
          /\ lamport_clock[s] \in Nat /\ lamport_clock'[s] \in Nat
      BY <1>5, <1>6, <2>3
    <3>4. QED
      BY <3>2, <3>3
  <2>4. QED
    BY <1>1, <2>1, <2>2, <2>3
<1>14. DeletionsAreCausal'
  <2> SUFFICES ASSUME NEW s \in replicas, NEW d \in deletions,
                      deletion_map[s][d.by] >= d.ts, NEW a \in ReplicaIds
               PROVE  version_map'[s][a] >= d.version_map[a]
    BY <1>1 DEF DeletionsAreCausal, HasMergedDeletion
  <2>1. version_map[s][a] >= d.version_map[a]
    BY DEF ClockInvariant, DeletionsAreCausal, HasMergedDeletion
  <2>2. /\ d.version_map[a] \in Nat /\ version_map[s][a] \in Nat
        /\ version_map'[s][a] \in Nat
        /\ version_map[s][a] <= version_map'[s][a]
    BY <1>4, <1>5 DEF ClockTypes
  <2>3. QED
    BY <2>1, <2>2
<1>15. QED
  BY <1>6, <1>7, <1>8, <1>9, <1>10, <1>11, <1>12, <1>13, <1>14
     DEF ClockInvariant, LamportClocksStarted

LEMMA ClocksDeletes ==
    ASSUME ClockTypes, ClockTypes', ClockInvariant, NEW r \in ReplicaIds,
           NEW d \in deletions', Deletes(r, d)
    PROVE  ClockInvariant'
<1>1. /\ r \in replicas /\ d.by = r /\ d.ts = deletion_map[r][r] + 1
      /\ \A a \in ReplicaIds : d.version_map[a] <= version_map[r][a]
      /\ deletions' = deletions \cup {d}
      /\ UNCHANGED <<replicas, lamport_clock, version_map, insertions>>
  BY DEF Deletes
<1>2. /\ deletion_map'[r][r] = deletion_map[r][r] + 1
      /\ \A s, a \in ReplicaIds :
            s # r \/ a # r => deletion_map'[s][a] = deletion_map[s][a]
  BY <1>1 DEF Deletes, ClockTypes
<1>3. /\ replicas \subseteq ReplicaIds
      /\ \A s, a \in ReplicaIds : deletion_map[s][a] \in Nat
      /\ \A e \in deletions : e.by \in ReplicaIds /\ e.ts \in Nat
      /\ \A s, a \in ReplicaIds : version_map[s][a] \in Nat
  BY DEF ClockTypes
<1>4. LamportClocksStarted' /\ InsertionsAreCounted' /\ InsertionsAreDisjoint'
  BY <1>1 DEF ClockInvariant, LamportClocksStarted, InsertionsAreCounted,
              InsertionsAreDisjoint
<1>5. \A e \in deletions : e.by = r => e.ts <= deletion_map[r][r]
  BY DEF ClockInvariant, DeletionsAreCounted
<1>6. DeletionsAreCounted'
  <2>1. ASSUME NEW e \in deletions
        PROVE  /\ e.by \in replicas
               /\ 0 < e.ts /\ e.ts <= deletion_map'[e.by][e.by]
               /\ \A a \in ReplicaIds : e.version_map[a] <= version_map[e.by][a]
    <3>1. /\ e.by \in replicas /\ 0 < e.ts
          /\ e.ts <= deletion_map[e.by][e.by]
          /\ \A a \in ReplicaIds : e.version_map[a] <= version_map[e.by][a]
      BY DEF ClockInvariant, DeletionsAreCounted
    <3>2. e.ts <= deletion_map'[e.by][e.by]
      BY <1>2, <1>3, <3>1
    <3>3. QED
      BY <3>1, <3>2
  <2>2. 0 < d.ts /\ d.ts <= deletion_map'[r][r]
    BY <1>1, <1>2, <1>3
  <2>3. QED
    BY <1>1, <2>1, <2>2 DEF DeletionsAreCounted
<1>7. DeletionsAreNumbered'
  <2>1. \A e \in deletions : ~(e.by = r /\ e.ts = d.ts)
    BY <1>1, <1>3, <1>5
  <2>2. QED
    BY <1>1, <2>1 DEF ClockInvariant, DeletionsAreNumbered
<1>8. NothingOfTheUnborn'
  BY <1>1, <1>2, <1>3 DEF ClockInvariant, NothingOfTheUnborn
<1>9. NobodyKnowsMore'
  <2> SUFFICES ASSUME NEW s \in replicas, NEW a \in replicas
               PROVE  deletion_map'[s][a] <= deletion_map'[a][a]
    BY <1>1 DEF ClockInvariant, NobodyKnowsMore
  <2>1. /\ deletion_map[s][a] <= deletion_map[a][a]
        /\ deletion_map[s][a] \in Nat /\ deletion_map[a][a] \in Nat
        /\ s # a => deletion_map'[s][a] = deletion_map[s][a]
        /\ deletion_map[a][a] <= deletion_map'[a][a]
        /\ deletion_map'[a][a] \in Nat
    BY <1>2, <1>3 DEF ClockInvariant, NobodyKnowsMore
  <2>2. QED
    BY <2>1
<1>10. LamportClockIsAhead'
  BY <1>1 DEF ClockInvariant, LamportClockIsAhead, HasMergedInsertion
<1>11. DeletionsAreCausal'
  <2> SUFFICES ASSUME NEW s \in replicas, NEW e \in deletions',
                      deletion_map'[s][e.by] >= e.ts
               PROVE  \A a \in ReplicaIds : version_map[s][a] >= e.version_map[a]
    BY <1>1 DEF DeletionsAreCausal, HasMergedDeletion
  <2>1. CASE e = d /\ s = r
    BY <1>1, <1>3, <2>1 DEF ClockTypes
  <2>2. CASE e = d /\ s # r
    <3>1. deletion_map[s][r] <= deletion_map[r][r]
      BY <1>1 DEF ClockInvariant, NobodyKnowsMore
    <3>2. QED
      BY <1>1, <1>2, <1>3, <2>2, <3>1
  <2>3. CASE e \in deletions
    <3>1. deletion_map[s][e.by] >= e.ts
      <4>1. CASE s = r /\ e.by = r
        BY <1>3, <1>5, <2>3, <4>1
      <4>2. CASE s # r \/ e.by # r
        BY <1>2, <1>3, <2>3, <4>2
      <4>3. QED
        BY <4>1, <4>2
    <3>2. QED
      BY <2>3, <3>1 DEF ClockInvariant, DeletionsAreCausal, HasMergedDeletion
  <2>4. QED
    BY <1>1, <2>1, <2>2, <2>3
<1>12. QED
  BY <1>4, <1>6, <1>7, <1>8, <1>9, <1>10, <1>11 DEF ClockInvariant

LEMMA ClocksMergesInsertion ==
    ASSUME ClockTypes, ClockTypes', ClockInvariant, NEW r \in ReplicaIds,
           NEW m \in insertions, MergesInsertion(r, m)
    PROVE  ClockInvariant'
<1>1. /\ r \in replicas /\ version_map[r][m.by] = m.start
      /\ UNCHANGED <<replicas, run_clock, deletion_map, insertions, deletions>>
  BY DEF MergesInsertion
<1>2. /\ m.by \in replicas /\ m.start < m.end
      /\ m.end <= version_map[m.by][m.by]
  BY DEF ClockInvariant, InsertionsAreCounted
<1>3. /\ replicas \subseteq ReplicaIds
      /\ \A n \in insertions : /\ n.by \in ReplicaIds /\ n.start \in Nat
                               /\ n.end \in Nat /\ n.lam \in Nat
      /\ \A s, a \in ReplicaIds : /\ version_map[s][a] \in Nat
                                  /\ version_map'[s][a] \in Nat
      /\ \A s \in ReplicaIds : /\ lamport_clock[s] \in Nat
                               /\ lamport_clock'[s] \in Nat
  BY DEF ClockTypes
(* Nobody merges an insertion of its own, having counted it already.       *)
<1>4. m.by # r
  BY <1>1, <1>2, <1>3
<1>5. /\ version_map'[r][m.by] = m.end
      /\ \A s, a \in ReplicaIds :
            s # r \/ a # m.by => version_map'[s][a] = version_map[s][a]
  BY <1>3 DEF MergesInsertion, ClockTypes
<1>6. \A s, a \in ReplicaIds : version_map[s][a] <= version_map'[s][a]
  BY <1>1, <1>2, <1>3, <1>5
<1>7. \A a \in ReplicaIds : version_map'[a][a] = version_map[a][a]
  BY <1>4, <1>5
<1>8. /\ m.lam < lamport_clock'[r] /\ lamport_clock[r] <= lamport_clock'[r]
      /\ \A s \in ReplicaIds \ {r} : lamport_clock'[s] = lamport_clock[s]
  <2>1. /\ lamport_clock'[r] = MergedLamport(lamport_clock[r], m.lam)
        /\ \A s \in ReplicaIds \ {r} : lamport_clock'[s] = lamport_clock[s]
    BY DEF MergesInsertion, ClockTypes
  <2>2. QED
    BY <1>3, <2>1 DEF MergedLamport
<1>9. ASSUME NEW s \in ReplicaIds
      PROVE  /\ lamport_clock[s] <= lamport_clock'[s]
             /\ lamport_clock'[s] > 0
  <2>1. lamport_clock[s] > 0
    BY DEF ClockInvariant, LamportClocksStarted
  <2>2. s = r \/ lamport_clock'[s] = lamport_clock[s]
    BY <1>8
  <2>3. QED
    BY <1>3, <1>8, <2>1, <2>2
<1>10. InsertionsAreCounted' /\ InsertionsAreDisjoint'
  BY <1>1, <1>3, <1>7
     DEF ClockInvariant, InsertionsAreCounted, InsertionsAreDisjoint
<1>11. DeletionsAreCounted' /\ DeletionsAreNumbered'
  <2>1. ASSUME NEW d \in deletions
        PROVE  /\ d.by \in replicas
               /\ 0 < d.ts /\ d.ts <= deletion_map[d.by][d.by]
               /\ \A a \in ReplicaIds :
                     d.version_map[a] <= version_map'[d.by][a]
    <3>1. /\ d.by \in replicas
          /\ 0 < d.ts /\ d.ts <= deletion_map[d.by][d.by]
          /\ \A a \in ReplicaIds : d.version_map[a] <= version_map[d.by][a]
      BY DEF ClockInvariant, DeletionsAreCounted
    <3>2. \A a \in ReplicaIds : d.version_map[a] \in Nat
      BY DEF ClockTypes
    <3>3. QED
      BY <1>3, <1>6, <3>1, <3>2
  <2>2. QED
    BY <1>1, <2>1 DEF ClockInvariant, DeletionsAreCounted, DeletionsAreNumbered
<1>12. NothingOfTheUnborn'
  BY <1>1, <1>2, <1>3, <1>5 DEF ClockInvariant, NothingOfTheUnborn
<1>13. NobodyKnowsMore'
  <2> SUFFICES ASSUME NEW s \in replicas, NEW a \in replicas
               PROVE  version_map'[s][a] <= version_map'[a][a]
    BY <1>1 DEF ClockInvariant, NobodyKnowsMore
  <2>1. version_map[s][a] <= version_map[a][a]
    BY DEF ClockInvariant, NobodyKnowsMore
  <2>2. QED
    BY <1>2, <1>3, <1>5, <1>7, <2>1
<1>14. LamportClockIsAhead'
  <2> SUFFICES ASSUME NEW s \in replicas, NEW n \in insertions,
                      version_map'[s][n.by] > n.start
               PROVE  n.lam < lamport_clock'[s]
    BY <1>1 DEF LamportClockIsAhead, HasMergedInsertion
  <2>1. CASE s = r /\ n = m
    BY <1>8, <2>1
  <2>2. CASE version_map[s][n.by] > n.start
    <3>1. n.lam < lamport_clock[s]
      BY <2>2 DEF ClockInvariant, LamportClockIsAhead, HasMergedInsertion
    <3>2. QED
      BY <1>3, <1>9, <3>1
  (* What was not merged before starts where m does or later; being        *)
  (* disjoint from m, it starts after it.                                  *)
  <2>3. CASE ~(version_map[s][n.by] > n.start) /\ n # m
    <3>1. s = r /\ n.by = m.by
      BY <1>3, <1>5, <2>3
    <3>2. m.end <= n.start \/ n.end <= m.start
      BY <2>3, <3>1 DEF ClockInvariant, InsertionsAreDisjoint
    <3>3. n.start < n.end
      BY DEF ClockInvariant, InsertionsAreCounted
    <3>4. QED
      BY <1>1, <1>3, <1>5, <2>3, <3>1, <3>2, <3>3
  <2>4. CASE s # r /\ n = m
    BY <1>3, <1>5, <2>2, <2>4
  <2>5. QED
    BY <2>1, <2>2, <2>3, <2>4
<1>15. DeletionsAreCausal'
  <2> SUFFICES ASSUME NEW s \in replicas, NEW d \in deletions,
                      deletion_map[s][d.by] >= d.ts, NEW a \in ReplicaIds
               PROVE  version_map'[s][a] >= d.version_map[a]
    BY <1>1 DEF DeletionsAreCausal, HasMergedDeletion
  <2>1. version_map[s][a] >= d.version_map[a]
    BY DEF ClockInvariant, DeletionsAreCausal, HasMergedDeletion
  <2>2. d.version_map[a] \in Nat
    BY DEF ClockTypes
  <2>3. QED
    BY <1>3, <1>6, <2>1, <2>2
<1>16. QED
  BY <1>9, <1>10, <1>11, <1>12, <1>13, <1>14, <1>15
     DEF ClockInvariant, LamportClocksStarted

LEMMA ClocksMergesDeletion ==
    ASSUME ClockTypes, ClockTypes', ClockInvariant, NEW r \in ReplicaIds,
           NEW d \in deletions, MergesDeletion(r, d)
    PROVE  ClockInvariant'
<1>1. /\ r \in replicas /\ deletion_map[r][d.by] + 1 = d.ts
      /\ \A a \in ReplicaIds : version_map[r][a] >= d.version_map[a]
      /\ UNCHANGED <<replicas, lamport_clock, version_map, insertions,
                     deletions>>
  BY DEF MergesDeletion, CanMergeDeletion
<1>2. /\ replicas \subseteq ReplicaIds
      /\ \A s, a \in ReplicaIds : deletion_map[s][a] \in Nat
      /\ \A e \in deletions : e.by \in ReplicaIds /\ e.ts \in Nat
  BY DEF ClockTypes
<1>3. d.by \in replicas /\ d.ts <= deletion_map[d.by][d.by]
  BY DEF ClockInvariant, DeletionsAreCounted
<1>4. d.by # r
  BY <1>1, <1>2, <1>3
<1>5. /\ deletion_map'[r][d.by] = d.ts
      /\ \A s, a \in ReplicaIds :
            s # r \/ a # d.by => deletion_map'[s][a] = deletion_map[s][a]
  BY <1>2 DEF MergesDeletion, ClockTypes
<1>6. \A a \in ReplicaIds : deletion_map'[a][a] = deletion_map[a][a]
  BY <1>4, <1>5
<1>7. /\ LamportClocksStarted' /\ InsertionsAreCounted'
      /\ InsertionsAreDisjoint' /\ LamportClockIsAhead'
  BY <1>1 DEF ClockInvariant, LamportClocksStarted, InsertionsAreCounted,
              InsertionsAreDisjoint, LamportClockIsAhead, HasMergedInsertion
<1>8. DeletionsAreCounted' /\ DeletionsAreNumbered'
  BY <1>1, <1>2, <1>6
     DEF ClockInvariant, DeletionsAreCounted, DeletionsAreNumbered
<1>9. NothingOfTheUnborn'
  BY <1>1, <1>2, <1>3, <1>5 DEF ClockInvariant, NothingOfTheUnborn
<1>10. NobodyKnowsMore'
  <2> SUFFICES ASSUME NEW s \in replicas, NEW a \in replicas
               PROVE  deletion_map'[s][a] <= deletion_map'[a][a]
    BY <1>1 DEF ClockInvariant, NobodyKnowsMore
  <2>1. deletion_map[s][a] <= deletion_map[a][a]
    BY DEF ClockInvariant, NobodyKnowsMore
  <2>2. QED
    BY <1>2, <1>3, <1>5, <1>6, <2>1
<1>11. DeletionsAreCausal'
  <2> SUFFICES ASSUME NEW s \in replicas, NEW e \in deletions,
                      deletion_map'[s][e.by] >= e.ts
               PROVE  \A a \in ReplicaIds : version_map[s][a] >= e.version_map[a]
    BY <1>1 DEF DeletionsAreCausal, HasMergedDeletion
  <2>1. CASE e = d /\ s = r
    BY <1>1, <2>1
  <2>2. CASE deletion_map[s][e.by] >= e.ts
    BY <2>2 DEF ClockInvariant, DeletionsAreCausal, HasMergedDeletion
  (* Only d has d's number.                                                *)
  <2>3. CASE ~(deletion_map[s][e.by] >= e.ts)
    <3>1. s = r /\ e.by = d.by /\ e.ts = d.ts
      BY <1>1, <1>2, <1>5, <2>3
    <3>2. e = d
      BY <3>1 DEF ClockInvariant, DeletionsAreNumbered
    <3>3. QED
      BY <2>1, <3>1, <3>2
  <2>4. QED
    BY <2>2, <2>3
<1>12. QED
  BY <1>7, <1>8, <1>9, <1>10, <1>11 DEF ClockInvariant

LEMMA ClocksLeft ==
    ASSUME ClockInvariant, LeavesClocks
    PROVE  ClockInvariant'
BY DEF LeavesClocks, clock_vars, ClockInvariant, LamportClocksStarted,
       InsertionsAreCounted, InsertionsAreDisjoint, DeletionsAreCounted,
       DeletionsAreNumbered, NothingOfTheUnborn, NobodyKnowsMore,
       LamportClockIsAhead, DeletionsAreCausal, HasMergedInsertion,
       HasMergedDeletion

LEMMA ClocksNext ==
    TypeOK /\ ClockInvariant /\ [Next]_vars => TypeOK' /\ ClockInvariant'
<1> SUFFICES ASSUME TypeOK, ClockInvariant, [Next]_vars
             PROVE  TypeOK' /\ ClockInvariant'
  OBVIOUS
<1>1. TypeOK' /\ ClockTypes /\ ClockTypes'
  <2>1. TypeOK'
    BY TypeNext
  <2>2. ClockTypes /\ ClockTypes'
    BY <2>1, TypesOfClocks, PTL
  <2>3. QED
    BY <2>1, <2>2
<1>2. CASE \E r, new \in ReplicaIds : Fork(r, new)
  BY <1>1, <1>2, ClocksFork
<1>3. CASE \E r \in ReplicaIds : \E m \in insertions' : Inserts(r, m)
  BY <1>1, <1>3, ClocksInserts
<1>4. CASE \E r \in ReplicaIds : \E d \in deletions' : Deletes(r, d)
  BY <1>1, <1>4, ClocksDeletes
<1>5. CASE \E r \in ReplicaIds : \E m \in insertions : MergesInsertion(r, m)
  BY <1>1, <1>5, ClocksMergesInsertion
<1>6. CASE \E r \in ReplicaIds : \E d \in deletions : MergesDeletion(r, d)
  BY <1>1, <1>6, ClocksMergesDeletion
<1>7. CASE LeavesClocks
  BY <1>1, <1>7, ClocksLeft
<1>8. QED
  BY <1>1, <1>2, <1>3, <1>4, <1>5, <1>6, <1>7, ClockSteps

------------------------------------------------------------------------------
(* What the clocks guarantee.                                              *)

(* The clock invariant holds in every state.                               *)
THEOREM ClocksAreCorrect == Spec => [](TypeOK /\ ClockInvariant)
<1>1. Init => TypeOK /\ ClockInvariant
  BY TypeInit, ClocksInit
<1>2. TypeOK /\ ClockInvariant /\ [Next]_vars => (TypeOK /\ ClockInvariant)'
  BY ClocksNext
<1>3. QED
  BY <1>1, <1>2, PTL DEF Spec

(* A replica's Lamport clock is ahead of all it has merged.                *)
THEOREM LamportClocksAreAhead == Spec => []LamportClockIsAhead
<1>1. ClockInvariant => LamportClockIsAhead
  BY DEF ClockInvariant
<1>2. QED
  BY <1>1, ClocksAreCorrect, PTL

(* A deletion is merged only after all the text its sender knew of.        *)
THEOREM DeletionsWaitForTheirText == Spec => []DeletionsAreCausal
<1>1. ClockInvariant => DeletionsAreCausal
  BY DEF ClockInvariant
<1>2. QED
  BY <1>1, ClocksAreCorrect, PTL

(* The documented guarantee of the Lamport clock: a run has a higher       *)
(* timestamp than every run its inserter had merged.                       *)
THEOREM NewRunsSortFirst == Spec => NewRunsAreNewest
<1> DEFINE Newest ==
      \A r \in ReplicaIds :
         StartsRun(r) =>
            \A m \in insertions, n \in insertions' \ insertions :
                HasMergedInsertion(r, m) => m.lam < n.lam
<1>1. TypeOK /\ ClockInvariant /\ [Next]_vars => [Newest]_vars
  <2> SUFFICES ASSUME TypeOK, ClockInvariant, [Next]_vars,
                      NEW r \in ReplicaIds, StartsRun(r),
                      NEW m \in insertions, NEW n \in insertions' \ insertions,
                      HasMergedInsertion(r, m)
               PROVE  m.lam < n.lam
    OBVIOUS
  <2>1. m.lam < lamport_clock[r]
    BY DEF StartsRun, ClockInvariant, LamportClockIsAhead
  <2>2. ASSUME NEW s \in ReplicaIds, NEW new \in insertions', Inserts(s, new)
        PROVE  n.lam = lamport_clock[r]
    <3>1. n = new
      BY <2>2 DEF Inserts
    <3>2. s = r /\ run_clock' # run_clock
      BY <2>2 DEF Inserts, StartsRun, TypeOK
    <3>3. QED
      BY <2>2, <3>1, <3>2 DEF Inserts
  <2>3. \E s \in ReplicaIds : \E new \in insertions' : Inserts(s, new)
    <3>1. insertions' # insertions
      OBVIOUS
    <3>2. QED
      BY <3>1, ClockSteps DEF Fork, Deletes, MergesInsertion, MergesDeletion,
                              LeavesClocks, sent_vars
  <2>4. QED
    BY <2>1, <2>2, <2>3
<1>2. QED
  BY <1>1, ClocksAreCorrect, PTL DEF Spec, NewRunsAreNewest

------------------------------------------------------------------------------
(* The backlog, when no edit is handed over twice.                         *)

(* Elements of a set of edits that the clock invariant allows.             *)
AreInsertions(S) ==
    /\ \A m \in S : m.start \in Nat /\ m.end \in Nat /\ m.start < m.end
    /\ \A m, n \in S :
          m.by = n.by => m = n \/ m.end <= n.start \/ n.end <= m.start

AreDeletions(S) == \A d \in S : d.ts \in Nat

LEMMA SentEdits ==
    ASSUME TypeOK, ClockInvariant
    PROVE  AreInsertions(insertions) /\ AreDeletions(deletions)
<1>1. ClockTypes
  BY TypesOfClocks
<1>2. QED
  BY <1>1 DEF ClockTypes, ClockInvariant, InsertionsAreCounted,
              InsertionsAreDisjoint, AreInsertions, AreDeletions

LEMMA InsertionQueued ==
    ASSUME NEW S, AreInsertions(S), NEW q \in Seq(S), NEW m \in S,
           NEW merged \in Nat, merged <= m.start,
           InsertionsQueueOK(q, m.by, merged),
           NEW p \in 1 .. Len(q) + 1, IsPlaceOf(m.start, Starts(q), p)
    PROVE  InsertionsQueueOK(InsertAt(q, p, m), m.by, merged)
<1> DEFINE new == InsertAt(q, p, m)
<1>1. /\ Len(q) \in Nat /\ DOMAIN q = 1 .. Len(q)
      /\ \A k \in 1 .. Len(q) : q[k] \in S
  BY ElementOfSeq, LenProperties
<1>2. /\ DOMAIN new = 1 .. Len(q) + 1
      /\ \A k \in 1 .. Len(q) + 1 :
            new[k] = IF k < p THEN q[k] ELSE IF k = p THEN m ELSE q[k - 1]
  BY InsertAtProperties, LenProperties, SMTT(30)
<1> HIDE DEF new
<1>3. ASSUME NEW k \in 1 .. Len(q)
      PROVE  /\ q[k].by = m.by /\ merged <= q[k].start
             /\ q[k].start \in Nat /\ q[k].end \in Nat
             /\ k < p => q[k].end <= m.start
             /\ k >= p => m.end <= q[k].start
  <2>1. q[k].by = m.by /\ merged <= q[k].start
    BY <1>1 DEF InsertionsQueueOK
  <2>2. IF k < p THEN q[k].start < m.start ELSE m.start < q[k].start
    BY <1>1 DEF IsPlaceOf, Starts
  <2>3. /\ q[k].start \in Nat /\ q[k].end \in Nat /\ q[k].start < q[k].end
        /\ m.start \in Nat /\ m.end \in Nat /\ m.start < m.end
        /\ q[k] = m \/ q[k].end <= m.start \/ m.end <= q[k].start
    BY <1>1, <2>1 DEF AreInsertions
  <2>4. q[k] # m
    BY <2>2, <2>3
  <2>5. QED
    BY <2>1, <2>2, <2>3, <2>4
<1>4. ASSUME NEW j \in 1 .. Len(q), NEW k \in 1 .. Len(q), j < k
      PROVE  q[j].end <= q[k].start
  BY <1>1, <1>4 DEF InsertionsQueueOK
<1>5. ASSUME NEW k \in DOMAIN new
      PROVE  new[k].by = m.by /\ merged <= new[k].start
  <2>1. k < p \/ k = p \/ (k > p /\ k - 1 \in 1 .. Len(q))
    BY <1>1, <1>2
  <2>2. QED
    BY <1>1, <1>2, <1>3, <2>1
<1>6. ASSUME NEW j \in DOMAIN new, NEW k \in DOMAIN new, j < k
      PROVE  new[j].end <= new[k].start
  <2>1. CASE k < p
    <3>1. j \in 1 .. Len(q) /\ k \in 1 .. Len(q) /\ new[j] = q[j] /\ new[k] = q[k]
      BY <1>1, <1>2, <1>6, <2>1
    <3>2. QED
      BY <1>4, <1>6, <3>1
  <2>2. CASE k = p
    <3>1. j \in 1 .. Len(q) /\ j < p /\ new[j] = q[j] /\ new[k] = m
      BY <1>1, <1>2, <1>6, <2>2
    <3>2. QED
      BY <1>3, <3>1
  <2>3. CASE k > p /\ j < p
    <3>1. /\ j \in 1 .. Len(q) /\ k - 1 \in 1 .. Len(q) /\ j < k - 1
          /\ new[j] = q[j] /\ new[k] = q[k - 1]
      BY <1>1, <1>2, <1>6, <2>3
    <3>2. QED
      BY <1>4, <3>1
  <2>4. CASE k > p /\ j = p
    <3>1. /\ k - 1 \in 1 .. Len(q) /\ k - 1 >= p
          /\ new[j] = m /\ new[k] = q[k - 1]
      BY <1>1, <1>2, <1>6, <2>4
    <3>2. QED
      BY <1>3, <3>1
  <2>5. CASE k > p /\ j > p
    <3>1. /\ j - 1 \in 1 .. Len(q) /\ k - 1 \in 1 .. Len(q) /\ j - 1 < k - 1
          /\ new[j] = q[j - 1] /\ new[k] = q[k - 1]
      BY <1>1, <1>2, <1>6, <2>5
    <3>2. QED
      BY <1>4, <3>1
  <2>6. QED
    BY <1>1, <1>2, <2>1, <2>2, <2>3, <2>4, <2>5
<1>7. QED
  BY <1>5, <1>6 DEF InsertionsQueueOK, new

LEMMA DeletionQueued ==
    ASSUME NEW S, AreDeletions(S), NEW q \in Seq(S), NEW d \in S,
           NEW merged \in Nat, merged < d.ts,
           DeletionsQueueOK(q, d.by, merged),
           NEW p \in 1 .. Len(q) + 1, IsPlaceOf(d.ts, Timestamps(q), p)
    PROVE  DeletionsQueueOK(InsertAt(q, p, d), d.by, merged)
<1> DEFINE new == InsertAt(q, p, d)
<1>1. /\ Len(q) \in Nat /\ DOMAIN q = 1 .. Len(q)
      /\ \A k \in 1 .. Len(q) : q[k] \in S
  BY ElementOfSeq, LenProperties
<1>2. /\ DOMAIN new = 1 .. Len(q) + 1
      /\ \A k \in 1 .. Len(q) + 1 :
            new[k] = IF k < p THEN q[k] ELSE IF k = p THEN d ELSE q[k - 1]
  BY InsertAtProperties, LenProperties, SMTT(30)
<1> HIDE DEF new
<1>3. ASSUME NEW k \in 1 .. Len(q)
      PROVE  /\ q[k].by = d.by /\ merged < q[k].ts
             /\ k < p => q[k].ts < d.ts
             /\ k >= p => d.ts < q[k].ts
  <2>1. q[k].by = d.by /\ merged < q[k].ts
    BY <1>1 DEF DeletionsQueueOK
  <2>2. IF k < p THEN q[k].ts < d.ts ELSE d.ts < q[k].ts
    BY <1>1 DEF IsPlaceOf, Timestamps
  <2>3. QED
    BY <2>1, <2>2
<1>4. ASSUME NEW j \in 1 .. Len(q), NEW k \in 1 .. Len(q), j < k
      PROVE  q[j].ts < q[k].ts
  BY <1>1, <1>4 DEF DeletionsQueueOK
<1>5. ASSUME NEW k \in DOMAIN new
      PROVE  new[k].by = d.by /\ merged < new[k].ts
  <2>1. k < p \/ k = p \/ (k > p /\ k - 1 \in 1 .. Len(q))
    BY <1>1, <1>2
  <2>2. QED
    BY <1>1, <1>2, <1>3, <2>1
<1>6. ASSUME NEW j \in DOMAIN new, NEW k \in DOMAIN new, j < k
      PROVE  new[j].ts < new[k].ts
  <2>1. CASE k < p
    <3>1. j \in 1 .. Len(q) /\ k \in 1 .. Len(q) /\ new[j] = q[j] /\ new[k] = q[k]
      BY <1>1, <1>2, <1>6, <2>1
    <3>2. QED
      BY <1>4, <1>6, <3>1
  <2>2. CASE k = p
    <3>1. j \in 1 .. Len(q) /\ j < p /\ new[j] = q[j] /\ new[k] = d
      BY <1>1, <1>2, <1>6, <2>2
    <3>2. QED
      BY <1>3, <3>1
  <2>3. CASE k > p /\ j < p
    <3>1. /\ j \in 1 .. Len(q) /\ k - 1 \in 1 .. Len(q) /\ j < k - 1
          /\ new[j] = q[j] /\ new[k] = q[k - 1]
      BY <1>1, <1>2, <1>6, <2>3
    <3>2. QED
      BY <1>4, <3>1
  <2>4. CASE k > p /\ j = p
    <3>1. /\ k - 1 \in 1 .. Len(q) /\ k - 1 >= p
          /\ new[j] = d /\ new[k] = q[k - 1]
      BY <1>1, <1>2, <1>6, <2>4
    <3>2. QED
      BY <1>3, <3>1
  <2>5. CASE k > p /\ j > p
    <3>1. /\ j - 1 \in 1 .. Len(q) /\ k - 1 \in 1 .. Len(q) /\ j - 1 < k - 1
          /\ new[j] = q[j - 1] /\ new[k] = q[k - 1]
      BY <1>1, <1>2, <1>6, <2>5
    <3>2. QED
      BY <1>4, <3>1
  <2>6. QED
    BY <1>1, <1>2, <2>1, <2>2, <2>3, <2>4, <2>5
<1>7. QED
  BY <1>5, <1>6 DEF DeletionsQueueOK, new

(* Merging an insertion that is not queued leaves the queue behind it.     *)
LEMMA InsertionPassed ==
    ASSUME NEW S, AreInsertions(S), NEW q \in Seq(S), NEW m \in S,
           InsertionsQueueOK(q, m.by, m.start),
           \A k \in DOMAIN q : q[k].start # m.start
    PROVE  InsertionsQueueOK(q, m.by, m.end)
<1> SUFFICES ASSUME NEW k \in DOMAIN q PROVE m.end <= q[k].start
  BY DEF InsertionsQueueOK
<1>1. q[k] \in S
  BY ElementOfSeq, LenProperties
<1>2. /\ q[k].by = m.by /\ m.start <= q[k].start /\ q[k].start # m.start
  BY DEF InsertionsQueueOK
<1>3. QED
  BY <1>1, <1>2 DEF AreInsertions

LEMMA DeletionPassed ==
    ASSUME NEW S, AreDeletions(S), NEW q \in Seq(S), NEW d \in S,
           NEW merged \in Nat, merged + 1 = d.ts,
           DeletionsQueueOK(q, d.by, merged),
           \A k \in DOMAIN q : q[k].ts # d.ts
    PROVE  DeletionsQueueOK(q, d.by, d.ts)
<1> SUFFICES ASSUME NEW k \in DOMAIN q PROVE d.ts < q[k].ts
  BY DEF DeletionsQueueOK
<1>1. q[k] \in S
  BY ElementOfSeq, LenProperties
<1>2. merged < q[k].ts /\ q[k].ts # d.ts
  BY DEF DeletionsQueueOK
<1>3. QED
  BY <1>1, <1>2 DEF AreDeletions

(* Taking the first edit of a queue leaves the queue behind it.            *)
LEMMA InsertionTaken ==
    ASSUME NEW S, NEW q \in Seq(S), q # <<>>, NEW a,
           NEW merged, InsertionsQueueOK(q, a, merged)
    PROVE  /\ Head(q).by = a
           /\ InsertionsQueueOK(Tail(q), a, merged)
           /\ InsertionsQueueOK(Tail(q), a, Head(q).end)
<1>1. /\ Len(q) \in Nat /\ Len(q) > 0 /\ DOMAIN q = 1 .. Len(q)
      /\ Head(q) = q[1]
  BY LenProperties, EmptySeq
<1>2. /\ DOMAIN Tail(q) = 1 .. Len(q) - 1
      /\ \A k \in 1 .. Len(q) - 1 : Tail(q)[k] = q[k + 1]
  BY <1>1, HeadTailProperties, LenProperties
<1>3. \A k \in 1 .. Len(q) - 1 : k + 1 \in DOMAIN q /\ 1 \in DOMAIN q /\ 1 < k + 1
  BY <1>1
<1>4. \A k \in 1 .. Len(q) - 1 :
          /\ q[k + 1].by = a /\ merged <= q[k + 1].start
          /\ q[1].end <= q[k + 1].start
  BY <1>3 DEF InsertionsQueueOK
<1>5. \A j, k \in 1 .. Len(q) - 1 : j < k => q[j + 1].end <= q[k + 1].start
  <2>1. \A j, k \in 1 .. Len(q) - 1 : j < k => j + 1 < k + 1
    BY <1>1
  <2>2. QED
    BY <1>3, <2>1 DEF InsertionsQueueOK
<1>6. Head(q).by = a
  BY <1>1 DEF InsertionsQueueOK
<1> DEFINE rest == Tail(q)
<1>7. /\ DOMAIN rest = 1 .. Len(q) - 1
      /\ \A k \in 1 .. Len(q) - 1 : rest[k] = q[k + 1]
  BY <1>2
<1> HIDE DEF rest
<1>8. \A k \in DOMAIN rest : /\ rest[k].by = a /\ merged <= rest[k].start
                            /\ q[1].end <= rest[k].start
  BY <1>4, <1>7
<1>9. \A j, k \in DOMAIN rest : j < k => rest[j].end <= rest[k].start
  BY <1>5, <1>7
<1>10. /\ InsertionsQueueOK(rest, a, merged)
       /\ InsertionsQueueOK(rest, a, q[1].end)
  BY <1>8, <1>9 DEF InsertionsQueueOK
<1>11. QED
  BY <1>1, <1>6, <1>10 DEF rest

LEMMA DeletionTaken ==
    ASSUME NEW S, NEW q \in Seq(S), q # <<>>, NEW a,
           NEW merged, DeletionsQueueOK(q, a, merged)
    PROVE  /\ Head(q).by = a
           /\ DeletionsQueueOK(Tail(q), a, merged)
           /\ DeletionsQueueOK(Tail(q), a, Head(q).ts)
<1>1. /\ Len(q) \in Nat /\ Len(q) > 0 /\ DOMAIN q = 1 .. Len(q)
      /\ Head(q) = q[1]
  BY LenProperties, EmptySeq
<1>2. /\ DOMAIN Tail(q) = 1 .. Len(q) - 1
      /\ \A k \in 1 .. Len(q) - 1 : Tail(q)[k] = q[k + 1]
  BY <1>1, HeadTailProperties, LenProperties
<1>3. \A k \in 1 .. Len(q) - 1 : k + 1 \in DOMAIN q /\ 1 \in DOMAIN q /\ 1 < k + 1
  BY <1>1
<1>4. \A k \in 1 .. Len(q) - 1 :
          /\ q[k + 1].by = a /\ merged < q[k + 1].ts
          /\ q[1].ts < q[k + 1].ts
  BY <1>3 DEF DeletionsQueueOK
<1>5. \A j, k \in 1 .. Len(q) - 1 : j < k => q[j + 1].ts < q[k + 1].ts
  <2>1. \A j, k \in 1 .. Len(q) - 1 : j < k => j + 1 < k + 1
    BY <1>1
  <2>2. QED
    BY <1>3, <2>1 DEF DeletionsQueueOK
<1>6. Head(q).by = a
  BY <1>1 DEF DeletionsQueueOK
<1> DEFINE rest == Tail(q)
<1>7. /\ DOMAIN rest = 1 .. Len(q) - 1
      /\ \A k \in 1 .. Len(q) - 1 : rest[k] = q[k + 1]
  BY <1>2
<1> HIDE DEF rest
<1>8. \A k \in DOMAIN rest : /\ rest[k].by = a /\ merged < rest[k].ts
                            /\ q[1].ts < rest[k].ts
  BY <1>4, <1>7
<1>9. \A j, k \in DOMAIN rest : j < k => rest[j].ts < rest[k].ts
  BY <1>5, <1>7
<1>10. /\ DeletionsQueueOK(rest, a, merged)
       /\ DeletionsQueueOK(rest, a, q[1].ts)
  BY <1>8, <1>9 DEF DeletionsQueueOK
<1>11. QED
  BY <1>1, <1>6, <1>10 DEF rest

BacklogOf(r) ==
    \A a \in ReplicaIds :
        /\ InsertionsQueueOK(insertions_backlog[r][a], a, version_map[r][a])
        /\ DeletionsQueueOK(deletions_backlog[r][a], a, deletion_map[r][a])

(* A step of one replica leaves the others' backlogs alone.                *)
LEMMA OnlyBacklogOf ==
    ASSUME BacklogInvariants, NEW r \in replicas, replicas' = replicas,
           \A s \in replicas \ {r} :
               /\ insertions_backlog'[s] = insertions_backlog[s]
               /\ deletions_backlog'[s] = deletions_backlog[s]
               /\ version_map'[s] = version_map[s]
               /\ deletion_map'[s] = deletion_map[s],
           BacklogOf(r)'
    PROVE  BacklogInvariants'
BY DEF BacklogInvariants, BacklogOf

LEMMA BacklogFork ==
    ASSUME TypeOK, ClockInvariant, BacklogInvariants,
           NEW r \in ReplicaIds, NEW new \in ReplicaIds, Fork(r, new)
    PROVE  BacklogInvariants'
<1>1. /\ r \in replicas /\ new \notin replicas /\ r # new
      /\ replicas' = replicas \cup {new} /\ replicas \subseteq ReplicaIds
  BY DEF Fork, Idle, Active, TypeOK
<1>2. /\ insertions_backlog'[new] = insertions_backlog[r]
      /\ deletions_backlog'[new] = deletions_backlog[r]
      /\ \A s \in replicas :
            /\ insertions_backlog'[s] = insertions_backlog[s]
            /\ deletions_backlog'[s] = deletions_backlog[s]
            /\ version_map'[s] = version_map[s]
            /\ deletion_map'[s] = deletion_map[s]
  BY <1>1 DEF Fork, TypeOK
<1>3. /\ version_map'[new][new] = 0 /\ deletion_map'[new][new] = 0
      /\ \A a \in ReplicaIds \ {new} :
            /\ version_map'[new][a] = version_map[r][a]
            /\ deletion_map'[new][a] = deletion_map[r][a]
  BY DEF Fork, TypeOK
(* Nobody has an edit of a replica that does not exist yet.                *)
<1>4. /\ version_map[r][new] = 0 /\ deletion_map[r][new] = 0
  BY <1>1 DEF ClockInvariant, NothingOfTheUnborn
<1>5. \A a \in ReplicaIds : /\ version_map'[new][a] = version_map[r][a]
                            /\ deletion_map'[new][a] = deletion_map[r][a]
  BY <1>3, <1>4
<1>6. QED
  BY <1>1, <1>2, <1>5 DEF BacklogInvariants

LEMMA BacklogInserted ==
    ASSUME TypeOK, ClockInvariant, BacklogInvariants,
           NEW r \in ReplicaIds, NEW m \in insertions', Inserts(r, m),
           UNCHANGED <<insertions_backlog, deletions_backlog>>
    PROVE  BacklogInvariants'
<1>1. /\ r \in replicas /\ replicas' = replicas /\ replicas \subseteq ReplicaIds
      /\ deletion_map' = deletion_map
      /\ \A s, a \in ReplicaIds :
            s # r \/ a # r => version_map'[s][a] = version_map[s][a]
  BY TypesOfClocks DEF Inserts, ClockTypes
(* Its own insertions are never in its backlog.                            *)
<1>2. insertions_backlog[r][r] = <<>>
  <2> DEFINE q == insertions_backlog[r][r]
  <2> SUFFICES ASSUME q # <<>> PROVE FALSE
    OBVIOUS
  <2>1. q \in Seq(insertions)
    BY DEF TypeOK
  <2>2. Len(q) \in Nat /\ Len(q) > 0 /\ 1 \in DOMAIN q /\ q[1] \in insertions
    BY <2>1, LenProperties, EmptySeq, ElementOfSeq
  <2>3. q[1].by = r /\ version_map[r][r] <= q[1].start
    BY <1>1, <2>2 DEF BacklogInvariants, InsertionsQueueOK
  <2>4. q[1].end <= version_map[r][r] /\ q[1].start < q[1].end
    BY <2>2, <2>3 DEF ClockInvariant, InsertionsAreCounted
  <2>5. q[1].start \in Nat /\ q[1].end \in Nat /\ version_map[r][r] \in Nat
    BY <2>2, TypesOfClocks DEF ClockTypes
  <2> HIDE DEF q
  <2>6. QED
    BY <2>3, <2>4, <2>5
<1>3. InsertionsQueueOK(insertions_backlog[r][r], r, version_map'[r][r])
  BY <1>2 DEF InsertionsQueueOK
<1>4. QED
  BY <1>1, <1>3 DEF BacklogInvariants

LEMMA BacklogDeleted ==
    ASSUME TypeOK, ClockInvariant, BacklogInvariants,
           NEW r \in ReplicaIds, NEW d \in deletions', Deletes(r, d),
           UNCHANGED <<insertions_backlog, deletions_backlog>>
    PROVE  BacklogInvariants'
<1>1. /\ r \in replicas /\ replicas' = replicas /\ replicas \subseteq ReplicaIds
      /\ version_map' = version_map
      /\ \A s, a \in ReplicaIds :
            s # r \/ a # r => deletion_map'[s][a] = deletion_map[s][a]
  BY TypesOfClocks DEF Deletes, ClockTypes
<1>2. deletions_backlog[r][r] = <<>>
  <2> DEFINE q == deletions_backlog[r][r]
  <2> SUFFICES ASSUME q # <<>> PROVE FALSE
    OBVIOUS
  <2>1. q \in Seq(deletions)
    BY DEF TypeOK
  <2>2. Len(q) \in Nat /\ Len(q) > 0 /\ 1 \in DOMAIN q /\ q[1] \in deletions
    BY <2>1, LenProperties, EmptySeq, ElementOfSeq
  <2>3. q[1].by = r /\ deletion_map[r][r] < q[1].ts
    BY <1>1, <2>2 DEF BacklogInvariants, DeletionsQueueOK
  <2>4. q[1].ts <= deletion_map[r][r]
    BY <2>2, <2>3 DEF ClockInvariant, DeletionsAreCounted
  <2>5. q[1].ts \in Nat /\ deletion_map[r][r] \in Nat
    BY <2>2, TypesOfClocks DEF ClockTypes
  <2> HIDE DEF q
  <2>6. QED
    BY <2>3, <2>4, <2>5
<1>3. DeletionsQueueOK(deletions_backlog[r][r], r, deletion_map'[r][r])
  BY <1>2 DEF DeletionsQueueOK
<1>4. QED
  BY <1>1, <1>3 DEF BacklogInvariants

LEMMA BacklogIntegrateInsertion ==
    ASSUME TypeOK, ClockInvariant, BacklogInvariants, ~Redelivery,
           NEW r \in ReplicaIds, NEW m \in insertions, IntegrateInsertion(r, m)
    PROVE  BacklogInvariants'
<1> DEFINE q == insertions_backlog[r][m.by]
<1>1. /\ r \in replicas /\ replicas' = replicas /\ replicas \subseteq ReplicaIds
      /\ UNCHANGED <<insertions, deletions>>
  BY DEF IntegrateInsertion, Idle, Active, sent_vars, TypeOK
<1>2. /\ \A k \in DOMAIN q : q[k].start # m.start
      /\ version_map[r][m.by] <= m.start
      /\ m.by \in ReplicaIds /\ version_map[r][m.by] \in Nat /\ m.start \in Nat
      /\ q \in Seq(insertions) /\ AreInsertions(insertions)
  <2>1. ~IsBackloggedInsertion(r, m) /\ ~HasMergedInsertion(r, m)
    BY DEF IntegrateInsertion
  <2>2. m.by \in ReplicaIds /\ version_map[r][m.by] \in Nat /\ m.start \in Nat
    BY TypesOfClocks DEF ClockTypes
  <2>3. q \in Seq(insertions)
    BY <2>2 DEF TypeOK
  <2>4. QED
    BY <2>1, <2>2, <2>3, SentEdits
       DEF IsBackloggedInsertion, HasMergedInsertion
<1>3. InsertionsQueueOK(q, m.by, version_map[r][m.by])
  BY <1>1, <1>2 DEF BacklogInvariants
<1>4. CASE UNCHANGED <<clock_vars, backlog_vars>>
  BY <1>1, <1>4 DEF BacklogInvariants, clock_vars, backlog_vars
<1>5. CASE MergesInsertion(r, m) /\ UNCHANGED backlog_vars
  <2>1. InsertionsQueueOK(q, m.by, m.end)
    BY <1>2, <1>3, <1>5, InsertionPassed DEF MergesInsertion
  <2>2. /\ version_map'[r][m.by] = m.end
        /\ \A a \in ReplicaIds \ {m.by} : version_map'[r][a] = version_map[r][a]
        /\ \A s \in replicas \ {r} : version_map'[s] = version_map[s]
        /\ deletion_map' = deletion_map
    BY <1>1, <1>2, <1>5 DEF MergesInsertion, TypeOK
  <2>3. BacklogOf(r)'
    BY <1>1, <1>5, <2>1, <2>2 DEF BacklogInvariants, BacklogOf, backlog_vars
  <2>4. QED
    BY <1>1, <1>5, <2>2, <2>3, OnlyBacklogOf DEF backlog_vars
<1>6. CASE /\ \E p \in 1 .. Len(q) + 1 :
                 /\ IsPlaceOf(m.start, Starts(q), p)
                 /\ insertions_backlog' = [insertions_backlog EXCEPT
                                             ![r][m.by] = InsertAt(@, p, m)]
           /\ UNCHANGED <<clock_vars, deletions_backlog>>
  <2>1. PICK p \in 1 .. Len(q) + 1 :
           /\ IsPlaceOf(m.start, Starts(q), p)
           /\ insertions_backlog' = [insertions_backlog EXCEPT
                                       ![r][m.by] = InsertAt(@, p, m)]
    BY <1>6
  <2>2. InsertionsQueueOK(InsertAt(q, p, m), m.by, version_map[r][m.by])
    BY <1>2, <1>3, <2>1, InsertionQueued
  <2>3. /\ insertions_backlog'[r][m.by] = InsertAt(q, p, m)
        /\ \A a \in ReplicaIds \ {m.by} :
              insertions_backlog'[r][a] = insertions_backlog[r][a]
        /\ \A s \in replicas \ {r} :
              insertions_backlog'[s] = insertions_backlog[s]
    BY <1>1, <1>2, <2>1 DEF TypeOK
  <2> HIDE DEF q
  <2>4. BacklogOf(r)'
    BY <1>1, <1>6, <2>2, <2>3 DEF BacklogInvariants, BacklogOf, clock_vars
  <2>5. QED
    BY <1>1, <1>6, <2>3, <2>4, OnlyBacklogOf DEF clock_vars
<1>7. CASE CanMergeInsertion(r, m) /\ MergeUncheckedInsertion(r, m)
             /\ UNCHANGED backlog_vars
  <2>1. MergesInsertion(r, m)
          \/ UNCHANGED <<clock_vars, insertions, deletions>>
    BY <1>1, <1>7, MergedInsertionMerges DEF LeavesClocks
  <2>2. QED
    BY <1>4, <1>5, <1>7, <2>1
<1>8. CASE BacklogInsertion(r, m)
  BY <1>4, <1>6, <1>8 DEF BacklogInsertion
<1>9. QED
  BY <1>7, <1>8 DEF IntegrateInsertion

LEMMA BacklogIntegrateDeletion ==
    ASSUME TypeOK, ClockInvariant, BacklogInvariants, ~Redelivery,
           NEW r \in ReplicaIds, NEW d \in deletions, IntegrateDeletion(r, d)
    PROVE  BacklogInvariants'
<1> DEFINE q == deletions_backlog[r][d.by]
<1>1. /\ r \in replicas /\ replicas' = replicas /\ replicas \subseteq ReplicaIds
      /\ UNCHANGED <<insertions, deletions>>
  BY DEF IntegrateDeletion, Idle, Active, sent_vars, TypeOK
<1>2. /\ \A k \in DOMAIN q : q[k].ts # d.ts
      /\ deletion_map[r][d.by] < d.ts
      /\ d.by \in ReplicaIds /\ deletion_map[r][d.by] \in Nat /\ d.ts \in Nat
      /\ q \in Seq(deletions) /\ AreDeletions(deletions)
  <2>1. ~IsBackloggedDeletion(r, d) /\ ~HasMergedDeletion(r, d)
    BY DEF IntegrateDeletion
  <2>2. d.by \in ReplicaIds /\ deletion_map[r][d.by] \in Nat /\ d.ts \in Nat
    BY TypesOfClocks DEF ClockTypes
  <2>3. q \in Seq(deletions)
    BY <2>2 DEF TypeOK
  <2>4. QED
    BY <2>1, <2>2, <2>3, SentEdits DEF IsBackloggedDeletion, HasMergedDeletion
<1>3. DeletionsQueueOK(q, d.by, deletion_map[r][d.by])
  BY <1>1, <1>2 DEF BacklogInvariants
<1>4. CASE UNCHANGED <<clock_vars, backlog_vars>>
  BY <1>1, <1>4 DEF BacklogInvariants, clock_vars, backlog_vars
<1>5. CASE MergesDeletion(r, d) /\ UNCHANGED backlog_vars
  <2>1. DeletionsQueueOK(q, d.by, d.ts)
    BY <1>2, <1>3, <1>5, DeletionPassed DEF MergesDeletion, CanMergeDeletion
  <2>2. /\ deletion_map'[r][d.by] = d.ts
        /\ \A a \in ReplicaIds \ {d.by} :
              deletion_map'[r][a] = deletion_map[r][a]
        /\ \A s \in replicas \ {r} : deletion_map'[s] = deletion_map[s]
        /\ version_map' = version_map
    BY <1>1, <1>2, <1>5, TypesOfClocks DEF MergesDeletion, ClockTypes
  <2>3. BacklogOf(r)'
    BY <1>1, <1>5, <2>1, <2>2 DEF BacklogInvariants, BacklogOf, backlog_vars
  <2>4. QED
    BY <1>1, <1>5, <2>2, <2>3, OnlyBacklogOf DEF backlog_vars
<1>6. CASE /\ \E p \in 1 .. Len(q) + 1 :
                 /\ IsPlaceOf(d.ts, Timestamps(q), p)
                 /\ deletions_backlog' = [deletions_backlog EXCEPT
                                            ![r][d.by] = InsertAt(@, p, d)]
           /\ UNCHANGED <<clock_vars, insertions_backlog>>
  <2>1. PICK p \in 1 .. Len(q) + 1 :
           /\ IsPlaceOf(d.ts, Timestamps(q), p)
           /\ deletions_backlog' = [deletions_backlog EXCEPT
                                      ![r][d.by] = InsertAt(@, p, d)]
    BY <1>6
  <2>2. DeletionsQueueOK(InsertAt(q, p, d), d.by, deletion_map[r][d.by])
    BY <1>2, <1>3, <2>1, DeletionQueued
  <2>3. /\ deletions_backlog'[r][d.by] = InsertAt(q, p, d)
        /\ \A a \in ReplicaIds \ {d.by} :
              deletions_backlog'[r][a] = deletions_backlog[r][a]
        /\ \A s \in replicas \ {r} :
              deletions_backlog'[s] = deletions_backlog[s]
    BY <1>1, <1>2, <2>1 DEF TypeOK
  <2> HIDE DEF q
  <2>4. BacklogOf(r)'
    BY <1>1, <1>6, <2>2, <2>3 DEF BacklogInvariants, BacklogOf, clock_vars
  <2>5. QED
    BY <1>1, <1>6, <2>3, <2>4, OnlyBacklogOf DEF clock_vars
<1>7. CASE CanMergeDeletion(r, d) /\ MergeUncheckedDeletion(r, d)
             /\ UNCHANGED backlog_vars
  <2>1. MergesDeletion(r, d)
          \/ UNCHANGED <<clock_vars, insertions, deletions>>
    BY <1>1, <1>7, MergedDeletionMerges DEF LeavesClocks
  <2>2. QED
    BY <1>4, <1>5, <1>7, <2>1
<1>8. CASE BacklogDeletion(r, d)
  BY <1>4, <1>6, <1>8 DEF BacklogDeletion
<1>9. QED
  BY <1>7, <1>8 DEF IntegrateDeletion

(* The iterators take the first edit of a queue.                           *)
LEMMA BacklogNextInsertion ==
    ASSUME TypeOK, BacklogInvariants, NEW r \in ReplicaIds,
           NextBackloggedInsertion(r)
    PROVE  BacklogInvariants'
<1> DEFINE a == iterator[r].current
           q == insertions_backlog[r][a]
<1>1. /\ r \in replicas /\ replicas' = replicas /\ replicas \subseteq ReplicaIds
      /\ UNCHANGED <<insertions, deletions, deletions_backlog>>
      /\ iterator[r] # NoIterator /\ iterator[r].kind = "insertions"
      /\ insertions_backlog' = [insertions_backlog EXCEPT ![r][a] = Tail(@)]
      /\ MergeUncheckedInsertion(r, Head(q))
  BY DEF NextBackloggedInsertion, Active, NoIterator, sent_vars, TypeOK
<1>2. q # <<>> /\ CanMergeInsertion(r, Head(q))
  BY <1>1 DEF NextBackloggedInsertion, CanMergeFirst
<1>3. a \in ReplicaIds
  BY <1>1 DEF TypeOK, IteratorType
<1>4. /\ q \in Seq(insertions)
      /\ insertions_backlog'[r][a] = Tail(q)
      /\ \A b \in ReplicaIds \ {a} :
            insertions_backlog'[r][b] = insertions_backlog[r][b]
      /\ \A s \in replicas \ {r} :
            insertions_backlog'[s] = insertions_backlog[s]
  BY <1>1, <1>3 DEF TypeOK
<1>5. InsertionsQueueOK(q, a, version_map[r][a])
  BY <1>1, <1>3 DEF BacklogInvariants
<1> HIDE DEF q, a
<1>6. /\ Head(q) \in insertions /\ Head(q).by = a
      /\ InsertionsQueueOK(Tail(q), a, version_map[r][a])
      /\ InsertionsQueueOK(Tail(q), a, Head(q).end)
  BY <1>2, <1>4, <1>5, InsertionTaken, HeadTailProperties
<1>7. CASE MergesInsertion(r, Head(q))
  <2>1. /\ version_map'[r][a] = Head(q).end
        /\ \A b \in ReplicaIds \ {a} : version_map'[r][b] = version_map[r][b]
        /\ \A s \in replicas \ {r} : version_map'[s] = version_map[s]
        /\ deletion_map' = deletion_map
    BY <1>1, <1>3, <1>6, <1>7, TypesOfClocks DEF MergesInsertion, ClockTypes
  <2>2. BacklogOf(r)'
    <3>1. ASSUME NEW b \in ReplicaIds
          PROVE  /\ InsertionsQueueOK(insertions_backlog'[r][b], b,
                                      version_map'[r][b])
                 /\ DeletionsQueueOK(deletions_backlog'[r][b], b,
                                     deletion_map'[r][b])
      <4>1. CASE b = a
        <5>1. InsertionsQueueOK(insertions_backlog'[r][a], a,
                                version_map'[r][a])
          BY <1>4, <1>6, <2>1
        <5>2. DeletionsQueueOK(deletions_backlog'[r][a], a,
                               deletion_map'[r][a])
          <6>1. DeletionsQueueOK(deletions_backlog[r][a], a,
                                 deletion_map[r][a])
            BY <1>1, <1>3 DEF BacklogInvariants
          <6>2. QED
            BY <1>1, <2>1, <6>1
        <5>3. QED
          BY <4>1, <5>1, <5>2
      <4>2. CASE b # a
        BY <1>1, <1>4, <2>1, <4>2 DEF BacklogInvariants
      <4>3. QED
        BY <4>1, <4>2
    <3>2. QED
      BY <3>1 DEF BacklogOf
  <2>3. QED
    BY <1>1, <1>4, <2>1, <2>2, OnlyBacklogOf
<1>8. CASE LeavesClocks
  <2>1. BacklogOf(r)'
    BY <1>1, <1>4, <1>6, <1>8
       DEF BacklogInvariants, BacklogOf, LeavesClocks, clock_vars
  <2>2. QED
    BY <1>1, <1>4, <1>8, <2>1, OnlyBacklogOf DEF LeavesClocks, clock_vars
<1>9. QED
  BY <1>1, <1>2, <1>6, <1>7, <1>8, MergedInsertionMerges

LEMMA BacklogNextDeletion ==
    ASSUME TypeOK, BacklogInvariants, NEW r \in ReplicaIds,
           NextBackloggedDeletion(r)
    PROVE  BacklogInvariants'
<1> DEFINE a == iterator[r].current
           q == deletions_backlog[r][a]
<1>1. /\ r \in replicas /\ replicas' = replicas /\ replicas \subseteq ReplicaIds
      /\ UNCHANGED <<insertions, deletions, insertions_backlog>>
      /\ iterator[r] # NoIterator /\ iterator[r].kind = "deletions"
      /\ deletions_backlog' = [deletions_backlog EXCEPT ![r][a] = Tail(@)]
      /\ MergeUncheckedDeletion(r, Head(q))
  BY DEF NextBackloggedDeletion, Active, NoIterator, sent_vars, TypeOK
<1>2. q # <<>> /\ CanMergeDeletion(r, Head(q))
  BY <1>1 DEF NextBackloggedDeletion, CanMergeFirst
<1>3. a \in ReplicaIds
  BY <1>1 DEF TypeOK, IteratorType
<1>4. /\ q \in Seq(deletions)
      /\ deletions_backlog'[r][a] = Tail(q)
      /\ \A b \in ReplicaIds \ {a} :
            deletions_backlog'[r][b] = deletions_backlog[r][b]
      /\ \A s \in replicas \ {r} :
            deletions_backlog'[s] = deletions_backlog[s]
  BY <1>1, <1>3 DEF TypeOK
<1>5. DeletionsQueueOK(q, a, deletion_map[r][a])
  BY <1>1, <1>3 DEF BacklogInvariants
<1> HIDE DEF q, a
<1>6. /\ Head(q) \in deletions /\ Head(q).by = a
      /\ DeletionsQueueOK(Tail(q), a, deletion_map[r][a])
      /\ DeletionsQueueOK(Tail(q), a, Head(q).ts)
  BY <1>2, <1>4, <1>5, DeletionTaken, HeadTailProperties
<1>7. CASE MergesDeletion(r, Head(q))
  <2>1. /\ deletion_map'[r][a] = Head(q).ts
        /\ \A b \in ReplicaIds \ {a} : deletion_map'[r][b] = deletion_map[r][b]
        /\ \A s \in replicas \ {r} : deletion_map'[s] = deletion_map[s]
        /\ version_map' = version_map
    BY <1>1, <1>3, <1>6, <1>7, TypesOfClocks DEF MergesDeletion, ClockTypes
  <2>2. BacklogOf(r)'
    <3>1. ASSUME NEW b \in ReplicaIds
          PROVE  /\ InsertionsQueueOK(insertions_backlog'[r][b], b,
                                      version_map'[r][b])
                 /\ DeletionsQueueOK(deletions_backlog'[r][b], b,
                                     deletion_map'[r][b])
      <4>1. CASE b = a
        <5>1. DeletionsQueueOK(deletions_backlog'[r][a], a,
                               deletion_map'[r][a])
          BY <1>4, <1>6, <2>1
        <5>2. InsertionsQueueOK(insertions_backlog'[r][a], a,
                                version_map'[r][a])
          <6>1. InsertionsQueueOK(insertions_backlog[r][a], a,
                                  version_map[r][a])
            BY <1>1, <1>3 DEF BacklogInvariants
          <6>2. QED
            BY <1>1, <2>1, <6>1
        <5>3. QED
          BY <4>1, <5>1, <5>2
      <4>2. CASE b # a
        BY <1>1, <1>4, <2>1, <4>2 DEF BacklogInvariants
      <4>3. QED
        BY <4>1, <4>2
    <3>2. QED
      BY <3>1 DEF BacklogOf
  <2>3. QED
    BY <1>1, <1>4, <2>1, <2>2, OnlyBacklogOf
<1>8. CASE LeavesClocks
  <2>1. BacklogOf(r)'
    BY <1>1, <1>4, <1>6, <1>8
       DEF BacklogInvariants, BacklogOf, LeavesClocks, clock_vars
  <2>2. QED
    BY <1>1, <1>4, <1>8, <2>1, OnlyBacklogOf DEF LeavesClocks, clock_vars
<1>9. QED
  BY <1>1, <1>2, <1>6, <1>7, <1>8, MergedDeletionMerges

LEMMA BacklogNext ==
    ASSUME TypeOK, ClockInvariant, BacklogInvariants, ~Redelivery, [Next]_vars
    PROVE  BacklogInvariants'
<1>1. CASE UNCHANGED vars
  BY <1>1 DEF vars, clock_vars, backlog_vars, BacklogInvariants
<1>2. CASE Next
  <2>1. PICK r \in ReplicaIds :
          \/ \E new \in ReplicaIds : Fork(r, new)
          \/ InsertedAnywhere(r)
          \/ DeletedAnywhere(r)
          \/ \E m \in insertions : IntegrateInsertion(r, m)
          \/ \E d \in deletions : IntegrateDeletion(r, d)
          \/ BackloggedInsertions(r)
          \/ BackloggedDeletions(r)
          \/ NextBackloggedInsertion(r)
          \/ NextBackloggedDeletion(r)
          \/ NextQueue(r)
          \/ DropIterator(r)
    BY <1>2 DEF Next
  <2>2. CASE \E new \in ReplicaIds : Fork(r, new)
    BY <2>2, BacklogFork
  <2>3. CASE InsertedAnywhere(r)
    <3>1. PICK offset \in 0 .. DocumentLen(run_tree[r]), len \in InsertLens :
             Inserted(r, offset, len)
      BY <2>3 DEF InsertedAnywhere
    <3>2. UNCHANGED <<insertions_backlog, deletions_backlog>>
      BY <3>1 DEF Inserted, backlog_vars
    <3>3. QED
      BY <3>1, <3>2, InsertedInserts, BacklogInserted
  <2>4. CASE DeletedAnywhere(r)
    <3>1. PICK from, to \in 0 .. DocumentLen(run_tree[r]) : Deleted(r, from, to)
      BY <2>4 DEF DeletedAnywhere
    <3>2. UNCHANGED <<insertions_backlog, deletions_backlog>>
      BY <3>1 DEF Deleted, backlog_vars
    <3>3. QED
      BY <3>1, <3>2, DeletedDeletes, BacklogDeleted
  <2>5. CASE \E m \in insertions : IntegrateInsertion(r, m)
    BY <2>5, BacklogIntegrateInsertion
  <2>6. CASE \E d \in deletions : IntegrateDeletion(r, d)
    BY <2>6, BacklogIntegrateDeletion
  <2>7. CASE NextBackloggedInsertion(r)
    BY <2>7, BacklogNextInsertion
  <2>8. CASE NextBackloggedDeletion(r)
    BY <2>8, BacklogNextDeletion
  <2>9. CASE \/ BackloggedInsertions(r) \/ BackloggedDeletions(r)
             \/ NextQueue(r) \/ DropIterator(r)
    <3>1. UNCHANGED <<replicas, clock_vars, insertions_backlog,
                      deletions_backlog>>
      BY <2>9 DEF BackloggedInsertions, BackloggedDeletions, StartIterator,
                  NextQueue, DropIterator
    <3>2. QED
      BY <3>1 DEF BacklogInvariants, clock_vars
  <2>10. QED
    BY <2>1, <2>2, <2>3, <2>4, <2>5, <2>6, <2>7, <2>8, <2>9
<1>3. QED
  BY <1>1, <1>2

LEMMA BacklogInit == Init => BacklogInvariants
BY InitialAssumption
   DEF Init, BacklogInvariants, InsertionsQueueOK, DeletionsQueueOK

(* As long as no edit is handed over twice, the queues of the backlog are  *)
(* in order and hold nothing that has been merged.                         *)
THEOREM BacklogIsInOrder ==
    ASSUME ~Redelivery PROVE Spec => []BacklogInvariants
<1> DEFINE Inv == TypeOK /\ ClockInvariant /\ BacklogInvariants
<1>1. Init => Inv
  BY BacklogInit, TypeInit, ClocksInit
<1>2. Inv /\ [Next]_vars => Inv'
  BY ClocksNext, BacklogNext
<1>3. QED
  BY <1>1, <1>2, PTL DEF Spec
==============================================================================
