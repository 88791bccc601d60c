---------------------------- MODULE SnapshotProofs ----------------------------
(***************************************************************************)
(* Theorems about replicas that are saved and restored, for any number of  *)
(* replicas, edits and snapshots: first their clocks, backlogs and the     *)
(* delivery of edits, then their documents.                                *)
(***************************************************************************)
EXTENDS SavedDocuments, SnapshotRefinement, WalkProofs

------------------------------------------------------------------------------
(* Replicas only learn.                                                    *)

(* Whatever happens next, what the replicas have counted of their own      *)
(* edits stays counted, and an edit that is new is one nobody has counted. *)
OnlyNews ==
    /\ replicas \subseteq replicas'
    /\ \A a \in replicas : /\ version_map[a][a] <= version_map'[a][a]
                           /\ deletion_map[a][a] <= deletion_map'[a][a]
    /\ insertions \subseteq insertions' /\ deletions \subseteq deletions'
    /\ \A m \in insertions' \ insertions :
          m.by \in replicas /\ version_map[m.by][m.by] <= m.start
    /\ \A d \in deletions' \ deletions :
          d.by \in replicas /\ deletion_map[d.by][d.by] < d.ts

LEMMA ReplicasOnlyLearn ==
    ASSUME TypeOK, ClockInvariant, [Next]_vars
    PROVE  OnlyNews
<1>1. /\ replicas \subseteq ReplicaIds
      /\ \A s, a \in ReplicaIds : /\ version_map[s][a] \in Nat
                                  /\ deletion_map[s][a] \in Nat
      /\ \A m \in insertions : m.by \in ReplicaIds /\ m.end \in Nat
      /\ \A d \in deletions : d.by \in ReplicaIds /\ d.ts \in Nat
      /\ version_map \in [ReplicaIds -> [ReplicaIds -> Nat]]
      /\ deletion_map \in [ReplicaIds -> [ReplicaIds -> Nat]]
  BY TypesOfClocks DEF ClockTypes
<1>2. \A m \in insertions' : m.end \in Nat
  <2>1. TypeOK'
    BY TypeNext
  <2>2. QED
    BY <2>1 DEF TypeOK, InsertionTypeOK
<1>3. ASSUME NEW r \in ReplicaIds, NEW new \in ReplicaIds, Fork(r, new)
      PROVE  OnlyNews
  BY <1>1, <1>3 DEF Fork, sent_vars, OnlyNews
<1>4. ASSUME NEW r \in ReplicaIds, NEW m \in insertions', Inserts(r, m)
      PROVE  OnlyNews
  <2>1. /\ version_map[r][r] < m.end
        /\ m.by = r /\ r \in replicas /\ version_map[r][r] = m.start
        /\ version_map' = [version_map EXCEPT ![r][r] = m.end]
        /\ insertions' = insertions \cup {m}
        /\ UNCHANGED <<replicas, deletion_map, deletions>>
    BY <1>4 DEF Inserts
  <2>2. \A a \in replicas : version_map[a][a] <= version_map'[a][a]
    BY <1>1, <1>2, <2>1
  <2>3. QED
    BY <1>1, <2>1, <2>2 DEF OnlyNews
<1>5. ASSUME NEW r \in ReplicaIds, NEW d \in deletions', Deletes(r, d)
      PROVE  OnlyNews
  <2>1. /\ d.ts = deletion_map[r][r] + 1
        /\ d.by = r /\ r \in replicas
        /\ deletion_map' = [deletion_map EXCEPT ![r][r] = d.ts]
        /\ deletions' = deletions \cup {d}
        /\ UNCHANGED <<replicas, version_map, insertions>>
    BY <1>5 DEF Deletes
  <2>2. \A a \in replicas : deletion_map[a][a] <= deletion_map'[a][a]
    BY <1>1, <2>1
  <2>3. QED
    BY <1>1, <2>1, <2>2 DEF OnlyNews
<1>6. ASSUME NEW r \in ReplicaIds, NEW m \in insertions, MergesInsertion(r, m)
      PROVE  OnlyNews
  <2>1. /\ version_map[r][m.by] = m.start /\ m.start < m.end
        /\ version_map' = [version_map EXCEPT ![r][m.by] = m.end]
        /\ UNCHANGED <<replicas, deletion_map, insertions, deletions>>
    BY <1>6 DEF MergesInsertion, ClockInvariant, InsertionsAreCounted
  <2>2. \A a \in replicas : version_map[a][a] <= version_map'[a][a]
    BY <1>1, <2>1
  <2>3. QED
    BY <1>1, <2>1, <2>2 DEF OnlyNews
<1>7. ASSUME NEW r \in ReplicaIds, NEW d \in deletions, MergesDeletion(r, d)
      PROVE  OnlyNews
  <2>1. /\ deletion_map[r][d.by] + 1 = d.ts
        /\ deletion_map' = [deletion_map EXCEPT ![r][d.by] = d.ts]
        /\ UNCHANGED <<replicas, version_map, insertions, deletions>>
    BY <1>7 DEF MergesDeletion, CanMergeDeletion
  <2>2. \A a \in replicas : deletion_map[a][a] <= deletion_map'[a][a]
    BY <1>1, <2>1
  <2>3. QED
    BY <1>1, <2>1, <2>2 DEF OnlyNews
<1>8. CASE LeavesClocks
  BY <1>1, <1>8 DEF LeavesClocks, clock_vars, OnlyNews
<1>9. QED
  BY <1>3, <1>4, <1>5, <1>6, <1>7, <1>8, ClockSteps

(* A snapshot stays true when replicas only learn.                         *)
LEMMA SnapshotStaysTrue ==
    ASSUME ClockTypes, ClockTypes', OnlyNews, NEW s,
           SnapshotTypeOK(s), SnapshotClocks(s)
    PROVE  SnapshotTypeOK(s)' /\ SnapshotClocks(s)'
<1>1. /\ s.version_map \in [ReplicaIds -> Nat]
      /\ s.deletion_map \in [ReplicaIds -> Nat]
  BY DEF SnapshotTypeOK
<1>2. SnapshotTypeOK(s)'
  <2>1. /\ Seq(insertions) \subseteq Seq(insertions')
        /\ Seq(deletions) \subseteq Seq(deletions')
    BY SeqMonotonic DEF OnlyNews
  <2>2. /\ s.insertions_backlog \in [ReplicaIds -> Seq(insertions')]
        /\ s.deletions_backlog \in [ReplicaIds -> Seq(deletions')]
    BY <2>1 DEF SnapshotTypeOK
  <2>3. QED
    BY <2>2 DEF SnapshotTypeOK
<1>3. \A a \in replicas : /\ s.version_map[a] <= version_map[a][a]
                          /\ s.deletion_map[a] <= deletion_map[a][a]
  BY DEF SnapshotClocks, KnowsNoMore
<1>4. KnowsNoMore(s)'
  <2>1. ASSUME NEW a \in ReplicaIds \ replicas'
        PROVE  s.version_map[a] = 0 /\ s.deletion_map[a] = 0
    BY DEF SnapshotClocks, KnowsNoMore, OnlyNews
  <2>2. ASSUME NEW a \in replicas'
        PROVE  /\ s.version_map[a] <= version_map'[a][a]
               /\ s.deletion_map[a] <= deletion_map'[a][a]
    <3>1. /\ a \in ReplicaIds
          /\ version_map'[a][a] \in Nat /\ deletion_map'[a][a] \in Nat
          /\ version_map[a][a] \in Nat /\ deletion_map[a][a] \in Nat
          /\ s.version_map[a] \in Nat /\ s.deletion_map[a] \in Nat
      BY <1>1 DEF ClockTypes
    <3>2. CASE a \in replicas
      <4>1. /\ version_map[a][a] <= version_map'[a][a]
            /\ deletion_map[a][a] <= deletion_map'[a][a]
        BY <3>2 DEF OnlyNews
      <4>2. QED
        BY <1>3, <3>1, <3>2, <4>1
    <3>3. CASE a \notin replicas
      BY <3>1, <3>3 DEF SnapshotClocks, KnowsNoMore
    <3>4. QED
      BY <3>2, <3>3
  <2>3. QED
    BY <2>1, <2>2 DEF KnowsNoMore
<1>5. LamportClockWasAhead(s)'
  <2>1. ASSUME NEW m \in insertions' \ insertions
        PROVE  ~(s.version_map[m.by] > m.start)
    <3>1. /\ m.by \in replicas /\ m.by \in ReplicaIds /\ m.start \in Nat
          /\ version_map[m.by][m.by] <= m.start
      BY DEF OnlyNews, ClockTypes
    <3>2. s.version_map[m.by] \in Nat /\ version_map[m.by][m.by] \in Nat
      BY <1>1, <3>1 DEF ClockTypes
    <3>3. QED
      BY <1>3, <3>1, <3>2
  <2>2. QED
    BY <2>1 DEF SnapshotClocks, LamportClockWasAhead
<1>6. DeletionsWereCausal(s)'
  <2>1. ASSUME NEW d \in deletions' \ deletions
        PROVE  ~(s.deletion_map[d.by] >= d.ts)
    <3>1. /\ d.by \in replicas /\ d.by \in ReplicaIds /\ d.ts \in Nat
          /\ deletion_map[d.by][d.by] < d.ts
      BY DEF OnlyNews, ClockTypes
    <3>2. s.deletion_map[d.by] \in Nat /\ deletion_map[d.by][d.by] \in Nat
      BY <1>1, <3>1 DEF ClockTypes
    <3>3. QED
      BY <1>3, <3>1, <3>2
  <2>2. QED
    BY <2>1 DEF SnapshotClocks, DeletionsWereCausal
<1>7. QED
  BY <1>2, <1>4, <1>5, <1>6 DEF SnapshotClocks

------------------------------------------------------------------------------
(* Saving and restoring.                                                   *)

LEMMA EncodeSavesClocks ==
    ASSUME TypeOK, ClockInvariant, NEW r \in replicas
    PROVE  SnapshotTypeOK(Snapshot(r)) /\ SnapshotClocks(Snapshot(r))
<1> DEFINE s == Snapshot(r)
<1>1. r \in ReplicaIds
  BY DEF TypeOK
<1>2. /\ s.by = r
      /\ s.lamport_clock = lamport_clock[r]
      /\ s.version_map = version_map[r]
      /\ s.deletion_map = deletion_map[r]
      /\ s.insertions_backlog = insertions_backlog[r]
      /\ s.deletions_backlog = deletions_backlog[r]
  BY DEF Snapshot
<1> HIDE DEF s
<1>3. SnapshotTypeOK(s)
  BY <1>1, <1>2 DEF TypeOK, SnapshotTypeOK
<1>4. KnowsNoMore(s)
  BY <1>2 DEF ClockInvariant, NothingOfTheUnborn, NobodyKnowsMore, KnowsNoMore
<1>5. LamportClockWasAhead(s)
  BY <1>1, <1>2 DEF ClockInvariant, LamportClocksStarted, LamportClockIsAhead,
                    HasMergedInsertion, LamportClockWasAhead
<1>6. DeletionsWereCausal(s)
  BY <1>2 DEF ClockInvariant, DeletionsAreCausal, HasMergedDeletion,
              DeletionsWereCausal
<1>7. QED
  BY <1>3, <1>4, <1>5, <1>6 DEF SnapshotClocks, s

LEMMA DecodeKeepsTypes ==
    ASSUME TypeOK, NEW s, SnapshotTypeOK(s), NEW id, Decode(s, id)
    PROVE  TypeOK'
<1>1. /\ id \in ReplicaIds
      /\ replicas' = replicas \cup {id}
      /\ run_clock' = [run_clock EXCEPT ![id] = 0]
      /\ lamport_clock' = [lamport_clock EXCEPT ![id] = s.lamport_clock]
      /\ version_map' =
           [version_map EXCEPT ![id] = [s.version_map EXCEPT ![id] = 0]]
      /\ deletion_map' =
           [deletion_map EXCEPT ![id] = [s.deletion_map EXCEPT ![id] = 0]]
      /\ insertions_backlog' =
           [insertions_backlog EXCEPT ![id] = s.insertions_backlog]
      /\ deletions_backlog' =
           [deletions_backlog EXCEPT ![id] = s.deletions_backlog]
      /\ UNCHANGED <<iterator, panicked, insertions, deletions>>
  BY DEF Decode, Restored, sent_vars
<1>2. /\ version_map' \in [ReplicaIds -> [ReplicaIds -> Nat]]
      /\ deletion_map' \in [ReplicaIds -> [ReplicaIds -> Nat]]
  BY <1>1 DEF TypeOK, SnapshotTypeOK
<1>3. /\ insertions_backlog' \in [ReplicaIds -> [ReplicaIds -> Seq(insertions)]]
      /\ deletions_backlog' \in [ReplicaIds -> [ReplicaIds -> Seq(deletions)]]
  BY <1>1 DEF TypeOK, SnapshotTypeOK
<1>4. /\ run_clock' \in [ReplicaIds -> Nat]
      /\ lamport_clock' \in [ReplicaIds -> Nat]
      /\ replicas' \subseteq ReplicaIds
  BY <1>1 DEF TypeOK, SnapshotTypeOK
<1>5. QED
  BY <1>1, <1>2, <1>3, <1>4 DEF TypeOK, InsertionTypeOK, DeletionTypeOK

LEMMA DecodeKeepsClocks ==
    ASSUME TypeOK, ClockInvariant, NEW s, SnapshotTypeOK(s), SnapshotClocks(s),
           NEW id, Decode(s, id)
    PROVE  ClockInvariant' /\ OnlyNews
<1>1. ClockTypes
  BY TypesOfClocks
<1>2. /\ id \in ReplicaIds \ replicas
      /\ replicas' = replicas \cup {id}
      /\ lamport_clock' = [lamport_clock EXCEPT ![id] = s.lamport_clock]
      /\ version_map' =
           [version_map EXCEPT ![id] = [s.version_map EXCEPT ![id] = 0]]
      /\ deletion_map' =
           [deletion_map EXCEPT ![id] = [s.deletion_map EXCEPT ![id] = 0]]
      /\ UNCHANGED <<insertions, deletions>>
  BY DEF Decode, Restored, sent_vars
<1>3. /\ s.version_map \in [ReplicaIds -> Nat]
      /\ s.deletion_map \in [ReplicaIds -> Nat]
      /\ s.lamport_clock \in Nat /\ s.lamport_clock > 0
  BY DEF SnapshotTypeOK, SnapshotClocks, LamportClockWasAhead
<1>4. /\ \A a \in ReplicaIds \ replicas :
            s.version_map[a] = 0 /\ s.deletion_map[a] = 0
      /\ \A a \in replicas : /\ s.version_map[a] <= version_map[a][a]
                             /\ s.deletion_map[a] <= deletion_map[a][a]
      /\ \A m \in insertions :
            s.version_map[m.by] > m.start => m.lam < s.lamport_clock
      /\ \A d \in deletions :
            s.deletion_map[d.by] >= d.ts
              => \A a \in ReplicaIds : s.version_map[a] >= d.version_map[a]
  BY DEF SnapshotClocks, KnowsNoMore, LamportClockWasAhead,
         DeletionsWereCausal
<1>5. ClockInvariant'
  <2> DEFINE versions == s.version_map
             deletion_versions == s.deletion_map
             lamport == s.lamport_clock
  <2>1. /\ versions \in [ReplicaIds -> Nat]
        /\ deletion_versions \in [ReplicaIds -> Nat]
        /\ lamport \in Nat /\ lamport > 0
    BY <1>3
  <2>2. QED
    BY <1>1, <1>2, <1>4, <2>1, ClocksJoin
<1>6. OnlyNews
  BY <1>1, <1>2 DEF ClockTypes, OnlyNews
<1>7. QED
  BY <1>5, <1>6

------------------------------------------------------------------------------
LEMMA SnapshotInvariantInit == SnapshotInit => SnapshotInvariant
BY TypeInit, ClocksInit DEF SnapshotInit, SnapshotInvariant

LEMMA SnapshotInvariantNext ==
    SnapshotInvariant /\ [SnapshotNext]_<<vars, snapshots>>
      => SnapshotInvariant'
<1> SUFFICES ASSUME SnapshotInvariant, [SnapshotNext]_<<vars, snapshots>>
             PROVE  SnapshotInvariant'
  OBVIOUS
<1>1. TypeOK /\ ClockInvariant /\ ClockTypes
  BY TypesOfClocks DEF SnapshotInvariant
<1>2. TypeOK' => ClockTypes'
  BY TypesOfClocks, PTL
<1>3. ASSUME TypeOK', ClockInvariant', OnlyNews, UNCHANGED snapshots
      PROVE  SnapshotInvariant'
  <2>1. ASSUME NEW s \in snapshots
        PROVE  SnapshotTypeOK(s)' /\ SnapshotClocks(s)'
    BY <1>1, <1>2, <1>3, SnapshotStaysTrue DEF SnapshotInvariant
  <2>2. QED
    BY <1>3, <2>1 DEF SnapshotInvariant
<1>4. CASE [Next]_vars /\ UNCHANGED snapshots
  BY <1>1, <1>3, <1>4, ClocksNext, ReplicasOnlyLearn
<1>5. ASSUME NEW r \in ReplicaIds, Encode(r)
      PROVE  SnapshotInvariant'
  <2>1. /\ r \in replicas /\ UNCHANGED vars
        /\ snapshots' = snapshots \cup {Snapshot(r)}
    BY <1>5 DEF Encode, Idle, Active
  <2>2. \A s \in snapshots' : SnapshotTypeOK(s) /\ SnapshotClocks(s)
    BY <1>1, <2>1, EncodeSavesClocks DEF SnapshotInvariant
  <2>3. TypeOK' /\ ClockInvariant' /\ OnlyNews
    <3>1. [Next]_vars
      BY <2>1
    <3>2. QED
      BY <1>1, <3>1, ClocksNext, ReplicasOnlyLearn
  <2>4. ASSUME NEW s \in snapshots'
        PROVE  SnapshotTypeOK(s)' /\ SnapshotClocks(s)'
    BY <1>1, <1>2, <2>2, <2>3, SnapshotStaysTrue
  <2>5. QED
    BY <2>3, <2>4 DEF SnapshotInvariant
<1>6. ASSUME NEW s \in snapshots, NEW id \in ReplicaIds, Decode(s, id)
      PROVE  SnapshotInvariant'
  <2>1. SnapshotTypeOK(s) /\ SnapshotClocks(s)
    BY DEF SnapshotInvariant
  <2>2. TypeOK' /\ ClockInvariant' /\ OnlyNews
    BY <1>1, <1>6, <2>1, DecodeKeepsTypes, DecodeKeepsClocks
  <2>3. UNCHANGED snapshots
    BY <1>6 DEF Decode, Restored
  <2>4. QED
    BY <1>3, <2>2, <2>3
<1>7. QED
  BY <1>4, <1>5, <1>6 DEF SnapshotNext

(* The clocks are right in every state, also of replicas that go on from   *)
(* snapshots, and of the snapshots.                                        *)
THEOREM SnapshotsAreSafe == SnapshotSpec => []SnapshotInvariant
BY SnapshotInvariantInit, SnapshotInvariantNext, PTL DEF SnapshotSpec

------------------------------------------------------------------------------
(* The backlog, when no edit is handed over twice.                         *)

LEMMA EncodeSavesBacklog ==
    ASSUME BacklogInvariants, SavedBacklogs, NEW r \in ReplicaIds, Encode(r)
    PROVE  BacklogInvariants' /\ SavedBacklogs'
<1>1. /\ r \in replicas /\ UNCHANGED vars
      /\ snapshots' = snapshots \cup {Snapshot(r)}
  BY DEF Encode, Idle, Active
<1>2. BacklogInvariants'
  BY <1>1 DEF vars, clock_vars, backlog_vars, BacklogInvariants
<1>3. SavedBacklogs'
  BY <1>1 DEF SavedBacklogs, BacklogInvariants, Snapshot
<1>4. QED
  BY <1>2, <1>3

LEMMA DecodeRestoresBacklog ==
    ASSUME SnapshotInvariant, BacklogInvariants, SavedBacklogs,
           NEW s \in snapshots, NEW id \in ReplicaIds, Decode(s, id)
    PROVE  BacklogInvariants' /\ SavedBacklogs'
<1>1. /\ id \notin replicas /\ replicas' = replicas \cup {id}
      /\ replicas \subseteq ReplicaIds /\ UNCHANGED snapshots
  BY DEF Decode, Restored, SnapshotInvariant, TypeOK
<1>2. \A a \in replicas :
          /\ insertions_backlog'[a] = insertions_backlog[a]
          /\ deletions_backlog'[a] = deletions_backlog[a]
          /\ version_map'[a] = version_map[a]
          /\ deletion_map'[a] = deletion_map[a]
  BY <1>1 DEF Decode, Restored, SnapshotInvariant, TypeOK
<1>3. /\ insertions_backlog'[id] = s.insertions_backlog
      /\ deletions_backlog'[id] = s.deletions_backlog
      /\ version_map'[id] = [s.version_map EXCEPT ![id] = 0]
      /\ deletion_map'[id] = [s.deletion_map EXCEPT ![id] = 0]
  BY DEF Decode, Restored, SnapshotInvariant, TypeOK
<1>4. /\ s.version_map \in [ReplicaIds -> Nat] /\ s.version_map[id] = 0
      /\ s.deletion_map \in [ReplicaIds -> Nat] /\ s.deletion_map[id] = 0
  BY <1>1
     DEF SnapshotInvariant, SnapshotTypeOK, SnapshotClocks, KnowsNoMore
<1>5. version_map'[id] = s.version_map /\ deletion_map'[id] = s.deletion_map
  BY <1>3, <1>4
<1>6. \A a \in ReplicaIds :
          /\ InsertionsQueueOK(insertions_backlog'[id][a], a, version_map'[id][a])
          /\ DeletionsQueueOK(deletions_backlog'[id][a], a, deletion_map'[id][a])
  BY <1>3, <1>5 DEF SavedBacklogs
<1>7. BacklogInvariants'
  BY <1>1, <1>2, <1>6 DEF BacklogInvariants
<1>8. SavedBacklogs'
  BY <1>1 DEF SavedBacklogs
<1>9. QED
  BY <1>7, <1>8

(* A backlog keeps its order across snapshots: one that is restored holds  *)
(* nothing its replica has merged, and nothing twice.                      *)
THEOREM BacklogsAreRestoredInOrder ==
    ASSUME ~Redelivery
    PROVE  SnapshotSpec => [](BacklogInvariants /\ SavedBacklogs)
<1> DEFINE Inv == SnapshotInvariant /\ BacklogInvariants /\ SavedBacklogs
<1>1. SnapshotInit => Inv
  <2>1. SnapshotInit => BacklogInvariants
    BY BacklogInit DEF SnapshotInit
  <2>2. SnapshotInit => SavedBacklogs
    BY DEF SnapshotInit, SavedBacklogs
  <2>3. QED
    BY <2>1, <2>2, SnapshotInvariantInit
<1>2. Inv /\ [SnapshotNext]_<<vars, snapshots>> => Inv'
  <2> SUFFICES ASSUME Inv, [SnapshotNext]_<<vars, snapshots>> PROVE Inv'
    OBVIOUS
  <2>1. SnapshotInvariant'
    BY SnapshotInvariantNext
  <2>2. CASE [Next]_vars /\ UNCHANGED snapshots
    <3>1. BacklogInvariants'
      BY <2>2, BacklogNext DEF SnapshotInvariant
    <3>2. SavedBacklogs'
      BY <2>2 DEF SavedBacklogs
    <3>3. QED
      BY <2>1, <3>1, <3>2
  <2>3. ASSUME NEW r \in ReplicaIds, Encode(r) PROVE Inv'
    BY <2>1, <2>3, EncodeSavesBacklog
  <2>4. ASSUME NEW s \in snapshots, NEW id \in ReplicaIds, Decode(s, id)
        PROVE  Inv'
    BY <2>1, <2>4, DecodeRestoresBacklog
  <2>5. QED
    BY <2>2, <2>3, <2>4 DEF SnapshotNext
<1>3. QED
  BY <1>1, <1>2, PTL DEF SnapshotSpec

------------------------------------------------------------------------------
(* Causal delivery: what the abstract specification sees.                  *)

(* An edit that is new is not among those counted up to where a version    *)
(* map got to before.                                                      *)
LEMMA NoNewInsertions ==
    ASSUME ClockTypes, ClockTypes', OnlyNews,
           NEW versions \in [ReplicaIds -> Nat],
           \A a \in replicas : versions[a] <= version_map[a][a]
    PROVE  InsertionsUpTo(versions)' = InsertionsUpTo(versions)
<1>1. ASSUME NEW m \in insertions' \ insertions
      PROVE  ~(versions[m.by] > m.start)
  <2>1. /\ m.by \in replicas /\ m.by \in ReplicaIds /\ m.start \in Nat
        /\ version_map[m.by][m.by] <= m.start
    BY DEF OnlyNews, ClockTypes
  <2>2. versions[m.by] \in Nat /\ version_map[m.by][m.by] \in Nat
    BY <2>1 DEF ClockTypes
  <2>3. QED
    BY <2>1, <2>2
<1>2. {n \in insertions' : versions[n.by] > n.start}
        = {n \in insertions : versions[n.by] > n.start}
  BY <1>1 DEF OnlyNews
<1>3. QED
  BY <1>2 DEF InsertionsUpTo

(* What a deletion needs is settled when it is made.                       *)
LEMMA NeedsAreSettled ==
    ASSUME ClockTypes, ClockTypes', ClockInvariant, OnlyNews,
           NEW d \in deletions
    PROVE  DeletionEdit(d)' = DeletionEdit(d)
<1>1. d.version_map \in [ReplicaIds -> Nat]
  BY DEF ClockTypes
<1>2. ASSUME NEW a \in replicas
      PROVE  d.version_map[a] <= version_map[a][a]
  <2>1. /\ d.by \in replicas
        /\ a \in ReplicaIds /\ d.by \in ReplicaIds
        /\ d.version_map[a] <= version_map[d.by][a]
    BY DEF ClockInvariant, DeletionsAreCounted, ClockTypes
  <2>2. version_map[d.by][a] <= version_map[a][a]
    BY <2>1 DEF ClockInvariant, NobodyKnowsMore
  <2>3. /\ d.version_map[a] \in Nat
        /\ version_map[d.by][a] \in Nat /\ version_map[a][a] \in Nat
    BY <1>1, <2>1 DEF ClockTypes
  <2>4. QED
    BY <2>1, <2>2, <2>3
<1>3. InsertionsUpTo(d.version_map)' = InsertionsUpTo(d.version_map)
  <2> DEFINE versions == d.version_map
  <2>1. /\ versions \in [ReplicaIds -> Nat]
        /\ \A a \in replicas : versions[a] <= version_map[a][a]
    BY <1>1, <1>2
  <2> HIDE DEF versions
  <2>2. InsertionsUpTo(versions)' = InsertionsUpTo(versions)
    BY <2>1, NoNewInsertions
  <2>3. QED
    BY <2>2 DEF versions
<1>4. QED
  BY <1>3 DEF DeletionEdit

LEMMA NoNewDeletions ==
    ASSUME ClockTypes, ClockTypes', ClockInvariant, OnlyNews,
           NEW versions \in [ReplicaIds -> Nat],
           \A a \in replicas : versions[a] <= deletion_map[a][a]
    PROVE  DeletionsUpTo(versions)' = DeletionsUpTo(versions)
<1>1. ASSUME NEW d \in deletions' \ deletions
      PROVE  ~(versions[d.by] >= d.ts)
  <2>1. /\ d.by \in replicas /\ d.by \in ReplicaIds /\ d.ts \in Nat
        /\ deletion_map[d.by][d.by] < d.ts
    BY DEF OnlyNews, ClockTypes
  <2>2. versions[d.by] \in Nat /\ deletion_map[d.by][d.by] \in Nat
    BY <2>1 DEF ClockTypes
  <2>3. QED
    BY <2>1, <2>2
<1>2. {e \in deletions' : versions[e.by] >= e.ts}
        = {e \in deletions : versions[e.by] >= e.ts}
  BY <1>1 DEF OnlyNews
<1>3. \A d \in deletions : DeletionEdit(d)' = DeletionEdit(d)
  BY NeedsAreSettled
<1>4. QED
  BY <1>2, <1>3 DEF DeletionsUpTo

(* A replica whose version map, or deletion map, does not change has the   *)
(* edits it had.                                                           *)
LEMMA InsertionsKept ==
    ASSUME ClockTypes, ClockTypes', ClockInvariant, OnlyNews,
           NEW s \in replicas, version_map'[s] = version_map[s]
    PROVE  InsertionsUpTo(version_map[s])' = InsertionsUpTo(version_map[s])
<1>1. PICK versions \in [ReplicaIds -> Nat] : versions = version_map[s]
  BY DEF ClockTypes
<1>2. \A a \in replicas : versions[a] <= version_map[a][a]
  BY <1>1 DEF ClockInvariant, NobodyKnowsMore
<1>3. InsertionsUpTo(versions)' = InsertionsUpTo(versions)
  BY <1>2, NoNewInsertions
<1>4. QED
  BY <1>1, <1>3 DEF InsertionsUpTo

LEMMA DeletionsKept ==
    ASSUME ClockTypes, ClockTypes', ClockInvariant, OnlyNews,
           NEW s \in replicas, deletion_map'[s] = deletion_map[s]
    PROVE  DeletionsUpTo(deletion_map[s])' = DeletionsUpTo(deletion_map[s])
<1>1. PICK versions \in [ReplicaIds -> Nat] : versions = deletion_map[s]
  BY DEF ClockTypes
<1>2. \A a \in replicas : versions[a] <= deletion_map[a][a]
  BY <1>1 DEF ClockInvariant, NobodyKnowsMore
<1>3. DeletionsUpTo(versions)' = DeletionsUpTo(versions)
  BY <1>2, NoNewDeletions
<1>4. QED
  BY <1>1, <1>3 DEF DeletionsUpTo

LEMMA SentKept ==
    ASSUME ClockTypes, ClockTypes', ClockInvariant, OnlyNews
    PROVE  /\ UNCHANGED deletions
                => Sent' = Sent \cup {InsertionEdit(m) :
                                        m \in insertions' \ insertions}
           /\ UNCHANGED insertions
                => Sent' = Sent \cup {DeletionEdit(d)' :
                                        d \in deletions' \ deletions}
<1>1. \A d \in deletions : DeletionEdit(d)' = DeletionEdit(d)
  BY NeedsAreSettled
<1>2. insertions \subseteq insertions' /\ deletions \subseteq deletions'
  BY DEF OnlyNews
<1>3. ASSUME UNCHANGED deletions
      PROVE  Sent' = Sent \cup {InsertionEdit(m) : m \in insertions' \ insertions}
  BY <1>1, <1>2, <1>3 DEF Sent
<1>4. ASSUME UNCHANGED insertions
      PROVE  Sent' = Sent \cup {DeletionEdit(d)' : d \in deletions' \ deletions}
  BY <1>1, <1>2, <1>4 DEF Sent
<1>5. QED
  BY <1>3, <1>4

(* The copies stay what they were.                                         *)
LEMMA CopiesStay ==
    ASSUME SnapshotInvariant, ClockTypes', OnlyNews, UNCHANGED snapshots
    PROVE  Copies' = Copies
<1>1. ASSUME NEW s \in snapshots
      PROVE  MergedUpTo(s.version_map, s.deletion_map)'
               = MergedUpTo(s.version_map, s.deletion_map)
  <2> DEFINE versions == s.version_map
             deletion_versions == s.deletion_map
  <2>1. /\ versions \in [ReplicaIds -> Nat]
        /\ deletion_versions \in [ReplicaIds -> Nat]
        /\ \A a \in replicas :
              /\ versions[a] <= version_map[a][a]
              /\ deletion_versions[a] <= deletion_map[a][a]
    BY DEF SnapshotInvariant, SnapshotTypeOK, SnapshotClocks, KnowsNoMore
  <2>2. ClockTypes /\ ClockInvariant
    BY TypesOfClocks DEF SnapshotInvariant
  <2> HIDE DEF versions, deletion_versions
  <2>3. InsertionsUpTo(versions)' = InsertionsUpTo(versions)
    BY <2>1, <2>2, NoNewInsertions
  <2>4. DeletionsUpTo(deletion_versions)' = DeletionsUpTo(deletion_versions)
    BY <2>1, <2>2, NoNewDeletions
  <2>5. QED
    BY <2>3, <2>4 DEF MergedUpTo, versions, deletion_versions
<1>2. QED
  BY <1>1 DEF Copies

(* A step that makes one edit take effect at one replica.                  *)
LEMMA OneMoreEdit ==
    ASSUME UNCHANGED replicas, NEW r \in ReplicaIds, r \in replicas, NEW e,
           \A s \in replicas :
              MergedUpTo(version_map[s], deletion_map[s])'
                = MergedUpTo(version_map[s], deletion_map[s])
                    \cup (IF s = r THEN {e} ELSE {})
    PROVE  Merged' = [Merged EXCEPT ![r] = @ \cup {e}]
<1>1. ASSUME NEW s \in ReplicaIds
      PROVE  Merged'[s] = IF s = r THEN Merged[s] \cup {e} ELSE Merged[s]
  <2>1. s \in replicas =>
          /\ Merged[s] = MergedUpTo(version_map[s], deletion_map[s])
          /\ Merged'[s] = MergedUpTo(version_map[s], deletion_map[s])'
    BY DEF Merged
  <2>2. s \notin replicas => Merged[s] = {} /\ Merged'[s] = {}
    BY DEF Merged
  <2>3. QED
    BY <2>1, <2>2
<1>2. /\ Merged = [s \in ReplicaIds |-> Merged[s]]
      /\ Merged' = [s \in ReplicaIds |-> Merged'[s]]
  BY DEF Merged
<1>3. QED
  BY <1>1, <1>2

(* An insertion or a deletion that is sent takes effect where it is made.  *)
LEMMA InsertsSends ==
    ASSUME SnapshotInvariant, ClockTypes', OnlyNews, UNCHANGED snapshots,
           NEW r \in ReplicaIds, NEW m \in insertions', Inserts(r, m)
    PROVE  Delivery!Send(r, InsertionEdit(m)) /\ InsertionEdit(m) \in Sent'
<1> DEFINE e == InsertionEdit(m)
<1>1. /\ r \in replicas /\ m.by = r /\ m.start = version_map[r][r]
      /\ m.start < m.end
      /\ insertions' = insertions \cup {m}
      /\ version_map' = [version_map EXCEPT ![r][r] = m.end]
      /\ UNCHANGED <<replicas, deletion_map, deletions>>
  BY DEF Inserts
<1>2. /\ ClockTypes /\ ClockInvariant
      /\ version_map \in [ReplicaIds -> [ReplicaIds -> Nat]]
      /\ m.start \in Nat /\ m.end \in Nat
      /\ replicas \subseteq ReplicaIds
      /\ \A n \in insertions : /\ n.by \in ReplicaIds
                               /\ n.start \in Nat /\ n.end \in Nat
  BY TypesOfClocks DEF SnapshotInvariant, ClockTypes
<1>3. \A n \in insertions : n.by = r => n.start < m.start
  BY <1>1, <1>2 DEF ClockInvariant, InsertionsAreCounted
<1>4. m \notin insertions
  BY <1>1, <1>2, <1>3
<1>5. /\ e.kind = "insertion" /\ e.by = r /\ e.no = m.start /\ e.needs = {}
      /\ \A d \in deletions : DeletionEdit(d).kind = "deletion"
      /\ \A n \in insertions : /\ InsertionEdit(n).by = n.by
                               /\ InsertionEdit(n).no = n.start
  BY <1>1 DEF InsertionEdit, DeletionEdit
<1>6. Sent' = Sent \cup {e}
  BY <1>1, <1>2, <1>4, SentKept
<1>7. /\ {f \in Sent : f.kind = "insertion" /\ f.by = r}
           = {f \in Sent : f.kind = e.kind /\ f.by = e.by /\ f.no < e.no}
      /\ e \notin Sent
      /\ {f \in Sent : f.kind = "insertion" /\ f.by = r}
           \subseteq {InsertionEdit(n) : n \in {k \in insertions : k.by = r}}
  <2> HIDE DEF e
  <2>1. \A f \in Sent : f.kind = "insertion" /\ f.by = r
           => \E n \in insertions : /\ f = InsertionEdit(n) /\ n.by = r
                                    /\ f.no < e.no
    BY <1>3, <1>5 DEF Sent
  <2>2. e \notin Sent
    <3>1. ~(e.no < e.no)
      BY <1>2, <1>5
    <3>2. QED
      BY <1>5, <2>1, <3>1
  <2>3. QED
    BY <1>5, <2>1, <2>2
<1>8. /\ version_map'[r] = [version_map[r] EXCEPT ![r] = m.end]
      /\ \A s \in replicas \ {r} : version_map'[s] = version_map[s]
  BY <1>1, <1>2
<1>9. InsertionsUpTo(version_map[r])'
        = InsertionsUpTo(version_map[r]) \cup {e}
  <2>1. \A n \in insertions :
           version_map'[r][n.by] > n.start <=> version_map[r][n.by] > n.start
    BY <1>1, <1>2, <1>3, <1>8
  <2>2. version_map'[r][m.by] > m.start
    BY <1>1, <1>2, <1>8
  <2>3. {n \in insertions' : version_map'[r][n.by] > n.start}
          = {n \in insertions : version_map[r][n.by] > n.start} \cup {m}
    BY <1>1, <2>1, <2>2
  <2>4. QED
    BY <2>3 DEF InsertionsUpTo
<1>10. Merged' = [Merged EXCEPT ![r] = @ \cup {e}]
  <2>1. \A s \in replicas :
           DeletionsUpTo(deletion_map[s])' = DeletionsUpTo(deletion_map[s])
    BY <1>1, <1>2, DeletionsKept
  <2>2. \A s \in replicas \ {r} :
           InsertionsUpTo(version_map[s])' = InsertionsUpTo(version_map[s])
    BY <1>2, <1>8, InsertionsKept
  <2> HIDE DEF e
  <2>3. ASSUME NEW s \in replicas
        PROVE  MergedUpTo(version_map[s], deletion_map[s])'
                 = MergedUpTo(version_map[s], deletion_map[s])
                     \cup (IF s = r THEN {e} ELSE {})
    BY <1>1, <1>9, <2>1, <2>2 DEF MergedUpTo
  <2>4. QED
    BY <1>1, <2>3, OneMoreEdit
<1>11. {InsertionEdit(n) : n \in {k \in insertions : k.by = r}}
         \subseteq Merged[r]
  <2>1. \A n \in insertions : n.by = r => version_map[r][n.by] > n.start
    BY <1>1, <1>2, <1>3
  <2>2. QED
    BY <1>1, <1>2, <2>1 DEF Merged, MergedUpTo, InsertionsUpTo
<1>12. Copies' = Copies
  BY CopiesStay
<1>13. QED
  <2> HIDE DEF e
  <2>1. Delivery!Send(r, e)
    BY <1>1, <1>2, <1>5, <1>6, <1>7, <1>10, <1>11, <1>12
       DEF Delivery!Send, Delivery!Earlier
  <2>2. QED
    BY <1>6, <2>1 DEF e

LEMMA DeletesSends ==
    ASSUME SnapshotInvariant, ClockTypes', OnlyNews, UNCHANGED snapshots,
           NEW r \in ReplicaIds, NEW d \in deletions', Deletes(r, d)
    PROVE  Delivery!Send(r, DeletionEdit(d)) /\ DeletionEdit(d) \in Sent'
<1>1. /\ r \in replicas /\ d.by = r /\ d.ts = deletion_map[r][r] + 1
      /\ \A a \in ReplicaIds : d.version_map[a] <= version_map[r][a]
      /\ deletions' = deletions \cup {d}
      /\ deletion_map' = [deletion_map EXCEPT ![r][r] = d.ts]
      /\ UNCHANGED <<replicas, version_map, insertions>>
  BY DEF Deletes
<1>2. /\ ClockTypes /\ ClockInvariant
      /\ deletion_map \in [ReplicaIds -> [ReplicaIds -> Nat]]
      /\ version_map \in [ReplicaIds -> [ReplicaIds -> Nat]]
      /\ replicas \subseteq ReplicaIds
      /\ \A c \in deletions : c.by \in ReplicaIds /\ c.ts \in Nat
      /\ \A m \in insertions : m.by \in ReplicaIds /\ m.start \in Nat
      /\ d.version_map \in [ReplicaIds -> Nat]
  BY TypesOfClocks DEF SnapshotInvariant, ClockTypes
<1>3. \A c \in deletions : c.by = r => c.ts <= deletion_map[r][r] /\ c.ts < d.ts
  BY <1>1, <1>2 DEF ClockInvariant, DeletionsAreCounted
<1>4. d \notin deletions
  BY <1>1, <1>2, <1>3
<1>5. PICK e : e = DeletionEdit(d)
  OBVIOUS
<1>6. DeletionEdit(d)' = e
  BY <1>1, <1>5 DEF DeletionEdit, InsertionsUpTo
<1>7. /\ e.kind = "deletion" /\ e.by = r /\ e.no = d.ts
      /\ e.needs = InsertionsUpTo(d.version_map)
      /\ \A m \in insertions : InsertionEdit(m).kind = "insertion"
      /\ \A c \in deletions : /\ DeletionEdit(c).by = c.by
                              /\ DeletionEdit(c).no = c.ts
  BY <1>1, <1>5 DEF InsertionEdit, DeletionEdit
<1>8. Sent' = Sent \cup {e}
  <2>1. Sent' = Sent \cup {DeletionEdit(c)' : c \in deletions' \ deletions}
    BY <1>1, <1>2, SentKept
  <2>2. deletions' \ deletions = {d}
    BY <1>1, <1>4
  <2>3. QED
    BY <1>6, <2>1, <2>2
<1>9. /\ {f \in Sent : f.kind = "deletion" /\ f.by = r}
           = {f \in Sent : f.kind = e.kind /\ f.by = e.by /\ f.no < e.no}
      /\ e \notin Sent
      /\ {f \in Sent : f.kind = "deletion" /\ f.by = r}
           \subseteq {DeletionEdit(c) : c \in {k \in deletions : k.by = r}}
  <2>1. \A f \in Sent : f.kind = "deletion" /\ f.by = r
           => \E c \in deletions : /\ f = DeletionEdit(c) /\ c.by = r
                                   /\ f.no < e.no
    BY <1>3, <1>7 DEF Sent
  <2>2. e \notin Sent
    <3>1. ~(e.no < e.no)
      BY <1>1, <1>2, <1>7
    <3>2. QED
      BY <1>7, <2>1, <3>1
  <2>3. QED
    BY <1>7, <2>1, <2>2
<1>10. /\ deletion_map'[r] = [deletion_map[r] EXCEPT ![r] = d.ts]
       /\ \A s \in replicas \ {r} : deletion_map'[s] = deletion_map[s]
  BY <1>1, <1>2
<1>11. DeletionsUpTo(deletion_map[r])' = DeletionsUpTo(deletion_map[r]) \cup {e}
  <2>1. \A c \in deletions :
           deletion_map'[r][c.by] >= c.ts <=> deletion_map[r][c.by] >= c.ts
    BY <1>1, <1>2, <1>3, <1>10
  <2>2. deletion_map'[r][d.by] >= d.ts
    BY <1>1, <1>2, <1>10
  <2>3. {c \in deletions' : deletion_map'[r][c.by] >= c.ts}
          = {c \in deletions : deletion_map[r][c.by] >= c.ts} \cup {d}
    BY <1>1, <2>1, <2>2
  <2>4. \A c \in deletions : DeletionEdit(c)' = DeletionEdit(c)
    BY <1>2, NeedsAreSettled
  <2>5. QED
    BY <1>6, <2>3, <2>4 DEF DeletionsUpTo
<1>12. Merged' = [Merged EXCEPT ![r] = @ \cup {e}]
  <2>1. ASSUME NEW s \in replicas
        PROVE  MergedUpTo(version_map[s], deletion_map[s])'
                 = MergedUpTo(version_map[s], deletion_map[s])
                     \cup (IF s = r THEN {e} ELSE {})
    <3>1. InsertionsUpTo(version_map[s])' = InsertionsUpTo(version_map[s])
      BY <1>1, <1>2, InsertionsKept
    <3>2. s # r =>
            DeletionsUpTo(deletion_map[s])' = DeletionsUpTo(deletion_map[s])
      BY <1>2, <1>10, DeletionsKept
    <3>3. QED
      BY <1>11, <3>1, <3>2 DEF MergedUpTo
  <2>2. QED
    BY <1>1, <2>1, OneMoreEdit
<1>13. {DeletionEdit(c) : c \in {k \in deletions : k.by = r}} \subseteq Merged[r]
  <2>1. \A c \in deletions : c.by = r => deletion_map[r][c.by] >= c.ts
    BY <1>2, <1>3
  <2>2. QED
    BY <1>1, <1>2, <2>1 DEF Merged, MergedUpTo, DeletionsUpTo
<1>14. e.needs \subseteq Merged[r]
  <2>1. \A m \in insertions :
           d.version_map[m.by] > m.start => version_map[r][m.by] > m.start
    BY <1>1, <1>2
  <2>2. InsertionsUpTo(d.version_map) \subseteq InsertionsUpTo(version_map[r])
    BY <2>1 DEF InsertionsUpTo
  <2>3. QED
    BY <1>1, <1>2, <1>7, <2>2 DEF Merged, MergedUpTo
<1>15. Copies' = Copies
  BY CopiesStay
<1>16. e.no \in Nat
  BY <1>1, <1>2, <1>7
<1>17. Delivery!Send(r, e)
  BY <1>1, <1>7, <1>8, <1>9, <1>12, <1>13, <1>14, <1>15, <1>16
     DEF Delivery!Send, Delivery!Earlier
<1>18. QED
  BY <1>5, <1>8, <1>17

(* An edit that is merged takes effect then and not before.                *)
LEMMA MergesInsertionOnce ==
    ASSUME SnapshotInvariant, ClockTypes', OnlyNews, UNCHANGED snapshots,
           NEW r \in ReplicaIds, NEW m \in insertions, MergesInsertion(r, m)
    PROVE  Delivery!Merge(r, InsertionEdit(m)) /\ InsertionEdit(m) \in Sent
<1> DEFINE e == InsertionEdit(m)
<1>1. /\ r \in replicas /\ version_map[r][m.by] = m.start
      /\ version_map' = [version_map EXCEPT ![r][m.by] = m.end]
      /\ UNCHANGED <<replicas, deletion_map, insertions, deletions>>
  BY DEF MergesInsertion
<1>2. /\ ClockTypes /\ ClockInvariant
      /\ version_map \in [ReplicaIds -> [ReplicaIds -> Nat]]
      /\ replicas \subseteq ReplicaIds
      /\ \A n \in insertions : /\ n.by \in ReplicaIds
                               /\ n.start \in Nat /\ n.end \in Nat
                               /\ n.start < n.end
  BY TypesOfClocks
     DEF SnapshotInvariant, ClockTypes, ClockInvariant, InsertionsAreCounted
<1>3. \A n \in insertions :
         n.by = m.by => n = m \/ n.end <= m.start \/ m.end <= n.start
  BY <1>2 DEF ClockInvariant, InsertionsAreDisjoint
<1>4. /\ e.kind = "insertion" /\ e.by = m.by /\ e.no = m.start /\ e.needs = {}
      /\ \A d \in deletions : DeletionEdit(d).kind = "deletion"
      /\ \A n \in insertions : /\ InsertionEdit(n).by = n.by
                               /\ InsertionEdit(n).no = n.start
  BY DEF InsertionEdit, DeletionEdit
<1>5. Sent' = Sent /\ e \in Sent
  BY <1>1, <1>2, SentKept DEF Sent
<1>6. /\ version_map'[r] = [version_map[r] EXCEPT ![m.by] = m.end]
      /\ \A s \in replicas \ {r} : version_map'[s] = version_map[s]
  BY <1>1, <1>2
<1>7. InsertionsUpTo(version_map[r])' = InsertionsUpTo(version_map[r]) \cup {e}
  <2>1. ASSUME NEW n \in insertions, n # m
        PROVE  version_map'[r][n.by] > n.start <=> version_map[r][n.by] > n.start
    <3>1. CASE n.by = m.by
      BY <1>1, <1>2, <1>3, <1>6, <2>1, <3>1
    <3>2. CASE n.by # m.by
      BY <1>2, <1>6, <3>2
    <3>3. QED
      BY <3>1, <3>2
  <2>2. version_map'[r][m.by] > m.start
    BY <1>1, <1>2, <1>6
  <2>3. {n \in insertions' : version_map'[r][n.by] > n.start}
          = {n \in insertions : version_map[r][n.by] > n.start} \cup {m}
    BY <1>1, <2>1, <2>2
  <2>4. QED
    BY <2>3 DEF InsertionsUpTo
<1>8. Merged' = [Merged EXCEPT ![r] = @ \cup {e}]
  <2> HIDE DEF e
  <2>1. ASSUME NEW s \in replicas
        PROVE  MergedUpTo(version_map[s], deletion_map[s])'
                 = MergedUpTo(version_map[s], deletion_map[s])
                     \cup (IF s = r THEN {e} ELSE {})
    <3>1. DeletionsUpTo(deletion_map[s])' = DeletionsUpTo(deletion_map[s])
      BY <1>1, <1>2, DeletionsKept
    <3>2. s # r =>
            InsertionsUpTo(version_map[s])' = InsertionsUpTo(version_map[s])
      BY <1>2, <1>6, InsertionsKept
    <3>3. QED
      BY <1>7, <3>1, <3>2 DEF MergedUpTo
  <2>2. QED
    BY <1>1, <2>1, OneMoreEdit
<1>9. e \notin Merged[r]
  <2> SUFFICES ASSUME e \in Merged[r] PROVE FALSE
    OBVIOUS
  <2>1. PICK n \in insertions : e = InsertionEdit(n)
                                  /\ version_map[r][n.by] > n.start
    BY <1>1, <1>2, <1>4
       DEF Merged, MergedUpTo, InsertionsUpTo, DeletionsUpTo
  <2>2. n.by = m.by /\ n.start = m.start
    BY <1>4, <2>1
  <2>3. QED
    BY <1>1, <1>2, <2>1, <2>2
<1>10. ASSUME NEW f \in Sent, f.kind = e.kind, f.by = e.by, f.no < e.no
       PROVE  f \in Merged[r]
  <2>1. PICK n \in insertions : f = InsertionEdit(n) /\ n.by = m.by
                                  /\ n.start < m.start
    BY <1>4, <1>10 DEF Sent
  <2>2. version_map[r][n.by] > n.start
    BY <1>1, <1>2, <2>1
  <2>3. QED
    BY <1>1, <1>2, <2>1, <2>2 DEF Merged, MergedUpTo, InsertionsUpTo
<1>11. Copies' = Copies
  BY CopiesStay
<1>12. QED
  <2> HIDE DEF e
  <2>1. Delivery!Merge(r, e)
    BY <1>1, <1>4, <1>5, <1>8, <1>9, <1>10, <1>11
       DEF Delivery!Merge, Delivery!Earlier
  <2>2. QED
    BY <1>5, <2>1 DEF e

LEMMA MergesDeletionOnce ==
    ASSUME SnapshotInvariant, ClockTypes', OnlyNews, UNCHANGED snapshots,
           NEW r \in ReplicaIds, NEW d \in deletions, MergesDeletion(r, d)
    PROVE  Delivery!Merge(r, DeletionEdit(d)) /\ DeletionEdit(d) \in Sent
<1>1. /\ r \in replicas /\ deletion_map[r][d.by] + 1 = d.ts
      /\ \A a \in ReplicaIds : version_map[r][a] >= d.version_map[a]
      /\ deletion_map' = [deletion_map EXCEPT ![r][d.by] = d.ts]
      /\ UNCHANGED <<replicas, version_map, insertions, deletions>>
  BY DEF MergesDeletion, CanMergeDeletion
<1>2. /\ ClockTypes /\ ClockInvariant
      /\ deletion_map \in [ReplicaIds -> [ReplicaIds -> Nat]]
      /\ version_map \in [ReplicaIds -> [ReplicaIds -> Nat]]
      /\ replicas \subseteq ReplicaIds
      /\ \A c \in deletions : c.by \in ReplicaIds /\ c.ts \in Nat
      /\ \A m \in insertions : m.by \in ReplicaIds /\ m.start \in Nat
      /\ d.version_map \in [ReplicaIds -> Nat]
  BY TypesOfClocks DEF SnapshotInvariant, ClockTypes
<1>3. \A c \in deletions : c.by = d.by /\ c.ts = d.ts => c = d
  BY <1>2 DEF ClockInvariant, DeletionsAreNumbered
<1>4. PICK e : e = DeletionEdit(d)
  OBVIOUS
<1>5. /\ e.kind = "deletion" /\ e.by = d.by /\ e.no = d.ts
      /\ e.needs = InsertionsUpTo(d.version_map)
      /\ \A m \in insertions : InsertionEdit(m).kind = "insertion"
      /\ \A c \in deletions : /\ DeletionEdit(c).by = c.by
                              /\ DeletionEdit(c).no = c.ts
  BY <1>4 DEF InsertionEdit, DeletionEdit
<1>6. Sent' = Sent /\ e \in Sent
  BY <1>1, <1>2, <1>4, SentKept DEF Sent
<1>7. /\ deletion_map'[r] = [deletion_map[r] EXCEPT ![d.by] = d.ts]
      /\ \A s \in replicas \ {r} : deletion_map'[s] = deletion_map[s]
  BY <1>1, <1>2
<1>8. DeletionsUpTo(deletion_map[r])' = DeletionsUpTo(deletion_map[r]) \cup {e}
  <2>1. ASSUME NEW c \in deletions, c # d
        PROVE  deletion_map'[r][c.by] >= c.ts <=> deletion_map[r][c.by] >= c.ts
    <3>1. CASE c.by = d.by
      <4>1. c.ts # d.ts
        BY <1>3, <2>1, <3>1
      <4>2. /\ deletion_map'[r][c.by] = d.ts /\ deletion_map[r][c.by] + 1 = d.ts
            /\ deletion_map[r][c.by] \in Nat /\ c.ts \in Nat /\ d.ts \in Nat
        BY <1>1, <1>2, <1>7, <3>1
      <4>3. QED
        BY <4>1, <4>2
    <3>2. CASE c.by # d.by
      BY <1>2, <1>7, <3>2
    <3>3. QED
      BY <3>1, <3>2
  <2>2. deletion_map'[r][d.by] >= d.ts
    BY <1>1, <1>2, <1>7
  <2>3. {c \in deletions' : deletion_map'[r][c.by] >= c.ts}
          = {c \in deletions : deletion_map[r][c.by] >= c.ts} \cup {d}
    BY <1>1, <2>1, <2>2
  <2>4. \A c \in deletions : DeletionEdit(c)' = DeletionEdit(c)
    BY <1>2, NeedsAreSettled
  <2>5. QED
    BY <1>4, <2>3, <2>4 DEF DeletionsUpTo
<1>9. Merged' = [Merged EXCEPT ![r] = @ \cup {e}]
  <2>1. ASSUME NEW s \in replicas
        PROVE  MergedUpTo(version_map[s], deletion_map[s])'
                 = MergedUpTo(version_map[s], deletion_map[s])
                     \cup (IF s = r THEN {e} ELSE {})
    <3>1. InsertionsUpTo(version_map[s])' = InsertionsUpTo(version_map[s])
      BY <1>1, <1>2, InsertionsKept
    <3>2. s # r =>
            DeletionsUpTo(deletion_map[s])' = DeletionsUpTo(deletion_map[s])
      BY <1>2, <1>7, DeletionsKept
    <3>3. QED
      BY <1>8, <3>1, <3>2 DEF MergedUpTo
  <2>2. QED
    BY <1>1, <2>1, OneMoreEdit
<1>10. e \notin Merged[r]
  <2> SUFFICES ASSUME e \in Merged[r] PROVE FALSE
    OBVIOUS
  <2>1. PICK c \in deletions : e = DeletionEdit(c)
                                 /\ deletion_map[r][c.by] >= c.ts
    BY <1>1, <1>2, <1>5
       DEF Merged, MergedUpTo, InsertionsUpTo, DeletionsUpTo
  <2>2. c.by = d.by /\ c.ts = d.ts
    BY <1>5, <2>1
  <2>3. QED
    BY <1>1, <1>2, <2>1, <2>2
<1>11. ASSUME NEW f \in Sent, f.kind = e.kind, f.by = e.by, f.no < e.no
       PROVE  f \in Merged[r]
  <2>1. PICK c \in deletions : f = DeletionEdit(c) /\ c.by = d.by
                                 /\ c.ts < d.ts
    BY <1>5, <1>11 DEF Sent
  <2>2. deletion_map[r][c.by] >= c.ts
    BY <1>1, <1>2, <2>1
  <2>3. QED
    BY <1>1, <1>2, <2>1, <2>2 DEF Merged, MergedUpTo, DeletionsUpTo
<1>12. e.needs \subseteq Merged[r]
  <2>1. \A m \in insertions :
           d.version_map[m.by] > m.start => version_map[r][m.by] > m.start
    BY <1>1, <1>2
  <2>2. InsertionsUpTo(d.version_map) \subseteq InsertionsUpTo(version_map[r])
    BY <2>1 DEF InsertionsUpTo
  <2>3. QED
    BY <1>1, <1>2, <1>5, <2>2 DEF Merged, MergedUpTo
<1>13. Copies' = Copies
  BY CopiesStay
<1>14. Delivery!Merge(r, e)
  BY <1>1, <1>5, <1>6, <1>9, <1>10, <1>11, <1>12, <1>13
     DEF Delivery!Merge, Delivery!Earlier
<1>15. QED
  BY <1>4, <1>6, <1>14

(* A replica that is new starts with the edits of the clocks it is given.  *)
LEMMA NewReplicaJoins ==
    ASSUME SnapshotInvariant, ClockTypes', OnlyNews,
           UNCHANGED <<snapshots, insertions, deletions>>,
           NEW id \in ReplicaIds, id \notin replicas,
           replicas' = replicas \cup {id},
           NEW versions, NEW deletion_versions,
           version_map' = [version_map EXCEPT ![id] = versions],
           deletion_map' = [deletion_map EXCEPT ![id] = deletion_versions]
    PROVE  Delivery!Join(id, MergedUpTo(versions, deletion_versions))
<1>1. /\ ClockTypes /\ ClockInvariant
      /\ deletion_map \in [ReplicaIds -> [ReplicaIds -> Nat]]
      /\ version_map \in [ReplicaIds -> [ReplicaIds -> Nat]]
      /\ replicas \subseteq ReplicaIds
  BY TypesOfClocks DEF SnapshotInvariant, ClockTypes
<1>2. /\ \A s \in replicas : /\ version_map'[s] = version_map[s]
                             /\ deletion_map'[s] = deletion_map[s]
      /\ version_map'[id] = versions /\ deletion_map'[id] = deletion_versions
  BY <1>1
<1>3. \A d \in deletions : DeletionEdit(d)' = DeletionEdit(d)
  BY DEF DeletionEdit, InsertionsUpTo
<1>4. Sent' = Sent
  BY <1>3 DEF Sent
<1> DEFINE edits == MergedUpTo(versions, deletion_versions)
<1>5. ASSUME NEW s \in ReplicaIds
      PROVE  Merged'[s] = IF s = id THEN edits ELSE Merged[s]
  <2>1. CASE s = id
    <3>1. Merged'[s] = MergedUpTo(version_map[id], deletion_map[id])'
      BY <2>1 DEF Merged
    <3>2. MergedUpTo(version_map[id], deletion_map[id])' = edits
      BY <1>2, <1>3 DEF MergedUpTo, InsertionsUpTo, DeletionsUpTo
    <3>3. QED
      BY <2>1, <3>1, <3>2
  <2>2. CASE s \in replicas
    <3>1. /\ Merged[s] = MergedUpTo(version_map[s], deletion_map[s])
          /\ Merged'[s] = MergedUpTo(version_map[s], deletion_map[s])'
      BY <2>2 DEF Merged
    <3>2. InsertionsUpTo(version_map[s])' = InsertionsUpTo(version_map[s])
      BY <1>1, <1>2, <2>2, InsertionsKept
    <3>3. DeletionsUpTo(deletion_map[s])' = DeletionsUpTo(deletion_map[s])
      BY <1>1, <1>2, <2>2, DeletionsKept
    <3>4. QED
      BY <2>2, <3>1, <3>2, <3>3 DEF MergedUpTo
  <2>3. CASE s # id /\ s \notin replicas
    <3>1. Merged[s] = {} /\ Merged'[s] = {}
      BY <2>3 DEF Merged
    <3>2. QED
      BY <2>3, <3>1
  <2>4. QED
    BY <2>1, <2>2, <2>3
<1> HIDE DEF edits
<1>6. /\ Merged = [s \in ReplicaIds |-> Merged[s]]
      /\ Merged' = [s \in ReplicaIds |-> Merged'[s]]
  BY DEF Merged
<1>7. Merged' = [Merged EXCEPT ![id] = edits]
  BY <1>5, <1>6
<1>8. Copies' = Copies
  BY CopiesStay
<1>9. Delivery!Join(id, edits)
  BY <1>4, <1>7, <1>8 DEF Delivery!Join
<1>10. QED
  BY <1>9 DEF edits

LEMMA ForkJoins ==
    ASSUME SnapshotInvariant, ClockTypes', OnlyNews, UNCHANGED snapshots,
           NEW r \in ReplicaIds, NEW new \in ReplicaIds, Fork(r, new)
    PROVE  r \in replicas /\ Delivery!Join(new, Merged[r])
<1>1. /\ r \in replicas /\ new \notin replicas
      /\ replicas' = replicas \cup {new}
      /\ version_map' =
           [version_map EXCEPT ![new] = [version_map[r] EXCEPT ![new] = 0]]
      /\ deletion_map' =
           [deletion_map EXCEPT ![new] = [deletion_map[r] EXCEPT ![new] = 0]]
      /\ UNCHANGED <<insertions, deletions>>
  BY DEF Fork, Idle, Active, sent_vars
<1>2. /\ version_map[r] \in [ReplicaIds -> Nat] /\ version_map[r][new] = 0
      /\ deletion_map[r] \in [ReplicaIds -> Nat] /\ deletion_map[r][new] = 0
  BY <1>1 DEF SnapshotInvariant, TypeOK, ClockInvariant, NothingOfTheUnborn
<1>3. /\ [version_map[r] EXCEPT ![new] = 0] = version_map[r]
      /\ [deletion_map[r] EXCEPT ![new] = 0] = deletion_map[r]
  BY <1>2
<1>4. Delivery!Join(new, MergedUpTo(version_map[r], deletion_map[r]))
  BY <1>1, <1>3, NewReplicaJoins
<1>5. Merged[r] = MergedUpTo(version_map[r], deletion_map[r])
  BY <1>1 DEF Merged
<1>6. QED
  BY <1>1, <1>4, <1>5

LEMMA DecodeJoins ==
    ASSUME SnapshotInvariant, ClockTypes', OnlyNews, UNCHANGED snapshots,
           NEW s \in snapshots, NEW id \in ReplicaIds, Decode(s, id)
    PROVE  \E edits \in Copies : Delivery!Join(id, edits)
<1>1. /\ id \notin replicas
      /\ replicas' = replicas \cup {id}
      /\ version_map' =
           [version_map EXCEPT ![id] = [s.version_map EXCEPT ![id] = 0]]
      /\ deletion_map' =
           [deletion_map EXCEPT ![id] = [s.deletion_map EXCEPT ![id] = 0]]
      /\ UNCHANGED <<insertions, deletions>>
  BY DEF Decode, Restored, sent_vars
<1>2. /\ s.version_map \in [ReplicaIds -> Nat] /\ s.version_map[id] = 0
      /\ s.deletion_map \in [ReplicaIds -> Nat] /\ s.deletion_map[id] = 0
  BY <1>1
     DEF SnapshotInvariant, SnapshotTypeOK, SnapshotClocks, KnowsNoMore
<1>3. PICK versions, deletion_versions :
         versions = s.version_map /\ deletion_versions = s.deletion_map
  OBVIOUS
<1>4. /\ [s.version_map EXCEPT ![id] = 0] = versions
      /\ [s.deletion_map EXCEPT ![id] = 0] = deletion_versions
  BY <1>2, <1>3
<1>5. Delivery!Join(id, MergedUpTo(versions, deletion_versions))
  BY <1>1, <1>4, NewReplicaJoins
<1>6. MergedUpTo(versions, deletion_versions) \in Copies
  BY <1>3 DEF Copies
<1>7. QED
  BY <1>5, <1>6

LEMMA EncodeCopies ==
    ASSUME NEW r \in ReplicaIds, Encode(r)
    PROVE  Delivery!Copy(r)
<1>1. /\ r \in replicas /\ UNCHANGED vars
      /\ snapshots' = snapshots \cup {Snapshot(r)}
  BY DEF Encode, Idle, Active
<1>2. UNCHANGED <<replicas, version_map, deletion_map, insertions, deletions>>
  BY <1>1 DEF vars, clock_vars, sent_vars
<1>3. \A d \in deletions : DeletionEdit(d)' = DeletionEdit(d)
  BY <1>2 DEF DeletionEdit, InsertionsUpTo
<1>4. \A versions, deletion_versions :
         MergedUpTo(versions, deletion_versions)'
           = MergedUpTo(versions, deletion_versions)
  BY <1>2, <1>3 DEF MergedUpTo, InsertionsUpTo, DeletionsUpTo
<1>5. UNCHANGED <<replicas, Sent, Merged>>
  BY <1>2, <1>3 DEF Sent, Merged, MergedUpTo, InsertionsUpTo, DeletionsUpTo
<1>6. Merged[r] = MergedUpTo(Snapshot(r).version_map, Snapshot(r).deletion_map)
  BY <1>1 DEF Merged, Snapshot
<1>7. Copies' = Copies \cup {Merged[r]}
  BY <1>1, <1>2, <1>3, <1>6
     DEF Copies, MergedUpTo, InsertionsUpTo, DeletionsUpTo
<1>8. QED
  BY <1>1, <1>5, <1>7 DEF Delivery!Copy

(* What leaves the clocks alone is no step of causal delivery.             *)
LEMMA LeavesDelivery ==
    ASSUME LeavesClocks, UNCHANGED snapshots
    PROVE  UNCHANGED Delivery!vars
<1>1. UNCHANGED <<replicas, version_map, deletion_map, insertions, deletions>>
  BY DEF LeavesClocks, clock_vars
<1>2. \A d \in deletions : DeletionEdit(d)' = DeletionEdit(d)
  BY <1>1 DEF DeletionEdit, InsertionsUpTo
<1>3. UNCHANGED Sent
  BY <1>1, <1>2 DEF Sent
<1>4. UNCHANGED Merged
  BY <1>1, <1>2 DEF Merged, MergedUpTo, InsertionsUpTo, DeletionsUpTo
<1>5. UNCHANGED Copies
  BY <1>1, <1>2 DEF Copies, MergedUpTo, InsertionsUpTo, DeletionsUpTo
<1>6. QED
  BY <1>1, <1>3, <1>4, <1>5 DEF Delivery!vars

LEMMA DeliveryInit == SnapshotInit => Delivery!Init
<1> SUFFICES ASSUME SnapshotInit PROVE Delivery!Init
  OBVIOUS
<1>1. /\ replicas = {Creator} \cup InitialPeers
      /\ insertions = {} /\ deletions = {} /\ snapshots = {}
  BY DEF SnapshotInit, Init
<1>2. replicas \subseteq ReplicaIds
  BY TypeInit DEF SnapshotInit, TypeOK
<1>3. /\ Sent = {} /\ Copies = {}
      /\ \A versions, deletion_versions :
            MergedUpTo(versions, deletion_versions) = {}
  BY <1>1 DEF Sent, Copies, MergedUpTo, InsertionsUpTo, DeletionsUpTo
<1>4. Merged = [r \in ReplicaIds |-> {}]
  BY <1>3 DEF Merged
<1>5. QED
  BY <1>1, <1>2, <1>3, <1>4 DEF Delivery!Init

LEMMA DeliveryNext ==
    SnapshotInvariant /\ SnapshotInvariant'
      /\ [SnapshotNext]_<<vars, snapshots>>
      => [Delivery!Next]_(Delivery!vars)
<1> SUFFICES ASSUME SnapshotInvariant, SnapshotInvariant',
                    [SnapshotNext]_<<vars, snapshots>>
             PROVE  Delivery!Next \/ UNCHANGED Delivery!vars
  OBVIOUS
<1>1. TypeOK /\ ClockInvariant /\ replicas \subseteq ReplicaIds
  BY DEF SnapshotInvariant, TypeOK
<1>2. ClockTypes'
  <2>1. TypeOK'
    BY DEF SnapshotInvariant
  <2>2. QED
    BY <2>1, TypesOfClocks, PTL
<1>3. CASE [Next]_vars /\ UNCHANGED snapshots
  <2>1. OnlyNews
    BY <1>1, <1>3, ReplicasOnlyLearn
  <2>2. ASSUME NEW r \in ReplicaIds, NEW new \in ReplicaIds, Fork(r, new)
        PROVE  Delivery!Next
    BY <1>2, <1>3, <2>1, <2>2, ForkJoins DEF Delivery!Next
  <2>3. ASSUME NEW r \in ReplicaIds, NEW m \in insertions', Inserts(r, m)
        PROVE  Delivery!Next
    BY <1>2, <1>3, <2>1, <2>3, InsertsSends DEF Delivery!Next
  <2>4. ASSUME NEW r \in ReplicaIds, NEW d \in deletions', Deletes(r, d)
        PROVE  Delivery!Next
    BY <1>2, <1>3, <2>1, <2>4, DeletesSends DEF Delivery!Next
  <2>5. ASSUME NEW r \in ReplicaIds, NEW m \in insertions,
               MergesInsertion(r, m)
        PROVE  Delivery!Next
    BY <1>2, <1>3, <2>1, <2>5, MergesInsertionOnce DEF Delivery!Next
  <2>6. ASSUME NEW r \in ReplicaIds, NEW d \in deletions,
               MergesDeletion(r, d)
        PROVE  Delivery!Next
    BY <1>2, <1>3, <2>1, <2>6, MergesDeletionOnce DEF Delivery!Next
  <2>7. CASE LeavesClocks
    BY <1>3, <2>7, LeavesDelivery
  <2>8. QED
    BY <1>1, <1>3, <2>2, <2>3, <2>4, <2>5, <2>6, <2>7, ClockSteps
<1>4. ASSUME NEW r \in ReplicaIds, Encode(r)
      PROVE  Delivery!Next
  BY <1>4, EncodeCopies DEF Delivery!Next
<1>5. ASSUME NEW s \in snapshots, NEW id \in ReplicaIds, Decode(s, id)
      PROVE  Delivery!Next
  <2>1. SnapshotTypeOK(s) /\ SnapshotClocks(s)
    BY DEF SnapshotInvariant
  <2>2. OnlyNews /\ UNCHANGED snapshots
    BY <1>1, <1>5, <2>1, DecodeKeepsClocks DEF Decode, Restored
  <2>3. \E edits \in Copies : Delivery!Join(id, edits)
    BY <1>2, <1>5, <2>2, DecodeJoins
  <2>4. QED
    BY <2>3 DEF Delivery!Next
<1>6. QED
  BY <1>3, <1>4, <1>5 DEF SnapshotNext

(* Whatever is lost, repeated, reordered, saved and gone on from, an edit  *)
(* takes effect at a replica once, in the order of its sender, and after   *)
(* the edits it needs.                                                     *)
THEOREM DeliveryIsCausal == SnapshotSpec => ImplementsCausalDelivery
<1>1. SnapshotSpec => []SnapshotInvariant
  BY SnapshotsAreSafe
<1>2. QED
  BY <1>1, DeliveryInit, DeliveryNext, PTL
     DEF SnapshotSpec, ImplementsCausalDelivery, Delivery!Spec

DeliveryProven == INSTANCE DeliveryProofs WITH
    Replicas <- ReplicaIds, members <- replicas, sent <- Sent,
    merged <- Merged, copies <- Copies

(* So a replica, and a snapshot, has with every edit all that came before. *)
THEOREM ReplicasAreCausallyClosed == SnapshotSpec => []Delivery!CausallyClosed
<1>1. Delivery!Spec => []Delivery!CausallyClosed
  BY DeliveryProven!EditsAreCausallyClosed, PTL
     DEF Delivery!Spec, DeliveryProven!Spec, Delivery!Init,
         DeliveryProven!Init, Delivery!Next, DeliveryProven!Next,
         Delivery!vars, DeliveryProven!vars, Delivery!Send,
         DeliveryProven!Send, Delivery!Merge, DeliveryProven!Merge,
         Delivery!Copy, DeliveryProven!Copy, Delivery!Join,
         DeliveryProven!Join, Delivery!Earlier, DeliveryProven!Earlier,
         Delivery!CausallyClosed, DeliveryProven!CausallyClosed,
         Delivery!IsCausallyClosed, DeliveryProven!IsCausallyClosed
<1>2. QED
  BY <1>1, DeliveryIsCausal, PTL DEF ImplementsCausalDelivery

------------------------------------------------------------------------------
(* The documents of snapshots.                                             *)

(* What a snapshot knew is not changed by what is sent after it.           *)
NewTextIsPast(versions) ==
    /\ insertions \subseteq insertions'
    /\ \A m \in insertions' \ insertions : ~(versions[m.by] > m.start)
    /\ Texts \subseteq Texts'
    /\ \A t \in Texts' \ Texts : versions[t.by] <= t.start
    /\ SentMarks \subseteq SentMarks'
    /\ \A c \in SentMarks' \ SentMarks : ~(c.at < versions[c.id])

MarksOfTexts ==
    \A c \in SentMarks : \E t \in Texts : c \in TextMarks(t) /\ IsIn(c, t)

LEMMA SentMarksAreOfTexts == DocumentsOK => MarksOfTexts
BY SentMark DEF DocumentsOK, MarksOfTexts

LEMMA NewTextIsUncounted ==
    ASSUME DocumentsOK', OnlyNews, ClockTypes,
           NEW versions \in [ReplicaIds -> Nat],
           \A a \in replicas : versions[a] <= version_map[a][a]
    PROVE  NewTextIsPast(versions)
<1>1. ASSUME NEW m \in insertions' \ insertions
      PROVE  /\ m.by \in ReplicaIds /\ m.start \in Nat
             /\ versions[m.by] <= m.start
  <2>1. /\ m.by \in replicas /\ m.by \in ReplicaIds /\ m.start \in Nat
        /\ version_map[m.by][m.by] <= m.start
    BY DEF OnlyNews, DocumentsOK, ClockTypes
  <2>2. versions[m.by] \in Nat /\ version_map[m.by][m.by] \in Nat
    BY <2>1 DEF ClockTypes
  <2>3. QED
    BY <2>1, <2>2
<1>2. Texts' = insertions' \cup {InitialText} /\ Texts \subseteq Texts'
  BY DEF Texts, InitialText, OnlyNews
<1>3. Texts' \ Texts \subseteq insertions' \ insertions
  BY <1>2 DEF Texts
<1>4. SentMarks' = UNION {TextMarks(t) : t \in Texts'}
  BY DEF SentMarks, TextMarks
<1>5. MarksOfTexts'
  BY SentMarksAreOfTexts, PTL
<1>6. ASSUME NEW c \in SentMarks' \ SentMarks
      PROVE  ~(c.at < versions[c.id])
  <2>1. PICK t \in Texts' : c \in TextMarks(t) /\ IsIn(c, t)
    BY <1>5 DEF MarksOfTexts, TextMarks, IsIn
  <2>2. t \notin Texts
    BY <2>1 DEF SentMarks
  <2>3. /\ t.by \in ReplicaIds /\ t.start \in Nat
        /\ versions[t.by] <= t.start
    BY <1>1, <1>3, <2>2
  <2>4. c.at \in Nat /\ t.start <= c.at /\ c.id = t.by
    BY <2>1 DEF IsIn
  <2>5. versions[t.by] \in Nat
    BY <2>3
  <2>6. QED
    BY <2>3, <2>4, <2>5
<1>7. insertions \subseteq insertions'
  BY DEF OnlyNews
<1>8. \A m \in insertions' \ insertions : ~(versions[m.by] > m.start)
  <2>1. SUFFICES ASSUME NEW m \in insertions' \ insertions
                 PROVE  ~(versions[m.by] > m.start)
    OBVIOUS
  <2>2. /\ m.by \in ReplicaIds /\ m.start \in Nat
        /\ versions[m.by] <= m.start
    BY <1>1
  <2>3. versions[m.by] \in Nat
    BY <2>2
  <2>4. QED
    BY <2>2, <2>3
<1>9. SentMarks \subseteq SentMarks'
  BY <1>2, <1>4 DEF SentMarks
<1>10. QED
  BY <1>1, <1>2, <1>3, <1>6, <1>7, <1>8, <1>9 DEF NewTextIsPast

LEMMA SavedTextStays ==
    ASSUME NEW s, SavedDocument(s), SavedVersions(s),
           NewTextIsPast(s.version_map)
    PROVE  SavedDocument(s)' /\ SavedVersions(s)'
<1>1. PICK runs, text, versions :
         /\ runs = s.run_tree /\ text = s.buffer /\ versions = s.version_map
  OBVIOUS
<1>2. /\ WellFormed(TypingOrder, s.run_tree)'
           <=> WellFormed(TypingOrder, runs)
      /\ DocumentMarks(s.run_tree)' = DocumentMarks(runs)
      /\ VisibleChars(s.run_tree)' = VisibleChars(runs)
  BY <1>1 DEF WellFormed, DocumentMarks, RunsAreOrdered, OnlyLastIsEmpty,
              TypingOrder, Mark, MarksBefore, RunMarks, Runs, RunType,
              IsInitialAndEmpty
<1>3. {c \in SentMarks' : c.at < versions[c.id]}
        = {c \in SentMarks : c.at < versions[c.id]}
  BY <1>1 DEF NewTextIsPast
<1>4. SavedDocument(s)'
  BY <1>1, <1>2, <1>3 DEF SavedDocument
<1>5. SavedVersions(s)'
  <2>1. InitialLen <= versions[Creator]
    BY <1>1 DEF SavedVersions
  <2>2. \A t \in Texts' :
           versions[t.by] <= t.start \/ t.end <= versions[t.by]
    BY <1>1 DEF SavedVersions, NewTextIsPast
  <2>3. \A m \in insertions' :
           versions[m.by] > m.start /\ m.anchor # ZeroAnchor
              => m.anchor.offset <= versions[m.anchor.id]
    BY <1>1 DEF SavedVersions, NewTextIsPast
  <2>4. QED
    BY <1>1, <2>1, <2>2, <2>3 DEF SavedVersions, ZeroAnchor
<1>6. QED
  BY <1>4, <1>5

LEMMA SavedDeletionsStay ==
    ASSUME ClockTypes, ClockTypes', OnlyNews, NEW s, SnapshotTypeOK(s),
           KnowsNoMore(s)
    PROVE  SavedDeletions(s)' = SavedDeletions(s)
<1>1. ASSUME NEW d \in deletions' \ deletions
      PROVE  ~(s.deletion_map[d.by] >= d.ts)
  <2>1. /\ d.by \in replicas /\ d.by \in ReplicaIds /\ d.ts \in Nat
        /\ deletion_map[d.by][d.by] < d.ts
    BY DEF OnlyNews, ClockTypes
  <2>2. s.deletion_map[d.by] \in Nat /\ deletion_map[d.by][d.by] \in Nat
    BY <2>1 DEF ClockTypes, SnapshotTypeOK
  <2>3. s.deletion_map[d.by] <= deletion_map[d.by][d.by]
    BY <2>1 DEF KnowsNoMore
  <2>4. QED
    BY <2>1, <2>2, <2>3
<1>2. deletions \subseteq deletions'
  BY DEF OnlyNews
<1>3. QED
  BY <1>1, <1>2 DEF SavedDeletions

LEMMA SavedInGrownOrder ==
    ASSUME NEW order, NEW next, IsGrownOrder(order, next),
           DeletesAlike(order, next), NEW s, SavedDocument(s),
           IsSavedIn(order, s), SavedDeletions(s)' = SavedDeletions(s)
    PROVE  IsSavedIn(next, s)'
<1>1. PICK runs, saved : runs = s.run_tree /\ saved = SavedDeletions(s)
  OBVIOUS
<1>2. DocumentMarks(runs) \subseteq SentMarks
  BY <1>1 DEF SavedDocument
<1>3. \A i \in DOMAIN runs : RunMarks(runs[i]) \subseteq SentMarks
  BY <1>2 DEF DocumentMarks
<1>4. RunsAreOrdered(next, runs)
  <2>1. SUFFICES ASSUME NEW i \in DOMAIN runs, NEW j \in DOMAIN runs, i < j
                 PROVE  MarksBefore(next, RunMarks(runs[i]), RunMarks(runs[j]))
    BY DEF RunsAreOrdered
  <2>2. MarksBefore(order, RunMarks(runs[i]), RunMarks(runs[j]))
    BY <1>1, <2>1 DEF IsSavedIn, RunsAreOrdered
  <2>3. QED
    BY <1>3, <2>2 DEF MarksBefore, IsGrownOrder
<1>5. saved \subseteq deletions
  BY <1>1 DEF SavedDeletions
<1>6. {DeletedBy(next, d)' : d \in saved} = {DeletedBy(order, d) : d \in saved}
  BY <1>5 DEF DeletesAlike
<1>7. DeadMarks(runs) = UNION {DeletedBy(next, d)' : d \in saved}
  BY <1>1, <1>6 DEF IsSavedIn
<1>8. /\ RunsAreOrdered(next, s.run_tree)' <=> RunsAreOrdered(next, runs)
      /\ DeadMarks(s.run_tree)' = DeadMarks(runs)
  BY <1>1 DEF RunsAreOrdered, MarksBefore, RunMarks, DeadMarks, DeadOf
<1>9. IsSavedIn(next, s)' <=>
         /\ RunsAreOrdered(next, s.run_tree)'
         /\ DeadMarks(s.run_tree)' = UNION {DeletedBy(next, d)' : d \in saved}
  BY <1>1 DEF IsSavedIn
<1>10. QED
  BY <1>4, <1>7, <1>8, <1>9

(* A snapshot that is taken is of the document as it is.                   *)
LEMMA EncodeSavesText ==
    ASSUME DocumentsOK, BufferInvariant, AnchorsAreCounted, NEW r \in Live
    PROVE  SavedDocument(Snapshot(r)) /\ SavedVersions(Snapshot(r))
<1> DEFINE s == Snapshot(r)
<1>1. /\ s.run_tree = run_tree[r] /\ s.buffer = buffer[r]
      /\ s.version_map = version_map[r]
  BY DEF Snapshot
<1>2. r \in replicas
  BY DEF Live
<1> HIDE DEF s
<1>3. SavedDocument(s)
  BY <1>1, <1>2 DEF DocumentsOK, DocumentsAreSentText, BufferInvariant,
                    BufferMatchesDocument, SavedDocument
<1>4. SavedVersions(s)
  BY <1>1, <1>2 DEF DocumentsOK, TextInvariant, InitialTextIsCounted,
                    TextsAreCountedWhole, AnchorsAreCounted,
                    HasMergedInsertion, SavedVersions
<1>5. QED
  BY <1>3, <1>4 DEF s

LEMMA EncodeSavesOrder ==
    ASSUME NEW order, IsOrderOfEdits(order), NEW r \in replicas
    PROVE  IsSavedIn(order, Snapshot(r))
<1> DEFINE s == Snapshot(r)
<1>1. s.run_tree = run_tree[r] /\ s.deletion_map = deletion_map[r]
  BY DEF Snapshot
<1> HIDE DEF s
<1>2. RunsAreOrdered(order, s.run_tree)
  BY <1>1 DEF IsOrderOfEdits, IsOrderOfText, DocumentsAreInOrder
<1>3. SavedDeletions(s) = MergedDeletions(r)
  BY <1>1 DEF SavedDeletions, MergedDeletions, HasMergedDeletion
<1>4. DeadMarks(run_tree[r]) =
        UNION {DeletedBy(order, d) : d \in MergedDeletions(r)}
  BY DEF IsOrderOfEdits, DeletionsHaveTheirEffect
<1>5. QED
  BY <1>1, <1>2, <1>3, <1>4 DEF IsSavedIn, s

------------------------------------------------------------------------------
(* A replica that goes on from a snapshot, step by step as for a fork.     *)
IsRestored(s, id) ==
    /\ id \in ReplicaIds \ replicas /\ replicas' = replicas \cup {id}
    /\ \A a \in replicas : /\ run_clock'[a] = run_clock[a]
                           /\ version_map'[a] = version_map[a]
                           /\ deletion_map'[a] = deletion_map[a]
                           /\ run_tree'[a] = run_tree[a]
    /\ version_map'[id] = s.version_map /\ s.version_map[id] = 0
    /\ deletion_map'[id] = s.deletion_map /\ s.deletion_map[id] = 0
    /\ run_tree' = [run_tree EXCEPT ![id] = s.run_tree]
    /\ run_tree'[id] = s.run_tree
    /\ buffer' = [buffer EXCEPT ![id] = s.buffer]
    /\ UNCHANGED <<panicked, insertions, deletions, removed>>

LEMMA Restores ==
    ASSUME DocumentsOK, NEW s, SnapshotTypeOK(s), KnowsNoMore(s),
           NEW id \in ReplicaIds, Decode(s, id)
    PROVE  IsRestored(s, id)
<1>1. /\ id \in ReplicaIds \ replicas /\ replicas' = replicas \cup {id}
      /\ run_tree' = [run_tree EXCEPT ![id] = s.run_tree]
      /\ buffer' = [buffer EXCEPT ![id] = s.buffer]
      /\ run_clock' = [run_clock EXCEPT ![id] = 0]
      /\ version_map' =
           [version_map EXCEPT ![id] = [s.version_map EXCEPT ![id] = 0]]
      /\ deletion_map' =
           [deletion_map EXCEPT ![id] = [s.deletion_map EXCEPT ![id] = 0]]
      /\ UNCHANGED <<panicked, insertions, deletions, removed>>
  BY DEF Decode, Restored, sent_vars
<1>2. /\ replicas \subseteq ReplicaIds
      /\ run_clock \in [ReplicaIds -> Nat]
      /\ version_map \in [ReplicaIds -> [ReplicaIds -> Nat]]
      /\ deletion_map \in [ReplicaIds -> [ReplicaIds -> Nat]]
      /\ DOMAIN run_tree = ReplicaIds
  BY DEF DocumentsOK, ClockTypes, DocumentsAreSentText
<1>3. /\ s.version_map \in [ReplicaIds -> Nat] /\ s.version_map[id] = 0
      /\ s.deletion_map \in [ReplicaIds -> Nat] /\ s.deletion_map[id] = 0
  BY <1>1 DEF SnapshotTypeOK, KnowsNoMore
<1>4. /\ [s.version_map EXCEPT ![id] = 0] = s.version_map
      /\ [s.deletion_map EXCEPT ![id] = 0] = s.deletion_map
  BY <1>3
<1>5. /\ version_map'[id] = s.version_map /\ deletion_map'[id] = s.deletion_map
      /\ run_tree'[id] = s.run_tree
  BY <1>1, <1>2, <1>4
<1>6. \A a \in replicas : /\ run_clock'[a] = run_clock[a]
                          /\ version_map'[a] = version_map[a]
                          /\ deletion_map'[a] = deletion_map[a]
                          /\ run_tree'[a] = run_tree[a]
  BY <1>1, <1>2
<1>7. QED
  BY <1>1, <1>3, <1>5, <1>6 DEF IsRestored

LEMMA TextRestored ==
    ASSUME DocumentsOK, NEW s, SavedVersions(s), NEW id, IsRestored(s, id)
    PROVE  TextInvariant'
<1>1. /\ id \in ReplicaIds \ replicas /\ replicas' = replicas \cup {id}
      /\ \A a \in replicas : /\ run_clock'[a] = run_clock[a]
                             /\ version_map'[a] = version_map[a]
                             /\ deletion_map'[a] = deletion_map[a]
      /\ version_map'[id] = s.version_map /\ version_map'[id][id] = 0
      /\ deletion_map'[id][id] = 0
      /\ UNCHANGED <<insertions, deletions>>
  BY DEF IsRestored
<1>2. Texts' = Texts
  BY <1>1, SameTexts
<1>3. TextInvariant /\ \A t \in Texts : t.by \in replicas
  BY DEF DocumentsOK, TextsOK
<1>4. /\ TextsAreDisjoint' /\ TextsAreInOrder' /\ InitialTextIsFirst'
      /\ EmptyTextIsOldest' /\ RunsAreContinued'
  BY <1>1, <1>2, <1>3 DEF TextInvariant, TextsAreDisjoint, TextsAreInOrder,
     InitialTextIsFirst, EmptyTextIsOldest, RunsAreContinued
<1>5. InsertionsAreAnchored' /\ DeletionsAreAnchored'
  BY <1>1, <1>2, <1>3 DEF TextInvariant, InsertionsAreAnchored, IsAnchoredIn,
                          DeletionsAreAnchored
<1>6. TextsHaveNoGaps'
  BY <1>1, <1>2, <1>3 DEF TextInvariant, TextsHaveNoGaps
<1>7. DeletionsHaveNoGaps'
  BY <1>1, <1>3 DEF TextInvariant, DeletionsHaveNoGaps
<1>8. RunClockIsAhead'
  BY <1>1, <1>2, <1>3 DEF TextInvariant, RunClockIsAhead
<1>9. InitialTextIsCounted'
  BY <1>1, <1>3 DEF TextInvariant, InitialTextIsCounted, SavedVersions
<1>10. TextsAreCountedWhole'
  BY <1>1, <1>2, <1>3 DEF TextInvariant, TextsAreCountedWhole, SavedVersions
<1>11. QED
  BY <1>4, <1>5, <1>6, <1>7, <1>8, <1>9, <1>10 DEF TextInvariant

LEMMA DocumentsRestored ==
    ASSUME DocumentsOK, NEW s, SavedDocument(s), NEW id, IsRestored(s, id)
    PROVE  DocumentsAreSentText'
<1>1. SentMarks' = SentMarks
  BY SameTexts DEF IsRestored
<1>2. WellFormed(TypingOrder, s.run_tree) /\ s.run_tree \in Seq(Runs)
  BY DEF SavedDocument, WellFormed
<1>3. run_tree \in [ReplicaIds -> Seq(Runs)]
  BY DEF DocumentsOK, DocumentsAreSentText
<1>4. run_tree' \in [ReplicaIds -> Seq(Runs)]
  BY <1>2, <1>3 DEF IsRestored
<1>5. ASSUME NEW a \in replicas'
      PROVE  /\ WellFormed(TypingOrder, run_tree'[a])
             /\ DocumentMarks(run_tree'[a]) =
                  {c \in SentMarks : c.at < version_map'[a][c.id]}
  <2>1. CASE a = id
    BY <2>1 DEF IsRestored, SavedDocument
  <2>2. CASE a \in replicas
    BY <2>2 DEF IsRestored, DocumentsOK, DocumentsAreSentText
  <2>3. QED
    BY <2>1, <2>2 DEF IsRestored
<1>6. QED
  BY <1>1, <1>4, <1>5, NextDocuments

LEMMA AnchorsRestored ==
    ASSUME AnchorsAreCounted, NEW s, SavedVersions(s), NEW id,
           IsRestored(s, id)
    PROVE  AnchorsAreCounted'
<1>1. /\ replicas' = replicas \cup {id} /\ UNCHANGED insertions
      /\ \A a \in replicas : version_map'[a] = version_map[a]
      /\ version_map'[id] = s.version_map
  BY DEF IsRestored
<1>2. SUFFICES ASSUME NEW a \in replicas \cup {id}, NEW n \in insertions,
                      version_map'[a][n.by] > n.start, n.anchor # ZeroAnchor
               PROVE  n.anchor.offset <= version_map'[a][n.anchor.id]
  BY <1>1 DEF AnchorsAreCounted, HasMergedInsertion
<1>3. CASE a \in replicas
  BY <1>1, <1>2, <1>3 DEF AnchorsAreCounted, HasMergedInsertion
<1>4. CASE a = id
  BY <1>1, <1>2, <1>4 DEF SavedVersions
<1>5. QED
  BY <1>3, <1>4

LEMMA OrderRestored ==
    ASSUME NEW order, IsOrderOfText(order), NEW s, IsSavedIn(order, s),
           NEW id, IsRestored(s, id)
    PROVE  IsOrderOfText(order)'
<1>1. DocumentsAreInOrder(order)
  BY DEF IsOrderOfText
<1>2. \A a \in replicas' : RunsAreOrdered(order, run_tree'[a])
  BY <1>1 DEF IsRestored, IsSavedIn, DocumentsAreInOrder
<1>3. UNCHANGED insertions
  BY DEF IsRestored
<1>4. QED
  BY <1>2, <1>3, SamePlaces

(* What is deleted stays as it was, since nothing is sent.                 *)
LEMMA RestoredDeletesAlike ==
    ASSUME DocumentsOK, NEW order, NEW s, NEW id, IsRestored(s, id)
    PROVE  IsGrownOrder(order, order) /\ DeletesAlike(order, order)
<1>1. SentMarks' = SentMarks
  BY SameTexts DEF IsRestored
<1>2. IsGrownOrder(order, order)
  BY <1>1 DEF IsGrownOrder
<1>3. RangesAreKnown
  BY RangesOfDeletions
<1>4. ASSUME NEW d \in deletions
      PROVE  DeletedBy(order, d)' = DeletedBy(order, d)
  BY <1>1, <1>2, <1>3, SameDeleted DEF RangesAreKnown
<1>5. QED
  BY <1>2, <1>4 DEF DeletesAlike

LEMMA EffectsRestored ==
    ASSUME DocumentsOK, NEW order, DeletionsHaveTheirEffect(order),
           NEW s, IsSavedIn(order, s), NEW id, IsRestored(s, id)
    PROVE  DeletionsHaveTheirEffect(order)'
<1>1. DeletesAlike(order, order)
  BY RestoredDeletesAlike
<1>2. ASSUME NEW a \in replicas PROVE HasEffect(order, a)'
  <2>1. HasEffect(order, a)
    BY DEF DeletionsHaveTheirEffect, HasEffect
  <2>2. DeadMarks(run_tree'[a]) = DeadMarks(run_tree[a])
    BY DEF IsRestored
  <2>3. MergedDeletions(a)' = MergedDeletions(a)
    BY DEF IsRestored, MergedDeletions, HasMergedDeletion
  <2>4. QED
    BY <1>1, <2>1, <2>2, <2>3, EffectKept
<1>3. HasEffect(order, id)'
  <2>1. PICK dead, saved :
           dead = DeadMarks(s.run_tree) /\ saved = SavedDeletions(s)
    OBVIOUS
  <2>2. DeadMarks(run_tree[id])' = dead
    BY <2>1, NextDead DEF IsRestored
  <2>3. MergedDeletions(id)' = saved
    BY <2>1 DEF IsRestored, MergedDeletions, HasMergedDeletion, SavedDeletions
  <2>4. saved \subseteq deletions
    BY <2>1 DEF SavedDeletions
  <2>5. {DeletedBy(order, d)' : d \in saved}
          = {DeletedBy(order, d) : d \in saved}
    BY <1>1, <2>4 DEF DeletesAlike
  <2>6. dead = UNION {DeletedBy(order, d)' : d \in saved}
    BY <2>1, <2>5 DEF IsSavedIn
  <2>7. HasEffect(order, id)' <=>
          dead = UNION {DeletedBy(order, d)' : d \in saved}
    BY <2>2, <2>3 DEF HasEffect
  <2>8. QED
    BY <2>6, <2>7
<1>4. replicas' = replicas \cup {id}
  BY DEF IsRestored
<1>5. \A a \in replicas' : HasEffect(order, a)'
  BY <1>2, <1>3, <1>4
<1>6. QED
  BY <1>5 DEF DeletionsHaveTheirEffect, HasEffect

LEMMA EditsRestored ==
    ASSUME DocumentsOK, NEW order, IsOrderOfEdits(order),
           NEW s, IsSavedIn(order, s), NEW id, IsRestored(s, id)
    PROVE  IsOrderOfEdits(order)'
<1>1. /\ IsOrderOfText(order) /\ RangesAreInOrder(order)
      /\ DeletionsHaveTheirEffect(order)
  BY DEF IsOrderOfEdits
<1>2. IsOrderOfText(order)'
  BY <1>1, OrderRestored
<1>3. RangesAreInOrder(order)'
  <2>1. IsGrownOrder(order, order)
    BY RestoredDeletesAlike
  <2>2. \A d \in deletions' : d \in deletions
    BY DEF IsRestored
  <2>3. QED
    BY <1>1, <2>1, <2>2, RangesStayInOrder
<1>4. DeletionsHaveTheirEffect(order)'
  BY <1>1, EffectsRestored
<1>5. QED
  BY <1>2, <1>3, <1>4 DEF IsOrderOfEdits

LEMMA BuffersRestored ==
    ASSUME DocumentsOK, BufferInvariant, NEW s, SavedDocument(s), NEW id,
           IsRestored(s, id)
    PROVE  BufferInvariant'
<1>1. DOMAIN run_tree = ReplicaIds /\ replicas \subseteq ReplicaIds
  BY DEF DocumentsOK, DocumentsAreSentText, ClockTypes
<1>2. /\ id \in ReplicaIds /\ Live' \subseteq Live \cup {id}
      /\ IsRewritten(id, s.run_tree, s.buffer)
  BY DEF IsRestored, Live, IsRewritten
<1>3. s.buffer = VisibleChars(s.run_tree)
  BY DEF SavedDocument
<1>4. QED
  BY <1>1, <1>2, <1>3, RewrittenKeepsBuffers

LEMMA RemovalsRestored ==
    ASSUME DocumentsOK, RemovalsAreCounted, NEW s, NEW id, IsRestored(s, id)
    PROVE  RemovalsAreCounted'
<1>1. /\ id \in ReplicaIds \ replicas /\ replicas' = replicas \cup {id}
      /\ \A a \in replicas : deletion_map'[a] = deletion_map[a]
      /\ deletion_map'[id][id] = 0 /\ UNCHANGED removed
  BY DEF IsRestored
<1>2. \A a \in replicas' : Len(removed'[a]) = deletion_map'[a][a]
  BY <1>1 DEF RemovalsAreCounted
<1>3. \A a \in ReplicaIds \ replicas' : Len(removed'[a]) = 0
  BY <1>1 DEF RemovalsAreCounted
<1>4. removed' \in [ReplicaIds -> Seq(SUBSET Characters)]
  BY <1>1 DEF RemovalsAreCounted
<1>5. QED
  BY <1>2, <1>3, <1>4 DEF RemovalsAreCounted, Characters

------------------------------------------------------------------------------
(* The invariant of documents and snapshots together: there is one order   *)
(* of everything that was sent, for the replicas and for all they saved.   *)
IsOrderOfAll(order) ==
    /\ KeepsRuns(order) /\ IsOrderOfEdits(order) /\ RemovalsAreNamed(order)
    /\ SavedInOrder(order)

RestoredTextInvariant ==
    /\ SnapshotInvariant /\ DocumentInvariant /\ BufferInvariant
    /\ AnchorsAreCounted /\ RemovalsAreCounted /\ SavedText
    /\ \E order : IsOrderOfAll(order)

IsGoodSnapshot(order, s) ==
    /\ SnapshotTypeOK(s) /\ KnowsNoMore(s)
    /\ SavedDocument(s) /\ SavedVersions(s) /\ IsSavedIn(order, s)

LEMMA GoodSnapshotStays ==
    ASSUME DocumentsOK, DocumentsOK', OnlyNews, NEW order, NEW next,
           IsGrownOrder(order, next), DeletesAlike(order, next),
           NEW s, IsGoodSnapshot(order, s)
    PROVE  SavedDocument(s)' /\ SavedVersions(s)' /\ IsSavedIn(next, s)'
<1>1. /\ SnapshotTypeOK(s) /\ KnowsNoMore(s)
      /\ SavedDocument(s) /\ SavedVersions(s) /\ IsSavedIn(order, s)
  BY DEF IsGoodSnapshot
<1>2. ClockTypes /\ ClockTypes'
  BY DEF DocumentsOK
<1>3. NewTextIsPast(s.version_map)
  <2>1. PICK versions : versions = s.version_map
    OBVIOUS
  <2>2. /\ versions \in [ReplicaIds -> Nat]
        /\ \A a \in replicas : versions[a] <= version_map[a][a]
    BY <1>1, <2>1 DEF SnapshotTypeOK, KnowsNoMore
  <2>3. QED
    BY <1>2, <2>1, <2>2, NewTextIsUncounted
<1>4. SavedDocument(s)' /\ SavedVersions(s)'
  BY <1>1, <1>3, SavedTextStays
<1>5. SavedDeletions(s)' = SavedDeletions(s)
  BY <1>1, <1>2, SavedDeletionsStay
<1>6. IsSavedIn(next, s)'
  BY <1>1, <1>5, SavedInGrownOrder
<1>7. QED
  BY <1>4, <1>6

(* Steps of the replicas, and snapshots that are taken.                    *)
LEMMA RestoredTextStays ==
    ASSUME RestoredTextInvariant, SnapshotInvariant', [Next]_vars,
           NEW order, IsOrderOfAll(order),
           \A s \in snapshots' : IsGoodSnapshot(order, s)
    PROVE  RestoredTextInvariant'
<1>1. /\ DocumentInvariant /\ BufferInvariant /\ AnchorsAreCounted
      /\ RemovalsAreCounted /\ TypeOK /\ ClockInvariant
  BY DEF RestoredTextInvariant, DocumentInvariant
<1>2. KeepsRuns(order) /\ IsOrderOfEdits(order) /\ RemovalsAreNamed(order)
  BY DEF IsOrderOfAll
<1>3. DocumentInvariant'
  BY <1>1, DocumentNext
<1>4. DocumentsOK /\ DocumentsOK'
  <2>1. DocumentsOK'
    BY <1>3, DocumentsAreOK, PTL
  <2>2. QED
    BY <1>1, <2>1, DocumentsAreOK
<1>5. OnlyNews
  BY <1>1, ReplicasOnlyLearn
<1>6. BufferInvariant'
  BY <1>1, <1>2, NextKeepsBuffers DEF DeletionInvariant
<1>7. /\ AnchorsAreCounted' /\ RemovalsAreCounted'
      /\ \E next : RemovalsGrowTo(order, next)
  BY <1>1, <1>2, <1>3, RemovalsGrow
<1>8. PICK next : RemovalsGrowTo(order, next)
  BY <1>7
<1>9. /\ KeepsRuns(next) /\ IsOrderOfEdits(next)' /\ RemovalsAreNamed(next)'
      /\ IsGrownOrder(order, next) /\ DeletesAlike(order, next)
  BY <1>5, <1>8 DEF RemovalsGrowTo, OnlyNews
<1>10. ASSUME NEW s \in snapshots'
       PROVE  SavedDocument(s)' /\ SavedVersions(s)' /\ IsSavedIn(next, s)'
  BY <1>4, <1>5, <1>9, GoodSnapshotStays
<1>11. SavedText'
  BY <1>10 DEF SavedText
<1>12. IsOrderOfAll(next)'
  <2>1. KeepsRuns(next)'
    BY <1>9 DEF KeepsRuns, Mark
  <2>2. SavedInOrder(next)'
    BY <1>10 DEF SavedInOrder
  <2>3. QED
    BY <1>9, <2>1, <2>2 DEF IsOrderOfAll
<1>13. QED
  BY <1>3, <1>6, <1>7, <1>11, <1>12 DEF RestoredTextInvariant

LEMMA SnapshotsAreGood ==
    ASSUME RestoredTextInvariant, NEW order, IsOrderOfAll(order),
           NEW s \in snapshots
    PROVE  IsGoodSnapshot(order, s)
BY DEF RestoredTextInvariant, SnapshotInvariant, SnapshotClocks, SavedText,
       IsOrderOfAll, SavedInOrder, IsGoodSnapshot

LEMMA EncodeKeepsText ==
    ASSUME RestoredTextInvariant, SnapshotInvariant',
           NEW r \in ReplicaIds, Encode(r)
    PROVE  RestoredTextInvariant'
<1>1. PICK order : IsOrderOfAll(order)
  BY DEF RestoredTextInvariant
<1>2. /\ r \in replicas /\ r \in Live /\ UNCHANGED vars
      /\ snapshots' = snapshots \cup {Snapshot(r)}
  BY DEF Encode, Idle, Active, Live
<1>3. /\ TypeOK /\ ClockInvariant /\ DocumentsOK /\ BufferInvariant
      /\ AnchorsAreCounted /\ IsOrderOfEdits(order)
  BY <1>1, DocumentsAreOK
     DEF RestoredTextInvariant, DocumentInvariant, IsOrderOfAll
<1>4. IsGoodSnapshot(order, Snapshot(r))
  BY <1>2, <1>3, EncodeSavesClocks, EncodeSavesText, EncodeSavesOrder
     DEF SnapshotClocks, IsGoodSnapshot
<1>5. \A s \in snapshots' : IsGoodSnapshot(order, s)
  BY <1>1, <1>2, <1>4, SnapshotsAreGood
<1>6. QED
  BY <1>1, <1>2, <1>5, RestoredTextStays

LEMMA DecodeKeepsText ==
    ASSUME RestoredTextInvariant, SnapshotInvariant',
           NEW s \in snapshots, NEW id \in ReplicaIds, Decode(s, id)
    PROVE  RestoredTextInvariant'
<1>1. PICK order : IsOrderOfAll(order)
  BY DEF RestoredTextInvariant
<1>2. /\ TypeOK /\ ClockInvariant /\ DocumentsOK /\ BufferInvariant
      /\ AnchorsAreCounted /\ RemovalsAreCounted
      /\ KeepsRuns(order) /\ IsOrderOfEdits(order) /\ RemovalsAreNamed(order)
  BY <1>1, DocumentsAreOK
     DEF RestoredTextInvariant, DocumentInvariant, IsOrderOfAll
<1>3. /\ SnapshotTypeOK(s) /\ KnowsNoMore(s) /\ SnapshotClocks(s)
      /\ SavedDocument(s) /\ SavedVersions(s) /\ IsSavedIn(order, s)
  BY <1>1, SnapshotsAreGood
     DEF IsGoodSnapshot, RestoredTextInvariant, SnapshotInvariant
<1>4. IsRestored(s, id)
  BY <1>2, <1>3, Restores
<1>5. UNCHANGED <<snapshots, deletions, removed>>
  BY <1>4 DEF Decode, Restored, IsRestored
<1>6. DocumentInvariant'
  <2>1. TypeOK' /\ ClockInvariant'
    BY DEF SnapshotInvariant
  <2>2. TextInvariant' /\ DocumentsAreSentText'
    BY <1>2, <1>3, <1>4, TextRestored, DocumentsRestored
  <2>3. QED
    BY <2>1, <2>2 DEF DocumentInvariant
<1>7. DocumentsOK'
  BY <1>6, DocumentsAreOK, PTL
<1>8. OnlyNews
  BY <1>2, <1>3, DecodeKeepsClocks
<1>9. BufferInvariant' /\ AnchorsAreCounted' /\ RemovalsAreCounted'
  BY <1>2, <1>3, <1>4, BuffersRestored, AnchorsRestored, RemovalsRestored
<1>10. IsGrownOrder(order, order) /\ DeletesAlike(order, order)
  BY <1>2, <1>4, RestoredDeletesAlike
<1>11. ASSUME NEW t \in snapshots'
       PROVE  SavedDocument(t)' /\ SavedVersions(t)' /\ IsSavedIn(order, t)'
  <2>1. IsGoodSnapshot(order, t)
    BY <1>1, <1>5, SnapshotsAreGood
  <2>2. QED
    BY <1>2, <1>7, <1>8, <1>10, <2>1, GoodSnapshotStays
<1>12. SavedText'
  BY <1>11 DEF SavedText
<1>13. IsOrderOfAll(order)'
  <2>1. KeepsRuns(order)'
    BY <1>2 DEF KeepsRuns, Mark
  <2>2. IsOrderOfEdits(order)'
    BY <1>2, <1>3, <1>4, EditsRestored
  <2>3. RemovalsAreNamed(order)'
    BY <1>2, <1>5, <1>10, NamesLeft
  <2>4. SavedInOrder(order)'
    BY <1>11 DEF SavedInOrder
  <2>5. QED
    BY <2>1, <2>2, <2>3, <2>4 DEF IsOrderOfAll
<1>14. QED
  BY <1>6, <1>9, <1>12, <1>13 DEF RestoredTextInvariant

LEMMA RestoredTextInit == SnapshotInit => RestoredTextInvariant
<1> SUFFICES ASSUME SnapshotInit PROVE RestoredTextInvariant
  OBVIOUS
<1>1. Init /\ snapshots = {}
  BY DEF SnapshotInit
<1>2. SnapshotInvariant /\ DocumentInvariant /\ BufferInvariant
  BY <1>1, SnapshotInvariantInit, TypeInit, ClocksInit, TextInit,
     DocumentsInit, BufferInit DEF DocumentInvariant
<1>3. AnchorsAreCounted /\ RemovalInvariant
  BY <1>1, DeletionInit, RemovalInit DEF DeletionInvariant
<1>4. SavedText /\ \A order : SavedInOrder(order)
  BY <1>1 DEF SavedText, SavedInOrder
<1>5. QED
  BY <1>2, <1>3, <1>4 DEF RestoredTextInvariant, RemovalInvariant, IsOrderOfAll

LEMMA RestoredTextNext ==
    ASSUME RestoredTextInvariant, [SnapshotNext]_<<vars, snapshots>>
    PROVE  RestoredTextInvariant'
<1>1. SnapshotInvariant'
  BY SnapshotInvariantNext DEF RestoredTextInvariant
<1>2. CASE [Next]_vars /\ UNCHANGED snapshots
  <2>1. PICK order : IsOrderOfAll(order)
    BY DEF RestoredTextInvariant
  <2>2. \A s \in snapshots' : IsGoodSnapshot(order, s)
    BY <1>2, <2>1, SnapshotsAreGood
  <2>3. QED
    BY <1>1, <1>2, <2>1, <2>2, RestoredTextStays
<1>3. ASSUME NEW r \in ReplicaIds, Encode(r) PROVE RestoredTextInvariant'
  BY <1>1, <1>3, EncodeKeepsText
<1>4. ASSUME NEW s \in snapshots, NEW id \in ReplicaIds, Decode(s, id)
      PROVE  RestoredTextInvariant'
  BY <1>1, <1>4, DecodeKeepsText
<1>5. QED
  BY <1>2, <1>3, <1>4 DEF SnapshotNext

(* In every state, also of replicas that go on from snapshots, documents,  *)
(* texts and deletions are what the version maps and the deletion maps     *)
(* say, and so are the documents in the snapshots: encode and decode       *)
(* (replica.rs) leave out nothing that a replica needs to go on.           *)
THEOREM RestoredTextIsCorrect == SnapshotSpec => []RestoredTextInvariant
<1>1. SnapshotInit => RestoredTextInvariant
  BY RestoredTextInit
<1>2. RestoredTextInvariant /\ [SnapshotNext]_<<vars, snapshots>>
         => RestoredTextInvariant'
  BY RestoredTextNext
<1>3. QED
  BY <1>1, <1>2, PTL DEF SnapshotSpec

(* The invariants of the replicas alone follow from it.                    *)
LEMMA RestoredInvariants ==
    RestoredTextInvariant =>
        /\ DocumentInvariant /\ BufferInvariant
        /\ OrderInvariant /\ DeletionInvariant /\ RemovalInvariant
BY DEF RestoredTextInvariant, OrderInvariant, DeletionInvariant,
       RemovalInvariant, IsOrderOfAll, IsOrderOfEdits

(* The text saved with a snapshot is the text of the replica that goes on  *)
(* from it, and stays so with all that it merges.                          *)
THEOREM RestoredBuffersMatchDocuments ==
    SnapshotSpec => []BufferMatchesDocument
<1>1. RestoredTextInvariant => BufferMatchesDocument
  BY DEF RestoredTextInvariant, BufferInvariant
<1>2. QED
  BY <1>1, RestoredTextIsCorrect, PTL

(* Replicas that go on from snapshots have their characters in the order   *)
(* all others have them in.                                                *)
THEOREM RestoredOrderIsAgreedOn == SnapshotSpec => []OrderAgreement
<1>1. RestoredTextInvariant => OrderAgreement
  BY RestoredInvariants, DocumentsAgree
<1>2. QED
  BY <1>1, RestoredTextIsCorrect, PTL

(* Replicas with the same edits have the same text, however they came by   *)
(* them: some merged one by one, some restored.                            *)
THEOREM RestoredReplicasConverge == SnapshotSpec => []Convergence
<1>1. RestoredTextInvariant /\ OrderAgreement => Convergence
  BY RestoredInvariants, SameEditsSameText
<1>2. QED
  BY <1>1, RestoredTextIsCorrect, RestoredOrderIsAgreedOn, PTL

(* A restored document has each character its version map counts once, in  *)
(* every merge the ranges to delete are apart, and an edit that is         *)
(* accepted finds its anchors.                                             *)
THEOREM RestoredDocumentsAreCorrect ==
    SnapshotSpec => [](/\ DocumentMatchesVersionMap
                       /\ RangesAreSeparate
                       /\ AcceptedAnchorsAreFound)
<1>1. RestoredTextInvariant => DocumentMatchesVersionMap
  BY RestoredInvariants, VersionMapsCountDocuments
<1>2. RestoredTextInvariant => RangesAreSeparate
  BY RestoredInvariants, RangesAreApart
<1>3. RestoredTextInvariant => AcceptedAnchorsAreFound
  BY RestoredInvariants, AcceptedAnchorsAreHeld
<1>4. QED
  BY <1>1, <1>2, <1>3, RestoredTextIsCorrect, PTL

(* No deletion is undone by going on from a snapshot, and none reaches     *)
(* further for it.                                                         *)
THEOREM RestoredDeletionsAreRight ==
    SnapshotSpec => [](DeletionsTakeEffect /\ OnlyDeletedTextIsLost)
<1>1. RestoredTextInvariant => DeletionsTakeEffect
  BY RestoredInvariants, DeletionsHaveTaken
<1>2. RestoredTextInvariant => OnlyDeletedTextIsLost
  BY RestoredInvariants, OnlyRemovedTextIsDead
<1>3. QED
  BY <1>1, <1>2, RestoredTextIsCorrect, PTL

(* An anchor made in a replica that was saved keeps its place in the one   *)
(* that is restored, and the other way round.                              *)
THEOREM RestoredAnchorsKeepTheirPlace ==
    SnapshotSpec => []AnchorsFollowTheirCharacter
<1>1. RestoredTextInvariant => AnchorsFollowTheirCharacter
  BY RestoredInvariants, AnchorsStickToText
<1>2. QED
  BY <1>1, RestoredTextIsCorrect, PTL

(* Without repeats, what waits in a backlog waits for an edit its replica  *)
(* has not been given, also in a backlog that was saved and restored.      *)
THEOREM RestoredBacklogIsNeverStuck ==
    ASSUME ~Redelivery PROVE SnapshotSpec => []BacklogNeverStuck
<1>1. RestoredTextInvariant /\ BacklogInvariants => BacklogNeverStuck
  BY RestoredInvariants, NothingWaitsForEver
<1>2. SnapshotSpec => [](BacklogInvariants /\ SavedBacklogs)
  BY BacklogsAreRestoredInOrder
<1>3. QED
  BY <1>1, <1>2, RestoredTextIsCorrect, PTL

(* Without repeats no call panics, also after decode.                      *)
THEOREM RestoredReplicasDoNotPanic ==
    ASSUME ~Redelivery PROVE SnapshotSpec => []NoPanic
<1>1. SnapshotInit => NoPanic
  BY DEF SnapshotInit, Init, NoPanic
<1>2. (RestoredTextInvariant /\ NoPanic /\ [SnapshotNext]_<<vars, snapshots>>)
         => NoPanic'
  <2> SUFFICES ASSUME RestoredTextInvariant, NoPanic,
                      [SnapshotNext]_<<vars, snapshots>>
               PROVE  NoPanic'
    OBVIOUS
  <2>1. DocumentInvariant /\ DeletionInvariant /\ AcceptedAnchorsAreFound
    BY RestoredInvariants, AcceptedAnchorsAreHeld
  <2>2. CASE [Next]_vars
    BY <2>1, <2>2, CalmNext
  <2>3. CASE UNCHANGED panicked
    BY <2>3 DEF NoPanic
  <2>4. [Next]_vars \/ UNCHANGED panicked
    BY DEF SnapshotNext, Encode, Decode, Restored, vars
  <2>5. QED
    BY <2>2, <2>3, <2>4
<1>3. QED
  BY <1>1, <1>2, RestoredTextIsCorrect, PTL DEF SnapshotSpec

(* Going on from a snapshot takes nothing back either: in every replica    *)
(* that there is, text is only added and deleted.                          *)
THEOREM RestoredDocumentsOnlyGrow == SnapshotSpec => DocumentOnlyGrows
<1>1. (/\ RestoredTextInvariant /\ RestoredTextInvariant'
       /\ [SnapshotNext]_<<vars, snapshots>>)
         => [\A r \in replicas :
               /\ CharsAt(r) \subseteq CharSet(run_tree'[r])
               /\ KeepsItsOrder(r)
               /\ Tombstones(run_tree[r]) \subseteq Tombstones(run_tree'[r])]_vars
  <2> SUFFICES ASSUME RestoredTextInvariant, RestoredTextInvariant',
                      [SnapshotNext]_<<vars, snapshots>>
               PROVE  (\A r \in replicas : Grows(r)) \/ UNCHANGED vars
    BY DEF Grows
  <2>1. DocumentInvariant /\ DeletionInvariant /\ TypeOK /\ DocumentsOK
    BY RestoredInvariants, DocumentsAreOK DEF DocumentInvariant
  <2>2. DocumentInvariant'
    BY DEF RestoredTextInvariant
  <2>3. CASE [Next]_vars
    BY <2>1, <2>2, <2>3, DocumentGrows
  <2>4. ASSUME NEW r \in ReplicaIds, Encode(r) PROVE UNCHANGED vars
    BY <2>4 DEF Encode
  <2>5. ASSUME NEW s \in snapshots, NEW id \in ReplicaIds, Decode(s, id),
               NEW r \in replicas
        PROVE  Grows(r)
    <3>1. IsRestored(s, id)
      BY <2>1, <2>5, Restores
         DEF RestoredTextInvariant, SnapshotInvariant, SnapshotClocks
    <3>2. run_tree'[r] = run_tree[r]
      BY <3>1 DEF IsRestored
    <3>3. QED
      BY <3>2 DEF Grows, CharsAt, KeepsItsOrder
  <2>6. QED
    BY <2>3, <2>4, <2>5 DEF SnapshotNext
<1>2. QED
  BY <1>1, RestoredTextIsCorrect, PTL DEF SnapshotSpec, DocumentOnlyGrows
==============================================================================
