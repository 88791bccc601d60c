-------------------------- MODULE SnapshotInvariant --------------------------
(***************************************************************************)
(* What is true of every snapshot however old it is: it knows what some    *)
(* replica knew, and replicas only learn.  With the invariants of the      *)
(* replicas themselves this is inductive for SnapshotSpec.                 *)
(***************************************************************************)
EXTENDS Snapshots, ReplicaInvariant

SnapshotTypeOK(s) ==
    /\ s.by \in ReplicaIds
    /\ s.lamport_clock \in Nat
    /\ s.version_map \in [ReplicaIds -> Nat]
    /\ s.deletion_map \in [ReplicaIds -> Nat]
    /\ s.insertions_backlog \in [ReplicaIds -> Seq(insertions)]
    /\ s.deletions_backlog \in [ReplicaIds -> Seq(deletions)]

(* A snapshot knows of no edit its maker has not made yet.                 *)
KnowsNoMore(s) ==
    /\ \A a \in ReplicaIds \ replicas :
         s.version_map[a] = 0 /\ s.deletion_map[a] = 0
    /\ \A a \in replicas :
         /\ s.version_map[a] <= version_map[a][a]
         /\ s.deletion_map[a] <= deletion_map[a][a]

LamportClockWasAhead(s) ==
    /\ s.lamport_clock > 0
    /\ \A m \in insertions :
         s.version_map[m.by] > m.start => m.lam < s.lamport_clock

DeletionsWereCausal(s) ==
    \A d \in deletions :
        s.deletion_map[d.by] >= d.ts
            => \A a \in ReplicaIds : s.version_map[a] >= d.version_map[a]

SnapshotClocks(s) ==
    KnowsNoMore(s) /\ LamportClockWasAhead(s) /\ DeletionsWereCausal(s)

(* The clocks of the replicas are right, and so are the clocks of a        *)
(* snapshot, measured against all that was sent since it was taken: it is  *)
(* as safe to go on from it as from the replica it was taken from.         *)
SnapshotInvariant ==
    /\ TypeOK /\ ClockInvariant
    /\ \A s \in snapshots : SnapshotTypeOK(s) /\ SnapshotClocks(s)

(* A backlog goes into the snapshot in order.                              *)
SavedBacklogs ==
    \A s \in snapshots, a \in ReplicaIds :
        /\ InsertionsQueueOK(s.insertions_backlog[a], a, s.version_map[a])
        /\ DeletionsQueueOK(s.deletions_backlog[a], a, s.deletion_map[a])
==============================================================================
