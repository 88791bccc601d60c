------------------------------ MODULE Snapshots ------------------------------
(***************************************************************************)
(* Saving a replica and going on from what was saved: Replica::encode and  *)
(* Replica::decode.  A snapshot may be old when it is decoded: the replica *)
(* it was taken from may have made and sent edits since, may still be      *)
(* making some, or may be lost, which is a replica that does no more.  A   *)
(* snapshot may be decoded more than once, each time under an id no        *)
(* replica ever had: the uniqueness ReplicaId demands of its users         *)
(* (replica_id.rs:10-16).                                                  *)
(***************************************************************************)
EXTENDS Replica

CONSTANT MaxSnapshots   \* bound: the snapshots taken

ASSUME MaxSnapshotsAssumption == MaxSnapshots \in Nat

VARIABLE snapshots      \* the snapshots taken so far

(* What Replica::encode writes, and the text the user saves with it.  The  *)
(* clock of the replica's own runs is not in it.                           *)
Snapshot(r) ==
    [by |-> r,
     run_tree |-> run_tree[r],
     lamport_clock |-> lamport_clock[r],
     version_map |-> version_map[r],
     deletion_map |-> deletion_map[r],
     insertions_backlog |-> insertions_backlog[r],
     deletions_backlog |-> deletions_backlog[r],
     buffer |-> buffer[r]]

Encode(r) ==
    /\ Idle(r)
    /\ Cardinality(snapshots) < MaxSnapshots
    /\ snapshots' = snapshots \cup {Snapshot(r)}
    /\ UNCHANGED vars

(* The replica the snapshot describes, under another id.                   *)
Restored(s, id) ==
    /\ replicas' = replicas \cup {id}
    /\ run_tree' = [run_tree EXCEPT ![id] = s.run_tree]
    /\ run_clock' = [run_clock EXCEPT ![id] = 0]
    /\ lamport_clock' = [lamport_clock EXCEPT ![id] = s.lamport_clock]
    /\ version_map' =
         [version_map EXCEPT ![id] = [s.version_map EXCEPT ![id] = 0]]
    /\ deletion_map' =
         [deletion_map EXCEPT ![id] = [s.deletion_map EXCEPT ![id] = 0]]
    /\ insertions_backlog' =
         [insertions_backlog EXCEPT ![id] = s.insertions_backlog]
    /\ deletions_backlog' =
         [deletions_backlog EXCEPT ![id] = s.deletions_backlog]
    /\ buffer' = [buffer EXCEPT ![id] = s.buffer]
    /\ UNCHANGED <<iterator, panicked, sent_vars, snapshots>>

(* Mutant: a lost replica is brought back under the id it had.             *)
DecodeAgain(s, id) ==
    /\ s \in snapshots
    /\ id \in ReplicaIds /\ Active(id) => Idle(id)
    /\ Restored(s, id)

Decode(s, id) ==
    /\ s \in snapshots
    /\ id \in ReplicaIds \ replicas
    /\ Restored(s, id)

SnapshotInit == Init /\ snapshots = {}

SnapshotNext ==
    \/ Next /\ UNCHANGED snapshots
    \/ \E r \in ReplicaIds : Encode(r)
    \/ \E s \in snapshots, id \in ReplicaIds : Decode(s, id)

SnapshotSpec == SnapshotInit /\ [][SnapshotNext]_<<vars, snapshots>>
==============================================================================
