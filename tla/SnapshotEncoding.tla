-------------------------- MODULE SnapshotEncoding --------------------------
(***************************************************************************)
(* The bytes of a snapshot give back the replica it was taken from.        *)
(***************************************************************************)
EXTENDS Snapshots, EncodingProperties

(* The tree and the table of a document of few leaves: the leaves are the  *)
(* children of one inner node.                                             *)
TreeOf(runs) ==
    [inodes |-> <<[len |-> DocumentLen(runs), parent |-> 0,
                   children |-> [k \in DOMAIN runs |-> k],
                   has_leaves |-> TRUE]>>,
     lnodes |-> [k \in DOMAIN runs |-> [value |-> runs[k], parent |-> 1]],
     root |-> 1]

LeavesOf(runs, id, ts) ==
    SortSeq(SelectSeq([k \in DOMAIN runs |-> k],
                      LAMBDA k : runs[k].id = id /\ runs[k].ts = ts),
            LAMBDA j, k : runs[j].start < runs[k].start)

RunOf(runs, leaves) ==
    [fragments |-> [n \in DOMAIN leaves |->
                      Fragment(RunLen(runs[leaves[n]]), leaves[n])],
     offset |-> runs[leaves[1]].start]

NumRuns(runs, id) ==
    Cardinality({runs[k].ts : k \in {j \in DOMAIN runs : runs[j].id = id}})

IndicesOf(runs) ==
    [id \in ReplicaIds |->
       [n \in 1 .. NumRuns(runs, id) |-> RunOf(runs, LeavesOf(runs, id, n - 1))]]

(* What is written of a snapshot.                                          *)
Written(s) ==
    [tree |-> TreeOf(s.run_tree), indices |-> IndicesOf(s.run_tree),
     lamport_clock |-> s.lamport_clock, version_map |-> s.version_map,
     deletion_map |-> s.deletion_map,
     insertions_backlog |-> s.insertions_backlog,
     deletions_backlog |-> s.deletions_backlog]

IsRead(value, w) ==
    LET document == value.document
    IN  /\ document.inodes = w.tree.inodes
        /\ document.lnodes = w.tree.lnodes
        /\ document.root = w.tree.root
        /\ document.indices = w.indices
        /\ value.lamport_clock = w.lamport_clock
        /\ value.version_map = w.version_map
        /\ value.deletion_map = w.deletion_map
        /\ value.insertions_backlog = w.insertions_backlog
        /\ value.deletions_backlog = w.deletions_backlog

(* A snapshot is decoded as the replica it was taken from, its backlog     *)
(* and the fragments of its runs included; it is refused when nothing is   *)
(* left of it, or the version alone, or when only its last byte is lost.   *)
SnapshotsAreRestored ==
    [][\A s \in snapshots' \ snapshots : \A order \in Orders :
         LET w == Written(s)
             bytes == EncodedReplica(w, s.by, order)
         IN  /\ IsRead(ToReplica(ReplicaIds, bytes).value, w)
             /\ \A k \in {0, 1, Len(bytes) - 1} :
                  ~ToReplica(ReplicaIds, SubSeq(bytes, 1, k)).ok
      ]_<<vars, snapshots>>
==============================================================================
