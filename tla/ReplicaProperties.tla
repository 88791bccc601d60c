-------------------------- MODULE ReplicaProperties --------------------------
(***************************************************************************)
(* What makes the replicas of a document correct.                          *)
(***************************************************************************)
EXTENDS Replica

InsertionTypeOK(m) ==
    /\ m.by \in ReplicaIds
    /\ m.start \in Nat /\ m.end \in Nat
    /\ m.ts \in Nat /\ m.lam \in Nat

DeletionTypeOK(d) ==
    /\ d.by \in ReplicaIds
    /\ d.ts \in Nat
    /\ d.version_map \in [ReplicaIds -> Nat]

IteratorType ==
    {NoIterator} \cup
    [kind : {"insertions", "deletions"}, current : ReplicaIds,
     rest : SUBSET ReplicaIds, silent : BOOLEAN]

(* The types of the replicas' protocol state and of the edits they send;   *)
(* only edits that were sent are ever in a backlog.  The documents are the *)
(* subject of DocumentMatchesVersionMap.                                   *)
TypeOK ==
    /\ replicas \subseteq ReplicaIds
    /\ panicked \subseteq ReplicaIds
    /\ run_clock \in [ReplicaIds -> Nat]
    /\ lamport_clock \in [ReplicaIds -> Nat]
    /\ version_map \in [ReplicaIds -> [ReplicaIds -> Nat]]
    /\ deletion_map \in [ReplicaIds -> [ReplicaIds -> Nat]]
    /\ \A m \in insertions : InsertionTypeOK(m)
    /\ \A d \in deletions : DeletionTypeOK(d)
    /\ insertions_backlog \in [ReplicaIds -> [ReplicaIds -> Seq(insertions)]]
    /\ deletions_backlog \in [ReplicaIds -> [ReplicaIds -> Seq(deletions)]]
    /\ iterator \in [ReplicaIds -> IteratorType]

------------------------------------------------------------------------------
(* The replicas whose documents can be read.                               *)
Live == replicas \ panicked

CharsAt(r) == CharSet(run_tree[r])

(* RunIndices::assert_invariants (run_indices.rs): a document holds every  *)
(* character its version map counts exactly once, and the leaves of one    *)
(* inserter, taken in the order of their characters, have run timestamps   *)
(* that never decrease and change exactly where the Lamport ones do.       *)
DocumentMatchesVersionMap ==
    \A r \in Live :
        /\ \A i, j \in DOMAIN run_tree[r] :
             i # j => RunCharSet(run_tree[r][i]) \cap RunCharSet(run_tree[r][j])
                        = {}
        /\ CharsAt(r) =
             UNION {{[id |-> a, at |-> k] : k \in 0 .. version_map[r][a] - 1} :
                        a \in ReplicaIds}
        /\ \A i, j \in DOMAIN run_tree[r] :
             LET x == run_tree[r][i]
                 y == run_tree[r][j]
             IN  x.id = y.id /\ x.start < y.start
                   => /\ x.ts <= y.ts
                      /\ x.lam <= y.lam
                      /\ x.ts = y.ts <=> x.lam = y.lam

(* The offsets and ranges the methods return are the right ones: a user    *)
(* who applies them, and nothing else, sees the text of the document.      *)
BufferMatchesDocument ==
    \A r \in Live : buffer[r] = VisibleChars(run_tree[r])

(* Two replicas never disagree on the order of two characters they both    *)
(* have, whatever else either of them has or lacks: the anchors and the    *)
(* Lamport order of runs place concurrent insertions alike everywhere.     *)
OrderAgreement ==
    \A r, s \in Live : r < s =>
        \A c, e \in CharsAt(r) \cap CharsAt(s) :
            ComesBefore(run_tree[r], c, e) <=> ComesBefore(run_tree[s], c, e)

(* The characters of a document that the user sees.                        *)
VisibleAt(r) == CharsAt(r) \ Tombstones(run_tree[r])

(* Strong eventual consistency: two replicas that have merged the same     *)
(* edits show the same characters, in the same order.                      *)
Convergence ==
    \A r, s \in Live :
        version_map[r] = version_map[s] /\ deletion_map[r] = deletion_map[s]
            => /\ VisibleAt(r) = VisibleAt(s)
               /\ \A c, e \in VisibleAt(r) :
                    ComesBefore(run_tree[r], c, e)
                      <=> ComesBefore(run_tree[s], c, e)

(* merge_deletion misses nothing: a character its user deleted stays       *)
(* deleted wherever the deletion is merged, also where the text was split, *)
(* joined or interleaved with concurrent insertions meanwhile.             *)
DeletionsTakeEffect ==
    \A r \in Live, a \in ReplicaIds :
        \A ts \in 1 .. deletion_map[r][a] :
            removed[a][ts] \subseteq Tombstones(run_tree[r])

(* merge_deletion takes nothing too much: only characters some user        *)
(* deleted are deleted, and text inserted into a range while it was being  *)
(* deleted elsewhere survives.                                             *)
OnlyDeletedTextIsLost ==
    \A r \in Live :
        Tombstones(run_tree[r]) \subseteq
            UNION UNION {ToSet(removed[a]) : a \in ReplicaIds}

(* The ranges integrate_deletion returns (replica.rs:663-667) are not      *)
(* empty, ascending and not even adjacent.                                 *)
AreSeparate(ranges) ==
    /\ \A i \in DOMAIN ranges : ranges[i].start < ranges[i].end
    /\ \A i, j \in DOMAIN ranges : i < j => ranges[i].end < ranges[j].start

RangesAreSeparate ==
    \A r \in Live, d \in deletions :
        CanMergeDeletion(r, d)
            => AreSeparate(MergeDeletion(run_tree[r], d).ranges)

(* What an edit speaks of is found wherever can_merge accepts it: the      *)
(* lookups of its anchors in the run indices, by the run's timestamp and   *)
(* not by the character, do not fail (the unwraps of run_indices.rs).      *)
AcceptedAnchorsAreFound ==
    \A r \in Live :
        /\ \A m \in insertions :
             CanMergeInsertion(r, m) /\ m.anchor # ZeroAnchor
                 => HasLeafAt(run_tree[r], m.anchor, "left")
        /\ \A d \in deletions :
             CanMergeDeletion(r, d)
                 => /\ HasLeafAt(run_tree[r], d.start, "right")
                    /\ HasLeafAt(run_tree[r], d.end, "left")

(* No legal sequence of calls makes the code panic: an anchor accepted by  *)
(* can_merge is always found in the tree (the unwraps of RunIndices), the  *)
(* merge of a deletion hands the tree the offset of the leaf it changes    *)
(* (the debug_asserts of Gtree::delete_range_in_leaf).                     *)
NoPanic == panicked = {}

(* Backlog::assert_invariants (backlog.rs): a queue holds edits of one     *)
(* replica, in order, none of them merged yet.                             *)
InsertionsQueueOK(queue, a, merged) ==
    \A k \in DOMAIN queue :
        /\ queue[k].by = a
        /\ merged <= queue[k].start
        /\ \A j \in DOMAIN queue : j < k => queue[j].end <= queue[k].start

DeletionsQueueOK(queue, a, merged) ==
    \A k \in DOMAIN queue :
        /\ queue[k].by = a
        /\ merged < queue[k].ts
        /\ \A j \in DOMAIN queue : j < k => queue[j].ts < queue[k].ts

BacklogInvariants ==
    \A r \in replicas, a \in ReplicaIds :
        /\ InsertionsQueueOK(insertions_backlog[r][a], a, version_map[r][a])
        /\ DeletionsQueueOK(deletions_backlog[r][a], a, deletion_map[r][a])

(* Edits never wait for each other for ever: when every edit has reached a *)
(* replica and nothing at the front of its queues can be merged, nothing   *)
(* is left in its backlog.                                                 *)
HasReceivedAll(r) ==
    /\ \A m \in insertions :
         \/ HasMergedInsertion(r, m)
         \/ IsBackloggedInsertion(r, m)
    /\ \A d \in deletions :
         \/ HasMergedDeletion(r, d)
         \/ IsBackloggedDeletion(r, d)

NothingReady(r) ==
    \A a \in ReplicaIds :
        /\ insertions_backlog[r][a] # <<>>
             => ~CanMergeInsertion(r, Head(insertions_backlog[r][a]))
        /\ deletions_backlog[r][a] # <<>>
             => ~CanMergeDeletion(r, Head(deletions_backlog[r][a]))

BacklogNeverStuck ==
    \A r \in Live :
        HasReceivedAll(r) /\ NothingReady(r)
            => \A a \in ReplicaIds : /\ insertions_backlog[r][a] = <<>>
                                     /\ deletions_backlog[r][a] = <<>>

------------------------------------------------------------------------------
(* The clocks.                                                             *)

(* A replica's Lamport clock is ahead of every insertion it has merged or  *)
(* made itself.                                                            *)
LamportClockIsAhead ==
    \A r \in replicas, m \in insertions :
        HasMergedInsertion(r, m) => m.lam < lamport_clock[r]

(* A deletion is merged only where all the text its sender knew of was     *)
(* merged before, and that text is never taken back.                       *)
DeletionsAreCausal ==
    \A r \in replicas, d \in deletions :
        HasMergedDeletion(r, d)
            => \A a \in ReplicaIds : version_map[r][a] >= d.version_map[a]

(* The guarantee LamportClock documents (replica.rs:962-968): a run in the *)
(* document when another run is inserted has a strictly lower timestamp.   *)
StartsRun(r) == run_clock'[r] # run_clock[r] /\ r \in replicas

NewRunsAreNewest ==
    [][\A r \in ReplicaIds :
         StartsRun(r) =>
            \A m \in insertions, n \in insertions' \ insertions :
                HasMergedInsertion(r, m) => m.lam < n.lam]_vars

(* The step leaves any two characters of the replica in their order.       *)
KeepsItsOrder(r) ==
    \A c, e \in CharsAt(r) :
        ComesBefore(run_tree[r], c, e) <=> ComesBefore(run_tree'[r], c, e)

(* A step of a replica never forgets or reorders the characters it has,    *)
(* and never brings a deleted one back.                                    *)
DocumentOnlyGrows ==
    [][\A r \in replicas :
         /\ CharsAt(r) \subseteq CharSet(run_tree'[r])
         /\ KeepsItsOrder(r)
         /\ Tombstones(run_tree[r]) \subseteq Tombstones(run_tree'[r])]_vars

------------------------------------------------------------------------------
(* Liveness.                                                               *)

HasEverythingOf(r, a) ==
    /\ version_map[r][a] = version_map[a][a]
    /\ deletion_map[r][a] = deletion_map[a][a]

(* Once the users stop editing, every edit is merged everywhere: the       *)
(* backlog holds an edit back for a while, never for ever, although an     *)
(* iterator visits each queue only once, in any order, and may be dropped  *)
(* early.                                                                  *)
EveryEditIsMerged ==
    <>[](\A r, a \in replicas : HasEverythingOf(r, a))

------------------------------------------------------------------------------
(* What the documentation promises and the code does not keep.             *)

(* BackloggedInsertions goes through *all* the backlogged insertions that  *)
(* are ready (replica.rs:150): one that became ready on the way is not     *)
(* left behind when the iterator has come to its end.                      *)
NothingReadyAfterFullPass ==
    [][\A r \in Live :
         /\ iterator[r].kind = "insertions" /\ ~CanMergeFirst(r)
         /\ iterator'[r] = NoIterator
         => \A a \in Queues(insertions_backlog[r]) :
               ~CanMergeInsertion(r, Head(insertions_backlog[r][a]))]_vars

(* The assertion at backlog.rs:89: no queue starts with an insertion that  *)
(* has been merged already.                                                *)
FirstInsertionIsNotMerged ==
    \A r \in Live : \A a \in Queues(insertions_backlog[r]) :
        version_map[r][a] <= Head(insertions_backlog[r][a]).start
==============================================================================
