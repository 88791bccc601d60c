-------------------------- MODULE RunStoreProperties --------------------------
(***************************************************************************)
(* What a replica's store promises: the assertions of its                  *)
(* assert_invariants methods, and that it is the list of leaves on which   *)
(* module Replica is built.                                                *)
(***************************************************************************)
EXTENDS RunStore, ReplicaEncoding

tree == local.store.tree

indices == local.store.indices

(* assert_inode_invariants (gtree.rs:1027), and more: every node knows its *)
(* parent, all leaves are equally deep, and no cached length is stale.     *)
(* Splits move nodes between parents and deletions set lengths to zero     *)
(* below a node, so each repairs parents and lengths on several levels.    *)
NodesAreConsistent == ConsistentNodes(tree)

(* No node is lost: all leaves ever pushed are below the root, once each,  *)
(* and so are all inner nodes.                                             *)
NoNodeIsLost == ReachableNodes(tree)

(* "Every internal node in the Gtree contains from a minimum of ARITY / 2  *)
(* to a maximum of ARITY children" (gtree.rs:315), but for the root.       *)
NodesAreHalfFull == HalfFullNodes(tree)

(* The assertions on the cursor in assert_invariants (gtree.rs:301): its   *)
(* offset and its position are those of its leaf, after edits elsewhere,   *)
(* splits of its parent and joins of its leaf too.                         *)
CursorIsRight ==
    tree.cursor # NoCursor =>
        /\ tree.cursor.offset = OffsetOfLeaf(RemoveCursor(tree), tree.cursor.leaf)
        /\ tree.cursor.child = IdxOfLeafInParent(tree, tree.cursor.leaf)

(* RunIndices::assert_invariants (run_indices.rs:20): the fragments of     *)
(* every run are the leaves of that run, in order, with their lengths.     *)
IndicesMatchLeaves ==
    \A id \in DOMAIN indices : \A ts \in 0 .. Len(indices[id]) - 1 :
        LET entry == indices[id][ts + 1]
        IN  \A k \in DOMAIN entry.fragments :
              LET run == Leaf(tree, entry.fragments[k].leaf)
              IN  /\ run.id = id /\ run.ts = ts
                  /\ RunLen(run) = entry.fragments[k].len
                  /\ run.start = entry.offset
                                   + FragmentsLen(SubSeq(entry.fragments, 1, k - 1))

(* Every anchor is mapped to the leaf that holds its character, the one    *)
(* before it (left) or after it (right), at every boundary of every run.   *)
AnchorsAreFound ==
    \A l \in DOMAIN tree.lnodes :
        LET run == Leaf(tree, l)
            At(offset) == [id |-> run.id, offset |-> offset, ts |-> run.ts]
        IN  \A k \in 1 .. RunLen(run) :
              /\ LeafAtAnchor(indices, At(run.start + k), "left") = l
              /\ LeafAtAnchor(indices, At(run.start + k - 1), "right") = l

(* All characters of some leaves in order, and which ones are deleted.     *)
Contents(runs) ==
    FlattenSeq([i \in DOMAIN runs |->
                  [k \in 1 .. RunLen(runs[i]) |->
                     [at |-> List!RunChars(runs[i])[k], del |-> runs[i].del]]])

LeafValues == [i \in DOMAIN LeavesFromFirst(tree) |->
                 Leaf(tree, LeavesFromFirst(tree)[i])]

(* The store holds the document that module RunTree computes on a plain    *)
(* list of leaves, although leaves are joined there that are not siblings  *)
(* in the tree.                                                            *)
SameDocument == Contents(LeafValues) = Contents(local.runs)

(* And it gave the same anchors, offsets and ranges for every edit.        *)
SameResults == local.agree

(* A document that is saved and restored is the same in every node: each   *)
(* leaf gets the id, the timestamp and the characters back that are not    *)
(* written, from its place among the fragments of its run, and the table   *)
(* finds it where it did.  Only the cursor is gone.  Looked at while more  *)
(* edits are to follow, in whatever order the table gives its ids.         *)
StoreIsRestored ==
    edits > 0 =>
        \A order \in SetToSeqs(DOMAIN indices) :
            DecodeRunTree(DOMAIN indices, EncodeRunTree(tree, indices, order))
              = Ok([inodes |-> tree.inodes, lnodes |-> tree.lnodes,
                    root |-> tree.root, indices |-> indices], <<>>)

(* "A stable identifier for a particular leaf" (gtree.rs:155): in every    *)
(* step, leaves keep their run and their order, whatever is inserted,      *)
(* split, joined or moved to another node.                                 *)
LeavesAreStable ==
    [][LET IsOld(l) == l \in DOMAIN tree.lnodes
       IN  /\ SelectSeq(LeavesFromFirst(tree'), IsOld) = LeavesFromFirst(tree)
           /\ \A l \in DOMAIN tree.lnodes :
                Leaf(tree, l).id = Leaf(tree', l).id
                  /\ Leaf(tree, l).ts = Leaf(tree', l).ts]_vars
===============================================================================
