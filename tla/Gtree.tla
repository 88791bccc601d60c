-------------------------------- MODULE Gtree --------------------------------
(***************************************************************************)
(* The B-tree that holds the leaves of a document (src/src/gtree.rs).      *)
(*                                                                         *)
(* A tree is a record of two growing vectors, the inner nodes and the leaf *)
(* nodes, the index of the root, and the cursor: the position of the last  *)
(* edit.  Nodes refer to each other by index; 0 is the dangling index.  An *)
(* inner node caches the length of all leaves below it.                    *)
(*                                                                         *)
(* Where the code returns an option, the model has a sequence of at most   *)
(* one element.  Positions among the children of a node count from 1.      *)
(***************************************************************************)
EXTENDS EditRun, SequencesExt

CONSTANT Arity    \* the most children an inner node can have

ASSUME ArityAssumption == Arity \in Nat /\ Arity >= 4 /\ Arity % 2 = 0

MaxChildren == Arity
MinChildren == Arity \div 2

Dangling == 0

NoCursor == [leaf |-> Dangling, offset |-> 0, child |-> 0]

Cursor(leaf, offset, child) ==
    [leaf |-> leaf, offset |-> offset, child |-> child]

FromFirstLeaf(run) ==
    [inodes |-> <<[len |-> VisibleLen(run), parent |-> Dangling,
                   children |-> <<1>>, has_leaves |-> TRUE]>>,
     lnodes |-> <<[value |-> run, parent |-> 1]>>,
     root |-> 1,
     cursor |-> NoCursor]

Leaf(t, leaf) == t.lnodes[leaf].value

Parent(t, leaf) == t.lnodes[leaf].parent

NumChildren(t, n) == Len(t.inodes[n].children)

------------------------------------------------------------------------------
(* Lengths and positions.                                                  *)

NodeLen(t, has_leaves, node) ==
    IF has_leaves THEN VisibleLen(Leaf(t, node)) ELSE t.inodes[node].len

ChildLen(t, n, k) ==
    NodeLen(t, t.inodes[n].has_leaves, t.inodes[n].children[k])

SumOfLens(t, has_leaves, nodes) ==
    FoldLeft(LAMBDA sum, node : sum + NodeLen(t, has_leaves, node), 0, nodes)

(* The length of the first children of an inner node.                      *)
LenOffsetOfChild(t, n, k) ==
    SumOfLens(t, t.inodes[n].has_leaves, SubSeq(t.inodes[n].children, 1, k - 1))

IdxOfChild(t, n, node) ==
    CHOOSE k \in DOMAIN t.inodes[n].children : t.inodes[n].children[k] = node

IdxOfLeafInParent(t, leaf) == IdxOfChild(t, Parent(t, leaf), leaf)

RECURSIVE LeavesUnder(_, _), InodesUnder(_, _)

(* The leaves below an inner node, in order.                               *)
LeavesUnder(t, n) ==
    LET children == t.inodes[n].children
    IN  IF t.inodes[n].has_leaves THEN children
        ELSE FlattenSeq([k \in DOMAIN children |-> LeavesUnder(t, children[k])])

InodesUnder(t, n) ==
    IF t.inodes[n].has_leaves THEN {n}
    ELSE {n} \cup UNION {InodesUnder(t, c) : c \in ToSet(t.inodes[n].children)}

LeavesFromFirst(t) == LeavesUnder(t, t.root)

TreeLen(t) == t.inodes[t.root].len

FirstLeaf(t) == Head(LeavesFromFirst(t))

(* The leaf after a leaf, or none.                                         *)
NextLeaf(t, leaf) ==
    LET leaves == LeavesFromFirst(t)
        k == CHOOSE k \in DOMAIN leaves : leaves[k] = leaf
    IN  SubSeq(leaves, k + 1, IF k = Len(leaves) THEN k ELSE k + 1)

RECURSIVE OffsetOfInode(_, _)

OffsetOfInode(t, n) ==
    LET parent == t.inodes[n].parent
    IN  IF n = t.root THEN 0
        ELSE OffsetOfInode(t, parent)
               + LenOffsetOfChild(t, parent, IdxOfChild(t, parent, n))

(* Mutant: only the leaf's siblings are counted.                           *)
OffsetOfLeafInParent(t, leaf) ==
    IF t.cursor.leaf = leaf THEN t.cursor.offset
    ELSE LenOffsetOfChild(t, Parent(t, leaf), IdxOfLeafInParent(t, leaf))

(* Read from the cursor, if it is at the leaf.                             *)
OffsetOfLeaf(t, leaf) ==
    IF t.cursor.leaf = leaf THEN t.cursor.offset
    ELSE OffsetOfInode(t, Parent(t, leaf))
           + LenOffsetOfChild(t, Parent(t, leaf), IdxOfLeafInParent(t, leaf))

(* The first child that reaches an offset.                                 *)
ChildAtOffset(t, n, offset) ==
    CHOOSE k \in DOMAIN t.inodes[n].children :
        /\ LenOffsetOfChild(t, n, k) + ChildLen(t, n, k) >= offset
        /\ \A j \in 1 .. k - 1 :
               LenOffsetOfChild(t, n, j) + ChildLen(t, n, j) < offset

(* The first child that goes beyond an offset.                             *)
ChildBeyondOffset(t, n, offset) ==
    CHOOSE k \in DOMAIN t.inodes[n].children :
        /\ LenOffsetOfChild(t, n, k) + ChildLen(t, n, k) > offset
        /\ \A j \in 1 .. k - 1 :
               LenOffsetOfChild(t, n, j) + ChildLen(t, n, j) <= offset

RECURSIVE DescendToOffset(_, _, _, _)

(* The leaf at an offset below node n, which starts at n_offset: the leaf, *)
(* its own offset and its position among its siblings.                     *)
DescendToOffset(t, n, n_offset, offset) ==
    LET k == ChildAtOffset(t, n, offset - n_offset)
        k_offset == n_offset + LenOffsetOfChild(t, n, k)
        child == t.inodes[n].children[k]
    IN  IF t.inodes[n].has_leaves THEN Cursor(child, k_offset, k)
        ELSE DescendToOffset(t, child, k_offset, offset)

(* Whether an offset falls in the cursor's leaf, its start excluded.       *)
IsAtCursor(t, offset) ==
    /\ t.cursor # NoCursor
    /\ t.cursor.offset < offset
    /\ offset <= t.cursor.offset + VisibleLen(Leaf(t, t.cursor.leaf))

LeafAtOffset(t, offset) ==
    IF IsAtCursor(t, offset) THEN t.cursor
    ELSE DescendToOffset(t, t.root, 0, offset)

(* A leaf with its offset and its position, from the cursor if it is there. *)
Located(t, leaf) ==
    IF t.cursor.leaf = leaf THEN t.cursor
    ELSE Cursor(leaf, OffsetOfLeaf(t, leaf), IdxOfLeafInParent(t, leaf))

------------------------------------------------------------------------------
(* Changing lengths and adding nodes.                                      *)

RECURSIVE Patch(_, _, _, _)

(* An inner node and all above it have grown by len - old_len.             *)
Patch(t, n, old_len, len) ==
    IF n = Dangling THEN t
    ELSE Patch([t EXCEPT !.inodes[n].len = (@ + len) - old_len],
               t.inodes[n].parent, old_len, len)

SetLeaf(t, leaf, run) == [t EXCEPT !.lnodes[leaf].value = run]

(* Only the parent's length is kept in step.                               *)
WithLeafMutHandleParent(t, leaf, run) ==
    [SetLeaf(t, leaf, run) EXCEPT !.inodes[Parent(t, leaf)].len =
        (@ + VisibleLen(run)) - VisibleLen(Leaf(t, leaf))]

(* The lengths up to the root are kept in step, the cursor is not.         *)
WithLeafMut(t, leaf, run) ==
    Patch(SetLeaf(t, leaf, run), Parent(t, leaf),
          VisibleLen(Leaf(t, leaf)), VisibleLen(run))

PushLeaf(t, run, parent) ==
    [t EXCEPT !.lnodes = Append(@, [value |-> run, parent |-> parent])]

LastLnode(t) == Len(t.lnodes)
LastInode(t) == Len(t.inodes)

(* The children of a new inner node learn their parent.                    *)
PushInode(t, inode, parent) ==
    LET n == LastInode(t) + 1
        Adopt(u, c) == IF inode.has_leaves
                       THEN [u EXCEPT !.lnodes[c].parent = n]
                       ELSE [u EXCEPT !.inodes[c].parent = n]
    IN  [FoldLeft(Adopt, t, inode.children) EXCEPT
           !.inodes = Append(@, [inode EXCEPT !.parent = parent])]

(* A child is added to an inner node with room for it.                     *)
InsertChild(inode, k, node, len) ==
    [inode EXCEPT !.children = InsertAt(@, k, node), !.len = @ + len]

(* An inner node keeps its first children; the rest become another node.   *)
Kept(t, n, keep) ==
    [t EXCEPT !.inodes[n].children = SubSeq(@, 1, keep),
              !.inodes[n].len = LenOffsetOfChild(t, n, keep + 1)]

Rest(t, n, keep) ==
    LET inode == t.inodes[n]
    IN  [inode EXCEPT
           !.children = SubSeq(@, keep + 1, Len(@)),
           !.len = @ - LenOffsetOfChild(t, n, keep + 1)]

WithSplit(t, split) == [tree |-> t, split |-> split]

(* Mutant: a full inner node is always split one child late.               *)
InsertInInodeSplittingLate(t, n, k, node, len) ==
    LET num == NumChildren(t, n)
        right == num - MinChildren + 1
    IN  IF num < MaxChildren
        THEN WithSplit([t EXCEPT !.inodes[n] = InsertChild(@, k, node, len)],
                       <<>>)
        ELSE IF k <= right
        THEN WithSplit([Kept(t, n, right) EXCEPT
                          !.inodes[n] = InsertChild(@, k, node, len)],
                       <<Rest(t, n, right)>>)
        ELSE WithSplit(Kept(t, n, right),
                       <<InsertChild(Rest(t, n, right), k - right, node, len)>>)

(* A child becomes the k-th of an inner node, which splits if it is full.  *)
InsertInInode(t, n, k, node, len) ==
    LET inode == t.inodes[n]
        num == Len(inode.children)
        left == num - MinChildren
        right == left + 1
    IN  IF num < MaxChildren
        THEN WithSplit([t EXCEPT !.inodes[n] = InsertChild(@, k, node, len)],
                       <<>>)
        ELSE IF k - 1 <= MinChildren
        THEN WithSplit([Kept(t, n, left) EXCEPT
                          !.inodes[n] = InsertChild(@, k, node, len)],
                       <<Rest(t, n, left)>>)
        ELSE WithSplit(Kept(t, n, right),
                       <<InsertChild(Rest(t, n, right), k - right, node, len)>>)

(* Two children are inserted before the children at positions k1 <= k2.    *)
(* All callers pass the positions in this order.                           *)
InsertTwoInInode(t, n, k1, node1, len1, k2, node2, len2) ==
    LET num == NumChildren(t, n)
        left == num - MinChildren
        after_second == num - (k2 - 1)
        InsertTwo(inode, by) ==
            InsertChild(InsertChild(inode, k1 - by, node1, len1),
                        k2 - by + 1, node2, len2)
    IN  IF MaxChildren - num >= 2
        THEN WithSplit([t EXCEPT !.inodes[n] = InsertTwo(@, 0)], <<>>)
        ELSE IF after_second > MinChildren - 1
        THEN WithSplit([Kept(t, n, left) EXCEPT !.inodes[n] = InsertTwo(@, 0)],
                       <<Rest(t, n, left)>>)
        ELSE IF after_second < MinChildren - 1 /\ k1 - 1 >= left + 2
        THEN WithSplit(Kept(t, n, left + 2),
                       <<InsertTwo(Rest(t, n, left + 2), left + 2)>>)
        ELSE WithSplit([Kept(t, n, left + 1) EXCEPT
                          !.inodes[n] = InsertChild(@, k1, node1, len1)],
                       <<InsertChild(Rest(t, n, left + 1), k2 - (left + 1),
                                     node2, len2)>>)

RootHasSplit(t, split) ==
    LET pushed == PushInode(t, split, Dangling)
        root == [len |-> TreeLen(t) + split.len, parent |-> Dangling,
                 children |-> <<t.root, LastInode(pushed)>>,
                 has_leaves |-> FALSE]
    IN  [PushInode(pushed, root, Dangling) EXCEPT !.root = LastInode(pushed) + 1]

RECURSIVE Bubble(_, _, _, _, _)

(* What split off an inner node is put after it into its parent, and so on *)
(* up the tree.  Above the last split, only lengths change, by leaf_diff.  *)
(* Lengths are compared as pairs: the old one and the new one.             *)
Bubble(t, n, split, diff, leaf_diff) ==
    LET parent == t.inodes[n].parent
        pushed == PushInode(t, Head(split), parent)
        patched == [pushed EXCEPT !.inodes[parent].len =
                      (@ + diff.new) - diff.old]
        inserted == InsertInInode(patched, parent, IdxOfChild(t, parent, n) + 1,
                                  LastInode(pushed), Head(split).len)
    IN  IF parent = Dangling
        THEN IF split = <<>> THEN t ELSE RootHasSplit(t, Head(split))
        ELSE IF split = <<>>
        THEN Patch(t, parent, leaf_diff.old, leaf_diff.new)
        ELSE Bubble(inserted.tree, parent, inserted.split,
                    [old |-> t.inodes[parent].len,
                     new |-> inserted.tree.inodes[parent].len], leaf_diff)

(* The end of an insertion of leaves into an inner node.                   *)
BubbleAfter(t, n, inserted, len) ==
    Bubble(inserted.tree, n, inserted.split,
           [old |-> t.inodes[n].len, new |-> inserted.tree.inodes[n].len],
           [old |-> 0, new |-> len])

(* A leaf becomes the k-th child of another leaf's parent.                 *)
InsertLeafAt(t, leaf, k, run) ==
    LET n == Parent(t, leaf)
        pushed == PushLeaf(t, run, n)
    IN  BubbleAfter(t, n,
                    InsertInInode(pushed, n, k, LastLnode(pushed),
                                  VisibleLen(run)),
                    VisibleLen(run))

InsertTwoLeavesAt(t, leaf, k, runs) ==
    LET n == Parent(t, leaf)
        pushed == PushLeaf(PushLeaf(t, runs[1], n), runs[2], n)
        last == LastLnode(pushed)
    IN  BubbleAfter(t, n,
                    InsertTwoInInode(pushed, n, k, last - 1, VisibleLen(runs[1]),
                                     k, last, VisibleLen(runs[2])),
                    VisibleLen(runs[1]) + VisibleLen(runs[2]))

(* At most two leaves are inserted after a leaf.                           *)
InsertLeavesAfter(t, leaf, k, runs) ==
    CASE Len(runs) = 0 -> t
      [] Len(runs) = 1 -> InsertLeafAt(t, leaf, k + 1, runs[1])
      [] Len(runs) = 2 -> InsertTwoLeavesAt(t, leaf, k + 1, runs)

(* The leaves pushed between two versions of a tree.                       *)
PushedLeaves(t, u) ==
    [k \in 1 .. LastLnode(u) - LastLnode(t) |-> LastLnode(t) + k]

(* Mutant: the cursor's position is not corrected after a split.           *)
ChildIdxWithoutUpdate(t, n, k) == k

(* The position of a child that was the k-th before its parent n may have  *)
(* split.                                                                  *)
UpdatedChildIdx(t, n, k) ==
    IF k <= NumChildren(t, n) THEN k ELSE k - NumChildren(t, n)

SetCursor(t, leaf, offset, k) == [t EXCEPT !.cursor = Cursor(leaf, offset, k)]

RemoveCursor(t) == [t EXCEPT !.cursor = NoCursor]

------------------------------------------------------------------------------
(* Insertion.                                                              *)

(* The first leaf of the document is inserted.                             *)
Prepend(t, run) ==
    SetCursor(InsertLeafAt(t, FirstLeaf(t), 1, run), LastLnode(t) + 1, 0, 1)

(* The cursor after a leaf was edited at an offset.  If new leaves were    *)
(* inserted after it, the cursor is put at the first of them.              *)
CursorAfterInsert(t, u, n, at) ==
    IF LastLnode(u) = LastLnode(t)
    THEN Cursor(at.leaf, at.offset, UpdatedChildIdx(u, n, at.child))
    ELSE Cursor(LastLnode(t) + 1, at.offset + VisibleLen(Leaf(u, at.leaf)),
                UpdatedChildIdx(u, n, at.child + 1))

(* A leaf found by the cursor is replaced by pieces.                       *)
InsertAtLeaf(t, at, pieces) ==
    LET u == InsertLeavesAfter(WithLeafMut(t, at.leaf, Head(pieces)),
                               at.leaf, at.child, Tail(pieces))
    IN  [u EXCEPT !.cursor = CursorAfterInsert(t, u, Parent(t, at.leaf), at)]

(* A leaf found on the way down is replaced by pieces; its parent may      *)
(* split.                                                                  *)
WithLeafMutHandleSplit(t, leaf, k, pieces) ==
    LET n == Parent(t, leaf)
        changed == WithLeafMutHandleParent(t, leaf, Head(pieces))
        new == Tail(pieces)
        one == PushLeaf(changed, new[1], n)
        two == PushLeaf(one, new[2], n)
    IN  CASE Len(new) = 0 -> WithSplit(changed, <<>>)
          [] Len(new) = 1 -> InsertInInode(one, n, k + 1, LastLnode(one),
                                           VisibleLen(new[1]))
          [] Len(new) = 2 -> InsertTwoInInode(two, n,
                               k + 1, LastLnode(one), VisibleLen(new[1]),
                               k + 1, LastLnode(two), VisibleLen(new[2]))

(* Something happened below inner node n, from tree t to below.tree: its   *)
(* parent's length is kept in step.                                        *)
WithInternalMutHandleParent(t, n, below) ==
    [below.tree EXCEPT !.inodes[t.inodes[n].parent].len =
        (@ + below.tree.inodes[n].len) - t.inodes[n].len]

(* Mutant: what split off n is inserted before it.                         *)
WithInternalMutSplitBefore(t, n, k, below) ==
    LET parent == t.inodes[n].parent
        changed == WithInternalMutHandleParent(t, n, below)
        pushed == PushInode(changed, Head(below.split), parent)
    IN  IF below.split = <<>> THEN WithSplit(changed, <<>>)
        ELSE InsertInInode(pushed, parent, k, LastInode(pushed),
                           Head(below.split).len)

(* What split off n is inserted after it.                                  *)
WithInternalMutHandleSplit(t, n, k, below) ==
    LET parent == t.inodes[n].parent
        changed == WithInternalMutHandleParent(t, n, below)
        pushed == PushInode(changed, Head(below.split), parent)
    IN  IF below.split = <<>> THEN WithSplit(changed, <<>>)
        ELSE InsertInInode(pushed, parent, k + 1, LastInode(pushed),
                           Head(below.split).len)

RECURSIVE HandleSplitsAbove(_, _, _)

(* The way back up to the root.                                            *)
HandleSplitsAbove(t, n, below) ==
    LET parent == t.inodes[n].parent
    IN  IF n = t.root
        THEN IF below.split = <<>> THEN below.tree
             ELSE RootHasSplit(below.tree, Head(below.split))
        ELSE HandleSplitsAbove(t, parent,
               WithInternalMutHandleSplit(t, n, IdxOfChild(t, parent, n), below))

InsertAtOffset(t, at, pieces) ==
    LET n == Parent(t, at.leaf)
        below == WithLeafMutHandleSplit(t, at.leaf, at.child, pieces)
        cursor == CursorAfterInsert(t, below.tree, n, at)
    IN  HandleSplitsAbove(t, n, [below EXCEPT !.tree.cursor = cursor])

(* The leaf at a non-zero offset becomes pieces.                           *)
Insert(t, offset, pieces) ==
    IF IsAtCursor(t, offset) THEN InsertAtLeaf(t, t.cursor, pieces)
    ELSE InsertAtOffset(t, DescendToOffset(t, t.root, 0, offset), pieces)

(* The cursor is put at the first leaf that was pushed.                    *)
WithCursorAtPushed(t, u, offset) ==
    SetCursor(u, LastLnode(t) + 1, offset, IdxOfLeafInParent(u, LastLnode(t) + 1))

InsertLeafAfterAnother(t, run, leaf) ==
    LET at == Located(t, leaf)
    IN  WithCursorAtPushed(t, InsertLeafAt(t, leaf, at.child + 1, run),
                           at.offset + VisibleLen(Leaf(t, leaf)))

(* The leaf becomes the first of three pieces.                             *)
SplitLeafWithAnother(t, leaf, pieces) ==
    LET at == Located(t, leaf)
        u == InsertTwoLeavesAt(WithLeafMut(t, leaf, Head(pieces)), leaf,
                               at.child + 1, Tail(pieces))
    IN  WithCursorAtPushed(t, u, at.offset + VisibleLen(Head(pieces)))

AppendLeafToAnother(t, leaf, run) ==
    LET at == Located(t, leaf)
        appended == [Leaf(t, leaf) EXCEPT !.end = run.end]
    IN  [WithLeafMut(t, leaf, appended) EXCEPT !.cursor = at]

------------------------------------------------------------------------------
(* Deletion.                                                               *)

DeleteLeaf(t, leaf) == [t EXCEPT !.lnodes[leaf].value.del = TRUE]

RECURSIVE DeleteInode(_, _)

(* Mutant: the cached length of the deleted node itself stays.             *)
DeleteInodeKeepingLen(t, n) ==
    LET Del(u, c) == IF t.inodes[n].has_leaves THEN DeleteLeaf(u, c)
                     ELSE DeleteInode(u, c)
    IN  FoldLeft(Del, t, t.inodes[n].children)

DeleteInode(t, n) ==
    LET Del(u, c) == IF t.inodes[n].has_leaves THEN DeleteLeaf(u, c)
                     ELSE DeleteInode(u, c)
    IN  FoldLeft(Del, [t EXCEPT !.inodes[n].len = 0], t.inodes[n].children)

(* A child of an inner node is deleted with all that is below it.          *)
DeleteChild(t, n, k) ==
    LET child == t.inodes[n].children[k]
        deleted == IF t.inodes[n].has_leaves THEN DeleteLeaf(t, child)
                   ELSE DeleteInode(t, child)
    IN  [deleted EXCEPT !.inodes[n].len = @ - ChildLen(t, n, k)]

DeleteChildren(t, n, from, to) ==
    FoldLeft(LAMBDA u, k : DeleteChild(u, n, k), t,
             [j \in 1 .. to + 1 - from |-> from + j - 1])

(* The nearest sibling before a leaf that has visible text becomes the     *)
(* cursor.                                                                 *)
CursorBefore(t, leaf, offset, k) ==
    LET children == t.inodes[Parent(t, leaf)].children
        visible == {j \in 1 .. k - 1 : VisibleLen(Leaf(t, children[j])) > 0}
        j == CHOOSE j \in visible : \A i \in visible : i <= j
    IN  IF visible = {} THEN NoCursor
        ELSE Cursor(children[j], offset - VisibleLen(Leaf(t, children[j])), j)

(* The tree after a leaf became pieces.  A tombstone at its end or its     *)
(* start is joined with the sibling it continues.                          *)
WithDeletedLeaf(t, leaf, k, pieces) ==
    LET siblings == t.inodes[Parent(t, leaf)].children
        deleted == WithLeafMut(t, leaf, Head(pieces))
        joins_next ==
            /\ Len(pieces) = 2 /\ pieces[2].del
            /\ k < Len(siblings) /\ CanPrepend(Leaf(t, siblings[k + 1]), pieces[2])
        joins_prev ==
            /\ Len(pieces) = 2 /\ ~pieces[2].del
            /\ k > 1 /\ CanAppend(Leaf(t, siblings[k - 1]), pieces[1])
    IN  IF joins_next
        THEN [deleted EXCEPT
                !.lnodes[siblings[k + 1]].value.start = pieces[2].start]
        ELSE IF joins_prev
        THEN [WithLeafMut(deleted, leaf, pieces[2]) EXCEPT
                !.lnodes[siblings[k - 1]].value.end = pieces[1].end]
        ELSE InsertLeavesAfter(deleted, leaf, k, Tail(pieces))

(* Tree u is tree t after a leaf became pieces.                            *)
WithCursorAfterDelete(t, u, at, pieces) ==
    LET k == UpdatedChildIdx(u, Parent(t, at.leaf), at.child)
    IN  [u EXCEPT !.cursor =
           IF pieces[1].del THEN CursorBefore(u, at.leaf, at.offset, k)
           ELSE Cursor(at.leaf, at.offset, k)]

(* A range of one leaf is deleted.                                         *)
DeleteRangeInLeaf(t, at, from, to) ==
    LET After(pieces) ==
          WithCursorAfterDelete(t, WithDeletedLeaf(t, at.leaf, at.child, pieces),
                                at, pieces)
    IN  After(DeleteRange(Leaf(t, at.leaf), from, to))

DeleteLeafRange(t, leaf, offset, from, to) ==
    DeleteRangeInLeaf(t, Cursor(leaf, offset, IdxOfLeafInParent(t, leaf)),
                      from, to)

RECURSIVE DeleteFromInode(_, _, _), DeleteUpToInode(_, _, _)

(* All below an inner node is deleted from an offset on.                   *)
DeleteFromInode(t, n, from) ==
    LET k == ChildBeyondOffset(t, n, from)
        child == t.inodes[n].children[k]
        at == from - LenOffsetOfChild(t, n, k)
        deleted == DeleteChildren(t, n, k + 1, NumChildren(t, n))
    IN  IF t.inodes[n].has_leaves
        THEN WithLeafMutHandleSplit(deleted, child, k,
                                    DeleteFrom(Leaf(t, child), at))
        ELSE WithInternalMutHandleSplit(deleted, child, k,
                                        DeleteFromInode(deleted, child, at))

(* All below an inner node is deleted up to an offset.                     *)
DeleteUpToInode(t, n, up_to) ==
    LET k == ChildAtOffset(t, n, up_to)
        child == t.inodes[n].children[k]
        at == up_to - LenOffsetOfChild(t, n, k)
        deleted == DeleteChildren(t, n, 1, k - 1)
    IN  IF t.inodes[n].has_leaves
        THEN WithLeafMutHandleSplit(deleted, child, k,
                                    DeleteUpTo(Leaf(t, child), at))
        ELSE WithInternalMutHandleSplit(deleted, child, k,
                                        DeleteUpToInode(deleted, child, at))

(* A leaf at the edge of the range becomes pieces; the new one is pushed,  *)
(* to be inserted into inner node n later.                                 *)
EdgeLeaf(t, n, leaf, pieces) ==
    LET changed == WithLeafMutHandleParent(t, leaf, Head(pieces))
        pushed == PushLeaf(changed, pieces[2], n)
    IN  IF Len(pieces) = 1 THEN [tree |-> changed, extra |-> <<>>]
        ELSE [tree |-> pushed,
              extra |-> <<[node |-> LastLnode(pushed),
                           len |-> VisibleLen(pieces[2])]>>]

(* The same for an inner node at the edge, below which something was       *)
(* deleted.                                                                *)
EdgeInode(t, n, child, below) ==
    LET changed == WithInternalMutHandleParent(t, child, below)
        pushed == PushInode(changed, Head(below.split), n)
    IN  IF below.split = <<>> THEN [tree |-> changed, extra |-> <<>>]
        ELSE [tree |-> pushed,
              extra |-> <<[node |-> LastInode(pushed),
                           len |-> Head(below.split).len]>>]

(* Mutant: the end's is forgotten if the start has pushed something.       *)
InsertExtrasWithoutEnd(t, n, p, start, q, end) ==
    IF start # <<>>
    THEN InsertInInode(t, n, p + 1, start[1].node, start[1].len)
    ELSE IF end # <<>>
    THEN InsertInInode(t, n, q + 1, end[1].node, end[1].len)
    ELSE WithSplit(t, <<>>)

(* What the two edges pushed is inserted after them.                       *)
InsertExtras(t, n, p, start, q, end) ==
    IF start # <<>> /\ end # <<>>
    THEN InsertTwoInInode(t, n, p + 1, start[1].node, start[1].len,
                          q + 1, end[1].node, end[1].len)
    ELSE IF start # <<>>
    THEN InsertInInode(t, n, p + 1, start[1].node, start[1].len)
    ELSE IF end # <<>>
    THEN InsertInInode(t, n, q + 1, end[1].node, end[1].len)
    ELSE WithSplit(t, <<>>)

(* A child of an inner node is deleted from an offset on.                  *)
DeleteStart(t, n, k, from) ==
    LET child == t.inodes[n].children[k]
    IN  IF t.inodes[n].has_leaves
        THEN EdgeLeaf(t, n, child, DeleteFrom(Leaf(t, child), from))
        ELSE EdgeInode(t, n, child, DeleteFromInode(t, child, from))

(* A child of an inner node is deleted up to an offset.                    *)
DeleteEnd(t, n, k, up_to) ==
    LET child == t.inodes[n].children[k]
    IN  IF t.inodes[n].has_leaves
        THEN EdgeLeaf(t, n, child, DeleteUpTo(Leaf(t, child), up_to))
        ELSE EdgeInode(t, n, child, DeleteUpToInode(t, child, up_to))

(* The end of a deletion below inner node n of tree t.                     *)
BubbleAfterDelete(t, n, deleted) ==
    LET old_len == t.inodes[n].len
        len == deleted.tree.inodes[n].len
        split_len == FoldLeft(LAMBDA sum, split : sum + split.len, 0,
                              deleted.split)
    IN  Bubble(RemoveCursor(deleted.tree), n, deleted.split,
               [old |-> old_len, new |-> len],
               [old |-> old_len, new |-> len + split_len])

(* A range that spans several children of an inner node is deleted.        *)
DeleteRangeInInode(t, n, from, to) ==
    LET p == ChildBeyondOffset(t, n, from)
        q == ChildAtOffset(t, n, to)
        from_p == from - LenOffsetOfChild(t, n, p)
        to_q == to - LenOffsetOfChild(t, n, q)
        AfterEnd(start, end) ==
          BubbleAfterDelete(t, n,
            InsertExtras(end.tree, n, p, start.extra, q, end.extra))
        AfterStart(start) ==
          AfterEnd(start,
            DeleteEnd(DeleteChildren(start.tree, n, p + 1, q - 1), n, q, to_q))
    IN  AfterStart(DeleteStart(t, n, p, from_p))

RECURSIVE DeleteRangeBelow(_, _, _, _, _)

(* Down to the deepest node that contains the whole range.                 *)
DeleteRangeBelow(t, n, n_offset, from, to) ==
    LET k == ChildBeyondOffset(t, n, from)
        offset == LenOffsetOfChild(t, n, k)
        child == t.inodes[n].children[k]
    IN  IF offset + ChildLen(t, n, k) < to
        THEN DeleteRangeInInode(t, n, from, to)
        ELSE IF t.inodes[n].has_leaves
        THEN DeleteRangeInLeaf(t, Cursor(child, n_offset + offset, k),
                               from - offset, to - offset)
        ELSE DeleteRangeBelow(t, child, n_offset + offset,
                              from - offset, to - offset)

(* The next sibling of the cursor's leaf that has visible text.            *)
SiblingsAfterCursor(t) ==
    LET children == t.inodes[Parent(t, t.cursor.leaf)].children
        visible == {j \in t.cursor.child + 1 .. Len(children) :
                       VisibleLen(Leaf(t, children[j])) > 0}
        end == t.cursor.offset + VisibleLen(Leaf(t, t.cursor.leaf))
    IN  {Cursor(children[j], end, j) :
           j \in {j \in visible : \A i \in visible : j <= i}}

(* The places the cursor knows that contain the whole range.               *)
NearCursor(t, from, to) ==
    IF t.cursor = NoCursor THEN {}
    ELSE {at \in {t.cursor} \cup SiblingsAfterCursor(t) :
            /\ at.offset <= from
            /\ to <= at.offset + VisibleLen(Leaf(t, at.leaf))}

(* A non-empty range of visible text is deleted.                           *)
Delete(t, from, to) ==
    IF NearCursor(t, from, to) = {}
    THEN DeleteRangeBelow(t, t.root, 0, from, to)
    ELSE LET at == CHOOSE at \in NearCursor(t, from, to) : TRUE
         IN  DeleteRangeInLeaf(t, at, from - at.offset, to - at.offset)

------------------------------------------------------------------------------
(* Trees of other leaves.  The fragments of a run are kept in one too; it  *)
(* is never deleted from and has no cursor.                                *)

(* At most as many leaves as an inner node holds, and their length.        *)
FromLeaves(runs, len) ==
    [inodes |-> <<[len |-> len, parent |-> Dangling,
                   children |-> [k \in DOMAIN runs |-> k], has_leaves |-> TRUE]>>,
     lnodes |-> [k \in DOMAIN runs |-> [value |-> runs[k], parent |-> 1]],
     root |-> 1,
     cursor |-> NoCursor]

LastLeaf(t) == Last(LeavesFromFirst(t))

AppendLeaf(t, run) ==
    InsertLeafAt(t, LastLeaf(t), IdxOfLeafInParent(t, LastLeaf(t)) + 1, run)

(* The leaf before a leaf that is not the first.                           *)
PrevLeaf(t, leaf) ==
    LET leaves == LeavesFromFirst(t)
    IN  leaves[(CHOOSE k \in DOMAIN leaves : leaves[k] = leaf) - 1]

(* A leaf becomes two.                                                     *)
SplitLeaf(t, leaf, left, right) ==
    InsertLeafAt(WithLeafMut(t, leaf, left), leaf,
                 IdxOfLeafInParent(t, leaf) + 1, right)

(* Mutant: only the first leaf's parents are told of its new length.       *)
WithTwoMutPatchingOnce(t, first, first_run, second, second_run) ==
    SetLeaf(WithLeafMut(t, first, first_run), second, second_run)

(* Two leaves are changed at once.                                         *)
WithTwoMut(t, first, first_run, second, second_run) ==
    WithLeafMut(WithLeafMut(t, first, first_run), second, second_run)

------------------------------------------------------------------------------
(* What assert_invariants says of a tree, and more.                        *)

RECURSIVE Height(_, _)

Height(t, n) ==
    IF t.inodes[n].has_leaves THEN 1 ELSE 1 + Height(t, t.inodes[n].children[1])

(* Every node knows its parent, all leaves are equally deep, and no cached *)
(* length is stale.                                                        *)
ConsistentNodes(t) ==
    /\ t.inodes[t.root].parent = Dangling
    /\ \A n \in InodesUnder(t, t.root) :
         LET inode == t.inodes[n]
         IN  /\ inode.len = SumOfLens(t, inode.has_leaves, inode.children)
             /\ \A c \in ToSet(inode.children) :
                  IF inode.has_leaves THEN Parent(t, c) = n
                  ELSE t.inodes[c].parent = n /\ Height(t, c) + 1 = Height(t, n)

(* All nodes ever pushed are below the root, the leaves once each.         *)
ReachableNodes(t) ==
    /\ IsInjective(LeavesFromFirst(t))
    /\ ToSet(LeavesFromFirst(t)) = DOMAIN t.lnodes
    /\ InodesUnder(t, t.root) = DOMAIN t.inodes

HalfFullNodes(t) ==
    \A n \in DOMAIN t.inodes :
        /\ NumChildren(t, n) <= MaxChildren
        /\ NumChildren(t, n) >= IF n # t.root THEN MinChildren
                                ELSE IF t.inodes[n].has_leaves THEN 1 ELSE 2
==============================================================================
