------------------------------- MODULE Fragments -------------------------------
(***************************************************************************)
(* How the fragments of one run are kept (src/src/run_indices.rs, module   *)
(* fragments): in an array, and in a tree of the same kind as the tree of  *)
(* the document from the moment the array is full.                         *)
(*                                                                         *)
(* A fragment in the tree is a leaf whose visible length is the            *)
(* fragment's.  The array is as long as an inner node of the tree is wide. *)
(***************************************************************************)
EXTENDS Gtree, RunIndices

CONSTANTS
    Histories,    \* lengths of the first text, where it was split, and how
                  \* many operations are to follow
    MaxLen        \* the longest piece of text appended at once

ASSUME FragmentsAssumption ==
    /\ MaxLen \in Nat \ {0}
    /\ \A h \in Histories : h.len \in Nat /\ h.splits \in Seq(Nat)
                              /\ h.operations \in Nat

VARIABLES
    fragments,     \* the fragments of a run
    operations     \* how many operations are to follow

vars == <<fragments, operations>>

------------------------------------------------------------------------------

AsLeaf(fragment) ==
    [start |-> 0, end |-> fragment.len, del |-> FALSE, leaf |-> fragment.leaf]

AsFragment(leaf) == Fragment(VisibleLen(leaf), leaf.leaf)

Array(array, total_len) ==
    [kind |-> "array", fragments |-> array, total_len |-> total_len]

Tree(gtree) == [kind |-> "gtree", gtree |-> gtree]

FromFirstFragment(fragment) == Array(<<fragment>>, fragment.len)

IsFullArray(fs) == fs.kind = "array" /\ Len(fs.fragments) = MaxChildren

(* A full array turns into a tree.                                         *)
WithRoom(fs) ==
    IF IsFullArray(fs)
    THEN Tree(FromLeaves([k \in DOMAIN fs.fragments |-> AsLeaf(fs.fragments[k])],
                         fs.total_len))
    ELSE fs

TotalLen(fs) == IF fs.kind = "array" THEN fs.total_len ELSE TreeLen(fs.gtree)

(* The fragments in order.                                                 *)
Iter(fs) ==
    LET leaves == LeavesFromFirst(fs.gtree)
    IN  IF fs.kind = "array" THEN fs.fragments
        ELSE FoldLeft(LAMBDA list, l : Append(list, AsFragment(Leaf(fs.gtree, l))),
                      <<>>, leaves)

(* Where the fragment that reaches an offset starts, in the array.         *)
StartInArray(array, offset) ==
    FragmentsLen(SubSeq(array, 1, IdxAtOffset(array, offset) - 1))

(* Mutant: in the tree, the fragment before a boundary whatever the bias.  *)
FragmentAtOffsetOnTheLeft(fs, offset, bias) ==
    IF fs.kind = "array"
    THEN fs.fragments[IdxAtOffset(fs.fragments, offset)
           + IF FragmentsLen(SubSeq(fs.fragments, 1,
                                    IdxAtOffset(fs.fragments, offset))) = offset
                /\ bias = "right" THEN 1 ELSE 0]
    ELSE AsFragment(Leaf(fs.gtree, LeafAtOffset(fs.gtree, offset).leaf))

(* The fragment of the character before or after an offset.                *)
FragmentAtOffset(fs, offset, bias) ==
    LET k == IdxAtOffset(fs.fragments, offset)
        start == StartInArray(fs.fragments, offset)
        at == LeafAtOffset(fs.gtree, offset)
        leaf == Leaf(fs.gtree, at.leaf)
        next == Leaf(fs.gtree, NextLeaf(fs.gtree, at.leaf)[1])
    IN  IF fs.kind = "array"
        THEN IF start + fs.fragments[k].len = offset /\ bias = "right"
             THEN fs.fragments[k + 1] ELSE fs.fragments[k]
        ELSE IF at.offset + VisibleLen(leaf) = offset /\ bias = "right"
        THEN AsFragment(next) ELSE AsFragment(leaf)

(* Mutant: a fragment that finds the array full is lost.                   *)
AppendFragmentUnlessFull(fs, fragment) ==
    LET room == WithRoom(fs)
    IN  IF IsFullArray(fs) THEN room
        ELSE IF room.kind = "gtree"
        THEN Tree(AppendLeaf(room.gtree, AsLeaf(fragment)))
        ELSE Array(Append(fs.fragments, fragment), fs.total_len + fragment.len)

AppendFragment(fs, fragment) ==
    LET room == WithRoom(fs)
    IN  IF room.kind = "gtree"
        THEN Tree(AppendLeaf(room.gtree, AsLeaf(fragment)))
        ELSE Array(Append(fs.fragments, fragment), fs.total_len + fragment.len)

Extend(fs, len) ==
    LET last == LastLeaf(fs.gtree)
    IN  IF fs.kind = "array"
        THEN Array([fs.fragments EXCEPT ![Len(fs.fragments)].len = @ + len],
                   fs.total_len + len)
        ELSE Tree(WithLeafMut(fs.gtree, last,
                              [Leaf(fs.gtree, last) EXCEPT !.end = @ + len]))

(* A fragment up to an offset; and the rest of it, which has a new leaf.   *)
FragmentUpTo(fragment, at) == Fragment(at, fragment.leaf)

FragmentFrom(fragment, at, leaf) == Fragment(fragment.len - at, leaf)

SplitInArray(fs, offset, leaf) ==
    LET k == IdxAtOffset(fs.fragments, offset)
        at == offset - StartInArray(fs.fragments, offset)
        left == FragmentUpTo(fs.fragments[k], at)
        right == FragmentFrom(fs.fragments[k], at, leaf)
    IN  Array(InsertAt([fs.fragments EXCEPT ![k] = left], k + 1, right),
              fs.total_len)

SplitInTree(gtree, offset, leaf) ==
    LET at == LeafAtOffset(gtree, offset)
        fragment == AsFragment(Leaf(gtree, at.leaf))
    IN  Tree(SplitLeaf(gtree, at.leaf,
                       AsLeaf(FragmentUpTo(fragment, offset - at.offset)),
                       AsLeaf(FragmentFrom(fragment, offset - at.offset, leaf))))

SplitAt(fs, offset, leaf) ==
    LET room == WithRoom(fs)
    IN  IF room.kind = "gtree" THEN SplitInTree(room.gtree, offset, leaf)
        ELSE SplitInArray(fs, offset, leaf)

(* Some length of a leaf of the tree is given to another one.              *)
MoveLenInTree(gtree, first, first_len, second, second_len) ==
    Tree(WithTwoMut(gtree, first, [Leaf(gtree, first) EXCEPT !.end = first_len],
                    second, [Leaf(gtree, second) EXCEPT !.end = second_len]))

MoveLenToNextFragment(fs, offset, len) ==
    LET k == IdxAtOffset(fs.fragments, offset)
        this == LeafAtOffset(fs.gtree, offset).leaf
        next == NextLeaf(fs.gtree, this)[1]
    IN  IF fs.kind = "array"
        THEN Array([fs.fragments EXCEPT ![k].len = @ - len, ![k + 1].len = @ + len],
                   fs.total_len)
        ELSE MoveLenInTree(fs.gtree, this, Leaf(fs.gtree, this).end - len,
                           next, Leaf(fs.gtree, next).end + len)

MoveLenToPrevFragment(fs, offset, len) ==
    LET k == IdxAtOffset(fs.fragments, offset)
        this == LeafAtOffset(fs.gtree, offset).leaf
        prev == PrevLeaf(fs.gtree, this)
    IN  IF fs.kind = "array"
        THEN Array([fs.fragments EXCEPT ![k].len = @ - len, ![k - 1].len = @ + len],
                   fs.total_len)
        ELSE MoveLenInTree(fs.gtree, prev, Leaf(fs.gtree, prev).end + len,
                           this, Leaf(fs.gtree, this).end - len)

------------------------------------------------------------------------------
(* A run that is typed on, split and joined.  A fragment is cut only       *)
(* inside, since a leaf of the document is.                                *)

NumFragments == Len(Iter(fragments))

NewLeaf == NumFragments + 1

FragmentStart(k) == FragmentsLen(SubSeq(Iter(fragments), 1, k - 1))

Inside(k) == {FragmentStart(k) + n : n \in 1 .. Iter(fragments)[k].len - 1}

Init ==
    \E h \in Histories :
        LET SplitNext(fs, offset) == SplitAt(fs, offset, Len(Iter(fs)) + 1)
        IN  /\ fragments = FoldLeft(SplitNext,
                                    FromFirstFragment(Fragment(h.len, 1)),
                                    h.splits)
            /\ operations = h.operations

Operation(fs) ==
    /\ operations > 0
    /\ operations' = operations - 1
    /\ fragments' = fs

AppendText ==
    \E len \in 1 .. MaxLen :
        Operation(AppendFragment(fragments, Fragment(len, NewLeaf)))

ExtendText == \E len \in 1 .. MaxLen : Operation(Extend(fragments, len))

Split ==
    \E k \in 1 .. NumFragments : \E offset \in Inside(k) :
        Operation(SplitAt(fragments, offset, NewLeaf))

MoveEnd ==
    \E k \in 1 .. NumFragments - 1 : \E offset \in Inside(k) :
        Operation(MoveLenToNextFragment(fragments, offset,
                                        FragmentStart(k + 1) - offset))

MoveStart ==
    \E k \in 2 .. NumFragments : \E offset \in Inside(k) :
        Operation(MoveLenToPrevFragment(fragments, offset,
                                        offset - FragmentStart(k)))

Next == AppendText \/ ExtendText \/ Split \/ MoveEnd \/ MoveStart

Spec == Init /\ [][Next]_vars

------------------------------------------------------------------------------

(* The array or the tree as the sequence that RunIndices works on.         *)
Table == [id \in {1} |-> <<[fragments |-> Iter(fragments), offset |-> 0]>>]

Sequence == INSTANCE FragmentList WITH indices <- Table

(* Every operation on the array or the tree, the one that turns the array  *)
(* into a tree included (run_indices.rs:282, 446), does to the fragments   *)
(* what the operation of RunIndices does to a sequence: the store that     *)
(* module RunStore checks with sequences is the one with trees.            *)
ImplementsFragmentList == Sequence!Spec

(* fragment_at_offset finds the same leaf as in the sequence for every     *)
(* offset and bias its assertion allows, on both sides of every boundary,  *)
(* wherever the tree has put the fragments (run_indices.rs:317).           *)
SameLeafAtOffset ==
    \A offset \in 0 .. TotalLen(fragments), bias \in {"left", "right"} :
        offset < TotalLen(fragments) \/ bias = "left" =>
            FragmentAtOffset(fragments, offset, bias).leaf
              = LeafAtAnchor(Table, [id |-> 1, offset |-> offset, ts |-> 0], bias)

(* The assertions of Fragments::assert_invariants (run_indices.rs:269),    *)
(* and that no node is lost or overfull: the cached lengths of the array   *)
(* and of the tree's nodes follow every split, move and extension.         *)
FragmentsAreConsistent ==
    IF fragments.kind = "array"
    THEN /\ fragments.total_len = FragmentsLen(fragments.fragments)
         /\ Len(fragments.fragments) <= MaxChildren
    ELSE /\ ConsistentNodes(fragments.gtree)
         /\ ReachableNodes(fragments.gtree)
         /\ HalfFullNodes(fragments.gtree)
===============================================================================
