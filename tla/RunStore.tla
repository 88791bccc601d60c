------------------------------- MODULE RunStore -------------------------------
(***************************************************************************)
(* How a document is stored (src/src/run_tree.rs): the tree of its leaves  *)
(* (Gtree) and the table from anchors to leaves (RunIndices), which        *)
(* mirrors every split and join in the tree.                               *)
(*                                                                         *)
(* The module runs one replica's store through edits of its own and of a   *)
(* peer, and the list of leaves of module RunTree beside it.  The peer was *)
(* forked from the replica some time ago and has received nothing since,   *)
(* so its edits are concurrent to the replica's; a new peer may be forked  *)
(* at any time, which stands for a peer that has received everything.      *)
(***************************************************************************)
EXTENDS Gtree, RunIndices, FiniteSets

CONSTANTS
    InitialLen,   \* the length of the first text
    Peers,        \* the ids of the peers that are forked: 2, 3, ...
    Histories,    \* places of earlier edits, and how many are to follow
    MaxLen        \* the longest insertion

ASSUME StoreAssumption ==
    /\ InitialLen \in Nat \ {0}
    /\ MaxLen \in Nat \ {0}
    /\ Peers = 2 .. Cardinality(Peers) + 1
    /\ \A h \in Histories : h.places \in Seq(Nat) /\ h.edits \in Nat

List == INSTANCE RunTree

Me == 1

VARIABLES
    local,    \* the replica: its store, the list of its leaves, its clocks,
              \* and whether both always gave the same results
    peer,     \* the latest peer, as a list of leaves
    edits     \* how many edits are to follow

vars == <<local, peer, edits>>

------------------------------------------------------------------------------
(* Insertions.                                                             *)

NewStore(run) ==
    [tree |-> FromFirstLeaf(run),
     indices |-> AppendRun([a \in {Me} \cup Peers |-> <<>>], run.id, RunLen(run),
                           1)]

(* The pieces a leaf becomes when the user's text is put into it.          *)
LeafWithText(run, at, text, run_clock, lamport_clock) ==
    IF List!ContinuesRun(run, at, text, lamport_clock)
    THEN <<[run EXCEPT !.end = text.end]>>
    ELSE InsertAt(SplitRun(run, at), 2,
                  EditRunRecord(text.id, text.start, text.end, run_clock,
                                lamport_clock))

(* The table after the tree was edited at an anchor.                       *)
IndicesAfterInsert(s, tree, text, anchor) ==
    LET len == text.end - text.start
        new == PushedLeaves(s.tree, tree)
        appended == AppendRun(s.indices, text.id, len, new[1])
    IN  CASE Len(new) = 0 -> ExtendLast(s.indices, text.id, len)
          [] Len(new) = 1 -> appended
          [] Len(new) = 2 -> SplitFragment(appended, anchor.id, anchor.ts,
                                           anchor.offset, new[2])

WithTree(s, tree, text, anchor) ==
    [store |-> [tree |-> tree,
                indices |-> IndicesAfterInsert(s, tree, text, anchor)],
     result |-> anchor]

StoreInsert(s, offset, text, run_clock, lamport_clock) ==
    LET at == LeafAtOffset(s.tree, offset)
        leaf == Leaf(s.tree, at.leaf)
        pieces == LeafWithText(leaf, offset - at.offset, text, run_clock,
                               lamport_clock)
    IN  IF offset = 0
        THEN WithTree(s, Prepend(s.tree,
                                 EditRunRecord(text.id, text.start, text.end,
                                               run_clock, lamport_clock)),
                      text, List!ZeroAnchor)
        ELSE WithTree(s, Insert(s.tree, offset, pieces), text,
                      List!AnchorAt(leaf, offset - at.offset))

(* Only AppendRunToAnother leaves the number of leaves as it was.          *)
AppendRunToAnother(s, run, leaf) ==
    [store |-> [tree |-> AppendLeafToAnother(s.tree, leaf, run),
                indices |-> ExtendLast(s.indices, run.id, RunLen(run))],
     result |-> Located(s.tree, leaf).offset + VisibleLen(Leaf(s.tree, leaf))]

InsertRunAfterAnother(s, run, leaf) ==
    LET tree == InsertLeafAfterAnother(s.tree, run, leaf)
        new == tree.cursor.leaf
    IN  [store |-> [tree |-> tree,
                    indices |->
                      IF run.ts + 1 = Len(s.indices[run.id])
                      THEN AppendToLast(s.indices, run.id, RunLen(run), new)
                      ELSE AppendRun(s.indices, run.id, RunLen(run), new)],
         result |-> tree.cursor.offset]

(* Mutant: no leaf is skipped over.                                        *)
NoneSkipped(t, run, k) == LeavesFromFirst(t)[k]

(* The last of the leaves after the k-th that the run skips over.          *)
LastSkipped(t, run, k) ==
    LET leaves == LeavesFromFirst(t)
        Skips(j) == SortsAfter(run, Leaf(t, leaves[j]))
        p == CHOOSE p \in k .. Len(leaves) :
               /\ \A j \in k + 1 .. p : Skips(j)
               /\ p < Len(leaves) => ~Skips(p + 1)
    IN  leaves[p]

InsertRunAtZero(s, run) ==
    LET tree == Prepend(s.tree, run)
    IN  IF SortsBefore(run, Leaf(s.tree, FirstLeaf(s.tree)))
        THEN [store |-> [tree |-> tree,
                         indices |-> AppendRun(s.indices, run.id, RunLen(run),
                                               tree.cursor.leaf)],
              result |-> 0]
        ELSE InsertRunAfterAnother(s, run, LastSkipped(s.tree, run, 1))

SplitRunWithAnother(s, run, leaf, at) ==
    LET split == Leaf(s.tree, leaf)
        tree == SplitLeafWithAnother(s.tree, leaf,
                                     InsertAt(SplitRun(split, at), 2, run))
        new == PushedLeaves(s.tree, tree)
    IN  [store |-> [tree |-> tree,
                    indices |->
                      SplitFragment(AppendRun(s.indices, run.id, RunLen(run),
                                              new[1]),
                                    split.id, split.ts, split.start + at,
                                    new[2])],
         result |-> tree.cursor.offset]

(* A run goes on in place if the next leaf has the same parent and is not  *)
(* skipped over.                                                           *)
InsertRunAfterAnchor(s, run, leaf) ==
    LET t == s.tree
        k == IdxOfLeafInParent(t, leaf)
        siblings == t.inodes[Parent(t, leaf)].children
        leaves == LeavesFromFirst(t)
    IN  IF /\ k < Len(siblings)
           /\ ~SortsAfter(run, Leaf(t, siblings[k + 1]))
           /\ CanAppend(Leaf(t, leaf), run)
        THEN AppendRunToAnother(s, run, leaf)
        ELSE InsertRunAfterAnother(s, run,
               LastSkipped(t, run, CHOOSE j \in DOMAIN leaves :
                                       leaves[j] = leaf))

StoreMergeInsertion(s, m) ==
    LET run == EditRunRecord(m.by, m.start, m.end, m.ts, m.lam)
        leaf == LeafAtAnchor(s.indices, m.anchor, "left")
        at == m.anchor.offset - Leaf(s.tree, leaf).start
    IN  IF m.anchor = List!ZeroAnchor THEN InsertRunAtZero(s, run)
        ELSE IF m.anchor.offset < Leaf(s.tree, leaf).end
        THEN SplitRunWithAnother(s, run, leaf, at)
        ELSE InsertRunAfterAnchor(s, run, leaf)

------------------------------------------------------------------------------
(* Deletions.                                                              *)

(* The table after a range of one leaf was deleted and new leaves pushed.  *)
IndicesAfterRange(indices, run, from, to, new) ==
    LET Split(ix, at, leaf) ==
          SplitFragment(ix, run.id, run.ts, run.start + at, leaf)
    IN  CASE Len(new) = 2 -> Split(Split(indices, from, new[1]), to, new[2])
          [] Len(new) = 1 -> Split(indices, IF from = 0 THEN to ELSE from, new[1])
          [] Len(new) = 0 /\ to - from = RunLen(run) -> indices
          [] Len(new) = 0 /\ from = 0 /\ to < RunLen(run) ->
               MoveLenToPrevSplit(indices, run.id, run.ts, run.start + to,
                                  to - from)
          [] Len(new) = 0 /\ from > 0 ->
               MoveLenToNextSplit(indices, run.id, run.ts, run.start + from,
                                  to - from)

(* The table after a range from one leaf to another was deleted.           *)
IndicesAfterDelete(indices, first, from, last, to, new) ==
    LET start_split == IF from = 0 THEN indices
                       ELSE SplitFragment(indices, first.id, first.ts,
                                          first.start + from, new[1])
    IN  IF to = RunLen(last) THEN start_split
        ELSE SplitFragment(start_split, last.id, last.ts, last.start + to,
                           Last(new))

(* The user's deletion: the store and the anchors of the range.            *)
StoreDelete(s, from, to) ==
    LET p == LeafAtOffset(s.tree, from + 1)
        q == LeafAtOffset(s.tree, to)
        first == Leaf(s.tree, p.leaf)
        last == Leaf(s.tree, q.leaf)
        from_p == from - p.offset
        to_q == to - q.offset
        After(tree) ==
          [tree |-> tree,
           indices |->
             IF p.leaf = q.leaf
             THEN IndicesAfterRange(s.indices, first, from_p, to_q,
                                    PushedLeaves(s.tree, tree))
             ELSE IndicesAfterDelete(s.indices, first, from_p, last, to_q,
                                     PushedLeaves(s.tree, tree))]
    IN  [store |-> After(Delete(s.tree, from, to)),
         result |-> <<List!AnchorAt(first, from_p), List!AnchorAt(last, to_q)>>]

(* The leaf to go on with after a range of a leaf was deleted.             *)
LeafAfterDeleted(tree, leaf, run, from, to, new) ==
    LET After(l) == IF NextLeaf(tree, l) = <<>> THEN l ELSE NextLeaf(tree, l)[1]
    IN  CASE Len(new) = 2 -> new[2]
          [] Len(new) = 1 /\ from = 0 -> new[1]
          [] Len(new) = 1 /\ from > 0 -> After(new[1])
          [] Len(new) = 0 /\ from = 0 /\ to < RunLen(run) -> leaf
          [] Len(new) = 0 /\ (from > 0 \/ to = RunLen(run)) -> After(leaf)

(* A range of one leaf is deleted, for a merge that goes on with the leaf  *)
(* after it.                                                               *)
StoreDeleteLeafRange(s, leaf, offset, from, to) ==
    LET run == Leaf(s.tree, leaf)
        After(tree) ==
          [store |->
             [tree |-> tree,
              indices |-> IndicesAfterRange(s.indices, run, from, to,
                                            PushedLeaves(s.tree, tree))],
           next |-> LeafAfterDeleted(tree, leaf, run, from, to,
                                     PushedLeaves(s.tree, tree))]
    IN  After(DeleteLeafRange(s.tree, leaf, offset, from, to))

(* merge_deletion's walk over the leaves; its fields are those of the walk *)
(* in RunTree, with the index of a leaf for its place.                     *)
WalkDeletes(walk, from, to) ==
    LET tree == RemoveCursor(walk.store.tree)
        After(deleted) ==
          [walk EXCEPT !.store = deleted.store,
                       !.leaf = deleted.next,
                       !.sound = @ /\ from < to
                                   /\ walk.leaf_offset =
                                        OffsetOfLeaf(tree, walk.leaf)]
    IN  After(StoreDeleteLeafRange(walk.store, walk.leaf, walk.leaf_offset,
                                   from, to))

WalkOn(walk) ==
    [walk EXCEPT !.leaf = NextLeaf(walk.store.tree, walk.leaf)[1]]

WalkDeletesLeaf(walk) ==
    LET run == Leaf(walk.store.tree, walk.leaf)
    IN  [WalkOn(walk) EXCEPT
           !.store.tree = RemoveCursor(WithLeafMut(walk.store.tree, walk.leaf,
                                                   [run EXCEPT !.del = TRUE])),
           !.from = List!DeletingFrom(walk),
           !.state = "deleting",
           !.visible_offset = @ + RunLen(run)]

VisitLastLeaf(walk, d) ==
    LET run == Leaf(walk.store.tree, walk.leaf)
        up_to == d.end.offset - run.start
    IN  IF run.del
        THEN [walk EXCEPT !.store.tree = RemoveCursor(@),
                          !.ranges = List!EndRange(walk)]
        ELSE [WalkDeletes(walk, 0, up_to) EXCEPT
                !.ranges = List!AddRange(walk, List!DeletingFrom(walk),
                                         walk.visible_offset + up_to)]

VisitLeaf(walk, d) ==
    LET run == Leaf(walk.store.tree, walk.leaf)
        known == List!KnownTo(d, run)
        up_to == known - run.start
    IN  IF run.del THEN WalkOn(walk)
        ELSE IF run.end <= known THEN WalkDeletesLeaf(walk)
        ELSE IF run.start >= known
        THEN [WalkOn(walk) EXCEPT
                !.ranges = List!EndRange(walk),
                !.state = "skipping",
                !.leaf_offset = @ + RunLen(run),
                !.visible_offset = @ + RunLen(run)]
        ELSE [WalkDeletes(walk, 0, up_to) EXCEPT
                !.ranges = List!AddRange(walk, List!DeletingFrom(walk),
                                         walk.visible_offset + up_to),
                !.state = "skipping",
                !.visible_offset = @ + up_to]

RECURSIVE VisitLeaves(_, _, _)

VisitLeaves(walk, d, end) ==
    IF walk.leaf = end THEN VisitLastLeaf(walk, d)
    ELSE VisitLeaves(VisitLeaf(walk, d), d, end)

VisitFirstLeaf(s, d) ==
    LET leaf == LeafAtAnchor(s.indices, d.start, "right")
        run == Leaf(s.tree, leaf)
        offset == OffsetOfLeaf(s.tree, leaf)
        known == List!KnownTo(d, run)
        from == d.start.offset - run.start
        up_to == IF run.end > known THEN known - run.start ELSE RunLen(run)
        walk == [store |-> s, leaf |-> leaf, state |-> "starting",
                 from |-> offset, leaf_offset |-> offset,
                 visible_offset |-> offset, ranges |-> <<>>, sound |-> TRUE]
    IN  IF run.del THEN WalkOn(walk)
        ELSE [WalkDeletes(walk, from, up_to) EXCEPT
                !.ranges = IF run.end > known
                           THEN List!AddRange(walk, offset + from, offset + up_to)
                           ELSE <<>>,
                !.state = IF run.end > known THEN "skipping" ELSE "deleting",
                !.from = offset + from,
                !.leaf_offset = offset + from,
                !.visible_offset = offset + up_to]

MergeDeletionInLeaf(s, d, leaf) ==
    LET run == Leaf(s.tree, leaf)
        offset == OffsetOfLeaf(s.tree, leaf)
        from == d.start.offset - run.start
        to == d.end.offset - run.start
    IN  IF run.del THEN [store |-> s, result |-> <<<<>>, TRUE>>]
        ELSE [store |-> StoreDeleteLeafRange(s, leaf, offset, from, to).store,
              result |-> <<<<[start |-> offset + from, end |-> offset + to]>>,
                           TRUE>>]

StoreMergeDeletion(s, d) ==
    LET leaf == LeafAtAnchor(s.indices, d.start, "right")
        end == LeafAtAnchor(s.indices, d.end, "left")
        After(walk) == [store |-> walk.store,
                        result |-> <<walk.ranges, walk.sound>>]
    IN  IF ContainsAnchor(Leaf(s.tree, leaf), d.end)
        THEN MergeDeletionInLeaf(s, d, leaf)
        ELSE After(VisitLeaves(VisitFirstLeaf(s, d), d, end))

------------------------------------------------------------------------------
(* The replica's and the peer's edits.                                     *)

FirstRun == EditRunRecord(Me, 0, InitialLen, 0, 0)

FirstState ==
    [store |-> NewStore(FirstRun), runs |-> <<FirstRun>>,
     version_map |-> [a \in {Me} \cup Peers |-> IF a = Me THEN InitialLen ELSE 0],
     run_clock |-> 1, lamport_clock |-> 1, agree |-> TRUE]

(* A user types some text: the state of the user's replica without its     *)
(* store, and the insertion that is sent.                                  *)
Typed(state, id, offset, len) ==
    LET start == state.version_map[id]
        text == [id |-> id, start |-> start, end |-> start + len]
        result == List!Insert(state.runs, offset, text, state.run_clock,
                              state.lamport_clock)
        new == IF result.new THEN 1 ELSE 0
    IN  [state |-> [state EXCEPT !.runs = result.runs,
                                 !.version_map[id] = start + len,
                                 !.run_clock = @ + new,
                                 !.lamport_clock = @ + new],
         text |-> text,
         insertion |-> [by |-> id, start |-> start, end |-> start + len,
                        anchor |-> result.anchor,
                        ts |-> state.run_clock + new - 1,
                        lam |-> state.lamport_clock + new - 1]]

(* The replica after an edit of its list and its store.                    *)
Applied(state, runs, stored, result) ==
    [state EXCEPT !.runs = runs,
                  !.store = stored.store,
                  !.agree = @ /\ stored.result = result]

LocalInsert(state, offset, len) ==
    LET typed == Typed(state, Me, offset, len)
    IN  Applied(typed.state, typed.state.runs,
                StoreInsert(state.store, offset, typed.text, state.run_clock,
                            state.lamport_clock),
                typed.insertion.anchor)

LocalDelete(state, from, to) ==
    LET listed == List!Delete(state.runs, from, to)
    IN  Applied(state, listed.runs, StoreDelete(state.store, from, to),
                <<listed.start, listed.end>>)

MergeInsertion(state, m) ==
    LET listed == List!MergeInsertion(state.runs, m)
        counted == [state EXCEPT
                      !.version_map[m.by] = m.end,
                      !.lamport_clock = IF m.lam >= @ THEN m.lam + 1 ELSE @]
    IN  Applied(counted, listed.runs, StoreMergeInsertion(state.store, m),
                listed.offset)

MergeDeletion(state, d) ==
    LET listed == List!MergeDeletion(state.runs, d)
    IN  Applied(state, listed.runs, StoreMergeDeletion(state.store, d),
                <<listed.ranges, TRUE>>)

(* A peer starts with what the replica has.                                *)
Forked(state, id) ==
    [id |-> id, runs |-> state.runs, version_map |-> state.version_map,
     run_clock |-> 0, lamport_clock |-> state.lamport_clock]

Offsets(state) == 0 .. List!DocumentLen(state.runs)

Init ==
    \E h \in Histories :
        /\ local = FoldLeft(LAMBDA state, place : LocalInsert(state, place, 1),
                            FirstState, h.places)
        /\ peer = Forked(local, 2)
        /\ edits = h.edits

AnotherEdit ==
    /\ edits > 0
    /\ edits' = edits - 1

Insertion ==
    \E offset \in Offsets(local), len \in 1 .. MaxLen :
        /\ AnotherEdit
        /\ local' = LocalInsert(local, offset, len)
        /\ UNCHANGED peer

Deletion ==
    \E from, to \in Offsets(local) :
        /\ AnotherEdit
        /\ from < to
        /\ local' = LocalDelete(local, from, to)
        /\ UNCHANGED peer

PeerInsertion ==
    \E offset \in Offsets(peer), len \in 1 .. MaxLen :
        LET typed == Typed(peer, peer.id, offset, len)
        IN  /\ AnotherEdit
            /\ peer' = typed.state
            /\ local' = MergeInsertion(local, typed.insertion)

PeerDeletion ==
    \E from, to \in Offsets(peer) :
        LET result == List!Delete(peer.runs, from, to)
        IN  /\ AnotherEdit
            /\ from < to
            /\ peer' = [peer EXCEPT !.runs = result.runs]
            /\ local' = MergeDeletion(local,
                          [start |-> result.start, end |-> result.end,
                           version_map |->
                             [a \in {Me} \cup Peers |->
                                IF a \in result.ids \cup {peer.id}
                                THEN peer.version_map[a] ELSE 0]])

ForkPeer ==
    /\ edits > 0
    /\ peer.id + 1 \in Peers
    /\ peer' = Forked(local, peer.id + 1)
    /\ UNCHANGED <<local, edits>>

Next == Insertion \/ Deletion \/ PeerInsertion \/ PeerDeletion \/ ForkPeer

Spec == Init /\ [][Next]_vars
===============================================================================
