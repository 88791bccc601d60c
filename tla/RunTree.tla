------------------------------- MODULE RunTree -------------------------------
(***************************************************************************)
(* A replica's document (src/src/run_tree.rs): the runs of all characters  *)
(* it knows, tombstones included, in document order.                       *)
(*                                                                         *)
(* The code keeps the runs in the leaves of a B-tree with cached lengths   *)
(* and a table from anchors to leaves.  Here the document is the sequence  *)
(* of those leaves.  Two leaves are joined only when they are children of  *)
(* the same inner node: the sequence is exact while the leaves fit in one  *)
(* inner node, that is up to RUN_TREE_ARITY = 32 of them.                  *)
(***************************************************************************)
EXTENDS EditRun, SequencesExt

ZeroAnchor == [id |-> 0, offset |-> 0, ts |-> 0]

(* The leaf at index i replaced by some leaves.                            *)
Splice(runs, i, pieces) ==
    SubSeq(runs, 1, i - 1) \o pieces \o SubSeq(runs, i + 1, Len(runs))

(* The visible text before a leaf.                                         *)
OffsetOfLeaf(runs, i) ==
    LET offset[k \in 1 .. Len(runs) + 1] ==
          IF k = 1 THEN 0 ELSE offset[k - 1] + VisibleLen(runs[k - 1])
    IN  offset[i]

DocumentLen(runs) == OffsetOfLeaf(runs, Len(runs) + 1)

(* The leaf with a visible character right before a non-zero offset.       *)
LeafAtOffset(runs, offset) ==
    CHOOSE i \in DOMAIN runs :
        /\ OffsetOfLeaf(runs, i) < offset
        /\ offset <= OffsetOfLeaf(runs, i) + VisibleLen(runs[i])

(* The leaf with the character before the anchor (left) or after (right).  *)
LeavesAtAnchor(runs, anchor, bias) ==
    {i \in DOMAIN runs :
        /\ runs[i].id = anchor.id
        /\ runs[i].ts = anchor.ts
        /\ \/ /\ bias = "left"
              /\ runs[i].start < anchor.offset
              /\ anchor.offset <= runs[i].end
           \/ /\ bias = "right"
              /\ runs[i].start <= anchor.offset
              /\ anchor.offset < runs[i].end}

IdxAtAnchor(runs, anchor, bias) ==
    CHOOSE i \in LeavesAtAnchor(runs, anchor, bias) : TRUE

HasLeafAt(runs, anchor, bias) == LeavesAtAnchor(runs, anchor, bias) # {}

------------------------------------------------------------------------------
(* Local insertions.                                                       *)

(* A local insertion continues a run when it is typed at the end of the    *)
(* replica's latest run and no newer run has been seen since.              *)
ContinuesRun(run, at, text, lamport_clock) ==
    /\ RunLen(run) = at
    /\ run.end = text.start
    /\ run.id = text.id
    /\ run.lam = lamport_clock - 1

AnchorAt(run, at) == [id |-> run.id, offset |-> run.start + at, ts |-> run.ts]

(* The document, the insertion's anchor and whether a new run was started. *)
Insert(runs, offset, text, run_clock, lamport_clock) ==
    LET i == LeafAtOffset(runs, offset)
        at == offset - OffsetOfLeaf(runs, i)
        new == EditRunRecord(text.id, text.start, text.end, run_clock,
                             lamport_clock)
    IN  IF offset = 0
        THEN [runs |-> <<new>> \o runs, anchor |-> ZeroAnchor, new |-> TRUE]
        ELSE IF ContinuesRun(runs[i], at, text, lamport_clock)
        THEN [runs |-> [runs EXCEPT ![i].end = text.end],
              anchor |-> AnchorAt(runs[i], at), new |-> FALSE]
        ELSE [runs |-> Splice(runs, i, InsertAt(SplitRun(runs[i], at), 2, new)),
              anchor |-> AnchorAt(runs[i], at), new |-> TRUE]

------------------------------------------------------------------------------
(* Remote insertions.                                                      *)

(* The first position from i on whose leaf the run does not skip over.     *)
PositionFrom(runs, run, i) ==
    CHOOSE p \in i .. Len(runs) + 1 :
        /\ \A k \in i .. p - 1 : SortsAfter(run, runs[k])
        /\ p <= Len(runs) => ~SortsAfter(run, runs[p])

(* Mutant: the length of the leaf right before the run is not counted.     *)
InsertRunBeforeLastLeaf(runs, run, p) ==
    [runs |-> InsertAt(runs, p, run),
     offset |-> OffsetOfLeaf(runs, IF p = 1 THEN 1 ELSE p - 1)]

InsertRun(runs, run, p) ==
    [runs |-> InsertAt(runs, p, run), offset |-> OffsetOfLeaf(runs, p)]

InsertRunAtZero(runs, run) ==
    IF SortsBefore(run, runs[1])
    THEN InsertRun(runs, run, 1)
    ELSE InsertRun(runs, run, PositionFrom(runs, run, 2))

SplitRunWithAnother(runs, run, i, at) ==
    [runs |-> Splice(runs, i, InsertAt(SplitRun(runs[i], at), 2, run)),
     offset |-> OffsetOfLeaf(runs, i) + VisibleLen(SubRun(runs[i], 0, at))]

(* Only a leaf that has a next sibling is extended in place.               *)
InsertRunAfterAnchor(runs, run, i) ==
    IF /\ i < Len(runs)
       /\ ~SortsAfter(run, runs[i + 1])
       /\ CanAppend(runs[i], run)
    THEN [runs |-> [runs EXCEPT ![i].end = run.end],
          offset |-> OffsetOfLeaf(runs, i) + RunLen(runs[i])]
    ELSE InsertRun(runs, run, PositionFrom(runs, run, i + 1))

(* The document and the offset of the inserted text.                       *)
MergeInsertion(runs, m) ==
    LET run == EditRunRecord(m.by, m.start, m.end, m.ts, m.lam)
        i == IdxAtAnchor(runs, m.anchor, "left")
    IN  IF m.anchor = ZeroAnchor THEN InsertRunAtZero(runs, run)
        ELSE IF m.anchor.offset < runs[i].end
        THEN SplitRunWithAnother(runs, run, i, m.anchor.offset - runs[i].start)
        ELSE InsertRunAfterAnchor(runs, run, i)

------------------------------------------------------------------------------
(* Deletions.                                                              *)

JoinsPrevious(runs, i, from, to) ==
    /\ from = 0 /\ to < RunLen(runs[i]) /\ i > 1
    /\ CanAppend(runs[i - 1], Head(DeleteRange(runs[i], from, to)))

JoinsNext(runs, i, from, to) ==
    /\ from > 0 /\ to = RunLen(runs[i]) /\ i < Len(runs)
    /\ CanPrepend(runs[i + 1], Last(DeleteRange(runs[i], from, to)))

(* A range of one leaf is deleted.  A tombstone at the leaf's start or end *)
(* is joined with the tombstone it continues, if that is the neighbour.    *)
DeleteRangeInLeaf(runs, i, from, to) ==
    IF JoinsPrevious(runs, i, from, to)
    THEN [runs EXCEPT ![i - 1].end = runs[i].start + to,
                      ![i].start = runs[i].start + to]
    ELSE IF JoinsNext(runs, i, from, to)
    THEN [runs EXCEPT ![i + 1].start = runs[i].start + from,
                      ![i].end = runs[i].start + from]
    ELSE Splice(runs, i, DeleteRange(runs[i], from, to))

(* The leaf a merge goes on with after deleting from..to of leaf i.        *)
LeafAfterDeleted(runs, i, from, to) ==
    LET next == IF JoinsPrevious(runs, i, from, to) THEN i
                ELSE IF from = 0 \/ JoinsNext(runs, i, from, to) THEN i + 1
                ELSE i + 2
        last == Len(DeleteRangeInLeaf(runs, i, from, to))
    IN  IF next > last THEN last ELSE next

(* A range from inside one leaf to inside a later one is deleted.  Nothing *)
(* is joined here.                                                         *)
DeleteRangeInInode(runs, p, from, q, to) ==
    SubSeq(runs, 1, p - 1)
      \o DeleteFrom(runs[p], from)
      \o [k \in 1 .. q - p - 1 |-> Tombstone(runs[p + k])]
      \o DeleteUpTo(runs[q], to)
      \o SubSeq(runs, q + 1, Len(runs))

(* A local deletion of the visible characters from..to: the document, the  *)
(* anchors of the range, and whose characters were deleted.                *)
Delete(runs, from, to) ==
    LET p == LeafAtOffset(runs, from + 1)
        q == LeafAtOffset(runs, to)
        from_p == from - OffsetOfLeaf(runs, p)
        to_q == to - OffsetOfLeaf(runs, q)
    IN  [runs |-> IF p = q THEN DeleteRangeInLeaf(runs, p, from_p, to_q)
                  ELSE DeleteRangeInInode(runs, p, from_p, q, to_q),
         start |-> AnchorAt(runs[p], from_p),
         end |-> AnchorAt(runs[q], to_q),
         ids |-> {runs[k].id : k \in {j \in p .. q : ~runs[j].del}}]

(* Mutant: the deletion is taken to know every run it meets.               *)
KnownToAll(d, run) == run.end

(* How much of a run's inserter the deletion's sender knew of.             *)
KnownTo(d, run) == d.version_map[run.id]

(* merge_deletion walks over the leaves: the leaf it is at, whether it is  *)
(* inside a range of deleted text and where that starts, the leaf's offset *)
(* now and before any of it was deleted, the finished ranges, and whether  *)
(* the offsets given to the tree were right and no leaf was missing.       *)
(* Mutant: a range starts where the one before it started.                 *)
DeletingFromBefore(walk) == walk.from

DeletingFrom(walk) ==
    IF walk.state = "deleting" THEN walk.from ELSE walk.visible_offset

AddRange(walk, start, end) == Append(walk.ranges, [start |-> start, end |-> end])

EndRange(walk) ==
    IF walk.state = "deleting"
    THEN AddRange(walk, walk.from, walk.visible_offset) ELSE walk.ranges

DeleteLeafRange(walk, from, to) ==
    [walk EXCEPT !.runs = DeleteRangeInLeaf(walk.runs, walk.i, from, to),
                 !.i = LeafAfterDeleted(walk.runs, walk.i, from, to),
                 !.sound = @ /\ walk.leaf_offset = OffsetOfLeaf(walk.runs, walk.i)
                             /\ from < to /\ ~walk.runs[walk.i].del]

VisitLastLeaf(walk, d) ==
    LET run == walk.runs[walk.i]
        up_to == d.end.offset - run.start
    IN  IF run.del
        THEN [walk EXCEPT !.ranges = EndRange(walk), !.done = TRUE]
        ELSE [DeleteLeafRange(walk, 0, up_to) EXCEPT
                !.ranges = AddRange(walk, DeletingFrom(walk),
                                    walk.visible_offset + up_to),
                !.done = TRUE]

VisitLeaf(walk, d) ==
    LET run == walk.runs[walk.i]
        known == KnownTo(d, run)
        up_to == known - run.start
    IN  IF walk.i > Len(walk.runs)
        THEN [walk EXCEPT !.sound = FALSE, !.done = TRUE]
        ELSE IF walk.i = IdxAtAnchor(walk.runs, d.end, "left")
        THEN VisitLastLeaf(walk, d)
        ELSE IF run.del
        THEN [walk EXCEPT !.i = @ + 1]
        ELSE IF run.end <= known
        THEN [walk EXCEPT !.runs[walk.i].del = TRUE,
                          !.i = @ + 1,
                          !.from = DeletingFrom(walk),
                          !.state = "deleting",
                          !.visible_offset = @ + RunLen(run)]
        ELSE IF run.start >= known
        THEN [walk EXCEPT !.i = @ + 1,
                          !.ranges = EndRange(walk),
                          !.state = "skipping",
                          !.leaf_offset = @ + RunLen(run),
                          !.visible_offset = @ + RunLen(run)]
        ELSE [DeleteLeafRange(walk, 0, up_to) EXCEPT
                !.ranges = AddRange(walk, DeletingFrom(walk),
                                    walk.visible_offset + up_to),
                !.state = "skipping",
                !.visible_offset = @ + up_to]

(* The walk after its first leaf, the one with the deletion's start.       *)
VisitFirstLeaf(runs, d) ==
    LET i == IdxAtAnchor(runs, d.start, "right")
        run == runs[i]
        offset == OffsetOfLeaf(runs, i)
        known == KnownTo(d, run)
        from == d.start.offset - run.start
        up_to == IF run.end > known THEN known - run.start ELSE RunLen(run)
        walk == [runs |-> runs, i |-> i, state |-> "starting", from |-> offset,
                 leaf_offset |-> offset, visible_offset |-> offset,
                 ranges |-> <<>>, done |-> FALSE, sound |-> TRUE]
    IN  IF run.del THEN [walk EXCEPT !.i = i + 1]
        ELSE [DeleteLeafRange(walk, from, up_to) EXCEPT
                !.ranges = IF run.end > known
                           THEN AddRange(walk, offset + from, offset + up_to)
                           ELSE <<>>,
                !.state = IF run.end > known THEN "skipping" ELSE "deleting",
                !.from = offset + from,
                !.leaf_offset = offset + from,
                !.visible_offset = offset + up_to]

(* The whole deletion falls in one leaf.                                   *)
MergeDeletionInLeaf(runs, d, i) ==
    LET from == d.start.offset - runs[i].start
        to == d.end.offset - runs[i].start
        offset == OffsetOfLeaf(runs, i)
    IN  IF runs[i].del THEN [runs |-> runs, ranges |-> <<>>, sound |-> TRUE]
        ELSE [runs |-> DeleteRangeInLeaf(runs, i, from, to),
              ranges |-> <<[start |-> offset + from, end |-> offset + to]>>,
              sound |-> TRUE]

(* The document and the ranges of visible text that were deleted, in the   *)
(* offsets of the document before the merge.  There is one walk; walks[n]  *)
(* is the set of it after n leaves.                                        *)
MergeDeletion(runs, d) ==
    LET i == IdxAtAnchor(runs, d.start, "right")
        walks[n \in 0 .. 2 * Len(runs)] ==
            IF n = 0 THEN {VisitFirstLeaf(runs, d)}
            ELSE {IF walk.done THEN walk ELSE VisitLeaf(walk, d) :
                     walk \in walks[n - 1]}
        end == CHOOSE walk \in walks[2 * Len(runs)] : TRUE
    IN  IF ContainsAnchor(runs[i], d.end) THEN MergeDeletionInLeaf(runs, d, i)
        ELSE [runs |-> end.runs, ranges |-> end.ranges, sound |-> end.sound]

------------------------------------------------------------------------------
(* Anchors that users keep for their cursors and selections.               *)
BiasedAnchor(anchor, bias) == [at |-> anchor, bias |-> bias]

StartOfDocument == BiasedAnchor(ZeroAnchor, "left")

EndOfDocument == BiasedAnchor(ZeroAnchor, "right")

(* The first leaf from i on that can be seen.                              *)
VisibleFrom(runs, i) ==
    CHOOSE k \in i .. Len(runs) :
        ~runs[k].del /\ \A j \in i .. k - 1 : runs[j].del

(* An anchor sticks to the character before (left) or after (right) it.    *)
CreateAnchor(runs, offset, bias) ==
    LET i == LeafAtOffset(runs, offset)
        leaf_end == OffsetOfLeaf(runs, i) + RunLen(runs[i])
        next == VisibleFrom(runs, IF offset = 0 THEN 1 ELSE i + 1)
    IN  IF offset = DocumentLen(runs) /\ bias = "right" THEN EndOfDocument
        ELSE IF offset = 0 /\ bias = "left" THEN StartOfDocument
        ELSE IF offset = 0 \/ (bias = "right" /\ offset = leaf_end)
        THEN BiasedAnchor(AnchorAt(runs[next], 0), "right")
        ELSE BiasedAnchor(
               AnchorAt(runs[i], offset - OffsetOfLeaf(runs, i)), bias)

(* Mutant: anchors in deleted text are resolved as if it were visible.     *)
ResolveAnchorInTombstone(runs, anchor) ==
    LET i == IdxAtAnchor(runs, anchor.at, anchor.bias)
    IN  IF anchor = StartOfDocument THEN 0
        ELSE IF anchor = EndOfDocument THEN DocumentLen(runs)
        ELSE OffsetOfLeaf(runs, i) + (anchor.at.offset - runs[i].start)

(* In deleted text an anchor resolves to where that text was.              *)
ResolveAnchor(runs, anchor) ==
    LET i == IdxAtAnchor(runs, anchor.at, anchor.bias)
    IN  IF anchor = StartOfDocument THEN 0
        ELSE IF anchor = EndOfDocument THEN DocumentLen(runs)
        ELSE IF runs[i].del THEN OffsetOfLeaf(runs, i)
        ELSE OffsetOfLeaf(runs, i) + (anchor.at.offset - runs[i].start)

------------------------------------------------------------------------------
(* What a document means.                                                  *)

RunChars(run) ==
    [k \in 1 .. RunLen(run) |-> [id |-> run.id, at |-> run.start + k - 1]]

(* The text the user sees.                                                 *)
RunText(run) == IF run.del THEN <<>> ELSE RunChars(run)

VisibleChars(runs) ==
    LET text[n \in 0 .. Len(runs)] ==
          IF n = 0 THEN <<>> ELSE text[n - 1] \o RunText(runs[n])
    IN  text[Len(runs)]

RunCharSet(run) ==
    {[id |-> run.id, at |-> k] : k \in run.start .. run.end - 1}

CharSet(runs) == UNION {RunCharSet(runs[i]) : i \in DOMAIN runs}

(* One character stands before another.                                    *)
HasChar(run, c) == c.id = run.id /\ run.start <= c.at /\ c.at < run.end

ComesBefore(runs, c, e) ==
    \E i, j \in DOMAIN runs :
        /\ HasChar(runs[i], c) /\ HasChar(runs[j], e)
        /\ i < j \/ (i = j /\ c.at < e.at)

Tombstones(runs) ==
    UNION {RunCharSet(runs[i]) : i \in {j \in DOMAIN runs : runs[j].del}}
==============================================================================
