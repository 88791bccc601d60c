------------------------------ MODULE RunIndices ------------------------------
(***************************************************************************)
(* Where the characters of every run are (src/src/run_indices.rs): for     *)
(* each replica and each run it started, the fragments the run is split    *)
(* into, in the order the characters were inserted, and for each fragment  *)
(* its length and the leaf that holds it.                                  *)
(*                                                                         *)
(* indices[id][ts + 1] is the entry of run ts of replica id.  Its offset   *)
(* is the length of all earlier runs.  The code keeps up to 8 fragments in *)
(* an array and more of them in a tree; both are a sequence here.          *)
(***************************************************************************)
EXTENDS Naturals, SequencesExt

Fragment(len, leaf) == [len |-> len, leaf |-> leaf]

FragmentsLen(fragments) ==
    FoldLeft(LAMBDA sum, fragment : sum + fragment.len, 0, fragments)

(* A new run of a replica.                                                 *)
AppendRun(indices, id, len, leaf) ==
    LET runs == indices[id]
        offset == IF runs = <<>> THEN 0
                  ELSE FragmentsLen(Last(runs).fragments) + Last(runs).offset
    IN  [indices EXCEPT ![id] =
           Append(@, [fragments |-> <<Fragment(len, leaf)>>,
                      offset |-> offset])]

(* A replica's latest run goes on in a leaf of its own.                    *)
AppendToLast(indices, id, len, leaf) ==
    [indices EXCEPT ![id][Len(indices[id])].fragments =
        Append(@, Fragment(len, leaf))]

(* A replica's latest run goes on in the same leaf.                        *)
ExtendLast(indices, id, len) ==
    LET last == Last(indices[id]).fragments
    IN  [indices EXCEPT
           ![id][Len(indices[id])].fragments[Len(last)].len = @ + len]

(* The first fragment that reaches an offset.                              *)
IdxAtOffset(fragments, offset) ==
    CHOOSE k \in DOMAIN fragments :
        /\ FragmentsLen(SubSeq(fragments, 1, k)) >= offset
        /\ \A j \in 1 .. k - 1 : FragmentsLen(SubSeq(fragments, 1, j)) < offset

FragmentsOf(indices, id, ts) == indices[id][ts + 1].fragments

OffsetInRun(indices, id, ts, offset) == offset - indices[id][ts + 1].offset

(* Mutant: the fragment before the boundary whatever the bias.             *)
LeafAtAnchorOnTheLeft(indices, anchor, bias) ==
    LET fragments == FragmentsOf(indices, anchor.id, anchor.ts)
    IN  fragments[IdxAtOffset(fragments,
                    OffsetInRun(indices, anchor.id, anchor.ts, anchor.offset))].leaf

(* The leaf with the character before or after an anchor.                  *)
LeafAtAnchor(indices, anchor, bias) ==
    LET fragments == FragmentsOf(indices, anchor.id, anchor.ts)
        at == OffsetInRun(indices, anchor.id, anchor.ts, anchor.offset)
        k == IdxAtOffset(fragments, at)
    IN  IF FragmentsLen(SubSeq(fragments, 1, k)) = at /\ bias = "right"
        THEN fragments[k + 1].leaf ELSE fragments[k].leaf

(* Mutant: the length that moved to the right part stays on the left.      *)
SplitFragmentKeepingLeft(indices, id, ts, offset, leaf) ==
    LET fragments == FragmentsOf(indices, id, ts)
        at == OffsetInRun(indices, id, ts, offset)
        k == IdxAtOffset(fragments, at)
        left == at - FragmentsLen(SubSeq(fragments, 1, k - 1))
        right == Fragment(fragments[k].len - left, leaf)
    IN  [indices EXCEPT ![id][ts + 1].fragments = InsertAt(@, k + 1, right)]

(* The fragment with an offset is split there; the right part moves to     *)
(* another leaf.                                                           *)
SplitFragment(indices, id, ts, offset, leaf) ==
    LET fragments == FragmentsOf(indices, id, ts)
        at == OffsetInRun(indices, id, ts, offset)
        k == IdxAtOffset(fragments, at)
        left == at - FragmentsLen(SubSeq(fragments, 1, k - 1))
        right == Fragment(fragments[k].len - left, leaf)
    IN  [indices EXCEPT ![id][ts + 1].fragments =
           InsertAt([@ EXCEPT ![k].len = left], k + 1, right)]

(* Some length of the fragment at an offset is given to another fragment   *)
(* of the run.                                                             *)
MoveLen(indices, id, ts, from, to, len) ==
    [indices EXCEPT ![id][ts + 1].fragments =
        [@ EXCEPT ![from].len = @ - len, ![to].len = @ + len]]

MoveLenToNextSplit(indices, id, ts, offset, len) ==
    LET k == IdxAtOffset(FragmentsOf(indices, id, ts),
                         OffsetInRun(indices, id, ts, offset))
    IN  MoveLen(indices, id, ts, k, k + 1, len)

MoveLenToPrevSplit(indices, id, ts, offset, len) ==
    LET k == IdxAtOffset(FragmentsOf(indices, id, ts),
                         OffsetInRun(indices, id, ts, offset))
    IN  MoveLen(indices, id, ts, k, k - 1, len)
===============================================================================
