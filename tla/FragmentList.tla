----------------------------- MODULE FragmentList -----------------------------
(***************************************************************************)
(* What the fragments of one run promise: a sequence of them, in the order *)
(* of the run's characters, each with its length and its leaf.  This is    *)
(* how module RunIndices keeps them, and RunStore uses them; here they are *)
(* the state of a specification of its own, for Fragments to implement.    *)
(***************************************************************************)
EXTENDS RunIndices

CONSTANT MaxLen    \* the longest piece of text appended at once

VARIABLES
    indices,       \* the table, with the one run of one replica
    operations     \* how many operations are to follow

vars == <<indices, operations>>

Me == 1

List == FragmentsOf(indices, Me, 0)

NewLeaf == Len(List) + 1

FragmentStart(k) == FragmentsLen(SubSeq(List, 1, k - 1))

(* The offsets strictly inside the k-th fragment.                          *)
Inside(k) == {FragmentStart(k) + n : n \in 1 .. List[k].len - 1}

(* Fragments of different leaves, none of them empty.                      *)
Init ==
    /\ DOMAIN indices = {Me}
    /\ Len(indices[Me]) = 1
    /\ indices[Me][1].offset = 0
    /\ \A k \in DOMAIN List : List[k].len > 0
    /\ {List[k].leaf : k \in DOMAIN List} = DOMAIN List
    /\ operations \in Nat

Operation(table) ==
    /\ operations > 0
    /\ operations' = operations - 1
    /\ indices' = table

AppendText ==
    \E len \in 1 .. MaxLen : Operation(AppendToLast(indices, Me, len, NewLeaf))

ExtendText ==
    \E len \in 1 .. MaxLen : Operation(ExtendLast(indices, Me, len))

Split ==
    \E k \in DOMAIN List : \E offset \in Inside(k) :
        Operation(SplitFragment(indices, Me, 0, offset, NewLeaf))

(* The end of a fragment goes to the next one.                             *)
MoveEnd ==
    \E k \in 1 .. Len(List) - 1 : \E offset \in Inside(k) :
        Operation(MoveLenToNextSplit(indices, Me, 0, offset,
                                     FragmentStart(k + 1) - offset))

(* The start of a fragment goes to the previous one.                       *)
MoveStart ==
    \E k \in 2 .. Len(List) : \E offset \in Inside(k) :
        Operation(MoveLenToPrevSplit(indices, Me, 0, offset,
                                     offset - FragmentStart(k)))

Next == AppendText \/ ExtendText \/ Split \/ MoveEnd \/ MoveStart

Spec == Init /\ [][Next]_vars
===============================================================================
