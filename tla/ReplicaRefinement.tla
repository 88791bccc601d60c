-------------------------- MODULE ReplicaRefinement --------------------------
(***************************************************************************)
(* The replicas keep the promise of SharedText.  The mapping needs the one *)
(* order of all characters, which no replica has: it is rebuilt from the   *)
(* insertions alone, oldest Lamport timestamp first, each placed right     *)
(* after the character its anchor names.                                   *)
(***************************************************************************)
EXTENDS ReplicaProperties

(* `m` is put in its place before `n`: the later one comes to stand closer *)
(* to an anchor they share.                                                *)
PlacedBefore(m, n) ==
    \/ m.lam < n.lam
    \/ m.lam = n.lam /\ m.by > n.by
    \/ m.lam = n.lam /\ m.by = n.by /\ m.start < n.start

AnchorPlace(chars, anchor) ==
    IF anchor = ZeroAnchor THEN 0
    ELSE CHOOSE k \in DOMAIN chars :
            chars[k] = [id |-> anchor.id, at |-> anchor.offset - 1]

Place(chars, m) == InsertText(chars, AnchorPlace(chars, m.anchor), TextOf(m))

OneOrder ==
    FoldLeft(Place, RunChars(InitialRun),
             SetToSortSeq(insertions, PlacedBefore))

Text == INSTANCE SharedText WITH
    Replicas <- ReplicaIds,
    members <- replicas,
    order <- OneOrder,
    inserted <- {ToSet(TextOf(m)) : m \in insertions},
    erased <- UNION {ToSet(removed[a]) : a \in ReplicaIds},
    known <- [r \in ReplicaIds |-> CharsAt(r)],
    gone <- [r \in ReplicaIds |-> Tombstones(run_tree[r])],
    text <- buffer

(* The strong list specification: every step of the replicas is one of the *)
(* shared text, or changes nothing in it.  All users see the characters in *)
(* one order, also those that another user has deleted or does not have    *)
(* yet; an edit changes a text by what it inserts or deletes and by no     *)
(* other character.                                                        *)
ImplementsSharedText == Text!Spec
==============================================================================
