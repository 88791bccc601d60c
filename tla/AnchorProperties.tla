--------------------------- MODULE AnchorProperties ---------------------------
(***************************************************************************)
(* Anchors: positions that users keep while the document changes, and send *)
(* to each other (Replica::create_anchor and Replica::resolve_anchor).     *)
(***************************************************************************)
EXTENDS ReplicaProperties

Biases == {"left", "right"}

Offsets(r) == 0 .. DocumentLen(run_tree[r])

(* The character an anchor sticks to, none at the ends of the document.    *)
CharNextTo(r, offset, bias) ==
    LET k == IF bias = "left" THEN offset ELSE offset + 1
    IN  IF k \in DOMAIN buffer[r] THEN <<buffer[r][k]>> ELSE <<>>

(* How many visible characters come before c in a document.                *)
VisibleBefore(r, c) ==
    Cardinality({x \in ToSet(buffer[r]) : ComesBefore(run_tree[r], x, c)})

(* Where an anchor next to c belongs, whether c is still visible or not.   *)
PlaceNextTo(r, c, bias) ==
    IF bias = "left" /\ c \in ToSet(buffer[r])
    THEN VisibleBefore(r, c) + 1 ELSE VisibleBefore(r, c)

(* An anchor made at one replica sticks to its character at every other    *)
(* one that has it, whatever has been inserted, deleted, split or joined   *)
(* around it; in deleted text it resolves to where the text was; at the    *)
(* ends of the document it stays there.                                    *)
AnchorsFollowTheirCharacter ==
    \A r, s \in Live, bias \in Biases : \A offset \in Offsets(s) :
        LET anchor == CreateAnchor(run_tree[s], offset, bias)
            next_to == CharNextTo(s, offset, bias)
            resolved == ResolveAnchor(run_tree[r], anchor)
        IN  IF next_to = <<>>
            THEN resolved = IF bias = "left" THEN 0 ELSE Len(buffer[r])
            ELSE next_to[1] \in CharsAt(r) =>
                    resolved = PlaceNextTo(r, next_to[1], bias)

(* resolve_anchor gives None for an anchor in text the replica does not    *)
(* have (replica.rs:901-903): when has_anchor lets an anchor through, the  *)
(* tree has the leaf it asks RunIndices for.                               *)
KnownAnchorsAreFound ==
    \A r, s \in Live, bias \in Biases : \A offset \in Offsets(s) :
        LET anchor == CreateAnchor(run_tree[s], offset, bias)
        IN  HasAnchor(r, anchor.at) /\ anchor.at # ZeroAnchor
               => HasLeafAt(run_tree[r], anchor.at, bias)
==============================================================================
