-------------------------- MODULE EncodingProperties --------------------------
(***************************************************************************)
(* What is encoded at one place is decoded at another as what it was, and  *)
(* what was cut short on the way is refused.  The edits and the backlogs   *)
(* that are encoded are those the replicas really send and keep.           *)
(***************************************************************************)
EXTENDS Replica, ReplicaEncoding

(* Orders a hash map may give its keys in: any two keys in either order.   *)
Orders ==
    LET ids == SetToSeq(ReplicaIds)
    IN  {ids, Reverse(ids)}

CutShort(buf) == {SubSeq(buf, 1, k) : k \in 0 .. Len(buf) - 1}

(* A decoder takes exactly the bytes of the value, whatever follows them,  *)
(* and fails when one of them is missing.                                  *)
IsDecodedFrom(value, buf, Decoder(_)) ==
    /\ \A next \in {<<>>, <<0>>, <<1, 2>>} :
         Decoder(buf \o next) = Ok(value, next)
    /\ \A front \in CutShort(buf) : ~Decoder(front).ok

(* An anchor that users share, on either side of its character.             *)
AnchorArrives(anchor) ==
    \A bias \in {"left", "right"} :
        IsDecodedFrom(BiasedAnchor(anchor, bias),
                      EncodeBiasedAnchor(BiasedAnchor(anchor, bias)),
                      DecodeBiasedAnchor)

(* An edit arrives as it was sent, although an insertion's anchor is left  *)
(* out when it continues a run (insertion.rs:246-255), and a deletion's    *)
(* second anchor is given by what it differs in from the first, at last    *)
(* by the length between them (deletion.rs:200-205): that anchor is never  *)
(* before the first.                                                       *)
InsertionArrives(m) ==
    /\ IsDecodedFrom(m, EncodeInsertion(m), DecodeInsertion)
    /\ AnchorArrives(m.anchor)

DeletionArrives(d) ==
    /\ d.start.id = d.end.id /\ d.start.ts = d.end.ts
         => d.start.offset < d.end.offset
    /\ \A order \in Orders :
         DecodeDeletion(ReplicaIds, EncodeDeletion(d, order)) = Ok(d, <<>>)
    /\ IsDecodedFrom(d, EncodeDeletion(d, CHOOSE order \in Orders : TRUE),
                     LAMBDA buf : DecodeDeletion(ReplicaIds, buf))

EditsArriveAsSent ==
    [][/\ \A m \in insertions' \ insertions : InsertionArrives(m)
       /\ \A d \in deletions' \ deletions : DeletionArrives(d)]_vars

------------------------------------------------------------------------------
(* The backlog of any replica at any moment is decoded as it was: every    *)
(* queue under its inserter, with its edits in their order.                *)
BacklogsAreRestored ==
    \A r \in ReplicaIds : Idle(r) => \A order \in Orders :
        DecodeBacklog(ReplicaIds,
                      EncodeBacklog(insertions_backlog[r],
                                    deletions_backlog[r], order))
          = Ok([insertions |-> insertions_backlog[r],
                deletions |-> deletions_backlog[r]], <<>>)
==============================================================================
