-------------------------- MODULE SnapshotRefinement --------------------------
(***************************************************************************)
(* The clocks of replicas and snapshots keep the promise of                *)
(* CausalDelivery.  Nothing but the version map and the deletion map tells *)
(* which edits have taken effect.                                          *)
(***************************************************************************)
EXTENDS SnapshotInvariant

InsertionEdit(m) ==
    [kind |-> "insertion", by |-> m.by, no |-> m.start, needs |-> {}]

InsertionsUpTo(versions) ==
    {InsertionEdit(m) : m \in {n \in insertions : versions[n.by] > n.start}}

(* A deletion needs the insertions its sender had of the replicas whose    *)
(* text it deletes.                                                        *)
DeletionEdit(d) ==
    [kind |-> "deletion", by |-> d.by, no |-> d.ts,
     needs |-> InsertionsUpTo(d.version_map)]

DeletionsUpTo(versions) ==
    {DeletionEdit(d) : d \in {e \in deletions : versions[e.by] >= e.ts}}

MergedUpTo(versions, deletion_versions) ==
    InsertionsUpTo(versions) \cup DeletionsUpTo(deletion_versions)

Sent == {InsertionEdit(m) : m \in insertions}
          \cup {DeletionEdit(d) : d \in deletions}

Merged ==
    [r \in ReplicaIds |->
       IF r \in replicas THEN MergedUpTo(version_map[r], deletion_map[r])
       ELSE {}]

Copies == {MergedUpTo(s.version_map, s.deletion_map) : s \in snapshots}

Delivery == INSTANCE CausalDelivery WITH
    Replicas <- ReplicaIds,
    members <- replicas,
    sent <- Sent,
    merged <- Merged,
    copies <- Copies

(* Causal delivery, exactly once, also across snapshots and whatever the   *)
(* transport repeats or reorders: a step of the replicas makes one edit    *)
(* take effect at one replica, one that had not yet and is not overtaken,  *)
(* or none; going on from an old snapshot means what joining then did.     *)
ImplementsCausalDelivery == Delivery!Spec
==============================================================================
