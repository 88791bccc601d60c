-------------------------- MODULE DeletionInvariant --------------------------
(***************************************************************************)
(* The inductive invariant behind convergence: what is deleted in a        *)
(* document is what the deletions merged there say, wherever and in        *)
(* whatever order they were merged.  A deletion says so by two characters  *)
(* and by how much of everybody's text its sender had; what lies between   *)
(* the two is the same everywhere, because text has one order.             *)
(***************************************************************************)
EXTENDS OrderInvariant

DeadOf(run) == IF run.del THEN RunMarks(run) ELSE {}

DeadMarks(runs) == UNION {DeadOf(runs[i]) : i \in DOMAIN runs}

StartsAt(d, c) ==
    c.id = d.start.id /\ c.ts = d.start.ts /\ c.at = d.start.offset

EndsAt(d, c) ==
    c.id = d.end.id /\ c.ts = d.end.ts /\ c.at + 1 = d.end.offset

IsWithin(order, s, e, c) ==
    (c = s \/ <<s, c>> \in order) /\ (c = e \/ <<c, e>> \in order)

IsKnownTo(d, c) == c.at < d.version_map[c.id]

(* What a deletion deletes, of everything that was ever sent.              *)
DeletedBy(order, d) ==
    {c \in SentMarks :
        /\ IsKnownTo(d, c)
        /\ \E s, e \in SentMarks :
             StartsAt(d, s) /\ EndsAt(d, e) /\ IsWithin(order, s, e, c)}

MergedDeletions(r) == {d \in deletions : HasMergedDeletion(r, d)}

DeletionsHaveTheirEffect(order) ==
    \A r \in replicas :
        DeadMarks(run_tree[r]) =
            UNION {DeletedBy(order, d) : d \in MergedDeletions(r)}

(* A deletion goes from a character to that one or to a later one.         *)
RangesAreInOrder(order) ==
    \A d \in deletions : \E s, e \in SentMarks :
        StartsAt(d, s) /\ EndsAt(d, e) /\ IsWithin(order, s, e, s)

IsOrderOfEdits(order) ==
    /\ IsOrderOfText(order)
    /\ RangesAreInOrder(order)
    /\ DeletionsHaveTheirEffect(order)

DeletionInvariant ==
    /\ AnchorsAreCounted
    /\ \E order : KeepsRuns(order) /\ IsOrderOfEdits(order)
==============================================================================
