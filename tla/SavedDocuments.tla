---------------------------- MODULE SavedDocuments ----------------------------
(***************************************************************************)
(* What is true of the document in every snapshot, however old: it is a    *)
(* document like those of the replicas, of the text the snapshot's version *)
(* map counts and without what the deletions it counts have deleted.  What *)
(* is inserted and deleted after it was taken is past its clocks.          *)
(***************************************************************************)
EXTENDS SnapshotInvariant, DeletionInvariant

(* The document is sent text, and the user's text was saved with it.       *)
SavedDocument(s) ==
    /\ WellFormed(TypingOrder, s.run_tree)
    /\ DocumentMarks(s.run_tree) = {c \in SentMarks : c.at < s.version_map[c.id]}
    /\ s.buffer = VisibleChars(s.run_tree)

(* It has the first buffer, and each text as a whole or not at all, and    *)
(* with every insertion what that is anchored to.                          *)
SavedVersions(s) ==
    /\ InitialLen <= s.version_map[Creator]
    /\ \A t \in Texts :
         s.version_map[t.by] <= t.start \/ t.end <= s.version_map[t.by]
    /\ \A m \in insertions :
         s.version_map[m.by] > m.start /\ m.anchor # ZeroAnchor
            => m.anchor.offset <= s.version_map[m.anchor.id]

SavedDeletions(s) == {d \in deletions : s.deletion_map[d.by] >= d.ts}

(* It is in the order of everything that was sent, and what is deleted in  *)
(* it is what the deletions in it deleted.                                 *)
IsSavedIn(order, s) ==
    /\ RunsAreOrdered(order, s.run_tree)
    /\ DeadMarks(s.run_tree) =
         UNION {DeletedBy(order, d) : d \in SavedDeletions(s)}

SavedText == \A s \in snapshots : SavedDocument(s) /\ SavedVersions(s)

SavedInOrder(order) == \A s \in snapshots : IsSavedIn(order, s)
==============================================================================
