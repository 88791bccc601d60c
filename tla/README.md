# A TLA+ model of cola

cola is a CRDT for plain text: every peer keeps a *replica* of the document
beside its own text buffer, tells it about its edits, sends the edits the
replica returns to the other peers, and applies the offsets and ranges the
replica returns for theirs. The library does no I/O and has no threads. What is
hard about it is concurrency between peers: edits made at the same time, merged
in different orders, late or in the wrong order, and a document whose internal
shape (splits, joins, tombstones) differs from peer to peer.

All paths below are relative to the repository; `src/` is the crate's source.

## Inventory

| component | state | operations | correct when | status |
|---|---|---|---|---|
| `Replica` (`src/replica.rs`) | document, run clock, Lamport clock, version map, deletion map, backlog | `new`, `fork`, `decode`, `inserted`, `deleted`, `integrate_insertion`, `integrate_deletion`, `backlogged_*`, `create_anchor`, `resolve_anchor` | replicas that merged the same edits show the same text, and users who apply what is returned see it | modelled |
| clocks (`replica.rs:960-1033`, `src/version_map.rs`) | counters | `next`, `merge`, `get`, `fork` | a run sorts before every run its inserter had seen; nobody counts more than was made | modelled, proved |
| backlog (`src/backlog.rs`) | a queue of insertions and one of deletions per peer | `insert_*`, the two iterators | queues in order, no merged edit in them, no edit stuck | modelled, proved |
| run tree (`src/run_tree.rs`) | the leaves of the document: runs of characters, with tombstones | `insert`, `delete`, `merge_insertion`, `merge_deletion`, anchors | no character lost, doubled, reordered or revived; returned offsets right | modelled; what a document holds, in which order, what is deleted in it, the offsets returned, and where anchors resolve to, proved |
| `Gtree` (`src/gtree.rs`) | B-tree with cached lengths and a cursor | insertion and deletion of leaves, lookups, `from_leaves`, `append` | cached lengths, parents and cursor agree with the leaves; no leaf moves or is lost | modelled |
| run indices (`src/run_indices.rs`) | per peer and run: which leaves it was split into, in an array or a tree | `split`, `append`, `extend_last`, `move_len_*`, `idx_at_anchor` | every anchor is mapped to the leaf with its character; array and tree are one and the same sequence | modelled |
| edits (`src/insertion.rs`, `src/deletion.rs`, `src/text.rs`, `src/anchor.rs`) | immutable records | constructors | | modelled as records |
| snapshots (`replica.rs:405`, `src/encoded_replica.rs`) | the bytes of an encoded replica, as old as the user lets them get | `encode`, `decode` | going on from one is as safe as going on from a replica | modelled, clocks and backlog proved |
| encoding (`src/encode.rs`, the `encode` modules of `text`, `anchor`, `insertion`, `deletion`, `version_map`, `run_tree`, `gtree`, `backlog`, `replica`) | | `encode`, `decode` | decoding gives back what was encoded, and refuses what is cut short | modelled |
| helpers (`src/utils.rs`, `src/replica_id.rs`, `src/lib.rs`) | none | | | not modelled |

Interactions. A replica calls its run tree for every edit; the run tree changes
the leaves in the `Gtree` and mirrors each split and join in the run indices.
`integrate_*` compares an edit with the version and deletion maps and merges it,
puts it into the backlog, or drops it. The iterators over the backlog hold the
replica exclusively (`&mut`) until they are dropped. Replicas interact only
through the edits their users carry between them, in any order and after any
delay.

The hazards this brings are listed in `PROJECT.json`, each at its line.

## Modules

| module | what it models |
|---|---|
| `EditRun` | `EditRun`, the leaves: a run is an interval of one peer's characters with the clocks it was created under; the order of runs, splitting, deleting, which runs can be joined |
| `RunTree` | the document as the sequence of leaves, and every operation of `RunTree` on it as an operator: `Insert`, `Delete`, `MergeInsertion`, `MergeDeletion`, `CreateAnchor`, `ResolveAnchor` |
| `Replica` | the protocol: variables per replica, one action per public method and per step of an iterator, the users' buffers, the edits in transit; `Spec` and `FairSpec` |
| `ReplicaProperties` | type invariant, safety, action and liveness properties |
| `SharedText` | abstract: one order of all characters, and users who see the part of it they have |
| `ReplicaRefinement` | the one order rebuilt from the insertions, and `Replica` as a refinement of `SharedText` |
| `AnchorProperties` | what anchors promise |
| `Snapshots` | `Replica` with `encode` at any moment and `decode` under a new id at any later one |
| `CausalDelivery` | abstract: which edits have taken effect where; each once, after those of its sender and those it needs, also across copies |
| `SnapshotRefinement` | `Snapshots` as a refinement of `CausalDelivery`: the sets of edits the version and deletion maps stand for |
| `Encoding`, `ReplicaEncoding` | the binary format of edits, and of a whole replica: every encoder and its decoder |
| `EncodingProperties`, `SnapshotEncoding` | the edits, backlogs and snapshots the replicas really make, encoded and decoded |
| `Gtree` | the B-tree over `EditRun` leaves: nodes, cached lengths, cursor, and every way the code inserts, deletes, splits and joins |
| `RunIndices` | the table from anchors to leaves: fragments, splits, moved lengths |
| `FragmentList` | abstract: the fragments of one run as the sequence `RunIndices` has |
| `Fragments` | the array of fragments, the tree it turns into when it is full, and all operations on both; implements `FragmentList` |
| `RunStore` | `RunTree` as the code has it: its operations on `Gtree` and `RunIndices` together, run beside module `RunTree`'s list of leaves; `Spec` |
| `RunStoreProperties` | the assertions of the code's `assert_invariants`, and that store and list compute the same |
| `ReplicaInvariant`, `DocumentInvariant`, `OrderInvariant`, `DeletionInvariant`, `SnapshotInvariant`, `SavedDocuments` | the inductive invariants of the proofs |
| `RunTreeProofs` | lemmas: what each operation of `RunTree` does to the characters of a document of any length |
| `ReplicaProofs`, `DocumentProofs`, `OrderProofs`, `DeletionProofs`, `WalkProofs`, `SnapshotProofs`, `DeliveryProofs` | the theorems, checked by TLAPS |
| `MCReplica`, `MCBacklogs`, `MCSnapshots`, `MCRunStore`, `MCFragments` | the instances for TLC; constants are in the `.cfg` files |

Three pairs of abstract and detailed specification carry the structure:
`Replica` implements `SharedText` (what users see), `Snapshots` implements
`CausalDelivery` (what the clocks and the backlog guarantee), and `Fragments`
implements `FragmentList` (what the store relies on). `RunStore` in turn is run
beside `RunTree`, which `Replica` uses.

How the model corresponds to the code:

- **Characters.** A character is the pair (peer that inserted it, its number
  among all characters that peer ever inserted), which is what `Text` and
  `Anchor` are made of. Its letter is never looked at by the library.
- **Document.** `run_tree[r]` is the list of leaves in document order, with the
  fields of `EditRun`. The tree above the leaves shows in one place only: a
  tombstone is joined with a neighbour, or a remote continuation appended in
  place, only if the two leaves have the same parent. `RunTree` treats all
  leaves as children of one node, which is exact up to 32 leaves
  (`RUN_TREE_ARITY`); the instances of `Replica` have at most a dozen. Beyond
  that, `RunStore` shows that it makes no difference: the tree joins fewer
  leaves than the list, and both still hold the same characters and give the
  same anchors, offsets and ranges (`SameDocument`, `SameResults`).
- **Store.** A tree is a record of the two vectors `inodes` and `lnodes`, the
  root's index and the cursor, as in `Gtree`; an index is a position in its
  vector and is never reused. What an operation of the code returns as
  `Option<LeafIdx>` is in the model what it pushed to `lnodes`
  (`PushedLeaves`). The recursive closures of the code
  (`with_internal_mut_handle_split` and the like) are operators on trees, one
  per method and under its name.
- **Fragments.** `RunIndices` keeps the fragments of a run in a sequence.
  `Fragments` keeps them as the code does: an array, and from the moment it is
  full a `Gtree` built by `from_leaves`, a fragment being a leaf of its length.
  Its operations are those of `RunIndices`, so that the refinement lets the
  store use the simpler form.
- **The store's peers.** `RunStore` runs one replica's store. Its edits are the
  replica's own and those of the latest peer, which was forked from it some
  time ago and has received nothing since, so that all its edits are concurrent
  to the replica's. The peer itself is a list of leaves. Order of delivery and
  the backlog are the business of `Replica`.
- **merge_deletion** keeps a running offset into the tree, a running offset
  into the old text, a state and the leaf to visit next, while the leaves under
  it are split and joined. The model's `walk` has the same fields, and visits
  one leaf per step in the order of the code's branches.
- **Edits.** `insertions` and `deletions` are all edits ever sent. Any of them
  may be integrated at any replica at any time: delay, reordering and delivery
  of merged edits need no further state. `Redelivery` says whether an edit may
  also be handed over while it waits in the backlog. Loss is an edit that is
  never integrated.
- **Snapshots.** `Encode` adds a replica's state to the set `snapshots`;
  `Decode` makes a replica of any of them, as often as the user likes, at any
  later moment, under an id that was never used (as `replica_id.rs:10-16`
  demands). The run clock is not in a snapshot and starts at zero, as in the
  code. A crash of the peer that was saved is a replica that takes no further
  step; that it may also go on is the case a restart after a network partition
  looks like from outside. Edits the old peer sent after the snapshot reach the
  new one as remote edits, late or never.
- **Bytes.** A buffer is a sequence of digits. Integers are LEB128 with `Radix`
  in place of 128, small enough that lengths and clocks of the instances take
  one, two and three bytes. Hash maps are written in some order of their keys
  and its reverse, so any two keys in either order. The checksum is the encoded
  text itself, that is SHA-256 taken to be injective.
- **Backlog iterators.** The calls of `next` are split into steps: merge the
  first edit of the current queue, or go on to another queue. The order of the
  queues is that of a hash map, so any order. Between two calls of `next` the
  user may drop the iterator; a call that merges a deletion without a range
  goes on, which `silent` records.
- **Panics.** A failed lookup in the run indices, a wrong offset given to the
  tree and an edit that is queued already put the replica in `panicked`; it
  does nothing from then on. Whether `NoPanic` holds is checked.
- **The users** insert and delete anywhere (`InsertLens`, all ranges) and apply
  what the methods return, as `tests/common/mod.rs` does.

The operators named as mutants in `PROJECT.json` (`SortsAfterWithoutTieBreak`,
...) are plausible bugs of the code, kept beside the definition they change.
They are used by nothing; with one of them in place of its definition the
property it is listed with is violated.

## Checks

Run `tlc -config X.cfg M` in this directory. All instances are small, because a
state holds whole documents, but the hard cases all occur: two peers and two
insertions already give concurrent insertions at one place, an insertion inside
a concurrently deleted range, a continuation of a split run, and an edit that
overtakes what it depends on; three peers give ties among three runs and an
edit that becomes ready through a third peer's.

| run | instance | shows |
|---|---|---|
| `insertions` | 3 peers, 3 insertions | `OrderAgreement` (no two replicas ever order two characters differently, convergence's stronger form), `DocumentMatchesVersionMap`, the Lamport clock is ahead of all that was merged |
| `edits` | 1 peer forked into 2 at any time, 2 insertions, 2 deletions | convergence, the backlog's assertions, causality of deletions, no panic, the inductive invariant of documents, the anchors of all edits that can be merged are found, every anchor of every state follows its character at every replica, and `ImplementsSharedText` |
| `deletions` | 2 peers, text of 3, 1 insertion, 2 deletions | buffers equal documents; deletions remove exactly what they removed at their origin; the returned ranges are as documented; no step loses, reorders or revives a character |
| `recovery` | 2 ids, insertions of length 2, a snapshot, edits repeated at will | a replica restored from an old snapshot, beside the one it was taken from or instead of it, agrees with all others; every edit takes effect once, in causal order (`ImplementsCausalDelivery`); every edit that is sent is decoded as it was encoded |
| `saved` | 3 ids, an empty document, 2 insertions, 1 deletion, a snapshot or a fork at any moment | the inductive invariant of the clocks; no edit is stuck, backlogs in snapshots included; the bytes of every snapshot, with its tombstones and its backlog of an insertion or a deletion, give back the replica |
| `backlogs` | `Fairness`; 3 ids, an empty document, 3 insertions, or 1 insertion and 2 deletions, a fork at any moment | every edit is merged everywhere in the end, those too that become ready in a queue the iterator has passed; the bytes of a backlog give back its queues, of which a replica has up to two of a kind, with up to two insertions in one |
| `store` | arity 4; new and grown documents, two peers forked in turn, 1 to 3 edits | tree, cursor and table are consistent, leaves keep their order, store and list agree, tree and table survive being encoded and decoded |
| `fragments` | arity 4; runs in one fragment, in a full array, in trees of two and three levels | array and tree implement the sequence; the fragment at an offset is the same in all three; the tree's lengths, parents and the table's total agree |

`MaxInsertions` and `MaxDeletions` bound the edits made by all users together;
nothing else is bounded there but `MaxSnapshots`. `edits` begins with one
replica, so that the second one is forked before, between or after the edits.
`recovery` allows repeated delivery, which rules out `BacklogInvariants` and
`NoPanic` (see below), and in which copies of edits may block a backlog for
good; `saved` does not, which is why there are two runs that go on from
snapshots. That an iterator leaves an edit behind that is ready needs two queues
at one replica, so three replicas, and three insertions: `backlogs` has the
bounds of `pass_leaves_ready`, which shows that it happens, and forks.
`MaxMixedInsertions` bounds its insertions from the first deletion on, since
insertions alone fill several queues. `store` takes the smallest arity the code allows
(an inner node is split into halves of at least two), so that a dozen leaves
make three levels. Its `Histories` are places typed into before the run starts,
chosen so that the next two edits reach the hard cases: full nodes, every case
of `insert_two_in_inode`, splits that go up to a new root, deletions across
subtrees that split at both edges, both joins, a cursor moved by a split.
Afterwards `MaxLen` bounds the length of one insertion and `edits` the number
of edits. `fragments` starts from such histories too; its operations count
down, and the count is part of the abstract specification: an operation that
loses its effect is then not a stuttering step but a violation. Deadlock is not checked: when all edits are made and
merged there is nothing left to do.

**Refinements.** `ImplementsSharedText` is the strong list specification: there
is one order of all characters ever inserted that every user's text is a part
of, at every moment and including characters some users do not have or have
deleted. No replica holds that order. `OneOrder` rebuilds it from the edits
alone, in Lamport order, each insertion put right after the character it is
anchored to; that the replicas' trees, which see the insertions in other orders
and skip over runs with `Ord`, always show a part of it is what the run checks.
`ImplementsCausalDelivery` maps the version map and the deletion map to the set
of edits they count: a step of a replica adds one edit to one replica's set, or
none, and a deletion needs the insertions its sender had of the peers in its
version map.

**Fairness** (`Fairness` of module `Replica`). Users' edits and forks are not fair: they may stop at
any time. Delivery is: while some edit can be handed to some replica, one is in
the end, and since there are finitely many edits no more is needed. So is use of
the backlog: every user calls `backlogged_insertions` and `backlogged_deletions`
again and again, and users do not for ever drop iterators just when they have an
edit to give. A call of `next` returns (`NextQueue` is weakly fair). This is
what the documentation asks of users, nothing the library does by itself; the
library's part is that it then suffices, although an edit merged from one queue
can make the first edit of a queue ready that was passed already. Fairness is
strong because a replica whose iterator is held can receive nothing.

### Where code and documentation differ

Four runs expect a violation; each is a finding in `PROJECT.json`.

1. `repeat_panics`: an edit that waits in the backlog and is handed over again
   panics (`backlog.rs:108`, `:155`); the documentation of `integrate_*` says
   that it gives nothing.
2. `repeat_stale`: if that edit has become ready in the meantime it is merged,
   and its copy stays at the front of its queue, which it blocks for good.
   `assert_invariants` (`backlog.rs:89`) would fail from then on.
3. `missing_anchor`: `has_anchor` compares with `>=`, which is right for an
   anchor's left character and one too many for its right one: resolving an
   anchor to text that has not arrived panics where `None` is promised.
4. `pass_leaves_ready`: one pass of `backlogged_insertions` does not yield all
   insertions that are ready, depending on the order of a hash map.

## Proofs

For any set of ids, any initial text, any bounds and any lengths, from the named
assumptions in `Replica` and `Snapshots` only:

| module, theorem | states |
|---|---|
| `ReplicaProofs` | |
| `TypesAreCorrect` | `Spec => []TypeOK` |
| `ClocksAreCorrect` | `Spec => [](TypeOK /\ ClockInvariant)` |
| `LamportClocksAreAhead` | `Spec => []LamportClockIsAhead` |
| `DeletionsWaitForTheirText` | `Spec => []DeletionsAreCausal` |
| `NewRunsSortFirst` | `Spec => NewRunsAreNewest`, the guarantee in the comment at `replica.rs:962-968` |
| `BacklogIsInOrder` | `~Redelivery` implies `Spec => []BacklogInvariants`, the assertions of `Backlog::assert_invariants` |
| `DocumentProofs` | |
| `DocumentsAreCorrect` | `Spec => []DocumentInvariant` |
| `DocumentsMatchVersionMaps` | `Spec => []DocumentMatchesVersionMap` |
| `AnchorsOfAcceptedEditsAreFound` | `Spec => []AcceptedAnchorsAreFound` |
| `BacklogIsNeverStuck` | `~Redelivery` implies `Spec => []BacklogNeverStuck` |
| `OrderProofs` | |
| `TextHasOneOrder` | `Spec => []OrderInvariant` |
| `OrderIsAgreedOn` | `Spec => []OrderAgreement` |
| `DeletionProofs` | |
| `DeletionsHaveOneEffect` | `Spec => []DeletionInvariant` |
| `ReplicasConverge` | `Spec => []Convergence` |
| `DocumentsOnlyGrow` | `Spec => DocumentOnlyGrows` |
| `WalkProofs` | |
| `MergedRangesAreSeparate` | `Spec => []RangesAreSeparate` |
| `NothingPanics` | `~Redelivery` implies `Spec => []NoPanic` |
| `BuffersMatchDocuments` | `Spec => []BufferMatchesDocument` |
| `DeletionsAreComplete` | `Spec => []DeletionsTakeEffect` |
| `DeletionsAreSound` | `Spec => []OnlyDeletedTextIsLost` |
| `AnchorsKeepTheirPlace` | `Spec => []AnchorsFollowTheirCharacter` |
| `SnapshotProofs` | |
| `SnapshotsAreSafe` | `SnapshotSpec => []SnapshotInvariant` |
| `BacklogsAreRestoredInOrder` | `~Redelivery` implies `SnapshotSpec => [](BacklogInvariants /\ SavedBacklogs)` |
| `DeliveryIsCausal` | `SnapshotSpec => ImplementsCausalDelivery` |
| `ReplicasAreCausallyClosed` | `SnapshotSpec => []Delivery!CausallyClosed` |
| `RestoredTextIsCorrect` | `SnapshotSpec => []RestoredTextInvariant` |
| `RestoredDocumentsAreCorrect` | `SnapshotSpec => [](DocumentMatchesVersionMap /\ RangesAreSeparate /\ AcceptedAnchorsAreFound)` |
| `RestoredOrderIsAgreedOn` | `SnapshotSpec => []OrderAgreement` |
| `RestoredReplicasConverge` | `SnapshotSpec => []Convergence` |
| `RestoredDocumentsOnlyGrow` | `SnapshotSpec => DocumentOnlyGrows` |
| `RestoredBuffersMatchDocuments` | `SnapshotSpec => []BufferMatchesDocument` |
| `RestoredDeletionsAreRight` | `SnapshotSpec => [](DeletionsTakeEffect /\ OnlyDeletedTextIsLost)` |
| `RestoredAnchorsKeepTheirPlace` | `SnapshotSpec => []AnchorsFollowTheirCharacter` |
| `RestoredBacklogIsNeverStuck` | `~Redelivery` implies `SnapshotSpec => []BacklogNeverStuck` |
| `RestoredReplicasDoNotPanic` | `~Redelivery` implies `SnapshotSpec => []NoPanic` |
| `DeliveryProofs` | |
| `EditsAreCausallyClosed` | `Spec => []CausallyClosed`, of `CausalDelivery` alone |

*The argument.* `LamportClockIsAhead` is not inductive. When a replica merges
an insertion it merges the one that *starts where its count ends*; that this
leaves all merged insertions below the clock needs that the insertions of one
peer are disjoint intervals, so that nothing else becomes merged by the same
step. When a replica inserts, its own count moves, and no insertion of another
peer must suddenly count as merged; when one is forked, its counts are copied
except for its own, which must have been zero. Hence the conjuncts of
`ClockInvariant`: a peer has counted all it made (`InsertionsAreCounted`,
`DeletionsAreCounted`), its insertions are disjoint and its deletions numbered
apart, nothing is counted of a peer that does not exist yet, and nobody counts
more of a peer than the peer itself. `recovery` and `saved` check the same
formula with TLC, the latter as part of `SnapshotInvariant`.

The steps are first reduced to five shapes that touch the clocks (`Fork`,
`Inserts`, `Deletes`, `MergesInsertion`, `MergesDeletion`; lemma `ClockSteps`),
and the invariant is proved per shape and conjunct. `MergedLamport` makes the
clock at least `lam + 1` in both branches, which gives the strict inequality of
the documented guarantee.

`BacklogIsInOrder` adds the queues. Putting an edit at the place binary search
finds keeps a queue in order because the edits of one peer are disjoint
(`InsertionQueued`); merging one that is not queued leaves all queued ones
behind it (`InsertionPassed`); taking the first leaves the rest behind it
(`InsertionTaken`). A peer's own queue is empty at itself, since everything in
it would be counted (`BacklogInserted`). A fork copies queues and counts alike,
its own count being zero on both sides. Without `~Redelivery` the theorem is
false, as `repeat_stale` shows.

*Documents.* That a document holds the text its version map counts is not
inductive either: nothing in it says that the place an edit names is there, or
that a run appended to another one is its continuation. `DocumentInvariant`
speaks of *marks*, characters together with the clocks of the run they are in.
`DocumentsAreSentText` says that the marks of a document are those of the sent
texts the version map counts, and that the leaves of one run stand in the order
in which it was typed. `TextInvariant` says what it takes of the texts: those of
a peer are disjoint and without gaps, their timestamps never decrease, its run
clock is past them all, a text that continues a run is anchored to that run's
end, every replica has counted a text as a whole or not at all, and every edit
is anchored in text its sender had.

`RunTreeProofs` takes the operations apart. All changes of the tree are a splice
of the list of leaves; `LeafSpliced`, `LeafCut` and `PairReplaced` say what a
splice does to marks and order, and the rest shows that each operation is one:
`InsertAdds` and `MergeInsertionAdds` add the marks of one text and nothing
else, `DeleteKeepsDocument` and `MergeDeletionKeeps` keep all marks through
every split, tombstone and join. The offsets of leaves and the walk of
`merge_deletion` are recursive functions, reasoned about by induction on a set
of numbers (`Induction`, `LeastNumber`): the library's principles with an
operator parameter cannot be used, well-founded relations as sets can.
`HasLeafIffMark` turns a lookup into a statement about marks, which is what
makes the lookups of accepted edits succeed.

`BacklogIsNeverStuck` is a statement about many peers at once: of all insertions
a replica lacks take one with the least Lamport timestamp, and of those of its
peer the first. Its anchor is in text of a lower timestamp or in its own peer's
earlier text, both of which the replica has (`OldestCanBeMerged`), so it can be
merged, and is the first in its queue. If no insertion is lacking, the first
deletion lacking of any peer can be merged.

*Order.* That two replicas order two characters alike cannot be inductive: it
says nothing of a character one of them will merge later. `OrderInvariant` says
that there is *one* strict order of all marks ever sent which every document is
a part of (`DocumentsAreInOrder`). No replica holds it and no operator computes
it: the invariant says that one exists. What makes it possible to extend is the
place of a mark in it. A mark is typed after another one, the one before it in
its run or the one its text is anchored to (`IsTypedAfter`), and *everything
between the two sorts before it* by the order of runs, in whatever document it
is (`PlacesAreKept`, `FirstPlacesAreKept`).

A new text is put into the order as far back as it may go: in front of it is
every mark, of any replica, that is not at or behind one that stands after the
anchor and that the text does not sort after (`FrontOf`). Text the inserter has
not seen may sort either way; of the text it has, all that stands behind the
anchor sorts after the new run, which has the highest timestamp there
(`SomeMarkSortsBefore`, where a continued run needs the oldest mark between the
two), so the document of the inserter is a part of the new order
(`InsertedTextFits`), and the new marks and the old ones keep their places
(`PlacesAreKeptNext`). A merged insertion has its place in the order already,
and the walk of `merge_insertion` must find it in a document that lacks some of
the text around it and has more: what it skips is not behind the text, and what
it stops at, or the mark that was typed after, would have to sort before the
text if it stood in front (`MergedTextFits`). Deletions, splits and joins keep
marks and their order, and a fork copies a document. `OrderGrows` says of each
step that the next order agrees with the one before.

*Deletions.* That equal maps mean equal tombstones says nothing of replicas
whose maps differ, so it is not inductive. `DeletionInvariant` says instead, of
each document on its own, that its tombstones are *what the deletions merged
there name* (`DeletionsHaveTheirEffect`). What a deletion names (`DeletedBy`) is
said without any document: the marks its version map counts from the one it
starts at to the one it ends at, in the one order of all that was sent. The
invariant therefore speaks of the same order as `OrderInvariant`, and adds that
a deletion's two ends are in the text, one not after the other
(`RangesAreInOrder`).

`DeleteDeletes` shows that a local deletion, whichever of the code's branches it
takes, makes tombstones of exactly that; a tombstone it passes on the way was
one before and stays one, so it does not matter that the version map it carries
may leave out its author. `MergeDeletionDeletes` shows the same of the walk
of `merge_deletion`, leaf by leaf from the start anchor to the end anchor: the
leaf of the start is cut, inner leaves the sender knew are deleted whole or up to
the count it knew, the rest is passed (`IsDeleting` is the walk's invariant), and
every join of tombstones keeps the others in place. Insertions keep the tombstones
(`InsertKeepsDead`, `MergeInsertionKeepsDead`). As text is added, what a deletion
names stays the same: the order is only extended (`IsGrownOrder`) and new text is
past the counts that old deletions carry (`SameDeleted`). A deletion that
is merged adds itself to the merged ones and what it names to the tombstones
(`EffectsAdded`); a fork copies both.

Convergence follows: equal version maps mean equal marks, equal deletion maps
mean the same deletions and so the same tombstones, and the order is agreed on.
`Convergence` is stated as equal sets of visible characters ordered alike, which,
each character standing in a document once, is equality of the texts; so stated
it does not need texts laid out as sequences.
`DocumentsOnlyGrow` follows from the two orders before and after a step.

*The walk of a deletion.* `merge_deletion` keeps an offset as it goes from leaf
to leaf, while it splits and joins the leaves it walks over. `WalkOK` says of
every state of the walk (`VisitFirstLeaf`, `VisitLeaf`) that the offset is the
one of the leaf it stands at (`IsRightOffset`, the `debug_assert`s of
`delete_range_in_leaf`), that the ranges found so far are apart, and that the
range being collected begins behind the end of the last one (`OffsetsOK`). That
is not so after a leaf deleted up to the count the sender knew: the walk stands
right behind the range it closed. It stands then at visible text the sender did
not know (`IsAtRest`), which it passes before it can open the next range; that is
why two ranges are never adjacent. `RangeMovesOn` shows that the index and
offset after `delete_range_in_leaf` are those of the rest of the leaf
whatever neighbours a new tombstone is joined with. That the walk ends at the
end anchor at all, and not behind the last leaf, is `IsDeleting` of
`DeletionProofs`; `IsMerging` is the two together. `NothingPanics` adds that the
anchors are found (`AnchorsOfAcceptedEditsAreFound`). Its assumption is
`~Redelivery`, since an edit that waits and is handed over again does panic
(`repeat_panics`); `MergedRangesAreSeparate` does not need it.

*The user's text.* `BufferInvariant` says of every live replica that the user,
who has applied nothing but the offsets and ranges the methods returned, has the
text of the document. It is inductive with the two invariants above beside it;
what is hard is that each operation does to the text of the document what the
user does to the buffer. `DocumentProofs` proves the laws of texts: the text of
a document (`VisibleChars`, a recursive function over the leaves) is that of the
leaves before a place, then that of the leaves behind it (`TextOfConcat`,
`TextAroundLeaf`), and a splice replaces the text of a leaf by that of its
pieces (`TextOfSplice`). An offset in a leaf that can be seen is one in the text
(`TextAroundOffset`), which gives `InsertedText`, `MergedInsertionText` and
`DeletedText`: a new run put between leaves, into a split leaf or at the end of
the one it continues inserts its text at the offset returned, and a range
deleted in a leaf or over many leaves is cut out of the text, whichever
tombstones are joined.

A merged deletion returns several ranges, all in the offsets of the text
before, while `merge_deletion` changes the tree leaf by leaf. In each state of
the walk the old text is in three parts (`IsTextAt`): what the walk has kept or
noted, the text of the range being collected, and the rest. The text of the tree
is the first part without the ranges noted so far, followed by the rest
(`TextOK`): what is collected is gone from the tree already but not yet from
the ranges. Closing a range moves the middle part into the first
(`TextOfEndedRange`), and `RemoveRanges` on the ranges gives the text of the
tree because ranges are removed from the last one on, each behind all that are
left (`RangesRemovedInFront`, `MiddleRemoved`). One lemma for each way a leaf
can be passed, deleted or cut (`TextOfFirstLeaf`, `TextOfInnerLeaf`,
`TextOfLastLeaf`) and the induction over the leaves (`WalksKeepText`) give
`MergedDeletionText`. These rest on the offsets and the separate ranges of
`WalkOK`, without which neither the cut nor the order of removal would be right.

*What users removed.* `DeletionsTakeEffect` and `OnlyDeletedTextIsLost` compare
tombstones with what users saw disappear (`removed`), while `DeletionInvariant`
compares them with what deletions name, and the two differ: the range of a
deletion can run over text that is deleted already, which it names but does not
remove. `RemovalInvariant` is what lies between. What a deletion removed where it
was made is named by it, and *all that any deletion names somebody has removed*
(`RemovalsAreNamed`), under the same one order as before; each replica's removals
are counted by its own deletion map (`RemovalsAreCounted`). A new deletion
removes what it names except what was a tombstone at its user
(`RemovesWhatItNames`), and a tombstone is named by a deletion merged there, so
removed already (`TombstonesAreRemoved`). That what is cut out of the text
between two offsets is what becomes a tombstone needs the text as a sequence
without repetitions (`TextHasNoRepeats`, `CutTextIsDeleted`). A merged deletion
then makes tombstones of all it names, hence of all it removed; and a tombstone
is named by some deletion, hence was removed.

*Anchors.* `AnchorsFollowTheirCharacter` speaks of the number of visible
characters before a place, `create_anchor` and `resolve_anchor` of offsets that
are summed over leaves. `CreatedAnchor` shows that the leaf `create_anchor`
stops at has the visible character next to the offset, over any tombstones in
between when the bias is to the right (`NextVisible`); `ResolvedAnchor` that
`resolve_anchor` finds the leaf that has this character in another document and
adds its place in the leaf to the offset of the leaf; and `VisiblePlaceIsCounted`
that this sum is a number of characters, those of the text up to a place, each of
which stands there once (`CountOfPlaces`). The theorem follows from
`DocumentInvariant` and `BufferInvariant`, with no invariant of its own: an
anchor is made of the current state and holds nothing but the clock of a run and
an offset in it, both of which every document agrees on.

*Snapshots.* The clocks of a snapshot never change while those of the replicas
do. `SnapshotInvariant` says of every snapshot what `ClockInvariant` says of
every replica, measured against all that was sent since it was taken. It stays
true because replicas only learn (`ReplicasOnlyLearn`): what a peer has counted
of its own edits stays counted, and an edit that is new starts past that count,
so no snapshot counts it by accident (`SnapshotStaysTrue`). A fork and a decode
are then the same step to the clocks, a new id with clocks that satisfy the
invariant; lemma `ClocksJoin` is proved once for both.

*Documents that are restored.* All that is proved of documents under `Spec` holds
under `SnapshotSpec` too. A decoded document may be one that no replica has any
more, so the invariant must speak of the snapshots: `SavedDocuments` says of each
what `DocumentInvariant` says of a replica, and that its tombstones are those of
the deletions it counts. The order of text is the same for both, and cannot be
chosen again when a snapshot is decoded: `RestoredTextInvariant` asks for *one*
order of everything sent that all replicas and all snapshots are a part of
(`IsOrderOfAll`). While replicas go on, it is extended and never changed
(`RemovalsGrow`), and what is added is past the clocks of every snapshot
(`NewTextIsUncounted`), so a snapshot keeps its document, its place in the order
and its tombstones (`GoodSnapshotStays`). A snapshot that is taken is a replica
as it is; a decode sends nothing, so the order stays, and the new replica has
the snapshot's part of it (`IsRestored`, `EditsRestored`). The theorems then
follow from the lemmas the ones about `Spec` follow from.

*Causal delivery.* The refinement maps clocks to sets of edits, so that each
step is an equation between sets. An insertion that is merged adds exactly one
edit, because the insertions of its peer are disjoint and the count moves from
its start to its end; nothing else is counted by the same step. A deletion adds
one because deletions are numbered apart. What it needs does not change while
others insert: the version map it carries counts none of what is inserted later
(`NeedsAreSettled`). Copies stay what they were for the same reason
(`CopiesStay`). `DeliveryProofs` shows what the abstract specification is worth
without looking at clocks, and `ReplicasAreCausallyClosed` instantiates it.

*Only model-checked.* `ImplementsSharedText`, which needs the texts of any two
replicas related as sequences and not only the text of one to its buffer; and
`SnapshotsAreRestored`, which is about bytes. The store, the fragments and the
encodings are only model-checked, since their modules need recursive operators.
Liveness under fairness is out of the prover's reach.

## Not modelled

- `debug` views, statistics, and the serde adapters, which hand the bytes of
  `encode` to another format.
- Integers that do not fit or are not minimal in their encoding: the decoders'
  checks for them are not reached by bytes that an encoder wrote, whole or cut
  short. Bytes changed on the way are found by the checksum, which is taken to
  be injective.
- Integer width: `Length` and the clocks are machine words that count characters
  and edits of a document in memory, and cannot overflow in practice.
- Reuse of an id by a second replica, which the documentation forbids; a mutant
  of `Decode` does it, and loses convergence.
- Range arithmetic, hashing and re-exports (`src/utils.rs`,
  `src/replica_id.rs`, `src/lib.rs`), which keep no state and decide nothing.

## What is left

The parts of the library that keep state are all modelled. What could be added
is a proof of `ImplementsSharedText`. The order `OrderInvariant` says exists
would have to be the one that `ReplicaRefinement` computes, and the positions at
which users edit would have to be positions in it.
