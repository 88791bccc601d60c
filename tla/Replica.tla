------------------------------- MODULE Replica -------------------------------
(***************************************************************************)
(* Several replicas of one document, the peers that edit it, and the edits *)
(* they send each other (src/src/replica.rs, backlog.rs, version_map.rs).  *)
(*                                                                         *)
(* A replica is single-threaded: each public method is one action.  The    *)
(* library neither sends nor receives; the edits its methods return reach  *)
(* the other peers in any order, after any delay, once or, if Redelivery,  *)
(* any number of times.                                                    *)
(***************************************************************************)
EXTENDS RunTree

CONSTANTS
    ReplicaIds,      \* ids of the replicas that may ever exist
    Creator,         \* the one made by Replica::new ...
    InitialLen,      \* ... from a buffer of this length
    InitialPeers,    \* the replicas forked before any edit is made
    InsertLens,      \* lengths of the texts the users insert
    MaxInsertions,   \* bound: insertions made by all users together
    MaxDeletions,    \* bound: deletions made by all users together
    Redelivery       \* whether the transport may repeat an edit

ASSUME ReplicaIdsAssumption == ReplicaIds \subseteq Nat \ {0}
ASSUME InitialAssumption ==
    /\ Creator \in ReplicaIds
    /\ InitialLen \in Nat
    /\ InitialPeers \subseteq ReplicaIds \ {Creator}
ASSUME InsertLensAssumption == InsertLens \subseteq Nat \ {0}
ASSUME BoundsAssumption == MaxInsertions \in Nat /\ MaxDeletions \in Nat
ASSUME RedeliveryAssumption == Redelivery \in BOOLEAN

VARIABLES
    replicas,       \* the replicas made so far
    run_tree,       \* per replica: its document
    run_clock,      \* per replica: runs it has started
    lamport_clock,  \* per replica: next Lamport timestamp
    version_map,    \* per replica and inserter: characters merged
    deletion_map,   \* per replica and deleter: deletions merged
    insertions_backlog, \* per replica and inserter: queue of insertions
    deletions_backlog,  \* per replica and deleter: queue of deletions
    iterator,       \* per replica: the backlog iterator its user holds
    buffer,         \* per replica: the text its user keeps
    panicked,       \* the replicas whose code has panicked
    insertions,     \* every insertion ever sent
    deletions,      \* every deletion ever sent
    removed         \* history: what each deletion removed where it was made

tree_vars == <<run_tree, buffer>>
clock_vars == <<run_clock, lamport_clock, version_map, deletion_map>>
backlog_vars == <<insertions_backlog, deletions_backlog, iterator>>
sent_vars == <<insertions, deletions, removed>>
vars == <<replicas, tree_vars, clock_vars, backlog_vars, panicked, sent_vars>>

------------------------------------------------------------------------------
(* The backlog iterators hold the replica exclusively until dropped.  One  *)
(* is silent while a call of its next goes on because the deletion it has  *)
(* just merged removed nothing.                                            *)
NoIterator == [kind |-> "none", current |-> 0, rest |-> {}, silent |-> FALSE]

Active(r) == r \in replicas \ panicked

Idle(r) == Active(r) /\ iterator[r] = NoIterator

(* A queue of the backlog holds the edits of one replica in the order they *)
(* were made: insertions by start, deletions by timestamp.                 *)
Starts(queue) == [k \in DOMAIN queue |-> queue[k].start]

Timestamps(queue) == [k \in DOMAIN queue |-> queue[k].ts]

IsBackloggedInsertion(r, m) ==
    \E k \in DOMAIN insertions_backlog[r][m.by] :
        insertions_backlog[r][m.by][k].start = m.start

IsBackloggedDeletion(r, d) ==
    \E k \in DOMAIN deletions_backlog[r][d.by] :
        deletions_backlog[r][d.by][k].ts = d.ts

(* LamportClock::highest and LamportClock::merge.                          *)
HighestLamport(clock) == IF clock = 0 THEN 0 ELSE clock - 1

(* Mutant: the clock does not move past a timestamp it equals.             *)
MergedLamportIfNewer(clock, remote) ==
    IF remote > clock THEN remote + 1 ELSE clock

MergedLamport(clock, remote) == IF remote >= clock THEN remote + 1 ELSE clock

(* Mutant: the queue is sorted the other way round.                        *)
IsPlaceInReverse(key, keys, p) ==
    \A k \in DOMAIN keys : IF k < p THEN keys[k] > key ELSE key > keys[k]

(* Where binary search says a key that is not there belongs.               *)
IsPlaceOf(key, keys, p) ==
    \A k \in DOMAIN keys : IF k < p THEN keys[k] < key ELSE key < keys[k]

HasMergedInsertion(r, m) == version_map[r][m.by] > m.start

HasMergedDeletion(r, d) == deletion_map[r][d.by] >= d.ts

(* BaseMap::get: an id the map has no entry for counts as zero.            *)
VersionOf(r, id) == IF id \in ReplicaIds THEN version_map[r][id] ELSE 0

(* Mutant: an anchor at the very end of what is known does not count.      *)
HasAnchorStrictly(r, anchor) == VersionOf(r, anchor.id) > anchor.offset

HasAnchor(r, anchor) == VersionOf(r, anchor.id) >= anchor.offset

CanMergeInsertion(r, m) ==
    /\ version_map[r][m.by] = m.start
    /\ HasAnchor(r, m.anchor)

(* Mutant: only the order of the sender's deletions is waited for.         *)
CanMergeDeletionInOrder(r, d) == deletion_map[r][d.by] + 1 = d.ts

CanMergeDeletion(r, d) ==
    /\ deletion_map[r][d.by] + 1 = d.ts
    /\ \A a \in ReplicaIds : version_map[r][a] >= d.version_map[a]

------------------------------------------------------------------------------
(* What the user does with the edits the methods return.                   *)
TextOf(m) ==
    [k \in 1 .. m.end - m.start |-> [id |-> m.by, at |-> m.start + k - 1]]

InsertText(text, offset, new) ==
    SubSeq(text, 1, offset) \o new \o SubSeq(text, offset + 1, Len(text))

RemoveRange(text, range) ==
    SubSeq(text, 1, range.start) \o SubSeq(text, range.end + 1, Len(text))

(* The ranges are all in the offsets of the old text: last one first.      *)
RemoveRanges(text, ranges) ==
    LET left[n \in 0 .. Len(ranges)] ==
          IF n = 0 THEN text
          ELSE RemoveRange(left[n - 1], ranges[Len(ranges) + 1 - n])
    IN  left[Len(ranges)]

------------------------------------------------------------------------------
(* Replica::new makes the first replica; the initial peers are forks of it *)
(* made before any edit.                                                   *)
InitialRun == EditRunRecord(Creator, 0, InitialLen, 0, 0)

Init ==
    /\ replicas = {Creator} \cup InitialPeers
    /\ run_tree = [r \in ReplicaIds |-> <<InitialRun>>]
    /\ run_clock = [r \in ReplicaIds |-> IF r = Creator THEN 1 ELSE 0]
    /\ lamport_clock = [r \in ReplicaIds |-> 1]
    /\ version_map =
         [r \in ReplicaIds |->
            [a \in ReplicaIds |-> IF a = Creator THEN InitialLen ELSE 0]]
    /\ deletion_map = [r \in ReplicaIds |-> [a \in ReplicaIds |-> 0]]
    /\ insertions_backlog = [r \in ReplicaIds |-> [a \in ReplicaIds |-> <<>>]]
    /\ deletions_backlog = [r \in ReplicaIds |-> [a \in ReplicaIds |-> <<>>]]
    /\ iterator = [r \in ReplicaIds |-> NoIterator]
    /\ buffer = [r \in ReplicaIds |-> RunChars(InitialRun)]
    /\ panicked = {}
    /\ insertions = {}
    /\ deletions = {}
    /\ removed = [r \in ReplicaIds |-> <<>>]

(* A new replica starts from everything another one has, its backlog and   *)
(* its user's buffer included, with a clock of its own for its characters, *)
(* its runs and its deletions.                                             *)
Fork(r, new) ==
    /\ Idle(r)
    /\ new \in ReplicaIds \ replicas
    /\ replicas' = replicas \cup {new}
    /\ run_tree' = [run_tree EXCEPT ![new] = run_tree[r]]
    /\ run_clock' = [run_clock EXCEPT ![new] = 0]
    /\ lamport_clock' = [lamport_clock EXCEPT ![new] = lamport_clock[r]]
    /\ version_map' =
         [version_map EXCEPT ![new] = [version_map[r] EXCEPT ![new] = 0]]
    /\ deletion_map' =
         [deletion_map EXCEPT ![new] = [deletion_map[r] EXCEPT ![new] = 0]]
    /\ insertions_backlog' =
         [insertions_backlog EXCEPT ![new] = insertions_backlog[r]]
    /\ deletions_backlog' =
         [deletions_backlog EXCEPT ![new] = deletions_backlog[r]]
    /\ buffer' = [buffer EXCEPT ![new] = buffer[r]]
    /\ UNCHANGED <<iterator, panicked, sent_vars>>

(* The user inserts len characters at an offset and sends the insertion.   *)
(* An empty insertion is a no-op that changes nothing.                     *)
Inserted(r, offset, len) ==
    LET start == version_map[r][r]
        text == [id |-> r, start |-> start, end |-> start + len]
        result == Insert(run_tree[r], offset, text, run_clock[r],
                         lamport_clock[r])
        run_clock_r == IF result.new THEN run_clock[r] + 1 ELSE run_clock[r]
        lamport_r == IF result.new THEN lamport_clock[r] + 1
                     ELSE lamport_clock[r]
        insertion == [by |-> r, start |-> start, end |-> start + len,
                      anchor |-> result.anchor,
                      ts |-> IF run_clock_r = 0 THEN 0 ELSE run_clock_r - 1,
                      lam |-> HighestLamport(lamport_r)]
    IN  /\ Idle(r)
        /\ Cardinality(insertions) < MaxInsertions
        /\ run_tree' = [run_tree EXCEPT ![r] = result.runs]
        /\ run_clock' = [run_clock EXCEPT ![r] = run_clock_r]
        /\ lamport_clock' = [lamport_clock EXCEPT ![r] = lamport_r]
        /\ version_map' = [version_map EXCEPT ![r][r] = start + len]
        /\ buffer' = [buffer EXCEPT ![r] =
                        InsertText(@, offset, TextOf(insertion))]
        /\ insertions' = insertions \cup {insertion}
        /\ UNCHANGED <<replicas, deletion_map, backlog_vars, panicked,
                       deletions, removed>>

(* The user deletes the characters from..to and sends the deletion, which  *)
(* carries how much of each deleted inserter's text the replica has.       *)
Deleted(r, from, to) ==
    LET result == Delete(run_tree[r], from, to)
        deletion == [by |-> r, ts |-> deletion_map[r][r] + 1,
                     start |-> result.start, end |-> result.end,
                     version_map |->
                       [a \in ReplicaIds |->
                          IF a \in result.ids \cup {r}
                          THEN version_map[r][a] ELSE 0]]
        range == [start |-> from, end |-> to]
    IN  /\ Idle(r)
        /\ Cardinality(deletions) < MaxDeletions
        /\ run_tree' = [run_tree EXCEPT ![r] = result.runs]
        /\ deletion_map' = [deletion_map EXCEPT ![r][r] = @ + 1]
        /\ buffer' = [buffer EXCEPT ![r] = RemoveRange(@, range)]
        /\ deletions' = deletions \cup {deletion}
        /\ removed' = [removed EXCEPT ![r] =
                         Append(@, ToSet(SubSeq(buffer[r], from + 1, to)))]
        /\ UNCHANGED <<replicas, run_clock, lamport_clock, version_map,
                       backlog_vars, panicked, insertions>>

------------------------------------------------------------------------------
(* Merging a remote edit, once it is known that it can be merged.  A leaf  *)
(* that is looked up and missing, or a wrong offset given to the tree, is  *)
(* a panic.                                                                *)
MergeUncheckedInsertion(r, m) ==
    LET result == MergeInsertion(run_tree[r], m)
    IN  IF m.anchor = ZeroAnchor \/ HasLeafAt(run_tree[r], m.anchor, "left")
        THEN /\ run_tree' = [run_tree EXCEPT ![r] = result.runs]
             /\ version_map' = [version_map EXCEPT ![r][m.by] =
                                  @ + (m.end - m.start)]
             /\ lamport_clock' = [lamport_clock EXCEPT ![r] =
                                    MergedLamport(@, m.lam)]
             /\ buffer' = [buffer EXCEPT ![r] =
                             InsertText(@, result.offset, TextOf(m))]
             /\ UNCHANGED <<run_clock, deletion_map, panicked>>
        ELSE /\ panicked' = panicked \cup {r}
             /\ UNCHANGED <<tree_vars, clock_vars>>

MergeUncheckedDeletion(r, d) ==
    LET result == MergeDeletion(run_tree[r], d)
    IN  IF /\ HasLeafAt(run_tree[r], d.start, "right")
           /\ HasLeafAt(run_tree[r], d.end, "left")
           /\ result.sound
        THEN /\ run_tree' = [run_tree EXCEPT ![r] = result.runs]
             /\ deletion_map' = [deletion_map EXCEPT ![r][d.by] = d.ts]
             /\ buffer' = [buffer EXCEPT ![r] =
                             RemoveRanges(@, result.ranges)]
             /\ UNCHANGED <<run_clock, lamport_clock, version_map, panicked>>
        ELSE /\ panicked' = panicked \cup {r}
             /\ UNCHANGED <<tree_vars, clock_vars>>

BacklogInsertion(r, m) ==
    LET queue == insertions_backlog[r][m.by]
    IN  \/ /\ IsBackloggedInsertion(r, m)
           /\ panicked' = panicked \cup {r}
           /\ UNCHANGED <<tree_vars, clock_vars, backlog_vars>>
        \/ /\ ~IsBackloggedInsertion(r, m)
           /\ \E p \in 1 .. Len(queue) + 1 :
                /\ IsPlaceOf(m.start, Starts(queue), p)
                /\ insertions_backlog' = [insertions_backlog EXCEPT
                                            ![r][m.by] = InsertAt(@, p, m)]
           /\ UNCHANGED <<tree_vars, clock_vars, deletions_backlog, iterator,
                          panicked>>

BacklogDeletion(r, d) ==
    LET queue == deletions_backlog[r][d.by]
    IN  \/ /\ IsBackloggedDeletion(r, d)
           /\ panicked' = panicked \cup {r}
           /\ UNCHANGED <<tree_vars, clock_vars, backlog_vars>>
        \/ /\ ~IsBackloggedDeletion(r, d)
           /\ \E p \in 1 .. Len(queue) + 1 :
                /\ IsPlaceOf(d.ts, Timestamps(queue), p)
                /\ deletions_backlog' = [deletions_backlog EXCEPT
                                           ![r][d.by] = InsertAt(@, p, d)]
           /\ UNCHANGED <<tree_vars, clock_vars, insertions_backlog, iterator,
                          panicked>>

(* An edit reaches a replica.  An edit it has merged before changes        *)
(* nothing.  A transport that does not repeat itself does not hand over an *)
(* edit that waits in the backlog either.                                  *)
IntegrateInsertion(r, m) ==
    /\ Idle(r)
    /\ ~HasMergedInsertion(r, m)
    /\ IsBackloggedInsertion(r, m) => Redelivery
    /\ \/ /\ CanMergeInsertion(r, m)
          /\ MergeUncheckedInsertion(r, m)
          /\ UNCHANGED backlog_vars
       \/ /\ ~CanMergeInsertion(r, m)
          /\ BacklogInsertion(r, m)
    /\ UNCHANGED <<replicas, sent_vars>>

IntegrateDeletion(r, d) ==
    /\ Idle(r)
    /\ ~HasMergedDeletion(r, d)
    /\ IsBackloggedDeletion(r, d) => Redelivery
    /\ \/ /\ CanMergeDeletion(r, d)
          /\ MergeUncheckedDeletion(r, d)
          /\ UNCHANGED backlog_vars
       \/ /\ ~CanMergeDeletion(r, d)
          /\ BacklogDeletion(r, d)
    /\ UNCHANGED <<replicas, sent_vars>>

------------------------------------------------------------------------------
(* The iterators over the backlog.  The queues are visited once each, in   *)
(* the arbitrary order of a hash map; a queue is left for good when its    *)
(* first edit cannot be merged.  Empty queues are passed over unseen.      *)
Queues(backlog) == {a \in ReplicaIds : backlog[a] # <<>>}

(* Mutant: the iterator ends after its first queue.                        *)
StartIteratorOfOneQueue(r, kind, backlog) ==
    /\ Idle(r)
    /\ \E a \in Queues(backlog) :
         iterator' = [iterator EXCEPT ![r] =
            [kind |-> kind, current |-> a, rest |-> {}, silent |-> FALSE]]
    /\ UNCHANGED <<replicas, tree_vars, clock_vars, insertions_backlog,
                   deletions_backlog, panicked, sent_vars>>

StartIterator(r, kind, backlog) ==
    /\ Idle(r)
    /\ \E a \in Queues(backlog) :
         iterator' = [iterator EXCEPT ![r] =
            [kind |-> kind, current |-> a, rest |-> Queues(backlog) \ {a},
             silent |-> FALSE]]
    /\ UNCHANGED <<replicas, tree_vars, clock_vars, insertions_backlog,
                   deletions_backlog, panicked, sent_vars>>

BackloggedInsertions(r) ==
    StartIterator(r, "insertions", insertions_backlog[r])

BackloggedDeletions(r) ==
    StartIterator(r, "deletions", deletions_backlog[r])

CanMergeFirst(r) ==
    LET a == iterator[r].current
        queue == IF iterator[r].kind = "insertions"
                 THEN insertions_backlog[r][a] ELSE deletions_backlog[r][a]
    IN  /\ queue # <<>>
        /\ IF iterator[r].kind = "insertions"
           THEN CanMergeInsertion(r, Head(queue))
           ELSE CanMergeDeletion(r, Head(queue))

NextBackloggedInsertion(r) ==
    LET a == iterator[r].current
    IN  /\ Active(r) /\ iterator[r].kind = "insertions" /\ CanMergeFirst(r)
        /\ MergeUncheckedInsertion(r, Head(insertions_backlog[r][a]))
        /\ insertions_backlog' =
             [insertions_backlog EXCEPT ![r][a] = Tail(@)]
        /\ UNCHANGED <<replicas, deletions_backlog, iterator, sent_vars>>

NextBackloggedDeletion(r) ==
    LET a == iterator[r].current
    IN  /\ Active(r) /\ iterator[r].kind = "deletions" /\ CanMergeFirst(r)
        /\ MergeUncheckedDeletion(r, Head(deletions_backlog[r][a]))
        /\ deletions_backlog' =
             [deletions_backlog EXCEPT ![r][a] = Tail(@)]
        /\ iterator' = [iterator EXCEPT ![r].silent =
             MergeDeletion(run_tree[r], Head(deletions_backlog[r][a])).ranges
               = <<>>]
        /\ UNCHANGED <<replicas, insertions_backlog, sent_vars>>

(* Mutant: the iterator is not cleared after the last queue.               *)
NextQueueWithoutEnd(r) ==
    /\ Active(r) /\ iterator[r] # NoIterator /\ ~CanMergeFirst(r)
    /\ \/ \E a \in iterator[r].rest :
            iterator' = [iterator EXCEPT ![r] =
              [kind |-> @.kind, current |-> a, rest |-> @.rest \ {a},
               silent |-> @.silent]]
       \/ /\ iterator[r].rest = {}
          /\ iterator' = [iterator EXCEPT ![r].current = 0]
    /\ UNCHANGED <<replicas, tree_vars, clock_vars, insertions_backlog,
                   deletions_backlog, panicked, sent_vars>>

NextQueue(r) ==
    /\ Active(r) /\ iterator[r] # NoIterator /\ ~CanMergeFirst(r)
    /\ \/ \E a \in iterator[r].rest :
            iterator' = [iterator EXCEPT ![r] =
              [kind |-> @.kind, current |-> a, rest |-> @.rest \ {a},
               silent |-> @.silent]]
       \/ /\ iterator[r].rest = {}
          /\ iterator' = [iterator EXCEPT ![r] = NoIterator]
    /\ UNCHANGED <<replicas, tree_vars, clock_vars, insertions_backlog,
                   deletions_backlog, panicked, sent_vars>>

(* The user may stop between two calls of next.                            *)
DropIterator(r) ==
    /\ Active(r) /\ iterator[r] # NoIterator /\ CanMergeFirst(r)
    /\ ~iterator[r].silent
    /\ iterator' = [iterator EXCEPT ![r] = NoIterator]
    /\ UNCHANGED <<replicas, tree_vars, clock_vars, insertions_backlog,
                   deletions_backlog, panicked, sent_vars>>

------------------------------------------------------------------------------
InsertedAnywhere(r) ==
    \E offset \in 0 .. DocumentLen(run_tree[r]), len \in InsertLens :
        Inserted(r, offset, len)

DeletedAnywhere(r) ==
    \E from, to \in 0 .. DocumentLen(run_tree[r]) :
        from < to /\ Deleted(r, from, to)

Next ==
    \E r \in ReplicaIds :
        \/ \E new \in ReplicaIds : Fork(r, new)
        \/ InsertedAnywhere(r)
        \/ DeletedAnywhere(r)
        \/ \E m \in insertions : IntegrateInsertion(r, m)
        \/ \E d \in deletions : IntegrateDeletion(r, d)
        \/ BackloggedInsertions(r)
        \/ BackloggedDeletions(r)
        \/ NextBackloggedInsertion(r)
        \/ NextBackloggedDeletion(r)
        \/ NextQueue(r)
        \/ DropIterator(r)

Spec == Init /\ [][Next]_vars

(* While some edit can be handed over, one is in the end, and while some   *)
(* iterator can give an edit, one does: no more is asked of the transport  *)
(* and of users who drop iterators, since there are finitely many edits.   *)
(* Each user goes through both backlogs again and again, and each call of  *)
(* next returns.  Fairness is strong where an iterator that is held        *)
(* disables the action meanwhile.                                          *)
Fairness ==
    /\ SF_vars(\E r \in ReplicaIds :
                  \/ \E m \in insertions : IntegrateInsertion(r, m)
                  \/ \E d \in deletions : IntegrateDeletion(r, d))
    /\ SF_vars(\E r \in ReplicaIds : \/ NextBackloggedInsertion(r)
                                      \/ NextBackloggedDeletion(r))
    /\ \A r \in ReplicaIds :
         /\ SF_vars(BackloggedInsertions(r))
         /\ SF_vars(BackloggedDeletions(r))
         /\ WF_vars(NextQueue(r))

FairSpec == Spec /\ Fairness
==============================================================================
