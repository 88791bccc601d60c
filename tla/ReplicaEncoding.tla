--------------------------- MODULE ReplicaEncoding ---------------------------
(***************************************************************************)
(* The binary format of a whole replica (the encode modules of             *)
(* src/src/run_tree.rs, gtree.rs, backlog.rs and replica.rs, and           *)
(* encoded_replica.rs).                                                    *)
(*                                                                         *)
(* The tree's leaves are written in the order of the table of runs, run by *)
(* run and fragment by fragment, without what follows from their place:    *)
(* the id, the timestamp and the start of each.                            *)
(***************************************************************************)
EXTENDS Encoding, EditRun, RunIndices

CONSTANT ProtocolVersion

ASSUME ProtocolAssumption == ProtocolVersion \in Nat

------------------------------------------------------------------------------
(* The document: a tree [inodes, lnodes, root] and a table of runs.        *)
EncodeFragment(tree, fragment) ==
    LET lnode == tree.lnodes[fragment.leaf]
    IN  EncodeInts(<<RunLen(lnode.value), lnode.value.lam>>)
          \o EncodeBool(lnode.value.del)
          \o EncodeInts(<<fragment.leaf, lnode.parent>>)

EncodeRun(tree, run) ==
    EncodeInt(Len(run.fragments))
      \o EncodeEach(run.fragments,
                    LAMBDA fragment : EncodeFragment(tree, fragment))

EncodeRuns(tree, id, runs) ==
    EncodeInts(<<id, Len(runs)>>)
      \o EncodeEach(runs, LAMBDA run : EncodeRun(tree, run))

EncodeInode(inode) ==
    EncodeInts(<<inode.len, inode.parent, Len(inode.children)>>)
      \o EncodeBool(inode.has_leaves) \o EncodeInts(inode.children)

EncodeRunTree(tree, indices, order) ==
    LET ids == SelectSeq(order, LAMBDA id : indices[id] # <<>>)
    IN  EncodeInts(<<Len(ids), Len(tree.lnodes)>>)
          \o EncodeEach(ids, LAMBDA id : EncodeRuns(tree, id, indices[id]))
          \o EncodeInt(Len(tree.inodes)) \o EncodeEach(tree.inodes, EncodeInode)
          \o EncodeInt(tree.root)

(* What decoding a document has made so far: the leaves, the table, the    *)
(* fragments of the current run, and how far the inserter's text has come. *)
DummyLnode == [value |-> EditRunRecord(0, 0, 0, 0, 0), parent |-> 0]

FirstContext(ids, num_leaves) ==
    [lnodes |-> [l \in 1 .. num_leaves |-> DummyLnode],
     indices |-> [id \in ids |-> <<>>],
     fragments |-> <<>>,
     temporal_offset |-> 0]

WithFragment(ctx, id, ints, is_deleted, place) ==
    LET end == ctx.temporal_offset + ints[1]
        run == EditRunRecord(id, ctx.temporal_offset, end,
                             Len(ctx.indices[id]), ints[2])
    IN  [ctx EXCEPT
           !.fragments = Append(@, Fragment(ints[1], place[1])),
           !.temporal_offset = end,
           !.lnodes[place[1]] =
              [value |-> [run EXCEPT !.del = is_deleted], parent |-> place[2]]]

DecodeFragment(id, ctx, buf) ==
    Then(DecodeInts(2, buf), LAMBDA ints, after_ints :
      Then(DecodeBool(after_ints), LAMBDA is_deleted, after_bool :
        Then(DecodeInts(2, after_bool), LAMBDA place, rest :
          Ok(WithFragment(ctx, id, ints, is_deleted, place), rest))))

(* Mutant: every run is taken to start where the inserter's text does.     *)
WithRunAtZero(ctx, id, offset) ==
    [ctx EXCEPT !.indices[id] =
                  Append(@, [fragments |-> ctx.fragments, offset |-> 0]),
                !.fragments = <<>>]

WithRun(ctx, id, offset) ==
    [ctx EXCEPT !.indices[id] =
                  Append(@, [fragments |-> ctx.fragments, offset |-> offset]),
                !.fragments = <<>>]

DecodeRun(id, ctx, buf) ==
    Then(DecodeInt(buf), LAMBDA num_fragments, front :
      Then(Repeat(num_fragments,
                  LAMBDA c, next : DecodeFragment(id, c, next), ctx, front),
           LAMBDA done, rest :
             Ok(WithRun(done, id, ctx.temporal_offset), rest)))

DecodeRuns(ctx, buf) ==
    Then(DecodeInts(2, buf), LAMBDA head, front :
      Repeat(head[2], LAMBDA c, next : DecodeRun(head[1], c, next),
             [ctx EXCEPT !.temporal_offset = 0], front))

DecodeInode(buf) ==
    Then(DecodeInts(3, buf), LAMBDA n, after_ints :
      Then(DecodeBool(after_ints), LAMBDA has_leaves, front :
        Then(DecodeInts(n[3], front), LAMBDA children, rest :
          Ok([len |-> n[1], parent |-> n[2], children |-> children,
              has_leaves |-> has_leaves], rest))))

(* The decoded tree has no cursor.                                         *)
DecodeRunTree(ids, buf) ==
    Then(DecodeInts(2, buf), LAMBDA counts, front :
      Then(Repeat(counts[1], DecodeRuns, FirstContext(ids, counts[2]), front),
           LAMBDA ctx, after_runs :
        Then(DecodeInt(after_runs), LAMBDA num_inodes, at_inodes :
          Then(DecodeEach(num_inodes, DecodeInode, at_inodes),
               LAMBDA inodes, at_root :
            Then(DecodeInt(at_root), LAMBDA root, rest :
              Ok([inodes |-> inodes, lnodes |-> ctx.lnodes, root |-> root,
                  indices |-> ctx.indices], rest))))))

------------------------------------------------------------------------------
(* The backlog.  The sender of the edits of a queue is written once, and   *)
(* anchors in full.                                                        *)
EncodeBackloggedInsertion(m) ==
    EncodeAnchor(m.anchor)
      \o EncodeInts(<<m.start, m.end - m.start, m.ts, m.lam>>)

(* Mutant: the length of the text is taken for its end.                    *)
DecodeBackloggedInsertionToLength(by, buf) ==
    Then(DecodeAnchor(buf), LAMBDA anchor, front :
      Then(DecodeInts(4, front), LAMBDA n, rest :
        Ok(InsertionOf([by |-> by, start |-> n[1], end |-> n[2]],
                       n[3], n[4], anchor), rest)))

DecodeBackloggedInsertion(by, buf) ==
    Then(DecodeAnchor(buf), LAMBDA anchor, front :
      Then(DecodeInts(4, front), LAMBDA n, rest :
        Ok(InsertionOf([by |-> by, start |-> n[1], end |-> n[1] + n[2]],
                       n[3], n[4], anchor), rest)))

EncodeBackloggedDeletion(d, order) ==
    EncodeAnchor(d.start) \o EncodeAnchor(d.end)
      \o EncodeMap(d.version_map, d.by, order) \o EncodeInt(d.ts)

DecodeBackloggedDeletion(ids, by, buf) ==
    Then(DecodeAnchor(buf), LAMBDA start, after_start :
      Then(DecodeAnchor(after_start), LAMBDA end, after_end :
        Then(DecodeMap(ids, after_end), LAMBDA map, after_map :
          Then(DecodeInt(after_map), LAMBDA ts, rest :
            Ok(DeletionOf(by, start, end, map, ts), rest)))))

EncodeQueues(queues, order, EncodeEdit(_)) ==
    LET ids == SelectSeq(order, LAMBDA id : queues[id] # <<>>)
    IN  EncodeInt(Len(ids))
          \o EncodeEach(ids, LAMBDA id :
               EncodeInts(<<id, Len(queues[id])>>)
                 \o EncodeEach(queues[id], EncodeEdit))

DecodeQueues(ids, DecodeEdit(_, _), buf) ==
    Then(DecodeInt(buf), LAMBDA num_queues, at_queues :
      Repeat(num_queues, LAMBDA queues, at_queue :
               Then(DecodeInts(2, at_queue), LAMBDA head, front :
                 Then(DecodeEach(head[2], LAMBDA edit : DecodeEdit(head[1], edit),
                                 front), LAMBDA queue, rest :
                   Ok([queues EXCEPT ![head[1]] = queue], rest))),
             [id \in ids |-> <<>>], at_queues))

EncodeBacklog(insertions, deletions, order) ==
    EncodeQueues(insertions, order, EncodeBackloggedInsertion)
      \o EncodeQueues(deletions, order,
                      LAMBDA d : EncodeBackloggedDeletion(d, order))

(* Mutant: the edits of a queue are put back last one first.               *)
DecodeBacklogInReverse(ids, buf) ==
    LET InReverse(queues) == [id \in ids |-> Reverse(queues[id])]
    IN  Then(DecodeQueues(ids, DecodeBackloggedInsertion, buf),
             LAMBDA insertions, front :
          Then(DecodeQueues(ids, LAMBDA by, edit :
                                   DecodeBackloggedDeletion(ids, by, edit),
                            front),
               LAMBDA deletions, rest :
            Ok([insertions |-> InReverse(insertions),
                deletions |-> InReverse(deletions)], rest)))

DecodeBacklog(ids, buf) ==
    Then(DecodeQueues(ids, DecodeBackloggedInsertion, buf),
         LAMBDA insertions, front :
      Then(DecodeQueues(ids, LAMBDA by, edit :
                               DecodeBackloggedDeletion(ids, by, edit), front),
           LAMBDA deletions, rest :
        Ok([insertions |-> insertions, deletions |-> deletions], rest)))

------------------------------------------------------------------------------
(* The replica: a record of its parts, and the id it has.                  *)
EncodeBody(s, id, order) ==
    EncodeRunTree(s.tree, s.indices, order)
      \o EncodeInt(s.lamport_clock)
      \o EncodeMap(s.version_map, id, order)
      \o EncodeMap(s.deletion_map, id, order)
      \o EncodeBacklog(s.insertions_backlog, s.deletions_backlog, order)

DecodeBody(ids, buf) ==
    Then(DecodeRunTree(ids, buf), LAMBDA document, after_tree :
      Then(DecodeInt(after_tree), LAMBDA lamport_clock, after_clock :
        Then(DecodeMap(ids, after_clock), LAMBDA version_map, after_version :
          Then(DecodeMap(ids, after_version), LAMBDA deletion_map, front :
            Then(DecodeBacklog(ids, front), LAMBDA backlog, rest :
              Ok([document |-> document, lamport_clock |-> lamport_clock,
                  version_map |-> version_map, deletion_map |-> deletion_map,
                  insertions_backlog |-> backlog.insertions,
                  deletions_backlog |-> backlog.deletions], rest))))))

(* SHA-256, taken to tell all bodies apart and to be one byte long.        *)
Checksum(body) == <<[checksum |-> body]>>

EncodedReplica(s, id, order) ==
    LET body == EncodeBody(s, id, order)
    IN  EncodeInt(ProtocolVersion) \o Checksum(body) \o body

Error(kind) == [ok |-> FALSE, error |-> kind]

BodyOf(decoded) == IF decoded.ok THEN decoded ELSE Error("InvalidData")

CheckedBody(ids, buf) ==
    IF buf = <<>> THEN Error("InvalidData")
    ELSE IF <<Head(buf)>> # Checksum(Tail(buf)) THEN Error("ChecksumFailed")
    ELSE BodyOf(DecodeBody(ids, Tail(buf)))

(* EncodedReplica::to_replica.                                             *)
ToReplica(ids, bytes) ==
    LET version == DecodeInt(bytes)
    IN  IF ~version.ok THEN Error("InvalidData")
        ELSE IF version.value # ProtocolVersion
        THEN Error("DifferentProtocol")
        ELSE CheckedBody(ids, version.rest)
==============================================================================
