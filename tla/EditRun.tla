------------------------------- MODULE EditRun -------------------------------
(***************************************************************************)
(* The leaves of a replica's tree: runs of consecutively inserted          *)
(* characters (src/src/run_tree.rs, the EditRun type).                     *)
(*                                                                         *)
(* A character is known by the replica that inserted it and its position   *)
(* in everything that replica ever inserted, so a run is an interval of    *)
(* such positions with the clock values it was created under.  A deleted   *)
(* run is a tombstone: it keeps its place and has no visible length.       *)
(***************************************************************************)
EXTENDS Naturals, Sequences

EditRunRecord(id, start, end, ts, lam) ==
    [id |-> id, start |-> start, end |-> end, ts |-> ts, lam |-> lam,
     del |-> FALSE]

RunLen(run) == run.end - run.start

VisibleLen(run) == IF run.del THEN 0 ELSE RunLen(run)

(* Mutant: concurrent runs with equal timestamps are left unordered.       *)
SortsAfterWithoutTieBreak(run, leaf) == run.lam < leaf.lam

(* `run > leaf` in the code's Ord: Lamport timestamps descending, then     *)
(* replica ids ascending.                                                  *)
SortsAfter(run, leaf) ==
    \/ run.lam < leaf.lam
    \/ run.lam = leaf.lam /\ run.id > leaf.id

SortsBefore(run, leaf) == SortsAfter(leaf, run)

SameRun(run, other) ==
    /\ run.id = other.id
    /\ run.lam = other.lam
    /\ run.ts = other.ts
    /\ run.del = other.del

CanAppend(run, other) == run.end = other.start /\ SameRun(run, other)

CanPrepend(run, other) == run.start = other.end /\ SameRun(run, other)

(* The anchor names a character boundary of the run, its start excluded.   *)
ContainsAnchor(run, anchor) ==
    /\ run.id = anchor.id
    /\ run.start < anchor.offset
    /\ anchor.offset <= run.end

(* The characters from..to of a run, as a run of its own.                  *)
SubRun(run, from, to) ==
    [run EXCEPT !.start = run.start + from, !.end = run.start + to]

(* That part of a run, left out when it is empty.                          *)
Part(run, from, to) == IF from < to THEN <<SubRun(run, from, to)>> ELSE <<>>

(* Mutant: the left part keeps the whole run.                              *)
SplitRunKeepingLeft(run, at) == <<run, SubRun(run, at, RunLen(run))>>

(* The two parts a run is split into.                                      *)
SplitRun(run, at) == Part(run, 0, at) \o Part(run, at, RunLen(run))

Tombstone(run) == [run EXCEPT !.del = TRUE]

(* Mutant: what is left after the range is forgotten.                      *)
DeleteRangeWithoutRest(run, from, to) ==
    Part(run, 0, from) \o Part(Tombstone(run), from, to)

(* A range of a run is deleted: what is left before it, the tombstone, and *)
(* what is left after it.                                                  *)
DeleteRange(run, from, to) ==
    Part(run, 0, from) \o Part(Tombstone(run), from, to)
      \o Part(run, to, RunLen(run))

DeleteFrom(run, from) == DeleteRange(run, from, RunLen(run))

DeleteUpTo(run, to) == DeleteRange(run, 0, to)
==============================================================================
