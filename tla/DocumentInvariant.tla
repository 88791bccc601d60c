-------------------------- MODULE DocumentInvariant --------------------------
(***************************************************************************)
(* The inductive invariant behind the theorems about documents: what the   *)
(* leaves of a document have to do with the insertions that were sent.     *)
(***************************************************************************)
EXTENDS ReplicaInvariant

(* A run on paper: its characters, each with the clocks of the run.        *)
RunMarks(run) ==
    {[id |-> run.id, at |-> k, ts |-> run.ts, lam |-> run.lam] :
        k \in run.start .. run.end - 1}

DocumentMarks(runs) == UNION {RunMarks(runs[i]) : i \in DOMAIN runs}

(* Marks are ordered by sets of pairs of them: here the order each run was *)
(* typed in, which says nothing of two marks of different runs.            *)
Mark == [id : ReplicaIds, at : Nat, ts : Nat, lam : Nat]

TypingOrder ==
    {p \in Mark \X Mark :
        p[1].id = p[2].id /\ p[1].ts = p[2].ts => p[1].at < p[2].at}

MarksBefore(order, marks, others) ==
    \A c \in marks, e \in others : <<c, e>> \in order

RunsAreOrdered(order, runs) ==
    \A i, j \in DOMAIN runs :
        i < j => MarksBefore(order, RunMarks(runs[i]), RunMarks(runs[j]))

KeepsRuns(order) ==
    \A c, e \in Mark :
        c.id = e.id /\ c.ts = e.ts /\ c.lam = e.lam /\ c.at < e.at
            => <<c, e>> \in order

(* The leaves: a run is never empty, except the one of an empty buffer.    *)
RunType == [id : ReplicaIds, start : Nat, end : Nat, ts : Nat, lam : Nat,
            del : BOOLEAN]

IsInitialAndEmpty(run) ==
    /\ InitialLen = 0
    /\ run.id = Creator /\ run.start = 0 /\ run.end = 0
    /\ run.ts = 0 /\ run.lam = 0

Runs == {run \in RunType : run.start < run.end \/ IsInitialAndEmpty(run)}

(* Only the last leaf may be the empty one.                                *)
OnlyLastIsEmpty(runs) ==
    \A i \in 1 .. Len(runs) - 1 : runs[i].start < runs[i].end

WellFormed(order, runs) ==
    /\ runs \in Seq(Runs) /\ runs # <<>>
    /\ OnlyLastIsEmpty(runs)
    /\ RunsAreOrdered(order, runs)

(* The texts that documents are made of: the first buffer and everything   *)
(* inserted since, as a run of its inserter.                               *)
InitialText ==
    [by |-> Creator, start |-> 0, end |-> InitialLen, ts |-> 0, lam |-> 0]

Texts == insertions \cup {InitialText}

TextMarks(t) ==
    {[id |-> t.by, at |-> k, ts |-> t.ts, lam |-> t.lam] :
        k \in t.start .. t.end - 1}

SentMarks == UNION {TextMarks(t) : t \in Texts}

(* A document is the sent text its version map counts, no more, no less.   *)
DocumentsAreSentText ==
    /\ run_tree \in [ReplicaIds -> Seq(Runs)]
    /\ \A r \in replicas :
         /\ WellFormed(TypingOrder, run_tree[r])
         /\ DocumentMarks(run_tree[r]) =
              {c \in SentMarks : c.at < version_map[r][c.id]}

------------------------------------------------------------------------------
(* The texts of one inserter: disjoint, without gaps, and with timestamps  *)
(* that never decrease and change together.                                *)
TextsAreDisjoint ==
    \A t, u \in Texts :
        t.by = u.by => t = u \/ t.end <= u.start \/ u.end <= t.start

TextsHaveNoGaps ==
    \A a \in replicas : \A k \in 0 .. version_map[a][a] - 1 :
        \E t \in Texts : t.by = a /\ t.start <= k /\ k < t.end

TextsAreInOrder ==
    \A t, u \in Texts :
        t.by = u.by /\ t.start < u.start =>
            /\ t.ts <= u.ts /\ t.lam <= u.lam
            /\ t.ts = u.ts <=> t.lam = u.lam

InitialTextIsFirst ==
    \A t \in Texts : t.by = Creator => (t.ts = 0 <=> t.lam = 0)

(* Where the first buffer is empty, no insertion is as old as its run.     *)
EmptyTextIsOldest == InitialLen = 0 => \A m \in insertions : m.lam > 0

(* Every replica starts with the first buffer.                             *)
InitialTextIsCounted == \A r \in replicas : InitialLen <= version_map[r][Creator]

(* An inserter's run clock is past all its runs, right past the latest.    *)
RunClockIsAhead ==
    /\ Creator \in replicas /\ run_clock[Creator] > 0
    /\ \A t \in Texts :
         /\ t.ts < run_clock[t.by]
         /\ t.start < t.end /\ t.end = version_map[t.by][t.by]
              => t.ts = run_clock[t.by] - 1

(* A text that continues a run is anchored to that run's end.              *)
RunsAreContinued ==
    \A m \in insertions, t \in Texts :
        t.by = m.by /\ t.ts = m.ts /\ t.start < m.start
            => m.anchor = [id |-> m.by, offset |-> m.start, ts |-> m.ts]

(* A replica has counted a text as a whole or not at all.                  *)
TextsAreCountedWhole ==
    \A r \in replicas, t \in Texts :
        version_map[r][t.by] <= t.start \/ t.end <= version_map[r][t.by]

------------------------------------------------------------------------------
(* Anchors.                                                                *)
AnchorType == [id : ReplicaIds, offset : Nat, ts : Nat]

(* The text an anchor sticks to: on its left, or on its right.             *)
IsAnchoredIn(anchor, bias, t) ==
    /\ t.by = anchor.id /\ t.ts = anchor.ts
    /\ \/ bias = "left" /\ t.start < anchor.offset /\ anchor.offset <= t.end
       \/ bias = "right" /\ t.start <= anchor.offset /\ anchor.offset < t.end

(* An insertion is anchored to older text, or to the inserter's own text   *)
(* before it.                                                              *)
InsertionsAreAnchored ==
    \A m \in insertions :
        \/ m.anchor = ZeroAnchor
        \/ /\ m.anchor \in AnchorType
           /\ \E t \in Texts :
                /\ IsAnchoredIn(m.anchor, "left", t)
                /\ \/ t.lam < m.lam
                   \/ t.by = m.by /\ m.anchor.offset <= m.start

(* A deletion is anchored to text its sender says it knows of.             *)
DeletionsAreAnchored ==
    \A d \in deletions :
        /\ d.start \in AnchorType /\ d.end \in AnchorType
        /\ \E t \in Texts : IsAnchoredIn(d.start, "right", t)
        /\ \E t \in Texts : IsAnchoredIn(d.end, "left", t)
        /\ d.start.offset < d.version_map[d.start.id]
        /\ d.end.offset <= d.version_map[d.end.id]
        /\ d.start.id = d.end.id /\ d.start.ts = d.end.ts
             => d.start.offset < d.end.offset

(* The deletions of one replica are numbered without gaps.                 *)
DeletionsHaveNoGaps ==
    \A a \in replicas : \A ts \in 1 .. deletion_map[a][a] :
        \E d \in deletions : d.by = a /\ d.ts = ts

TextInvariant ==
    /\ TextsAreDisjoint
    /\ TextsHaveNoGaps
    /\ TextsAreInOrder
    /\ InitialTextIsFirst
    /\ EmptyTextIsOldest
    /\ InitialTextIsCounted
    /\ RunClockIsAhead
    /\ RunsAreContinued
    /\ TextsAreCountedWhole
    /\ InsertionsAreAnchored
    /\ DeletionsAreAnchored
    /\ DeletionsHaveNoGaps

DocumentInvariant ==
    TypeOK /\ ClockInvariant /\ TextInvariant /\ DocumentsAreSentText
==============================================================================
