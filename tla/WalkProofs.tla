------------------------------ MODULE WalkProofs ------------------------------
(***************************************************************************)
(* Proofs about the walk of merge_deletion over the leaves: the offsets it *)
(* hands to the tree are those of the leaves it stands at, so that nothing *)
(* panics, the ranges it returns are separate, and what they, and the      *)
(* offsets of the other operations, do to a user's text is what the        *)
(* operation does to the text of the document.  From these: a user's text  *)
(* is the document's, a deletion removes what its user deleted and nothing *)
(* else, and an anchor stays with its character.                           *)
(***************************************************************************)
EXTENDS DeletionProofs

------------------------------------------------------------------------------
IsSpliced(new, runs, i, Q) ==
    /\ new \in Seq(Runs) /\ Len(new) = (Len(runs) - 1) + Len(Q)
    /\ \A k \in 1 .. i - 1 : new[k] = runs[k]
    /\ \A k \in 1 .. Len(Q) : new[(i - 1) + k] = Q[k]

LEMMA LeafOfSplice ==
    ASSUME NEW runs \in Seq(Runs), NEW i \in 1 .. Len(runs),
           NEW Q \in Seq(Runs)
    PROVE  IsSpliced(Splice(runs, i, Q), runs, i, Q)
<1>0. PICK new : new = Splice(runs, i, Q)
  OBVIOUS
<1> DEFINE A == SubSeq(runs, 1, i - 1)
           B == SubSeq(runs, i + 1, Len(runs))
<1>1. /\ Len(runs) \in Nat /\ Len(Q) \in Nat
      /\ A \in Seq(Runs) /\ B \in Seq(Runs)
      /\ \A k \in 1 .. Len(runs) : runs[k] \in Runs
  BY LenProperties, ElementOfSeq, ApartAt
<1>2. Len(A) = i - 1 /\ \A k \in 1 .. i - 1 : A[k] = runs[k]
  BY <1>1, SubSeqProperties
<1>3. Len(B) = Len(runs) - i
  BY <1>1, SubSeqProperties
<1>4. new = A \o Q \o B
  BY <1>0 DEF Splice
<1> HIDE DEF A, B
<1>5. A \o Q \in Seq(Runs) /\ Len(A \o Q) = (i - 1) + Len(Q)
  BY <1>1, <1>2, LeavesConcat
<1>6. new \in Seq(Runs) /\ Len(new) = ((i - 1) + Len(Q)) + (Len(runs) - i)
  BY <1>1, <1>3, <1>4, <1>5, LeavesConcat
<1>7. \A k \in 1 .. (i - 1) + Len(Q) : new[k] = (A \o Q)[k]
  <2>1. TAKE k \in 1 .. (i - 1) + Len(Q)
  <2>2. k \in 1 .. Len(A \o Q) + Len(B) /\ k <= Len(A \o Q)
    BY <1>1, <1>3, <1>5
  <2>3. QED
    BY <2>2, <1>1, <1>4, <1>5, LeafOfConcat
<1>8. \A k \in 1 .. (i - 1) + Len(Q) :
         (A \o Q)[k] = IF k <= i - 1 THEN A[k] ELSE Q[k - (i - 1)]
  BY <1>1, <1>2, LeafOfConcat
<1>9. ASSUME NEW k \in 1 .. i - 1 PROVE new[k] = runs[k]
  <2>1. k \in 1 .. (i - 1) + Len(Q) /\ k <= i - 1
    BY <1>1
  <2>2. QED
    BY <2>1, <1>2, <1>7, <1>8
<1>10. ASSUME NEW k \in 1 .. Len(Q) PROVE new[(i - 1) + k] = Q[k]
  <2>1. /\ (i - 1) + k \in 1 .. (i - 1) + Len(Q) /\ ~((i - 1) + k <= i - 1)
        /\ ((i - 1) + k) - (i - 1) = k
    BY <1>1
  <2>2. QED
    BY <2>1, <1>7, <1>8
<1>11. QED
  BY <1>0, <1>1, <1>6, <1>9, <1>10 DEF IsSpliced

LEMMA TwoPieces ==
    ASSUME NEW a, NEW b, NEW q, q = <<a>> \o <<b>>
    PROVE  Len(q) = 2 /\ q[1] = a /\ q[2] = b
OBVIOUS

HasThree(q, a, b, c) == Len(q) = 3 /\ q[1] = a /\ q[2] = b /\ q[3] = c

LEMMA ThreePieces ==
    ASSUME NEW a, NEW b, NEW c
    PROVE  HasThree(<<a>> \o <<b>> \o <<c>>, a, b, c)
BY DEF HasThree

LEMMA NoPiece ==
    ASSUME NEW a, NEW b
    PROVE  /\ <<>> \o <<b>> \o <<>> = <<b>>
           /\ <<a>> \o <<b>> \o <<>> = <<a>> \o <<b>>
           /\ <<>> \o <<a>> \o <<b>> = <<a>> \o <<b>>
OBVIOUS

(* The pieces a leaf is cut into.                                          *)
ArePieces(Q, run, from, to) ==
    /\ Q \in Seq(Runs)
    /\ from = 0 =>
         /\ Len(Q) = IF to < RunLen(run) THEN 2 ELSE 1
         /\ VisibleLen(Q[1]) = 0
         /\ to < RunLen(run) => Q[2] = SubRun(run, to, RunLen(run))
    /\ from > 0 =>
         /\ Len(Q) = IF to < RunLen(run) THEN 3 ELSE 2
         /\ VisibleLen(Q[1]) = from /\ VisibleLen(Q[2]) = 0
         /\ to < RunLen(run) => Q[3] = SubRun(run, to, RunLen(run))

LEMMA PiecesOfRange ==
    ASSUME NEW run \in Runs, ~run.del, NEW from \in Nat, NEW to \in Nat,
           from < to, to <= RunLen(run)
    PROVE  ArePieces(DeleteRange(run, from, to), run, from, to)
<1>0. PICK Q : Q = DeleteRange(run, from, to)
  OBVIOUS
<1> DEFINE len == RunLen(run)
           a == SubRun(run, 0, from)
           b == SubRun(Tombstone(run), from, to)
           c == SubRun(run, to, len)
<1>1. len \in Nat /\ run.start \in Nat /\ run \in RunType
  BY RunLength
<1>2. /\ VisibleLen(a) = from
      /\ VisibleLen(b) = 0
  <2>1. a.del = FALSE /\ a.start = run.start + 0 /\ a.end = run.start + from
    BY <1>1 DEF SubRun, RunType
  <2>2. b.del
    BY <1>1 DEF SubRun, Tombstone, RunType
  <2>3. QED
    BY <2>1, <2>2, <1>1 DEF VisibleLen, RunLen
<1>3. Q \in Seq(Runs)
  BY <1>0, DeleteRangeCuts, TypingKeepsRuns
<1>4. /\ Part(run, 0, from) = IF from = 0 THEN <<>> ELSE <<a>>
      /\ Part(Tombstone(run), from, to) = <<b>>
      /\ Part(run, to, len) = IF to < len THEN <<c>> ELSE <<>>
  BY DEF Part
<1>5. Q = Part(run, 0, from) \o Part(Tombstone(run), from, to)
            \o Part(run, to, len)
  BY <1>0 DEF DeleteRange
<1> HIDE DEF a, b, c, len
<1>6. CASE from = 0 /\ to < len
  <2>1. Q = <<>> \o <<b>> \o <<c>>
    BY <1>4, <1>5, <1>6
  <2>2. Len(Q) = 2 /\ Q[1] = b /\ Q[2] = c
    BY <2>1, NoPiece, TwoPieces
  <2>3. ArePieces(Q, run, from, to)
    BY <2>2, <1>2, <1>3, <1>6 DEF len, c, ArePieces
  <2>4. QED
    BY <2>3, <1>0
<1>7. CASE from = 0 /\ ~(to < len)
  <2>1. Q = <<>> \o <<b>> \o <<>>
    BY <1>4, <1>5, <1>7
  <2>2. Len(Q) = 1 /\ Q[1] = b
    BY <2>1, NoPiece
  <2>3. ArePieces(Q, run, from, to)
    BY <2>2, <1>2, <1>3, <1>7 DEF len, ArePieces
  <2>4. QED
    BY <2>3, <1>0
<1>8. CASE from > 0 /\ to < len
  <2>0. from # 0
    BY <1>8
  <2>1. Q = <<a>> \o <<b>> \o <<c>>
    BY <2>0, <1>4, <1>5, <1>8, Zenon
  <2>2. HasThree(Q, a, b, c)
    BY <2>1, ThreePieces, Zenon
  <2>3. ArePieces(Q, run, from, to)
    BY <2>2, <1>2, <1>3, <1>8 DEF len, c, HasThree, ArePieces
  <2>4. QED
    BY <2>3, <1>0
<1>9. CASE from > 0 /\ ~(to < len)
  <2>0. from # 0
    BY <1>9
  <2>1. Q = <<a>> \o <<b>> \o <<>>
    BY <2>0, <1>4, <1>5, <1>9, Zenon
  <2>2. Len(Q) = 2 /\ Q[1] = a /\ Q[2] = b
    BY <2>1, NoPiece, TwoPieces
  <2>3. ArePieces(Q, run, from, to)
    BY <2>2, <1>2, <1>3, <1>9 DEF len, ArePieces
  <2>4. QED
    BY <2>3, <1>0
<1>10. QED
  BY <1>0, <1>6, <1>7, <1>8, <1>9

IsRestAt(new, j, run, to) ==
    ~new[j].del /\ new[j].id = run.id /\ new[j].start = run.start + to

IsMovedOn(runs, i, from, to, new, j) ==
    /\ OffsetOfLeaf(new, j) = OffsetOfLeaf(runs, i) + from
    /\ to < RunLen(runs[i]) => IsRestAt(new, j, runs[i], to)

LEMMA CutMovesOn ==
    ASSUME NEW runs \in Seq(Runs), NEW i \in 1 .. Len(runs), ~runs[i].del,
           NEW from \in Nat, NEW to \in Nat, from < to, to <= RunLen(runs[i]),
           to < RunLen(runs[i]) \/ i < Len(runs),
           NEW new, new = Splice(runs, i, DeleteRange(runs[i], from, to)),
           NEW next, next = IF from = 0 THEN i + 1 ELSE i + 2,
           NEW j, j = IF next > Len(new) THEN Len(new) ELSE next
    PROVE  IsMovedOn(runs, i, from, to, new, j)
<1>1. PICK Q : Q = DeleteRange(runs[i], from, to)
  OBVIOUS
<1> DEFINE run == runs[i]
           len == RunLen(run)
           rest == SubRun(run, to, len)
<1>2. /\ Len(runs) \in Nat /\ run \in Runs /\ len \in Nat
  <2>1. run \in Runs
    BY ElementOfSeq
  <2>2. QED
    BY <2>1, LenProperties, RunLength
<1>3. ArePieces(Q, run, from, to)
  BY <1>1, <1>2, PiecesOfRange, Zenon
<1>4. ~rest.del /\ rest.id = run.id /\ rest.start = run.start + to
  BY <1>2 DEF SubRun, Runs, RunType
<1>14. /\ Q \in Seq(Runs) /\ Len(Q) \in Nat
       /\ from = 0 => Len(Q) >= 1 /\ VisibleLen(Q[1]) = 0
       /\ from > 0 => /\ Len(Q) >= 2
                      /\ VisibleLen(Q[1]) = from /\ VisibleLen(Q[2]) = 0
       /\ from = 0 /\ to < len => Len(Q) = 2 /\ Q[2] = rest
       /\ from > 0 /\ to < len => Len(Q) = 3 /\ Q[3] = rest
  <2>1. Q \in Seq(Runs) /\ Len(Q) \in Nat
    BY <1>3, LenProperties DEF ArePieces
  <2> HIDE DEF rest, len, run
  <2>2. from = 0 => Len(Q) >= 1 /\ VisibleLen(Q[1]) = 0
    BY <1>3 DEF ArePieces
  <2>3. from > 0 => /\ Len(Q) >= 2
                    /\ VisibleLen(Q[1]) = from /\ VisibleLen(Q[2]) = 0
    BY <1>3 DEF ArePieces
  <2>4. from = 0 /\ to < len => Len(Q) = 2 /\ Q[2] = rest
    BY <1>3 DEF len, rest, ArePieces
  <2>5. from > 0 /\ to < len => Len(Q) = 3 /\ Q[3] = rest
    BY <1>3 DEF len, rest, ArePieces
  <2>6. QED
    BY <2>1, <2>2, <2>3, <2>4, <2>5
<1>5. /\ new \in Seq(Runs) /\ Len(new) = (Len(runs) - 1) + Len(Q)
      /\ \A k \in 1 .. i - 1 : new[k] = runs[k]
      /\ \A k \in 1 .. Len(Q) : new[(i - 1) + k] = Q[k]
  <2>1. Q \in Seq(Runs) /\ new = Splice(runs, i, Q)
    BY <1>1, <1>14
  <2>2. IsSpliced(new, runs, i, Q)
    BY <2>1, LeafOfSplice, Zenon
  <2>3. QED
    BY <2>2 DEF IsSpliced
<1> HIDE DEF run, len, rest
<1>6. /\ Len(Q) \in Nat /\ Len(Q) >= 1 /\ i \in Nat /\ i <= Len(runs)
      /\ i \in 1 .. Len(new)
      /\ (i - 1) + 1 = i /\ (i - 1) + 2 = i + 1 /\ (i - 1) + 3 = i + 2
      /\ (i + 1) + 1 = i + 2
  <2>1. Len(Q) \in Nat /\ Len(Q) >= 1
    BY <1>14
  <2>2. i \in Nat /\ i <= Len(runs) /\ i >= 1
    BY <1>2
  <2>3. i \in 1 .. Len(new)
    BY <2>1, <2>2, <1>2, <1>5
  <2>4. QED
    BY <2>1, <2>2, <2>3
<1>7. j = next
  <2>1. CASE to < len
    BY <2>1, <1>2, <1>5, <1>6, <1>14
  <2>2. CASE ~(to < len)
    <3>1. i < Len(runs)
      BY <2>2 DEF len, run
    <3>2. QED
      BY <3>1, <1>2, <1>5, <1>6, <1>14
  <2>3. QED
    BY <2>1, <2>2
<1>8. OffsetOfLeaf(new, i) = OffsetOfLeaf(runs, i)
  <2>1. \A k \in 1 .. i - 1 : VisibleLen(new[k]) = VisibleLen(runs[k])
    BY <1>5
  <2>2. i \in 1 .. Len(runs) + 1 /\ i \in 1 .. Len(new) + 1
    BY <1>2, <1>5, <1>6
  <2>3. QED
    BY <2>1, <2>2, <1>5, <1>6, SameOffsets
<1>9. OffsetOfLeaf(runs, i) \in Nat
  BY <1>2, OffsetsOfLeaves
<1>10. new[i] = Q[1]
       /\ OffsetOfLeaf(new, i + 1) = OffsetOfLeaf(runs, i) + VisibleLen(Q[1])
  <2>1. 1 \in 1 .. Len(Q)
    BY <1>6
  <2>2. new[i] = Q[1]
    BY <2>1, <1>5, <1>6
  <2>3. OffsetOfLeaf(new, i + 1) = OffsetOfLeaf(new, i) + VisibleLen(new[i])
    BY <1>5, <1>6, OffsetsOfLeaves
  <2>4. QED
    BY <2>2, <2>3, <1>8
<1>11. CASE from = 0
  <2>1. j = i + 1
    BY <1>7, <1>11
  <2>2. OffsetOfLeaf(new, j) = OffsetOfLeaf(runs, i) + from
    BY <2>1, <1>14, <1>9, <1>10, <1>11
  <2>3. ASSUME to < len PROVE new[j] = rest
    <3>1. Len(Q) = 2 /\ Q[2] = rest
      BY <2>3, <1>14, <1>11
    <3>2. QED
      BY <3>1, <2>1, <1>5, <1>6
  <2>4. QED
    BY <2>2, <2>3, <1>4 DEF IsMovedOn, IsRestAt, run, len
<1>12. CASE from > 0
  <2>1. j = i + 2
    BY <1>7, <1>12
  <2>2. /\ 2 \in 1 .. Len(Q) /\ i + 1 \in 1 .. Len(new)
    <3>1. Len(Q) \in Nat /\ Len(Q) >= 2
      BY <1>12, <1>14
    <3>2. Len(runs) \in Nat /\ i \in Nat /\ i <= Len(runs)
      BY <1>2, <1>6
    <3>3. Len(new) = (Len(runs) - 1) + Len(Q)
      BY <1>5
    <3>4. QED
      BY <3>1, <3>2, <3>3
  <2>3. new[i + 1] = Q[2]
    BY <2>2, <1>5, <1>6
  <2>4. OffsetOfLeaf(new, i + 2) =
          OffsetOfLeaf(new, i + 1) + VisibleLen(new[i + 1])
    BY <2>2, <1>5, <1>6, OffsetsOfLeaves
  <2>5. OffsetOfLeaf(new, j) = OffsetOfLeaf(runs, i) + from
    BY <2>1, <2>3, <2>4, <1>14, <1>9, <1>10, <1>12, SMTT(30)
  <2>6. ASSUME to < len PROVE new[j] = rest
    <3>1. Len(Q) = 3 /\ Q[3] = rest
      BY <2>6, <1>14, <1>12
    <3>2. QED
      BY <3>1, <2>1, <1>5, <1>6
  <2>7. QED
    BY <2>5, <2>6, <1>4 DEF IsMovedOn, IsRestAt, run, len
<1>13. QED
  BY <1>11, <1>12

LEMMA RangeMovesOn ==
    ASSUME NEW runs \in Seq(Runs), NEW i \in 1 .. Len(runs), ~runs[i].del,
           NEW from \in Nat, NEW to \in Nat, from < to, to <= RunLen(runs[i]),
           to < RunLen(runs[i]) \/ i < Len(runs)
    PROVE  IsMovedOn(runs, i, from, to, DeleteRangeInLeaf(runs, i, from, to),
                     LeafAfterDeleted(runs, i, from, to))
<1> DEFINE new == DeleteRangeInLeaf(runs, i, from, to)
           after == LeafAfterDeleted(runs, i, from, to)
           run == runs[i]
<1>1. /\ Len(runs) \in Nat /\ run \in Runs /\ RunLen(run) \in Nat
      /\ run.start \in Nat /\ run.end = run.start + RunLen(run)
  <2>1. run \in Runs
    BY ElementOfSeq
  <2>2. QED
    BY <2>1, LenProperties, RunLength
<1>2. /\ \A k \in 1 .. Len(runs) + 1 : OffsetOfLeaf(runs, k) \in Nat
      /\ i \in Nat /\ i \in 1 .. Len(runs) + 1
  BY <1>1, OffsetsOfLeaves
<1>3. CASE JoinsPrevious(runs, i, from, to)
  <2>1. from = 0 /\ to < RunLen(run) /\ i > 1 /\ 0 < to /\ i \in 2 .. Len(runs)
    BY <1>1, <1>3 DEF JoinsPrevious
  <2>2. CanAppend(runs[i - 1], SubRun(Tombstone(runs[i]), 0, to))
    BY <2>1, <1>1, <1>3, TombstoneAtStart DEF JoinsPrevious
  <2>3. new = WithPrevious(runs, i, to)
    BY <1>3 DEF DeleteRangeInLeaf, WithPrevious
  <2> HIDE DEF new
  <2>4. runs[i - 1].del /\ IsPairMoved(new, runs, i - 1, runs[i].start + to)
    BY <2>1, <2>2, <2>3, WithPreviousMoves
  <2>5. PICK h : h = i - 1
    OBVIOUS
  <2>6. h + 1 = i /\ h \in 1 .. Len(runs) /\ h \in Nat
    BY <2>1, <2>5, <1>1
  <2>7. PICK e, f : /\ IsBoundaryMoved(runs[h], runs[h + 1], e, f, run.start + to)
                    /\ IsPairReplaced(new, runs, h, e, f)
    BY <2>4, <2>5 DEF IsPairMoved
  <2>8. /\ new \in Seq(Runs) /\ Len(new) = Len(runs)
        /\ \A k \in 1 .. Len(runs) :
              new[k] = IF k = i THEN f ELSE IF k = h THEN e ELSE runs[k]
    BY <2>6, <2>7 DEF IsPairReplaced
  <2>9. e.del /\ ~f.del /\ f.id = run.id /\ f.start = run.start + to
    BY <2>4, <2>5, <2>6, <2>7 DEF IsBoundaryMoved
  <2>10. \A k \in 1 .. i - 1 : VisibleLen(new[k]) = VisibleLen(runs[k])
    <3>1. TAKE k \in 1 .. i - 1
    <3>2. k \in 1 .. Len(runs) /\ k # i
      BY <1>1, <1>2
    <3>3. CASE k = h
      BY <3>2, <3>3, <2>4, <2>5, <2>8, <2>9 DEF VisibleLen
    <3>4. CASE k # h
      BY <3>2, <3>4, <2>8
    <3>5. QED
      BY <3>3, <3>4
  <2>11. OffsetOfLeaf(new, i) = OffsetOfLeaf(runs, i)
    BY <2>8, <2>10, <1>2, SameOffsets
  <2>12. new[i] = f
    BY <2>8
  <2>13. after = i
    <3>1. ~(i > Len(new))
      BY <2>8, <1>1
    <3>2. QED
      BY <3>1, <1>3 DEF LeafAfterDeleted, new
  <2> HIDE DEF run, after
  <2>14. IsMovedOn(runs, i, from, to, new, i)
    BY <2>1, <2>9, <2>11, <2>12, <1>2 DEF IsMovedOn, IsRestAt, run
  <2>15. QED
    BY <2>13, <2>14 DEF new, after
<1>4. CASE ~JoinsPrevious(runs, i, from, to) /\ JoinsNext(runs, i, from, to)
  <2>1. /\ to = RunLen(runs[i]) /\ i < Len(runs) /\ 0 < from
        /\ from < RunLen(runs[i]) /\ i \in 1 .. Len(runs) - 1
    BY <1>1, <1>4 DEF JoinsNext
  <2>2. CanPrepend(runs[i + 1],
                   SubRun(Tombstone(runs[i]), from, RunLen(runs[i])))
    BY <2>1, <1>1, <1>4, TombstoneAtEnd DEF JoinsNext
  <2>3. new = WithNext(runs, i, from)
    BY <1>4 DEF DeleteRangeInLeaf, WithNext
  <2> HIDE DEF new
  <2>4. IsPairMoved(new, runs, i, runs[i].start + from)
    BY <2>1, <2>2, <2>3, WithNextMoves
  <2>5. PICK e, f : /\ IsBoundaryMoved(run, runs[i + 1], e, f, run.start + from)
                    /\ IsPairReplaced(new, runs, i, e, f)
    BY <2>4 DEF IsPairMoved
  <2>6. /\ new \in Seq(Runs) /\ Len(new) = Len(runs)
        /\ \A k \in 1 .. Len(runs) :
              new[k] = IF k = i + 1 THEN f ELSE IF k = i THEN e ELSE runs[k]
    BY <2>5 DEF IsPairReplaced
  <2>7. ~e.del /\ e.start = run.start /\ e.end = run.start + from
    BY <2>5 DEF IsBoundaryMoved
  <2>8. VisibleLen(e) = from
    BY <2>7, <1>1 DEF VisibleLen, RunLen
  <2>9. OffsetOfLeaf(new, i) = OffsetOfLeaf(runs, i)
    <3>1. ASSUME NEW k \in 1 .. i - 1 PROVE new[k] = runs[k]
      <4>1. k \in 1 .. Len(runs) /\ k # i /\ k # i + 1
        BY <1>1, <1>2
      <4>2. QED
        BY <4>1, <2>6
    <3>2. QED
      BY <3>1, <2>6, <1>2, SameOffsets
  <2>10. new[i] = e
    <3>1. i # i + 1
      BY <1>2
    <3>2. QED
      BY <3>1, <2>6
  <2>11. OffsetOfLeaf(new, i + 1) = OffsetOfLeaf(runs, i) + from
    BY <2>6, <2>8, <2>9, <2>10, OffsetsOfLeaves
  <2>12. after = i + 1
    <3>1. ~(i + 1 > Len(new))
      BY <2>1, <2>6, <1>1
    <3>2. QED
      BY <3>1, <1>4 DEF LeafAfterDeleted, new
  <2>13. ~(to < RunLen(runs[i]))
    BY <2>1, <1>1
  <2> HIDE DEF run, after
  <2>14. IsMovedOn(runs, i, from, to, new, i + 1)
    BY <2>11, <2>13 DEF IsMovedOn
  <2>15. QED
    BY <2>12, <2>14 DEF new, after
<1>5. CASE ~JoinsPrevious(runs, i, from, to) /\ ~JoinsNext(runs, i, from, to)
  <2>1. new = Splice(runs, i, DeleteRange(runs[i], from, to))
    BY <1>5 DEF DeleteRangeInLeaf
  <2>2. PICK next : next = IF from = 0 THEN i + 1 ELSE i + 2
    OBVIOUS
  <2>3. after = IF next > Len(new) THEN Len(new) ELSE next
    BY <2>2, <1>5 DEF LeafAfterDeleted
  <2> HIDE DEF new, after, run
  <2>4. IsMovedOn(runs, i, from, to, new, after)
    BY <2>1, <2>2, <2>3, CutMovesOn
  <2>5. QED
    BY <2>4 DEF new, after
<1>6. QED
  BY <1>3, <1>4, <1>5

------------------------------------------------------------------------------
(* What each visit of merge_deletion notes down.                           *)
HasFields(v, runs, i, state, from, leaf, visible, ranges, done, sound) ==
    /\ v.runs = runs /\ v.i = i /\ v.state = state /\ v.from = from
    /\ v.leaf_offset = leaf /\ v.visible_offset = visible
    /\ v.ranges = ranges /\ v.done = done /\ v.sound = sound

LEMMA FieldsOfWalk ==
    ASSUME NEW runs, NEW i, NEW state, NEW from, NEW leaf, NEW visible,
           NEW ranges, NEW done, NEW sound,
           NEW v, v = [runs |-> runs, i |-> i, state |-> state, from |-> from,
                       leaf_offset |-> leaf, visible_offset |-> visible,
                       ranges |-> ranges, done |-> done, sound |-> sound]
    PROVE  HasFields(v, runs, i, state, from, leaf, visible, ranges, done, sound)
BY DEF HasFields

IsRightOffset(w) == w.leaf_offset = OffsetOfLeaf(w.runs, w.i)

LEMMA FieldsOfDeletedRange ==
    ASSUME NEW w, IsWalk(w), NEW from, NEW to, from < to,
           w.sound, IsRightOffset(w), ~w.runs[w.i].del
    PROVE  /\ IsWalk(DeleteLeafRange(w, from, to))
           /\ HasFields(DeleteLeafRange(w, from, to),
                        DeleteRangeInLeaf(w.runs, w.i, from, to),
                        LeafAfterDeleted(w.runs, w.i, from, to),
                        w.state, w.from, w.leaf_offset, w.visible_offset,
                        w.ranges, w.done, TRUE)
<1> DEFINE v == DeleteLeafRange(w, from, to)
           runs == DeleteRangeInLeaf(w.runs, w.i, from, to)
           i == LeafAfterDeleted(w.runs, w.i, from, to)
           sound == /\ w.sound
                    /\ w.leaf_offset = OffsetOfLeaf(w.runs, w.i)
                    /\ from < to /\ ~w.runs[w.i].del
<1>1. v = [w EXCEPT !.runs = runs, !.i = i, !.sound = sound]
  BY DEF DeleteLeafRange
<1>2. sound = TRUE
  BY DEF IsRightOffset
<1> HIDE DEF runs, i, sound, v
<1>3. v = [runs |-> runs, i |-> i, state |-> w.state, from |-> w.from,
           leaf_offset |-> w.leaf_offset,
           visible_offset |-> w.visible_offset,
           ranges |-> w.ranges, done |-> w.done, sound |-> TRUE]
  BY <1>1, <1>2 DEF IsWalk
<1>4. IsWalk(v)
  BY <1>3, RecordIsWalk
<1>5. HasFields(v, runs, i, w.state, w.from, w.leaf_offset, w.visible_offset,
                w.ranges, w.done, TRUE)
  BY <1>3, FieldsOfWalk
<1>6. QED
  BY <1>4, <1>5 DEF v, runs, i

LEMMA FieldsOfPassed ==
    ASSUME NEW w, IsWalk(w), NEW d, NEW v, v = VisitLeaf(w, d),
           ~(w.i > Len(w.runs)), w.i # IdxAtAnchor(w.runs, d.end, "left"),
           w.runs[w.i].del
    PROVE  HasFields(v, w.runs, w.i + 1, w.state, w.from, w.leaf_offset,
                     w.visible_offset, w.ranges, w.done, w.sound)
<1> DEFINE i == w.i + 1
<1>1. v = [w EXCEPT !.i = i]
  BY DEF VisitLeaf
<1> HIDE DEF i
<1>2. v = [runs |-> w.runs, i |-> i, state |-> w.state, from |-> w.from,
           leaf_offset |-> w.leaf_offset,
           visible_offset |-> w.visible_offset,
           ranges |-> w.ranges, done |-> w.done, sound |-> w.sound]
  BY <1>1 DEF IsWalk
<1>3. HasFields(v, w.runs, i, w.state, w.from, w.leaf_offset,
                w.visible_offset, w.ranges, w.done, w.sound)
  BY <1>2, FieldsOfWalk
<1>4. QED
  BY <1>3 DEF i

LEMMA FieldsOfWholeLeaf ==
    ASSUME NEW w, IsWalk(w), NEW d, NEW v, v = VisitLeaf(w, d),
           ~(w.i > Len(w.runs)), w.i # IdxAtAnchor(w.runs, d.end, "left"),
           ~w.runs[w.i].del, w.runs[w.i].end <= KnownTo(d, w.runs[w.i])
    PROVE  HasFields(v, [w.runs EXCEPT ![w.i].del = TRUE], w.i + 1, "deleting",
                     DeletingFrom(w), w.leaf_offset,
                     w.visible_offset + RunLen(w.runs[w.i]), w.ranges, w.done,
                     w.sound)
<1> DEFINE runs == [w.runs EXCEPT ![w.i].del = TRUE]
           from == DeletingFrom(w)
           visible == w.visible_offset + RunLen(w.runs[w.i])
           i == w.i + 1
           state == "deleting"
<1>1. v = [w EXCEPT !.runs = runs, !.i = i, !.from = from,
                    !.state = state, !.visible_offset = visible]
  <2>1. v = [w EXCEPT !.runs[w.i].del = TRUE, !.i = w.i + 1,
                      !.from = DeletingFrom(w), !.state = "deleting",
                      !.visible_offset =
                         w.visible_offset + RunLen(w.runs[w.i])]
    BY DEF VisitLeaf
  <2>2. QED
    BY <2>1
<1> HIDE DEF runs, from, visible, i, state
<1>2. v = [runs |-> runs, i |-> i, state |-> state, from |-> from,
           leaf_offset |-> w.leaf_offset, visible_offset |-> visible,
           ranges |-> w.ranges, done |-> w.done, sound |-> w.sound]
  BY <1>1 DEF IsWalk
<1>3. HasFields(v, runs, i, state, from, w.leaf_offset, visible, w.ranges,
                w.done, w.sound)
  BY <1>2, FieldsOfWalk
<1>4. QED
  BY <1>3 DEF runs, from, visible, i, state

LEMMA FieldsOfSkipped ==
    ASSUME NEW w, IsWalk(w), NEW d, NEW v, v = VisitLeaf(w, d),
           ~(w.i > Len(w.runs)), w.i # IdxAtAnchor(w.runs, d.end, "left"),
           ~w.runs[w.i].del, ~(w.runs[w.i].end <= KnownTo(d, w.runs[w.i])),
           w.runs[w.i].start >= KnownTo(d, w.runs[w.i])
    PROVE  HasFields(v, w.runs, w.i + 1, "skipping", w.from,
                     w.leaf_offset + RunLen(w.runs[w.i]),
                     w.visible_offset + RunLen(w.runs[w.i]), EndRange(w),
                     w.done, w.sound)
<1> DEFINE leaf == w.leaf_offset + RunLen(w.runs[w.i])
           visible == w.visible_offset + RunLen(w.runs[w.i])
           ranges == EndRange(w)
           i == w.i + 1
           state == "skipping"
<1>1. v = [w EXCEPT !.i = i, !.ranges = ranges, !.state = state,
                    !.leaf_offset = leaf, !.visible_offset = visible]
  BY DEF VisitLeaf
<1> HIDE DEF leaf, visible, ranges, i, state
<1>2. v = [runs |-> w.runs, i |-> i, state |-> state, from |-> w.from,
           leaf_offset |-> leaf, visible_offset |-> visible,
           ranges |-> ranges, done |-> w.done, sound |-> w.sound]
  BY <1>1 DEF IsWalk
<1>3. HasFields(v, w.runs, i, state, w.from, leaf, visible, ranges,
                w.done, w.sound)
  BY <1>2, FieldsOfWalk
<1>4. QED
  BY <1>3 DEF leaf, visible, ranges, i, state

LEMMA FieldsOfHead ==
    ASSUME NEW w, IsWalk(w), NEW d, NEW v, v = VisitLeaf(w, d),
           ~(w.i > Len(w.runs)), w.i # IdxAtAnchor(w.runs, d.end, "left"),
           ~w.runs[w.i].del, ~(w.runs[w.i].end <= KnownTo(d, w.runs[w.i])),
           ~(w.runs[w.i].start >= KnownTo(d, w.runs[w.i])),
           w.sound, IsRightOffset(w),
           NEW up_to, up_to = KnownTo(d, w.runs[w.i]) - w.runs[w.i].start,
           0 < up_to
    PROVE  HasFields(v, DeleteRangeInLeaf(w.runs, w.i, 0, up_to),
                     LeafAfterDeleted(w.runs, w.i, 0, up_to), "skipping",
                     w.from, w.leaf_offset, w.visible_offset + up_to,
                     AddRange(w, DeletingFrom(w), w.visible_offset + up_to),
                     w.done, TRUE)
<1> DEFINE x == DeleteLeafRange(w, 0, up_to)
           ranges == AddRange(w, DeletingFrom(w), w.visible_offset + up_to)
           visible == x.visible_offset + up_to
           state == "skipping"
<1>1. v = [x EXCEPT !.ranges = ranges, !.state = state,
                    !.visible_offset = visible]
  BY DEF VisitLeaf
<1>2. /\ IsWalk(x)
      /\ HasFields(x, DeleteRangeInLeaf(w.runs, w.i, 0, up_to),
                   LeafAfterDeleted(w.runs, w.i, 0, up_to),
                   w.state, w.from, w.leaf_offset, w.visible_offset,
                   w.ranges, w.done, TRUE)
  BY FieldsOfDeletedRange
<1>3. visible = w.visible_offset + up_to
  BY <1>2 DEF HasFields
<1> HIDE DEF x, ranges, visible, state
<1>4. v = [runs |-> x.runs, i |-> x.i, state |-> state, from |-> x.from,
           leaf_offset |-> x.leaf_offset, visible_offset |-> visible,
           ranges |-> ranges, done |-> x.done, sound |-> x.sound]
  BY <1>1, <1>2 DEF IsWalk
<1>5. HasFields(v, x.runs, x.i, state, x.from, x.leaf_offset, visible, ranges,
                x.done, x.sound)
  BY <1>4, FieldsOfWalk
<1>6. QED
  BY <1>2, <1>3, <1>5 DEF HasFields, ranges, state

LEMMA FieldsOfLast ==
    ASSUME NEW w, IsWalk(w), NEW d, NEW v, v = VisitLeaf(w, d),
           ~(w.i > Len(w.runs)), w.i = IdxAtAnchor(w.runs, d.end, "left"),
           w.sound, IsRightOffset(w),
           NEW up_to, up_to = d.end.offset - w.runs[w.i].start, 0 < up_to
    PROVE  /\ v.done /\ v.sound
           /\ v.ranges = IF w.runs[w.i].del THEN EndRange(w)
                         ELSE AddRange(w, DeletingFrom(w),
                                       w.visible_offset + up_to)
<1> DEFINE a == AddRange(w, DeletingFrom(w), w.visible_offset + up_to)
           b == EndRange(w)
           x == DeleteLeafRange(w, 0, up_to)
<1>1. v = IF w.runs[w.i].del THEN [w EXCEPT !.ranges = b, !.done = TRUE]
          ELSE [x EXCEPT !.ranges = a, !.done = TRUE]
  BY DEF VisitLeaf, VisitLastLeaf
<1> HIDE DEF a, b
<1>2. CASE w.runs[w.i].del
  <2>1. v = [w EXCEPT !.ranges = b, !.done = TRUE]
    BY <1>1, <1>2
  <2>2. v = [runs |-> w.runs, i |-> w.i, state |-> w.state, from |-> w.from,
             leaf_offset |-> w.leaf_offset,
             visible_offset |-> w.visible_offset,
             ranges |-> b, done |-> TRUE, sound |-> w.sound]
    BY <2>1 DEF IsWalk
  <2>3. v.ranges = b /\ v.done = TRUE /\ v.sound = w.sound
    BY <2>2
  <2>4. QED
    BY <2>3, <1>2 DEF b
<1>3. CASE ~w.runs[w.i].del
  <2>1. v = [x EXCEPT !.ranges = a, !.done = TRUE]
    BY <1>1, <1>3
  <2>2. IsWalk(x) /\ x.sound = TRUE
    BY <1>3, FieldsOfDeletedRange DEF HasFields
  <2> HIDE DEF x
  <2>3. v = [runs |-> x.runs, i |-> x.i, state |-> x.state, from |-> x.from,
             leaf_offset |-> x.leaf_offset,
             visible_offset |-> x.visible_offset,
             ranges |-> a, done |-> TRUE, sound |-> x.sound]
    BY <2>1, <2>2 DEF IsWalk
  <2>4. v.ranges = a /\ v.done = TRUE /\ v.sound = x.sound
    BY <2>3
  <2>5. QED
    BY <2>2, <2>4, <1>3 DEF a
<1>4. QED
  BY <1>2, <1>3

LEMMA FieldsOfFirstPassed ==
    ASSUME NEW runs, NEW d, NEW v, v = VisitFirstLeaf(runs, d),
           NEW i, i = IdxAtAnchor(runs, d.start, "right"), runs[i].del,
           NEW offset, offset = OffsetOfLeaf(runs, i)
    PROVE  HasFields(v, runs, i + 1, "starting", offset, offset, offset, <<>>,
                     FALSE, TRUE)
<1> DEFINE walk == [runs |-> runs, i |-> i, state |-> "starting",
                    from |-> offset, leaf_offset |-> offset,
                    visible_offset |-> offset, ranges |-> <<>>,
                    done |-> FALSE, sound |-> TRUE]
           j == i + 1
<1>1. v = [walk EXCEPT !.i = j]
  BY DEF VisitFirstLeaf
<1> HIDE DEF j
<1>2. v = [runs |-> runs, i |-> j, state |-> "starting",
           from |-> offset, leaf_offset |-> offset,
           visible_offset |-> offset, ranges |-> <<>>,
           done |-> FALSE, sound |-> TRUE]
  BY <1>1
<1>3. HasFields(v, runs, j, "starting", offset, offset, offset, <<>>,
                FALSE, TRUE)
  BY <1>2, FieldsOfWalk
<1>4. QED
  BY <1>3 DEF j

LEMMA FieldsOfFirst ==
    ASSUME NEW runs, NEW d, NEW v, v = VisitFirstLeaf(runs, d),
           NEW i, i = IdxAtAnchor(runs, d.start, "right"), ~runs[i].del,
           NEW offset, offset = OffsetOfLeaf(runs, i),
           NEW known, known = KnownTo(d, runs[i]),
           NEW from, from = d.start.offset - runs[i].start,
           NEW up_to, up_to = IF runs[i].end > known THEN known - runs[i].start
                              ELSE RunLen(runs[i]),
           from < up_to,
           NEW ranges,
           ranges = IF runs[i].end > known
                    THEN Append(<<>>, [start |-> offset + from,
                                       end |-> offset + up_to])
                    ELSE <<>>
    PROVE  HasFields(v, DeleteRangeInLeaf(runs, i, from, up_to),
                     LeafAfterDeleted(runs, i, from, up_to),
                     IF runs[i].end > known THEN "skipping" ELSE "deleting",
                     offset + from, offset + from, offset + up_to, ranges,
                     FALSE, TRUE)
<1> DEFINE walk == [runs |-> runs, i |-> i, state |-> "starting",
                    from |-> offset, leaf_offset |-> offset,
                    visible_offset |-> offset, ranges |-> <<>>,
                    done |-> FALSE, sound |-> TRUE]
           a == IF runs[i].end > known
                THEN AddRange(walk, offset + from, offset + up_to) ELSE <<>>
           b == IF runs[i].end > known THEN "skipping" ELSE "deleting"
           c == offset + from
           e == offset + up_to
           w == DeleteLeafRange(walk, from, up_to)
<1>1. v = [w EXCEPT !.ranges = a, !.state = b, !.from = c,
                    !.leaf_offset = c, !.visible_offset = e]
  BY DEF VisitFirstLeaf
<1>2. a = ranges
  BY DEF AddRange
<1>3. /\ IsWalk(walk) /\ walk.runs = runs /\ walk.i = i /\ walk.done = FALSE
      /\ walk.sound = TRUE /\ walk.leaf_offset = offset
  BY DEF IsWalk
<1> HIDE DEF a, b, c, e, walk
<1>4. /\ IsWalk(w)
      /\ HasFields(w, DeleteRangeInLeaf(runs, i, from, up_to),
                   LeafAfterDeleted(runs, i, from, up_to),
                   walk.state, walk.from, walk.leaf_offset,
                   walk.visible_offset, walk.ranges, FALSE, TRUE)
  <2>1. IsRightOffset(walk) /\ ~walk.runs[walk.i].del /\ walk.sound
    BY <1>3 DEF IsRightOffset
  <2>2. /\ IsWalk(w)
        /\ HasFields(w, DeleteRangeInLeaf(walk.runs, walk.i, from, up_to),
                     LeafAfterDeleted(walk.runs, walk.i, from, up_to),
                     walk.state, walk.from, walk.leaf_offset,
                     walk.visible_offset, walk.ranges, walk.done, TRUE)
    BY <2>1, <1>3, FieldsOfDeletedRange
  <2>3. QED
    BY <2>2, <1>3
<1> HIDE DEF w
<1>5. v = [runs |-> w.runs, i |-> w.i, state |-> b, from |-> c,
           leaf_offset |-> c, visible_offset |-> e, ranges |-> a,
           done |-> w.done, sound |-> w.sound]
  BY <1>1, <1>4 DEF IsWalk
<1>6. HasFields(v, w.runs, w.i, b, c, c, e, a, w.done, w.sound)
  BY <1>5, FieldsOfWalk
<1>7. HasFields(v, DeleteRangeInLeaf(runs, i, from, up_to),
                LeafAfterDeleted(runs, i, from, up_to), b, c, c, e, ranges,
                FALSE, TRUE)
  BY <1>2, <1>4, <1>6 DEF HasFields
<1>8. QED
  BY <1>7 DEF b, c, e

------------------------------------------------------------------------------
(* The ranges.                                                             *)
OffsetRanges == [start : Nat, end : Nat]

RangesOK(ranges) == ranges \in Seq(OffsetRanges) /\ AreSeparate(ranges)

EndsBefore(ranges, x) == \A k \in DOMAIN ranges : ranges[k].end < x

NoRanges == RangesOK(<<>>) /\ \A x : EndsBefore(<<>>, x)

LEMMA NoRangesAreOK == NoRanges
<1>1. <<>> \in Seq(OffsetRanges) /\ DOMAIN <<>> = {}
  OBVIOUS
<1>2. AreSeparate(<<>>)
  BY <1>1 DEF AreSeparate
<1>3. QED
  BY <1>1, <1>2 DEF NoRanges, RangesOK, EndsBefore

LEMMA RangeAdded ==
    ASSUME NEW ranges, RangesOK(ranges), NEW start \in Nat, NEW end \in Nat,
           start < end, EndsBefore(ranges, start),
           NEW new, new = Append(ranges, [start |-> start, end |-> end])
    PROVE  /\ RangesOK(new)
           /\ EndsBefore(new, end + 1)
<1> DEFINE r == [start |-> start, end |-> end]
           n == Len(ranges)
<1>1. /\ ranges \in Seq(OffsetRanges) /\ n \in Nat
      /\ DOMAIN ranges = 1 .. n
      /\ r \in OffsetRanges /\ r.start = start /\ r.end = end
  BY LenProperties DEF RangesOK, OffsetRanges
<1>2. /\ new \in Seq(OffsetRanges) /\ Len(new) = n + 1
      /\ \A k \in 1 .. n : new[k] = ranges[k]
      /\ new[n + 1] = r
  BY <1>1
<1>3. DOMAIN new = 1 .. n + 1
  BY <1>2, LenProperties
<1>4. \A k \in 1 .. n : /\ ranges[k] \in OffsetRanges
                        /\ ranges[k].end < start
                        /\ ranges[k].start < ranges[k].end
                        /\ ranges[k].start \in Nat /\ ranges[k].end \in Nat
  <2>1. \A k \in 1 .. n : ranges[k] \in OffsetRanges
    BY <1>1, ElementOfSeq
  <2>2. QED
    BY <2>1, <1>1 DEF RangesOK, AreSeparate, EndsBefore, OffsetRanges
<1>5. \A i, j \in 1 .. n : i < j => ranges[i].end < ranges[j].start
  BY <1>1 DEF RangesOK, AreSeparate
<1> HIDE DEF n, r
<1>6. \A k \in DOMAIN new : new[k].start < new[k].end /\ new[k].end < end + 1
  <2>1. TAKE k \in DOMAIN new
  <2>2. CASE k = n + 1
    BY <2>2, <1>1, <1>2
  <2>3. CASE k \in 1 .. n
    BY <2>3, <1>2, <1>4
  <2>4. QED
    BY <2>2, <2>3, <1>1, <1>3
<1>7. \A i, j \in DOMAIN new : i < j => new[i].end < new[j].start
  <2>1. TAKE i \in DOMAIN new, j \in DOMAIN new
  <2>2. HAVE i < j
  <2>3. i \in 1 .. n
    BY <2>2, <1>1, <1>3
  <2>4. CASE j = n + 1
    BY <2>3, <2>4, <1>1, <1>2, <1>4
  <2>5. CASE j \in 1 .. n
    BY <2>2, <2>3, <2>5, <1>2, <1>5
  <2>6. QED
    BY <2>4, <2>5, <1>1, <1>3
<1>8. QED
  BY <1>2, <1>6, <1>7 DEF RangesOK, AreSeparate, EndsBefore

LEMMA EndsBeforeLater ==
    ASSUME NEW ranges, RangesOK(ranges), NEW x \in Nat, NEW y \in Nat, x <= y,
           EndsBefore(ranges, x)
    PROVE  EndsBefore(ranges, y)
<1>1. /\ DOMAIN ranges = 1 .. Len(ranges) /\ ranges \in Seq(OffsetRanges)
  BY LenProperties DEF RangesOK
<1>2. \A k \in 1 .. Len(ranges) : ranges[k] \in OffsetRanges
  BY <1>1, ElementOfSeq
<1>3. QED
  BY <1>1, <1>2 DEF EndsBefore, OffsetRanges

------------------------------------------------------------------------------
(* What is right of a walk that is not done: it knows the visible text     *)
(* before its leaf, also as it was before anything was deleted, and all    *)
(* ranges end before what it deletes next.  A range may end right there    *)
(* only at a leaf of which the sender had nothing: it is not deleted.      *)
IsAtRest(w, d) ==
    ~w.runs[w.i].del /\ KnownTo(d, w.runs[w.i]) <= w.runs[w.i].start

OffsetsOK(w, d) ==
    LET from == DeletingFrom(w)
    IN  /\ IsRightOffset(w)
        /\ w.visible_offset \in Nat /\ from \in Nat
        /\ from <= w.visible_offset
        /\ w.state = "deleting" => from < w.visible_offset
        /\ \/ EndsBefore(w.ranges, from)
           \/ /\ w.state # "deleting" /\ EndsBefore(w.ranges, from + 1)
              /\ IsAtRest(w, d)

WalkOK(w, d) ==
    w.sound /\ RangesOK(w.ranges) /\ (~w.done => OffsetsOK(w, d))

LEMMA RangeEnded ==
    ASSUME NEW d, NEW w, RangesOK(w.ranges), OffsetsOK(w, d)
    PROVE  /\ RangesOK(EndRange(w))
           /\ EndsBefore(EndRange(w), w.visible_offset + 1)
<1>1. /\ w.visible_offset \in Nat /\ w.visible_offset + 1 \in Nat
  BY DEF OffsetsOK
<1>2. CASE w.state = "deleting"
  <2>1. /\ w.from \in Nat /\ w.from < w.visible_offset
        /\ EndsBefore(w.ranges, w.from)
    BY <1>2 DEF OffsetsOK, DeletingFrom
  <2>2. EndRange(w) = Append(w.ranges, [start |-> w.from,
                                        end |-> w.visible_offset])
    BY <1>2 DEF EndRange, AddRange
  <2>3. QED
    BY <1>1, <2>1, <2>2, RangeAdded
<1>3. CASE w.state # "deleting"
  <2>1. EndRange(w) = w.ranges
    BY <1>3 DEF EndRange
  <2>2. EndsBefore(w.ranges, w.visible_offset)
        \/ EndsBefore(w.ranges, w.visible_offset + 1)
    BY <1>3 DEF OffsetsOK, DeletingFrom
  <2>3. EndsBefore(w.ranges, w.visible_offset + 1)
    BY <1>1, <2>2, EndsBeforeLater
  <2>4. QED
    BY <2>1, <2>3
<1>4. QED
  BY <1>2, <1>3

(* A range that ends with the leaf's first characters.                     *)
LEMMA RangeEndedInLeaf ==
    ASSUME NEW d, NEW w, RangesOK(w.ranges), OffsetsOK(w, d), ~IsAtRest(w, d),
           NEW up_to \in Nat, 0 < up_to,
           NEW ranges, ranges = AddRange(w, DeletingFrom(w),
                                         w.visible_offset + up_to)
    PROVE  /\ RangesOK(ranges)
           /\ EndsBefore(ranges, (w.visible_offset + up_to) + 1)
<1>1. PICK from, visible : from = DeletingFrom(w) /\ visible = w.visible_offset
  OBVIOUS
<1>2. /\ from \in Nat /\ visible \in Nat /\ from <= visible
      /\ EndsBefore(w.ranges, from)
  BY <1>1 DEF OffsetsOK
<1>3. visible + up_to \in Nat /\ from < visible + up_to
  BY <1>2
<1>4. ranges = Append(w.ranges, [start |-> from, end |-> visible + up_to])
  BY <1>1 DEF AddRange
<1>5. QED
  BY <1>1, <1>2, <1>3, <1>4, RangeAdded

LEMMA OffsetPastTombstone ==
    ASSUME NEW runs \in Seq(Runs), NEW i \in 1 .. Len(runs), runs[i].del
    PROVE  OffsetOfLeaf(runs, i + 1) = OffsetOfLeaf(runs, i)
<1>1. /\ OffsetOfLeaf(runs, i + 1) = OffsetOfLeaf(runs, i) + VisibleLen(runs[i])
      /\ OffsetOfLeaf(runs, i) \in Nat
  BY OffsetsOfLeaves, LenProperties
<1>2. VisibleLen(runs[i]) = 0
  BY DEF VisibleLen
<1>3. QED
  BY <1>1, <1>2

LEMMA OffsetPastWholeLeaf ==
    ASSUME NEW runs \in Seq(Runs), NEW i \in 1 .. Len(runs),
           NEW new, new = [runs EXCEPT ![i].del = TRUE]
    PROVE  OffsetOfLeaf(new, i + 1) = OffsetOfLeaf(runs, i)
<1>1. /\ runs[i] \in Runs /\ DOMAIN runs = 1 .. Len(runs) /\ Len(runs) \in Nat
  BY ElementOfSeq, LenProperties
<1>2. PICK e : e = [runs[i] EXCEPT !.del = TRUE]
  OBVIOUS
<1>3. e \in Runs /\ e.del
  <2>1. e \in RunType /\ e.del /\ e.start = runs[i].start /\ e.end = runs[i].end
        /\ e.id = runs[i].id /\ e.ts = runs[i].ts /\ e.lam = runs[i].lam
    BY <1>1, <1>2 DEF Runs, RunType
  <2>2. QED
    BY <2>1, <1>1 DEF Runs, IsInitialAndEmpty
<1>4. new = [runs EXCEPT ![i] = e]
  BY <1>2
<1>5. /\ new \in Seq(Runs) /\ Len(new) = Len(runs)
      /\ \A k \in 1 .. Len(runs) : new[k] = IF k = i THEN e ELSE runs[k]
  <2>1. PICK other : other = [runs EXCEPT ![i] = e]
    OBVIOUS
  <2>2. /\ other \in Seq(Runs) /\ Len(other) = Len(runs)
        /\ \A k \in 1 .. Len(runs) : other[k] = IF k = i THEN e ELSE runs[k]
    BY <2>1, <1>1, <1>3, ExceptSeq, LenProperties
  <2>3. new = other
    BY <2>1, <1>4
  <2>4. QED
    BY <2>2, <2>3
<1>6. OffsetOfLeaf(new, i) = OffsetOfLeaf(runs, i)
  <2>1. \A k \in 1 .. i - 1 : new[k] = runs[k]
    BY <1>1, <1>5
  <2>2. i \in 1 .. Len(runs) + 1 /\ i \in 1 .. Len(new) + 1 /\ i \in Nat
    BY <1>1, <1>5
  <2>3. QED
    BY <2>1, <2>2, <1>5, SameOffsets
<1>7. new[i].del /\ i \in 1 .. Len(new)
  BY <1>3, <1>5
<1>8. QED
  BY <1>5, <1>6, <1>7, OffsetPastTombstone

(* The visit of a leaf between the first one and the last.                 *)
LEMMA InnerLeafIsRight ==
    ASSUME NEW order, NEW w, IsWalk(w), WellFormed(order, w.runs),
           NEW d, d.version_map \in [ReplicaIds -> Nat],
           w.i \in 1 .. Len(w.runs) - 1,
           w.i # IdxAtAnchor(w.runs, d.end, "left"),
           ~w.done, WalkOK(w, d), NEW v, v = VisitLeaf(w, d)
    PROVE  WalkOK(v, d)
<1>1. PICK runs, i : runs = w.runs /\ i = w.i
  OBVIOUS
<1>2. PICK run, len, known, visible, from :
         /\ run = runs[i] /\ len = RunLen(run) /\ known = KnownTo(d, run)
         /\ visible = w.visible_offset /\ from = DeletingFrom(w)
  OBVIOUS
<1>3. /\ runs \in Seq(Runs) /\ Len(runs) \in Nat /\ i \in 1 .. Len(runs)
      /\ i \in Nat /\ i + 1 \in 1 .. Len(runs) /\ i < Len(runs)
      /\ ~(w.i > Len(w.runs))
  BY <1>1, LenProperties DEF WellFormed
<1>4. /\ run \in Runs /\ run.start \in Nat /\ run.end \in Nat /\ len \in Nat
      /\ run.end = run.start + len /\ 0 < len /\ known \in Nat
  <2>0. run \in Runs
    <3>1. runs[i] \in Runs
      BY <1>3, ElementOfSeq
    <3>2. QED
      BY <3>1, <1>2
  <2>1. run \in Runs /\ run.id \in ReplicaIds
    BY <2>0 DEF Runs, RunType
  <2>2. /\ run.start \in Nat /\ len \in Nat /\ run.end = run.start + len
    BY <2>1, <1>2, RunLength
  <2>3. run.start < run.end
    BY <1>1, <1>2, <1>3 DEF WellFormed, OnlyLastIsEmpty
  <2>4. known \in Nat
    BY <1>2, <2>1 DEF KnownTo
  <2>5. QED
    BY <2>1, <2>2, <2>3, <2>4
<1>5. /\ w.sound /\ RangesOK(w.ranges) /\ OffsetsOK(w, d)
      /\ IsRightOffset(w) /\ visible \in Nat /\ from \in Nat /\ from <= visible
      /\ w.state = "deleting" => from < visible
  BY <1>2 DEF WalkOK, OffsetsOK
<1>6. /\ w.leaf_offset = OffsetOfLeaf(runs, i) /\ OffsetOfLeaf(runs, i) \in Nat
  BY <1>1, <1>3, <1>5, OffsetsOfLeaves, LenProperties DEF IsRightOffset
<1>7. CASE run.del
  <2>1. HasFields(v, w.runs, w.i + 1, w.state, w.from, w.leaf_offset,
                  w.visible_offset, w.ranges, w.done, w.sound)
    BY <1>1, <1>2, <1>3, <1>7, FieldsOfPassed
  <2>2. OffsetOfLeaf(runs, i + 1) = OffsetOfLeaf(runs, i)
    BY <1>2, <1>3, <1>7, OffsetPastTombstone
  <2>3. IsRightOffset(v) /\ DeletingFrom(v) = from
    BY <2>1, <2>2, <1>1, <1>2, <1>6 DEF IsRightOffset, HasFields, DeletingFrom
  <2>4. EndsBefore(w.ranges, from)
    BY <1>1, <1>2, <1>5, <1>7 DEF OffsetsOK, IsAtRest
  <2>5. OffsetsOK(v, d)
    BY <2>1, <2>3, <2>4, <1>2, <1>5 DEF HasFields, OffsetsOK
  <2>6. QED
    BY <2>1, <2>5, <1>5 DEF HasFields, WalkOK
<1>8. CASE ~run.del /\ run.end <= known
  <2>1. PICK new : new = [runs EXCEPT ![i].del = TRUE]
    OBVIOUS
  <2>2. HasFields(v, new, i + 1, "deleting", from, w.leaf_offset,
                  visible + len, w.ranges, w.done, w.sound)
    BY <2>1, <1>1, <1>2, <1>3, <1>8, FieldsOfWholeLeaf
  <2>3. OffsetOfLeaf(new, i + 1) = OffsetOfLeaf(runs, i)
    BY <2>1, <1>3, OffsetPastWholeLeaf
  <2>4. IsRightOffset(v) /\ DeletingFrom(v) = from
    BY <2>2, <2>3, <1>6 DEF IsRightOffset, HasFields, DeletingFrom
  <2>5. EndsBefore(w.ranges, from)
    <3>1. ~IsAtRest(w, d)
      BY <1>1, <1>2, <1>4, <1>8 DEF IsAtRest
    <3>2. QED
      BY <3>1, <1>2, <1>5 DEF OffsetsOK
  <2>6. visible + len \in Nat /\ from < visible + len /\ from <= visible + len
    BY <1>4, <1>5
  <2>7. OffsetsOK(v, d)
    BY <2>2, <2>4, <2>5, <2>6, <1>5 DEF HasFields, OffsetsOK
  <2>8. QED
    BY <2>2, <2>7, <1>5 DEF HasFields, WalkOK
<1>9. CASE ~run.del /\ ~(run.end <= known) /\ run.start >= known
  <2>1. HasFields(v, runs, i + 1, "skipping", w.from, w.leaf_offset + len,
                  visible + len, EndRange(w), w.done, w.sound)
    BY <1>1, <1>2, <1>3, <1>9, FieldsOfSkipped
  <2>2. OffsetOfLeaf(runs, i + 1) = OffsetOfLeaf(runs, i) + len
    BY <1>2, <1>3, <1>9, OffsetsOfLeaves DEF VisibleLen
  <2>3. IsRightOffset(v) /\ DeletingFrom(v) = visible + len
    BY <2>1, <2>2, <1>6 DEF IsRightOffset, HasFields, DeletingFrom
  <2>4. RangesOK(EndRange(w)) /\ EndsBefore(EndRange(w), visible + 1)
    BY <1>2, <1>5, RangeEnded
  <2>5. visible + 1 \in Nat /\ visible + len \in Nat /\ visible + 1 <= visible + len
    BY <1>4, <1>5
  <2>6. EndsBefore(EndRange(w), visible + len)
    BY <2>4, <2>5, EndsBeforeLater
  <2>7. OffsetsOK(v, d)
    BY <2>1, <2>3, <2>5, <2>6 DEF HasFields, OffsetsOK
  <2>8. QED
    BY <2>1, <2>4, <2>7, <1>5 DEF HasFields, WalkOK
<1>10. CASE ~run.del /\ ~(run.end <= known) /\ ~(run.start >= known)
  <2>1. PICK up_to : up_to = known - run.start
    OBVIOUS
  <2>2. /\ up_to \in Nat /\ 0 < up_to /\ up_to < len /\ up_to <= len
        /\ run.start + up_to = known
    BY <2>1, <1>4, <1>10
  <2>3. PICK new, j, ranges :
           /\ new = DeleteRangeInLeaf(runs, i, 0, up_to)
           /\ j = LeafAfterDeleted(runs, i, 0, up_to)
           /\ ranges = AddRange(w, DeletingFrom(w), w.visible_offset + up_to)
    OBVIOUS
  <2>4. HasFields(v, new, j, "skipping", w.from, w.leaf_offset,
                  visible + up_to, ranges, w.done, TRUE)
    BY <2>1, <2>2, <2>3, <1>1, <1>2, <1>3, <1>5, <1>10, FieldsOfHead
  <2>5. IsMovedOn(runs, i, 0, up_to, new, j)
    BY <2>2, <2>3, <1>2, <1>3, <1>10, RangeMovesOn
  <2>6. /\ OffsetOfLeaf(new, j) = OffsetOfLeaf(runs, i)
        /\ ~new[j].del /\ new[j].id = run.id /\ new[j].start = known
    BY <2>2, <2>5, <1>2, <1>6 DEF IsMovedOn, IsRestAt
  <2>7. IsRightOffset(v) /\ DeletingFrom(v) = visible + up_to
    BY <2>4, <2>6, <1>6 DEF IsRightOffset, HasFields, DeletingFrom
  <2>8. IsAtRest(v, d)
    <3>1. KnownTo(d, new[j]) = known
      BY <2>6, <1>2 DEF KnownTo
    <3>2. QED
      BY <3>1, <2>4, <2>6, <1>4 DEF HasFields, IsAtRest
  <2>9. ~IsAtRest(w, d)
    BY <1>1, <1>2, <1>4, <1>10 DEF IsAtRest
  <2>10. RangesOK(ranges) /\ EndsBefore(ranges, (visible + up_to) + 1)
    BY <2>2, <2>3, <2>9, <1>2, <1>5, RangeEndedInLeaf
  <2>11. visible + up_to \in Nat
    BY <2>2, <1>5
  <2>12. OffsetsOK(v, d)
    BY <2>4, <2>7, <2>8, <2>10, <2>11 DEF HasFields, OffsetsOK
  <2>13. QED
    BY <2>4, <2>10, <2>12 DEF HasFields, WalkOK
<1>11. QED
  BY <1>7, <1>8, <1>9, <1>10

(* The visit of the last leaf, of which the sender had some.               *)
LEMMA LastLeafIsRight ==
    ASSUME NEW w, IsWalk(w), NEW d, w.i \in 1 .. Len(w.runs),
           Len(w.runs) \in Nat, w.i = IdxAtAnchor(w.runs, d.end, "left"),
           ~w.done, WalkOK(w, d), ~IsAtRest(w, d),
           d.end.offset - w.runs[w.i].start \in Nat,
           0 < d.end.offset - w.runs[w.i].start,
           NEW v, v = VisitLeaf(w, d)
    PROVE  WalkOK(v, d)
<1>1. PICK up_to : up_to = d.end.offset - w.runs[w.i].start
  OBVIOUS
<1>2. up_to \in Nat /\ 0 < up_to /\ ~(w.i > Len(w.runs))
  BY <1>1
<1>3. w.sound /\ RangesOK(w.ranges) /\ OffsetsOK(w, d) /\ IsRightOffset(w)
  BY DEF WalkOK, OffsetsOK
<1>4. /\ v.done /\ v.sound
      /\ v.ranges = IF w.runs[w.i].del THEN EndRange(w)
                    ELSE AddRange(w, DeletingFrom(w),
                                  w.visible_offset + up_to)
  BY <1>1, <1>2, <1>3, FieldsOfLast
<1>5. RangesOK(v.ranges)
  <2>1. CASE w.runs[w.i].del
    BY <2>1, <1>3, <1>4, RangeEnded
  <2>2. CASE ~w.runs[w.i].del
    BY <2>2, <1>2, <1>3, <1>4, RangeEndedInLeaf
  <2>3. QED
    BY <2>1, <2>2
<1>6. QED
  BY <1>4, <1>5 DEF WalkOK

(* Where the characters the sender had end inside a leaf, they are the     *)
(* first ones of the leaf.                                                 *)
LEMMA KnownPartOfLeaf ==
    ASSUME NEW start \in Nat, NEW len \in Nat, NEW at \in Nat,
           NEW known \in Nat, start <= at, at < known, known < start + len
    PROVE  /\ known - start \in Nat /\ at - start < known - start
           /\ known - start < len /\ start + (known - start) = known
OBVIOUS

(* The visit of the first leaf, of which the sender had some.              *)
LEMMA FirstLeafIsRight ==
    ASSUME NEW runs \in Seq(Runs), NEW d, NEW i \in 1 .. Len(runs) - 1,
           i = IdxAtAnchor(runs, d.start, "right"),
           d.start.offset \in Nat, runs[i].start <= d.start.offset,
           d.start.offset < runs[i].end,
           d.start.offset < KnownTo(d, runs[i]), KnownTo(d, runs[i]) \in Nat,
           NEW v, v = VisitFirstLeaf(runs, d)
    PROVE  WalkOK(v, d)
<1>1. PICK run, len, known, offset, from, up_to :
         /\ run = runs[i] /\ len = RunLen(run) /\ known = KnownTo(d, run)
         /\ offset = OffsetOfLeaf(runs, i)
         /\ from = d.start.offset - run.start
         /\ up_to = IF run.end > known THEN known - run.start ELSE len
  OBVIOUS
<1>2. /\ Len(runs) \in Nat /\ i \in 1 .. Len(runs) /\ i < Len(runs)
      /\ offset \in Nat
  <2>1. Len(runs) \in Nat
    BY LenProperties
  <2>2. i \in 1 .. Len(runs) /\ i \in 1 .. Len(runs) + 1 /\ i < Len(runs)
    BY <2>1
  <2>3. QED
    BY <2>1, <2>2, <1>1, OffsetsOfLeaves
<1>3. /\ run.start \in Nat /\ len \in Nat /\ run.end = run.start + len
  <2>1. runs[i] \in Runs
    BY <1>2, ElementOfSeq
  <2>2. QED
    BY <2>1, <1>1, RunLength
<1>4. /\ from \in Nat /\ up_to \in Nat /\ from < up_to /\ up_to <= len
      /\ run.end > known => up_to < len /\ run.start + up_to = known
      /\ ~(run.end > known) => up_to = len
      /\ known \in Nat
  <2>1. /\ d.start.offset \in Nat /\ run.start <= d.start.offset
        /\ d.start.offset < run.end /\ d.start.offset < known
        /\ known \in Nat
    BY <1>1
  <2>2. from = d.start.offset - run.start
    BY <1>1
  <2>3. from \in Nat /\ from < len /\ run.end \in Nat
    BY <2>1, <2>2, <1>3, SMTT(30)
  <2>4. CASE run.end > known
    <3>1. up_to = known - run.start
      BY <2>4, <1>1
    <3>2. known < run.start + len
      BY <2>4, <1>3
    <3>3. /\ known - run.start \in Nat
          /\ d.start.offset - run.start < known - run.start
          /\ known - run.start < len /\ run.start + (known - run.start) = known
      BY <3>2, <2>1, <1>3, KnownPartOfLeaf, SMTT(30)
    <3>4. /\ up_to \in Nat /\ from < up_to /\ up_to < len
          /\ run.start + up_to = known
      BY <3>1, <3>3, <2>2
    <3>5. up_to <= len
      BY <3>4, <1>3
    <3>6. QED
      BY <3>4, <3>5, <2>1, <2>3, <2>4
  <2>5. CASE ~(run.end > known)
    <3>1. up_to = len
      BY <2>5, <1>1
    <3>2. QED
      BY <3>1, <2>5, <2>3, <2>1, <1>3
  <2>6. QED
    BY <2>4, <2>5
<1>5. CASE runs[i].del
  <2>1. HasFields(v, runs, i + 1, "starting", offset, offset, offset, <<>>,
                  FALSE, TRUE)
    BY <1>1, <1>5, FieldsOfFirstPassed
  <2>2. OffsetOfLeaf(runs, i + 1) = offset
    BY <1>1, <1>2, <1>5, OffsetPastTombstone
  <2>3. IsRightOffset(v) /\ DeletingFrom(v) = offset
    BY <2>1, <2>2 DEF IsRightOffset, HasFields, DeletingFrom
  <2>4. RangesOK(v.ranges) /\ EndsBefore(v.ranges, offset)
    BY <2>1, NoRangesAreOK DEF NoRanges, HasFields
  <2>5. OffsetsOK(v, d)
    BY <2>1, <2>3, <2>4, <1>2 DEF HasFields, OffsetsOK
  <2>6. QED
    BY <2>1, <2>4, <2>5 DEF HasFields, WalkOK
<1>6. CASE ~runs[i].del
  <2>1. PICK new, j, state, ranges, start, end :
           /\ new = DeleteRangeInLeaf(runs, i, from, up_to)
           /\ j = LeafAfterDeleted(runs, i, from, up_to)
           /\ state = IF run.end > known THEN "skipping" ELSE "deleting"
           /\ start = offset + from /\ end = offset + up_to
           /\ ranges = IF run.end > known
                       THEN Append(<<>>, [start |-> start, end |-> end])
                       ELSE <<>>
    OBVIOUS
  <2>2. HasFields(v, new, j, state, start, start, end, ranges, FALSE, TRUE)
    <3>1. /\ known = KnownTo(d, runs[i])
          /\ from = d.start.offset - runs[i].start
          /\ up_to = IF runs[i].end > known THEN known - runs[i].start
                     ELSE RunLen(runs[i])
          /\ ranges = IF runs[i].end > known
                      THEN Append(<<>>, [start |-> offset + from,
                                         end |-> offset + up_to])
                      ELSE <<>>
      BY <2>1, <1>1
    <3>2. HasFields(v, DeleteRangeInLeaf(runs, i, from, up_to),
                    LeafAfterDeleted(runs, i, from, up_to),
                    IF runs[i].end > known THEN "skipping" ELSE "deleting",
                    offset + from, offset + from, offset + up_to, ranges,
                    FALSE, TRUE)
      BY <3>1, <1>1, <1>4, <1>6, FieldsOfFirst, Zenon
    <3>3. QED
      BY <3>2, <2>1, <1>1
  <2>3. IsMovedOn(runs, i, from, up_to, new, j)
    BY <2>1, <1>1, <1>2, <1>4, <1>6, RangeMovesOn
  <2>4. OffsetOfLeaf(new, j) = start
    BY <2>1, <2>3, <1>1 DEF IsMovedOn
  <2>5. IsRightOffset(v)
    BY <2>2, <2>4 DEF IsRightOffset, HasFields
  <2>6. /\ start \in Nat /\ end \in Nat /\ start < end /\ start <= end
        /\ end <= end
    BY <2>1, <1>2, <1>4
  <2>7. CASE run.end > known
    <3>1. ranges = Append(<<>>, [start |-> start, end |-> end])
          /\ state = "skipping"
      BY <2>1, <2>7
    <3>2. RangesOK(<<>>) /\ EndsBefore(<<>>, start)
      BY NoRangesAreOK DEF NoRanges
    <3>3. RangesOK(ranges) /\ EndsBefore(ranges, end + 1)
      BY <3>1, <3>2, <2>6, RangeAdded
    <3>4. DeletingFrom(v) = end
      BY <3>1, <2>2 DEF HasFields, DeletingFrom
    <3>5. ~new[j].del /\ new[j].id = run.id /\ new[j].start = known
      BY <2>3, <2>7, <1>1, <1>4 DEF IsMovedOn, IsRestAt
    <3>6. KnownTo(d, new[j]) = known
      BY <3>5, <1>1 DEF KnownTo
    <3>7. IsAtRest(v, d)
      BY <3>5, <3>6, <2>2, <1>4 DEF HasFields, IsAtRest
    <3>8. OffsetsOK(v, d)
      BY <3>1, <3>3, <3>4, <3>7, <2>2, <2>5, <2>6 DEF HasFields, OffsetsOK
    <3>9. QED
      BY <3>3, <3>8, <2>2 DEF HasFields, WalkOK
  <2>8. CASE ~(run.end > known)
    <3>1. ranges = <<>> /\ state = "deleting"
      BY <2>1, <2>8
    <3>2. RangesOK(ranges) /\ EndsBefore(ranges, start)
      BY <3>1, NoRangesAreOK DEF NoRanges
    <3>3. DeletingFrom(v) = start
      BY <3>1, <2>2 DEF HasFields, DeletingFrom
    <3>4. OffsetsOK(v, d)
      BY <3>1, <3>2, <3>3, <2>2, <2>5, <2>6 DEF HasFields, OffsetsOK
    <3>5. QED
      BY <3>2, <3>4, <2>2 DEF HasFields, WalkOK
  <2>9. QED
    BY <2>7, <2>8
<1>7. QED
  BY <1>5, <1>6

------------------------------------------------------------------------------
(* All visits together.                                                    *)
(* The first leaf has the deletion's start, and is not the last one.       *)
IsFirstLeaf(runs, d, i) ==
    /\ i = IdxAtAnchor(runs, d.start, "right") /\ i \in 1 .. Len(runs) - 1
    /\ d.start.offset \in Nat /\ runs[i].start <= d.start.offset
    /\ d.start.offset < runs[i].end /\ d.start.offset < KnownTo(d, runs[i])
    /\ KnownTo(d, runs[i]) \in Nat

LEMMA WalkHasFirstLeaf ==
    ASSUME NEW order, KeepsRuns(order), NEW runs, WellFormed(order, runs),
           NEW d, NEW s, NEW e,
           IsDeletionIn(order, DocumentMarks(runs), d, s, e), IsKnownTo(d, s),
           ~ContainsAnchor(runs[IdxAtAnchor(runs, d.start, "right")], d.end)
    PROVE  \E i : IsFirstLeaf(runs, d, i)
<1>1. PICK i : i = IdxAtAnchor(runs, d.start, "right")
  OBVIOUS
<1> DEFINE run == runs[i]
           marks == DocumentMarks(runs)
<1>2. /\ MarksHaveOnePlace(marks) /\ IsStrictOrder(order, marks)
      /\ d.start.offset \in Nat /\ s \in marks /\ AnchoredAt(d.start, "right", s)
      /\ d.end.offset \in Nat /\ e \in marks /\ AnchoredAt(d.end, "left", e)
      /\ (s = e \/ <<s, e>> \in order)
      /\ d.version_map \in [ReplicaIds -> Nat]
  BY DEF IsDeletionIn
<1>3. /\ runs \in Seq(Runs) /\ Len(runs) \in Nat /\ DOMAIN runs = 1 .. Len(runs)
  BY LenProperties DEF WellFormed
<1>4. i \in 1 .. Len(runs) /\ s \in RunMarks(run)
  BY <1>1, <1>2, LeafOfMark
<1>5. run \in Runs /\ run \in RunType
  BY <1>3, <1>4, ElementOfSeq DEF Runs
<1>6. s \in Mark /\ Covers(run, s) /\ s.at = d.start.offset
  BY <1>2, <1>4, <1>5, MarkOfRun DEF AnchoredAt
<1>7. /\ run.start <= d.start.offset /\ d.start.offset < run.end
      /\ d.start.offset < KnownTo(d, run) /\ KnownTo(d, run) \in Nat
  <2>1. s.id = run.id /\ run.start <= s.at /\ s.at < run.end
    BY <1>6 DEF Covers
  <2>2. KnownTo(d, run) = d.version_map[s.id]
    BY <2>1 DEF KnownTo
  <2>3. KnownTo(d, run) \in Nat
    BY <2>2, <1>2, <1>6 DEF Mark
  <2>4. s.at < KnownTo(d, run)
    BY <2>2 DEF IsKnownTo
  <2>5. QED
    BY <2>1, <2>3, <2>4, <1>6
<1>8. e \notin RunMarks(run)
  <2>1. SUFFICES ASSUME e \in RunMarks(run) PROVE FALSE
    OBVIOUS
  <2>2. e \in Mark /\ Covers(run, e) /\ e.at + 1 = d.end.offset
        /\ e.id = d.end.id
    BY <2>1, <1>2, <1>5, MarkOfRun DEF AnchoredAt
  <2>3. ContainsAnchor(run, d.end)
    BY <2>2, <1>2, <1>5 DEF ContainsAnchor, Covers, Mark, RunType
  <2>4. QED
    BY <2>3, <1>1
<1>9. IsLeafApart(order, MarksUpTo(runs, i), RunMarks(run), MarksFrom(runs, i + 1))
  BY <1>4, LeafIsApart
<1>10. marks = MarksUpTo(runs, i) \cup RunMarks(run) \cup MarksFrom(runs, i + 1)
  BY <1>3, <1>4, MarksBeside
<1>11. e \in MarksFrom(runs, i + 1)
  <2>1. e \notin MarksUpTo(runs, i)
    BY <1>2, <1>4, <1>8, <1>9 DEF IsLeafApart, IsStrictOrder
  <2>2. QED
    BY <2>1, <1>2, <1>8, <1>10
<1>12. i \in 1 .. Len(runs) - 1
  <2>1. i + 1 \in 1 .. Len(runs) + 1
    BY <1>3, <1>4
  <2>2. PICK k \in i + 1 .. Len(runs) : e \in RunMarks(runs[k])
    BY <1>3, <1>11, <2>1, MarksAround
  <2>3. QED
    BY <1>3, <1>4, <2>2
<1> HIDE DEF marks
<1>13. IsFirstLeaf(runs, d, i)
  BY <1>1, <1>2, <1>7, <1>12 DEF IsFirstLeaf
<1>14. QED
  BY <1>13

LEMMA WalkStartsRight ==
    ASSUME NEW order, KeepsRuns(order), NEW runs, WellFormed(order, runs),
           NEW d, NEW s, NEW e,
           IsDeletionIn(order, DocumentMarks(runs), d, s, e), IsKnownTo(d, s),
           ~ContainsAnchor(runs[IdxAtAnchor(runs, d.start, "right")], d.end),
           NEW v, v = VisitFirstLeaf(runs, d)
    PROVE  WalkOK(v, d)
<1>1. PICK i : IsFirstLeaf(runs, d, i)
  BY WalkHasFirstLeaf
<1>2. runs \in Seq(Runs)
  BY DEF WellFormed
<1>3. QED
  BY <1>1, <1>2, FirstLeafIsRight DEF IsFirstLeaf

(* The leaf a walk is at is the last one, which has the deletion's end, or *)
(* there is another leaf behind it.                                        *)
IsInnerLeaf(w, d) ==
    /\ w.i # IdxAtAnchor(w.runs, d.end, "left") /\ w.i \in 1 .. Len(w.runs) - 1

IsLastLeaf(w, d) ==
    /\ w.i = IdxAtAnchor(w.runs, d.end, "left") /\ ~IsAtRest(w, d)
    /\ d.end.offset - w.runs[w.i].start \in Nat
    /\ 0 < d.end.offset - w.runs[w.i].start
    /\ d.end.offset - w.runs[w.i].start <= RunLen(w.runs[w.i])

LEMMA WalkIsAtLeaf ==
    ASSUME NEW order, KeepsRuns(order), NEW w, WellFormed(order, w.runs),
           NEW d, NEW s, NEW e,
           IsDeletionIn(order, DocumentMarks(w.runs), d, s, e),
           w.i \in 1 .. Len(w.runs), e \in MarksFrom(w.runs, w.i)
    PROVE  IsInnerLeaf(w, d) \/ IsLastLeaf(w, d)
<1>1. PICK runs, i : runs = w.runs /\ i = w.i
  OBVIOUS
<1> DEFINE run == runs[i]
           marks == DocumentMarks(runs)
           last == IdxAtAnchor(runs, d.end, "left")
<1>2. /\ MarksHaveOnePlace(marks) /\ IsStrictOrder(order, marks)
      /\ d.end.offset \in Nat /\ e \in marks /\ AnchoredAt(d.end, "left", e)
      /\ e.at < d.version_map[e.id] /\ d.version_map \in [ReplicaIds -> Nat]
  BY <1>1 DEF IsDeletionIn, IsKnownTo
<1>3. /\ runs \in Seq(Runs) /\ Len(runs) \in Nat /\ i \in 1 .. Len(runs)
      /\ WellFormed(order, runs)
  BY <1>1, LenProperties DEF WellFormed
<1>4. run \in Runs /\ run \in RunType
  BY <1>3, ElementOfSeq DEF Runs
<1>5. last \in 1 .. Len(runs) /\ e \in RunMarks(runs[last])
  BY <1>2, <1>3, LeafOfMark
<1>6. CASE i = last
  <2>1. e \in Mark /\ Covers(run, e) /\ e.at + 1 = d.end.offset
    BY <1>2, <1>4, <1>5, <1>6, MarkOfRun DEF AnchoredAt
  <2>2. /\ run.start \in Nat /\ run.end \in Nat /\ e.at \in Nat
        /\ run.start <= e.at /\ e.at < run.end
        /\ e.id = run.id /\ e.id \in ReplicaIds
    BY <2>1, <1>4 DEF Covers, Mark, RunType
  <2>3. /\ d.end.offset - run.start \in Nat /\ 0 < d.end.offset - run.start
    BY <2>1, <2>2, <1>2
  <2>4. d.end.offset - run.start <= RunLen(run)
    <3>1. RunLen(run) \in Nat /\ run.end = run.start + RunLen(run)
      BY <1>4, RunLength
    <3>2. d.end.offset <= run.end
      BY <2>1, <2>2
    <3>3. QED
      BY <3>1, <3>2, <2>2, <1>2
  <2>5. ~IsAtRest(w, d)
    <3>1. KnownTo(d, run) = d.version_map[e.id] /\ d.version_map[e.id] \in Nat
      BY <2>2, <1>2 DEF KnownTo
    <3>2. ~(KnownTo(d, run) <= run.start)
      BY <3>1, <2>2, <1>2
    <3>3. QED
      BY <3>2, <1>1 DEF IsAtRest
  <2> HIDE DEF marks
  <2>6. QED
    BY <2>3, <2>4, <2>5, <1>1, <1>6 DEF IsLastLeaf
<1>7. CASE i # last
  <2> HIDE DEF last
  <2>1. e \notin RunMarks(run)
    BY <1>2, <1>3, <1>5, <1>7, MarkHasOneLeaf
  <2>2. e \in MarksFrom(runs, i + 1)
    BY <2>1, <1>1, <1>3, MarksBeside
  <2>3. i \in 1 .. Len(runs) - 1
    <3>1. i + 1 \in 1 .. Len(runs) + 1
      BY <1>3
    <3>2. PICK k \in i + 1 .. Len(runs) : e \in RunMarks(runs[k])
      BY <1>3, <2>2, <3>1, MarksAround
    <3>3. QED
      BY <1>3, <3>2
  <2> HIDE DEF marks, run
  <2>4. QED
    BY <2>3, <1>1, <1>7 DEF last, IsInnerLeaf
<1>8. QED
  BY <1>6, <1>7

LEMMA WalkGoesOnRight ==
    ASSUME NEW order, KeepsRuns(order), NEW w, IsWalk(w),
           WellFormed(order, w.runs), NEW d, NEW s, NEW e,
           IsDeletionIn(order, DocumentMarks(w.runs), d, s, e),
           w.i \in 1 .. Len(w.runs), e \in MarksFrom(w.runs, w.i),
           ~w.done, WalkOK(w, d), NEW v, v = VisitLeaf(w, d)
    PROVE  WalkOK(v, d)
<1>1. IsInnerLeaf(w, d) \/ IsLastLeaf(w, d)
  BY WalkIsAtLeaf
<1>2. d.version_map \in [ReplicaIds -> Nat] /\ Len(w.runs) \in Nat
  BY LenProperties DEF IsDeletionIn, WellFormed
<1>3. CASE IsInnerLeaf(w, d)
  BY <1>2, <1>3, InnerLeafIsRight DEF IsInnerLeaf
<1>4. CASE IsLastLeaf(w, d)
  BY <1>2, <1>4, LastLeafIsRight DEF IsLastLeaf
<1>5. QED
  BY <1>1, <1>3, <1>4

(* A walk that deletes what it should, at the right offsets.               *)
IsMerging(order, w, marks, dead, d, s, e, n) ==
    IsDeleting(order, w, marks, dead, d, s, e, n) /\ WalkOK(w, d)

LEMMA MergingGoesOn ==
    ASSUME NEW order, KeepsRuns(order), NEW marks, NEW dead,
           NEW d, NEW s, NEW e, IsDeletionIn(order, marks, d, s, e),
           NEW n \in Nat, NEW w, IsMerging(order, w, marks, dead, d, s, e, n + 1),
           NEW v, v = IF w.done THEN w ELSE VisitLeaf(w, d)
    PROVE  IsMerging(order, v, marks, dead, d, s, e, n)
<1>1. /\ IsDeleting(order, w, marks, dead, d, s, e, n + 1) /\ WalkOK(w, d)
      /\ KeepsMarks(order, w, marks) /\ w.sound
  BY DEF IsMerging, IsDeleting, WalkOK
<1>2. KeepsMarks(order, v, marks)
  <2>1. /\ d.end.offset \in Nat /\ d.version_map \in [ReplicaIds -> Nat]
        /\ \E c \in marks : AnchoredAt(d.end, "left", c)
    BY DEF IsDeletionIn
  <2>2. KeepsMarks(order, VisitLeaf(w, d), marks)
    BY <1>1, <2>1, LeafVisited
  <2>3. QED
    BY <1>1, <2>2
<1>3. IsDeleting(order, v, marks, dead, d, s, e, n)
  BY <1>1, <1>2, DeletingGoesOn
<1>4. WalkOK(v, d)
  <2>1. CASE w.done
    BY <2>1, <1>1
  <2>2. CASE ~w.done
    <3>1. v = VisitLeaf(w, d)
      BY <2>2
    <3>2. /\ IsWalk(w) /\ WellFormed(order, w.runs)
          /\ DocumentMarks(w.runs) = marks
      BY <1>1 DEF KeepsMarks
    <3>3. PICK R : HasDeleted(order, w.runs, w.i, w.done, dead, R, s, e)
      BY <1>1 DEF IsDeleting
    <3>4. w.i \in 1 .. Len(w.runs) /\ e \in MarksFrom(w.runs, w.i)
      BY <3>3, <2>2 DEF HasDeleted, IsAtLeaf
    <3>5. QED
      BY <3>1, <3>2, <3>4, <2>2, <1>1, WalkGoesOnRight
  <2>3. QED
    BY <2>1, <2>2
<1>5. QED
  BY <1>3, <1>4 DEF IsMerging

LEMMA WalksMerge ==
    ASSUME NEW order, KeepsRuns(order), NEW marks, NEW dead,
           NEW d, NEW s, NEW e, IsDeletionIn(order, marks, d, s, e),
           NEW n \in Nat, NEW first,
           IsMerging(order, first, marks, dead, d, s, e, n),
           NEW f, IsWalks(f, first, d, n)
    PROVE  /\ f[n] # {}
           /\ \A w \in f[n] : IsMerging(order, w, marks, dead, d, s, e, 0)
<1> DEFINE Merge(walks, k) ==
             walks # {}
               /\ \A w \in walks : IsMerging(order, w, marks, dead, d, s, e, k)
           S == {k \in Nat : k <= n => Merge(f[k], n - k)}
<1>1. \A k \in 0 .. n :
         f[k] = IF k = 0 THEN {first} ELSE NextWalks(f[k - 1], d)
  BY DEF IsWalks
<1>2. 0 \in S
  <2>1. f[0] = {first} /\ n - 0 = n
    BY <1>1
  <2>2. QED
    BY <2>1
<1>3. ASSUME NEW k \in S \cap Nat PROVE k + 1 \in S
  <2>1. SUFFICES ASSUME k + 1 <= n PROVE Merge(f[k + 1], n - (k + 1))
    OBVIOUS
  <2>2. PICK m : m = n - (k + 1)
    OBVIOUS
  <2>3. m \in Nat /\ m + 1 = n - k
    BY <2>1, <2>2
  <2>4. Merge(f[k], m + 1)
    BY <2>1, <2>3
  <2>5. f[k + 1] = NextWalks(f[k], d)
    <3>1. k + 1 \in 0 .. n /\ k + 1 # 0 /\ (k + 1) - 1 = k
      BY <2>1
    <3>2. QED
      BY <3>1, <1>1
  <2>6. NextWalks(f[k], d) # {}
    BY <2>4 DEF NextWalks
  <2>7. ASSUME NEW v \in NextWalks(f[k], d)
        PROVE  IsMerging(order, v, marks, dead, d, s, e, m)
    <3>1. PICK w \in f[k] : v = IF w.done THEN w ELSE VisitLeaf(w, d)
      BY DEF NextWalks
    <3>2. IsMerging(order, w, marks, dead, d, s, e, m + 1)
      BY <2>4
    <3>3. QED
      BY <3>1, <3>2, <2>3, MergingGoesOn
  <2>8. QED
    BY <2>2, <2>5, <2>6, <2>7
<1> HIDE DEF S
<1>4. n \in S
  BY <1>2, <1>3, Induction
<1>5. n - n = 0 /\ n <= n
  OBVIOUS
<1>6. QED
  BY <1>4, <1>5 DEF S

(* The range of a deletion that lies in one leaf.                          *)
LEMMA LeafMergesRight ==
    ASSUME NEW order, KeepsRuns(order), NEW runs, WellFormed(order, runs),
           NEW d, NEW s, NEW e,
           IsDeletionIn(order, DocumentMarks(runs), d, s, e),
           NEW i \in 1 .. Len(runs), s \in RunMarks(runs[i]),
           e \in RunMarks(runs[i])
    PROVE  AreSeparate(MergeDeletionInLeaf(runs, d, i).ranges)
<1> DEFINE run == runs[i]
           from == d.start.offset - run.start
           to == d.end.offset - run.start
           offset == OffsetOfLeaf(runs, i)
<1>1. /\ IsStrictOrder(order, DocumentMarks(runs))
      /\ d.start.offset \in Nat /\ AnchoredAt(d.start, "right", s)
      /\ d.end.offset \in Nat /\ AnchoredAt(d.end, "left", e)
      /\ s \in DocumentMarks(runs) /\ e \in DocumentMarks(runs)
      /\ (s = e \/ <<s, e>> \in order)
  BY DEF IsDeletionIn
<1>2. /\ runs \in Seq(Runs) /\ Len(runs) \in Nat /\ i \in 1 .. Len(runs) + 1
  BY LenProperties DEF WellFormed
<1>3. run \in Runs /\ run.start \in Nat /\ offset \in Nat
  <2>1. run \in Runs /\ offset \in Nat
    BY <1>2, ElementOfSeq, OffsetsOfLeaves
  <2>2. QED
    BY <2>1, RunLength
<1>4. s.at = d.start.offset /\ e.at + 1 = d.end.offset
  BY <1>1 DEF AnchoredAt
<1>5. s.at <= e.at /\ e.at \in Nat
  <2>1. s.at \in Nat /\ e.at \in Nat /\ (e.at < s.at => <<e, s>> \in order)
    BY LeafIsApart DEF IsLeafApart
  <2>2. ~(<<e, s>> \in order)
    BY <1>1 DEF IsStrictOrder
  <2>3. QED
    BY <2>1, <2>2
<1>6. offset + from < offset + to
  <2>1. d.start.offset < d.end.offset
    BY <1>1, <1>4, <1>5
  <2>2. QED
    BY <2>1, <1>1, <1>3
<1>7. MergeDeletionInLeaf(runs, d, i).ranges =
        IF run.del THEN <<>>
        ELSE <<[start |-> offset + from, end |-> offset + to]>>
  BY DEF MergeDeletionInLeaf
<1> HIDE DEF run, from, to, offset
<1>8. AreSeparate(<<>>)
  BY NoRangesAreOK DEF NoRanges, RangesOK
<1>9. ASSUME NEW a, NEW b, a < b
      PROVE  AreSeparate(<<[start |-> a, end |-> b]>>)
  <2>1. PICK q : q = <<[start |-> a, end |-> b]>>
    OBVIOUS
  <2>2. DOMAIN q = {1} /\ q[1].start = a /\ q[1].end = b
    BY <2>1
  <2>3. AreSeparate(q)
    BY <2>2, <1>9 DEF AreSeparate
  <2>4. QED
    BY <2>1, <2>3
<1>10. QED
  BY <1>6, <1>7, <1>8, <1>9

(* A deletion is merged without a panic, and returns separate ranges.      *)
LEMMA MergesRight ==
    ASSUME NEW order, KeepsRuns(order), NEW runs, WellFormed(order, runs),
           NEW d, NEW s, NEW e,
           IsDeletionIn(order, DocumentMarks(runs), d, s, e), IsKnownTo(d, s)
    PROVE  /\ MergeDeletion(runs, d).sound
           /\ AreSeparate(MergeDeletion(runs, d).ranges)
<1> DEFINE i == IdxAtAnchor(runs, d.start, "right")
           marks == DocumentMarks(runs)
           first == VisitFirstLeaf(runs, d)
           N == 2 * Len(runs)
           f == CHOOSE g : IsWalks(g, first, d, N)
           end == CHOOSE walk \in f[N] : TRUE
           result == MergeDeletion(runs, d)
           dead == DeadMarks(runs)
<1>1. /\ runs \in Seq(Runs) /\ Len(runs) \in Nat /\ DOMAIN runs = 1 .. Len(runs)
  BY LenProperties DEF WellFormed
<1>2. result = IF ContainsAnchor(runs[i], d.end)
               THEN MergeDeletionInLeaf(runs, d, i)
               ELSE [runs |-> end.runs, ranges |-> end.ranges,
                     sound |-> end.sound]
  BY DEF MergeDeletion, IsWalks, NextWalks
<1>3. /\ MarksHaveOnePlace(marks)
      /\ d.start.offset \in Nat /\ s \in marks /\ AnchoredAt(d.start, "right", s)
      /\ d.end.offset \in Nat /\ e \in marks /\ AnchoredAt(d.end, "left", e)
      /\ d.version_map \in [ReplicaIds -> Nat]
  BY DEF IsDeletionIn
<1>4. i \in 1 .. Len(runs) /\ s \in RunMarks(runs[i])
  BY <1>3, LeafOfMark
<1>5. runs[i] \in Runs
  BY <1>1, <1>4, ElementOfSeq
<1> HIDE DEF result, i
<1>6. CASE ContainsAnchor(runs[i], d.end)
  <2>1. e \in Mark /\ e.id = d.end.id /\ e.at + 1 = d.end.offset
    BY <1>1, <1>3, MarksAreMarks DEF AnchoredAt
  <2>2. PICK c : c = [id |-> runs[i].id, at |-> e.at, ts |-> runs[i].ts,
                      lam |-> runs[i].lam]
    OBVIOUS
  <2>3. e.at \in runs[i].start .. runs[i].end - 1
    BY <2>1, <1>3, <1>5, <1>6 DEF ContainsAnchor, Mark, Runs, RunType
  <2>4. c \in RunMarks(runs[i])
    BY <2>2, <2>3 DEF RunMarks
  <2>5. c \in marks
    BY <2>4, <1>1, <1>4 DEF DocumentMarks
  <2>6. c.id = e.id /\ c.at = e.at
    BY <2>1, <2>2, <1>6 DEF ContainsAnchor
  <2>7. c = e
    BY <2>5, <2>6, <1>3 DEF MarksHaveOnePlace
  <2>8. e \in RunMarks(runs[i])
    BY <2>4, <2>7
  <2>9. result = MergeDeletionInLeaf(runs, d, i)
    BY <1>2, <1>6
  <2>10. AreSeparate(MergeDeletionInLeaf(runs, d, i).ranges)
    BY <2>8, <1>4, LeafMergesRight
  <2>11. MergeDeletionInLeaf(runs, d, i).sound
    BY DEF MergeDeletionInLeaf
  <2>12. QED
    BY <2>9, <2>10, <2>11 DEF result
<1>7. CASE ~ContainsAnchor(runs[i], d.end)
  <2>1. result.ranges = end.ranges /\ result.sound = end.sound
    BY <1>2, <1>7
  <2>2. N \in Nat
    BY <1>1
  <2>3. KeepsMarks(order, first, marks)
    <3>1. HasLeafAt(runs, d.start, "right")
      BY <1>1, <1>3, HasLeafIffMark
    <3>2. QED
      BY <3>1, <1>3, FirstLeafVisited
  <2>4. IsDeleting(order, first, marks, dead, d, s, e, N)
    BY <2>3, <1>7, DeletingStarts DEF i
  <2>5. WalkOK(first, d)
    BY <1>7, WalkStartsRight DEF i
  <2> HIDE DEF first, N
  <2>6. IsMerging(order, first, marks, dead, d, s, e, N)
    BY <2>4, <2>5 DEF IsMerging
  <2>7. IsWalks(f, first, d, N)
    BY <2>2, WalksExist
  <2> HIDE DEF f, marks, dead
  <2>8. f[N] # {} /\ \A w \in f[N] : IsMerging(order, w, marks, dead, d, s, e, 0)
    <3>1. IsDeletionIn(order, marks, d, s, e)
      BY DEF marks
    <3>2. QED
      BY <3>1, <2>2, <2>6, <2>7, WalksMerge
  <2>9. end \in f[N]
    BY <2>8
  <2> HIDE DEF end
  <2>10. WalkOK(end, d)
    BY <2>8, <2>9 DEF IsMerging
  <2>11. end.sound /\ AreSeparate(end.ranges)
    BY <2>10 DEF WalkOK, RangesOK
  <2>12. QED
    BY <2>1, <2>11 DEF result
<1>8. QED
  BY <1>6, <1>7

------------------------------------------------------------------------------
(* Deletions where they can be merged.                                     *)
DeletionsMerge ==
    \A r \in replicas, d \in deletions :
        CanMergeDeletion(r, d)
            => /\ MergeDeletion(run_tree[r], d).sound
               /\ AreSeparate(MergeDeletion(run_tree[r], d).ranges)

(* A deletion that can be merged is one of the document's text.            *)
IsAcceptedIn(order, r, d, s, e) ==
    /\ KeepsRuns(order) /\ WellFormed(order, run_tree[r])
    /\ IsDeletionIn(order, DocumentMarks(run_tree[r]), d, s, e)
    /\ IsKnownTo(d, s)

LEMMA AcceptedDeletion ==
    ASSUME DocumentInvariant, DeletionInvariant, NEW r \in replicas,
           NEW d \in deletions, CanMergeDeletion(r, d)
    PROVE  \E order, s, e : IsAcceptedIn(order, r, d, s, e)
<1>1. DocumentsOK
  BY DocumentsAreOK
<1>2. PICK order : KeepsRuns(order) /\ IsOrderOfEdits(order)
  BY DEF DeletionInvariant
<1>3. /\ IsStrictOrder(order, SentMarks) /\ DocumentsAreInOrder(order)
      /\ RangesAreInOrder(order)
  BY <1>2 DEF IsOrderOfEdits, IsOrderOfText
<1>4. WellFormed(order, run_tree[r])
  BY <1>1, <1>3
     DEF DocumentsOK, DocumentsAreSentText, DocumentsAreInOrder, WellFormed
<1>5. /\ version_map[r] \in [ReplicaIds -> Nat]
      /\ d.version_map \in [ReplicaIds -> Nat]
  BY <1>1 DEF DocumentsOK, ClockTypes
<1>6. \A a \in ReplicaIds : d.version_map[a] <= version_map[r][a]
  BY <1>5 DEF CanMergeDeletion
<1>7. PICK s \in SentMarks, e \in SentMarks :
         StartsAt(d, s) /\ EndsAt(d, e) /\ IsWithin(order, s, e, s)
  BY <1>3 DEF RangesAreInOrder
<1>8. IsKnownTo(d, s) /\ IsKnownTo(d, e)
  BY <1>1, <1>7, RangeOfDeletion
<1>9. IsRangeOf(order, d, s, e)
  BY <1>7, <1>8 DEF IsRangeOf, IsWithin
<1>10. IsDeletionIn(order, DocumentMarks(run_tree[r]), d, s, e)
  BY <1>1, <1>3, <1>5, <1>6, <1>9, DeletedThere
<1>11. IsAcceptedIn(order, r, d, s, e)
  BY <1>2, <1>4, <1>8, <1>10 DEF IsAcceptedIn
<1>12. QED
  BY <1>11

LEMMA AcceptedDeletionsMerge ==
    ASSUME DocumentInvariant, DeletionInvariant
    PROVE  DeletionsMerge
<1>1. SUFFICES ASSUME NEW r \in replicas, NEW d \in deletions,
                      CanMergeDeletion(r, d)
               PROVE  /\ MergeDeletion(run_tree[r], d).sound
                      /\ AreSeparate(MergeDeletion(run_tree[r], d).ranges)
  BY DEF DeletionsMerge
<1>2. PICK order, s, e : IsAcceptedIn(order, r, d, s, e)
  BY <1>1, AcceptedDeletion
<1>3. QED
  BY <1>2, MergesRight DEF IsAcceptedIn

LEMMA RangesAreApart ==
    DocumentInvariant /\ DeletionInvariant => RangesAreSeparate
BY AcceptedDeletionsMerge DEF DeletionsMerge, RangesAreSeparate, Live

(* The ranges integrate_deletion (replica.rs) returns for a deletion that  *)
(* can be merged are not empty, ascending and not even adjacent.           *)
THEOREM MergedRangesAreSeparate == Spec => []RangesAreSeparate
<1>1. DocumentInvariant /\ DeletionInvariant => RangesAreSeparate
  BY RangesAreApart
<1>2. QED
  BY <1>1, DocumentsAreCorrect, DeletionsHaveOneEffect, PTL

(* No step panics.                                                         *)
LEMMA MergedInsertionKeepsCalm ==
    ASSUME AcceptedAnchorsAreFound, NEW r \in Live, NEW m \in insertions,
           CanMergeInsertion(r, m), MergeUncheckedInsertion(r, m)
    PROVE  UNCHANGED panicked
<1>1. m.anchor = ZeroAnchor \/ HasLeafAt(run_tree[r], m.anchor, "left")
  BY DEF AcceptedAnchorsAreFound
<1>2. QED
  BY <1>1 DEF MergeUncheckedInsertion

LEMMA MergedDeletionKeepsCalm ==
    ASSUME AcceptedAnchorsAreFound, DeletionsMerge, NEW r \in Live,
           NEW d \in deletions, CanMergeDeletion(r, d),
           MergeUncheckedDeletion(r, d)
    PROVE  UNCHANGED panicked
<1>1. /\ HasLeafAt(run_tree[r], d.start, "right")
      /\ HasLeafAt(run_tree[r], d.end, "left")
  BY DEF AcceptedAnchorsAreFound
<1>2. MergeDeletion(run_tree[r], d).sound
  BY DEF DeletionsMerge, Live
<1>3. QED
  BY <1>1, <1>2 DEF MergeUncheckedDeletion

LEMMA NextKeepsCalm ==
    ASSUME TypeOK, AcceptedAnchorsAreFound, DeletionsMerge, ~Redelivery,
           [Next]_vars
    PROVE  UNCHANGED panicked
<1>1. CASE UNCHANGED vars
  BY <1>1 DEF vars
<1>2. CASE Next
  <2>1. PICK r \in ReplicaIds :
          \/ \E new \in ReplicaIds : Fork(r, new)
          \/ InsertedAnywhere(r)
          \/ DeletedAnywhere(r)
          \/ \E m \in insertions : IntegrateInsertion(r, m)
          \/ \E d \in deletions : IntegrateDeletion(r, d)
          \/ BackloggedInsertions(r)
          \/ BackloggedDeletions(r)
          \/ NextBackloggedInsertion(r)
          \/ NextBackloggedDeletion(r)
          \/ NextQueue(r)
          \/ DropIterator(r)
    BY <1>2 DEF Next
  <2>2. CASE \E new \in ReplicaIds : Fork(r, new)
    BY <2>2 DEF Fork
  <2>3. CASE InsertedAnywhere(r)
    BY <2>3 DEF InsertedAnywhere, Inserted
  <2>4. CASE DeletedAnywhere(r)
    BY <2>4 DEF DeletedAnywhere, Deleted
  <2>5. ASSUME NEW m \in insertions, IntegrateInsertion(r, m)
        PROVE  UNCHANGED panicked
    <3>1. r \in Live /\ ~IsBackloggedInsertion(r, m)
      BY <2>5 DEF IntegrateInsertion, Idle, Active, Live
    <3>2. CASE CanMergeInsertion(r, m) /\ MergeUncheckedInsertion(r, m)
      BY <3>1, <3>2, MergedInsertionKeepsCalm
    <3>3. CASE BacklogInsertion(r, m)
      BY <3>1, <3>3 DEF BacklogInsertion
    <3>4. QED
      BY <2>5, <3>2, <3>3 DEF IntegrateInsertion
  <2>6. ASSUME NEW d \in deletions, IntegrateDeletion(r, d)
        PROVE  UNCHANGED panicked
    <3>1. r \in Live /\ ~IsBackloggedDeletion(r, d)
      BY <2>6 DEF IntegrateDeletion, Idle, Active, Live
    <3>2. CASE CanMergeDeletion(r, d) /\ MergeUncheckedDeletion(r, d)
      BY <3>1, <3>2, MergedDeletionKeepsCalm
    <3>3. CASE BacklogDeletion(r, d)
      BY <3>1, <3>3 DEF BacklogDeletion
    <3>4. QED
      BY <2>6, <3>2, <3>3 DEF IntegrateDeletion
  <2>7. CASE NextBackloggedInsertion(r)
    <3> DEFINE queue == insertions_backlog[r][iterator[r].current]
    <3>1. /\ r \in Live /\ iterator[r].kind = "insertions"
          /\ queue # <<>> /\ CanMergeInsertion(r, Head(queue))
          /\ MergeUncheckedInsertion(r, Head(queue))
      BY <2>7 DEF NextBackloggedInsertion, CanMergeFirst, Active, Live
    <3>2. iterator[r].current \in ReplicaIds
      <4>1. iterator[r] \in IteratorType
        BY DEF TypeOK
      <4>2. iterator[r] # NoIterator
        BY <3>1 DEF NoIterator
      <4>3. QED
        BY <4>1, <4>2 DEF IteratorType
    <3>3. queue \in Seq(insertions)
      BY <3>2 DEF TypeOK
    <3> HIDE DEF queue
    <3>4. Head(queue) \in insertions
      BY <3>1, <3>3
    <3>5. QED
      BY <3>1, <3>4, MergedInsertionKeepsCalm
  <2>8. CASE NextBackloggedDeletion(r)
    <3> DEFINE queue == deletions_backlog[r][iterator[r].current]
    <3>1. /\ r \in Live /\ iterator[r].kind = "deletions"
          /\ queue # <<>> /\ CanMergeDeletion(r, Head(queue))
          /\ MergeUncheckedDeletion(r, Head(queue))
      BY <2>8 DEF NextBackloggedDeletion, CanMergeFirst, Active, Live
    <3>2. iterator[r].current \in ReplicaIds
      <4>1. iterator[r] \in IteratorType
        BY DEF TypeOK
      <4>2. iterator[r] # NoIterator
        BY <3>1 DEF NoIterator
      <4>3. QED
        BY <4>1, <4>2 DEF IteratorType
    <3>3. queue \in Seq(deletions)
      BY <3>2 DEF TypeOK
    <3> HIDE DEF queue
    <3>4. Head(queue) \in deletions
      BY <3>1, <3>3
    <3>5. QED
      BY <3>1, <3>4, MergedDeletionKeepsCalm
  <2>9. CASE \/ BackloggedInsertions(r) \/ BackloggedDeletions(r)
             \/ NextQueue(r) \/ DropIterator(r)
    BY <2>9 DEF BackloggedInsertions, BackloggedDeletions, StartIterator,
                NextQueue, DropIterator
  <2>10. QED
    BY <2>1, <2>2, <2>3, <2>4, <2>5, <2>6, <2>7, <2>8, <2>9
<1>3. QED
  BY <1>1, <1>2

LEMMA CalmNext ==
    ASSUME DocumentInvariant, DeletionInvariant, AcceptedAnchorsAreFound,
           NoPanic, ~Redelivery, [Next]_vars
    PROVE  NoPanic'
<1>1. DeletionsMerge
  BY AcceptedDeletionsMerge
<1>2. TypeOK
  BY DEF DocumentInvariant
<1>3. UNCHANGED panicked
  BY <1>1, <1>2, NextKeepsCalm, Zenon
<1>4. QED
  BY <1>3 DEF NoPanic

(* As long as no edit is handed over twice, no legal sequence of calls     *)
(* makes the code panic: every anchor that can_merge (replica.rs) accepts  *)
(* is found in the tree, and the offsets merge_deletion (run_tree.rs)      *)
(* hands to the tree are those of the leaves it changes.                   *)
THEOREM NothingPanics ==
    ASSUME ~Redelivery PROVE Spec => []NoPanic
<1>1. Init => NoPanic
  BY DEF Init, NoPanic
<1>2. DocumentInvariant /\ DeletionInvariant /\ AcceptedAnchorsAreFound
        /\ NoPanic /\ [Next]_vars => NoPanic'
  BY CalmNext
<1>3. QED
  BY <1>1, <1>2, DocumentsAreCorrect, DeletionsHaveOneEffect,
     AnchorsOfAcceptedEditsAreFound, PTL DEF Spec
------------------------------------------------------------------------------
(* Removing ranges from a text, the last one first.                        *)
IsRemoval(text, ranges, f, n) ==
    f = [k \in 0 .. n |-> IF k = 0 THEN text
                          ELSE RemoveRange(f[k - 1], ranges[Len(ranges) + 1 - k])]

LEMMA RemovalExists ==
    ASSUME NEW text, NEW ranges, NEW n \in Nat
    PROVE  \E f : IsRemoval(text, ranges, f, n)
<1> DEFINE S == {k \in Nat : \E f : IsRemoval(text, ranges, f, k)}
           RangeOf(k) == ranges[Len(ranges) + 1 - k]
<1>1. 0 \in S
  <2> DEFINE f == [k \in 0 .. 0 |-> text]
  <2>1. f = [k \in 0 .. 0 |->
               IF k = 0 THEN text
               ELSE RemoveRange(f[k - 1], ranges[Len(ranges) + 1 - k])]
    OBVIOUS
  <2>2. IsRemoval(text, ranges, f, 0)
    BY <2>1 DEF IsRemoval
  <2> HIDE DEF f
  <2>3. QED
    BY <2>2
<1>2. ASSUME NEW k \in S \cap Nat PROVE k + 1 \in S
  <2>1. PICK f : IsRemoval(text, ranges, f, k)
    OBVIOUS
  <2> DEFINE last == RemoveRange(f[k], RangeOf(k + 1))
             g == [j \in 0 .. k + 1 |-> IF j = k + 1 THEN last ELSE f[j]]
             h == [j \in 0 .. k + 1 |->
                     IF j = 0 THEN text ELSE RemoveRange(g[j - 1], RangeOf(j))]
  <2>2. \A j \in 0 .. k :
           f[j] = IF j = 0 THEN text ELSE RemoveRange(f[j - 1], RangeOf(j))
    BY <2>1 DEF IsRemoval
  <2> HIDE DEF Range
  <2>3. ASSUME NEW j \in 0 .. k + 1 PROVE g[j] = h[j]
    <3>1. CASE j = k + 1
      <4>1. j - 1 = k /\ k \in 0 .. k + 1 /\ k # k + 1 /\ j # 0
        BY <3>1
      <4>2. g[j - 1] = f[k] /\ g[j] = last
        BY <3>1, <4>1
      <4>3. h[j] = RemoveRange(g[j - 1], RangeOf(j))
        BY <4>1
      <4>4. QED
        BY <3>1, <4>2, <4>3
    <3>2. CASE j # k + 1 /\ j # 0
      <4>1. j - 1 \in 0 .. k + 1 /\ j - 1 # k + 1 /\ j \in 0 .. k
        BY <3>2
      <4>2. g[j - 1] = f[j - 1] /\ g[j] = f[j]
        BY <3>2, <4>1
      <4>3. h[j] = RemoveRange(g[j - 1], RangeOf(j))
        BY <3>2
      <4>4. f[j] = RemoveRange(f[j - 1], RangeOf(j))
        BY <2>2, <3>2, <4>1
      <4>5. QED
        BY <4>2, <4>3, <4>4
    <3>3. CASE j # k + 1 /\ j = 0
      <4>1. g[j] = f[j] /\ h[j] = text /\ 0 \in 0 .. k
        BY <3>3
      <4>2. QED
        BY <2>2, <3>3, <4>1
    <3>4. QED
      BY <3>1, <3>2, <3>3
  <2>4. g = h
    BY <2>3
  <2>5. IsRemoval(text, ranges, g, k + 1)
    BY <2>4 DEF IsRemoval, Range
  <2> HIDE DEF g
  <2>6. QED
    BY <2>5
<1> HIDE DEF S
<1>3. n \in S
  BY <1>1, <1>2, Induction
<1>4. QED
  BY <1>3 DEF S

IsRemovalOf(text, ranges, f) ==
    /\ f[0] = text
    /\ \A k \in 1 .. Len(ranges) :
          f[k] = RemoveRange(f[k - 1], ranges[Len(ranges) + 1 - k])
    /\ RemoveRanges(text, ranges) = f[Len(ranges)]

LEMMA RemovalOfRanges ==
    ASSUME NEW text, NEW ranges, Len(ranges) \in Nat
    PROVE  \E f : IsRemovalOf(text, ranges, f)
<1> DEFINE f == CHOOSE g : IsRemoval(text, ranges, g, Len(ranges))
<1>1. IsRemoval(text, ranges, f, Len(ranges))
  BY RemovalExists
<1>2. RemoveRanges(text, ranges) = f[Len(ranges)]
  BY DEF RemoveRanges, IsRemoval
<1> HIDE DEF f
<1>3. \A k \in 0 .. Len(ranges) :
         f[k] = IF k = 0 THEN text
                ELSE RemoveRange(f[k - 1], ranges[Len(ranges) + 1 - k])
  BY <1>1 DEF IsRemoval
<1>4. f[0] = text
  BY <1>3
<1>5. ASSUME NEW k \in 1 .. Len(ranges)
      PROVE  f[k] = RemoveRange(f[k - 1], ranges[Len(ranges) + 1 - k])
  <2>1. k \in 0 .. Len(ranges) /\ k # 0
    OBVIOUS
  <2>2. QED
    BY <2>1, <1>3
<1>6. QED
  BY <1>2, <1>4, <1>5 DEF IsRemovalOf

LEMMA NoRangeRemoved ==
    ASSUME NEW text
    PROVE  RemoveRanges(text, <<>>) = text
<1>1. Len(<<>>) = 0 /\ Len(<<>>) \in Nat
  OBVIOUS
<1>2. PICK f : IsRemovalOf(text, <<>>, f)
  BY <1>1, RemovalOfRanges
<1>3. QED
  BY <1>1, <1>2 DEF IsRemovalOf

(* The last range goes first.                                              *)
LEMMA LastRangeFirst ==
    ASSUME NEW text, NEW ranges \in Seq(OffsetRanges), NEW range \in OffsetRanges
    PROVE  RemoveRanges(text, Append(ranges, range)) =
             RemoveRanges(RemoveRange(text, range), ranges)
<1>1. PICK m, all, t : /\ m = Len(ranges) /\ all = Append(ranges, range)
                       /\ t = RemoveRange(text, range)
  OBVIOUS
<1>2. /\ m \in Nat /\ Len(all) = m + 1 /\ all[m + 1] = range
      /\ \A k \in 1 .. m : all[k] = ranges[k]
  BY <1>1
<1>3. PICK f : IsRemovalOf(text, all, f)
  BY <1>2, RemovalOfRanges
<1>4. PICK g : IsRemovalOf(t, ranges, g)
  BY <1>1, <1>2, RemovalOfRanges
<1>5. /\ f[0] = text /\ RemoveRanges(text, all) = f[m + 1]
      /\ \A k \in 1 .. m + 1 : f[k] = RemoveRange(f[k - 1], all[(m + 1) + 1 - k])
  BY <1>2, <1>3 DEF IsRemovalOf
<1>6. /\ g[0] = t /\ RemoveRanges(t, ranges) = g[m]
      /\ \A k \in 1 .. m : g[k] = RemoveRange(g[k - 1], ranges[m + 1 - k])
  BY <1>1, <1>4 DEF IsRemovalOf
<1> DEFINE S == {k \in Nat : k <= m => f[k + 1] = g[k]}
<1>7. 0 \in S
  <2>1. 1 \in 1 .. m + 1 /\ (m + 1) + 1 - 1 = m + 1 /\ 1 - 1 = 0
    BY <1>2
  <2>2. f[1] = RemoveRange(f[1 - 1], all[(m + 1) + 1 - 1])
    BY <2>1, <1>5
  <2>3. f[1] = t
    BY <2>1, <2>2, <1>1, <1>2, <1>5
  <2>4. QED
    BY <2>3, <1>6
<1>8. ASSUME NEW k \in S \cap Nat PROVE k + 1 \in S
  <2>1. SUFFICES ASSUME k + 1 <= m PROVE f[(k + 1) + 1] = g[k + 1]
    OBVIOUS
  <2>2. f[k + 1] = g[k]
    BY <2>1, <1>2
  <2>3. PICK j : j = m - k
    OBVIOUS
  <2>4. /\ j \in 1 .. m /\ (k + 1) + 1 \in 1 .. m + 1 /\ k + 1 \in 1 .. m
        /\ ((k + 1) + 1) - 1 = k + 1 /\ (k + 1) - 1 = k
        /\ (m + 1) + 1 - ((k + 1) + 1) = j /\ m + 1 - (k + 1) = j
    BY <2>1, <2>3, <1>2
  <2>5. f[(k + 1) + 1] = RemoveRange(f[k + 1], all[j])
    <3>1. f[(k + 1) + 1] = RemoveRange(f[((k + 1) + 1) - 1],
                                       all[(m + 1) + 1 - ((k + 1) + 1)])
      BY <2>4, <1>5
    <3>2. QED
      BY <3>1, <2>4
  <2>6. g[k + 1] = RemoveRange(g[k], ranges[j])
    <3>1. g[k + 1] = RemoveRange(g[(k + 1) - 1], ranges[m + 1 - (k + 1)])
      BY <2>4, <1>6
    <3>2. QED
      BY <3>1, <2>4
  <2>7. all[j] = ranges[j]
    BY <2>4, <1>2
  <2>8. QED
    BY <2>2, <2>5, <2>6, <2>7
<1> HIDE DEF S
<1>9. m \in S
  BY <1>2, <1>7, <1>8, Induction
<1>10. f[m + 1] = g[m]
  BY <1>2, <1>9 DEF S
<1>11. QED
  BY <1>1, <1>5, <1>6, <1>10

(* A range of a text's front leaves what follows the front alone.          *)
IsRemovedInFront(front, rest, range, S) ==
    /\ RemoveRange(front \o rest, range) = RemoveRange(front, range) \o rest
    /\ RemoveRange(front, range) \in Seq(S)
    /\ range.start <= Len(RemoveRange(front, range))

LEMMA RangeRemovedInFront ==
    ASSUME NEW S, NEW front \in Seq(S), NEW rest \in Seq(S),
           NEW range \in OffsetRanges, range.start < range.end,
           range.end <= Len(front)
    PROVE  IsRemovedInFront(front, rest, range, S)
<1>1. PICK start, end : start = range.start /\ end = range.end
  OBVIOUS
<1>2. /\ start \in Nat /\ end \in Nat /\ Len(front) \in Nat
      /\ start \in 0 .. Len(front) /\ end \in 0 .. Len(front)
  BY <1>1, LenProperties DEF OffsetRanges
<1>3. range = [start |-> start, end |-> end]
  BY <1>1 DEF OffsetRanges
<1>4. PICK u, v, p, q : /\ u = UpTo(front, start) /\ v = TextAfter(front, start)
                        /\ p = UpTo(front, end) /\ q = TextAfter(front, end)
  OBVIOUS
<1>5. /\ u \in Seq(S) /\ v \in Seq(S) /\ front = u \o v /\ Len(u) = start
      /\ p \in Seq(S) /\ q \in Seq(S) /\ front = p \o q /\ Len(p) = end
  <2>1. IsCutAt(front, start, S) /\ IsCutAt(front, end, S)
    BY <1>2, TextIsCut
  <2>2. QED
    BY <2>1, <1>4 DEF IsCutAt
<1>6. v \o rest \in Seq(S) /\ q \o rest \in Seq(S) /\ u \o q \in Seq(S)
  BY <1>5, ConcatProperties
<1>7. /\ front \o rest = u \o (v \o rest)
      /\ front \o rest = p \o (q \o rest)
  <2>1. Associate(u, v, rest) /\ Associate(p, q, rest)
    BY <1>5, AllAssociate
  <2>2. (u \o v) \o rest = u \o (v \o rest) /\ (p \o q) \o rest = p \o (q \o rest)
    BY <2>1 DEF Associate
  <2>3. QED
    BY <2>2, <1>5
<1>8. UpTo(front \o rest, start) = u
  <2>1. UpTo(u \o (v \o rest), Len(u)) = u
    BY <1>5, <1>6, ConcatIsCut
  <2>2. QED
    BY <2>1, <1>5, <1>7
<1>9. TextAfter(front \o rest, end) = q \o rest
  <2>1. TextAfter(p \o (q \o rest), Len(p)) = q \o rest
    BY <1>5, <1>6, ConcatIsCut, ZenonT(40)
  <2>2. QED
    BY <2>1, <1>5, <1>7
<1>10. RemoveRange(front \o rest, range) = u \o (q \o rest)
  BY <1>3, <1>8, <1>9, RemoveRangeCuts
<1>11. RemoveRange(front, range) = u \o q
  BY <1>3, <1>4, RemoveRangeCuts
<1>12. Associate(u, q, rest)
  BY <1>5, AllAssociate
<1>13. start <= Len(u \o q)
  <2>1. Len(u \o q) = Len(u) + Len(q) /\ Len(q) \in Nat
    BY <1>5, ConcatProperties, LenProperties, ZenonT(40)
  <2>2. QED
    BY <2>1, <1>5, <1>2
<1>14. QED
  BY <1>1, <1>6, <1>10, <1>11, <1>12, <1>13 DEF Associate, IsRemovedInFront

(* The middle of a text removed.                                           *)
LEMMA MiddleRemoved ==
    ASSUME NEW S, NEW a \in Seq(S), NEW b \in Seq(S), NEW c \in Seq(S),
           NEW range, range = [start |-> Len(a), end |-> Len(a \o b)]
    PROVE  RemoveRange((a \o b) \o c, range) = a \o c
<1>1. b \o c \in Seq(S) /\ a \o b \in Seq(S)
  BY ConcatProperties
<1>2. UpTo(a \o (b \o c), Len(a)) = a
  BY <1>1, ConcatIsCut
<1>3. TextAfter((a \o b) \o c, Len(a \o b)) = c
  BY <1>1, ConcatIsCut
<1>4. Associate(a, b, c)
  BY AllAssociate
<1>5. UpTo((a \o b) \o c, Len(a)) = a
  BY <1>2, <1>4 DEF Associate
<1>6. RemoveRange((a \o b) \o c, range)
        = UpTo((a \o b) \o c, Len(a)) \o TextAfter((a \o b) \o c, Len(a \o b))
  BY RemoveRangeCuts
<1>7. QED
  BY <1>3, <1>5, <1>6

EndIn(ranges, text) == \A k \in DOMAIN ranges : ranges[k].end <= Len(text)

IsRemovedUpTo(f, g, rest, ranges, k, S) ==
    /\ f[k] \in Seq(S) /\ g[k] = f[k] \o rest
    /\ k < Len(ranges) => ranges[Len(ranges) - k].end <= Len(f[k])

(* The same for ranges.                                                    *)
LEMMA RangesRemovedInFront ==
    ASSUME NEW S, NEW front \in Seq(S), NEW rest \in Seq(S),
           NEW ranges, RangesOK(ranges), EndIn(ranges, front)
    PROVE  RemoveRanges(front \o rest, ranges) =
             RemoveRanges(front, ranges) \o rest
<1>1. PICK m : m = Len(ranges)
  OBVIOUS
<1>2. /\ ranges \in Seq(OffsetRanges) /\ m \in Nat /\ DOMAIN ranges = 1 .. m
      /\ \A k \in 1 .. m : /\ ranges[k] \in OffsetRanges
                           /\ ranges[k].start < ranges[k].end
                           /\ ranges[k].end <= Len(front)
      /\ \A i, j \in 1 .. m : i < j => ranges[i].end < ranges[j].start
  <2>1. ranges \in Seq(OffsetRanges) /\ m \in Nat /\ DOMAIN ranges = 1 .. m
    BY <1>1, LenProperties DEF RangesOK
  <2>2. \A k \in 1 .. m : ranges[k] \in OffsetRanges
    BY <1>1, <2>1, ElementOfSeq
  <2>3. QED
    BY <2>1, <2>2 DEF RangesOK, AreSeparate, EndIn
<1>3. PICK f : IsRemovalOf(front, ranges, f)
  BY <1>1, <1>2, RemovalOfRanges
<1>4. PICK g : IsRemovalOf(front \o rest, ranges, g)
  BY <1>1, <1>2, RemovalOfRanges
<1>5. /\ f[0] = front /\ RemoveRanges(front, ranges) = f[m]
      /\ \A k \in 1 .. m : f[k] = RemoveRange(f[k - 1], ranges[m + 1 - k])
  BY <1>1, <1>3 DEF IsRemovalOf
<1>6. /\ g[0] = front \o rest /\ RemoveRanges(front \o rest, ranges) = g[m]
      /\ \A k \in 1 .. m : g[k] = RemoveRange(g[k - 1], ranges[m + 1 - k])
  BY <1>1, <1>4 DEF IsRemovalOf
<1> DEFINE S2 == {k \in Nat : k <= m => IsRemovedUpTo(f, g, rest, ranges, k, S)}
<1>7. 0 \in S2
  <2>1. 0 < m => ranges[m - 0].end <= Len(front)
    <3>1. 0 < m => m \in 1 .. m /\ m - 0 = m
      BY <1>2
    <3>2. QED
      BY <3>1, <1>2
  <2>2. IsRemovedUpTo(f, g, rest, ranges, 0, S)
    BY <2>1, <1>1, <1>5, <1>6 DEF IsRemovedUpTo
  <2>3. QED
    BY <2>2
<1>8. ASSUME NEW k \in S2 \cap Nat PROVE k + 1 \in S2
  <2>1. SUFFICES ASSUME k + 1 <= m
                 PROVE  IsRemovedUpTo(f, g, rest, ranges, k + 1, S)
    OBVIOUS
  <2>2. k < m /\ k <= m
    BY <2>1, <1>2
  <2>3. PICK j : j = m - k
    OBVIOUS
  <2>4. /\ j \in 1 .. m /\ k + 1 \in 1 .. m /\ (k + 1) - 1 = k
        /\ m + 1 - (k + 1) = j /\ m - (k + 1) = j - 1
        /\ k + 1 < m => j - 1 \in 1 .. m /\ j - 1 < j
    BY <2>1, <2>3, <1>2
  <2>5. f[k] \in Seq(S) /\ g[k] = f[k] \o rest /\ ranges[j].end <= Len(f[k])
    BY <2>2, <2>3, <1>1 DEF IsRemovedUpTo
  <2>6. f[k + 1] = RemoveRange(f[k], ranges[j])
    <3>1. f[k + 1] = RemoveRange(f[(k + 1) - 1], ranges[m + 1 - (k + 1)])
      BY <2>4, <1>5
    <3>2. QED
      BY <3>1, <2>4
  <2>7. g[k + 1] = RemoveRange(f[k] \o rest, ranges[j])
    <3>1. g[k + 1] = RemoveRange(g[(k + 1) - 1], ranges[m + 1 - (k + 1)])
      BY <2>4, <1>6
    <3>2. QED
      BY <3>1, <2>4, <2>5
  <2>8. IsRemovedInFront(f[k], rest, ranges[j], S)
    <3>1. ranges[j] \in OffsetRanges /\ ranges[j].start < ranges[j].end
      BY <2>4, <1>2
    <3>2. QED
      BY <3>1, <2>5, RangeRemovedInFront
  <2>9. f[k + 1] \in Seq(S) /\ g[k + 1] = f[k + 1] \o rest
    BY <2>6, <2>7, <2>8 DEF IsRemovedInFront
  <2>10. ASSUME k + 1 < m PROVE ranges[m - (k + 1)].end <= Len(f[k + 1])
    <3>1. j - 1 \in 1 .. m /\ ranges[j - 1].end < ranges[j].start
      BY <2>4, <2>10, <1>2
    <3>2. ranges[j].start <= Len(f[k + 1])
      BY <2>6, <2>8 DEF IsRemovedInFront
    <3>3. /\ ranges[j - 1].end \in Nat /\ ranges[j].start \in Nat
          /\ Len(f[k + 1]) \in Nat
      BY <3>1, <2>4, <2>9, <1>2, LenProperties DEF OffsetRanges
    <3>4. ranges[j - 1].end <= Len(f[k + 1])
      BY <3>1, <3>2, <3>3
    <3>5. QED
      BY <3>4, <2>4
  <2>11. QED
    BY <2>9, <2>10, <1>1 DEF IsRemovedUpTo
<1> HIDE DEF S2
<1>9. m \in S2
  BY <1>2, <1>7, <1>8, Induction
<1>10. g[m] = f[m] \o rest
  BY <1>2, <1>9 DEF S2, IsRemovedUpTo
<1>11. QED
  BY <1>5, <1>6, <1>10

(* A range is ended: what stood behind it now stands behind what was left  *)
(* by the ranges before it.                                                *)
IsRangeEnded(kept, gone, rest, ranges) ==
    RemoveRanges((kept \o gone) \o rest,
                 Append(ranges, [start |-> Len(kept),
                                 end |-> Len(kept \o gone)])) =
      RemoveRanges(kept, ranges) \o rest

LEMMA RangeEndedInText ==
    ASSUME NEW S, NEW kept \in Seq(S), NEW gone \in Seq(S), NEW rest \in Seq(S),
           NEW ranges, RangesOK(ranges), EndIn(ranges, kept)
    PROVE  IsRangeEnded(kept, gone, rest, ranges)
<1>0. PICK range : range = [start |-> Len(kept), end |-> Len(kept \o gone)]
  OBVIOUS
<1>1. kept \o gone \in Seq(S)
  BY ConcatProperties
<1>2. Len(kept) \in Nat /\ Len(kept \o gone) \in Nat
  BY <1>1, LenProperties
<1>3. range \in OffsetRanges
  BY <1>0, <1>2 DEF OffsetRanges
<1>4. RemoveRange((kept \o gone) \o rest, range) = kept \o rest
  BY <1>0, MiddleRemoved
<1>5. ranges \in Seq(OffsetRanges)
  BY DEF RangesOK
<1>6. RemoveRanges((kept \o gone) \o rest, Append(ranges, range))
        = RemoveRanges(RemoveRange((kept \o gone) \o rest, range), ranges)
  BY <1>3, <1>5, LastRangeFirst
<1>7. RemoveRanges(kept \o rest, ranges) = RemoveRanges(kept, ranges) \o rest
  BY RangesRemovedInFront
<1>8. QED
  BY <1>0, <1>4, <1>6, <1>7 DEF IsRangeEnded

------------------------------------------------------------------------------
(* The walk of merge_deletion and the text.                                *)
LEMMA CutAtLeaf ==
    ASSUME NEW runs \in Seq(Runs), NEW i \in 1 .. Len(runs) + 1,
           NEW front \in Seq(Characters), NEW rest \in Seq(Characters),
           VisibleChars(runs) = front \o rest,
           OffsetOfLeaf(runs, i) = Len(front)
    PROVE  BeforeLeaf(runs, i) = front /\ FromLeaf(runs, i) = rest
<1>1. /\ UpTo(VisibleChars(runs), OffsetOfLeaf(runs, i)) = BeforeLeaf(runs, i)
      /\ TextAfter(VisibleChars(runs), OffsetOfLeaf(runs, i)) = FromLeaf(runs, i)
  BY TextAroundLeaf DEF IsTextAround
<1>2. /\ UpTo(front \o rest, Len(front)) = front
      /\ TextAfter(front \o rest, Len(front)) = rest
  BY ConcatIsCut
<1>3. QED
  BY <1>1, <1>2

(* The text of a leaf in three parts, and the document without the middle. *)
IsMiddleDeleted(runs, i, from, to, x, y, z) ==
    /\ x \in Seq(Characters) /\ y \in Seq(Characters) /\ z \in Seq(Characters)
    /\ Len(x) = from /\ Len(y) = to - from
    /\ RunText(runs[i]) = x \o (y \o z)
    /\ to = RunLen(runs[i]) => z = <<>>
    /\ VisibleChars(DeleteRangeInLeaf(runs, i, from, to)) =
         (BeforeLeaf(runs, i) \o x) \o (z \o FromLeaf(runs, i + 1))

LEMMA MiddleOfLeafDeleted ==
    ASSUME NEW runs \in Seq(Runs), NEW i \in 1 .. Len(runs), ~runs[i].del,
           NEW from \in Nat, NEW to \in Nat, from < to, to <= RunLen(runs[i])
    PROVE  \E x, y, z : IsMiddleDeleted(runs, i, from, to, x, y, z)
<1>1. PICK run, len : run = runs[i] /\ len = RunLen(run)
  OBVIOUS
<1>2. run \in Runs /\ len \in Nat /\ ~run.del
  <2>1. run \in Runs
    BY <1>1, ElementOfSeq
  <2>2. QED
    BY <2>1, <1>1, RunLength
<1>3. PICK x, y, z, yz :
        /\ x = RunText(SubRun(run, 0, from)) /\ y = RunText(SubRun(run, from, to))
        /\ z = RunText(SubRun(run, to, len)) /\ yz = RunText(SubRun(run, from, len))
  OBVIOUS
<1>4. /\ 0 \in Nat /\ 0 <= from /\ from <= to /\ to <= len /\ from <= len
      /\ len <= len /\ 0 <= len /\ len = RunLen(run)
  BY <1>1, <1>2
<1>5. x \in Seq(Characters) /\ Len(x) = from
  <2>1. x \in Seq(Characters) /\ Len(x) = IF run.del THEN 0 ELSE from - 0
    BY <1>2, <1>3, <1>4, TextOfSubRun
  <2>2. QED
    BY <2>1, <1>2
<1>6. y \in Seq(Characters) /\ Len(y) = to - from
  <2>1. y \in Seq(Characters) /\ Len(y) = IF run.del THEN 0 ELSE to - from
    BY <1>2, <1>3, <1>4, TextOfSubRun
  <2>2. QED
    BY <2>1, <1>2
<1>7. z \in Seq(Characters) /\ (to = len => z = <<>>)
  <2>1. z \in Seq(Characters) /\ Len(z) = IF run.del THEN 0 ELSE len - to
    BY <1>2, <1>3, <1>4, TextOfSubRun
  <2>2. Len(z) = len - to
    BY <2>1, <1>2
  <2>3. to = len => Len(z) = 0
    BY <2>2, <1>2
  <2>4. QED
    BY <2>1, <2>3
<1>8. yz = y \o z
  BY <1>2, <1>3, <1>4, TextOfSubRuns, ZenonT(40)
<1>9. RunText(run) = x \o yz
  <2>1. x \o yz = RunText(SubRun(run, 0, len))
    BY <1>2, <1>3, <1>4, TextOfSubRuns, ZenonT(40)
  <2>2. QED
    BY <2>1, <1>1, <1>2, TextOfWholeRun
<1>10. VisibleChars(DeleteRangeInLeaf(runs, i, from, to)) =
         (BeforeLeaf(runs, i) \o x) \o (z \o FromLeaf(runs, i + 1))
  <2>1. VisibleChars(DeleteRangeInLeaf(runs, i, from, to))
          = TextWithout(runs, i, from, to)
    BY TextOfRangeDeletedInLeaf
  <2>2. x = LeftOfRange(runs, i, from) /\ z = RightOfRange(runs, i, to)
    BY <1>1, <1>3 DEF LeftOfRange, RightOfRange
  <2>3. QED
    BY <2>1, <2>2 DEF TextWithout
<1>11. IsMiddleDeleted(runs, i, from, to, x, y, z)
  BY <1>1, <1>5, <1>6, <1>7, <1>8, <1>9, <1>10 DEF IsMiddleDeleted
<1>12. QED
  BY <1>11

(* How a walk stands to the text from before the merge: of that text, it   *)
(* has kept or noted the first part, of which its ranges leave what stands *)
(* before its leaf, it has not noted yet that it deleted the second, and   *)
(* the rest is what stands from its leaf on.                               *)
IsTextAt(text, kept, gone, w) ==
    /\ kept \in Seq(Characters) /\ gone \in Seq(Characters)
    /\ text = (kept \o gone) \o FromLeaf(w.runs, w.i)
    /\ Len(kept) = DeletingFrom(w) /\ Len(kept \o gone) = w.visible_offset
    /\ RemoveRanges(kept, w.ranges) = BeforeLeaf(w.runs, w.i)

TextOK(text, w) ==
    IF w.done THEN VisibleChars(w.runs) = RemoveRanges(text, w.ranges)
    ELSE \E kept, gone : IsTextAt(text, kept, gone, w)

LEMMA RangesEndIn ==
    ASSUME NEW ranges, RangesOK(ranges), NEW text, NEW n \in Nat,
           Len(text) = n, EndsBefore(ranges, n + 1)
    PROVE  EndIn(ranges, text)
<1>1. ranges \in Seq(OffsetRanges) /\ DOMAIN ranges = 1 .. Len(ranges)
  BY LenProperties DEF RangesOK
<1>2. ASSUME NEW k \in DOMAIN ranges PROVE ranges[k].end <= n
  <2>1. ranges[k] \in OffsetRanges
    BY <1>1, <1>2, ElementOfSeq
  <2>2. ranges[k].end \in Nat /\ ranges[k].end < n + 1
    BY <2>1, <1>2 DEF OffsetRanges, EndsBefore
  <2>3. QED
    BY <2>2
<1>3. QED
  BY <1>2 DEF EndIn

LEMMA RangesEndInKept ==
    ASSUME NEW d, NEW w, WalkOK(w, d), ~w.done,
           NEW kept, Len(kept) = DeletingFrom(w)
    PROVE  EndIn(w.ranges, kept)
<1>1. PICK from : from = DeletingFrom(w)
  OBVIOUS
<1>2. /\ RangesOK(w.ranges) /\ from \in Nat
      /\ EndsBefore(w.ranges, from) \/ EndsBefore(w.ranges, from + 1)
  BY <1>1 DEF WalkOK, OffsetsOK
<1>3. EndsBefore(w.ranges, from + 1)
  <2>1. from + 1 \in Nat /\ from <= from + 1
    BY <1>2
  <2>2. QED
    BY <2>1, <1>2, EndsBeforeLater
<1>4. QED
  BY <1>1, <1>2, <1>3, RangesEndIn

(* What a walk deleted so far is noted as a range.                         *)
LEMMA TextOfEndedRange ==
    ASSUME NEW d, NEW w, WalkOK(w, d), ~w.done,
           NEW text, NEW kept, NEW gone, IsTextAt(text, kept, gone, w),
           NEW rest \in Seq(Characters)
    PROVE  RemoveRanges((kept \o gone) \o rest, EndRange(w)) =
             BeforeLeaf(w.runs, w.i) \o rest
<1>1. /\ kept \in Seq(Characters) /\ gone \in Seq(Characters)
      /\ Len(kept) = DeletingFrom(w) /\ Len(kept \o gone) = w.visible_offset
      /\ RemoveRanges(kept, w.ranges) = BeforeLeaf(w.runs, w.i)
  BY DEF IsTextAt
<1>2. RangesOK(w.ranges) /\ EndIn(w.ranges, kept)
  BY <1>1, RangesEndInKept DEF WalkOK
<1>3. CASE w.state = "deleting"
  <2>1. PICK range : range = [start |-> Len(kept), end |-> Len(kept \o gone)]
    OBVIOUS
  <2>2. EndRange(w) = Append(w.ranges, range)
    BY <1>1, <1>3, <2>1 DEF EndRange, AddRange, DeletingFrom
  <2>3. RemoveRanges((kept \o gone) \o rest, Append(w.ranges, range))
          = RemoveRanges(kept, w.ranges) \o rest
    <3>1. PICK ranges : ranges = w.ranges
      OBVIOUS
    <3>2. RangesOK(ranges) /\ EndIn(ranges, kept)
      BY <3>1, <1>2
    <3>3. IsRangeEnded(kept, gone, rest, ranges)
      BY <1>1, <3>2, RangeEndedInText
    <3>4. QED
      BY <2>1, <3>1, <3>3 DEF IsRangeEnded
  <2>4. QED
    BY <2>2, <2>3, <1>1
<1>4. CASE w.state # "deleting"
  <2>1. EndRange(w) = w.ranges /\ Len(kept) = w.visible_offset
    BY <1>1, <1>4 DEF EndRange, DeletingFrom
  <2>2. gone = <<>>
    <3>1. Len(kept \o gone) = Len(kept) + Len(gone)
      BY <1>1, ConcatProperties
    <3>2. Len(kept) \in Nat /\ Len(gone) \in Nat
      BY <1>1, LenProperties
    <3>3. Len(gone) = 0
      BY <3>1, <3>2, <2>1, <1>1
    <3>4. QED
      BY <3>3, <1>1
  <2>3. kept \o gone = kept
    BY <2>2, <1>1, ConcatEmptySeq
  <2>4. RemoveRanges(kept \o rest, w.ranges) = RemoveRanges(kept, w.ranges) \o rest
    BY <1>1, <1>2, RangesRemovedInFront
  <2>5. QED
    BY <2>1, <2>3, <2>4, <1>1
<1>5. QED
  BY <1>3, <1>4

(* A range that ends inside the leaf.                                      *)
IsEndedInLeaf(w, kept, gone, more, rest) ==
    RemoveRanges(((kept \o gone) \o more) \o rest,
                 AddRange(w, DeletingFrom(w), w.visible_offset + Len(more))) =
      BeforeLeaf(w.runs, w.i) \o rest

LEMMA TextOfRangeEndedInLeaf ==
    ASSUME NEW d, NEW w, WalkOK(w, d), ~w.done,
           NEW text, NEW kept, NEW gone, IsTextAt(text, kept, gone, w),
           NEW more \in Seq(Characters), NEW rest \in Seq(Characters)
    PROVE  IsEndedInLeaf(w, kept, gone, more, rest)
<1>0. PICK ranges :
         ranges = AddRange(w, DeletingFrom(w), w.visible_offset + Len(more))
  OBVIOUS
<1>1. /\ kept \in Seq(Characters) /\ gone \in Seq(Characters)
      /\ Len(kept) = DeletingFrom(w) /\ Len(kept \o gone) = w.visible_offset
      /\ RemoveRanges(kept, w.ranges) = BeforeLeaf(w.runs, w.i)
  BY DEF IsTextAt
<1>2. RangesOK(w.ranges) /\ EndIn(w.ranges, kept)
  BY <1>1, RangesEndInKept DEF WalkOK
<1>3. gone \o more \in Seq(Characters) /\ kept \o gone \in Seq(Characters)
  BY <1>1, ConcatProperties
<1>4. (kept \o gone) \o more = kept \o (gone \o more)
  <2>1. Associate(kept, gone, more)
    BY <1>1, AllAssociate
  <2>2. QED
    BY <2>1 DEF Associate
<1>5. Len((kept \o gone) \o more) = w.visible_offset + Len(more)
  BY <1>1, <1>3, ConcatProperties
<1>6. PICK range : range = [start |-> Len(kept),
                            end |-> Len(kept \o (gone \o more))]
  OBVIOUS
<1>7. ranges = Append(w.ranges, range)
  BY <1>0, <1>1, <1>4, <1>5, <1>6 DEF AddRange
<1>8. RemoveRanges((kept \o (gone \o more)) \o rest, Append(w.ranges, range))
        = RemoveRanges(kept, w.ranges) \o rest
  <2>1. PICK others, now : others = w.ranges /\ now = gone \o more
    OBVIOUS
  <2>2. RangesOK(others) /\ EndIn(others, kept) /\ now \in Seq(Characters)
    BY <2>1, <1>2, <1>3
  <2>3. IsRangeEnded(kept, now, rest, others)
    BY <1>1, <2>2, RangeEndedInText
  <2>4. QED
    BY <1>6, <2>1, <2>3 DEF IsRangeEnded
<1>9. QED
  BY <1>0, <1>1, <1>4, <1>7, <1>8 DEF IsEndedInLeaf

(* A whole leaf is deleted.                                                *)
LEMMA TextOfWholeLeafDeleted ==
    ASSUME NEW runs \in Seq(Runs), NEW i \in 1 .. Len(runs)
    PROVE  VisibleChars([runs EXCEPT ![i].del = TRUE]) =
             BeforeLeaf(runs, i) \o FromLeaf(runs, i + 1)
<1> DEFINE new == [runs EXCEPT ![i].del = TRUE]
<1>1. PICK e : e = Tombstone(runs[i])
  OBVIOUS
<1>2. runs[i] \in Runs
  BY ElementOfSeq
<1>3. e \in Runs
  BY <1>1, <1>2, TombstoneOfRun
<1>4. e.del
  BY <1>1, <1>2 DEF Tombstone, Runs, RunType
<1>5. new = [runs EXCEPT ![i] = e]
  BY <1>1 DEF Tombstone
<1> HIDE DEF new
<1>6. new = Splice(runs, i, <<e>>)
  <2>1. [runs EXCEPT ![i] = e] = Splice(runs, i, <<e>>)
    BY <1>3, ExceptIsSplice
  <2>2. QED
    BY <2>1, <1>5
<1>7. <<e>> \in Seq(Runs) /\ VisibleChars(<<e>>) = <<>>
  BY <1>3, <1>4, TextOfOne, TombstoneText
<1>8. VisibleChars(new) = BeforeLeaf(runs, i) \o <<>> \o FromLeaf(runs, i + 1)
  BY <1>6, <1>7, TextOfSplice
<1>9. BeforeLeaf(runs, i) \in Seq(Characters)
  <2>1. i \in 1 .. Len(runs) + 1
    BY LenProperties
  <2>2. QED
    BY <2>1, TextAroundLeaf DEF IsTextAround
<1>10. QED
  BY <1>8, <1>9, ConcatEmptySeq DEF new

(* The text around the leaf of a walk.                                     *)
IsTextOfWalk(w, before, x, rest) ==
    /\ before \in Seq(Characters) /\ x \in Seq(Characters)
    /\ rest \in Seq(Characters)
    /\ before = BeforeLeaf(w.runs, w.i) /\ Len(before) = w.leaf_offset
    /\ x = RunText(w.runs[w.i]) /\ rest = FromLeaf(w.runs, w.i + 1)
    /\ FromLeaf(w.runs, w.i) = x \o rest
    /\ BeforeLeaf(w.runs, w.i + 1) = before \o x
    /\ VisibleChars(w.runs) = before \o (x \o rest)

LEMMA TextOfWalk ==
    ASSUME NEW w, w.runs \in Seq(Runs), w.i \in 1 .. Len(w.runs),
           IsRightOffset(w)
    PROVE  \E before, x, rest : IsTextOfWalk(w, before, x, rest)
<1>1. PICK runs, i : runs = w.runs /\ i = w.i
  OBVIOUS
<1>2. /\ runs \in Seq(Runs) /\ i \in 1 .. Len(runs) /\ i \in 1 .. Len(runs) + 1
  BY <1>1, LenProperties
<1>3. PICK before, x, rest :
        /\ before = BeforeLeaf(runs, i) /\ x = RunText(runs[i])
        /\ rest = FromLeaf(runs, i + 1)
  OBVIOUS
<1>4. /\ before \in Seq(Characters) /\ Len(before) = OffsetOfLeaf(runs, i)
      /\ VisibleChars(runs) = before \o FromLeaf(runs, i)
  BY <1>2, <1>3, TextAroundLeaf DEF IsTextAround
<1>5. /\ x \in Seq(Characters) /\ rest \in Seq(Characters)
      /\ FromLeaf(runs, i) = x \o rest
      /\ BeforeLeaf(runs, i + 1) = before \o x
  BY <1>2, <1>3, TextFromLeaf
<1>6. IsTextOfWalk(w, before, x, rest)
  BY <1>1, <1>3, <1>4, <1>5 DEF IsTextOfWalk, IsRightOffset
<1>7. QED
  BY <1>6

(* A leaf that is a tombstone is passed.                                   *)
LEMMA TextOfTombstonePassed ==
    ASSUME NEW w, w.runs \in Seq(Runs), w.i \in 1 .. Len(w.runs),
           IsRightOffset(w), ~w.done, w.runs[w.i].del,
           NEW text, NEW kept, NEW gone, IsTextAt(text, kept, gone, w),
           NEW v, HasFields(v, w.runs, w.i + 1, w.state, w.from, w.leaf_offset,
                            w.visible_offset, w.ranges, w.done, w.sound)
    PROVE  TextOK(text, v)
<1>1. PICK before, x, rest : IsTextOfWalk(w, before, x, rest)
  BY TextOfWalk
<1>2. x = <<>>
  BY <1>1, TombstoneText DEF IsTextOfWalk
<1>3. x \o rest = rest /\ before \o x = before
  BY <1>1, <1>2, ConcatEmptySeq DEF IsTextOfWalk
<1>4. /\ FromLeaf(w.runs, w.i + 1) = FromLeaf(w.runs, w.i)
      /\ BeforeLeaf(w.runs, w.i + 1) = BeforeLeaf(w.runs, w.i)
  BY <1>1, <1>3 DEF IsTextOfWalk
<1>5. /\ v.runs = w.runs /\ v.i = w.i + 1 /\ v.ranges = w.ranges /\ v.done = w.done
      /\ DeletingFrom(v) = DeletingFrom(w) /\ v.visible_offset = w.visible_offset
  BY DEF HasFields, DeletingFrom
<1>6. IsTextAt(text, kept, gone, v)
  BY <1>4, <1>5 DEF IsTextAt
<1>7. QED
  BY <1>5, <1>6 DEF TextOK

(* A leaf the sender knew is deleted.                                      *)
LEMMA TextOfLeafDeleted ==
    ASSUME NEW w, w.runs \in Seq(Runs), w.i \in 1 .. Len(w.runs),
           IsRightOffset(w), ~w.done, ~w.runs[w.i].del,
           NEW text, NEW kept, NEW gone, IsTextAt(text, kept, gone, w),
           NEW v, v.runs \in Seq(Runs), v.i \in 1 .. Len(v.runs) + 1,
           IsRightOffset(v),
           HasFields(v, [w.runs EXCEPT ![w.i].del = TRUE], w.i + 1, "deleting",
                     DeletingFrom(w), w.leaf_offset,
                     w.visible_offset + RunLen(w.runs[w.i]), w.ranges, w.done,
                     w.sound)
    PROVE  TextOK(text, v)
<1>1. PICK before, x, rest : IsTextOfWalk(w, before, x, rest)
  BY TextOfWalk
<1>2. PICK runs, i, new : /\ runs = w.runs /\ i = w.i
                          /\ new = [runs EXCEPT ![i].del = TRUE]
  OBVIOUS
<1>3. /\ v.runs = new /\ v.i = i + 1 /\ v.ranges = w.ranges /\ v.done = w.done
      /\ v.leaf_offset = w.leaf_offset /\ DeletingFrom(v) = DeletingFrom(w)
      /\ v.visible_offset = w.visible_offset + RunLen(runs[i])
  BY <1>2 DEF HasFields, DeletingFrom
<1>4. /\ before \in Seq(Characters) /\ x \in Seq(Characters)
      /\ rest \in Seq(Characters)
      /\ before = BeforeLeaf(runs, i) /\ Len(before) = w.leaf_offset
      /\ x = RunText(runs[i]) /\ rest = FromLeaf(runs, i + 1)
      /\ FromLeaf(runs, i) = x \o rest
  BY <1>1, <1>2 DEF IsTextOfWalk
<1>5. VisibleChars(new) = before \o rest
  BY <1>2, <1>4, TextOfWholeLeafDeleted
<1>6. BeforeLeaf(new, i + 1) = before /\ FromLeaf(new, i + 1) = rest
  <2>1. OffsetOfLeaf(new, i + 1) = Len(before)
    BY <1>3, <1>4 DEF IsRightOffset
  <2>2. PICK j : j = i + 1
    OBVIOUS
  <2>3. new \in Seq(Runs) /\ j \in 1 .. Len(new) + 1
    BY <1>3, <2>2, Zenon
  <2>4. /\ before \in Seq(Characters) /\ rest \in Seq(Characters)
        /\ VisibleChars(new) = before \o rest
        /\ OffsetOfLeaf(new, j) = Len(before)
    BY <1>4, <1>5, <2>1, <2>2, Zenon
  <2>5. BeforeLeaf(new, j) = before /\ FromLeaf(new, j) = rest
    BY <2>3, <2>4, CutAtLeaf
  <2>6. QED
    BY <2>2, <2>5
<1>7. Len(x) = RunLen(runs[i])
  <2>1. runs[i] \in Runs /\ ~runs[i].del
    BY <1>2, ElementOfSeq
  <2>2. QED
    BY <2>1, <1>4, TextOfLeaf DEF VisibleLen
<1>8. /\ kept \in Seq(Characters) /\ gone \in Seq(Characters)
      /\ text = (kept \o gone) \o (x \o rest)
      /\ Len(kept) = DeletingFrom(w) /\ Len(kept \o gone) = w.visible_offset
      /\ RemoveRanges(kept, w.ranges) = before
  BY <1>2, <1>4 DEF IsTextAt
<1>9. PICK both, all : both = kept \o gone /\ all = gone \o x
  OBVIOUS
<1>10. both \in Seq(Characters) /\ all \in Seq(Characters)
  BY <1>4, <1>8, <1>9, ConcatProperties
<1>11. both \o x = kept \o all /\ (both \o x) \o rest = both \o (x \o rest)
  <2>1. Associate(kept, gone, x) /\ Associate(both, x, rest)
    BY <1>4, <1>8, <1>10, AllAssociate
  <2>2. QED
    BY <2>1, <1>9 DEF Associate
<1>12. text = (kept \o all) \o rest
  BY <1>8, <1>9, <1>11
<1>13. Len(kept \o all) = v.visible_offset
  <2>1. Len(both \o x) = Len(both) + Len(x)
    BY <1>4, <1>10, ConcatProperties
  <2>2. QED
    BY <2>1, <1>3, <1>7, <1>8, <1>9, <1>11
<1>14. IsTextAt(text, kept, all, v)
  BY <1>3, <1>6, <1>8, <1>10, <1>12, <1>13 DEF IsTextAt
<1>15. QED
  BY <1>3, <1>14 DEF TextOK

(* The text from a leaf on in three parts: in front of what is deleted of  *)
(* the leaf, what is deleted, and the rest.                                *)
IsPartDeleted(runs, i, from, to, x, y, z) ==
    /\ x \in Seq(Characters) /\ y \in Seq(Characters) /\ z \in Seq(Characters)
    /\ Len(x) = from /\ Len(y) = to - from
    /\ FromLeaf(runs, i) = x \o (y \o z)
    /\ VisibleChars(DeleteRangeInLeaf(runs, i, from, to)) =
         (BeforeLeaf(runs, i) \o x) \o z

LEMMA PartOfLeafDeleted ==
    ASSUME NEW runs \in Seq(Runs), NEW i \in 1 .. Len(runs), ~runs[i].del,
           NEW from \in Nat, NEW to \in Nat, from < to, to <= RunLen(runs[i])
    PROVE  \E x, y, z : IsPartDeleted(runs, i, from, to, x, y, z)
<1>1. PICK x, y, end : IsMiddleDeleted(runs, i, from, to, x, y, end)
  BY MiddleOfLeafDeleted
<1>2. PICK rest : rest = FromLeaf(runs, i + 1)
  OBVIOUS
<1>3. /\ rest \in Seq(Characters)
      /\ FromLeaf(runs, i) = RunText(runs[i]) \o rest
  BY <1>2, TextFromLeaf
<1>4. /\ x \in Seq(Characters) /\ y \in Seq(Characters) /\ end \in Seq(Characters)
      /\ Len(x) = from /\ Len(y) = to - from
      /\ RunText(runs[i]) = x \o (y \o end)
      /\ VisibleChars(DeleteRangeInLeaf(runs, i, from, to)) =
           (BeforeLeaf(runs, i) \o x) \o (end \o rest)
  BY <1>1, <1>2 DEF IsMiddleDeleted
<1>5. PICK both, z : both = y \o end /\ z = end \o rest
  OBVIOUS
<1>6. both \in Seq(Characters) /\ z \in Seq(Characters)
  BY <1>3, <1>4, <1>5, ConcatProperties
<1>7. Associate(x, both, rest) /\ Associate(y, end, rest)
  BY <1>3, <1>4, <1>6, AllAssociate
<1>8. FromLeaf(runs, i) = x \o (y \o z)
  <2>1. (x \o both) \o rest = x \o (both \o rest) /\ both \o rest = y \o z
    BY <1>5, <1>7 DEF Associate
  <2>2. FromLeaf(runs, i) = (x \o both) \o rest
    BY <1>3, <1>4, <1>5
  <2>3. QED
    BY <2>1, <2>2
<1>9. IsPartDeleted(runs, i, from, to, x, y, z)
  BY <1>4, <1>5, <1>6, <1>8 DEF IsPartDeleted
<1>10. QED
  BY <1>9

(* The first characters of a leaf are deleted.                             *)
IsHeadDeleted(runs, i, up_to, y, z) ==
    /\ y \in Seq(Characters) /\ z \in Seq(Characters) /\ Len(y) = up_to
    /\ FromLeaf(runs, i) = y \o z
    /\ VisibleChars(DeleteRangeInLeaf(runs, i, 0, up_to)) = BeforeLeaf(runs, i) \o z
    /\ BeforeLeaf(runs, i) \in Seq(Characters)
    /\ Len(BeforeLeaf(runs, i)) = OffsetOfLeaf(runs, i)

LEMMA HeadOfLeafDeleted ==
    ASSUME NEW runs \in Seq(Runs), NEW i \in 1 .. Len(runs), ~runs[i].del,
           NEW up_to \in Nat, 0 < up_to, up_to <= RunLen(runs[i])
    PROVE  \E y, z : IsHeadDeleted(runs, i, up_to, y, z)
<1>1. PICK x, y, z : IsPartDeleted(runs, i, 0, up_to, x, y, z)
  <2>1. 0 \in Nat
    OBVIOUS
  <2>2. QED
    BY <2>1, PartOfLeafDeleted
<1>2. PICK before : before = BeforeLeaf(runs, i)
  OBVIOUS
<1>3. before \in Seq(Characters) /\ Len(before) = OffsetOfLeaf(runs, i)
  <2>1. i \in 1 .. Len(runs) + 1
    BY LenProperties
  <2>2. QED
    BY <2>1, <1>2, TextAroundLeaf DEF IsTextAround
<1>4. /\ x \in Seq(Characters) /\ y \in Seq(Characters) /\ z \in Seq(Characters)
      /\ Len(x) = 0 /\ Len(y) = up_to - 0 /\ FromLeaf(runs, i) = x \o (y \o z)
      /\ VisibleChars(DeleteRangeInLeaf(runs, i, 0, up_to)) = (before \o x) \o z
  BY <1>1, <1>2 DEF IsPartDeleted
<1>5. x = <<>> /\ Len(y) = up_to
  <2>1. x = <<>>
    BY <1>4
  <2>2. Len(y) = up_to
    BY <1>4
  <2>3. QED
    BY <2>1, <2>2
<1>6. y \o z \in Seq(Characters)
  BY <1>4, ConcatProperties
<1>7. x \o (y \o z) = y \o z /\ before \o x = before
  BY <1>3, <1>5, <1>6, ConcatEmptySeq
<1>8. /\ FromLeaf(runs, i) = y \o z
      /\ VisibleChars(DeleteRangeInLeaf(runs, i, 0, up_to)) = before \o z
  BY <1>4, <1>7
<1>9. IsHeadDeleted(runs, i, up_to, y, z)
  BY <1>2, <1>3, <1>4, <1>5, <1>8 DEF IsHeadDeleted
<1>10. QED
  BY <1>9

(* A walk that is not inside a range has noted all that it deleted.        *)
LEMMA TextSettled ==
    ASSUME NEW v, v.state # "deleting",
           NEW kept \in Seq(Characters), NEW rest \in Seq(Characters),
           NEW text, text = kept \o rest, rest = FromLeaf(v.runs, v.i),
           Len(kept) = v.visible_offset,
           RemoveRanges(kept, v.ranges) = BeforeLeaf(v.runs, v.i)
    PROVE  IsTextAt(text, kept, <<>>, v)
<1>1. kept \o <<>> = kept /\ <<>> \in Seq(Characters)
  BY ConcatEmptySeq, EmptySeq
<1>2. DeletingFrom(v) = v.visible_offset
  BY DEF DeletingFrom
<1>3. QED
  BY <1>1, <1>2 DEF IsTextAt

(* A leaf the sender did not know is skipped.                              *)
LEMMA TextOfLeafSkipped ==
    ASSUME NEW d, NEW w, w.runs \in Seq(Runs), w.i \in 1 .. Len(w.runs),
           WalkOK(w, d), ~w.done, ~w.runs[w.i].del,
           NEW text, NEW kept, NEW gone, IsTextAt(text, kept, gone, w),
           NEW v,
           HasFields(v, w.runs, w.i + 1, "skipping", w.from,
                     w.leaf_offset + RunLen(w.runs[w.i]),
                     w.visible_offset + RunLen(w.runs[w.i]), EndRange(w),
                     w.done, w.sound)
    PROVE  TextOK(text, v)
<1>0. IsRightOffset(w)
  BY DEF WalkOK, OffsetsOK
<1>1. PICK before, x, rest : IsTextOfWalk(w, before, x, rest)
  BY <1>0, TextOfWalk
<1>2. PICK runs, i : runs = w.runs /\ i = w.i
  OBVIOUS
<1>3. /\ before \in Seq(Characters) /\ x \in Seq(Characters)
      /\ rest \in Seq(Characters) /\ before = BeforeLeaf(runs, i)
      /\ x = RunText(runs[i]) /\ rest = FromLeaf(runs, i + 1)
      /\ FromLeaf(runs, i) = x \o rest /\ BeforeLeaf(runs, i + 1) = before \o x
  BY <1>1, <1>2 DEF IsTextOfWalk
<1>4. Len(x) = RunLen(runs[i])
  <2>1. runs[i] \in Runs /\ ~runs[i].del
    BY <1>2, ElementOfSeq
  <2>2. QED
    BY <2>1, <1>3, TextOfLeaf DEF VisibleLen
<1>5. /\ v.runs = runs /\ v.i = i + 1 /\ v.state = "skipping"
      /\ v.visible_offset = w.visible_offset + RunLen(runs[i])
      /\ v.ranges = EndRange(w) /\ ~v.done
  BY <1>2 DEF HasFields
<1>6. /\ kept \in Seq(Characters) /\ gone \in Seq(Characters)
      /\ text = (kept \o gone) \o (x \o rest)
      /\ Len(kept \o gone) = w.visible_offset
  BY <1>2, <1>3 DEF IsTextAt
<1>7. PICK both, all : both = kept \o gone /\ all = both \o x
  OBVIOUS
<1>8. both \in Seq(Characters) /\ all \in Seq(Characters)
  BY <1>3, <1>6, <1>7, ConcatProperties
<1>9. text = all \o rest
  <2>1. Associate(both, x, rest)
    BY <1>3, <1>8, AllAssociate
  <2>2. QED
    BY <2>1, <1>6, <1>7 DEF Associate
<1>10. Len(all) = v.visible_offset
  <2>1. Len(all) = Len(both) + Len(x)
    BY <1>3, <1>7, <1>8, ConcatProperties
  <2>2. QED
    BY <2>1, <1>4, <1>5, <1>6, <1>7
<1>11. RemoveRanges(all, EndRange(w)) = before \o x
  <2>1. x \in Seq(Characters)
    BY <1>3
  <2>2. RemoveRanges((kept \o gone) \o x, EndRange(w))
          = BeforeLeaf(w.runs, w.i) \o x
    BY <2>1, TextOfEndedRange
  <2>3. QED
    BY <2>2, <1>2, <1>3, <1>7
<1>12. IsTextAt(text, all, <<>>, v)
  <2>1. /\ v.state # "deleting" /\ rest = FromLeaf(v.runs, v.i)
        /\ RemoveRanges(all, v.ranges) = BeforeLeaf(v.runs, v.i)
    BY <1>3, <1>5, <1>11
  <2>2. QED
    BY <2>1, <1>3, <1>8, <1>9, <1>10, TextSettled
<1>13. QED
  BY <1>5, <1>12 DEF TextOK

(* The sender knew the first characters of a leaf: they are deleted.       *)
LEMMA TextOfHeadDeleted ==
    ASSUME NEW d, NEW w, w.runs \in Seq(Runs), w.i \in 1 .. Len(w.runs),
           WalkOK(w, d), ~w.done, ~w.runs[w.i].del,
           NEW text, NEW kept, NEW gone, IsTextAt(text, kept, gone, w),
           NEW up_to \in Nat, 0 < up_to, up_to <= RunLen(w.runs[w.i]),
           NEW v, v.runs \in Seq(Runs), v.i \in 1 .. Len(v.runs) + 1,
           IsRightOffset(v),
           HasFields(v, DeleteRangeInLeaf(w.runs, w.i, 0, up_to),
                     LeafAfterDeleted(w.runs, w.i, 0, up_to), "skipping",
                     w.from, w.leaf_offset, w.visible_offset + up_to,
                     AddRange(w, DeletingFrom(w), w.visible_offset + up_to),
                     w.done, TRUE)
    PROVE  TextOK(text, v)
<1>0. IsRightOffset(w)
  BY DEF WalkOK, OffsetsOK
<1>1. PICK runs, i, j, new, before :
         /\ runs = w.runs /\ i = w.i /\ j = v.i /\ new = v.runs
         /\ before = BeforeLeaf(runs, i)
  OBVIOUS
<1>2. PICK y, z : IsHeadDeleted(runs, i, up_to, y, z)
  BY <1>1, HeadOfLeafDeleted
<1>3. /\ new = DeleteRangeInLeaf(runs, i, 0, up_to) /\ v.state = "skipping"
      /\ v.visible_offset = w.visible_offset + up_to /\ ~v.done
      /\ v.ranges = AddRange(w, DeletingFrom(w), w.visible_offset + up_to)
      /\ v.leaf_offset = w.leaf_offset
  BY <1>1 DEF HasFields
<1>4. /\ y \in Seq(Characters) /\ z \in Seq(Characters) /\ Len(y) = up_to
      /\ FromLeaf(runs, i) = y \o z /\ VisibleChars(new) = before \o z
      /\ before \in Seq(Characters) /\ Len(before) = OffsetOfLeaf(runs, i)
  BY <1>1, <1>2, <1>3 DEF IsHeadDeleted
<1>5. BeforeLeaf(new, j) = before /\ FromLeaf(new, j) = z
  <2>1. new \in Seq(Runs) /\ j \in 1 .. Len(new) + 1
    BY <1>1
  <2>2. OffsetOfLeaf(new, j) = Len(before)
    BY <1>0, <1>1, <1>3, <1>4 DEF IsRightOffset
  <2>3. before \in Seq(Characters) /\ z \in Seq(Characters)
    BY <1>4
  <2>4. VisibleChars(new) = before \o z
    BY <1>4
  <2>5. QED
    BY <2>1, <2>2, <2>3, <2>4, CutAtLeaf
<1>6. /\ kept \in Seq(Characters) /\ gone \in Seq(Characters)
      /\ text = (kept \o gone) \o (y \o z)
      /\ Len(kept \o gone) = w.visible_offset
  BY <1>1, <1>4 DEF IsTextAt
<1>7. PICK both, all : both = kept \o gone /\ all = both \o y
  OBVIOUS
<1>8. both \in Seq(Characters) /\ all \in Seq(Characters)
  BY <1>4, <1>6, <1>7, ConcatProperties
<1>9. text = all \o z
  <2>1. Associate(both, y, z)
    BY <1>4, <1>8, AllAssociate
  <2>2. QED
    BY <2>1, <1>6, <1>7 DEF Associate
<1>10. Len(all) = v.visible_offset
  <2>1. Len(all) = Len(both) + Len(y)
    BY <1>4, <1>7, <1>8, ConcatProperties
  <2>2. QED
    BY <2>1, <1>3, <1>4, <1>6, <1>7
<1>11. RemoveRanges(all, v.ranges) = before
  <2>1. PICK ranges, none : ranges = v.ranges /\ none = <<>>
    OBVIOUS
  <2>2. ranges = AddRange(w, DeletingFrom(w), w.visible_offset + Len(y))
    BY <2>1, <1>3, <1>4
  <2>3. none \in Seq(Characters)
    BY <2>1, EmptySeq
  <2>4. RemoveRanges(((kept \o gone) \o y) \o none, ranges)
          = BeforeLeaf(w.runs, w.i) \o none
    <3>1. y \in Seq(Characters)
      BY <1>4
    <3>2. IsEndedInLeaf(w, kept, gone, y, none)
      BY <3>1, <2>3, TextOfRangeEndedInLeaf
    <3>3. QED
      BY <3>2, <2>2 DEF IsEndedInLeaf
  <2>5. all \o none = all /\ before \o none = before
    BY <2>1, <1>4, <1>8, ConcatEmptySeq
  <2>6. QED
    BY <2>1, <2>4, <2>5, <1>1, <1>7
<1>12. IsTextAt(text, all, <<>>, v)
  <2>1. /\ v.state # "deleting" /\ z = FromLeaf(v.runs, v.i)
        /\ RemoveRanges(all, v.ranges) = BeforeLeaf(v.runs, v.i)
    BY <1>1, <1>3, <1>5, <1>11
  <2>2. QED
    BY <2>1, <1>4, <1>8, <1>9, <1>10, TextSettled
<1>13. QED
  BY <1>3, <1>12 DEF TextOK

(* The visit of a leaf between the first one and the last.                 *)
LEMMA TextOfInnerLeaf ==
    ASSUME NEW order, NEW w, IsWalk(w), WellFormed(order, w.runs),
           NEW d, d.version_map \in [ReplicaIds -> Nat],
           w.i \in 1 .. Len(w.runs) - 1,
           w.i # IdxAtAnchor(w.runs, d.end, "left"),
           ~w.done, WalkOK(w, d), NEW text, TextOK(text, w),
           NEW v, v = VisitLeaf(w, d), WalkOK(v, d),
           v.runs \in Seq(Runs),
           ~v.done => v.i \in 1 .. Len(v.runs) + 1
    PROVE  TextOK(text, v)
<1>1. PICK runs, i : runs = w.runs /\ i = w.i
  OBVIOUS
<1>2. PICK run, len, known :
         run = runs[i] /\ len = RunLen(run) /\ known = KnownTo(d, run)
  OBVIOUS
<1>3. /\ runs \in Seq(Runs) /\ Len(runs) \in Nat /\ i \in 1 .. Len(runs)
      /\ ~(w.i > Len(w.runs))
  BY <1>1, LenProperties DEF WellFormed
<1>4. /\ run.start \in Nat /\ len \in Nat /\ run.end = run.start + len
      /\ known \in Nat
  <2>1. runs[i] \in Runs
    BY <1>3, ElementOfSeq
  <2>2. run \in Runs /\ run.id \in ReplicaIds
    BY <2>1, <1>2 DEF Runs, RunType
  <2>3. run.start \in Nat /\ len \in Nat /\ run.end = run.start + len
    BY <2>2, <1>2, RunLength
  <2>4. known \in Nat
    BY <2>2, <1>2 DEF KnownTo
  <2>5. QED
    BY <2>3, <2>4
<1>5. PICK kept, gone : IsTextAt(text, kept, gone, w)
  BY DEF TextOK
<1>6. w.sound /\ IsRightOffset(w)
  BY DEF WalkOK, OffsetsOK
<1>7. w.runs \in Seq(Runs) /\ w.i \in 1 .. Len(w.runs)
  BY <1>1, <1>3
<1>8. ~v.done => IsRightOffset(v)
  BY DEF WalkOK, OffsetsOK
<1>9. CASE run.del
  <2>1. HasFields(v, w.runs, w.i + 1, w.state, w.from, w.leaf_offset,
                  w.visible_offset, w.ranges, w.done, w.sound)
    BY <1>1, <1>2, <1>3, <1>9, FieldsOfPassed
  <2>2. w.runs[w.i].del
    BY <1>1, <1>2, <1>9
  <2>3. QED
    BY <2>1, <2>2, <1>5, <1>6, <1>7, TextOfTombstonePassed
<1>10. CASE ~run.del /\ run.end <= known
  <2>1. HasFields(v, [w.runs EXCEPT ![w.i].del = TRUE], w.i + 1, "deleting",
                  DeletingFrom(w), w.leaf_offset,
                  w.visible_offset + RunLen(w.runs[w.i]), w.ranges, w.done,
                  w.sound)
    BY <1>1, <1>2, <1>3, <1>10, FieldsOfWholeLeaf
  <2>2. ~w.runs[w.i].del /\ ~v.done
    BY <2>1, <1>1, <1>2, <1>10 DEF HasFields
  <2>3. IsRightOffset(v) /\ v.i \in 1 .. Len(v.runs) + 1
    BY <2>2, <1>8
  <2>4. QED
    BY <2>1, <2>2, <2>3, <1>5, <1>6, <1>7, TextOfLeafDeleted
<1>11. CASE ~run.del /\ ~(run.end <= known) /\ run.start >= known
  <2>1. HasFields(v, w.runs, w.i + 1, "skipping", w.from,
                  w.leaf_offset + RunLen(w.runs[w.i]),
                  w.visible_offset + RunLen(w.runs[w.i]), EndRange(w),
                  w.done, w.sound)
    BY <1>1, <1>2, <1>3, <1>11, FieldsOfSkipped
  <2>2. ~w.runs[w.i].del
    BY <1>1, <1>2, <1>11
  <2>3. QED
    BY <2>1, <2>2, <1>5, <1>7, TextOfLeafSkipped
<1>12. CASE ~run.del /\ ~(run.end <= known) /\ ~(run.start >= known)
  <2>1. PICK up_to : up_to = known - run.start
    OBVIOUS
  <2>2. up_to \in Nat /\ 0 < up_to /\ up_to <= len
    BY <2>1, <1>4, <1>12
  <2>3. HasFields(v, DeleteRangeInLeaf(w.runs, w.i, 0, up_to),
                  LeafAfterDeleted(w.runs, w.i, 0, up_to), "skipping",
                  w.from, w.leaf_offset, w.visible_offset + up_to,
                  AddRange(w, DeletingFrom(w), w.visible_offset + up_to),
                  w.done, TRUE)
    BY <2>1, <2>2, <1>1, <1>2, <1>3, <1>6, <1>12, FieldsOfHead
  <2>4. ~w.runs[w.i].del /\ ~v.done
    BY <2>3, <1>1, <1>2, <1>12 DEF HasFields
  <2>5. IsRightOffset(v) /\ v.i \in 1 .. Len(v.runs) + 1
    BY <2>4, <1>8
  <2>6. up_to <= RunLen(w.runs[w.i])
    BY <2>2, <1>1, <1>2
  <2>7. QED
    BY <2>2, <2>3, <2>4, <2>5, <2>6, <1>5, <1>7, TextOfHeadDeleted
<1>13. QED
  BY <1>9, <1>10, <1>11, <1>12

(* The document after the last leaf.                                       *)
LEMMA RunsOfLast ==
    ASSUME NEW w, IsWalk(w), NEW d, NEW v, v = VisitLeaf(w, d),
           ~(w.i > Len(w.runs)), w.i = IdxAtAnchor(w.runs, d.end, "left"),
           w.sound, IsRightOffset(w),
           NEW up_to, up_to = d.end.offset - w.runs[w.i].start, 0 < up_to
    PROVE  v.runs = IF w.runs[w.i].del THEN w.runs
                    ELSE DeleteRangeInLeaf(w.runs, w.i, 0, up_to)
<1> DEFINE a == AddRange(w, DeletingFrom(w), w.visible_offset + up_to)
           b == EndRange(w)
           x == DeleteLeafRange(w, 0, up_to)
<1>1. v = IF w.runs[w.i].del THEN [w EXCEPT !.ranges = b, !.done = TRUE]
          ELSE [x EXCEPT !.ranges = a, !.done = TRUE]
  BY DEF VisitLeaf, VisitLastLeaf
<1> HIDE DEF a, b
<1>2. CASE w.runs[w.i].del
  <2>1. v = [w EXCEPT !.ranges = b, !.done = TRUE]
    BY <1>1, <1>2
  <2>2. v = [runs |-> w.runs, i |-> w.i, state |-> w.state, from |-> w.from,
             leaf_offset |-> w.leaf_offset,
             visible_offset |-> w.visible_offset,
             ranges |-> b, done |-> TRUE, sound |-> w.sound]
    BY <2>1 DEF IsWalk
  <2>3. v.runs = w.runs
    BY <2>2
  <2>4. QED
    BY <2>3, <1>2
<1>3. CASE ~w.runs[w.i].del
  <2>1. v = [x EXCEPT !.ranges = a, !.done = TRUE]
    BY <1>1, <1>3
  <2>2. IsWalk(x) /\ x.runs = DeleteRangeInLeaf(w.runs, w.i, 0, up_to)
    <3>1. /\ IsWalk(x)
          /\ HasFields(x, DeleteRangeInLeaf(w.runs, w.i, 0, up_to),
                       LeafAfterDeleted(w.runs, w.i, 0, up_to),
                       w.state, w.from, w.leaf_offset, w.visible_offset,
                       w.ranges, w.done, TRUE)
      BY <1>3, FieldsOfDeletedRange
    <3>2. QED
      BY <3>1 DEF HasFields
  <2> HIDE DEF x
  <2>3. v.runs = x.runs
    BY <2>1, <2>2 DEF IsWalk
  <2>4. QED
    BY <2>2, <2>3, <1>3
<1>4. QED
  BY <1>2, <1>3

(* The visit of the last leaf.                                             *)
LEMMA TextOfLastLeaf ==
    ASSUME NEW w, IsWalk(w), NEW d,
           w.runs \in Seq(Runs), w.i \in 1 .. Len(w.runs),
           w.i = IdxAtAnchor(w.runs, d.end, "left"),
           ~w.done, WalkOK(w, d), NEW text, TextOK(text, w),
           d.end.offset - w.runs[w.i].start \in Nat,
           0 < d.end.offset - w.runs[w.i].start,
           d.end.offset - w.runs[w.i].start <= RunLen(w.runs[w.i]),
           NEW v, v = VisitLeaf(w, d)
    PROVE  TextOK(text, v)
<1>1. PICK runs, i, up_to, before :
         /\ runs = w.runs /\ i = w.i /\ up_to = d.end.offset - w.runs[w.i].start
         /\ before = BeforeLeaf(runs, i)
  OBVIOUS
<1>2. /\ up_to \in Nat /\ 0 < up_to /\ up_to <= RunLen(runs[i])
      /\ ~(w.i > Len(w.runs)) /\ runs \in Seq(Runs) /\ i \in 1 .. Len(runs)
  BY <1>1, LenProperties
<1>3. w.sound /\ IsRightOffset(w)
  BY DEF WalkOK, OffsetsOK
<1>4. /\ v.done
      /\ v.ranges = IF w.runs[w.i].del THEN EndRange(w)
                    ELSE AddRange(w, DeletingFrom(w),
                                  w.visible_offset + up_to)
  BY <1>1, <1>2, <1>3, FieldsOfLast
<1>5. v.runs = IF w.runs[w.i].del THEN w.runs
               ELSE DeleteRangeInLeaf(w.runs, w.i, 0, up_to)
  BY <1>1, <1>2, <1>3, RunsOfLast
<1>6. PICK kept, gone : IsTextAt(text, kept, gone, w)
  BY DEF TextOK
<1>7. text = (kept \o gone) \o FromLeaf(w.runs, w.i)
  BY <1>6 DEF IsTextAt
<1>8. CASE w.runs[w.i].del
  <2>1. PICK rest : rest = FromLeaf(runs, i)
    OBVIOUS
  <2>2. /\ rest \in Seq(Characters) /\ VisibleChars(runs) = before \o rest
    <3>1. i \in 1 .. Len(runs) + 1
      BY <1>2, LenProperties
    <3>2. QED
      BY <3>1, <2>1, <1>1, <1>2, TextAroundLeaf DEF IsTextAround
  <2>3. RemoveRanges((kept \o gone) \o rest, EndRange(w))
          = BeforeLeaf(w.runs, w.i) \o rest
    <3>1. rest \in Seq(Characters)
      BY <2>2
    <3>2. QED
      BY <3>1, <1>6, TextOfEndedRange
  <2>4. v.runs = runs /\ v.ranges = EndRange(w) /\ text = (kept \o gone) \o rest
    BY <2>1, <1>1, <1>4, <1>5, <1>7, <1>8
  <2>5. VisibleChars(v.runs) = RemoveRanges(text, v.ranges)
    BY <2>2, <2>3, <2>4, <1>1
  <2>6. QED
    BY <2>5, <1>4 DEF TextOK
<1>9. CASE ~w.runs[w.i].del
  <2>1. PICK y, z : IsHeadDeleted(runs, i, up_to, y, z)
    <3>1. ~runs[i].del
      BY <1>1, <1>9
    <3>2. QED
      BY <3>1, <1>2, HeadOfLeafDeleted
  <2>2. /\ y \in Seq(Characters) /\ z \in Seq(Characters) /\ Len(y) = up_to
        /\ FromLeaf(runs, i) = y \o z
        /\ VisibleChars(DeleteRangeInLeaf(runs, i, 0, up_to)) = before \o z
    BY <2>1, <1>1 DEF IsHeadDeleted
  <2>3. IsEndedInLeaf(w, kept, gone, y, z)
    <3>1. y \in Seq(Characters) /\ z \in Seq(Characters)
      BY <2>2
    <3>2. QED
      BY <3>1, <1>6, TextOfRangeEndedInLeaf
  <2>4. /\ v.runs = DeleteRangeInLeaf(runs, i, 0, up_to)
        /\ v.ranges = AddRange(w, DeletingFrom(w), w.visible_offset + Len(y))
    BY <2>2, <1>1, <1>4, <1>5, <1>9
  <2>5. RemoveRanges(((kept \o gone) \o y) \o z, v.ranges) = before \o z
    BY <2>3, <2>4, <1>1 DEF IsEndedInLeaf
  <2>6. text = ((kept \o gone) \o y) \o z
    <3>1. kept \o gone \in Seq(Characters)
      BY <1>6, ConcatProperties DEF IsTextAt
    <3>2. Associate(kept \o gone, y, z)
      BY <3>1, <2>2, AllAssociate
    <3>3. text = (kept \o gone) \o (y \o z)
      BY <2>2, <1>1, <1>7
    <3>4. QED
      BY <3>2, <3>3 DEF Associate
  <2>7. VisibleChars(v.runs) = RemoveRanges(text, v.ranges)
    BY <2>2, <2>4, <2>5, <2>6
  <2>8. QED
    BY <2>7, <1>4 DEF TextOK
<1>10. QED
  BY <1>8, <1>9

(* A range deleted in one leaf, in the text of the document.               *)
RangeInLeaf(runs, i, from, to) ==
    [start |-> OffsetOfLeaf(runs, i) + from, end |-> OffsetOfLeaf(runs, i) + to]

IsPartOfText(runs, i, from, to, front, y, z) ==
    /\ front \in Seq(Characters) /\ y \in Seq(Characters)
    /\ z \in Seq(Characters) /\ front \o y \in Seq(Characters)
    /\ Len(front) = OffsetOfLeaf(runs, i) + from
    /\ Len(front \o y) = OffsetOfLeaf(runs, i) + to
    /\ VisibleChars(runs) = (front \o y) \o z
    /\ VisibleChars(DeleteRangeInLeaf(runs, i, from, to)) = front \o z
    /\ RemoveRanges((front \o y) \o z, <<RangeInLeaf(runs, i, from, to)>>)
         = front \o z
    /\ RemoveRanges(front \o y, <<RangeInLeaf(runs, i, from, to)>>) = front

LEMMA PartOfTextDeleted ==
    ASSUME NEW runs \in Seq(Runs), NEW i \in 1 .. Len(runs), ~runs[i].del,
           NEW from \in Nat, NEW to \in Nat, from < to, to <= RunLen(runs[i])
    PROVE  \E front, y, z : IsPartOfText(runs, i, from, to, front, y, z)
<1>1. PICK x, y, z : IsPartDeleted(runs, i, from, to, x, y, z)
  BY PartOfLeafDeleted
<1>2. PICK before, offset, rest, front, both, none :
         /\ before = BeforeLeaf(runs, i) /\ offset = OffsetOfLeaf(runs, i)
         /\ rest = FromLeaf(runs, i) /\ front = before \o x
         /\ both = front \o y /\ none = <<>>
  OBVIOUS
<1>3. /\ before \in Seq(Characters) /\ Len(before) = offset
      /\ VisibleChars(runs) = before \o rest
  <2>1. i \in 1 .. Len(runs) + 1
    BY LenProperties
  <2>2. QED
    BY <2>1, <1>2, TextAroundLeaf DEF IsTextAround
<1>4. /\ x \in Seq(Characters) /\ y \in Seq(Characters) /\ z \in Seq(Characters)
      /\ Len(x) = from /\ Len(y) = to - from /\ rest = x \o (y \o z)
      /\ VisibleChars(DeleteRangeInLeaf(runs, i, from, to)) = front \o z
  BY <1>1, <1>2 DEF IsPartDeleted
<1>5. front \in Seq(Characters) /\ Len(front) = Len(before) + Len(x)
  BY <1>2, <1>3, <1>4, ConcatProperties
<1>6. both \in Seq(Characters) /\ Len(both) = Len(front) + Len(y)
  BY <1>2, <1>4, <1>5, ConcatProperties
<1>7. Len(front) = offset + from /\ Len(both) = offset + to
  <2>1. offset \in Nat
    BY <1>3, LenProperties
  <2>2. Len(front) = offset + from
    BY <1>3, <1>4, <1>5
  <2>3. Len(both) = (offset + from) + (to - from)
    BY <2>2, <1>4, <1>6
  <2>4. QED
    BY <2>1, <2>2, <2>3
<1>8. VisibleChars(runs) = both \o z
  <2>1. PICK end : end = y \o z
    OBVIOUS
  <2>2. end \in Seq(Characters)
    BY <2>1, <1>4, ConcatProperties
  <2>3. Associate(before, x, end) /\ Associate(front, y, z)
    BY <2>2, <1>3, <1>4, <1>5, AllAssociate
  <2>4. before \o (x \o end) = front \o end /\ front \o end = both \o z
    BY <2>1, <2>3, <1>2 DEF Associate
  <2>5. QED
    BY <2>1, <2>4, <1>3, <1>4
<1>9. PICK range : range = [start |-> Len(front), end |-> Len(front \o y)]
  OBVIOUS
<1>10. range = RangeInLeaf(runs, i, from, to)
  BY <1>2, <1>7, <1>9 DEF RangeInLeaf
<1>11. none \in Seq(Characters) /\ Append(none, range) = <<range>>
  BY <1>2, EmptySeq
<1>12. RangesOK(none) /\ EndIn(none, front)
  <2>1. RangesOK(none) /\ DOMAIN none = {}
    BY <1>2, NoRangesAreOK DEF NoRanges
  <2>2. QED
    BY <2>1 DEF EndIn
<1>13. RemoveRanges(front, none) = front
  BY <1>2, NoRangeRemoved
<1>14. ASSUME NEW end \in Seq(Characters)
       PROVE  RemoveRanges(both \o end, <<range>>) = front \o end
  <2>1. IsRangeEnded(front, y, end, none)
    BY <1>4, <1>5, <1>12, RangeEndedInText
  <2>2. RemoveRanges((front \o y) \o end, Append(none, range))
          = RemoveRanges(front, none) \o end
    BY <2>1, <1>9 DEF IsRangeEnded
  <2>3. QED
    BY <2>2, <1>2, <1>11, <1>13
<1>15. RemoveRanges(both \o z, <<range>>) = front \o z
  BY <1>4, <1>14
<1>16. RemoveRanges(both, <<range>>) = front
  <2>1. RemoveRanges(both \o none, <<range>>) = front \o none
    BY <1>11, <1>14
  <2>2. both \o none = both /\ front \o none = front
    BY <1>2, <1>5, <1>6, ConcatEmptySeq
  <2>3. QED
    BY <2>1, <2>2
<1>17. IsPartOfText(runs, i, from, to, front, y, z)
  BY <1>2, <1>4, <1>5, <1>6, <1>7, <1>8, <1>10, <1>15, <1>16 DEF IsPartOfText
<1>18. QED
  BY <1>17

(* The visit of the first leaf.                                            *)
LEMMA TextOfFirstPassed ==
    ASSUME NEW runs \in Seq(Runs), NEW d, NEW i \in 1 .. Len(runs),
           i = IdxAtAnchor(runs, d.start, "right"), runs[i].del,
           NEW v, v = VisitFirstLeaf(runs, d)
    PROVE  TextOK(VisibleChars(runs), v)
<1>1. PICK before, x, rest, offset, text :
         /\ before = BeforeLeaf(runs, i) /\ x = RunText(runs[i])
         /\ rest = FromLeaf(runs, i + 1) /\ offset = OffsetOfLeaf(runs, i)
         /\ text = VisibleChars(runs)
  OBVIOUS
<1>2. /\ before \in Seq(Characters) /\ Len(before) = offset
      /\ text = before \o FromLeaf(runs, i)
  <2>1. i \in 1 .. Len(runs) + 1
    BY LenProperties
  <2>2. QED
    BY <2>1, <1>1, TextAroundLeaf DEF IsTextAround
<1>3. /\ rest \in Seq(Characters) /\ FromLeaf(runs, i) = x \o rest
      /\ BeforeLeaf(runs, i + 1) = before \o x
  BY <1>1, TextFromLeaf
<1>4. x = <<>>
  BY <1>1, TombstoneText
<1>5. x \o rest = rest /\ before \o x = before
  BY <1>2, <1>3, <1>4, ConcatEmptySeq
<1>6. HasFields(v, runs, i + 1, "starting", offset, offset, offset, <<>>,
                FALSE, TRUE)
  BY <1>1, FieldsOfFirstPassed
<1>7. /\ v.state # "deleting" /\ ~v.done /\ rest = FromLeaf(v.runs, v.i)
      /\ Len(before) = v.visible_offset /\ v.ranges = <<>>
      /\ before = BeforeLeaf(v.runs, v.i) /\ text = before \o rest
  BY <1>1, <1>2, <1>3, <1>5, <1>6 DEF HasFields
<1>8. RemoveRanges(before, v.ranges) = BeforeLeaf(v.runs, v.i)
  BY <1>7, NoRangeRemoved
<1>9. IsTextAt(text, before, <<>>, v)
  BY <1>2, <1>3, <1>7, <1>8, TextSettled
<1>10. QED
  BY <1>1, <1>7, <1>9 DEF TextOK

LEMMA TextOfFirstLeaf ==
    ASSUME NEW runs \in Seq(Runs), NEW d, NEW i \in 1 .. Len(runs) - 1,
           i = IdxAtAnchor(runs, d.start, "right"),
           d.start.offset \in Nat, runs[i].start <= d.start.offset,
           d.start.offset < runs[i].end,
           d.start.offset < KnownTo(d, runs[i]), KnownTo(d, runs[i]) \in Nat,
           NEW v, v = VisitFirstLeaf(runs, d), WalkOK(v, d),
           v.runs \in Seq(Runs), ~v.done => v.i \in 1 .. Len(v.runs) + 1
    PROVE  TextOK(VisibleChars(runs), v)
<1>1. PICK run, len, known, offset, from, up_to :
         /\ run = runs[i] /\ len = RunLen(run) /\ known = KnownTo(d, run)
         /\ offset = OffsetOfLeaf(runs, i)
         /\ from = d.start.offset - run.start
         /\ up_to = IF run.end > known THEN known - run.start ELSE len
  OBVIOUS
<1>2. i \in 1 .. Len(runs)
  BY LenProperties
<1>3. /\ run.start \in Nat /\ len \in Nat /\ run.end = run.start + len
  <2>1. runs[i] \in Runs
    BY <1>2, ElementOfSeq
  <2>2. QED
    BY <2>1, <1>1, RunLength
<1>4. from \in Nat /\ up_to \in Nat /\ from < up_to /\ up_to <= len
  <2>1. PICK start, at : start = run.start /\ at = d.start.offset
    OBVIOUS
  <2>2. /\ start \in Nat /\ len \in Nat /\ at \in Nat /\ known \in Nat
        /\ start <= at /\ at < start + len /\ at < known
    BY <2>1, <1>1, <1>3
  <2>3. /\ from = at - start
        /\ up_to = IF start + len > known THEN known - start ELSE len
    BY <2>1, <1>1, <1>3
  <2>4. CASE start + len > known
    <3>1. up_to = known - start
      BY <2>3, <2>4
    <3>2. QED
      BY <3>1, <2>2, <2>3, <2>4
  <2>5. CASE ~(start + len > known)
    <3>1. up_to = len
      BY <2>3, <2>5
    <3>2. QED
      BY <3>1, <2>2, <2>3, <2>5
  <2>6. QED
    BY <2>4, <2>5
<1>5. CASE runs[i].del
  BY <1>2, <1>5, TextOfFirstPassed
<1>6. CASE ~runs[i].del
  <2>1. PICK new, j, state, ranges, start, end, text :
           /\ new = DeleteRangeInLeaf(runs, i, from, up_to) /\ j = v.i
           /\ state = IF run.end > known THEN "skipping" ELSE "deleting"
           /\ start = offset + from /\ end = offset + up_to
           /\ ranges = IF run.end > known
                       THEN Append(<<>>, [start |-> start, end |-> end])
                       ELSE <<>>
           /\ text = VisibleChars(runs)
    OBVIOUS
  <2>2. HasFields(v, new, j, state, start, start, end, ranges, FALSE, TRUE)
    <3>1. /\ known = KnownTo(d, runs[i])
          /\ from = d.start.offset - runs[i].start
          /\ up_to = IF runs[i].end > known THEN known - runs[i].start
                     ELSE RunLen(runs[i])
          /\ ranges = IF runs[i].end > known
                      THEN Append(<<>>, [start |-> offset + from,
                                         end |-> offset + up_to])
                      ELSE <<>>
      BY <2>1, <1>1
    <3>2. HasFields(v, DeleteRangeInLeaf(runs, i, from, up_to),
                    LeafAfterDeleted(runs, i, from, up_to),
                    IF runs[i].end > known THEN "skipping" ELSE "deleting",
                    offset + from, offset + from, offset + up_to, ranges,
                    FALSE, TRUE)
      BY <3>1, <1>1, <1>4, <1>6, FieldsOfFirst, Zenon
    <3>3. QED
      BY <3>2, <2>1, <1>1 DEF HasFields
  <2>3. PICK front, y, z : IsPartOfText(runs, i, from, up_to, front, y, z)
    <3>1. up_to <= RunLen(runs[i])
      BY <1>1, <1>4
    <3>2. QED
      BY <3>1, <1>2, <1>4, <1>6, PartOfTextDeleted
  <2>4. PICK both, range : both = front \o y /\ range = [start |-> start, end |-> end]
    OBVIOUS
  <2>5. /\ front \in Seq(Characters) /\ y \in Seq(Characters)
        /\ z \in Seq(Characters) /\ both \in Seq(Characters)
        /\ Len(front) = start /\ Len(both) = end
        /\ text = both \o z /\ VisibleChars(new) = front \o z
        /\ RemoveRanges(both, <<range>>) = front
    BY <2>1, <2>3, <2>4, <1>1 DEF IsPartOfText, RangeInLeaf
  <2>6. BeforeLeaf(new, j) = front /\ FromLeaf(new, j) = z
    <3>1. new = v.runs /\ v.leaf_offset = start /\ ~v.done
      BY <2>2 DEF HasFields
    <3>2. IsRightOffset(v)
      BY <3>1 DEF WalkOK, OffsetsOK
    <3>3. OffsetOfLeaf(new, j) = Len(front)
      BY <3>1, <3>2, <2>1, <2>5 DEF IsRightOffset
    <3>4. new \in Seq(Runs) /\ j \in 1 .. Len(new) + 1
      BY <3>1, <2>1
    <3>5. front \in Seq(Characters) /\ z \in Seq(Characters)
          /\ VisibleChars(new) = front \o z
      BY <2>5
    <3>6. QED
      BY <3>3, <3>4, <3>5, CutAtLeaf
  <2>7. /\ v.runs = new /\ v.i = j /\ v.state = state /\ v.from = start
        /\ v.visible_offset = end /\ v.ranges = ranges /\ ~v.done
    BY <2>2 DEF HasFields
  <2>8. CASE run.end > known
    <3>1. state = "skipping" /\ ranges = <<range>>
      BY <2>1, <2>4, <2>8
    <3>2. /\ v.state # "deleting" /\ z = FromLeaf(v.runs, v.i)
          /\ RemoveRanges(both, v.ranges) = BeforeLeaf(v.runs, v.i)
          /\ Len(both) = v.visible_offset
      BY <3>1, <2>5, <2>6, <2>7
    <3>3. IsTextAt(text, both, <<>>, v)
      BY <3>2, <2>5, TextSettled
    <3>4. QED
      BY <3>3, <2>1, <2>7 DEF TextOK
  <2>9. CASE ~(run.end > known)
    <3>1. state = "deleting" /\ ranges = <<>>
      BY <2>1, <2>9
    <3>2. /\ DeletingFrom(v) = start /\ FromLeaf(v.runs, v.i) = z
          /\ BeforeLeaf(v.runs, v.i) = front /\ v.ranges = <<>>
      BY <3>1, <2>6, <2>7 DEF DeletingFrom
    <3>3. RemoveRanges(front, v.ranges) = front
      BY <3>2, NoRangeRemoved
    <3>4. IsTextAt(text, front, y, v)
      BY <3>2, <3>3, <2>4, <2>5, <2>7 DEF IsTextAt
    <3>5. QED
      BY <3>4, <2>1, <2>7 DEF TextOK
  <2>10. QED
    BY <2>8, <2>9
<1>7. QED
  BY <1>5, <1>6

(* A deletion that lies in one leaf.                                       *)
IsTextMerged(runs, merged) ==
    VisibleChars(merged.runs) = RemoveRanges(VisibleChars(runs), merged.ranges)

LEMMA TextOfLeafMerged ==
    ASSUME NEW order, KeepsRuns(order), NEW runs, WellFormed(order, runs),
           NEW d, NEW s, NEW e,
           IsDeletionIn(order, DocumentMarks(runs), d, s, e),
           NEW i \in 1 .. Len(runs), s \in RunMarks(runs[i]),
           e \in RunMarks(runs[i])
    PROVE  IsTextMerged(runs, MergeDeletionInLeaf(runs, d, i))
<1>1. PICK run, from, to, offset :
         /\ run = runs[i] /\ from = d.start.offset - run.start
         /\ to = d.end.offset - run.start /\ offset = OffsetOfLeaf(runs, i)
  OBVIOUS
<1>2. /\ IsStrictOrder(order, DocumentMarks(runs))
      /\ d.start.offset \in Nat /\ AnchoredAt(d.start, "right", s)
      /\ d.end.offset \in Nat /\ AnchoredAt(d.end, "left", e)
      /\ s \in DocumentMarks(runs) /\ e \in DocumentMarks(runs)
      /\ (s = e \/ <<s, e>> \in order)
  BY DEF IsDeletionIn
<1>3. runs \in Seq(Runs)
  BY DEF WellFormed
<1>4. runs[i] \in Runs
  BY <1>3, ElementOfSeq
<1>5. /\ run \in Runs /\ run.start \in Nat /\ RunLen(run) \in Nat
      /\ run.end = run.start + RunLen(run)
  <2>1. run \in Runs
    BY <1>1, <1>4
  <2>2. QED
    BY <2>1, RunLength
<1>6. s.at = d.start.offset /\ e.at + 1 = d.end.offset
  BY <1>2 DEF AnchoredAt
<1>7. s.at <= e.at /\ e.at \in Nat /\ s.at \in Nat
  <2>1. s.at \in Nat /\ e.at \in Nat /\ (e.at < s.at => <<e, s>> \in order)
    BY LeafIsApart DEF IsLeafApart
  <2>2. ~(<<e, s>> \in order)
    BY <1>2 DEF IsStrictOrder
  <2>3. QED
    BY <2>1, <2>2
<1>8. run.start <= s.at /\ e.at < run.end
  <2>1. Covers(run, s) /\ Covers(run, e)
    <3>1. run \in RunType /\ s \in RunMarks(run) /\ e \in RunMarks(run)
      BY <1>1, <1>5 DEF Runs
    <3>2. QED
      BY <3>1, MarkOfRun
  <2>2. /\ run.start <= s.at /\ e.at < run.end
    BY <2>1 DEF Covers
  <2>3. QED
    BY <2>2
<1>9. from \in Nat /\ to \in Nat /\ from < to /\ to <= RunLen(run)
  <2>1. PICK x, y, n, p : /\ x = s.at /\ y = e.at
                          /\ n = RunLen(run) /\ p = run.start
    OBVIOUS
  <2>2. from = x - p /\ to = (y + 1) - p
    BY <1>1, <1>6, <2>1
  <2>3. /\ x \in Nat /\ y \in Nat /\ n \in Nat /\ p \in Nat
        /\ p <= x /\ x <= y /\ y < p + n
    BY <1>5, <1>7, <1>8, <2>1
  <2>4. from \in Nat /\ to \in Nat /\ from < to /\ to <= n
    BY <2>2, <2>3
  <2>5. QED
    BY <2>1, <2>4
<1>10. CASE run.del
  <2>1. PICK merged : merged = MergeDeletionInLeaf(runs, d, i)
    OBVIOUS
  <2>2. merged.runs = runs /\ merged.ranges = <<>>
    BY <2>1, <1>1, <1>10 DEF MergeDeletionInLeaf
  <2>3. RemoveRanges(VisibleChars(runs), <<>>) = VisibleChars(runs)
    BY NoRangeRemoved
  <2>4. QED
    BY <2>1, <2>2, <2>3 DEF IsTextMerged
<1>11. CASE ~run.del
  <2>1. PICK merged, range :
           /\ merged = MergeDeletionInLeaf(runs, d, i)
           /\ range = RangeInLeaf(runs, i, from, to)
    OBVIOUS
  <2>2. /\ merged.runs = DeleteRangeInLeaf(runs, i, from, to)
        /\ merged.ranges = <<range>>
    BY <2>1, <1>1, <1>11 DEF MergeDeletionInLeaf, RangeInLeaf
  <2>3. PICK front, y, z : IsPartOfText(runs, i, from, to, front, y, z)
    <3>1. to <= RunLen(runs[i]) /\ ~runs[i].del
      BY <1>1, <1>9, <1>11
    <3>2. QED
      BY <3>1, <1>3, <1>9, PartOfTextDeleted
  <2>4. /\ VisibleChars(runs) = (front \o y) \o z
        /\ VisibleChars(merged.runs) = front \o z
        /\ RemoveRanges((front \o y) \o z, <<range>>) = front \o z
    BY <2>1, <2>2, <2>3 DEF IsPartOfText
  <2>5. QED
    BY <2>1, <2>2, <2>4 DEF IsTextMerged
<1>12. QED
  BY <1>10, <1>11

(* A walk that deletes what it should, and notes all of it.                *)
IsMergingText(order, w, marks, dead, d, s, e, n, text) ==
    IsMerging(order, w, marks, dead, d, s, e, n) /\ TextOK(text, w)

IsWalkOver(order, w, marks, e) ==
    /\ IsWalk(w) /\ WellFormed(order, w.runs) /\ DocumentMarks(w.runs) = marks
    /\ w.runs \in Seq(Runs)
    /\ ~w.done => /\ w.i \in 1 .. Len(w.runs) /\ w.i \in 1 .. Len(w.runs) + 1
                  /\ e \in MarksFrom(w.runs, w.i)

LEMMA MergingWalk ==
    ASSUME NEW order, NEW w, NEW marks, NEW dead, NEW d, NEW s, NEW e, NEW n,
           IsMerging(order, w, marks, dead, d, s, e, n)
    PROVE  WalkOK(w, d) /\ IsWalkOver(order, w, marks, e)
<1>1. /\ IsDeleting(order, w, marks, dead, d, s, e, n) /\ WalkOK(w, d)
      /\ KeepsMarks(order, w, marks) /\ w.sound
  BY DEF IsMerging, IsDeleting, WalkOK
<1>2. /\ IsWalk(w) /\ WellFormed(order, w.runs) /\ DocumentMarks(w.runs) = marks
  BY <1>1 DEF KeepsMarks
<1>3. w.runs \in Seq(Runs) /\ Len(w.runs) \in Nat
  BY <1>2, LenProperties DEF WellFormed
<1>4. ASSUME ~w.done
      PROVE  /\ w.i \in 1 .. Len(w.runs) /\ w.i \in 1 .. Len(w.runs) + 1
             /\ e \in MarksFrom(w.runs, w.i)
  <2>1. PICK R : HasDeleted(order, w.runs, w.i, w.done, dead, R, s, e)
    BY <1>1 DEF IsDeleting
  <2>2. w.i \in 1 .. Len(w.runs) /\ e \in MarksFrom(w.runs, w.i)
    BY <2>1, <1>4 DEF HasDeleted, IsAtLeaf
  <2>3. QED
    BY <2>2, <1>3
<1>5. QED
  BY <1>1, <1>2, <1>3, <1>4 DEF IsWalkOver

LEMMA TextGoesOn ==
    ASSUME NEW order, KeepsRuns(order), NEW marks, NEW dead,
           NEW d, NEW s, NEW e, IsDeletionIn(order, marks, d, s, e), NEW text,
           NEW n \in Nat, NEW w,
           IsMergingText(order, w, marks, dead, d, s, e, n + 1, text),
           NEW v, v = IF w.done THEN w ELSE VisitLeaf(w, d)
    PROVE  IsMergingText(order, v, marks, dead, d, s, e, n, text)
<1>1. /\ IsMerging(order, w, marks, dead, d, s, e, n + 1) /\ TextOK(text, w)
  BY DEF IsMergingText
<1>2. IsMerging(order, v, marks, dead, d, s, e, n)
  BY <1>1, MergingGoesOn
<1>3. /\ WalkOK(w, d) /\ IsWalkOver(order, w, marks, e)
      /\ WalkOK(v, d) /\ IsWalkOver(order, v, marks, e)
  BY <1>1, <1>2, MergingWalk
<1>4. CASE w.done
  BY <1>1, <1>2, <1>4 DEF IsMergingText
<1>5. CASE ~w.done
  <2>1. v = VisitLeaf(w, d)
    BY <1>5
  <2>2. /\ IsWalk(w) /\ WellFormed(order, w.runs) /\ DocumentMarks(w.runs) = marks
        /\ w.runs \in Seq(Runs) /\ w.i \in 1 .. Len(w.runs)
        /\ e \in MarksFrom(w.runs, w.i)
    BY <1>3, <1>5 DEF IsWalkOver
  <2>3. v.runs \in Seq(Runs) /\ (~v.done => v.i \in 1 .. Len(v.runs) + 1)
    BY <1>3 DEF IsWalkOver
  <2>4. IsInnerLeaf(w, d) \/ IsLastLeaf(w, d)
    BY <2>2, WalkIsAtLeaf
  <2>5. d.version_map \in [ReplicaIds -> Nat]
    BY DEF IsDeletionIn
  <2>6. CASE IsInnerLeaf(w, d)
    <3>1. /\ w.i \in 1 .. Len(w.runs) - 1
          /\ w.i # IdxAtAnchor(w.runs, d.end, "left")
      BY <2>6 DEF IsInnerLeaf
    <3>2. TextOK(text, v)
      BY <3>1, <2>1, <2>2, <2>3, <2>5, <1>1, <1>3, <1>5, TextOfInnerLeaf
    <3>3. QED
      BY <3>2, <1>2 DEF IsMergingText
  <2>7. CASE IsLastLeaf(w, d)
    <3>1. TextOK(text, v)
      BY <2>1, <2>2, <2>7, <1>1, <1>3, <1>5, TextOfLastLeaf DEF IsLastLeaf
    <3>2. QED
      BY <3>1, <1>2 DEF IsMergingText
  <2>8. QED
    BY <2>4, <2>6, <2>7
<1>6. QED
  BY <1>4, <1>5

LEMMA WalksKeepText ==
    ASSUME NEW order, KeepsRuns(order), NEW marks, NEW dead,
           NEW d, NEW s, NEW e, IsDeletionIn(order, marks, d, s, e), NEW text,
           NEW n \in Nat, NEW first,
           IsMergingText(order, first, marks, dead, d, s, e, n, text),
           NEW f, IsWalks(f, first, d, n)
    PROVE  /\ f[n] # {}
           /\ \A w \in f[n] :
                IsMergingText(order, w, marks, dead, d, s, e, 0, text)
<1> DEFINE Merge(walks, k) ==
             walks # {}
               /\ \A w \in walks :
                    IsMergingText(order, w, marks, dead, d, s, e, k, text)
           S == {k \in Nat : k <= n => Merge(f[k], n - k)}
<1>1. \A k \in 0 .. n :
         f[k] = IF k = 0 THEN {first} ELSE NextWalks(f[k - 1], d)
  BY DEF IsWalks
<1>2. 0 \in S
  <2>1. f[0] = {first} /\ n - 0 = n
    BY <1>1
  <2>2. QED
    BY <2>1
<1>3. ASSUME NEW k \in S \cap Nat PROVE k + 1 \in S
  <2>1. SUFFICES ASSUME k + 1 <= n PROVE Merge(f[k + 1], n - (k + 1))
    OBVIOUS
  <2>2. PICK m : m = n - (k + 1)
    OBVIOUS
  <2>3. m \in Nat /\ m + 1 = n - k
    BY <2>1, <2>2
  <2>4. Merge(f[k], m + 1)
    BY <2>1, <2>3
  <2>5. f[k + 1] = NextWalks(f[k], d)
    <3>1. k + 1 \in 0 .. n /\ k + 1 # 0 /\ (k + 1) - 1 = k
      BY <2>1
    <3>2. QED
      BY <3>1, <1>1
  <2>6. NextWalks(f[k], d) # {}
    BY <2>4 DEF NextWalks
  <2>7. ASSUME NEW v \in NextWalks(f[k], d)
        PROVE  IsMergingText(order, v, marks, dead, d, s, e, m, text)
    <3>1. PICK w \in f[k] : v = IF w.done THEN w ELSE VisitLeaf(w, d)
      BY DEF NextWalks
    <3>2. IsMergingText(order, w, marks, dead, d, s, e, m + 1, text)
      BY <2>4
    <3>3. QED
      BY <3>1, <3>2, <2>3, TextGoesOn
  <2>8. QED
    BY <2>2, <2>5, <2>6, <2>7
<1> HIDE DEF S
<1>4. n \in S
  BY <1>2, <1>3, Induction
<1>5. n - n = 0 /\ n <= n
  OBVIOUS
<1>6. QED
  BY <1>4, <1>5 DEF S

(* The last walk is done.                                                  *)
LEMMA MergingEnds ==
    ASSUME NEW order, NEW w, NEW marks, NEW dead, NEW d, NEW s, NEW e,
           IsMerging(order, w, marks, dead, d, s, e, 0)
    PROVE  w.done
<1>1. w.sound /\ IsDeleting(order, w, marks, dead, d, s, e, 0)
  BY DEF IsMerging, WalkOK
<1>2. ASSUME ~w.done PROVE FALSE
  <2>1. VisitsLeft(w.runs, w.i, d) \in Nat /\ VisitsLeft(w.runs, w.i, d) < 0
    BY <1>1, <1>2 DEF IsDeleting
  <2>2. QED
    BY <2>1
<1>3. QED
  BY <1>2

(* A deletion is merged: the ranges returned are those whose text is gone. *)
LEMMA MergedDeletionText ==
    ASSUME NEW order, KeepsRuns(order), NEW runs, WellFormed(order, runs),
           NEW d, NEW s, NEW e,
           IsDeletionIn(order, DocumentMarks(runs), d, s, e), IsKnownTo(d, s)
    PROVE  IsTextMerged(runs, MergeDeletion(runs, d))
<1> DEFINE i == IdxAtAnchor(runs, d.start, "right")
           marks == DocumentMarks(runs)
           first == VisitFirstLeaf(runs, d)
           N == 2 * Len(runs)
           f == CHOOSE g : IsWalks(g, first, d, N)
           end == CHOOSE walk \in f[N] : TRUE
           result == MergeDeletion(runs, d)
           dead == DeadMarks(runs)
           text == VisibleChars(runs)
<1>1. /\ runs \in Seq(Runs) /\ Len(runs) \in Nat /\ DOMAIN runs = 1 .. Len(runs)
  BY LenProperties DEF WellFormed
<1>2. result = IF ContainsAnchor(runs[i], d.end)
               THEN MergeDeletionInLeaf(runs, d, i)
               ELSE [runs |-> end.runs, ranges |-> end.ranges,
                     sound |-> end.sound]
  BY DEF MergeDeletion, IsWalks, NextWalks
<1>3. /\ MarksHaveOnePlace(marks)
      /\ d.start.offset \in Nat /\ s \in marks /\ AnchoredAt(d.start, "right", s)
      /\ d.end.offset \in Nat /\ e \in marks /\ AnchoredAt(d.end, "left", e)
      /\ d.version_map \in [ReplicaIds -> Nat]
  BY DEF IsDeletionIn
<1>4. i \in 1 .. Len(runs) /\ s \in RunMarks(runs[i])
  BY <1>3, LeafOfMark
<1>5. runs[i] \in Runs
  BY <1>1, <1>4, ElementOfSeq
<1> HIDE DEF result, i, text
<1>6. CASE ContainsAnchor(runs[i], d.end)
  <2>1. e \in Mark /\ e.id = d.end.id /\ e.at + 1 = d.end.offset
    BY <1>1, <1>3, MarksAreMarks DEF AnchoredAt
  <2>2. PICK c : c = [id |-> runs[i].id, at |-> e.at, ts |-> runs[i].ts,
                      lam |-> runs[i].lam]
    OBVIOUS
  <2>3. e.at \in runs[i].start .. runs[i].end - 1
    BY <2>1, <1>3, <1>5, <1>6 DEF ContainsAnchor, Mark, Runs, RunType
  <2>4. c \in RunMarks(runs[i])
    BY <2>2, <2>3 DEF RunMarks
  <2>5. c \in marks
    BY <2>4, <1>1, <1>4 DEF DocumentMarks
  <2>6. c.id = e.id /\ c.at = e.at
    BY <2>1, <2>2, <1>6 DEF ContainsAnchor
  <2>7. c = e
    BY <2>5, <2>6, <1>3 DEF MarksHaveOnePlace
  <2>8. e \in RunMarks(runs[i])
    BY <2>4, <2>7
  <2>9. result = MergeDeletionInLeaf(runs, d, i)
    BY <1>2, <1>6
  <2>10. IsTextMerged(runs, MergeDeletionInLeaf(runs, d, i))
    BY <2>8, <1>4, TextOfLeafMerged
  <2>11. QED
    BY <2>9, <2>10 DEF result
<1>7. CASE ~ContainsAnchor(runs[i], d.end)
  <2>1. result.ranges = end.ranges /\ result.runs = end.runs
    BY <1>2, <1>7
  <2>2. N \in Nat
    BY <1>1
  <2>3. KeepsMarks(order, first, marks)
    <3>1. HasLeafAt(runs, d.start, "right")
      BY <1>1, <1>3, HasLeafIffMark
    <3>2. QED
      BY <3>1, <1>3, FirstLeafVisited
  <2>4. IsDeleting(order, first, marks, dead, d, s, e, N)
    BY <2>3, <1>7, DeletingStarts DEF i
  <2>5. WalkOK(first, d)
    BY <1>7, WalkStartsRight DEF i
  <2>6. PICK k : IsFirstLeaf(runs, d, k)
    BY <1>7, WalkHasFirstLeaf DEF i
  <2>7. IsMerging(order, first, marks, dead, d, s, e, N)
    BY <2>4, <2>5 DEF IsMerging
  <2>8. IsWalkOver(order, first, marks, e)
    <3> HIDE DEF first, marks, dead, N
    <3>1. QED
      BY <2>7, MergingWalk
  <2>9. TextOK(text, first)
    <3>1. PICK v : v = VisitFirstLeaf(runs, d)
      OBVIOUS
    <3>2. /\ WalkOK(v, d) /\ v.runs \in Seq(Runs)
          /\ ~v.done => v.i \in 1 .. Len(v.runs) + 1
      BY <3>1, <2>5, <2>8 DEF IsWalkOver
    <3>3. TextOK(VisibleChars(runs), v)
      BY <3>1, <3>2, <2>6, <1>1, TextOfFirstLeaf DEF IsFirstLeaf
    <3>4. QED
      BY <3>1, <3>3 DEF text
  <2> HIDE DEF first, N
  <2>10. IsMergingText(order, first, marks, dead, d, s, e, N, text)
    BY <2>7, <2>9 DEF IsMergingText
  <2>11. IsWalks(f, first, d, N)
    BY <2>2, WalksExist
  <2> HIDE DEF f, marks, dead
  <2>12. /\ f[N] # {}
         /\ \A w \in f[N] : IsMergingText(order, w, marks, dead, d, s, e, 0, text)
    <3>1. IsDeletionIn(order, marks, d, s, e)
      BY DEF marks
    <3>2. QED
      BY <3>1, <2>2, <2>10, <2>11, WalksKeepText
  <2>13. end \in f[N]
    BY <2>12
  <2> HIDE DEF end
  <2>14. IsMerging(order, end, marks, dead, d, s, e, 0) /\ TextOK(text, end)
    BY <2>12, <2>13 DEF IsMergingText
  <2>15. end.done
    BY <2>14, MergingEnds
  <2>16. VisibleChars(end.runs) = RemoveRanges(text, end.ranges)
    BY <2>14, <2>15 DEF TextOK
  <2>17. QED
    BY <2>1, <2>16 DEF result, text, IsTextMerged
<1>8. QED
  BY <1>6, <1>7

------------------------------------------------------------------------------
(* The users' buffers.                                                     *)
BufferInvariant == DOMAIN buffer = ReplicaIds /\ BufferMatchesDocument

(* A step that changes one replica's document and buffer alike.            *)
IsRewritten(r, runs, text) ==
    /\ run_tree' = [run_tree EXCEPT ![r] = runs]
    /\ buffer' = [buffer EXCEPT ![r] = text]

LEMMA RewrittenKeepsBuffers ==
    ASSUME DOMAIN run_tree = ReplicaIds, replicas \subseteq ReplicaIds,
           BufferInvariant,
           NEW r \in ReplicaIds, Live' \subseteq Live \cup {r},
           NEW runs, NEW text, IsRewritten(r, runs, text),
           text = VisibleChars(runs)
    PROVE  BufferInvariant'
<1>1. DOMAIN buffer = ReplicaIds /\ Live \subseteq ReplicaIds
  BY DEF BufferInvariant, Live
<1>2. /\ DOMAIN buffer' = ReplicaIds
      /\ run_tree'[r] = runs /\ buffer'[r] = text
      /\ \A q \in ReplicaIds \ {r} :
            run_tree'[q] = run_tree[q] /\ buffer'[q] = buffer[q]
  BY <1>1 DEF IsRewritten
<1>3. ASSUME NEW q \in Live' PROVE buffer'[q] = VisibleChars(run_tree'[q])
  <2>1. CASE q = r
    BY <2>1, <1>2
  <2>2. CASE q # r
    <3>1. q \in Live /\ q \in ReplicaIds \ {r}
      BY <2>2, <1>1
    <3>2. buffer[q] = VisibleChars(run_tree[q])
      BY <3>1 DEF BufferInvariant, BufferMatchesDocument
    <3>3. QED
      BY <3>1, <3>2, <1>2
  <2>3. QED
    BY <2>1, <2>2
<1>4. BufferMatchesDocument'
  BY <1>3 DEF BufferMatchesDocument
<1>5. QED
  BY <1>2, <1>4 DEF BufferInvariant

LEMMA UntouchedKeepsBuffers ==
    ASSUME BufferInvariant, Live' \subseteq Live, UNCHANGED tree_vars
    PROVE  BufferInvariant'
<1>1. run_tree' = run_tree /\ buffer' = buffer
  BY DEF tree_vars
<1>2. \A q \in Live' : buffer'[q] = VisibleChars(run_tree'[q])
  BY <1>1 DEF BufferInvariant, BufferMatchesDocument
<1>3. BufferMatchesDocument'
  BY <1>2 DEF BufferMatchesDocument
<1>4. QED
  BY <1>1, <1>3 DEF BufferInvariant

(* What each operation does to the buffer of the replica it is called on.  *)
LEMMA ForkKeepsBuffers ==
    ASSUME DocumentInvariant, BufferInvariant,
           NEW r \in ReplicaIds, NEW new \in ReplicaIds, Fork(r, new)
    PROVE  BufferInvariant'
<1>1. DOMAIN run_tree = ReplicaIds /\ replicas \subseteq ReplicaIds
  BY DEF DocumentInvariant, DocumentsAreSentText, TypeOK
<1>2. /\ r \in Live /\ IsRewritten(new, run_tree[r], buffer[r])
      /\ Live' \subseteq Live \cup {new}
  BY DEF Fork, Idle, Active, Live, IsRewritten
<1>3. buffer[r] = VisibleChars(run_tree[r])
  BY <1>2 DEF BufferInvariant, BufferMatchesDocument
<1>4. QED
  BY <1>1, <1>2, <1>3, RewrittenKeepsBuffers

(* The text of an insertion goes into the text where the user typed it.    *)
IsTextInserted(runs, offset, text, run_c, lam_c, m) ==
    VisibleChars(Insert(runs, offset, text, run_c, lam_c).runs) =
      InsertText(VisibleChars(runs), offset, TextOf(m))

LEMMA InsertedTextIs ==
    ASSUME NEW runs \in Seq(Runs), NEW offset \in Nat,
           offset <= DocumentLen(runs),
           NEW text, text.id \in ReplicaIds, text.start \in Nat,
           text.end \in Nat, text.start < text.end,
           NEW run_c \in Nat, NEW lam_c \in Nat,
           NEW m, m.by = text.id, m.start = text.start, m.end = text.end
    PROVE  IsTextInserted(runs, offset, text, run_c, lam_c, m)
<1>1. VisibleChars(Insert(runs, offset, text, run_c, lam_c).runs) =
        InsertText(VisibleChars(runs), offset, TextOf(m))
  BY InsertedText
<1>2. QED
  BY <1>1, Zenon DEF IsTextInserted

LEMMA InsertedKeepsBuffers ==
    ASSUME DocumentInvariant, BufferInvariant,
           NEW r \in ReplicaIds, NEW offset \in Nat,
           offset <= DocumentLen(run_tree[r]), NEW len \in InsertLens,
           Inserted(r, offset, len)
    PROVE  BufferInvariant'
<1> DEFINE runs == run_tree[r]
           run_c == run_clock[r]
           lam_c == lamport_clock[r]
           text == [id |-> r, start |-> version_map[r][r],
                    end |-> version_map[r][r] + len]
           result == Insert(run_tree[r], offset, text, run_clock[r],
                            lamport_clock[r])
           run_clock_r == IF result.new THEN run_clock[r] + 1 ELSE run_clock[r]
           lamport_r == IF result.new THEN lamport_clock[r] + 1
                        ELSE lamport_clock[r]
           m == [by |-> r, start |-> version_map[r][r],
                 end |-> version_map[r][r] + len, anchor |-> result.anchor,
                 ts |-> IF run_clock_r = 0 THEN 0 ELSE run_clock_r - 1,
                 lam |-> HighestLamport(lamport_r)]
           after == InsertText(buffer[r], offset, TextOf(m))
<1>1. /\ DOMAIN run_tree = ReplicaIds /\ replicas \subseteq ReplicaIds
      /\ runs \in Seq(Runs)
  BY DEF DocumentInvariant, DocumentsAreSentText, TypeOK
<1>2. /\ version_map[r][r] \in Nat /\ run_c \in Nat
      /\ lam_c \in Nat /\ len \in Nat /\ len > 0
  BY InsertLensAssumption DEF DocumentInvariant, TypeOK
<1>3. /\ r \in Live /\ replicas' = replicas /\ panicked' = panicked
      /\ run_tree' = [run_tree EXCEPT ![r] = result.runs]
      /\ buffer' = [buffer EXCEPT ![r] = after]
  BY DEF Inserted, Idle, Active, Live
<1>4. Live' \subseteq Live \cup {r}
  BY <1>3 DEF Live
<1>5. /\ text.id = r /\ text.start = version_map[r][r]
      /\ text.end = version_map[r][r] + len
  OBVIOUS
<1>6. m.by = r /\ m.start = text.start /\ m.end = text.end
  OBVIOUS
<1>7. buffer[r] = VisibleChars(runs)
  BY <1>3 DEF BufferInvariant, BufferMatchesDocument
<1>8. offset <= DocumentLen(runs)
  OBVIOUS
<1>9. result = Insert(runs, offset, text, run_c, lam_c)
  OBVIOUS
<1>10. after = InsertText(buffer[r], offset, TextOf(m))
  OBVIOUS
<1> HIDE DEF runs, run_c, lam_c, text, result, m, after
<1>11. /\ text.id \in ReplicaIds /\ text.start \in Nat /\ text.end \in Nat
       /\ text.start < text.end /\ m.by = text.id
  BY <1>2, <1>5, <1>6
<1>12. IsTextInserted(runs, offset, text, run_c, lam_c, m)
  BY <1>1, <1>2, <1>6, <1>8, <1>11, InsertedTextIs
<1>13. VisibleChars(result.runs) = InsertText(VisibleChars(runs), offset, TextOf(m))
  BY <1>9, <1>12, Zenon DEF IsTextInserted
<1>14. after = VisibleChars(result.runs)
  BY <1>7, <1>10, <1>13, Zenon
<1>15. PICK now : now = result.runs
  OBVIOUS
<1>16. IsRewritten(r, now, after) /\ after = VisibleChars(now)
  BY <1>3, <1>14, <1>15, Zenon DEF IsRewritten
<1>17. QED
  BY <1>1, <1>3, <1>4, <1>16, RewrittenKeepsBuffers

LEMMA DeletedKeepsBuffers ==
    ASSUME DocumentInvariant, BufferInvariant, NEW r \in ReplicaIds,
           NEW from \in Nat, NEW to \in Nat, from < to,
           to <= DocumentLen(run_tree[r]), Deleted(r, from, to)
    PROVE  BufferInvariant'
<1>1. /\ DOMAIN run_tree = ReplicaIds /\ replicas \subseteq ReplicaIds
      /\ run_tree[r] \in Seq(Runs)
  BY DEF DocumentInvariant, DocumentsAreSentText, TypeOK
<1>2. PICK runs, range, now, after :
         /\ runs = run_tree[r] /\ range = [start |-> from, end |-> to]
         /\ now = Delete(runs, from, to).runs
         /\ after = RemoveRange(buffer[r], range)
  OBVIOUS
<1>3. IsRewritten(r, now, after)
  BY <1>2 DEF Deleted, IsRewritten
<1>4. r \in Live /\ Live' \subseteq Live \cup {r}
  BY DEF Deleted, Idle, Active, Live
<1>5. buffer[r] = VisibleChars(runs)
  BY <1>2, <1>4 DEF BufferInvariant, BufferMatchesDocument
<1>6. VisibleChars(now) = after
  <2>1. runs \in Seq(Runs) /\ to <= DocumentLen(runs)
    BY <1>1, <1>2
  <2>2. VisibleChars(Delete(runs, from, to).runs) =
          RemoveRange(VisibleChars(runs), [start |-> from, end |-> to])
    BY <2>1, DeletedText
  <2>3. QED
    BY <2>2, <1>2, <1>5
<1>7. QED
  BY <1>1, <1>3, <1>4, <1>6, RewrittenKeepsBuffers

LEMMA MergedInsertionKeepsBuffers ==
    ASSUME DocumentInvariant, BufferInvariant, NEW r \in ReplicaIds,
           NEW m \in insertions, r \in Live, UNCHANGED replicas,
           MergeUncheckedInsertion(r, m)
    PROVE  BufferInvariant'
<1>1. /\ DOMAIN run_tree = ReplicaIds /\ replicas \subseteq ReplicaIds
      /\ run_tree[r] \in Seq(Runs) /\ run_tree[r] # <<>> /\ r \in replicas
  BY DEF DocumentInvariant, DocumentsAreSentText, TypeOK, WellFormed, Live
<1>2. CASE m.anchor = ZeroAnchor \/ HasLeafAt(run_tree[r], m.anchor, "left")
  <2>1. PICK runs, result, now, after :
           /\ runs = run_tree[r] /\ result = MergeInsertion(runs, m)
           /\ now = result.runs
           /\ after = InsertText(buffer[r], result.offset, TextOf(m))
    OBVIOUS
  <2>2. /\ IsRewritten(r, now, after) /\ UNCHANGED panicked
    BY <2>1, <1>2 DEF MergeUncheckedInsertion, IsRewritten
  <2>3. Live' \subseteq Live \cup {r}
    BY <2>2 DEF Live
  <2>4. buffer[r] = VisibleChars(runs)
    BY <2>1 DEF BufferInvariant, BufferMatchesDocument
  <2>5. /\ m.by \in ReplicaIds /\ m.start \in Nat /\ m.end \in Nat
        /\ m.start < m.end /\ m.ts \in Nat /\ m.lam \in Nat
    BY DEF DocumentInvariant, TypeOK, InsertionTypeOK, ClockInvariant,
           InsertionsAreCounted
  <2>6. m.anchor = ZeroAnchor \/ m.anchor.offset \in Nat
    BY DEF DocumentInvariant, TextInvariant, InsertionsAreAnchored, AnchorType
  <2>7. \/ m.anchor = ZeroAnchor
        \/ m.anchor.offset \in Nat /\ HasLeafAt(runs, m.anchor, "left")
    BY <2>1, <2>6, <1>2
  <2>8. VisibleChars(now) = after
    <3>1. runs \in Seq(Runs) /\ runs # <<>>
      BY <2>1, <1>1
    <3>2. VisibleChars(MergeInsertion(runs, m).runs) =
            InsertText(VisibleChars(runs), MergeInsertion(runs, m).offset,
                       TextOf(m))
      BY <3>1, <2>5, <2>7, MergedInsertionText
    <3>3. QED
      BY <3>2, <2>1, <2>4
  <2>9. QED
    BY <2>2, <2>3, <2>8, <1>1, RewrittenKeepsBuffers
<1>3. CASE ~(m.anchor = ZeroAnchor \/ HasLeafAt(run_tree[r], m.anchor, "left"))
  <2>1. panicked' = panicked \cup {r} /\ UNCHANGED tree_vars
    BY <1>3 DEF MergeUncheckedInsertion
  <2>2. Live' \subseteq Live
    BY <2>1 DEF Live
  <2>3. QED
    BY <2>1, <2>2, UntouchedKeepsBuffers
<1>4. QED
  BY <1>2, <1>3

LEMMA MergedDeletionKeepsBuffers ==
    ASSUME DocumentInvariant, DeletionInvariant, BufferInvariant,
           NEW r \in ReplicaIds, NEW d \in deletions, r \in Live,
           UNCHANGED replicas, CanMergeDeletion(r, d),
           MergeUncheckedDeletion(r, d)
    PROVE  BufferInvariant'
<1>1. /\ DOMAIN run_tree = ReplicaIds /\ replicas \subseteq ReplicaIds
      /\ r \in replicas
  BY DEF DocumentInvariant, DocumentsAreSentText, TypeOK, Live
<1>2. PICK runs, result, now, after :
         /\ runs = run_tree[r] /\ result = MergeDeletion(runs, d)
         /\ now = result.runs /\ after = RemoveRanges(buffer[r], result.ranges)
  OBVIOUS
<1>3. \/ IsRewritten(r, now, after) /\ UNCHANGED panicked
      \/ panicked' = panicked \cup {r} /\ UNCHANGED tree_vars
  BY <1>2 DEF MergeUncheckedDeletion, IsRewritten
<1>4. CASE IsRewritten(r, now, after) /\ UNCHANGED panicked
  <2>1. Live' \subseteq Live \cup {r}
    BY <1>4 DEF Live
  <2>2. buffer[r] = VisibleChars(runs)
    BY <1>2 DEF BufferInvariant, BufferMatchesDocument
  <2>3. PICK order, s, e : IsAcceptedIn(order, r, d, s, e)
    BY <1>1, AcceptedDeletion
  <2>4. IsTextMerged(runs, MergeDeletion(runs, d))
    BY <2>3, <1>2, MergedDeletionText DEF IsAcceptedIn
  <2>5. VisibleChars(now) = after
    BY <2>2, <2>4, <1>2 DEF IsTextMerged
  <2>6. QED
    BY <2>1, <2>5, <1>1, <1>4, RewrittenKeepsBuffers
<1>5. CASE panicked' = panicked \cup {r} /\ UNCHANGED tree_vars
  <2>1. Live' \subseteq Live
    BY <1>5 DEF Live
  <2>2. QED
    BY <2>1, <1>5, UntouchedKeepsBuffers
<1>6. QED
  BY <1>3, <1>4, <1>5

LEMMA NextKeepsBuffers ==
    ASSUME DocumentInvariant, DeletionInvariant, BufferInvariant, [Next]_vars
    PROVE  BufferInvariant'
<1>1. CASE UNCHANGED vars
  <2>1. UNCHANGED tree_vars /\ Live' \subseteq Live
    BY <1>1 DEF vars, tree_vars, Live
  <2>2. QED
    BY <2>1, UntouchedKeepsBuffers
<1>2. CASE Next
  <2>0. TypeOK
    BY DEF DocumentInvariant
  <2>1. PICK r \in ReplicaIds :
          \/ \E new \in ReplicaIds : Fork(r, new)
          \/ InsertedAnywhere(r)
          \/ DeletedAnywhere(r)
          \/ \E m \in insertions : IntegrateInsertion(r, m)
          \/ \E d \in deletions : IntegrateDeletion(r, d)
          \/ BackloggedInsertions(r)
          \/ BackloggedDeletions(r)
          \/ NextBackloggedInsertion(r)
          \/ NextBackloggedDeletion(r)
          \/ NextQueue(r)
          \/ DropIterator(r)
    BY <1>2 DEF Next
  <2>2. CASE \E new \in ReplicaIds : Fork(r, new)
    BY <2>2, ForkKeepsBuffers
  <2>3. CASE InsertedAnywhere(r)
    <3>1. PICK offset \in 0 .. DocumentLen(run_tree[r]), len \in InsertLens :
             Inserted(r, offset, len)
      BY <2>3 DEF InsertedAnywhere
    <3>2. offset \in Nat /\ offset <= DocumentLen(run_tree[r])
      OBVIOUS
    <3>3. QED
      BY <3>1, <3>2, InsertedKeepsBuffers
  <2>4. CASE DeletedAnywhere(r)
    <3>1. PICK from \in 0 .. DocumentLen(run_tree[r]),
               to \in 0 .. DocumentLen(run_tree[r]) :
             from < to /\ Deleted(r, from, to)
      BY <2>4 DEF DeletedAnywhere
    <3>2. from \in Nat /\ to \in Nat /\ to <= DocumentLen(run_tree[r])
      OBVIOUS
    <3>3. QED
      BY <3>1, <3>2, DeletedKeepsBuffers
  <2>5. ASSUME NEW m \in insertions, IntegrateInsertion(r, m)
        PROVE  BufferInvariant'
    <3>1. r \in Live /\ UNCHANGED replicas
      BY <2>5 DEF IntegrateInsertion, Idle, Active, Live
    <3>2. CASE MergeUncheckedInsertion(r, m)
      BY <3>1, <3>2, MergedInsertionKeepsBuffers
    <3>3. CASE BacklogInsertion(r, m)
      <4>1. UNCHANGED tree_vars /\ Live' \subseteq Live
        BY <3>1, <3>3 DEF BacklogInsertion, Live
      <4>2. QED
        BY <4>1, UntouchedKeepsBuffers
    <3>4. QED
      BY <2>5, <3>2, <3>3 DEF IntegrateInsertion
  <2>6. ASSUME NEW d \in deletions, IntegrateDeletion(r, d)
        PROVE  BufferInvariant'
    <3>1. r \in Live /\ UNCHANGED replicas
      BY <2>6 DEF IntegrateDeletion, Idle, Active, Live
    <3>2. CASE CanMergeDeletion(r, d) /\ MergeUncheckedDeletion(r, d)
      BY <3>1, <3>2, MergedDeletionKeepsBuffers
    <3>3. CASE BacklogDeletion(r, d)
      <4>1. UNCHANGED tree_vars /\ Live' \subseteq Live
        BY <3>1, <3>3 DEF BacklogDeletion, Live
      <4>2. QED
        BY <4>1, UntouchedKeepsBuffers
    <3>4. QED
      BY <2>6, <3>2, <3>3 DEF IntegrateDeletion
  <2>7. CASE NextBackloggedInsertion(r)
    <3> DEFINE queue == insertions_backlog[r][iterator[r].current]
    <3>1. /\ r \in Live /\ iterator[r].kind = "insertions"
          /\ UNCHANGED replicas
          /\ queue # <<>> /\ CanMergeInsertion(r, Head(queue))
          /\ MergeUncheckedInsertion(r, Head(queue))
      BY <2>7 DEF NextBackloggedInsertion, CanMergeFirst, Active, Live
    <3>2. iterator[r].current \in ReplicaIds
      <4>1. iterator[r] \in IteratorType
        BY <2>0 DEF TypeOK
      <4>2. iterator[r] # NoIterator
        BY <3>1 DEF NoIterator
      <4>3. QED
        BY <4>1, <4>2 DEF IteratorType
    <3>3. queue \in Seq(insertions)
      BY <3>2, <2>0 DEF TypeOK
    <3> HIDE DEF queue
    <3>4. Head(queue) \in insertions
      BY <3>1, <3>3
    <3>5. QED
      BY <3>1, <3>4, MergedInsertionKeepsBuffers
  <2>8. CASE NextBackloggedDeletion(r)
    <3> DEFINE queue == deletions_backlog[r][iterator[r].current]
    <3>1. /\ r \in Live /\ iterator[r].kind = "deletions"
          /\ UNCHANGED replicas
          /\ queue # <<>> /\ CanMergeDeletion(r, Head(queue))
          /\ MergeUncheckedDeletion(r, Head(queue))
      BY <2>8 DEF NextBackloggedDeletion, CanMergeFirst, Active, Live
    <3>2. iterator[r].current \in ReplicaIds
      <4>1. iterator[r] \in IteratorType
        BY <2>0 DEF TypeOK
      <4>2. iterator[r] # NoIterator
        BY <3>1 DEF NoIterator
      <4>3. QED
        BY <4>1, <4>2 DEF IteratorType
    <3>3. queue \in Seq(deletions)
      BY <3>2, <2>0 DEF TypeOK
    <3> HIDE DEF queue
    <3>4. Head(queue) \in deletions
      BY <3>1, <3>3
    <3>5. QED
      BY <3>1, <3>4, MergedDeletionKeepsBuffers
  <2>9. CASE \/ BackloggedInsertions(r) \/ BackloggedDeletions(r)
             \/ NextQueue(r) \/ DropIterator(r)
    <3>1. UNCHANGED tree_vars /\ Live' \subseteq Live
      BY <2>9 DEF BackloggedInsertions, BackloggedDeletions, StartIterator,
                  NextQueue, DropIterator, Live
    <3>2. QED
      BY <3>1, UntouchedKeepsBuffers
  <2>10. QED
    BY <2>1, <2>2, <2>3, <2>4, <2>5, <2>6, <2>7, <2>8, <2>9
<1>3. QED
  BY <1>1, <1>2

LEMMA BufferInit == Init => BufferInvariant
<1> SUFFICES ASSUME Init PROVE BufferInvariant
  OBVIOUS
<1>1. /\ run_tree = [r \in ReplicaIds |-> <<InitialRun>>]
      /\ buffer = [r \in ReplicaIds |-> RunChars(InitialRun)]
      /\ Live \subseteq ReplicaIds
  BY InitialAssumption DEF Init, Live
<1>2. InitialRun \in Runs
  BY InitialAssumption
     DEF InitialRun, EditRunRecord, RunType, Runs, IsInitialAndEmpty
<1>3. VisibleChars(<<InitialRun>>) = RunChars(InitialRun)
  <2>1. VisibleChars(<<InitialRun>>) = RunText(InitialRun)
    BY <1>2, TextOfOne
  <2>2. ~InitialRun.del
    BY DEF InitialRun, EditRunRecord
  <2>3. QED
    BY <2>1, <2>2 DEF RunText
<1>4. QED
  BY <1>1, <1>3 DEF BufferInvariant, BufferMatchesDocument

(* A user who applies what inserted, deleted, integrate_insertion,         *)
(* integrate_deletion (replica.rs) and the iterators over the backlog      *)
(* return, and nothing else, has the text of the document: each offset is  *)
(* right in the text from before the call, the ranges of a deletion all    *)
(* together, wherever the leaves were split and whatever was deleted       *)
(* there before.                                                           *)
THEOREM BuffersMatchDocuments == Spec => []BufferMatchesDocument
<1>1. Init => BufferInvariant
  BY BufferInit
<1>2. DocumentInvariant /\ DeletionInvariant /\ BufferInvariant /\ [Next]_vars
         => BufferInvariant'
  BY NextKeepsBuffers
<1>3. BufferInvariant => BufferMatchesDocument
  BY DEF BufferInvariant
<1>4. QED
  BY <1>1, <1>2, <1>3, DocumentsAreCorrect, DeletionsHaveOneEffect, PTL DEF Spec

------------------------------------------------------------------------------
(* What the deletions made so far removed, where they were made.           *)
RemovalsAreCounted ==
    /\ removed \in [ReplicaIds -> Seq(SUBSET Characters)]
    /\ \A a \in replicas : Len(removed[a]) = deletion_map[a][a]
    /\ \A a \in ReplicaIds \ replicas : Len(removed[a]) = 0

LeavesStayApart == \A r \in replicas : AreApart(run_tree[r])

LEMMA DocumentsAreApart == DocumentsOK => LeavesStayApart
BY LeavesAreDisjoint DEF DocumentsOK, TextInvariant, AreApart, LeavesStayApart

LEMMA NextApart ==
    ASSUME NEW r, NEW runs, runs = run_tree'[r], AreApart(run_tree[r])'
    PROVE  AreApart(runs)
BY DEF AreApart, RunCharSet

(* The deletion d removes some characters from the text of its user.       *)
RemovesText(r, d, gone) ==
    /\ r \in replicas /\ d \in deletions'
    /\ Deletes(r, d) /\ DeletesText(r, d) /\ RangeIsHeld(r, d)
    /\ removed' = [removed EXCEPT ![r] = Append(removed[r], gone)]
    /\ gone \subseteq Characters
    /\ \A x : x \in gone <=> /\ x \in Tombstones(run_tree'[r])
                             /\ x \notin Tombstones(run_tree[r])

LEMMA DeletedRemoves ==
    ASSUME DocumentInvariant, DocumentInvariant', BufferInvariant,
           NEW r \in ReplicaIds, NEW from \in 0 .. DocumentLen(run_tree[r]),
           NEW to \in 0 .. DocumentLen(run_tree[r]), from < to,
           Deleted(r, from, to)
    PROVE  \E d, gone : RemovesText(r, d, gone)
<1>1. DocumentsOK /\ TypeOK
  BY DocumentsAreOK DEF DocumentInvariant
<1>2. DocumentsOK'
  BY DocumentsAreOK, PTL
<1>3. PICK runs, now, gone :
         /\ runs = run_tree[r] /\ now = Delete(runs, from, to).runs
         /\ gone = CutOut(buffer[r], from, to)
  OBVIOUS
<1>4. /\ r \in replicas /\ r \in Live /\ replicas' = replicas
      /\ run_tree' = [run_tree EXCEPT ![r] = now]
      /\ removed' = [removed EXCEPT ![r] = Append(removed[r], gone)]
  BY <1>3 DEF Deleted, Idle, Active, Live, CutOut
<1>5. /\ DOMAIN run_tree = ReplicaIds /\ WellFormed(TypingOrder, runs)
      /\ runs \in Seq(Runs)
  BY <1>1, <1>3, <1>4 DEF DocumentsOK, DocumentsAreSentText, WellFormed
<1>6. run_tree'[r] = now
  BY <1>4, <1>5
<1>7. from \in Nat /\ to \in Nat /\ to <= DocumentLen(runs)
  BY <1>3
<1>8. now \in Seq(Runs) /\ DocumentMarks(now) = DocumentMarks(runs)
  <2>1. /\ WellFormed(TypingOrder, now)
        /\ DocumentMarks(now) = DocumentMarks(runs)
    BY <1>3, <1>5, <1>7, TypingKeepsRuns, DeleteKeepsDocument
  <2>2. QED
    BY <2>1 DEF WellFormed
<1>9. CharSet(now) = CharSet(runs)
  <2>1. \A x : x \in CharSet(now) <=> x \in CharSet(runs)
    BY <1>8, CharsOfMarks
  <2>2. QED
    BY <2>1
<1>10. AreApart(runs) /\ AreApart(now)
  <2>1. LeavesStayApart'
    BY <1>2, DocumentsAreApart, PTL
  <2>2. AreApart(run_tree[r])'
    BY <1>4, <2>1 DEF LeavesStayApart, AreApart
  <2>3. AreApart(runs)
    BY <1>1, <1>3, <1>4, DocumentsAreApart DEF LeavesStayApart
  <2>4. AreApart(now)
    BY <1>6, <2>2, NextApart
  <2>5. QED
    BY <2>3, <2>4
<1>11. buffer[r] = VisibleChars(runs)
  BY <1>3, <1>4 DEF BufferInvariant, BufferMatchesDocument
<1>12. VisibleChars(now) =
         RemoveRange(VisibleChars(runs), [start |-> from, end |-> to])
  BY <1>3, <1>5, <1>7, DeletedText
<1>13. \A x : x \in gone <=> x \in Tombstones(now) /\ x \notin Tombstones(runs)
  <2>1. gone = CutOut(VisibleChars(runs), from, to)
    BY <1>3, <1>11
  <2>2. \A x : x \in gone <=> /\ x \in CharSet(runs) /\ x \in Tombstones(now)
                              /\ x \notin Tombstones(runs)
    BY <2>1, <1>5, <1>7, <1>8, <1>9, <1>10, <1>12, CutTextIsDeleted
  <2>3. Tombstones(now) \subseteq CharSet(runs)
    BY <1>9 DEF Tombstones, CharSet
  <2>4. QED
    BY <2>2, <2>3
<1>14. gone \subseteq Characters
  <2>1. PICK text : text = VisibleChars(runs)
    OBVIOUS
  <2>2. text \in Seq(Characters) /\ to <= Len(text) /\ Len(text) \in Nat
    BY <2>1, <1>5, <1>7, TextLength, LenProperties
  <2>3. SUFFICES ASSUME NEW x \in gone PROVE x \in Characters
    OBVIOUS
  <2>4. x \in CutOut(text, from, to)
    BY <1>3, <1>11, <2>1, <2>3
  <2>5. PICK p \in from + 1 .. to : text[p] = x
    BY <1>7, <2>2, <2>4, CharsOfRange
  <2>6. p \in 1 .. Len(text)
    BY <1>7, <2>2
  <2>7. QED
    BY <2>2, <2>5, <2>6, ElementOfSeq
<1>15. PICK d \in deletions' :
          Deletes(r, d) /\ DeletesText(r, d) /\ RangeIsHeld(r, d)
  BY <1>1, DeletedDeletesText DEF DocumentsOK
<1>16. RemovesText(r, d, gone)
  BY <1>3, <1>4, <1>6, <1>13, <1>14, <1>15 DEF RemovesText
<1>17. QED
  BY <1>16

LEMMA RemovedUnlessDeleted ==
    ASSUME [Next]_vars
    PROVE  \/ UNCHANGED <<removed, deletions>>
           \/ \E r \in ReplicaIds : DeletedAnywhere(r)
<1>1. CASE UNCHANGED vars
  BY <1>1 DEF vars, sent_vars
<1>2. CASE Next
  <2>1. PICK r \in ReplicaIds :
          \/ \E new \in ReplicaIds : Fork(r, new)
          \/ InsertedAnywhere(r)
          \/ DeletedAnywhere(r)
          \/ \E m \in insertions : IntegrateInsertion(r, m)
          \/ \E d \in deletions : IntegrateDeletion(r, d)
          \/ BackloggedInsertions(r)
          \/ BackloggedDeletions(r)
          \/ NextBackloggedInsertion(r)
          \/ NextBackloggedDeletion(r)
          \/ NextQueue(r)
          \/ DropIterator(r)
    BY <1>2 DEF Next
  <2>2. CASE \E new \in ReplicaIds : Fork(r, new)
    BY <2>2 DEF Fork, sent_vars
  <2>3. CASE InsertedAnywhere(r)
    BY <2>3 DEF InsertedAnywhere, Inserted
  <2>4. CASE \E m \in insertions : IntegrateInsertion(r, m)
    BY <2>4 DEF IntegrateInsertion, sent_vars
  <2>5. CASE \E d \in deletions : IntegrateDeletion(r, d)
    BY <2>5 DEF IntegrateDeletion, sent_vars
  <2>6. CASE BackloggedInsertions(r) \/ BackloggedDeletions(r)
    BY <2>6 DEF BackloggedInsertions, BackloggedDeletions, StartIterator,
                sent_vars
  <2>7. CASE NextBackloggedInsertion(r) \/ NextBackloggedDeletion(r)
    BY <2>7 DEF NextBackloggedInsertion, NextBackloggedDeletion, sent_vars
  <2>8. CASE NextQueue(r) \/ DropIterator(r)
    BY <2>8 DEF NextQueue, DropIterator, sent_vars
  <2>9. QED
    BY <2>1, <2>2, <2>3, <2>4, <2>5, <2>6, <2>7, <2>8
<1>3. QED
  BY <1>1, <1>2

------------------------------------------------------------------------------
(* Each deletion is counted once, where it is made.                        *)
CountsStay ==
    /\ replicas \subseteq replicas' /\ replicas' \subseteq ReplicaIds
    /\ \A a \in replicas : deletion_map'[a][a] = deletion_map[a][a]
    /\ \A a \in replicas' \ replicas : deletion_map'[a][a] = 0

LEMMA CountsAreTheirs ==
    ASSUME DocumentsOK, DeletionSteps, UNCHANGED deletions
    PROVE  CountsStay
<1>1. /\ replicas \subseteq ReplicaIds
      /\ deletion_map \in [ReplicaIds -> [ReplicaIds -> Nat]]
  BY DEF DocumentsOK, ClockTypes
<1>2. \A d \in deletions : d.by \in replicas /\ d.ts \in Nat
                           /\ d.ts <= deletion_map[d.by][d.by]
  BY DEF DocumentsOK, ClockTypes, ClockInvariant, DeletionsAreCounted
<1>3. ASSUME UNCHANGED <<replicas, deletion_map>> PROVE CountsStay
  BY <1>1, <1>3 DEF CountsStay
<1>4. CASE \E r, new \in ReplicaIds : Fork(r, new)
  <2>1. PICK r \in ReplicaIds, new \in ReplicaIds : Fork(r, new)
    BY <1>4
  <2>2. /\ new \in ReplicaIds \ replicas
        /\ replicas' = replicas \cup {new}
        /\ \A a \in replicas : deletion_map'[a] = deletion_map[a]
        /\ deletion_map'[new][new] = 0
    BY <2>1, Forked DEF DocumentsOK
  <2>3. QED
    BY <1>1, <2>2 DEF CountsStay
<1>5. CASE \E r \in ReplicaIds : \E m : InsertsText(r, m) /\ LeavesDead
  BY <1>3, <1>5 DEF InsertsText
<1>6. CASE \E r \in ReplicaIds : \E d \in deletions' :
             Deletes(r, d) /\ DeletesText(r, d) /\ RangeIsHeld(r, d)
  <2>1. PICK r \in ReplicaIds, d \in deletions : Deletes(r, d)
    BY <1>6
  <2>2. d.by = r /\ d.ts = deletion_map[r][r] + 1
    BY <2>1 DEF Deletes
  <2>3. deletion_map[r][r] \in Nat /\ d.ts <= deletion_map[r][r]
    BY <1>1, <1>2, <2>2
  <2>4. QED
    BY <2>2, <2>3
<1>7. CASE \E r \in ReplicaIds : \E m \in insertions :
             MergesInsertion(r, m) /\ LeavesDead
  BY <1>3, <1>7 DEF MergesInsertion
<1>8. CASE \E r \in ReplicaIds : \E d \in deletions :
             MergesDeletion(r, d) /\ DeletesText(r, d)
  <2>1. PICK r \in ReplicaIds, d \in deletions : MergesDeletion(r, d)
    BY <1>8
  <2>2. /\ replicas' = replicas /\ deletion_map[r][d.by] + 1 = d.ts
        /\ deletion_map' = [deletion_map EXCEPT ![r][d.by] = d.ts]
    BY <2>1 DEF MergesDeletion, CanMergeDeletion
  <2>3. /\ d.by \in ReplicaIds /\ deletion_map[r][d.by] \in Nat
        /\ d.ts <= deletion_map[d.by][d.by]
    BY <1>1, <1>2
  <2>4. d.by # r
    BY <2>2, <2>3
  <2>5. \A a \in ReplicaIds : deletion_map'[a][a] = deletion_map[a][a]
    BY <1>1, <2>2, <2>3, <2>4
  <2>6. QED
    BY <1>1, <2>2, <2>5 DEF CountsStay
<1>9. CASE LeavesClocks /\ UNCHANGED run_tree
  BY <1>3, <1>9 DEF LeavesClocks, clock_vars
<1>10. QED
  BY <1>4, <1>5, <1>6, <1>7, <1>8, <1>9 DEF DeletionSteps

LEMMA CountsLeft ==
    ASSUME DocumentsOK, DeletionSteps, RemovalsAreCounted,
           UNCHANGED <<removed, deletions>>
    PROVE  RemovalsAreCounted'
<1>1. CountsStay
  BY CountsAreTheirs
<1>2. QED
  BY <1>1 DEF CountsStay, RemovalsAreCounted

LEMMA CountsAdded ==
    ASSUME DocumentsOK, RemovalsAreCounted,
           NEW r, NEW d, NEW gone, RemovesText(r, d, gone)
    PROVE  /\ RemovalsAreCounted'
           /\ r \in ReplicaIds /\ d.ts = Len(removed[r]) + 1
           /\ Len(removed'[r]) = d.ts /\ removed'[r][d.ts] = gone
           /\ \A k \in 1 .. Len(removed[r]) : removed'[r][k] = removed[r][k]
           /\ \A a \in ReplicaIds \ {r} : removed'[a] = removed[a]
<1>1. /\ replicas \subseteq ReplicaIds
      /\ deletion_map \in [ReplicaIds -> [ReplicaIds -> Nat]]
  BY DEF DocumentsOK, ClockTypes
<1>2. /\ r \in replicas /\ d.ts = deletion_map[r][r] + 1
      /\ deletion_map' = [deletion_map EXCEPT ![r][r] = d.ts]
      /\ replicas' = replicas
  BY DEF RemovesText, Deletes
<1>3. /\ removed' = [removed EXCEPT ![r] = Append(removed[r], gone)]
      /\ gone \in SUBSET Characters
  BY DEF RemovesText
<1>4. /\ removed \in [ReplicaIds -> Seq(SUBSET Characters)]
      /\ \A a \in replicas : Len(removed[a]) = deletion_map[a][a]
      /\ \A a \in ReplicaIds \ replicas : Len(removed[a]) = 0
  BY DEF RemovalsAreCounted
<1>5. r \in ReplicaIds /\ removed[r] \in Seq(SUBSET Characters)
  BY <1>1, <1>2, <1>4
<1>6. PICK more : more = Append(removed[r], gone)
  OBVIOUS
<1>7. /\ more \in Seq(SUBSET Characters)
      /\ Len(more) = Len(removed[r]) + 1
      /\ more[Len(removed[r]) + 1] = gone
      /\ \A k \in 1 .. Len(removed[r]) : more[k] = removed[r][k]
  BY <1>3, <1>5, <1>6, AppendProperties
<1>8. /\ removed' \in [ReplicaIds -> Seq(SUBSET Characters)]
      /\ removed'[r] = more
      /\ \A a \in ReplicaIds \ {r} : removed'[a] = removed[a]
  BY <1>3, <1>4, <1>5, <1>6, <1>7
<1>9. /\ d.ts = Len(removed[r]) + 1
      /\ deletion_map'[r][r] = d.ts
      /\ \A a \in ReplicaIds \ {r} : deletion_map'[a][a] = deletion_map[a][a]
  BY <1>1, <1>2, <1>4, <1>5
<1>10. \A a \in replicas : Len(removed'[a]) = deletion_map'[a][a]
  BY <1>1, <1>4, <1>7, <1>8, <1>9
<1>11. \A a \in ReplicaIds \ replicas : Len(removed'[a]) = 0
  BY <1>2, <1>4, <1>8
<1>12. RemovalsAreCounted'
  BY <1>2, <1>8, <1>10, <1>11 DEF RemovalsAreCounted
<1>13. QED
  BY <1>5, <1>7, <1>8, <1>9, <1>12

------------------------------------------------------------------------------
(* What a deletion removed where it was made is what it deletes; what it   *)
(* deletes besides, another one has removed.                               *)
NamedBy(order, d) == {CharOf(c) : c \in DeletedBy(order, d)}

IsRemoved(x) ==
    \E a \in ReplicaIds : \E k \in 1 .. Len(removed[a]) : x \in removed[a][k]

IsNamed(order, a, k) ==
    \E d \in deletions :
        d.by = a /\ d.ts = k /\ removed[a][k] \subseteq NamedBy(order, d)

RemovalsAreNamed(order) ==
    /\ \A a \in ReplicaIds : \A k \in 1 .. Len(removed[a]) : IsNamed(order, a, k)
    /\ \A d \in deletions : \A x \in NamedBy(order, d) : IsRemoved(x)

RemovalInvariant ==
    /\ RemovalsAreCounted
    /\ \E order : /\ KeepsRuns(order) /\ IsOrderOfEdits(order)
                  /\ RemovalsAreNamed(order)

LEMMA NamesStayAlike ==
    ASSUME NEW order, NEW next, NEW d,
           DeletedBy(next, d)' = DeletedBy(order, d)
    PROVE  NamedBy(next, d)' = NamedBy(order, d)
BY DEF NamedBy, CharOf

LEMMA NamesLeft ==
    ASSUME NEW order, NEW next, DeletesAlike(order, next),
           RemovalsAreNamed(order), UNCHANGED <<removed, deletions>>
    PROVE  RemovalsAreNamed(next)'
<1>1. \A d \in deletions : NamedBy(next, d)' = NamedBy(order, d)
  BY NamesStayAlike DEF DeletesAlike
<1>2. ASSUME NEW a \in ReplicaIds, NEW k \in 1 .. Len(removed[a])
      PROVE  IsNamed(next, a, k)'
  <2>1. IsNamed(order, a, k)
    BY DEF RemovalsAreNamed
  <2>2. QED
    BY <1>1, <2>1 DEF IsNamed
<1>3. ASSUME NEW d \in deletions, NEW x \in NamedBy(next, d)'
      PROVE  IsRemoved(x)'
  <2>1. IsRemoved(x)
    BY <1>1, <1>3 DEF RemovalsAreNamed
  <2>2. QED
    BY <2>1 DEF IsRemoved
<1>4. QED
  BY <1>2, <1>3 DEF RemovalsAreNamed

(* What is deleted in a document, somebody has removed.                    *)
LEMMA TombstonesAreRemoved ==
    ASSUME NEW order, DeletionsHaveTheirEffect(order), RemovalsAreNamed(order),
           NEW r \in replicas, NEW x \in Tombstones(run_tree[r])
    PROVE  IsRemoved(x)
<1>1. PICK c \in DeadMarks(run_tree[r]) : x = CharOf(c)
  BY CharsOfMarks
<1>2. PICK d \in MergedDeletions(r) : c \in DeletedBy(order, d)
  BY <1>1 DEF DeletionsHaveTheirEffect
<1>3. d \in deletions /\ x \in NamedBy(order, d)
  BY <1>1, <1>2 DEF MergedDeletions, NamedBy
<1>4. QED
  BY <1>3 DEF RemovalsAreNamed

(* A deletion names what it removes, and removes what it names unless that *)
(* was removed before.                                                     *)
LEMMA NamesAdded ==
    ASSUME DocumentsOK, NEW order, NEW next, DeletesAlike(order, next),
           DeletionsHaveTheirEffect(order), RemovalsAreNamed(order),
           RemovalsAreCounted,
           NEW r, NEW d, NEW gone, RemovesText(r, d, gone),
           DeadMarks(run_tree'[r])
             = DeadMarks(run_tree[r]) \cup DeletedBy(order, d),
           DeletedBy(next, d)' = DeletedBy(order, d)
    PROVE  RemovalsAreNamed(next)'
<1>1. /\ r \in ReplicaIds /\ d.ts = Len(removed[r]) + 1
      /\ Len(removed'[r]) = d.ts /\ removed'[r][d.ts] = gone
      /\ \A k \in 1 .. Len(removed[r]) : removed'[r][k] = removed[r][k]
      /\ \A a \in ReplicaIds \ {r} : removed'[a] = removed[a]
  BY CountsAdded
<1>2. /\ r \in replicas /\ d.by = r /\ deletions' = deletions \cup {d}
  BY DEF RemovesText, Deletes
<1>3. removed[r] \in Seq(SUBSET Characters)
  BY <1>1 DEF RemovalsAreCounted
<1>4. Len(removed[r]) \in Nat
  BY <1>3, LenProperties
<1>5. \A x : x \in gone <=> /\ x \in Tombstones(run_tree'[r])
                            /\ x \notin Tombstones(run_tree[r])
  BY DEF RemovesText
<1>6. \A x : x \in Tombstones(run_tree'[r])
               <=> x \in Tombstones(run_tree[r]) \/ x \in NamedBy(order, d)
  <2>1. PICK old, now : old = run_tree[r] /\ now = run_tree'[r]
    OBVIOUS
  <2>2. DeadMarks(now) = DeadMarks(old) \cup DeletedBy(order, d)
    BY <2>1
  <2>3. \A x : /\ x \in Tombstones(old) <=> \E c \in DeadMarks(old) : x = CharOf(c)
               /\ x \in Tombstones(now) <=> \E c \in DeadMarks(now) : x = CharOf(c)
    BY CharsOfMarks
  <2>4. \A x : x \in NamedBy(order, d) <=> \E c \in DeletedBy(order, d) : x = CharOf(c)
    BY DEF NamedBy
  <2>5. QED
    BY <2>1, <2>2, <2>3, <2>4
<1>7. NamedBy(next, d)' = NamedBy(order, d)
  BY NamesStayAlike
<1>8. \A e \in deletions : NamedBy(next, e)' = NamedBy(order, e)
  BY NamesStayAlike DEF DeletesAlike
<1>9. ASSUME NEW x, IsRemoved(x) PROVE IsRemoved(x)'
  <2>0. PICK a \in ReplicaIds : \E k \in 1 .. Len(removed[a]) : x \in removed[a][k]
    BY <1>9 DEF IsRemoved
  <2>1. PICK k \in 1 .. Len(removed[a]) : x \in removed[a][k]
    BY <2>0
  <2>2. k \in 1 .. Len(removed'[a]) /\ removed'[a][k] = removed[a][k]
    BY <2>1, <1>1, <1>4
  <2>3. QED
    BY <2>1, <2>2 DEF IsRemoved
<1>10. \A x \in gone : IsRemoved(x)'
  <2>1. d.ts \in 1 .. Len(removed'[r])
    BY <1>1, <1>4
  <2>2. QED
    BY <1>1, <2>1 DEF IsRemoved
<1>11. ASSUME NEW a \in ReplicaIds, NEW k \in 1 .. Len(removed'[a])
       PROVE  IsNamed(next, a, k)'
  <2>1. CASE a = r /\ k = d.ts
    <3>1. gone \subseteq NamedBy(order, d)
      BY <1>5, <1>6
    <3>2. removed'[a][k] \subseteq NamedBy(next, d)'
      BY <2>1, <3>1, <1>1, <1>7
    <3>3. d \in deletions' /\ d.by = a /\ d.ts = k
      BY <2>1, <1>2
    <3>4. QED
      BY <3>2, <3>3 DEF IsNamed
  <2>2. CASE ~(a = r /\ k = d.ts)
    <3>1. k \in 1 .. Len(removed[a]) /\ removed'[a][k] = removed[a][k]
      BY <2>2, <1>1, <1>4, <1>11
    <3>2. IsNamed(order, a, k)
      BY <3>1 DEF RemovalsAreNamed
    <3>3. PICK e \in deletions :
             e.by = a /\ e.ts = k /\ removed[a][k] \subseteq NamedBy(order, e)
      BY <3>2 DEF IsNamed
    <3>4. e \in deletions' /\ removed'[a][k] \subseteq NamedBy(next, e)'
      BY <3>1, <3>3, <1>2, <1>8
    <3>5. QED
      BY <3>3, <3>4 DEF IsNamed
  <2>3. QED
    BY <2>1, <2>2
<1>12. ASSUME NEW e \in deletions', NEW x \in NamedBy(next, e)'
       PROVE  IsRemoved(x)'
  <2>1. CASE e \in deletions
    <3>1. x \in NamedBy(order, e)
      BY <2>1, <1>8, <1>12
    <3>2. IsRemoved(x)
      BY <2>1, <3>1 DEF RemovalsAreNamed
    <3>3. QED
      BY <3>2, <1>9
  <2>2. CASE e \notin deletions
    <3>1. e = d
      BY <2>2, <1>2
    <3>2. x \in NamedBy(order, d)
      BY <3>1, <1>7, <1>12
    <3>3. CASE x \in Tombstones(run_tree[r])
      <4>1. IsRemoved(x)
        BY <3>3, <1>2, TombstonesAreRemoved
      <4>2. QED
        BY <4>1, <1>9
    <3>4. CASE x \notin Tombstones(run_tree[r])
      BY <3>2, <3>4, <1>5, <1>6, <1>10
    <3>5. QED
      BY <3>3, <3>4
  <2>3. QED
    BY <2>1, <2>2
<1>13. QED
  BY <1>11, <1>12 DEF RemovalsAreNamed

(* The step of a deletion, in the order of everything that was sent.       *)
LEMMA RemovesWhatItNames ==
    ASSUME DocumentsOK, DocumentsOK',
           NEW order, KeepsRuns(order), IsOrderOfEdits(order),
           NEW next, IsGrownOrder(order, next),
           NEW r, NEW d, NEW gone, RemovesText(r, d, gone)
    PROVE  /\ DeadMarks(run_tree'[r])
                = DeadMarks(run_tree[r]) \cup DeletedBy(order, d)
           /\ DeletedBy(next, d)' = DeletedBy(order, d)
<1>1. /\ IsOrderOfText(order) /\ IsStrictOrder(order, SentMarks)
  BY DEF IsOrderOfEdits, IsOrderOfText
<1>2. /\ r \in replicas /\ d \in deletions'
      /\ DeletesText(r, d) /\ RangeIsHeld(r, d)
      /\ \A a \in ReplicaIds : d.version_map[a] <= version_map[r][a]
      /\ UNCHANGED insertions
  BY DEF RemovesText, Deletes
<1>3. d.version_map \in [ReplicaIds -> Nat]
  BY <1>2 DEF DocumentsOK, ClockTypes
<1>4. PICK s \in SentMarks, e \in SentMarks : IsRangeOf(order, d, s, e)
  <2>1. WellFormed(order, run_tree[r])
    BY <1>1, <1>2, HeldInOrder DEF IsOrderOfText
  <2>2. \E s, e \in DocumentMarks(run_tree[r]) : IsRangeOf(order, d, s, e)
    BY <1>2, <2>1 DEF RangeIsHeld, IsRangeOf
  <2>3. DocumentMarks(run_tree[r]) \subseteq SentMarks
    BY <1>2, HeldMarks
  <2>4. QED
    BY <2>2, <2>3
<1>5. DeadMarks(run_tree'[r]) = DeadMarks(run_tree[r]) \cup DeletedBy(order, d)
  BY <1>1, <1>2, <1>3, <1>4, EffectHere
<1>6. DeletedBy(next, d)' = DeletedBy(order, d)
  <2>1. SentMarks' = SentMarks
    BY <1>2, SameTexts
  <2>2. RangesAreKnown'
    BY RangesOfDeletions, PTL
  <2>3. \A f \in SentMarks' : /\ StartsAt(d, f) => IsKnownTo(d, f)
                              /\ EndsAt(d, f) => IsKnownTo(d, f)
    BY <1>2, <2>2 DEF RangesAreKnown, StartsAt, EndsAt, IsKnownTo
  <2>4. QED
    BY <2>1, <2>3, SameDeleted
<1>7. QED
  BY <1>5, <1>6

(* The order of what was sent is extended by a step, and still names what  *)
(* was removed.                                                            *)
RemovalsGrowTo(order, next) ==
    /\ KeepsRuns(next) /\ IsOrderOfEdits(next)'
    /\ IsGrownOrder(order, next) /\ RemovalsAreNamed(next)'
    /\ deletions \subseteq deletions' => DeletesAlike(order, next)

LEMMA RemovalsGrow ==
    ASSUME DocumentInvariant, DocumentInvariant', AnchorsAreCounted,
           BufferInvariant, RemovalsAreCounted, [Next]_vars,
           NEW order, KeepsRuns(order), IsOrderOfEdits(order),
           RemovalsAreNamed(order)
    PROVE  /\ AnchorsAreCounted' /\ RemovalsAreCounted'
           /\ \E next : RemovalsGrowTo(order, next)
<1>1. DocumentsOK /\ DeletionSteps
  BY DocumentsAreOK, StepsDelete
<1>2. DocumentsOK'
  BY DocumentsAreOK, PTL
<1>3. GrowsOrderOfEdits(order) /\ AnchorsAreCounted'
  BY EditsGrowFrom
<1>4. PICK next : /\ KeepsRuns(next) /\ IsOrderOfEdits(next)'
                  /\ IsGrownOrder(order, next)
  BY <1>3 DEF GrowsOrderOfEdits
<1>5. DeletionsHaveTheirEffect(order)
  BY DEF IsOrderOfEdits
<1>6. ASSUME deletions \subseteq deletions' PROVE DeletesAlike(order, next)
  BY <1>1, <1>2, <1>4, <1>6, DeletionsStayAlike
<1>7. RemovalsAreCounted' /\ RemovalsAreNamed(next)'
  <2>1. CASE UNCHANGED <<removed, deletions>>
    <3>1. RemovalsAreCounted'
      BY <2>1, <1>1, CountsLeft
    <3>2. DeletesAlike(order, next)
      BY <2>1, <1>6
    <3>3. QED
      BY <2>1, <3>1, <3>2, NamesLeft
  <2>2. CASE \E r \in ReplicaIds : DeletedAnywhere(r)
    <3>1. PICK r \in ReplicaIds : DeletedAnywhere(r)
      BY <2>2
    <3>2. PICK from \in 0 .. DocumentLen(run_tree[r]),
               to \in 0 .. DocumentLen(run_tree[r]) :
             from < to /\ Deleted(r, from, to)
      BY <3>1 DEF DeletedAnywhere
    <3>3. PICK d, gone : RemovesText(r, d, gone)
      BY <3>2, DeletedRemoves
    <3>4. deletions \subseteq deletions'
      BY <3>3 DEF RemovesText, Deletes
    <3>5. DeletesAlike(order, next)
      BY <3>4, <1>6
    <3>6. /\ DeadMarks(run_tree'[r])
                = DeadMarks(run_tree[r]) \cup DeletedBy(order, d)
          /\ DeletedBy(next, d)' = DeletedBy(order, d)
      BY <3>3, <1>1, <1>2, <1>4, RemovesWhatItNames
    <3>7. RemovalsAreCounted'
      BY <3>3, <1>1, CountsAdded
    <3>8. RemovalsAreNamed(next)'
      BY <3>3, <3>5, <3>6, <1>1, <1>5, NamesAdded
    <3>9. QED
      BY <3>7, <3>8
  <2>3. QED
    BY <2>1, <2>2, RemovedUnlessDeleted
<1>8. RemovalsGrowTo(order, next)
  BY <1>4, <1>6, <1>7 DEF RemovalsGrowTo
<1>9. QED
  BY <1>3, <1>7, <1>8

LEMMA RemovalNext ==
    ASSUME DocumentInvariant, DocumentInvariant', DeletionInvariant,
           BufferInvariant, RemovalInvariant, [Next]_vars
    PROVE  RemovalInvariant'
<1>1. AnchorsAreCounted /\ RemovalsAreCounted
  BY DEF DeletionInvariant, RemovalInvariant
<1>2. PICK order : /\ KeepsRuns(order) /\ IsOrderOfEdits(order)
                   /\ RemovalsAreNamed(order)
  BY DEF RemovalInvariant
<1>3. /\ RemovalsAreCounted'
      /\ \E next : RemovalsGrowTo(order, next)
  BY <1>1, <1>2, RemovalsGrow
<1>4. PICK next : RemovalsGrowTo(order, next)
  BY <1>3
<1>5. KeepsRuns(next)'
  BY <1>4 DEF RemovalsGrowTo, KeepsRuns, Mark
<1>6. QED
  BY <1>3, <1>4, <1>5 DEF RemovalsGrowTo, RemovalInvariant

LEMMA RemovalInit == Init => RemovalInvariant
<1> SUFFICES ASSUME Init PROVE RemovalInvariant
  OBVIOUS
<1>1. /\ removed = [r \in ReplicaIds |-> <<>>] /\ deletions = {}
      /\ deletion_map = [r \in ReplicaIds |-> [a \in ReplicaIds |-> 0]]
      /\ replicas \subseteq ReplicaIds
  BY InitialAssumption DEF Init
<1>2. <<>> \in Seq(SUBSET Characters) /\ Len(<<>>) = 0
  BY EmptySeq
<1>3. RemovalsAreCounted
  BY <1>1, <1>2 DEF RemovalsAreCounted
<1>4. PICK order : KeepsRuns(order) /\ IsOrderOfEdits(order)
  BY DeletionInit DEF DeletionInvariant
<1>5. RemovalsAreNamed(order)
  BY <1>1, <1>2 DEF RemovalsAreNamed
<1>6. QED
  BY <1>3, <1>4, <1>5 DEF RemovalInvariant

LEMMA RemovalsAreWhatTheyName == Spec => []RemovalInvariant
<1>1. Init => RemovalInvariant /\ BufferInvariant
  BY RemovalInit, BufferInit
<1>2. DocumentInvariant /\ DeletionInvariant /\ BufferInvariant /\ [Next]_vars
         => BufferInvariant'
  BY NextKeepsBuffers
<1>3. (/\ DocumentInvariant /\ DocumentInvariant' /\ DeletionInvariant
       /\ BufferInvariant /\ RemovalInvariant /\ [Next]_vars)
         => RemovalInvariant'
  BY RemovalNext
<1>4. QED
  BY <1>1, <1>2, <1>3, DocumentsAreCorrect, DeletionsHaveOneEffect, PTL DEF Spec

LEMMA DeletionsHaveTaken ==
    ASSUME DocumentInvariant, RemovalInvariant
    PROVE  DeletionsTakeEffect
<1>1. DocumentsOK
  BY DocumentsAreOK
<1>2. PICK order : DeletionsHaveTheirEffect(order) /\ RemovalsAreNamed(order)
  BY DEF RemovalInvariant, IsOrderOfEdits
<1>3. SUFFICES ASSUME NEW r \in Live, NEW a \in ReplicaIds,
                      NEW ts \in 1 .. deletion_map[r][a],
                      NEW x \in removed[a][ts]
               PROVE  x \in Tombstones(run_tree[r])
  BY DEF DeletionsTakeEffect
<1>4. r \in replicas /\ r \in ReplicaIds
      /\ deletion_map \in [ReplicaIds -> [ReplicaIds -> Nat]]
  BY <1>1 DEF Live, DocumentsOK, ClockTypes
<1>5. deletion_map[r][a] \in Nat /\ deletion_map[a][a] \in Nat
  BY <1>4
<1>6. a \in replicas
  <2>1. a \notin replicas => deletion_map[r][a] = 0
    BY <1>1, <1>4 DEF DocumentsOK, ClockInvariant, NothingOfTheUnborn
  <2>2. QED
    BY <1>3, <2>1
<1>7. /\ deletion_map[r][a] <= deletion_map[a][a]
      /\ Len(removed[a]) = deletion_map[a][a]
  BY <1>1, <1>4, <1>6
     DEF DocumentsOK, ClockInvariant, NobodyKnowsMore, RemovalInvariant,
         RemovalsAreCounted
<1>8. ts \in 1 .. Len(removed[a])
  BY <1>3, <1>5, <1>7
<1>9. PICK d \in deletions :
         d.by = a /\ d.ts = ts /\ removed[a][ts] \subseteq NamedBy(order, d)
  BY <1>2, <1>8 DEF RemovalsAreNamed, IsNamed
<1>10. deletion_map[r][d.by] >= d.ts
  BY <1>3, <1>5, <1>9
<1>11. d \in MergedDeletions(r)
  BY <1>10 DEF MergedDeletions, HasMergedDeletion
<1>12. DeletedBy(order, d) \subseteq DeadMarks(run_tree[r])
  BY <1>2, <1>4, <1>11 DEF DeletionsHaveTheirEffect
<1>13. PICK c \in DeletedBy(order, d) : x = CharOf(c)
  BY <1>3, <1>9 DEF NamedBy
<1>14. QED
  BY <1>12, <1>13, CharsOfMarks

(* Wherever merge_deletion (run_tree.rs) has merged a deletion, all that   *)
(* its user removed is deleted, for whatever the two anchors and the       *)
(* version map of the deletion meet there: leaves split and joined         *)
(* otherwise, text inserted in between, text deleted before.               *)
THEOREM DeletionsAreComplete == Spec => []DeletionsTakeEffect
<1>1. DocumentInvariant /\ RemovalInvariant => DeletionsTakeEffect
  BY DeletionsHaveTaken
<1>2. QED
  BY <1>1, DocumentsAreCorrect, RemovalsAreWhatTheyName, PTL

LEMMA OnlyRemovedTextIsDead ==
    ASSUME RemovalInvariant
    PROVE  OnlyDeletedTextIsLost
<1>1. PICK order : DeletionsHaveTheirEffect(order) /\ RemovalsAreNamed(order)
  BY DEF RemovalInvariant, IsOrderOfEdits
<1>2. SUFFICES ASSUME NEW r \in Live, NEW x \in Tombstones(run_tree[r])
      PROVE  x \in UNION UNION {ToSet(removed[a]) : a \in ReplicaIds}
  BY DEF OnlyDeletedTextIsLost
<1>3. IsRemoved(x)
  BY <1>1, <1>2, TombstonesAreRemoved DEF Live
<1>4. PICK a \in ReplicaIds : \E k \in 1 .. Len(removed[a]) : x \in removed[a][k]
  BY <1>3 DEF IsRemoved
<1>5. PICK k \in 1 .. Len(removed[a]) : x \in removed[a][k]
  BY <1>4
<1>6. removed[a] \in Seq(SUBSET Characters)
  BY DEF RemovalInvariant, RemovalsAreCounted
<1>7. k \in DOMAIN removed[a]
  BY <1>6, LenProperties
<1>8. removed[a][k] \in ToSet(removed[a])
  BY <1>7 DEF ToSet
<1>9. QED
  BY <1>5, <1>8

(* Nothing a user has not deleted is deleted anywhere: text inserted into  *)
(* a range while it was being deleted elsewhere survives, since            *)
(* merge_deletion (run_tree.rs) asks how much of each run it knew.         *)
THEOREM DeletionsAreSound == Spec => []OnlyDeletedTextIsLost
<1>1. RemovalInvariant => OnlyDeletedTextIsLost
  BY OnlyRemovedTextIsDead
<1>2. QED
  BY <1>1, RemovalsAreWhatTheyName, PTL

------------------------------------------------------------------------------
LEMMA AnchorsStickToText ==
    ASSUME DocumentInvariant, BufferInvariant
    PROVE  AnchorsFollowTheirCharacter
<1>1. DocumentsOK /\ LeavesStayApart
  BY DocumentsAreOK, DocumentsAreApart
<1>2. ASSUME NEW r \in Live
      PROVE  /\ r \in replicas /\ run_tree[r] \in Seq(Runs)
             /\ OnlyLastIsEmpty(run_tree[r]) /\ AreApart(run_tree[r])
             /\ buffer[r] = VisibleChars(run_tree[r])
             /\ Len(buffer[r]) = DocumentLen(run_tree[r])
             /\ DOMAIN buffer[r] = 1 .. Len(buffer[r])
  <2>1. r \in replicas
    BY DEF Live
  <2>2. WellFormed(TypingOrder, run_tree[r])
    BY <1>1, <2>1 DEF DocumentsOK, DocumentsAreSentText
  <2>3. run_tree[r] \in Seq(Runs) /\ OnlyLastIsEmpty(run_tree[r])
    BY <2>2 DEF WellFormed
  <2>4. buffer[r] = VisibleChars(run_tree[r])
    BY <1>2 DEF BufferInvariant, BufferMatchesDocument
  <2>5. /\ Len(buffer[r]) = DocumentLen(run_tree[r])
        /\ DOMAIN buffer[r] = 1 .. Len(buffer[r])
    BY <2>3, <2>4, TextLength, LenProperties
  <2>6. AreApart(run_tree[r])
    BY <1>1, <2>1 DEF LeavesStayApart
  <2>7. QED
    BY <2>1, <2>3, <2>4, <2>5, <2>6
<1>3. SUFFICES ASSUME NEW r \in Live, NEW s \in Live, NEW bias \in Biases,
                      NEW offset \in Offsets(s)
               PROVE
        LET anchor == CreateAnchor(run_tree[s], offset, bias)
            next_to == CharNextTo(s, offset, bias)
            resolved == ResolveAnchor(run_tree[r], anchor)
        IN  IF next_to = <<>>
            THEN resolved = IF bias = "left" THEN 0 ELSE Len(buffer[r])
            ELSE next_to[1] \in CharsAt(r) =>
                    resolved = PlaceNextTo(r, next_to[1], bias)
  BY DEF AnchorsFollowTheirCharacter
<1>4. PICK here, there, anchor, p, next_to, resolved :
        /\ there = run_tree[s] /\ here = run_tree[r]
        /\ anchor = CreateAnchor(there, offset, bias)
        /\ p = IF bias = "left" THEN offset ELSE offset + 1
        /\ next_to = CharNextTo(s, offset, bias)
        /\ resolved = ResolveAnchor(here, anchor)
  OBVIOUS
<1>5. /\ here \in Seq(Runs) /\ AreApart(here)
      /\ there \in Seq(Runs) /\ OnlyLastIsEmpty(there)
      /\ buffer[r] = VisibleChars(here) /\ buffer[s] = VisibleChars(there)
      /\ Len(buffer[r]) = DocumentLen(here)
  BY <1>2, <1>4
<1>6. IsCreatedAt(there, p, bias, anchor)
  <2>1. offset \in 0 .. DocumentLen(there)
    BY <1>4 DEF Offsets
  <2>2. QED
    BY <1>4, <1>5, <2>1, CreatedAnchor
<1>7. next_to = IF p \in 1 .. Len(buffer[s]) THEN <<buffer[s][p]>> ELSE <<>>
  BY <1>2, <1>4 DEF CharNextTo
<1>8. CASE p \notin 1 .. Len(buffer[s])
  <2>1. anchor = IF bias = "left" THEN StartOfDocument ELSE EndOfDocument
    BY <1>5, <1>6, <1>8 DEF IsCreatedAt
  <2>2. StartOfDocument # EndOfDocument
    BY DEF StartOfDocument, EndOfDocument, BiasedAnchor
  <2>3. resolved = IF bias = "left" THEN 0 ELSE DocumentLen(here)
    BY <1>4, <2>1, <2>2 DEF ResolveAnchor
  <2>4. next_to = <<>>
    BY <1>7, <1>8
  <2>5. resolved = IF bias = "left" THEN 0 ELSE Len(buffer[r])
    BY <1>5, <2>3
  <2>6. QED
    BY <1>4, <2>4, <2>5
<1>9. CASE p \in 1 .. Len(buffer[s])
  <2>1. PICK x : x = buffer[s][p]
    OBVIOUS
  <2>2. next_to = <<x>> /\ next_to # <<>> /\ next_to[1] = x
    BY <1>7, <1>9, <2>1
  <2>3. PICK i, k : /\ IsCharAt(there, p, i, k)
                    /\ anchor = AnchorOf(x, there[i].ts, bias)
    BY <1>5, <1>6, <1>9, <2>1 DEF IsCreatedAt, IsStuckAt
  <2>4. PICK run : run = there[i]
    OBVIOUS
  <2>5. /\ i \in 1 .. Len(there) /\ x \in RunCharSet(run)
    BY <1>5, <2>1, <2>3, <2>4, CharIsOfRun DEF IsCharAt
  <2>6. PICK c \in RunMarks(run) : x = CharOf(c)
    BY <2>5, CharsOfRun
  <2>7. c \in DocumentMarks(there) /\ c.ts = run.ts
    <3>1. DOMAIN there = 1 .. Len(there)
      BY <1>5, LenProperties
    <3>2. QED
      BY <2>4, <2>5, <2>6, <3>1 DEF DocumentMarks, RunMarks
  <2>8. SUFFICES ASSUME x \in CharsAt(r)
                 PROVE  resolved = PlaceNextTo(r, x, bias)
    BY <1>4, <2>2
  <2>9. PICK e \in DocumentMarks(here) : x = CharOf(e)
    BY <1>4, <2>8, CharsOfMarks DEF CharsAt
  <2>10. c \in SentMarks /\ e \in SentMarks
    BY <1>1, <1>2, <1>4, <2>7, <2>9, HeldMarks
  <2>11. c = e
    <3>1. c.id = e.id /\ c.at = e.at
      BY <2>6, <2>9 DEF CharOf
    <3>2. QED
      BY <1>1, <2>10, <3>1, MarksAreUnique DEF DocumentsOK, TextInvariant
  <2>12. c.id # 0
    <3>1. c \in Mark
      BY <1>1, <2>10, SentMarksAreMarks DEF DocumentsOK
    <3>2. c.id \in ReplicaIds
      BY <3>1 DEF Mark
    <3>3. QED
      BY <3>2, ReplicaIdsAssumption
  <2>13. c \in DocumentMarks(here)
    BY <2>9, <2>11
  <2>14. PICK before : before = Cardinality(
            {y \in ToSet(VisibleChars(here)) : ComesBefore(here, y, CharOf(c))})
    OBVIOUS
  <2>15. ResolveAnchor(here, AnchorOf(CharOf(c), c.ts, bias)) =
           IF bias = "left" /\ CharOf(c) \in ToSet(VisibleChars(here))
           THEN before + 1 ELSE before
    BY <1>5, <2>12, <2>13, <2>14, AnchorKeepsPlace
  <2>16. resolved = ResolveAnchor(here, AnchorOf(CharOf(c), c.ts, bias))
    BY <1>4, <2>3, <2>4, <2>6, <2>7
  <2>17. before = VisibleBefore(r, x)
    BY <1>4, <1>5, <2>6, <2>14 DEF VisibleBefore
  <2>18. QED
    BY <1>5, <2>6, <2>15, <2>16, <2>17 DEF PlaceNextTo
<1>10. QED
  BY <1>8, <1>9

(* An anchor sticks to its character: made by create_anchor in any         *)
(* document, resolve_anchor (run_tree.rs) puts it next to that character   *)
(* in any other that has it, or where it was if it is deleted there, for   *)
(* whatever splits, joins, insertions and deletions lie between the two.   *)
THEOREM AnchorsKeepTheirPlace == Spec => []AnchorsFollowTheirCharacter
<1>1. DocumentInvariant /\ BufferInvariant => AnchorsFollowTheirCharacter
  BY AnchorsStickToText
<1>2. Init => BufferInvariant
  BY BufferInit
<1>3. DocumentInvariant /\ DeletionInvariant /\ BufferInvariant /\ [Next]_vars
         => BufferInvariant'
  BY NextKeepsBuffers
<1>4. QED
  BY <1>1, <1>2, <1>3, DocumentsAreCorrect, DeletionsHaveOneEffect, PTL DEF Spec
==============================================================================
