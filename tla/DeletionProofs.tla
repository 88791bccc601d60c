---------------------------- MODULE DeletionProofs ----------------------------
(***************************************************************************)
(* What deletions do to documents of any length: the characters that end   *)
(* up deleted are the same wherever the same deletions are merged.  From   *)
(* that and from the one order of characters, convergence.                 *)
(***************************************************************************)
EXTENDS OrderProofs, DeletionInvariant

------------------------------------------------------------------------------
(* The deleted characters of a sequence of leaves.                         *)
LEMMA DeadOfConcat ==
    ASSUME NEW S, NEW s \in Seq(S), NEW t \in Seq(S)
    PROVE  DeadMarks(s \o t) = DeadMarks(s) \cup DeadMarks(t)
<1>1. /\ Len(s) \in Nat /\ DOMAIN s = 1 .. Len(s)
      /\ Len(t) \in Nat /\ DOMAIN t = 1 .. Len(t)
  BY LenProperties
<1>2. /\ s \o t \in Seq(S) /\ Len(s \o t) = Len(s) + Len(t)
      /\ \A i \in 1 .. Len(s) + Len(t) :
            (s \o t)[i] = IF i <= Len(s) THEN s[i] ELSE t[i - Len(s)]
  BY ConcatProperties
<1>3. DOMAIN (s \o t) = 1 .. Len(s) + Len(t)
  BY <1>2, LenProperties
<1> DEFINE u == s \o t
<1> HIDE DEF u
<1>4. ASSUME NEW c \in DeadMarks(u)
      PROVE  c \in DeadMarks(s) \cup DeadMarks(t)
  <2>1. PICK i \in 1 .. Len(s) + Len(t) : c \in DeadOf(u[i])
    BY <1>3 DEF DeadMarks, u
  <2>2. CASE i <= Len(s)
    BY <2>1, <2>2, <1>1, <1>2 DEF DeadMarks, u
  <2>3. CASE ~(i <= Len(s))
    <3>1. i - Len(s) \in 1 .. Len(t) /\ u[i] = t[i - Len(s)]
      BY <2>3, <1>1, <1>2 DEF u
    <3>2. QED
      BY <3>1, <2>1, <1>1 DEF DeadMarks
  <2>4. QED
    BY <2>2, <2>3
<1>5. ASSUME NEW c \in DeadMarks(s)
      PROVE  c \in DeadMarks(u)
  <2>1. PICK i \in 1 .. Len(s) : c \in DeadOf(s[i])
    BY <1>1 DEF DeadMarks
  <2>2. i \in 1 .. Len(s) + Len(t) /\ u[i] = s[i]
    BY <1>1, <1>2 DEF u
  <2>3. QED
    BY <2>1, <2>2, <1>3 DEF DeadMarks, u
<1>6. ASSUME NEW c \in DeadMarks(t)
      PROVE  c \in DeadMarks(u)
  <2>1. PICK i \in 1 .. Len(t) : c \in DeadOf(t[i])
    BY <1>1 DEF DeadMarks
  <2>2. /\ i + Len(s) \in 1 .. Len(s) + Len(t) /\ ~(i + Len(s) <= Len(s))
        /\ (i + Len(s)) - Len(s) = i
    BY <1>1
  <2>3. u[i + Len(s)] = t[i]
    BY <2>2, <1>2 DEF u
  <2>4. QED
    BY <2>1, <2>2, <2>3, <1>3 DEF DeadMarks, u
<1>7. QED
  BY <1>4, <1>5, <1>6 DEF u

LEMMA DeadOfOne ==
    ASSUME NEW run
    PROVE  DeadMarks(<<run>>) = DeadOf(run)
<1>1. DOMAIN <<run>> = {1} /\ <<run>>[1] = run
  OBVIOUS
<1>2. QED
  BY <1>1 DEF DeadMarks

LEMMA DeadOfNone == DeadMarks(<<>>) = {}
<1>1. DOMAIN <<>> = {}
  OBVIOUS
<1>2. QED
  BY <1>1 DEF DeadMarks

LEMMA DeadAreMarks ==
    ASSUME NEW runs
    PROVE  DeadMarks(runs) \subseteq DocumentMarks(runs)
BY DEF DeadMarks, DeadOf, DocumentMarks

LEMMA DeadOfThree ==
    ASSUME NEW S, NEW s \in Seq(S), NEW t \in Seq(S), NEW u \in Seq(S)
    PROVE  DeadMarks(s \o t \o u)
              = DeadMarks(s) \cup DeadMarks(t) \cup DeadMarks(u)
<1>1. s \o t \in Seq(S)
  BY ConcatProperties
<1>2. \A v \in Seq(S) : DeadMarks(v \o u) = DeadMarks(v) \cup DeadMarks(u)
  BY DeadOfConcat
<1>3. DeadMarks(s \o t) = DeadMarks(s) \cup DeadMarks(t)
  BY DeadOfConcat
<1>4. QED
  BY <1>1, <1>2, <1>3

(* A leaf replaced by others that have N deleted beside what it had.       *)
LEMMA DeadOfSplice ==
    ASSUME NEW S, NEW runs \in Seq(S), NEW i \in 1 .. Len(runs),
           NEW Q \in Seq(S), NEW N, DeadMarks(Q) = DeadOf(runs[i]) \cup N
    PROVE  DeadMarks(Splice(runs, i, Q)) = DeadMarks(runs) \cup N
<1> DEFINE A == SubSeq(runs, 1, i - 1)
           B == SubSeq(runs, i + 1, Len(runs))
           P == <<runs[i]>>
<1>1. /\ A \in Seq(S) /\ B \in Seq(S) /\ P \in Seq(S)
      /\ runs = A \o P \o B
  BY ApartAt
<1>2. DeadMarks(P) = DeadOf(runs[i])
  BY DeadOfOne
<1>3. Splice(runs, i, Q) = A \o Q \o B
  BY DEF Splice
<1> HIDE DEF A, B, P
<1>4. A \in Seq(S) /\ B \in Seq(S) /\ P \in Seq(S)
  BY <1>1
<1>5. DeadMarks(A \o P \o B) = DeadMarks(A) \cup DeadMarks(P) \cup DeadMarks(B)
  BY <1>4, DeadOfThree
<1>6. DeadMarks(A \o Q \o B) = DeadMarks(A) \cup DeadMarks(Q) \cup DeadMarks(B)
  BY <1>4, DeadOfThree
<1>7. DeadMarks(runs) = DeadMarks(A) \cup DeadOf(runs[i]) \cup DeadMarks(B)
  BY <1>1, <1>2, <1>5
<1>8. DeadMarks(Splice(runs, i, Q)) =
        DeadMarks(A) \cup (DeadOf(runs[i]) \cup N) \cup DeadMarks(B)
  BY <1>3, <1>6
<1>9. QED
  BY <1>7, <1>8

(* A visible leaf put between two others.                                  *)
LEMMA DeadOfInsertAt ==
    ASSUME NEW S, NEW s \in Seq(S), NEW p \in 1 .. Len(s) + 1,
           NEW run \in S, ~run.del
    PROVE  /\ InsertAt(s, p, run) \in Seq(S)
           /\ DeadMarks(InsertAt(s, p, run)) = DeadMarks(s)
<1> DEFINE A == SubSeq(s, 1, p - 1)
           B == SubSeq(s, p, Len(s))
           R == <<run>>
<1>1. Len(s) \in Nat /\ \A k \in 1 .. Len(s) : s[k] \in S
  BY LenProperties, ElementOfSeq
<1>2. A \in Seq(S) /\ B \in Seq(S) /\ R \in Seq(S)
  BY <1>1, SubSeqProperties
<1>3. A \o B = s
  <2>1. /\ 1 \in 1 .. Len(s) + 1 /\ p - 1 \in 1 - 1 .. Len(s)
        /\ Len(s) \in p - 1 .. Len(s) /\ (p - 1) + 1 = p
    BY <1>1
  <2>2. SubSeq(s, 1, p - 1) \o SubSeq(s, (p - 1) + 1, Len(s)) =
          SubSeq(s, 1, Len(s))
    BY <2>1, ConcatAdjacentSubSeq
  <2>3. QED
    BY <2>1, <2>2, SubSeqFull
<1>4. InsertAt(s, p, run) = A \o R \o B
  BY DEF InsertAt
<1>5. DeadMarks(R) = {}
  BY DeadOfOne DEF DeadOf
<1> HIDE DEF A, B, R
<1>6. A \o R \in Seq(S) /\ A \o R \o B \in Seq(S)
  BY <1>2, ConcatProperties
<1>7. DeadMarks(A \o R \o B) = DeadMarks(A) \cup DeadMarks(R) \cup DeadMarks(B)
  BY <1>2, DeadOfThree
<1>8. DeadMarks(A \o B) = DeadMarks(A) \cup DeadMarks(B)
  BY <1>2, DeadOfConcat
<1>9. QED
  BY <1>3, <1>4, <1>5, <1>6, <1>7, <1>8

LEMMA DeadOfPart ==
    ASSUME NEW run \in Runs, NEW from \in Nat, NEW to \in Nat,
           from <= to, to <= RunLen(run)
    PROVE  DeadMarks(Part(run, from, to)) =
              IF run.del THEN RunMarks(SubRun(run, from, to)) ELSE {}
<1>1. CASE from < to
  <2>1. Part(run, from, to) = <<SubRun(run, from, to)>>
    BY <1>1 DEF Part
  <2>2. SubRun(run, from, to).del = run.del
    BY DEF SubRun, Runs, RunType
  <2>3. QED
    BY <2>1, <2>2, DeadOfOne DEF DeadOf
<1>2. CASE ~(from < to)
  <2>1. Part(run, from, to) = <<>>
    BY <1>2 DEF Part
  <2>2. DocumentMarks(Part(run, from, to)) = RunMarks(SubRun(run, from, to))
    BY MarksOfPart
  <2>3. RunMarks(SubRun(run, from, to)) = {}
    BY <2>1, <2>2, MarksOfNone
  <2>4. QED
    BY <2>1, <2>3, DeadOfNone
<1>3. QED
  BY <1>1, <1>2

LEMMA DeadOfSplit ==
    ASSUME NEW run \in Runs, NEW at \in 1 .. RunLen(run)
    PROVE  DeadMarks(SplitRun(run, at)) = DeadOf(run)
<1> DEFINE len == RunLen(run)
           s == Part(run, 0, at)
           t == Part(run, at, len)
<1>1. len \in Nat /\ 0 \in Nat /\ at \in Nat /\ 0 <= at /\ at <= len /\ len <= len
  BY RunLength
<1>2. s \in Seq(Runs) /\ t \in Seq(Runs)
  BY <1>1, MarksOfPart
<1>3. DeadMarks(s) = IF run.del THEN RunMarks(SubRun(run, 0, at)) ELSE {}
  BY <1>1, DeadOfPart
<1>4. DeadMarks(t) = IF run.del THEN RunMarks(SubRun(run, at, len)) ELSE {}
  BY <1>1, DeadOfPart
<1>5. SplitRun(run, at) = s \o t
  BY DEF SplitRun
<1>6. RunMarks(run) = RunMarks(SubRun(run, 0, at)) \cup RunMarks(SubRun(run, at, len))
  BY <1>1, SubRunsOfSubRun, WholeSubRun, TypingKeepsRuns
<1> HIDE DEF s, t, len
<1>7. DeadMarks(s \o t) = DeadMarks(s) \cup DeadMarks(t)
  BY <1>2, DeadOfConcat
<1>8. QED
  BY <1>3, <1>4, <1>5, <1>6, <1>7 DEF DeadOf

LEMMA DeadOfDeleteRange ==
    ASSUME NEW run \in Runs, NEW from \in Nat, NEW to \in Nat,
           from < to, to <= RunLen(run)
    PROVE  DeadMarks(DeleteRange(run, from, to)) =
              DeadOf(run) \cup RunMarks(SubRun(run, from, to))
<1> DEFINE len == RunLen(run)
           tomb == Tombstone(run)
           s == Part(run, 0, from)
           t == Part(tomb, from, to)
           u == Part(run, to, len)
<1>1. len \in Nat /\ 0 \in Nat /\ 0 <= from /\ from <= len /\ from <= to
      /\ to <= len /\ len <= len
  BY RunLength
<1>2. /\ tomb \in Runs /\ RunLen(tomb) = len /\ tomb.del
      /\ RunMarks(SubRun(tomb, from, to)) = RunMarks(SubRun(run, from, to))
  BY TombstoneOfRun DEF Tombstone, Runs, RunType
<1>3. s \in Seq(Runs) /\ t \in Seq(Runs) /\ u \in Seq(Runs)
  BY <1>1, <1>2, MarksOfPart
<1>4. DeadMarks(s) = IF run.del THEN RunMarks(SubRun(run, 0, from)) ELSE {}
  BY <1>1, DeadOfPart
<1>5. DeadMarks(u) = IF run.del THEN RunMarks(SubRun(run, to, len)) ELSE {}
  BY <1>1, DeadOfPart
<1> HIDE DEF tomb
<1>6. DeadMarks(t) = RunMarks(SubRun(run, from, to))
  BY <1>1, <1>2, DeadOfPart
<1>7. DeleteRange(run, from, to) = s \o t \o u
  BY DEF DeleteRange, tomb
<1>8. RunMarks(run) = RunMarks(SubRun(run, 0, from))
                         \cup RunMarks(SubRun(run, from, to))
                         \cup RunMarks(SubRun(run, to, len))
  <2>1. RunMarks(run) = RunMarks(SubRun(run, 0, to))
                           \cup RunMarks(SubRun(run, to, len))
    BY <1>1, SubRunsOfSubRun, WholeSubRun, TypingKeepsRuns
  <2>2. RunMarks(SubRun(run, 0, to)) = RunMarks(SubRun(run, 0, from))
                                          \cup RunMarks(SubRun(run, from, to))
    BY <1>1, SubRunsOfSubRun, TypingKeepsRuns
  <2>3. QED
    BY <2>1, <2>2
<1> HIDE DEF s, t, u, len
<1>9. s \o t \in Seq(Runs)
  BY <1>3, ConcatProperties
<1>10. DeadMarks(s \o t \o u) = DeadMarks(s) \cup DeadMarks(t) \cup DeadMarks(u)
  BY <1>3, DeadOfThree
<1>11. QED
  BY <1>4, <1>5, <1>6, <1>7, <1>8, <1>10 DEF DeadOf

------------------------------------------------------------------------------
(* A range of one leaf is deleted: what is dead then, and what is left     *)
(* behind and ahead of the leaf that a walk goes on with.                  *)
LEMMA MarksOfThree ==
    ASSUME NEW S, NEW s \in Seq(S), NEW t \in Seq(S), NEW u \in Seq(S)
    PROVE  DocumentMarks(s \o t \o u)
              = DocumentMarks(s) \cup DocumentMarks(t) \cup DocumentMarks(u)
<1>1. s \o t \in Seq(S)
  BY ConcatProperties
<1>2. \A v \in Seq(S) :
         DocumentMarks(v \o u) = DocumentMarks(v) \cup DocumentMarks(u)
  BY MarksOfConcat
<1>3. DocumentMarks(s \o t) = DocumentMarks(s) \cup DocumentMarks(t)
  BY MarksOfConcat
<1>4. QED
  BY <1>1, <1>2, <1>3

LEMMA LeavesConcat ==
    \A s, t \in Seq(Runs) :
        s \o t \in Seq(Runs) /\ Len(s \o t) = Len(s) + Len(t)
BY ConcatProperties

LEMMA LeafOfConcat ==
    ASSUME NEW s \in Seq(Runs), NEW t \in Seq(Runs),
           NEW i \in 1 .. Len(s) + Len(t)
    PROVE  (s \o t)[i] = IF i <= Len(s) THEN s[i] ELSE t[i - Len(s)]
BY ConcatProperties

LEMMA MarksAroundConcat ==
    ASSUME NEW s \in Seq(Runs), NEW t \in Seq(Runs)
    PROVE  /\ MarksUpTo(s \o t, Len(s) + 1) = DocumentMarks(s)
           /\ MarksFrom(s \o t, Len(s) + 1) = DocumentMarks(t)
<1> DEFINE u == s \o t
           p == Len(s) + 1
<1>1. /\ Len(s) \in Nat /\ DOMAIN s = 1 .. Len(s)
      /\ Len(t) \in Nat /\ DOMAIN t = 1 .. Len(t)
  BY LenProperties
<1>2. /\ u \in Seq(Runs) /\ Len(u) = Len(s) + Len(t)
      /\ \A i \in 1 .. Len(s) + Len(t) :
            u[i] = IF i <= Len(s) THEN s[i] ELSE t[i - Len(s)]
  BY ConcatProperties
<1> HIDE DEF u
<1>3. p \in 1 .. Len(u) + 1 /\ p - 1 = Len(s)
  BY <1>1, <1>2
<1>4. /\ \A c : c \in MarksUpTo(u, p)
                  <=> \E k \in 1 .. p - 1 : c \in RunMarks(u[k])
      /\ \A c : c \in MarksFrom(u, p)
                  <=> \E k \in p .. Len(u) : c \in RunMarks(u[k])
  BY <1>2, <1>3, MarksAround
<1>5. ASSUME NEW c
      PROVE  c \in MarksUpTo(u, p) <=> c \in DocumentMarks(s)
  <2>1. c \in DocumentMarks(s) <=> \E k \in 1 .. Len(s) : c \in RunMarks(s[k])
    BY <1>1 DEF DocumentMarks
  <2>2. \A k \in 1 .. Len(s) : u[k] = s[k]
    BY <1>1, <1>2
  <2>3. QED
    BY <2>1, <2>2, <1>3, <1>4
<1>6. ASSUME NEW c
      PROVE  c \in MarksFrom(u, p) <=> c \in DocumentMarks(t)
  <2>1. c \in DocumentMarks(t) <=> \E k \in 1 .. Len(t) : c \in RunMarks(t[k])
    BY <1>1 DEF DocumentMarks
  <2>2. ASSUME NEW k \in p .. Len(u), c \in RunMarks(u[k])
        PROVE  c \in DocumentMarks(t)
    <3>1. k - Len(s) \in 1 .. Len(t) /\ u[k] = t[k - Len(s)]
      BY <1>1, <1>2
    <3>2. QED
      BY <2>1, <2>2, <3>1
  <2>3. ASSUME NEW k \in 1 .. Len(t), c \in RunMarks(t[k])
        PROVE  \E l \in p .. Len(u) : c \in RunMarks(u[l])
    <3>1. /\ k + Len(s) \in p .. Len(u) /\ ~(k + Len(s) <= Len(s))
          /\ k + Len(s) \in 1 .. Len(s) + Len(t)
          /\ (k + Len(s)) - Len(s) = k
      BY <1>1, <1>2
    <3>2. u[k + Len(s)] = t[k]
      BY <3>1, <1>2
    <3>3. QED
      BY <2>3, <3>1, <3>2
  <2>4. QED
    BY <2>1, <2>2, <2>3, <1>4
<1>7. QED
  BY <1>5, <1>6 DEF u

IsRangeDeleted(runs, i, from, to, new, j) ==
    /\ new \in Seq(Runs) /\ j \in 1 .. Len(new)
    /\ DeadMarks(new) =
         DeadMarks(runs) \cup RunMarks(SubRun(runs[i], from, to))
    /\ MarksUpTo(new, j) \subseteq
         MarksUpTo(runs, i) \cup RunMarks(SubRun(runs[i], 0, to))
    /\ MarksFrom(new, j) \subseteq
         RunMarks(SubRun(runs[i], from, RunLen(runs[i])))
           \cup MarksFrom(runs, i + 1)
    /\ MarksFrom(runs, i + 1) \subseteq MarksFrom(new, j)
    /\ to < RunLen(runs[i]) =>
         /\ Len(new) - j = Len(runs) - i
         /\ new[j].id = runs[i].id /\ new[j].start = runs[i].start + to
    /\ to = RunLen(runs[i]) /\ i < Len(runs) =>
         Len(new) - j = Len(runs) - i - 1

LEMMA RestOfLength ==
    ASSUME NEW x \in Nat, NEW n \in Int
    PROVE  (x + (1 + n)) - (x + 1) = n /\ (x + n) - (x + 1) = n - 1
OBVIOUS

(* The leaf is cut into pieces: those before X end, and those from Y on.   *)
LEMMA RangeCutOut ==
    ASSUME NEW runs \in Seq(Runs), NEW i \in 1 .. Len(runs),
           NEW from \in Nat, NEW to \in Nat, from < to, to <= RunLen(runs[i]),
           NEW next, next = IF from = 0 THEN i + 1 ELSE i + 2,
           NEW new, new = Splice(runs, i, DeleteRange(runs[i], from, to)),
           NEW j, j = IF next > Len(new) THEN Len(new) ELSE next
    PROVE  IsRangeDeleted(runs, i, from, to, new, j)
<1> DEFINE run == runs[i]
           len == RunLen(run)
           A == SubSeq(runs, 1, i - 1)
           B == SubSeq(runs, i + 1, Len(runs))
           P == Part(run, 0, from)
           T == Part(Tombstone(run), from, to)
           U == Part(run, to, len)
<1>1. /\ Len(runs) \in Nat /\ run \in Runs
      /\ A \in Seq(Runs) /\ B \in Seq(Runs)
  BY LenProperties, ElementOfSeq, ApartAt
<1>2. Len(A) = i - 1 /\ Len(B) = Len(runs) - i
  <2>1. \A k \in 1 .. Len(runs) : runs[k] \in Runs
    BY ElementOfSeq
  <2>2. Len(A) = i - 1
    BY <1>1, <2>1, SubSeqProperties
  <2>3. Len(B) = Len(runs) - i
    BY <1>1, <2>1, SubSeqProperties
  <2>4. QED
    BY <2>2, <2>3
<1>3. /\ len \in Nat /\ run.start \in Nat /\ 0 \in Nat /\ 0 <= from
      /\ from <= len /\ from <= to /\ to <= len /\ len <= len
  BY <1>1, RunLength
<1>4. /\ Tombstone(run) \in Runs /\ RunLen(Tombstone(run)) = len
      /\ RunMarks(SubRun(Tombstone(run), from, to)) = RunMarks(SubRun(run, from, to))
  BY <1>1, <1>3, TombstoneOfRun
<1>5. /\ P \in Seq(Runs) /\ DocumentMarks(P) = RunMarks(SubRun(run, 0, from))
      /\ T \in Seq(Runs) /\ DocumentMarks(T) = RunMarks(SubRun(run, from, to))
      /\ U \in Seq(Runs) /\ DocumentMarks(U) = RunMarks(SubRun(run, to, len))
  <2>1. P \in Seq(Runs) /\ DocumentMarks(P) = RunMarks(SubRun(run, 0, from))
    BY <1>1, <1>3, MarksOfPart
  <2>2. T \in Seq(Runs) /\ DocumentMarks(T) = RunMarks(SubRun(run, from, to))
    <3> HIDE DEF run, len
    <3>1. /\ T \in Seq(Runs)
          /\ DocumentMarks(T) = RunMarks(SubRun(Tombstone(run), from, to))
      BY <1>3, <1>4, MarksOfPart
    <3>2. QED
      BY <3>1, <1>4
  <2>3. U \in Seq(Runs) /\ DocumentMarks(U) = RunMarks(SubRun(run, to, len))
    BY <1>1, <1>3, MarksOfPart
  <2>4. QED
    BY <2>1, <2>2, <2>3
<1>6. /\ Len(P) = IF from = 0 THEN 0 ELSE 1
      /\ Len(T) = 1
      /\ to < len => Len(U) = 1 /\ U[1] = SubRun(run, to, len)
      /\ to = len => U = <<>> /\ Len(U) = 0
  BY <1>3 DEF Part
<1>7. /\ RunMarks(SubRun(run, 0, to)) =
           RunMarks(SubRun(run, 0, from)) \cup RunMarks(SubRun(run, from, to))
      /\ RunMarks(SubRun(run, from, len)) =
           RunMarks(SubRun(run, from, to)) \cup RunMarks(SubRun(run, to, len))
  <2>1. RunMarks(SubRun(run, 0, to)) =
           RunMarks(SubRun(run, 0, from)) \cup RunMarks(SubRun(run, from, to))
    BY <1>1, <1>3, SubRunsOfSubRun, TypingKeepsRuns
  <2>2. RunMarks(SubRun(run, from, len)) =
           RunMarks(SubRun(run, from, to)) \cup RunMarks(SubRun(run, to, len))
    BY <1>1, <1>3, SubRunsOfSubRun, TypingKeepsRuns
  <2>3. QED
    BY <2>1, <2>2
<1>8. DeadMarks(new) = DeadMarks(runs) \cup RunMarks(SubRun(run, from, to))
  <2>1. DeadMarks(DeleteRange(run, from, to)) =
          DeadOf(run) \cup RunMarks(SubRun(run, from, to))
    BY <1>1, DeadOfDeleteRange
  <2>2. DeleteRange(run, from, to) \in Seq(Runs)
    BY <1>1, DeleteRangeCuts, TypingKeepsRuns
  <2>3. QED
    BY <2>1, <2>2, DeadOfSplice
<1>9. MarksUpTo(runs, i) = DocumentMarks(A) /\ MarksFrom(runs, i + 1) = DocumentMarks(B)
  BY DEF MarksUpTo, MarksFrom
<1>10. new = A \o (P \o T \o U) \o B
  BY DEF Splice, DeleteRange
<1>11. SubRun(run, to, len).id = run.id /\ SubRun(run, to, len).start = run.start + to
  BY <1>1 DEF SubRun, Runs, RunType
<1> HIDE DEF A, B, P, T, U, run, len
<1> DEFINE X == A \o P \o T
           Y == U \o B
<1>12. /\ Len(A) \in Nat /\ Len(P) \in Nat /\ Len(U) \in Nat /\ Len(B) \in Nat
       /\ A \o P \in Seq(Runs) /\ Len(A \o P) = Len(A) + Len(P)
       /\ X \in Seq(Runs) /\ Len(X) = Len(A) + Len(P) + 1
       /\ Y \in Seq(Runs) /\ Len(Y) = Len(U) + Len(B)
  <2>1. /\ A \in Seq(Runs) /\ B \in Seq(Runs) /\ P \in Seq(Runs)
        /\ T \in Seq(Runs) /\ U \in Seq(Runs) /\ Len(T) = 1
    BY <1>1, <1>5, <1>6
  <2>2. /\ Len(A) \in Nat /\ Len(P) \in Nat /\ Len(U) \in Nat /\ Len(B) \in Nat
    BY <2>1, LenProperties
  <2>3. A \o P \in Seq(Runs) /\ Len(A \o P) = Len(A) + Len(P)
    BY <2>1, LeavesConcat
  <2>4. X \in Seq(Runs) /\ Len(X) = Len(A) + Len(P) + 1
    <3> HIDE DEF X
    <3>1. A \o P \o T \in Seq(Runs) /\ Len(A \o P \o T) = Len(A \o P) + Len(T)
      BY <2>1, <2>3, LeavesConcat, Zenon
    <3>2. QED
      BY <2>1, <2>3, <3>1 DEF X
  <2>5. Y \in Seq(Runs) /\ Len(Y) = Len(U) + Len(B)
    BY <2>1, LeavesConcat
  <2>6. QED
    BY <2>2, <2>3, <2>4, <2>5
<1>13. new = X \o Y
  <2>1. A \o (P \o T \o U) \o B = X \o Y
    <3>1. /\ A \in Seq(Runs) /\ B \in Seq(Runs) /\ P \in Seq(Runs)
          /\ T \in Seq(Runs) /\ U \in Seq(Runs)
      BY <1>1, <1>5
    <3>2. FiveAssociate(A, P, T, U, B)
      BY <3>1, AllFiveAssociate
    <3>3. QED
      BY <3>2 DEF FiveAssociate
  <2>2. QED
    BY <2>1, <1>10
<1>14. /\ DocumentMarks(X) = DocumentMarks(A) \cup RunMarks(SubRun(run, 0, to))
       /\ DocumentMarks(Y) = RunMarks(SubRun(run, to, len)) \cup DocumentMarks(B)
  <2>1. DocumentMarks(X) =
          DocumentMarks(A) \cup DocumentMarks(P) \cup DocumentMarks(T)
    BY <1>1, <1>5, MarksOfThree
  <2>2. DocumentMarks(Y) = DocumentMarks(U) \cup DocumentMarks(B)
    BY <1>1, <1>5, MarksOfConcat
  <2>3. QED
    BY <2>1, <2>2, <1>5, <1>7
<1> HIDE DEF X, Y
<1>15. /\ new \in Seq(Runs) /\ Len(new) = Len(X) + Len(Y)
       /\ Len(X) \in Nat /\ Len(Y) \in Nat /\ next = Len(X) + 1
  <2>1. new \in Seq(Runs) /\ Len(new) = Len(X) + Len(Y)
    BY <1>12, <1>13, LeavesConcat
  <2>2. QED
    BY <2>1, <1>1, <1>2, <1>6, <1>12, SMTT(30)
<1>19. /\ Len(Y) = Len(U) + (Len(runs) - i)
       /\ to < len => Len(U) = 1
       /\ to = len => Len(U) = 0
  BY <1>2, <1>6, <1>12
<1>20. Len(runs) \in Nat /\ Len(runs) - i \in Nat /\ Len(U) \in Nat
  BY <1>1, <1>12
<1>16. CASE Len(Y) > 0
  <2>1. j = Len(X) + 1 /\ j \in 1 .. Len(new)
    BY <1>15, <1>16
  <2>2. MarksUpTo(new, j) = DocumentMarks(X) /\ MarksFrom(new, j) = DocumentMarks(Y)
    BY <1>12, <1>13, <2>1, MarksAroundConcat, ZenonT(40)
  <2>3. ASSUME to < len
        PROVE  /\ Len(new) - j = Len(runs) - i
               /\ new[j].id = run.id /\ new[j].start = run.start + to
    <3>1. Len(new) - j = Len(runs) - i
      <4>1. Len(Y) = 1 + (Len(runs) - i)
        BY <2>3, <1>19
      <4>2. Len(new) = Len(X) + (1 + (Len(runs) - i))
        BY <4>1, <1>15
      <4>3. (Len(X) + (1 + (Len(runs) - i))) - (Len(X) + 1) = Len(runs) - i
        BY <1>15, <1>20, RestOfLength
      <4>4. QED
        BY <4>2, <4>3, <2>1
    <3>2. new[j] = Y[1]
      <4>1. /\ j \in 1 .. Len(X) + Len(Y) /\ ~(j <= Len(X)) /\ j - Len(X) = 1
        BY <2>1, <1>15
      <4>2. X \in Seq(Runs) /\ Y \in Seq(Runs)
        BY <1>12
      <4>3. (X \o Y)[j] = Y[1]
        BY <4>1, <4>2, LeafOfConcat, SMTT(30)
      <4>4. QED
        BY <4>3, <1>13
    <3>3. Y[1] = U[1]
      <4>1. Len(U) = 1 /\ Len(B) \in Nat
        BY <2>3, <1>12, <1>19
      <4>2. 1 \in 1 .. Len(U) + Len(B) /\ 1 <= Len(U)
        BY <4>1
      <4>3. U \in Seq(Runs) /\ B \in Seq(Runs)
        BY <1>1, <1>5
      <4>4. (U \o B)[1] = U[1]
        BY <4>2, <4>3, LeafOfConcat
      <4>5. QED
        BY <4>4 DEF Y
    <3>4. QED
      BY <2>3, <3>1, <3>2, <3>3, <1>6, <1>11
  <2>4. ASSUME to = len PROVE Len(new) - j = Len(runs) - i - 1
    BY <2>1, <2>4, <1>15, <1>19, <1>20, SMTT(30)
  <2>5. QED
    BY <2>1, <2>2, <2>3, <2>4, <1>7, <1>8, <1>9, <1>14, <1>15, SMTT(30)
       DEF IsRangeDeleted, run, len
<1>17. CASE ~(Len(Y) > 0)
  <2>1. Len(U) = 0 /\ Len(B) = 0 /\ Len(Y) = 0
    <3>1. Len(U) \in Nat /\ Len(B) \in Nat
      BY <1>1, <1>5, LenProperties
    <3>2. QED
      BY <3>1, <1>12, <1>15, <1>17
  <2>2. j = Len(A \o P) + 1 /\ j = Len(new) /\ Len(new) \in Nat /\ Len(new) > 0
    <3>1. Len(A \o P) \in Nat
      BY <1>12, LenProperties
    <3>2. QED
      BY <2>1, <3>1, <1>12, <1>15
  <2>3. new = (A \o P) \o T
    <3>1. Y = <<>>
      BY <2>1, <1>12, EmptySeq
    <3>2. X \o <<>> = X
      BY <1>12, ConcatEmptySeq
    <3>3. QED
      BY <3>1, <3>2, <1>13 DEF X
  <2>4. MarksUpTo(new, j) = DocumentMarks(A \o P) /\ MarksFrom(new, j) = DocumentMarks(T)
    <3> DEFINE Z == A \o P
    <3>1. Z \in Seq(Runs) /\ T \in Seq(Runs)
      BY <1>5, <1>12
    <3> HIDE DEF Z
    <3>2. /\ MarksUpTo(Z \o T, Len(Z) + 1) = DocumentMarks(Z)
          /\ MarksFrom(Z \o T, Len(Z) + 1) = DocumentMarks(T)
      BY <3>1, MarksAroundConcat
    <3>3. QED
      BY <3>2, <2>2, <2>3 DEF Z
  <2>5. DocumentMarks(A \o P) = DocumentMarks(A) \cup DocumentMarks(P)
    BY <1>1, <1>5, MarksOfConcat
  <2>6. DocumentMarks(B) = {}
    BY <2>1, <1>1, EmptySeq, MarksOfNone
  <2>7. ~(to < len) /\ ~(i < Len(runs))
    BY <2>1, <1>1, <1>2, <1>6
  <2>8. j \in 1 .. Len(new)
    BY <2>2
  <2>9. QED
    BY <2>4, <2>5, <2>6, <2>7, <2>8, <1>5, <1>7, <1>8, <1>9, <1>15
       DEF IsRangeDeleted, run, len
<1>18. QED
  BY <1>16, <1>17

(* The marks on either side of a leaf, and those of the leaf.              *)
LEMMA MarksBeside ==
    ASSUME NEW runs \in Seq(Runs), NEW i \in 1 .. Len(runs)
    PROVE  /\ MarksUpTo(runs, i + 1) = MarksUpTo(runs, i) \cup RunMarks(runs[i])
           /\ MarksFrom(runs, i) = RunMarks(runs[i]) \cup MarksFrom(runs, i + 1)
           /\ DocumentMarks(runs) =
                MarksUpTo(runs, i) \cup RunMarks(runs[i]) \cup MarksFrom(runs, i + 1)
<1>1. Len(runs) \in Nat /\ i \in 1 .. Len(runs) + 1 /\ i + 1 \in 1 .. Len(runs) + 1
  BY LenProperties
<1>2. /\ \A c : c \in MarksUpTo(runs, i) <=> \E k \in 1 .. i - 1 : c \in RunMarks(runs[k])
      /\ \A c : c \in MarksFrom(runs, i) <=> \E k \in i .. Len(runs) : c \in RunMarks(runs[k])
      /\ MarksUpTo(runs, i) \cup MarksFrom(runs, i) = DocumentMarks(runs)
  BY <1>1, MarksAround
<1>3. /\ \A c : c \in MarksUpTo(runs, i + 1)
              <=> \E k \in 1 .. (i + 1) - 1 : c \in RunMarks(runs[k])
      /\ \A c : c \in MarksFrom(runs, i + 1)
              <=> \E k \in i + 1 .. Len(runs) : c \in RunMarks(runs[k])
  BY <1>1, MarksAround
<1>4. /\ \A k : k \in 1 .. (i + 1) - 1 <=> k \in 1 .. i - 1 \/ k = i
      /\ \A k : k \in i .. Len(runs) <=> k = i \/ k \in i + 1 .. Len(runs)
  BY <1>1
<1>5. \A c : c \in MarksUpTo(runs, i + 1)
              <=> c \in MarksUpTo(runs, i) \/ c \in RunMarks(runs[i])
  BY <1>2, <1>3, <1>4, Zenon
<1>6. \A c : c \in MarksFrom(runs, i)
              <=> c \in RunMarks(runs[i]) \/ c \in MarksFrom(runs, i + 1)
  BY <1>2, <1>3, <1>4, Zenon
<1>7. QED
  BY <1>2, <1>5, <1>6

(* Leaves that are the same have the same marks.                           *)
LEMMA SameMarksUpTo ==
    ASSUME NEW runs \in Seq(Runs), NEW new \in Seq(Runs),
           NEW p \in 1 .. Len(runs) + 1, p \in 1 .. Len(new) + 1,
           \A k \in 1 .. p - 1 : new[k] = runs[k]
    PROVE  MarksUpTo(new, p) = MarksUpTo(runs, p)
<1>1. \A c : c \in MarksUpTo(runs, p) <=> \E k \in 1 .. p - 1 : c \in RunMarks(runs[k])
  BY MarksAround
<1>2. \A c : c \in MarksUpTo(new, p) <=> \E k \in 1 .. p - 1 : c \in RunMarks(new[k])
  BY MarksAround
<1>3. \A c : c \in MarksUpTo(new, p) <=> c \in MarksUpTo(runs, p)
  BY <1>1, <1>2
<1>4. QED
  BY <1>3

LEMMA SameMarksFrom ==
    ASSUME NEW runs \in Seq(Runs), NEW new \in Seq(Runs), Len(new) = Len(runs),
           NEW p \in 1 .. Len(runs) + 1,
           \A k \in p .. Len(runs) : new[k] = runs[k]
    PROVE  MarksFrom(new, p) = MarksFrom(runs, p)
<1>1. \A c : c \in MarksFrom(runs, p) <=> \E k \in p .. Len(runs) : c \in RunMarks(runs[k])
  BY MarksAround
<1>2. \A c : c \in MarksFrom(new, p) <=> \E k \in p .. Len(runs) : c \in RunMarks(new[k])
  BY MarksAround
<1>3. \A c : c \in MarksFrom(new, p) <=> c \in MarksFrom(runs, p)
  BY <1>1, <1>2
<1>4. QED
  BY <1>3

(* Two leaves are replaced by two others.                                  *)
IsPairDead(new, runs, x, y, e, f) ==
    \E rest : /\ DeadMarks(runs) = rest \cup DeadOf(x) \cup DeadOf(y)
              /\ DeadMarks(new) = rest \cup DeadOf(e) \cup DeadOf(f)

LEMMA MarksOfPair ==
    ASSUME NEW runs \in Seq(Runs), NEW i \in 1 .. Len(runs) - 1,
           NEW e, NEW f, NEW new, IsPairReplaced(new, runs, i, e, f)
    PROVE  /\ new \in Seq(Runs) /\ Len(new) = Len(runs)
           /\ new[i] = e /\ new[i + 1] = f
           /\ MarksUpTo(new, i) = MarksUpTo(runs, i)
           /\ MarksFrom(new, i + 2) = MarksFrom(runs, i + 2)
           /\ IsPairDead(new, runs, runs[i], runs[i + 1], e, f)
<1>1. /\ Len(runs) \in Nat /\ new \in Seq(Runs) /\ Len(new) = Len(runs)
      /\ DOMAIN runs = 1 .. Len(runs) /\ DOMAIN new = 1 .. Len(runs)
  BY LenProperties DEF IsPairReplaced
<1>2. \A k \in 1 .. Len(runs) :
          new[k] = IF k = i + 1 THEN f ELSE IF k = i THEN e ELSE runs[k]
  BY DEF IsPairReplaced
<1>3. /\ i \in 1 .. Len(runs) /\ i + 1 \in 1 .. Len(runs) /\ i # i + 1
      /\ i \in 1 .. Len(runs) + 1 /\ i + 2 \in 1 .. Len(runs) + 1
      /\ \A k \in 1 .. i - 1 : k \in 1 .. Len(runs) /\ k # i /\ k # i + 1
      /\ \A k \in i + 2 .. Len(runs) : k \in 1 .. Len(runs) /\ k # i /\ k # i + 1
  BY <1>1
<1>4. new[i] = e /\ new[i + 1] = f
  BY <1>2, <1>3
<1>5. MarksUpTo(new, i) = MarksUpTo(runs, i)
  <2>1. \A k \in 1 .. i - 1 : new[k] = runs[k]
    BY <1>2, <1>3
  <2>2. QED
    BY <2>1, <1>1, <1>3, SameMarksUpTo
<1>6. MarksFrom(new, i + 2) = MarksFrom(runs, i + 2)
  <2>1. \A k \in i + 2 .. Len(runs) : new[k] = runs[k]
    BY <1>2, <1>3
  <2>2. QED
    BY <2>1, <1>1, <1>3, SameMarksFrom
<1>7. IsPairDead(new, runs, runs[i], runs[i + 1], e, f)
  <2> DEFINE others == {k \in 1 .. Len(runs) : k # i /\ k # i + 1}
             rest == UNION {DeadOf(runs[k]) : k \in others}
  <2>1. \A k \in others : new[k] = runs[k]
    BY <1>2
  <2>2. \A k : k \in 1 .. Len(runs) <=> k \in others \/ k = i \/ k = i + 1
    BY <1>3
  <2>3. \A k \in others : DeadOf(new[k]) = DeadOf(runs[k])
    BY <2>1
  <2> HIDE DEF others
  <2>4. DeadMarks(runs) = rest \cup DeadOf(runs[i]) \cup DeadOf(runs[i + 1])
    BY <2>2, <1>1 DEF DeadMarks
  <2>5. DeadMarks(new) =
           (UNION {DeadOf(new[k]) : k \in others})
             \cup DeadOf(new[i]) \cup DeadOf(new[i + 1])
    BY <2>2, <1>1 DEF DeadMarks
  <2>6. UNION {DeadOf(new[k]) : k \in others} = rest
    BY <2>3
  <2> HIDE DEF rest
  <2>7. DeadMarks(new) = rest \cup DeadOf(e) \cup DeadOf(f)
    BY <2>5, <2>6, <1>4
  <2>8. QED
    BY <2>4, <2>7 DEF IsPairDead
<1>8. QED
  BY <1>1, <1>4, <1>5, <1>6, <1>7

(* The boundary is moved into one of the two parts.                        *)
LEMMA MovedBack ==
    ASSUME NEW x, NEW y, NEW e, NEW f, NEW to \in Nat, 0 < to, to < RunLen(y),
           IsBoundaryMoved(x, y, e, f, y.start + to)
    PROVE  /\ RunMarks(e) = RunMarks(x) \cup RunMarks(SubRun(y, 0, to))
           /\ RunMarks(f) = RunMarks(SubRun(y, to, RunLen(y)))
           /\ e.del = x.del /\ f.del = y.del
<1>1. /\ x \in Runs /\ y \in Runs /\ x.end = y.start
      /\ e.del = x.del /\ f.del = y.del
  BY DEF IsBoundaryMoved
<1>2. /\ x \in RunType /\ y \in RunType /\ RunLen(y) \in Nat
      /\ y.start \in Nat /\ y.end = y.start + RunLen(y)
  BY <1>1, RunLength
<1>3. /\ \A c : c \in RunMarks(e) <=>
                 /\ c \in RunMarks(x) \cup RunMarks(y) /\ c.at < y.start + to
      /\ \A c : c \in RunMarks(f) <=>
                 /\ c \in RunMarks(x) \cup RunMarks(y) /\ y.start + to <= c.at
  BY BoundaryMoved, TypingKeepsRuns
<1>4. /\ 0 \in Nat /\ 0 <= to /\ to <= RunLen(y) /\ RunLen(y) <= RunLen(y)
  BY <1>2
<1>5. \A c : c \in RunMarks(SubRun(y, 0, to)) <=>
             /\ c \in RunMarks(y)
             /\ y.start + 0 <= c.at /\ c.at < y.start + to
  BY <1>1, <1>4, MarksOfSubRun
<1>6. \A c : c \in RunMarks(SubRun(y, to, RunLen(y))) <=>
             /\ c \in RunMarks(y)
             /\ y.start + to <= c.at /\ c.at < y.start + RunLen(y)
  BY <1>1, <1>2, <1>4, MarksOfSubRun
<1>7. \A c \in RunMarks(x) : c.at \in Nat /\ c.at < y.start
  BY <1>1, <1>2, MarkOfRun DEF Covers, Mark
<1>8. \A c \in RunMarks(y) : c.at \in Nat /\ y.start <= c.at /\ c.at < y.end
  BY <1>2, MarkOfRun DEF Covers, Mark
<1>9. ASSUME NEW c
      PROVE  c \in RunMarks(e)
                <=> c \in RunMarks(x) \/ c \in RunMarks(SubRun(y, 0, to))
  BY <1>2, <1>3, <1>5, <1>7, <1>8
<1>10. ASSUME NEW c
       PROVE  c \in RunMarks(f) <=> c \in RunMarks(SubRun(y, to, RunLen(y)))
  BY <1>2, <1>3, <1>6, <1>7, <1>8
<1>11. QED
  BY <1>1, <1>9, <1>10

LEMMA MovedOn ==
    ASSUME NEW x, NEW y, NEW e, NEW f, NEW from \in Nat,
           0 < from, from < RunLen(x),
           IsBoundaryMoved(x, y, e, f, x.start + from)
    PROVE  /\ RunMarks(e) = RunMarks(SubRun(x, 0, from))
           /\ RunMarks(f) = RunMarks(SubRun(x, from, RunLen(x))) \cup RunMarks(y)
           /\ e.del = x.del /\ f.del = y.del
<1>1. /\ x \in Runs /\ y \in Runs /\ x.end = y.start
      /\ e.del = x.del /\ f.del = y.del
  BY DEF IsBoundaryMoved
<1>2. /\ x \in RunType /\ y \in RunType /\ RunLen(x) \in Nat
      /\ x.start \in Nat /\ x.end = x.start + RunLen(x)
  BY <1>1, RunLength
<1>3. /\ \A c : c \in RunMarks(e) <=>
                 /\ c \in RunMarks(x) \cup RunMarks(y) /\ c.at < x.start + from
      /\ \A c : c \in RunMarks(f) <=>
                 /\ c \in RunMarks(x) \cup RunMarks(y) /\ x.start + from <= c.at
  BY BoundaryMoved, TypingKeepsRuns
<1>4. /\ 0 \in Nat /\ 0 <= from /\ from <= RunLen(x) /\ RunLen(x) <= RunLen(x)
  BY <1>2
<1>5. \A c : c \in RunMarks(SubRun(x, 0, from)) <=>
             /\ c \in RunMarks(x)
             /\ x.start + 0 <= c.at /\ c.at < x.start + from
  BY <1>1, <1>4, MarksOfSubRun
<1>6. \A c : c \in RunMarks(SubRun(x, from, RunLen(x))) <=>
             /\ c \in RunMarks(x)
             /\ x.start + from <= c.at /\ c.at < x.start + RunLen(x)
  BY <1>1, <1>2, <1>4, MarksOfSubRun
<1>7. \A c \in RunMarks(x) : c.at \in Nat /\ x.start <= c.at /\ c.at < x.end
  BY <1>2, MarkOfRun DEF Covers, Mark
<1>8. \A c \in RunMarks(y) : c.at \in Nat /\ x.end <= c.at
  BY <1>1, <1>2, MarkOfRun DEF Covers, Mark
<1>9. ASSUME NEW c
      PROVE  c \in RunMarks(e) <=> c \in RunMarks(SubRun(x, 0, from))
  BY <1>2, <1>3, <1>5, <1>7, <1>8
<1>10. ASSUME NEW c
       PROVE  c \in RunMarks(f)
                 <=> \/ c \in RunMarks(SubRun(x, from, RunLen(x)))
                     \/ c \in RunMarks(y)
  BY <1>2, <1>3, <1>6, <1>7, <1>8
<1>11. QED
  BY <1>1, <1>9, <1>10

(* The range goes to a neighbouring tombstone.                             *)
LEMMA PartsOfRun ==
    ASSUME NEW run \in Runs, NEW at \in Nat, at <= RunLen(run)
    PROVE  RunMarks(run) =
             RunMarks(SubRun(run, 0, at)) \cup RunMarks(SubRun(run, at, RunLen(run)))
<1>1. RunLen(run) \in Nat /\ 0 \in Nat /\ 0 <= at /\ RunLen(run) <= RunLen(run)
  BY RunLength
<1>2. RunMarks(SubRun(run, 0, RunLen(run))) =
        RunMarks(SubRun(run, 0, at)) \cup RunMarks(SubRun(run, at, RunLen(run)))
  BY <1>1, SubRunsOfSubRun, TypingKeepsRuns
<1>3. QED
  BY <1>2, WholeSubRun

LEMMA RangeJoinsPrevious ==
    ASSUME NEW runs \in Seq(Runs), NEW j \in 1 .. Len(runs) - 1,
           NEW to \in Nat, 0 < to, to < RunLen(runs[j + 1]), runs[j].del,
           NEW new, IsPairMoved(new, runs, j, runs[j + 1].start + to)
    PROVE  IsRangeDeleted(runs, j + 1, 0, to, new, j + 1)
<1> DEFINE i == j + 1
           x == runs[j]
           y == runs[i]
           len == RunLen(y)
<1>1. /\ Len(runs) \in Nat /\ j + 1 = i /\ j + 2 = i + 1
      /\ i \in 1 .. Len(runs) /\ j \in 1 .. Len(runs) /\ y \in Runs
      /\ len \in Nat
  <2>1. /\ Len(runs) \in Nat /\ j + 1 = i
        /\ j + 2 = i + 1 /\ i \in 1 .. Len(runs) /\ j \in 1 .. Len(runs)
    BY LenProperties
  <2>2. y \in Runs
    BY <2>1, ElementOfSeq
  <2>3. QED
    BY <2>1, <2>2, RunLength
<1> HIDE DEF i
<1>2. PICK e, f : /\ IsBoundaryMoved(x, runs[j + 1], e, f, runs[j + 1].start + to)
                  /\ IsPairReplaced(new, runs, j, e, f)
  BY DEF IsPairMoved
<1>3. /\ IsBoundaryMoved(x, y, e, f, y.start + to)
      /\ x.del /\ to < len
  BY <1>1, <1>2 DEF i
<1> HIDE DEF x, y
<1>4. /\ RunMarks(e) = RunMarks(x) \cup RunMarks(SubRun(y, 0, to))
      /\ RunMarks(f) = RunMarks(SubRun(y, to, len))
      /\ e.del = x.del /\ f.del = y.del
  BY <1>3, MovedBack
<1>13. f.id = y.id /\ f.start = y.start + to
  BY <1>3 DEF IsBoundaryMoved
<1>5. RunMarks(y) = RunMarks(SubRun(y, 0, to)) \cup RunMarks(SubRun(y, to, len))
  BY <1>1, PartsOfRun DEF y
<1> HIDE DEF len
<1>6. /\ new \in Seq(Runs) /\ Len(new) = Len(runs)
      /\ new[j] = e /\ new[i] = f
      /\ MarksUpTo(new, j) = MarksUpTo(runs, j)
      /\ MarksFrom(new, i + 1) = MarksFrom(runs, i + 1)
      /\ IsPairDead(new, runs, x, y, e, f)
  <2>1. /\ new \in Seq(Runs) /\ Len(new) = Len(runs)
        /\ new[j] = e /\ new[j + 1] = f
        /\ MarksUpTo(new, j) = MarksUpTo(runs, j)
        /\ MarksFrom(new, j + 2) = MarksFrom(runs, j + 2)
        /\ IsPairDead(new, runs, runs[j], runs[j + 1], e, f)
    BY <1>1, <1>2, MarksOfPair DEF x
  <2>2. QED
    BY <2>1, <1>1 DEF x, y
<1>7. MarksUpTo(runs, i) = MarksUpTo(runs, j) \cup RunMarks(x)
  BY <1>1, MarksBeside DEF x
<1>8. /\ MarksUpTo(new, i) = MarksUpTo(new, j) \cup RunMarks(e)
      /\ MarksFrom(new, i) = RunMarks(f) \cup MarksFrom(new, i + 1)
  <2>1. MarksUpTo(new, j + 1) = MarksUpTo(new, j) \cup RunMarks(new[j])
    BY <1>1, <1>6, MarksBeside
  <2>2. MarksFrom(new, i) = RunMarks(new[i]) \cup MarksFrom(new, i + 1)
    BY <1>1, <1>6, MarksBeside
  <2>3. QED
    BY <2>1, <2>2, <1>1, <1>6
<1>9. DeadMarks(new) = DeadMarks(runs) \cup RunMarks(SubRun(y, 0, to))
  <2>1. PICK rest : /\ DeadMarks(runs) = rest \cup DeadOf(x) \cup DeadOf(y)
                    /\ DeadMarks(new) = rest \cup DeadOf(e) \cup DeadOf(f)
    BY <1>6 DEF IsPairDead
  <2>2. DeadOf(x) = RunMarks(x) /\ DeadOf(e) = RunMarks(e)
    BY <1>3, <1>4 DEF DeadOf
  <2>3. DeadOf(y) = (IF y.del THEN RunMarks(y) ELSE {})
        /\ DeadOf(f) = (IF y.del THEN RunMarks(f) ELSE {})
    BY <1>4 DEF DeadOf
  <2>4. QED
    BY <2>1, <2>2, <2>3, <1>4, <1>5
<1>10. i \in 1 .. Len(new) /\ Len(new) - i = Len(runs) - i /\ to # len
  BY <1>1, <1>3, <1>6
<1>11. /\ MarksUpTo(new, i) \subseteq
             MarksUpTo(runs, i) \cup RunMarks(SubRun(y, 0, to))
       /\ MarksFrom(new, i) \subseteq
             RunMarks(SubRun(y, 0, len)) \cup MarksFrom(runs, i + 1)
       /\ MarksFrom(runs, i + 1) \subseteq MarksFrom(new, i)
  <2>1. RunMarks(SubRun(y, 0, len)) = RunMarks(y)
    BY <1>1, WholeSubRun DEF len, y
  <2>2. QED
    BY <2>1, <1>4, <1>5, <1>6, <1>7, <1>8
<1>12. QED
  BY <1>1, <1>6, <1>9, <1>10, <1>11, <1>13 DEF IsRangeDeleted, y, len

LEMMA RangeJoinsNext ==
    ASSUME NEW runs \in Seq(Runs), NEW i \in 1 .. Len(runs) - 1,
           NEW from \in Nat, 0 < from, from < RunLen(runs[i]), runs[i + 1].del,
           NEW new, IsPairMoved(new, runs, i, runs[i].start + from)
    PROVE  IsRangeDeleted(runs, i, from, RunLen(runs[i]), new, i + 1)
<1> DEFINE j == i + 1
           x == runs[i]
           y == runs[j]
           len == RunLen(x)
<1>1. /\ Len(runs) \in Nat /\ i + 1 = j /\ i + 2 = j + 1
      /\ i \in 1 .. Len(runs) /\ j \in 1 .. Len(runs) /\ x \in Runs
      /\ len \in Nat
  <2>1. /\ Len(runs) \in Nat /\ i + 1 = j /\ i + 2 = j + 1
        /\ i \in 1 .. Len(runs) /\ j \in 1 .. Len(runs)
    BY LenProperties
  <2>2. x \in Runs
    BY <2>1, ElementOfSeq
  <2>3. QED
    BY <2>1, <2>2, RunLength
<1> HIDE DEF j
<1>2. PICK e, f : /\ IsBoundaryMoved(x, runs[i + 1], e, f, x.start + from)
                  /\ IsPairReplaced(new, runs, i, e, f)
  BY DEF IsPairMoved
<1>3. IsBoundaryMoved(x, y, e, f, x.start + from) /\ y.del
  BY <1>1, <1>2 DEF j
<1> HIDE DEF x, y
<1>4. /\ RunMarks(e) = RunMarks(SubRun(x, 0, from))
      /\ RunMarks(f) = RunMarks(SubRun(x, from, len)) \cup RunMarks(y)
      /\ e.del = x.del /\ f.del = y.del
  BY <1>3, MovedOn DEF x
<1>5. RunMarks(x) = RunMarks(SubRun(x, 0, from)) \cup RunMarks(SubRun(x, from, len))
  BY <1>1, PartsOfRun DEF x
<1> HIDE DEF len
<1>6. /\ new \in Seq(Runs) /\ Len(new) = Len(runs)
      /\ new[i] = e /\ new[j] = f
      /\ MarksUpTo(new, i) = MarksUpTo(runs, i)
      /\ MarksFrom(new, j + 1) = MarksFrom(runs, j + 1)
      /\ IsPairDead(new, runs, x, y, e, f)
  <2>1. /\ new \in Seq(Runs) /\ Len(new) = Len(runs)
        /\ new[i] = e /\ new[i + 1] = f
        /\ MarksUpTo(new, i) = MarksUpTo(runs, i)
        /\ MarksFrom(new, i + 2) = MarksFrom(runs, i + 2)
        /\ IsPairDead(new, runs, runs[i], runs[i + 1], e, f)
    BY <1>1, <1>2, MarksOfPair DEF x
  <2>2. QED
    BY <2>1, <1>1 DEF x, y
<1>7. MarksFrom(runs, j) = RunMarks(y) \cup MarksFrom(runs, j + 1)
  BY <1>1, MarksBeside DEF y
<1>8. /\ MarksUpTo(new, j) = MarksUpTo(new, i) \cup RunMarks(e)
      /\ MarksFrom(new, j) = RunMarks(f) \cup MarksFrom(new, j + 1)
  <2>1. MarksUpTo(new, i + 1) = MarksUpTo(new, i) \cup RunMarks(new[i])
    BY <1>1, <1>6, MarksBeside
  <2>2. MarksFrom(new, j) = RunMarks(new[j]) \cup MarksFrom(new, j + 1)
    BY <1>1, <1>6, MarksBeside
  <2>3. QED
    BY <2>1, <2>2, <1>1, <1>6
<1>9. DeadMarks(new) = DeadMarks(runs) \cup RunMarks(SubRun(x, from, len))
  <2>1. PICK rest : /\ DeadMarks(runs) = rest \cup DeadOf(x) \cup DeadOf(y)
                    /\ DeadMarks(new) = rest \cup DeadOf(e) \cup DeadOf(f)
    BY <1>6 DEF IsPairDead
  <2>2. DeadOf(y) = RunMarks(y) /\ DeadOf(f) = RunMarks(f)
    BY <1>3, <1>4 DEF DeadOf
  <2>3. DeadOf(x) = (IF x.del THEN RunMarks(x) ELSE {})
        /\ DeadOf(e) = (IF x.del THEN RunMarks(e) ELSE {})
    BY <1>4 DEF DeadOf
  <2>4. QED
    BY <2>1, <2>2, <2>3, <1>4, <1>5
<1>10. j \in 1 .. Len(new) /\ Len(new) - j = Len(runs) - i - 1 /\ ~(len < len)
  BY <1>1, <1>6
<1>11. /\ MarksUpTo(new, j) \subseteq
             MarksUpTo(runs, i) \cup RunMarks(SubRun(x, 0, len))
       /\ MarksFrom(new, j) \subseteq
             RunMarks(SubRun(x, from, len)) \cup MarksFrom(runs, j)
       /\ MarksFrom(runs, j) \subseteq MarksFrom(new, j)
  <2>1. RunMarks(SubRun(x, 0, len)) = RunMarks(x)
    BY <1>1, WholeSubRun DEF len, x
  <2>2. QED
    BY <2>1, <1>4, <1>5, <1>6, <1>7, <1>8
<1>12. QED
  BY <1>4, <1>6, <1>9, <1>10, <1>11, <1>1 DEF IsRangeDeleted, x, len

(* However a range is deleted.                                             *)
LEMMA RangeIsDeleted ==
    ASSUME NEW runs \in Seq(Runs), NEW i \in 1 .. Len(runs),
           NEW from \in Nat, NEW to \in Nat, from < to, to <= RunLen(runs[i])
    PROVE  IsRangeDeleted(runs, i, from, to,
                          DeleteRangeInLeaf(runs, i, from, to),
                          LeafAfterDeleted(runs, i, from, to))
<1> DEFINE new == DeleteRangeInLeaf(runs, i, from, to)
           after == LeafAfterDeleted(runs, i, from, to)
<1>1. /\ Len(runs) \in Nat /\ runs[i] \in Runs /\ RunLen(runs[i]) \in Nat
  <2>1. runs[i] \in Runs
    BY ElementOfSeq
  <2>2. QED
    BY <2>1, LenProperties, RunLength
<1>2. CASE JoinsPrevious(runs, i, from, to)
  <2>1. from = 0 /\ to < RunLen(runs[i]) /\ i > 1 /\ 0 < to /\ i \in 2 .. Len(runs)
    BY <1>1, <1>2 DEF JoinsPrevious
  <2>2. CanAppend(runs[i - 1], SubRun(Tombstone(runs[i]), 0, to))
    BY <2>1, <1>1, <1>2, TombstoneAtStart DEF JoinsPrevious
  <2>3. new = WithPrevious(runs, i, to)
    BY <1>2 DEF DeleteRangeInLeaf, WithPrevious
  <2> HIDE DEF new
  <2>4. runs[i - 1].del /\ IsPairMoved(new, runs, i - 1, runs[i].start + to)
    BY <2>1, <2>2, <2>3, WithPreviousMoves
  <2>5. IsRangeDeleted(runs, i, from, to, new, i)
    <3>1. PICK j : j = i - 1
      OBVIOUS
    <3>2. j \in 1 .. Len(runs) - 1 /\ j + 1 = i
      BY <3>1, <2>1, <1>1
    <3>3. IsRangeDeleted(runs, j + 1, 0, to, new, j + 1)
      BY <3>1, <3>2, <2>1, <2>4, RangeJoinsPrevious
    <3>4. QED
      BY <3>2, <3>3, <2>1
  <2>6. i \in Nat /\ Len(new) \in Nat /\ i <= Len(new)
    BY <2>5, LenProperties DEF IsRangeDeleted
  <2>7. after = i
    BY <2>6, <1>2 DEF LeafAfterDeleted, new
  <2>8. QED
    BY <2>5, <2>7 DEF new
<1>3. CASE ~JoinsPrevious(runs, i, from, to) /\ JoinsNext(runs, i, from, to)
  <2>1. /\ to = RunLen(runs[i]) /\ i < Len(runs) /\ 0 < from
        /\ from < RunLen(runs[i]) /\ i \in 1 .. Len(runs) - 1
    BY <1>1, <1>3 DEF JoinsNext
  <2>2. CanPrepend(runs[i + 1],
                   SubRun(Tombstone(runs[i]), from, RunLen(runs[i])))
    BY <2>1, <1>1, <1>3, TombstoneAtEnd DEF JoinsNext
  <2>3. new = WithNext(runs, i, from)
    BY <1>3 DEF DeleteRangeInLeaf, WithNext
  <2> HIDE DEF new
  <2>4. runs[i + 1].del /\ IsPairMoved(new, runs, i, runs[i].start + from)
    BY <2>1, <2>2, <2>3, WithNextMoves
  <2>5. IsRangeDeleted(runs, i, from, to, new, i + 1)
    BY <2>1, <2>4, RangeJoinsNext
  <2>6. i + 1 \in Nat /\ Len(new) \in Nat /\ i + 1 <= Len(new)
    BY <2>5, LenProperties DEF IsRangeDeleted
  <2>7. after = i + 1
    BY <2>6, <1>3 DEF LeafAfterDeleted, new
  <2>8. QED
    BY <2>5, <2>7 DEF new
<1>4. CASE ~JoinsPrevious(runs, i, from, to) /\ ~JoinsNext(runs, i, from, to)
  <2>1. new = Splice(runs, i, DeleteRange(runs[i], from, to))
    BY <1>4 DEF DeleteRangeInLeaf
  <2>2. PICK next : next = IF from = 0 THEN i + 1 ELSE i + 2
    OBVIOUS
  <2>3. after = IF next > Len(new) THEN Len(new) ELSE next
    BY <2>2, <1>4 DEF LeafAfterDeleted
  <2> HIDE DEF new, after
  <2>4. IsRangeDeleted(runs, i, from, to, new, after)
    BY <2>1, <2>2, <2>3, RangeCutOut
  <2>5. QED
    BY <2>4 DEF new, after
<1>5. QED
  BY <1>2, <1>3, <1>4

------------------------------------------------------------------------------
(* What a visit of merge_deletion does to the document.                    *)
WalkDeletes(x, w, from, to) ==
    /\ IsWalk(x)
    /\ x.runs = DeleteRangeInLeaf(w.runs, w.i, from, to)
    /\ x.i = LeafAfterDeleted(w.runs, w.i, from, to)
    /\ x.done = w.done
    /\ x.sound => w.sound /\ from < to /\ ~w.runs[w.i].del

LEMMA RecordOfWalk ==
    ASSUME NEW runs, NEW i, NEW state, NEW from, NEW leaf, NEW visible,
           NEW ranges, NEW done, NEW sound,
           NEW v, v = [runs |-> runs, i |-> i, state |-> state, from |-> from,
                       leaf_offset |-> leaf, visible_offset |-> visible,
                       ranges |-> ranges, done |-> done, sound |-> sound]
    PROVE  v.runs = runs /\ v.i = i /\ v.done = done /\ v.sound = sound
OBVIOUS

LEMMA WalkDeletesRange ==
    ASSUME NEW w, IsWalk(w), NEW from, NEW to
    PROVE  WalkDeletes(DeleteLeafRange(w, from, to), w, from, to)
<1> DEFINE v == DeleteLeafRange(w, from, to)
           runs == DeleteRangeInLeaf(w.runs, w.i, from, to)
           i == LeafAfterDeleted(w.runs, w.i, from, to)
           sound == /\ w.sound
                    /\ w.leaf_offset = OffsetOfLeaf(w.runs, w.i)
                    /\ from < to /\ ~w.runs[w.i].del
<1>1. v = [w EXCEPT !.runs = runs, !.i = i, !.sound = sound]
  BY DEF DeleteLeafRange
<1>2. sound => w.sound /\ from < to /\ ~w.runs[w.i].del
  OBVIOUS
<1> HIDE DEF runs, i, sound, v
<1>3. v = [runs |-> runs, i |-> i, state |-> w.state, from |-> w.from,
           leaf_offset |-> w.leaf_offset,
           visible_offset |-> w.visible_offset,
           ranges |-> w.ranges, done |-> w.done, sound |-> sound]
  BY <1>1 DEF IsWalk
<1>4. IsWalk(v) /\ v.runs = runs /\ v.i = i /\ v.sound = sound
  BY <1>3, RecordIsWalk
<1>5. v.done = w.done
  BY <1>3
<1>6. WalkDeletes(v, w, from, to)
  BY <1>2, <1>4, <1>5 DEF WalkDeletes, runs, i
<1>7. QED
  BY <1>6 DEF v

(* The visit of a leaf that is not the last one.                           *)
VisitsInnerLeaf(w, v, d) ==
    LET run == w.runs[w.i]
        known == KnownTo(d, run)
    IN  /\ v.done = w.done
        /\ \/ /\ run.del
              /\ v.runs = w.runs /\ v.i = w.i + 1
           \/ /\ run.end <= known
              /\ v.runs = [w.runs EXCEPT ![w.i].del = TRUE] /\ v.i = w.i + 1
           \/ /\ run.start >= known
              /\ v.runs = w.runs /\ v.i = w.i + 1
           \/ /\ ~(run.end <= known) /\ ~(run.start >= known)
              /\ v.runs = DeleteRangeInLeaf(w.runs, w.i, 0, known - run.start)
              /\ v.i = LeafAfterDeleted(w.runs, w.i, 0, known - run.start)

(* The visit of the last leaf.                                             *)
VisitsLastLeaf(w, v, d) ==
    LET run == w.runs[w.i]
        up_to == d.end.offset - run.start
    IN  /\ v.done
        /\ \/ run.del /\ v.runs = w.runs
           \/ /\ ~run.del /\ 0 < up_to
              /\ v.runs = DeleteRangeInLeaf(w.runs, w.i, 0, up_to)

(* The visit of the first leaf.                                            *)
VisitsFirstLeaf(runs, v, d) ==
    LET i == IdxAtAnchor(runs, d.start, "right")
        run == runs[i]
        known == KnownTo(d, run)
        from == d.start.offset - run.start
        up_to == IF run.end > known THEN known - run.start ELSE RunLen(run)
    IN  /\ v.done = FALSE
        /\ \/ run.del /\ v.runs = runs /\ v.i = i + 1
           \/ /\ from < up_to
              /\ v.runs = DeleteRangeInLeaf(runs, i, from, up_to)
              /\ v.i = LeafAfterDeleted(runs, i, from, up_to)

LEMMA VisitOfFirstLeaf ==
    ASSUME NEW runs, NEW d, NEW v, v = VisitFirstLeaf(runs, d)
    PROVE  v.sound => VisitsFirstLeaf(runs, v, d)
<1> DEFINE i == IdxAtAnchor(runs, d.start, "right")
           run == runs[i]
           offset == OffsetOfLeaf(runs, i)
           known == KnownTo(d, run)
           from == d.start.offset - run.start
           up_to == IF run.end > known THEN known - run.start ELSE RunLen(run)
           walk == [runs |-> runs, i |-> i, state |-> "starting",
                    from |-> offset, leaf_offset |-> offset,
                    visible_offset |-> offset, ranges |-> <<>>,
                    done |-> FALSE, sound |-> TRUE]
           a == IF run.end > known
                THEN AddRange(walk, offset + from, offset + up_to) ELSE <<>>
           b == IF run.end > known THEN "skipping" ELSE "deleting"
           c == offset + from
           e == offset + up_to
           w == DeleteLeafRange(walk, from, up_to)
<1>1. v = IF run.del THEN [walk EXCEPT !.i = i + 1]
          ELSE [w EXCEPT !.ranges = a, !.state = b, !.from = c,
                         !.leaf_offset = c, !.visible_offset = e]
  BY DEF VisitFirstLeaf
<1>2. /\ IsWalk(walk) /\ walk.runs = runs /\ walk.i = i /\ walk.done = FALSE
  BY DEF IsWalk
<1>3. CASE run.del
  <2>1. v = [walk EXCEPT !.i = i + 1]
    BY <1>1, <1>3
  <2>2. v = [runs |-> runs, i |-> i + 1, state |-> "starting",
             from |-> offset, leaf_offset |-> offset,
             visible_offset |-> offset, ranges |-> <<>>,
             done |-> FALSE, sound |-> TRUE]
    BY <2>1
  <2>3. v.done = FALSE /\ v.runs = runs /\ v.i = i + 1
    BY <2>2
  <2>4. QED
    BY <2>3, <1>3 DEF VisitsFirstLeaf
<1>4. CASE ~run.del
  <2>1. v = [w EXCEPT !.ranges = a, !.state = b, !.from = c,
                      !.leaf_offset = c, !.visible_offset = e]
    BY <1>1, <1>4
  <2> HIDE DEF a, b, c, e, walk
  <2>2. WalkDeletes(w, walk, from, up_to)
    BY <1>2, WalkDeletesRange
  <2> HIDE DEF w
  <2>3. v = [runs |-> w.runs, i |-> w.i, state |-> b, from |-> c,
             leaf_offset |-> c, visible_offset |-> e, ranges |-> a,
             done |-> w.done, sound |-> w.sound]
    BY <2>1, <2>2 DEF WalkDeletes, IsWalk
  <2>4. v.runs = w.runs /\ v.i = w.i /\ v.done = w.done /\ v.sound = w.sound
    BY <2>3, RecordOfWalk
  <2>5. v.sound => from < up_to
    BY <2>2, <2>4 DEF WalkDeletes
  <2>6. /\ v.done = FALSE
        /\ v.runs = DeleteRangeInLeaf(runs, i, from, up_to)
        /\ v.i = LeafAfterDeleted(runs, i, from, up_to)
    BY <2>2, <2>4, <1>2 DEF WalkDeletes
  <2> HIDE DEF i, run, from, up_to
  <2>7. v.sound => VisitsFirstLeaf(runs, v, d)
    BY <2>5, <2>6 DEF VisitsFirstLeaf, i, run, known, from, up_to
  <2>8. QED
    BY <2>7
<1>5. QED
  BY <1>3, <1>4

LEMMA VisitOfLastLeaf ==
    ASSUME NEW w, IsWalk(w), NEW d, NEW v, v = VisitLastLeaf(w, d)
    PROVE  v.sound => w.sound /\ VisitsLastLeaf(w, v, d)
<1> DEFINE run == w.runs[w.i]
           up_to == d.end.offset - run.start
           a == AddRange(w, DeletingFrom(w), w.visible_offset + up_to)
           b == EndRange(w)
           x == DeleteLeafRange(w, 0, up_to)
<1>1. v = IF run.del THEN [w EXCEPT !.ranges = b, !.done = TRUE]
          ELSE [x EXCEPT !.ranges = a, !.done = TRUE]
  BY DEF VisitLastLeaf
<1> HIDE DEF a, b
<1>2. CASE run.del
  <2>1. v = [w EXCEPT !.ranges = b, !.done = TRUE]
    BY <1>1, <1>2
  <2>2. v = [runs |-> w.runs, i |-> w.i, state |-> w.state, from |-> w.from,
             leaf_offset |-> w.leaf_offset,
             visible_offset |-> w.visible_offset,
             ranges |-> b, done |-> TRUE, sound |-> w.sound]
    BY <2>1 DEF IsWalk
  <2>3. v.runs = w.runs /\ v.done = TRUE /\ v.sound = w.sound
    BY <2>2, RecordOfWalk
  <2>4. QED
    BY <2>3, <1>2 DEF VisitsLastLeaf
<1>3. CASE ~run.del
  <2>1. v = [x EXCEPT !.ranges = a, !.done = TRUE]
    BY <1>1, <1>3
  <2>2. WalkDeletes(x, w, 0, up_to)
    BY WalkDeletesRange
  <2> HIDE DEF x, run
  <2>3. v = [runs |-> x.runs, i |-> x.i, state |-> x.state, from |-> x.from,
             leaf_offset |-> x.leaf_offset,
             visible_offset |-> x.visible_offset,
             ranges |-> a, done |-> TRUE, sound |-> x.sound]
    BY <2>1, <2>2 DEF WalkDeletes, IsWalk
  <2>4. v.runs = x.runs /\ v.done = TRUE /\ v.sound = x.sound
    BY <2>3, RecordOfWalk
  <2>5. /\ v.sound => w.sound /\ 0 < up_to
        /\ v.runs = DeleteRangeInLeaf(w.runs, w.i, 0, up_to)
    BY <2>2, <2>4 DEF WalkDeletes
  <2>6. QED
    BY <2>4, <2>5, <1>3 DEF VisitsLastLeaf, run
<1>4. QED
  BY <1>2, <1>3

LEMMA VisitOfLeaf ==
    ASSUME NEW w, IsWalk(w), NEW d, NEW v, v = VisitLeaf(w, d)
    PROVE  v.sound =>
             /\ w.sound /\ ~(w.i > Len(w.runs))
             /\ IF w.i = IdxAtAnchor(w.runs, d.end, "left")
                THEN VisitsLastLeaf(w, v, d) ELSE VisitsInnerLeaf(w, v, d)
<1> DEFINE run == w.runs[w.i]
           known == KnownTo(d, run)
           up_to == known - run.start
           last == IdxAtAnchor(w.runs, d.end, "left")
           x == DeleteLeafRange(w, 0, up_to)
           v1 == [w EXCEPT !.sound = FALSE, !.done = TRUE]
           v3 == [w EXCEPT !.i = w.i + 1]
           v4 == [w EXCEPT !.runs = [w.runs EXCEPT ![w.i].del = TRUE],
                           !.i = w.i + 1, !.from = DeletingFrom(w),
                           !.state = "deleting",
                           !.visible_offset = w.visible_offset + RunLen(run)]
           v5 == [w EXCEPT !.i = w.i + 1, !.ranges = EndRange(w),
                           !.state = "skipping",
                           !.leaf_offset = w.leaf_offset + RunLen(run),
                           !.visible_offset = w.visible_offset + RunLen(run)]
           v6 == [x EXCEPT !.ranges = AddRange(w, DeletingFrom(w),
                                               w.visible_offset + up_to),
                           !.state = "skipping",
                           !.visible_offset = x.visible_offset + up_to]
<1>1. v = IF w.i > Len(w.runs) THEN v1
          ELSE IF w.i = last THEN VisitLastLeaf(w, d)
          ELSE IF run.del THEN v3
          ELSE IF run.end <= known THEN v4
          ELSE IF run.start >= known THEN v5 ELSE v6
  BY DEF VisitLeaf
<1>2. v1.sound = FALSE
  <2>1. v1 = [w EXCEPT !.sound = FALSE, !.done = TRUE]
    OBVIOUS
  <2> HIDE DEF v1
  <2>2. v1 = [runs |-> w.runs, i |-> w.i, state |-> w.state, from |-> w.from,
              leaf_offset |-> w.leaf_offset,
              visible_offset |-> w.visible_offset,
              ranges |-> w.ranges, done |-> TRUE, sound |-> FALSE]
    BY <2>1 DEF IsWalk
  <2>3. QED
    BY <2>2, RecordOfWalk
<1>3. /\ v3.runs = w.runs /\ v3.i = w.i + 1 /\ v3.done = w.done
      /\ v3.sound = w.sound
  <2> DEFINE i == w.i + 1
  <2>1. v3 = [w EXCEPT !.i = i]
    OBVIOUS
  <2> HIDE DEF v3, i
  <2>2. v3 = [runs |-> w.runs, i |-> i, state |-> w.state, from |-> w.from,
              leaf_offset |-> w.leaf_offset,
              visible_offset |-> w.visible_offset,
              ranges |-> w.ranges, done |-> w.done, sound |-> w.sound]
    BY <2>1 DEF IsWalk
  <2>3. /\ v3.runs = w.runs /\ v3.i = i /\ v3.done = w.done
        /\ v3.sound = w.sound
    BY <2>2, RecordOfWalk
  <2>4. QED
    BY <2>3 DEF i
<1>4. /\ v4.runs = [w.runs EXCEPT ![w.i].del = TRUE] /\ v4.i = w.i + 1
      /\ v4.done = w.done /\ v4.sound = w.sound
  <2> DEFINE runs == [w.runs EXCEPT ![w.i].del = TRUE]
             from == DeletingFrom(w)
             visible == w.visible_offset + RunLen(run)
             i == w.i + 1
  <2>1. v4 = [w EXCEPT !.runs = runs, !.i = i, !.from = from,
                       !.state = "deleting", !.visible_offset = visible]
    OBVIOUS
  <2> HIDE DEF v4, runs, from, visible, i
  <2>2. v4 = [runs |-> runs, i |-> i, state |-> "deleting", from |-> from,
              leaf_offset |-> w.leaf_offset, visible_offset |-> visible,
              ranges |-> w.ranges, done |-> w.done, sound |-> w.sound]
    BY <2>1 DEF IsWalk
  <2>3. /\ v4.runs = runs /\ v4.i = i /\ v4.done = w.done
        /\ v4.sound = w.sound
    BY <2>2, RecordOfWalk
  <2>4. QED
    BY <2>3 DEF i, runs
<1>5. /\ v5.runs = w.runs /\ v5.i = w.i + 1 /\ v5.done = w.done
      /\ v5.sound = w.sound
  <2> DEFINE leaf == w.leaf_offset + RunLen(run)
             visible == w.visible_offset + RunLen(run)
             ranges == EndRange(w)
             i == w.i + 1
  <2>1. v5 = [w EXCEPT !.i = i, !.ranges = ranges, !.state = "skipping",
                       !.leaf_offset = leaf, !.visible_offset = visible]
    OBVIOUS
  <2> HIDE DEF v5, leaf, visible, ranges, i
  <2>2. v5 = [runs |-> w.runs, i |-> i, state |-> "skipping", from |-> w.from,
              leaf_offset |-> leaf, visible_offset |-> visible,
              ranges |-> ranges, done |-> w.done, sound |-> w.sound]
    BY <2>1 DEF IsWalk
  <2>3. /\ v5.runs = w.runs /\ v5.i = i /\ v5.done = w.done
        /\ v5.sound = w.sound
    BY <2>2, RecordOfWalk
  <2>4. QED
    BY <2>3 DEF i
<1>6. /\ v6.runs = DeleteRangeInLeaf(w.runs, w.i, 0, up_to)
      /\ v6.i = LeafAfterDeleted(w.runs, w.i, 0, up_to)
      /\ v6.done = w.done /\ (v6.sound => w.sound)
  <2> DEFINE ranges == AddRange(w, DeletingFrom(w), w.visible_offset + up_to)
             visible == x.visible_offset + up_to
             state == "skipping"
  <2>1. v6 = [x EXCEPT !.ranges = ranges, !.state = state,
                       !.visible_offset = visible]
    OBVIOUS
  <2>2. WalkDeletes(x, w, 0, up_to)
    BY WalkDeletesRange
  <2> HIDE DEF up_to, v6, ranges, visible, state, x
  <2>3. v6 = [runs |-> x.runs, i |-> x.i, state |-> state, from |-> x.from,
              leaf_offset |-> x.leaf_offset, visible_offset |-> visible,
              ranges |-> ranges, done |-> x.done, sound |-> x.sound]
    BY <2>1, <2>2 DEF WalkDeletes, IsWalk
  <2>4. /\ v6.runs = x.runs /\ v6.i = x.i /\ v6.done = x.done
        /\ v6.sound = x.sound
    BY <2>3, RecordOfWalk
  <2>5. QED
    BY <2>2, <2>4 DEF WalkDeletes
<1> HIDE DEF v1, v3, v4, v5, v6, last
<1>7. ASSUME ~(w.i > Len(w.runs)), w.i = last
      PROVE  v.sound => w.sound /\ VisitsLastLeaf(w, v, d)
  <2>1. v = VisitLastLeaf(w, d)
    BY <1>1, <1>7
  <2>2. QED
    BY <2>1, VisitOfLastLeaf
<1>8. ASSUME ~(w.i > Len(w.runs)), w.i # last
      PROVE  v.sound => w.sound /\ VisitsInnerLeaf(w, v, d)
  <2> HIDE DEF run, known
  <2>1. CASE run.del
    <3>1. v = v3
      BY <1>1, <1>8, <2>1
    <3>2. QED
      BY <3>1, <1>3, <2>1 DEF VisitsInnerLeaf, run
  <2>2. CASE ~run.del /\ run.end <= known
    <3>1. v = v4
      BY <1>1, <1>8, <2>2
    <3>2. QED
      BY <3>1, <1>4, <2>2 DEF VisitsInnerLeaf, run, known
  <2>3. CASE ~run.del /\ ~(run.end <= known) /\ run.start >= known
    <3>1. v = v5
      BY <1>1, <1>8, <2>3
    <3>2. QED
      BY <3>1, <1>5, <2>3 DEF VisitsInnerLeaf, run, known
  <2>4. CASE ~run.del /\ ~(run.end <= known) /\ ~(run.start >= known)
    <3>1. v = v6
      BY <1>1, <1>8, <2>4
    <3>2. QED
      BY <3>1, <1>6, <2>4 DEF VisitsInnerLeaf, run, known
  <2>5. QED
    BY <2>1, <2>2, <2>3, <2>4
<1>9. w.i > Len(w.runs) => ~v.sound
  BY <1>1, <1>2
<1>10. QED
  BY <1>7, <1>8, <1>9 DEF last

------------------------------------------------------------------------------
(* A deletion in a document: its two characters, and all between them that *)
(* its sender had.                                                         *)
MarksHaveOnePlace(marks) ==
    \A c, e \in marks : c.id = e.id /\ c.at = e.at => c = e

IsDeletionIn(order, marks, d, s, e) ==
    /\ d.version_map \in [ReplicaIds -> Nat]
    /\ d.start.offset \in Nat /\ d.end.offset \in Nat
    /\ s \in marks /\ AnchoredAt(d.start, "right", s)
    /\ e \in marks /\ AnchoredAt(d.end, "left", e)
    /\ s = e \/ <<s, e>> \in order
    /\ IsKnownTo(d, e)
    /\ IsStrictOrder(order, marks)
    /\ MarksHaveOnePlace(marks)

MarksWithin(order, marks, d, s, e) ==
    {c \in marks : IsWithin(order, s, e, c) /\ IsKnownTo(d, c)}

IsFrom(order, s, c) == c = s \/ <<s, c>> \in order

(* The marks of a leaf L, with X before it and Y after it.                 *)
IsLeafApart(order, X, L, Y) ==
    \A c \in L :
        /\ c.at \in Nat
        /\ \A x \in X : <<x, c>> \in order
        /\ \A y \in Y : <<c, y>> \in order
        /\ \A e \in L : /\ e.id = c.id
                        /\ e.at < c.at => <<e, c>> \in order
                        /\ e.at = c.at => e = c

LEMMA LeafIsApart ==
    ASSUME NEW order, KeepsRuns(order), NEW runs, WellFormed(order, runs),
           NEW i \in 1 .. Len(runs)
    PROVE  IsLeafApart(order, MarksUpTo(runs, i), RunMarks(runs[i]),
                       MarksFrom(runs, i + 1))
<1>1. ASSUME NEW c \in RunMarks(runs[i])
      PROVE  /\ c.at \in Nat
             /\ \A x \in MarksUpTo(runs, i) : <<x, c>> \in order
             /\ \A y \in MarksFrom(runs, i + 1) : <<c, y>> \in order
             /\ \A e \in RunMarks(runs[i]) :
                   /\ e.id = c.id
                   /\ e.at < c.at => <<e, c>> \in order
                   /\ e.at = c.at => e = c
  <2>1. /\ c \in Mark /\ Covers(runs[i], c)
        /\ \A x \in MarksUpTo(runs, i) : <<x, c>> \in order
        /\ \A y \in MarksFrom(runs, i + 1) : <<c, y>> \in order
        /\ \A e \in RunMarks(runs[i]) :
              /\ e \in Mark /\ Covers(runs[i], e)
              /\ e.at < c.at => <<e, c>> \in order
    BY MarksInOrder
  <2>2. \A e \in Mark : Covers(runs[i], e) /\ e.at = c.at => e = c /\ e.id = c.id
    BY <2>1 DEF Mark, Covers
  <2>3. \A e \in RunMarks(runs[i]) : e.id = c.id
    BY <2>1 DEF Covers
  <2>4. c.at \in Nat
    BY <2>1 DEF Mark
  <2>5. QED
    BY <2>1, <2>2, <2>3, <2>4
<1>2. QED
  BY <1>1 DEF IsLeafApart

(* What is outside of the range.                                           *)
LEMMA OutsideOfRange ==
    ASSUME NEW order, NEW marks, NEW d, NEW s, NEW e,
           IsDeletionIn(order, marks, d, s, e), NEW c \in marks,
           <<c, s>> \in order \/ <<e, c>> \in order
    PROVE  c \notin MarksWithin(order, marks, d, s, e)
BY DEF IsDeletionIn, MarksWithin, IsWithin, IsStrictOrder

(* An anchor's leaf holds its character.                                   *)
LEMMA LeafOfMark ==
    ASSUME NEW order, NEW runs, WellFormed(order, runs),
           MarksHaveOnePlace(DocumentMarks(runs)),
           NEW anchor, anchor.offset \in Nat, NEW bias \in {"left", "right"},
           NEW c \in DocumentMarks(runs), AnchoredAt(anchor, bias, c)
    PROVE  /\ IdxAtAnchor(runs, anchor, bias) \in 1 .. Len(runs)
           /\ c \in RunMarks(runs[IdxAtAnchor(runs, anchor, bias)])
<1> DEFINE i == IdxAtAnchor(runs, anchor, bias)
<1>1. runs \in Seq(Runs)
  BY DEF WellFormed
<1>2. HasLeafAt(runs, anchor, bias)
  BY <1>1, HasLeafIffMark
<1>3. /\ i \in 1 .. Len(runs) /\ runs[i] \in Runs
      /\ runs[i].id = anchor.id /\ runs[i].ts = anchor.ts
      /\ \/ /\ bias = "left"
            /\ runs[i].start < anchor.offset /\ anchor.offset <= runs[i].end
         \/ /\ bias = "right"
            /\ runs[i].start <= anchor.offset /\ anchor.offset < runs[i].end
  BY <1>1, <1>2, LeafAtAnchor
<1> HIDE DEF i
<1>4. c \in Mark
  BY <1>1, MarksAreMarks
<1>5. c.at \in Nat /\ c.id = anchor.id
      /\ c.at = IF bias = "left" THEN anchor.offset - 1 ELSE anchor.offset
  BY <1>4 DEF Mark, AnchoredAt
<1>6. /\ runs[i].start \in Nat /\ runs[i].end \in Nat
  BY <1>3 DEF Runs, RunType
<1> DEFINE x == [id |-> runs[i].id, at |-> c.at, ts |-> runs[i].ts,
                 lam |-> runs[i].lam]
<1>7. c.at \in runs[i].start .. runs[i].end - 1
  BY <1>3, <1>5, <1>6, SMTT(30)
<1>8. x \in RunMarks(runs[i])
  BY <1>7 DEF RunMarks
<1>9. x \in DocumentMarks(runs)
  BY <1>3, <1>8, <1>1, LenProperties DEF DocumentMarks
<1>10. x.id = c.id /\ x.at = c.at
  BY <1>3, <1>5
<1> HIDE DEF x
<1>11. x = c
  BY <1>9, <1>10 DEF MarksHaveOnePlace
<1>12. QED
  BY <1>3, <1>8, <1>11 DEF i

(* Where merge_deletion stands: before its leaf all is deleted that is to  *)
(* be deleted, from it on all is behind the deletion's start, and the end  *)
(* is still to come.                                                       *)
IsAtLeaf(order, runs, i, R, s, e) ==
    /\ i \in 1 .. Len(runs)
    /\ R \cap MarksUpTo(runs, i) \subseteq DeadMarks(runs)
    /\ \A c \in MarksFrom(runs, i) : IsFrom(order, s, c)
    /\ e \in MarksFrom(runs, i)

DeletesOnly(runs, dead, R) ==
    dead \subseteq DeadMarks(runs) /\ DeadMarks(runs) \subseteq dead \cup R

HasDeleted(order, runs, i, done, dead, R, s, e) ==
    /\ DeletesOnly(runs, dead, R)
    /\ IF done THEN R \subseteq DeadMarks(runs)
       ELSE IsAtLeaf(order, runs, i, R, s, e)

(* How many visits there can still be: a leaf is visited twice only if     *)
(* the deletion's sender had the first part of it.                         *)
VisitsLeft(runs, i, d) ==
    2 * (Len(runs) - i)
      + IF KnownTo(d, runs[i]) <= runs[i].start THEN 0 ELSE 1

(* A leaf that is as it should be is passed over.                          *)
LEMMA LeafPassed ==
    ASSUME NEW order, NEW runs \in Seq(Runs), NEW i,
           NEW R, NEW s, NEW e, IsAtLeaf(order, runs, i, R, s, e),
           NEW new \in Seq(Runs), Len(new) = Len(runs),
           MarksUpTo(new, i + 1) = MarksUpTo(runs, i + 1),
           MarksFrom(new, i + 1) = MarksFrom(runs, i + 1),
           DeadMarks(runs) \subseteq DeadMarks(new),
           R \cap RunMarks(runs[i]) \subseteq DeadMarks(new),
           e \notin RunMarks(runs[i])
    PROVE  i < Len(runs) /\ IsAtLeaf(order, new, i + 1, R, s, e)
<1>1. /\ i \in 1 .. Len(runs) /\ Len(runs) \in Nat
      /\ R \cap MarksUpTo(runs, i) \subseteq DeadMarks(runs)
      /\ \A c \in MarksFrom(runs, i) : IsFrom(order, s, c)
      /\ e \in MarksFrom(runs, i)
  BY LenProperties DEF IsAtLeaf
<1>2. /\ MarksUpTo(runs, i + 1) = MarksUpTo(runs, i) \cup RunMarks(runs[i])
      /\ MarksFrom(runs, i) = RunMarks(runs[i]) \cup MarksFrom(runs, i + 1)
  BY <1>1, MarksBeside
<1>3. e \in MarksFrom(runs, i + 1)
  BY <1>1, <1>2
<1>4. i < Len(runs)
  <2>1. i + 1 \in 1 .. Len(runs) + 1
    BY <1>1
  <2>2. PICK k \in i + 1 .. Len(runs) : e \in RunMarks(runs[k])
    BY <1>3, <2>1, MarksAround
  <2>3. QED
    BY <1>1, <2>2
<1>5. i + 1 \in 1 .. Len(new)
  BY <1>1, <1>4
<1>6. R \cap MarksUpTo(new, i + 1) \subseteq DeadMarks(new)
  BY <1>1, <1>2
<1>7. \A c \in MarksFrom(new, i + 1) : IsFrom(order, s, c)
  BY <1>1, <1>2
<1>8. QED
  BY <1>3, <1>4, <1>5, <1>6, <1>7 DEF IsAtLeaf

LEMMA FewerVisits ==
    ASSUME NEW d, d.version_map \in [ReplicaIds -> Nat],
           NEW runs \in Seq(Runs), NEW new \in Seq(Runs),
           NEW i \in 1 .. Len(runs) - 1, NEW j \in 1 .. Len(new),
           Len(new) - j = Len(runs) - i - 1
    PROVE  VisitsLeft(new, j, d) < VisitsLeft(runs, i, d)
           /\ VisitsLeft(new, j, d) \in Nat
<1>1. Len(runs) \in Nat /\ Len(new) \in Nat /\ j \in Nat /\ i \in Nat
      /\ j <= Len(new) /\ i < Len(runs)
  BY LenProperties
<1>2. PICK a : a = IF KnownTo(d, runs[i]) <= runs[i].start THEN 0 ELSE 1
  OBVIOUS
<1>3. PICK b : b = IF KnownTo(d, new[j]) <= new[j].start THEN 0 ELSE 1
  OBVIOUS
<1>4. a \in {0, 1} /\ b \in {0, 1}
  BY <1>2, <1>3
<1>5. /\ VisitsLeft(new, j, d) = 2 * (Len(new) - j) + b
      /\ VisitsLeft(runs, i, d) = 2 * (Len(runs) - i) + a
  BY <1>2, <1>3 DEF VisitsLeft
<1>6. QED
  BY <1>1, <1>4, <1>5, SMTT(30)

(* A leaf the sender had as a whole is deleted as a whole.                 *)
LEMMA WholeLeafDeleted ==
    ASSUME NEW order, KeepsRuns(order), NEW runs, WellFormed(order, runs),
           NEW i \in 1 .. Len(runs)
    PROVE  LET new == [runs EXCEPT ![i].del = TRUE]
           IN  /\ new \in Seq(Runs) /\ Len(new) = Len(runs)
               /\ DeadMarks(new) = DeadMarks(runs) \cup RunMarks(runs[i])
               /\ MarksUpTo(new, i + 1) = MarksUpTo(runs, i + 1)
               /\ MarksFrom(new, i + 1) = MarksFrom(runs, i + 1)
<1> DEFINE e == Tombstone(runs[i])
           new == [runs EXCEPT ![i].del = TRUE]
<1>1. /\ runs \in Seq(Runs) /\ runs[i] \in Runs /\ Len(runs) \in Nat
      /\ i \in 1 .. Len(runs) + 1 /\ i + 1 \in 1 .. Len(runs) + 1
  BY ElementOfSeq, LenProperties DEF WellFormed
<1>2. e \in Runs /\ RunMarks(e) = RunMarks(runs[i])
  BY <1>1, TombstoneOfRun
<1>3. new = [runs EXCEPT ![i] = e]
  BY DEF Tombstone
<1>4. e.del
  BY <1>1 DEF Tombstone, Runs, RunType
<1> HIDE DEF e, new
<1>5. new = Splice(runs, i, <<e>>)
  <2>1. [runs EXCEPT ![i] = e] = Splice(runs, i, <<e>>)
    BY <1>1, <1>2, ExceptIsSplice
  <2>2. QED
    BY <2>1, <1>3
<1>6. /\ new \in Seq(Runs) /\ Len(new) = Len(runs)
      /\ \A k \in 1 .. Len(runs) : new[k] = IF k = i THEN e ELSE runs[k]
  BY <1>1, <1>2, <1>3, ExceptSeq, LenProperties
<1>7. DeadMarks(new) = DeadMarks(runs) \cup RunMarks(runs[i])
  <2>1. PICK Q : Q = <<e>>
    OBVIOUS
  <2>2. Q \in Seq(Runs)
    BY <2>1, <1>2
  <2>3. DeadMarks(Q) = RunMarks(runs[i])
    BY <2>1, <1>2, <1>4, DeadOfOne DEF DeadOf
  <2>4. DeadMarks(Q) = DeadOf(runs[i]) \cup RunMarks(runs[i])
    BY <2>3 DEF DeadOf
  <2>5. QED
    BY <1>1, <1>5, <2>1, <2>2, <2>4, DeadOfSplice, SMTT(30)
<1>8. MarksUpTo(new, i) = MarksUpTo(runs, i)
  <2>1. \A k \in 1 .. i - 1 : new[k] = runs[k]
    BY <1>1, <1>6
  <2>2. QED
    BY <2>1, <1>1, <1>6, SameMarksUpTo
<1>9. MarksUpTo(new, i + 1) = MarksUpTo(runs, i + 1)
  <2>1. /\ MarksUpTo(runs, i + 1) = MarksUpTo(runs, i) \cup RunMarks(runs[i])
        /\ MarksUpTo(new, i + 1) = MarksUpTo(new, i) \cup RunMarks(new[i])
    BY <1>1, <1>6, MarksBeside
  <2>2. QED
    BY <2>1, <1>2, <1>6, <1>8
<1>10. MarksFrom(new, i + 1) = MarksFrom(runs, i + 1)
  <2>1. \A k \in i + 1 .. Len(runs) : new[k] = runs[k]
    BY <1>1, <1>6
  <2>2. QED
    BY <2>1, <1>1, <1>6, SameMarksFrom
<1>11. QED
  BY <1>6, <1>7, <1>9, <1>10 DEF new

LEMMA MarkHasOneLeaf ==
    ASSUME NEW order, NEW runs, WellFormed(order, runs),
           IsStrictOrder(order, DocumentMarks(runs)),
           NEW i \in 1 .. Len(runs), NEW j \in 1 .. Len(runs), i # j,
           NEW c \in RunMarks(runs[j])
    PROVE  c \notin RunMarks(runs[i])
<1>1. runs \in Seq(Runs) /\ DOMAIN runs = 1 .. Len(runs) /\ Len(runs) \in Nat
      /\ RunsAreOrdered(order, runs)
  BY LenProperties DEF WellFormed
<1>2. SUFFICES ASSUME c \in RunMarks(runs[i]) PROVE FALSE
  OBVIOUS
<1>3. i < j \/ j < i
  OBVIOUS
<1>4. <<c, c>> \in order
  BY <1>1, <1>2, <1>3 DEF RunsAreOrdered, MarksBefore
<1>5. c \in DocumentMarks(runs)
  BY <1>1, <1>2 DEF DocumentMarks
<1>6. QED
  BY <1>4, <1>5 DEF IsStrictOrder

(* Of a leaf between the deletion's characters all is in the range that    *)
(* the sender had.                                                         *)
LEMMA LeafBetween ==
    ASSUME NEW order, KeepsRuns(order), NEW runs, WellFormed(order, runs),
           NEW d, NEW s, NEW e,
           IsDeletionIn(order, DocumentMarks(runs), d, s, e),
           NEW i \in 1 .. Len(runs), e \in MarksFrom(runs, i + 1),
           NEW c \in RunMarks(runs[i]), IsFrom(order, s, c)
    PROVE  /\ c \in MarksWithin(order, DocumentMarks(runs), d, s, e)
                <=> c.at < KnownTo(d, runs[i])
           /\ c.at \in Nat /\ runs[i].start <= c.at /\ c.at < runs[i].end
<1>1. runs \in Seq(Runs) /\ DOMAIN runs = 1 .. Len(runs) /\ runs[i] \in Runs
  BY LenProperties, ElementOfSeq DEF WellFormed
<1>2. c \in DocumentMarks(runs)
  BY <1>1 DEF DocumentMarks
<1>3. <<c, e>> \in order
  BY LeafIsApart DEF IsLeafApart
<1>4. c \in Mark /\ Covers(runs[i], c)
  BY <1>1, RunLength, MarkOfRun
<1>5. IsWithin(order, s, e, c)
  BY <1>3 DEF IsWithin, IsFrom
<1>6. c \in MarksWithin(order, DocumentMarks(runs), d, s, e)
        <=> IsKnownTo(d, c)
  BY <1>2, <1>5 DEF MarksWithin
<1>7. IsKnownTo(d, c) <=> c.at < KnownTo(d, runs[i])
  BY <1>4 DEF Covers, IsKnownTo, KnownTo
<1>8. QED
  BY <1>4, <1>6, <1>7 DEF Mark, Covers

(* The visit of a leaf between the first one and the last.                 *)
DeletesFurther(order, w, v, dead, d, R, s, e) ==
    /\ HasDeleted(order, v.runs, v.i, FALSE, dead, R, s, e)
    /\ VisitsLeft(v.runs, v.i, d) < VisitsLeft(w.runs, w.i, d)
    /\ VisitsLeft(v.runs, v.i, d) \in Nat

LEMMA InnerLeafDeletes ==
    ASSUME NEW order, KeepsRuns(order), NEW w, WellFormed(order, w.runs),
           NEW d, NEW s, NEW e,
           IsDeletionIn(order, DocumentMarks(w.runs), d, s, e),
           NEW R, R = MarksWithin(order, DocumentMarks(w.runs), d, s, e),
           NEW dead, HasDeleted(order, w.runs, w.i, FALSE, dead, R, s, e),
           w.i # IdxAtAnchor(w.runs, d.end, "left"),
           NEW v, VisitsInnerLeaf(w, v, d)
    PROVE  DeletesFurther(order, w, v, dead, d, R, s, e)
<1>1. PICK runs, i : runs = w.runs /\ i = w.i
  OBVIOUS
<1>2. PICK new, j : new = v.runs /\ j = v.i
  OBVIOUS
<1> DEFINE run == runs[i]
           known == KnownTo(d, run)
           marks == DocumentMarks(runs)
           last == IdxAtAnchor(runs, d.end, "left")
<1>3. /\ runs \in Seq(Runs) /\ Len(runs) \in Nat /\ i \in 1 .. Len(runs)
      /\ run \in Runs /\ IsAtLeaf(order, runs, i, R, s, e)
      /\ DeletesOnly(runs, dead, R)
  BY <1>1, LenProperties, ElementOfSeq DEF WellFormed, HasDeleted, IsAtLeaf
<1>4. /\ run.start \in Nat /\ run.end \in Nat /\ RunLen(run) \in Nat
      /\ run.end = run.start + RunLen(run) /\ known \in Nat
  <2>1. d.version_map \in [ReplicaIds -> Nat]
    BY DEF IsDeletionIn
  <2>2. run.id \in ReplicaIds
    BY <1>3 DEF Runs, RunType
  <2>3. QED
    BY <1>3, <2>1, <2>2, RunLength DEF KnownTo
<1>5. e \notin RunMarks(run)
  <2>1. /\ MarksHaveOnePlace(marks) /\ IsStrictOrder(order, marks)
        /\ d.end.offset \in Nat /\ e \in marks /\ AnchoredAt(d.end, "left", e)
    BY <1>1 DEF IsDeletionIn
  <2>2. last \in 1 .. Len(runs) /\ e \in RunMarks(runs[last])
    BY <1>1, <2>1, LeafOfMark
  <2>3. i # last
    BY <1>1
  <2> HIDE DEF last
  <2>4. QED
    BY <1>1, <1>3, <2>1, <2>2, <2>3, MarkHasOneLeaf
<1>6. e \in MarksFrom(runs, i + 1)
  BY <1>3, <1>5, MarksBeside DEF IsAtLeaf
<1>7. \A c \in RunMarks(run) :
         /\ c \in R <=> c.at < known
         /\ c.at \in Nat /\ run.start <= c.at /\ c.at < run.end
  <2>1. \A c \in RunMarks(run) : IsFrom(order, s, c)
    BY <1>3, MarksBeside DEF IsAtLeaf
  <2>2. IsDeletionIn(order, marks, d, s, e) /\ WellFormed(order, runs)
        /\ R = MarksWithin(order, marks, d, s, e)
    BY <1>1
  <2>3. QED
    BY <2>1, <2>2, <1>3, <1>6, LeafBetween
<1>8. /\ d.version_map \in [ReplicaIds -> Nat] /\ WellFormed(order, runs)
  BY <1>1 DEF IsDeletionIn
<1>9. ASSUME j = i + 1, new \in Seq(Runs), Len(new) = Len(runs),
             MarksUpTo(new, i + 1) = MarksUpTo(runs, i + 1),
             MarksFrom(new, i + 1) = MarksFrom(runs, i + 1),
             DeletesOnly(new, dead, R),
             DeadMarks(runs) \subseteq DeadMarks(new),
             R \cap RunMarks(run) \subseteq DeadMarks(new)
      PROVE  DeletesFurther(order, w, v, dead, d, R, s, e)
  <2>1. i < Len(runs) /\ IsAtLeaf(order, new, i + 1, R, s, e)
    BY <1>3, <1>5, <1>9, LeafPassed
  <2>2. HasDeleted(order, new, j, FALSE, dead, R, s, e)
    BY <2>1, <1>9 DEF HasDeleted
  <2>3. /\ i \in 1 .. Len(runs) - 1 /\ j \in 1 .. Len(new)
        /\ Len(new) - j = Len(runs) - i - 1
    BY <2>1, <1>3, <1>9
  <2>4. /\ VisitsLeft(new, j, d) < VisitsLeft(runs, i, d)
        /\ VisitsLeft(new, j, d) \in Nat
    BY <2>3, <1>3, <1>8, <1>9, FewerVisits
  <2> HIDE DEF run, known, marks, last
  <2>5. QED
    BY <2>2, <2>4, <1>1, <1>2 DEF DeletesFurther
<1>10. CASE run.del /\ new = runs /\ j = i + 1
  <2>1. RunMarks(run) \subseteq DeadMarks(runs)
    <3>1. DeadOf(run) = RunMarks(run)
      BY <1>10 DEF DeadOf
    <3>2. i \in DOMAIN runs
      BY <1>3, LenProperties
    <3>3. QED
      BY <3>1, <3>2 DEF DeadMarks
  <2>2. QED
    BY <2>1, <1>3, <1>9, <1>10
<1>11. CASE run.end <= known /\ new = [runs EXCEPT ![i].del = TRUE] /\ j = i + 1
  <2>1. RunMarks(run) \subseteq R
    <3>1. \A c \in RunMarks(run) : c.at < known
      BY <1>4, <1>7, <1>11
    <3>2. QED
      BY <3>1, <1>7
  <2>2. /\ new \in Seq(Runs) /\ Len(new) = Len(runs)
        /\ DeadMarks(new) = DeadMarks(runs) \cup RunMarks(run)
        /\ MarksUpTo(new, i + 1) = MarksUpTo(runs, i + 1)
        /\ MarksFrom(new, i + 1) = MarksFrom(runs, i + 1)
    BY <1>3, <1>8, <1>11, WholeLeafDeleted
  <2>3. DeletesOnly(new, dead, R)
    BY <2>1, <2>2, <1>3 DEF DeletesOnly
  <2>4. QED
    BY <2>2, <2>3, <1>9, <1>11
<1>12. CASE run.start >= known /\ new = runs /\ j = i + 1
  <2>1. R \cap RunMarks(run) = {}
    <3>1. \A c \in RunMarks(run) : ~(c.at < known)
      BY <1>4, <1>7, <1>12
    <3>2. QED
      BY <3>1, <1>7
  <2>2. QED
    BY <2>1, <1>3, <1>9, <1>12
<1>13. ASSUME ~(run.end <= known), ~(run.start >= known),
              new = DeleteRangeInLeaf(runs, i, 0, known - run.start),
              j = LeafAfterDeleted(runs, i, 0, known - run.start)
       PROVE  DeletesFurther(order, w, v, dead, d, R, s, e)
  <2>1. PICK to : to = known - run.start
    OBVIOUS
  <2>2. /\ to \in Nat /\ 0 < to /\ to < RunLen(run) /\ to <= RunLen(run)
        /\ run.start + to = known
    BY <2>1, <1>4, <1>13
  <2>3. IsRangeDeleted(runs, i, 0, to, new, j)
    BY <2>1, <2>2, <1>3, <1>13, RangeIsDeleted
  <2> DEFINE part == RunMarks(SubRun(run, 0, to))
  <2>4. part \subseteq R
    <3>1. \A c \in part : c \in RunMarks(run) /\ c.at < run.start + to
      BY <2>2, <1>3, MarksOfSubRun
    <3>2. QED
      BY <3>1, <2>2, <1>7
  <2>5. RunMarks(SubRun(run, 0, RunLen(run))) = RunMarks(run)
    BY <1>3, WholeSubRun
  <2> HIDE DEF part, run, known, marks, last
  <2>6. /\ new \in Seq(Runs) /\ j \in 1 .. Len(new)
        /\ DeadMarks(new) = DeadMarks(runs) \cup part
        /\ MarksUpTo(new, j) \subseteq MarksUpTo(runs, i) \cup part
        /\ MarksFrom(new, j) \subseteq RunMarks(run) \cup MarksFrom(runs, i + 1)
        /\ MarksFrom(runs, i + 1) \subseteq MarksFrom(new, j)
        /\ Len(new) - j = Len(runs) - i
        /\ new[j].id = run.id /\ new[j].start = known
    BY <2>2, <2>3, <2>5 DEF IsRangeDeleted, run, part
  <2>7. DeletesOnly(new, dead, R)
    BY <2>4, <2>6, <1>3 DEF DeletesOnly
  <2>8. /\ R \cap MarksUpTo(runs, i) \subseteq DeadMarks(runs)
        /\ \A c \in RunMarks(run) \cup MarksFrom(runs, i + 1) : IsFrom(order, s, c)
    BY <1>3, MarksBeside DEF IsAtLeaf, run
  <2>9. IsAtLeaf(order, new, j, R, s, e)
    BY <2>6, <2>8, <1>6 DEF IsAtLeaf
  <2>10. /\ VisitsLeft(new, j, d) = 2 * (Len(runs) - i)
         /\ VisitsLeft(runs, i, d) = 2 * (Len(runs) - i) + 1
    <3>1. KnownTo(d, new[j]) = known /\ KnownTo(d, runs[i]) = known
      BY <2>6 DEF KnownTo, known, run
    <3>2. KnownTo(d, new[j]) <= new[j].start
      BY <3>1, <2>6, <1>4
    <3>3. ~(KnownTo(d, runs[i]) <= runs[i].start)
      BY <3>1, <1>4, <1>13 DEF run
    <3>4. VisitsLeft(new, j, d) = 2 * (Len(runs) - i) + 0
      BY <3>2, <2>6 DEF VisitsLeft
    <3>5. VisitsLeft(runs, i, d) = 2 * (Len(runs) - i) + 1
      BY <3>3 DEF VisitsLeft
    <3>6. QED
      BY <3>4, <3>5, <1>3
  <2>11. HasDeleted(order, new, j, FALSE, dead, R, s, e)
    BY <2>7, <2>9 DEF HasDeleted
  <2>12. /\ 2 * (Len(runs) - i) \in Nat
         /\ 2 * (Len(runs) - i) < 2 * (Len(runs) - i) + 1
    BY <1>3
  <2>13. QED
    BY <2>10, <2>11, <2>12, <1>1, <1>2 DEF DeletesFurther
<1>14. \/ run.del /\ new = runs /\ j = i + 1
       \/ /\ run.end <= known
          /\ new = [runs EXCEPT ![i].del = TRUE] /\ j = i + 1
       \/ run.start >= known /\ new = runs /\ j = i + 1
       \/ /\ ~(run.end <= known) /\ ~(run.start >= known)
          /\ new = DeleteRangeInLeaf(runs, i, 0, known - run.start)
          /\ j = LeafAfterDeleted(runs, i, 0, known - run.start)
  BY <1>1, <1>2 DEF VisitsInnerLeaf
<1> HIDE DEF run, known, marks, last
<1>15. QED
  BY <1>10, <1>11, <1>12, <1>13, <1>14

LEMMA LastLeafDeletes ==
    ASSUME NEW order, KeepsRuns(order), NEW w, WellFormed(order, w.runs),
           NEW d, NEW s, NEW e,
           IsDeletionIn(order, DocumentMarks(w.runs), d, s, e),
           NEW R, R = MarksWithin(order, DocumentMarks(w.runs), d, s, e),
           NEW dead, HasDeleted(order, w.runs, w.i, FALSE, dead, R, s, e),
           w.i = IdxAtAnchor(w.runs, d.end, "left"),
           NEW v, VisitsLastLeaf(w, v, d)
    PROVE  v.done /\ HasDeleted(order, v.runs, v.i, TRUE, dead, R, s, e)
<1>1. PICK runs, i : runs = w.runs /\ i = w.i
  OBVIOUS
<1> DEFINE run == runs[i]
           marks == DocumentMarks(runs)
           up_to == d.end.offset - run.start
<1>2. /\ runs \in Seq(Runs) /\ Len(runs) \in Nat /\ i \in 1 .. Len(runs)
      /\ run \in Runs /\ IsAtLeaf(order, runs, i, R, s, e)
      /\ DeletesOnly(runs, dead, R) /\ WellFormed(order, runs)
      /\ DOMAIN runs = 1 .. Len(runs)
  BY <1>1, LenProperties, ElementOfSeq DEF WellFormed, HasDeleted, IsAtLeaf
<1>3. /\ run \in RunType /\ run.start \in Nat /\ run.end \in Nat
      /\ RunLen(run) \in Nat /\ run.end = run.start + RunLen(run)
  BY <1>2, RunLength DEF RunType
<1>4. /\ MarksHaveOnePlace(marks) /\ IsStrictOrder(order, marks)
      /\ d.end.offset \in Nat /\ e \in marks /\ AnchoredAt(d.end, "left", e)
      /\ IsDeletionIn(order, marks, d, s, e)
      /\ R = MarksWithin(order, marks, d, s, e)
      /\ e.at < d.version_map[e.id] /\ d.version_map \in [ReplicaIds -> Nat]
  BY <1>1 DEF IsDeletionIn, IsKnownTo
<1>5. e \in RunMarks(run)
  BY <1>1, <1>2, <1>4, LeafOfMark
<1>6. e \in Mark /\ Covers(run, e) /\ e.at + 1 = d.end.offset
  BY <1>3, <1>4, <1>5, MarkOfRun DEF AnchoredAt
<1>7. /\ up_to \in Nat /\ 0 < up_to /\ up_to <= RunLen(run)
      /\ run.start + up_to = e.at + 1 /\ e.at \in Nat
      /\ d.version_map[e.id] \in Nat
  BY <1>3, <1>4, <1>6 DEF Covers, Mark
<1>8. IsLeafApart(order, MarksUpTo(runs, i), RunMarks(run), MarksFrom(runs, i + 1))
  BY <1>2, LeafIsApart
<1>9. /\ marks = MarksUpTo(runs, i) \cup RunMarks(run) \cup MarksFrom(runs, i + 1)
      /\ MarksFrom(runs, i) = RunMarks(run) \cup MarksFrom(runs, i + 1)
  BY <1>2, MarksBeside
<1>10. R \cap MarksUpTo(runs, i) \subseteq DeadMarks(runs)
       /\ \A c \in RunMarks(run) : IsFrom(order, s, c)
  BY <1>2, <1>9 DEF IsAtLeaf
<1>11. ASSUME NEW c \in R PROVE c \in DeadMarks(runs) \/
                                (c \in RunMarks(run) /\ c.at < run.start + up_to)
  <2>1. c \in marks /\ ~(<<e, c>> \in order)
    BY <1>4, OutsideOfRange DEF MarksWithin
  <2>2. c \notin MarksFrom(runs, i + 1)
    BY <2>1, <1>5, <1>8 DEF IsLeafApart
  <2>3. CASE c \in RunMarks(run)
    <3>1. c.at \in Nat /\ ~(e.at < c.at)
      BY <2>1, <2>3, <1>5, <1>8 DEF IsLeafApart
    <3>2. QED
      BY <3>1, <2>3, <1>7
  <2>4. QED
    BY <2>1, <2>2, <2>3, <1>9, <1>10
<1>12. ASSUME NEW c \in RunMarks(run), c.at < run.start + up_to
       PROVE  c \in R
  <2>1. c.at \in Nat /\ c.id = e.id /\ (c.at < e.at => <<c, e>> \in order)
        /\ (c.at = e.at => c = e)
    BY <1>5, <1>8 DEF IsLeafApart
  <2>2. c.at < e.at \/ c.at = e.at
    BY <2>1, <1>7, <1>12
  <2>3. IsWithin(order, s, e, c)
    BY <2>1, <2>2, <1>10 DEF IsWithin, IsFrom
  <2>4. IsKnownTo(d, c)
    BY <2>1, <2>2, <1>4, <1>7 DEF IsKnownTo
  <2>5. QED
    BY <2>3, <2>4, <1>4, <1>9 DEF MarksWithin
<1>13. PICK new : new = v.runs
  OBVIOUS
<1>14. \/ run.del /\ new = runs
       \/ new = DeleteRangeInLeaf(runs, i, 0, up_to)
  BY <1>1, <1>13 DEF VisitsLastLeaf
<1> HIDE DEF marks, up_to
<1>15. DeletesOnly(new, dead, R) /\ R \subseteq DeadMarks(new)
  <2>1. CASE run.del /\ new = runs
    <3>1. RunMarks(run) \subseteq DeadMarks(runs)
      <4>1. DeadOf(run) = RunMarks(run)
        BY <2>1 DEF DeadOf
      <4>2. QED
        BY <4>1, <1>2 DEF DeadMarks
    <3>2. QED
      BY <3>1, <2>1, <1>2, <1>11
  <2>2. CASE new = DeleteRangeInLeaf(runs, i, 0, up_to)
    <3>1. PICK j : j = LeafAfterDeleted(runs, i, 0, up_to)
      OBVIOUS
    <3>2. IsRangeDeleted(runs, i, 0, up_to, new, j)
      BY <3>1, <2>2, <1>2, <1>7, RangeIsDeleted
    <3> DEFINE part == RunMarks(SubRun(run, 0, up_to))
    <3>3. \A c : c \in part <=> /\ c \in RunMarks(run)
                                /\ run.start + 0 <= c.at
                                /\ c.at < run.start + up_to
      BY <1>2, <1>7, MarksOfSubRun
    <3>4. \A c \in RunMarks(run) : run.start + 0 <= c.at
      BY <1>3, MarkOfRun DEF Covers
    <3>5. DeadMarks(new) = DeadMarks(runs) \cup part
      BY <3>2 DEF IsRangeDeleted
    <3> HIDE DEF part, run
    <3>6. part \subseteq R
      BY <3>3, <1>12
    <3>7. \A c \in R : c \in DeadMarks(runs) \cup part
      BY <3>3, <3>4, <1>11
    <3>8. QED
      BY <3>5, <3>6, <3>7, <1>2 DEF DeletesOnly
  <2>3. QED
    BY <2>1, <2>2, <1>14
<1>16. QED
  BY <1>13, <1>15 DEF VisitsLastLeaf, HasDeleted

(* The visit of the first leaf, which does not hold the end.               *)
LEMMA FirstLeafDeletes ==
    ASSUME NEW order, KeepsRuns(order), NEW runs, WellFormed(order, runs),
           NEW d, NEW s, NEW e,
           IsDeletionIn(order, DocumentMarks(runs), d, s, e),
           NEW R, R = MarksWithin(order, DocumentMarks(runs), d, s, e),
           ~ContainsAnchor(runs[IdxAtAnchor(runs, d.start, "right")], d.end),
           NEW v, VisitsFirstLeaf(runs, v, d)
    PROVE  /\ HasDeleted(order, v.runs, v.i, FALSE, DeadMarks(runs), R, s, e)
           /\ VisitsLeft(v.runs, v.i, d) \in Nat
           /\ VisitsLeft(v.runs, v.i, d) < 2 * Len(runs)
<1>1. PICK i : i = IdxAtAnchor(runs, d.start, "right")
  OBVIOUS
<1>2. PICK new, j : new = v.runs /\ j = v.i
  OBVIOUS
<1> DEFINE run == runs[i]
           known == KnownTo(d, run)
           marks == DocumentMarks(runs)
           from == d.start.offset - run.start
           up_to == IF run.end > known THEN known - run.start ELSE RunLen(run)
           dead == DeadMarks(runs)
<1>3. /\ MarksHaveOnePlace(marks) /\ IsStrictOrder(order, marks)
      /\ d.start.offset \in Nat /\ s \in marks /\ AnchoredAt(d.start, "right", s)
      /\ d.end.offset \in Nat /\ e \in marks /\ AnchoredAt(d.end, "left", e)
      /\ (s = e \/ <<s, e>> \in order)
      /\ d.version_map \in [ReplicaIds -> Nat]
  BY DEF IsDeletionIn
<1>4. /\ runs \in Seq(Runs) /\ Len(runs) \in Nat /\ DOMAIN runs = 1 .. Len(runs)
  BY LenProperties DEF WellFormed
<1>5. i \in 1 .. Len(runs) /\ s \in RunMarks(run)
  BY <1>1, <1>3, LeafOfMark
<1>6. /\ run \in Runs /\ run \in RunType /\ run.start \in Nat /\ run.end \in Nat
      /\ RunLen(run) \in Nat /\ run.end = run.start + RunLen(run)
      /\ known \in Nat
  <2>1. run \in Runs
    BY <1>4, <1>5, ElementOfSeq
  <2>2. run \in RunType /\ run.id \in ReplicaIds
    BY <2>1 DEF Runs, RunType
  <2>3. QED
    BY <2>1, <2>2, <1>3, RunLength DEF KnownTo, RunType
<1>7. s \in Mark /\ Covers(run, s) /\ s.at = d.start.offset
  BY <1>3, <1>5, <1>6, MarkOfRun DEF AnchoredAt
<1>8. /\ from \in Nat /\ run.start + from = s.at /\ s.at \in Nat
  BY <1>3, <1>6, <1>7 DEF Covers, Mark
<1>9. e \notin RunMarks(run)
  <2>1. SUFFICES ASSUME e \in RunMarks(run) PROVE FALSE
    OBVIOUS
  <2>2. e \in Mark /\ Covers(run, e) /\ e.at + 1 = d.end.offset
        /\ e.id = d.end.id
    BY <2>1, <1>3, <1>6, MarkOfRun DEF AnchoredAt
  <2>3. ContainsAnchor(run, d.end)
    BY <2>2, <1>3, <1>6 DEF ContainsAnchor, Covers, Mark
  <2>4. QED
    BY <2>3, <1>1
<1>10. IsLeafApart(order, MarksUpTo(runs, i), RunMarks(run), MarksFrom(runs, i + 1))
  BY <1>5, LeafIsApart
<1>11. marks = MarksUpTo(runs, i) \cup RunMarks(run) \cup MarksFrom(runs, i + 1)
       /\ MarksUpTo(runs, i + 1) = MarksUpTo(runs, i) \cup RunMarks(run)
  BY <1>4, <1>5, MarksBeside
<1>12. R \cap MarksUpTo(runs, i) = {}
  <2>1. \A c \in MarksUpTo(runs, i) : c \in marks /\ <<c, s>> \in order
    BY <1>11, <1>5, <1>10 DEF IsLeafApart
  <2>2. QED
    BY <2>1, OutsideOfRange
<1>13. e \in MarksFrom(runs, i + 1)
  <2>1. e \notin MarksUpTo(runs, i)
    BY <1>3, <1>5, <1>9, <1>10 DEF IsLeafApart, IsStrictOrder
  <2>2. QED
    BY <2>1, <1>3, <1>9, <1>11
<1>14. i < Len(runs)
  <2>1. i + 1 \in 1 .. Len(runs) + 1
    BY <1>4, <1>5
  <2>2. PICK k \in i + 1 .. Len(runs) : e \in RunMarks(runs[k])
    BY <1>4, <1>13, <2>1, MarksAround
  <2>3. QED
    BY <1>4, <1>5, <2>2
<1>15. \A c \in MarksFrom(runs, i + 1) : IsFrom(order, s, c)
  BY <1>5, <1>10 DEF IsFrom, IsLeafApart
<1>16. CASE run.del /\ new = runs /\ j = i + 1
  <2>1. RunMarks(run) \subseteq DeadMarks(runs)
    <3>1. DeadOf(run) = RunMarks(run)
      BY <1>16 DEF DeadOf
    <3>2. QED
      BY <3>1, <1>4, <1>5 DEF DeadMarks
  <2>2. R \cap MarksUpTo(runs, i + 1) \subseteq DeadMarks(runs)
    BY <2>1, <1>11, <1>12
  <2>3. j \in 1 .. Len(runs)
    BY <1>4, <1>5, <1>14, <1>16
  <2>4. HasDeleted(order, new, j, FALSE, dead, R, s, e)
    BY <2>2, <2>3, <1>13, <1>15, <1>16 DEF HasDeleted, IsAtLeaf, DeletesOnly
  <2>5. PICK a : a = IF KnownTo(d, runs[j]) <= runs[j].start THEN 0 ELSE 1
    OBVIOUS
  <2>6. VisitsLeft(new, j, d) = 2 * (Len(runs) - j) + a /\ a \in {0, 1}
    BY <2>5, <1>16 DEF VisitsLeft
  <2>7. Len(runs) - j \in Nat /\ Len(runs) - j < Len(runs) - 1
    BY <2>3, <1>4, <1>5, <1>14, <1>16
  <2>8. 2 * (Len(runs) - j) + a \in Nat
        /\ 2 * (Len(runs) - j) + a < 2 * Len(runs)
    BY <2>6, <2>7, <1>4
  <2>9. /\ VisitsLeft(new, j, d) \in Nat
        /\ VisitsLeft(new, j, d) < 2 * Len(runs)
    BY <2>6, <2>8
  <2> HIDE DEF dead
  <2>10. /\ HasDeleted(order, v.runs, v.i, FALSE, dead, R, s, e)
         /\ VisitsLeft(v.runs, v.i, d) \in Nat
         /\ VisitsLeft(v.runs, v.i, d) < 2 * Len(runs)
    BY <2>4, <2>9, <1>2
  <2>11. QED
    BY <2>10 DEF dead
<1>17. ASSUME from < up_to, new = DeleteRangeInLeaf(runs, i, from, up_to),
              j = LeafAfterDeleted(runs, i, from, up_to)
       PROVE  /\ HasDeleted(order, new, j, FALSE, dead, R, s, e)
              /\ VisitsLeft(new, j, d) \in Nat
              /\ VisitsLeft(new, j, d) < 2 * Len(runs)
  <2>1. /\ up_to \in Nat /\ up_to <= RunLen(run)
        /\ run.start + up_to <= known
        /\ up_to < RunLen(run) => run.start + up_to = known
    BY <1>6, <1>8, <1>17
  <2> DEFINE part == RunMarks(SubRun(run, from, up_to))
             head == RunMarks(SubRun(run, 0, up_to))
             tail == RunMarks(SubRun(run, from, RunLen(run)))
  <2>2. IsRangeDeleted(runs, i, from, up_to, new, j)
    <3> HIDE DEF from, up_to
    <3>1. QED
      BY <2>1, <1>4, <1>5, <1>8, <1>17, RangeIsDeleted
  <2> HIDE DEF up_to, from
  <2>3. \A c : c \in part <=> /\ c \in RunMarks(run)
                              /\ s.at <= c.at /\ c.at < run.start + up_to
    BY <2>1, <1>6, <1>8, <1>17, MarksOfSubRun
  <2>4. /\ \A c \in head : c \in RunMarks(run) /\ c.at < run.start + up_to
        /\ \A c \in tail : c \in RunMarks(run) /\ s.at <= c.at
    <3>1. \A c \in head : c \in RunMarks(run) /\ c.at < run.start + up_to
      BY <2>1, <1>6, MarksOfSubRun
    <3>2. \A c \in tail : c \in RunMarks(run) /\ run.start + from <= c.at
      BY <2>1, <1>6, <1>8, <1>17, MarksOfSubRun
    <3>3. QED
      BY <3>1, <3>2, <1>8
  <2> HIDE DEF part, head, tail, known, run, marks, dead
  <2>5. ASSUME NEW c \in RunMarks(run), s.at <= c.at
        PROVE  /\ IsFrom(order, s, c)
               /\ c \in R <=> c.at < known
    <3>1. c.at \in Nat /\ (s.at < c.at => <<s, c>> \in order)
          /\ (s.at = c.at => s = c)
      BY <1>5, <1>10 DEF IsLeafApart
    <3>2. IsFrom(order, s, c)
      BY <3>1, <2>5, <1>8 DEF IsFrom
    <3>3. QED
      BY <3>2, <1>5, <1>13, LeafBetween DEF run, known
  <2>6. ASSUME NEW c \in RunMarks(run), ~(s.at <= c.at)
        PROVE  c \notin R
    <3>1. c.at \in Nat /\ c.at < s.at
      BY <2>6, <1>8, <1>10 DEF IsLeafApart
    <3>2. <<c, s>> \in order
      BY <3>1, <1>5, <1>10 DEF IsLeafApart
    <3>3. c \in marks
      BY <1>11
    <3>4. QED
      BY <3>2, <3>3, OutsideOfRange DEF marks
  <2>7. part \subseteq R
    <3>1. ASSUME NEW c \in part PROVE c \in R
      <4>1. c \in RunMarks(run) /\ s.at <= c.at /\ c.at < run.start + up_to
        BY <2>3
      <4>2. c.at \in Nat
        BY <4>1, <1>10 DEF IsLeafApart
      <4>3. c.at < known
        BY <4>1, <4>2, <2>1, <1>6
      <4>4. QED
        BY <4>1, <4>3, <2>5
    <3>2. QED
      BY <3>1
  <2>8. R \cap head \subseteq part
    <3>1. \A c \in head : c \in R => c \in part
      BY <2>3, <2>4, <2>6
    <3>2. QED
      BY <3>1
  <2>9. /\ new \in Seq(Runs) /\ j \in 1 .. Len(new)
        /\ DeadMarks(new) = dead \cup part
        /\ MarksUpTo(new, j) \subseteq MarksUpTo(runs, i) \cup head
        /\ MarksFrom(new, j) \subseteq tail \cup MarksFrom(runs, i + 1)
        /\ MarksFrom(runs, i + 1) \subseteq MarksFrom(new, j)
    BY <2>2 DEF IsRangeDeleted, run, part, head, tail, dead
  <2>10. DeletesOnly(new, dead, R)
    BY <2>7, <2>9 DEF DeletesOnly
  <2>11. IsAtLeaf(order, new, j, R, s, e)
    <3>1. R \cap MarksUpTo(new, j) \subseteq DeadMarks(new)
      BY <2>8, <2>9, <1>12
    <3>2. \A c \in MarksFrom(new, j) : IsFrom(order, s, c)
      BY <2>4, <2>5, <2>9, <1>15
    <3>3. QED
      BY <3>1, <3>2, <2>9, <1>13 DEF IsAtLeaf
  <2>12. VisitsLeft(new, j, d) \in Nat /\ VisitsLeft(new, j, d) < 2 * Len(runs)
    <3>1. Len(new) - j = Len(runs) - i \/ Len(new) - j = Len(runs) - i - 1
      BY <2>1, <2>2, <1>6, <1>14 DEF IsRangeDeleted, run
    <3>2. PICK a : a = IF KnownTo(d, new[j]) <= new[j].start THEN 0 ELSE 1
      OBVIOUS
    <3>3. VisitsLeft(new, j, d) = 2 * (Len(new) - j) + a /\ a \in {0, 1}
      BY <3>2 DEF VisitsLeft
    <3>4. i \in Nat /\ i < Len(runs) /\ 1 <= i
      BY <1>4, <1>5, <1>14
    <3>5. QED
      BY <3>1, <3>3, <3>4, <1>4
  <2>13. QED
    BY <2>10, <2>11, <2>12 DEF HasDeleted
<1>18. \/ run.del /\ new = runs /\ j = i + 1
       \/ /\ from < up_to
          /\ new = DeleteRangeInLeaf(runs, i, from, up_to)
          /\ j = LeafAfterDeleted(runs, i, from, up_to)
  BY <1>1, <1>2 DEF VisitsFirstLeaf
<1> HIDE DEF run, from, up_to, known, marks
<1>19. QED
  BY <1>2, <1>16, <1>17, <1>18 DEF dead

------------------------------------------------------------------------------
(* The walk of merge_deletion deletes what is within the deletion's range, *)
(* and reaches the end of it in N visits at the most.                      *)
IsDeleting(order, w, marks, dead, d, s, e, n) ==
    /\ KeepsMarks(order, w, marks)
    /\ w.sound =>
         /\ HasDeleted(order, w.runs, w.i, w.done, dead,
                       MarksWithin(order, marks, d, s, e), s, e)
         /\ ~w.done => /\ VisitsLeft(w.runs, w.i, d) \in Nat
                       /\ VisitsLeft(w.runs, w.i, d) < n

LEMMA DeletingStarts ==
    ASSUME NEW order, KeepsRuns(order), NEW runs, WellFormed(order, runs),
           NEW d, NEW s, NEW e,
           IsDeletionIn(order, DocumentMarks(runs), d, s, e),
           ~ContainsAnchor(runs[IdxAtAnchor(runs, d.start, "right")], d.end),
           KeepsMarks(order, VisitFirstLeaf(runs, d), DocumentMarks(runs))
    PROVE  IsDeleting(order, VisitFirstLeaf(runs, d), DocumentMarks(runs),
                      DeadMarks(runs), d, s, e, 2 * Len(runs))
<1>1. PICK v : v = VisitFirstLeaf(runs, d)
  OBVIOUS
<1>2. PICK R : R = MarksWithin(order, DocumentMarks(runs), d, s, e)
  OBVIOUS
<1>3. v.sound => VisitsFirstLeaf(runs, v, d)
  BY <1>1, VisitOfFirstLeaf
<1>4. ASSUME v.sound
      PROVE  /\ HasDeleted(order, v.runs, v.i, v.done, DeadMarks(runs), R, s, e)
             /\ VisitsLeft(v.runs, v.i, d) \in Nat
             /\ VisitsLeft(v.runs, v.i, d) < 2 * Len(runs)
  <2>1. VisitsFirstLeaf(runs, v, d)
    BY <1>3, <1>4
  <2>2. /\ HasDeleted(order, v.runs, v.i, FALSE, DeadMarks(runs), R, s, e)
        /\ VisitsLeft(v.runs, v.i, d) \in Nat
        /\ VisitsLeft(v.runs, v.i, d) < 2 * Len(runs)
    BY <2>1, <1>2, FirstLeafDeletes
  <2>3. v.done = FALSE
    BY <2>1 DEF VisitsFirstLeaf
  <2>4. QED
    BY <2>2, <2>3
<1>5. IsDeleting(order, v, DocumentMarks(runs), DeadMarks(runs), d, s, e,
                 2 * Len(runs))
  BY <1>1, <1>2, <1>4 DEF IsDeleting
<1>6. QED
  BY <1>1, <1>5

LEMMA DeletingGoesOn ==
    ASSUME NEW order, KeepsRuns(order), NEW marks, NEW dead,
           NEW d, NEW s, NEW e, IsDeletionIn(order, marks, d, s, e),
           NEW n \in Nat, NEW w, IsDeleting(order, w, marks, dead, d, s, e, n + 1),
           NEW v, v = IF w.done THEN w ELSE VisitLeaf(w, d),
           KeepsMarks(order, v, marks)
    PROVE  IsDeleting(order, v, marks, dead, d, s, e, n)
<1>1. PICK R : R = MarksWithin(order, marks, d, s, e)
  OBVIOUS
<1>2. SUFFICES ASSUME v.sound
               PROVE  /\ HasDeleted(order, v.runs, v.i, v.done, dead, R, s, e)
                      /\ ~v.done => /\ VisitsLeft(v.runs, v.i, d) \in Nat
                                    /\ VisitsLeft(v.runs, v.i, d) < n
  BY <1>1 DEF IsDeleting
<1>3. CASE w.done
  <2>1. v = w
    BY <1>3
  <2>2. QED
    BY <2>1, <1>1, <1>2, <1>3 DEF IsDeleting
<1>4. CASE ~w.done
  <2>1. v = VisitLeaf(w, d)
    BY <1>4
  <2>2. IsWalk(w)
    BY DEF IsDeleting, KeepsMarks
  <2>3. /\ w.sound
        /\ IF w.i = IdxAtAnchor(w.runs, d.end, "left")
           THEN VisitsLastLeaf(w, v, d) ELSE VisitsInnerLeaf(w, v, d)
    BY <2>1, <2>2, <1>2, VisitOfLeaf
  <2>4. /\ WellFormed(order, w.runs) /\ DocumentMarks(w.runs) = marks
        /\ VisitsLeft(w.runs, w.i, d) \in Nat
        /\ VisitsLeft(w.runs, w.i, d) < n + 1
    BY <2>3, <1>4 DEF IsDeleting, KeepsMarks
  <2>5. HasDeleted(order, w.runs, w.i, FALSE, dead, R, s, e)
    BY <2>3, <1>1, <1>4 DEF IsDeleting, HasDeleted
  <2>6. /\ IsDeletionIn(order, DocumentMarks(w.runs), d, s, e)
        /\ R = MarksWithin(order, DocumentMarks(w.runs), d, s, e)
    BY <2>4, <1>1
  <2>7. CASE w.i = IdxAtAnchor(w.runs, d.end, "left")
    <3>1. VisitsLastLeaf(w, v, d)
      BY <2>3, <2>7
    <3>2. v.done /\ HasDeleted(order, v.runs, v.i, TRUE, dead, R, s, e)
      BY <3>1, <2>4, <2>5, <2>6, <2>7, LastLeafDeletes
    <3>3. HasDeleted(order, v.runs, v.i, v.done, dead, R, s, e)
      BY <3>2 DEF HasDeleted
    <3>4. QED
      BY <3>2, <3>3
  <2>8. CASE w.i # IdxAtAnchor(w.runs, d.end, "left")
    <3>1. VisitsInnerLeaf(w, v, d)
      BY <2>3, <2>8
    <3>2. /\ HasDeleted(order, v.runs, v.i, FALSE, dead, R, s, e)
          /\ VisitsLeft(v.runs, v.i, d) < VisitsLeft(w.runs, w.i, d)
          /\ VisitsLeft(v.runs, v.i, d) \in Nat
      <4>1. WellFormed(order, w.runs)
        BY <2>4
      <4>2. DeletesFurther(order, w, v, dead, d, R, s, e)
        BY <4>1, <3>1, <2>5, <2>6, <2>8, InnerLeafDeletes
      <4>3. QED
        BY <4>2 DEF DeletesFurther
    <3>3. ~v.done
      BY <3>1, <1>4 DEF VisitsInnerLeaf
    <3>4. HasDeleted(order, v.runs, v.i, v.done, dead, R, s, e)
      BY <3>2, <3>3 DEF HasDeleted
    <3>5. VisitsLeft(v.runs, v.i, d) < n
      BY <3>2, <2>4
    <3>6. QED
      BY <3>2, <3>4, <3>5
  <2>9. QED
    BY <2>7, <2>8
<1>5. QED
  BY <1>3, <1>4

LEMMA WalksDelete ==
    ASSUME NEW order, KeepsRuns(order), NEW marks, NEW dead,
           NEW d, NEW s, NEW e, IsDeletionIn(order, marks, d, s, e),
           NEW n \in Nat, NEW first,
           IsDeleting(order, first, marks, dead, d, s, e, n),
           NEW f, IsWalks(f, first, d, n)
    PROVE  /\ f[n] # {}
           /\ \A w \in f[n] : IsDeleting(order, w, marks, dead, d, s, e, 0)
<1> DEFINE Del(walks, k) ==
             walks # {}
               /\ \A w \in walks : IsDeleting(order, w, marks, dead, d, s, e, k)
           S == {k \in Nat : k <= n => Del(f[k], n - k)}
<1>1. \A k \in 0 .. n :
         f[k] = IF k = 0 THEN {first} ELSE NextWalks(f[k - 1], d)
  BY DEF IsWalks
<1>2. 0 \in S
  <2>1. f[0] = {first} /\ n - 0 = n
    BY <1>1
  <2>2. QED
    BY <2>1
<1>3. ASSUME NEW k \in S \cap Nat PROVE k + 1 \in S
  <2>1. SUFFICES ASSUME k + 1 <= n PROVE Del(f[k + 1], n - (k + 1))
    OBVIOUS
  <2>2. PICK m : m = n - (k + 1)
    OBVIOUS
  <2>3. m \in Nat /\ m + 1 = n - k
    BY <2>1, <2>2
  <2>4. Del(f[k], m + 1)
    BY <2>1, <2>3
  <2>5. f[k + 1] = NextWalks(f[k], d)
    <3>1. k + 1 \in 0 .. n /\ k + 1 # 0 /\ (k + 1) - 1 = k
      BY <2>1
    <3>2. QED
      BY <3>1, <1>1
  <2>6. NextWalks(f[k], d) # {}
    BY <2>4 DEF NextWalks
  <2>7. ASSUME NEW v \in NextWalks(f[k], d)
        PROVE  IsDeleting(order, v, marks, dead, d, s, e, m)
    <3>1. PICK w \in f[k] : v = IF w.done THEN w ELSE VisitLeaf(w, d)
      BY DEF NextWalks
    <3>2. IsDeleting(order, w, marks, dead, d, s, e, m + 1)
      BY <2>4
    <3>3. KeepsMarks(order, w, marks)
      BY <3>2 DEF IsDeleting
    <3>4. /\ d.end.offset \in Nat /\ d.version_map \in [ReplicaIds -> Nat]
          /\ \E c \in marks : AnchoredAt(d.end, "left", c)
      BY DEF IsDeletionIn
    <3>5. KeepsMarks(order, VisitLeaf(w, d), marks)
      BY <3>3, <3>4, LeafVisited
    <3>6. KeepsMarks(order, v, marks)
      BY <3>1, <3>3, <3>5
    <3>7. QED
      BY <3>1, <3>2, <3>6, <2>3, DeletingGoesOn
  <2>8. QED
    BY <2>2, <2>5, <2>6, <2>7
<1> HIDE DEF S
<1>4. n \in S
  BY <1>2, <1>3, Induction
<1>5. n - n = 0 /\ n <= n
  OBVIOUS
<1>6. QED
  BY <1>4, <1>5 DEF S

LEMMA PartOfLength ==
    ASSUME NEW start \in Nat, NEW len \in Nat, NEW a \in Nat, NEW b \in Nat,
           start <= a, a <= b, b < start + len
    PROVE  /\ a - start \in Nat /\ (b + 1) - start \in Nat
           /\ a - start < (b + 1) - start /\ (b + 1) - start <= len
           /\ start + (a - start) = a /\ start + ((b + 1) - start) = b + 1
OBVIOUS

(* A deletion whose range lies in one leaf.                                *)
LEMMA LeafDeletes ==
    ASSUME NEW order, KeepsRuns(order), NEW runs, WellFormed(order, runs),
           NEW d, NEW s, NEW e,
           IsDeletionIn(order, DocumentMarks(runs), d, s, e),
           NEW i \in 1 .. Len(runs), s \in RunMarks(runs[i]),
           e \in RunMarks(runs[i])
    PROVE  DeadMarks(MergeDeletionInLeaf(runs, d, i).runs) =
             DeadMarks(runs)
               \cup MarksWithin(order, DocumentMarks(runs), d, s, e)
<1> DEFINE run == runs[i]
           marks == DocumentMarks(runs)
           from == d.start.offset - run.start
           to == d.end.offset - run.start
           new == MergeDeletionInLeaf(runs, d, i).runs
           R == MarksWithin(order, marks, d, s, e)
           part == RunMarks(SubRun(run, from, to))
<1>1. /\ IsStrictOrder(order, marks)
      /\ d.start.offset \in Nat /\ s \in marks /\ AnchoredAt(d.start, "right", s)
      /\ d.end.offset \in Nat /\ e \in marks /\ AnchoredAt(d.end, "left", e)
      /\ (s = e \/ <<s, e>> \in order)
      /\ e.at < d.version_map[e.id]
      /\ d.version_map \in [ReplicaIds -> Nat]
  BY DEF IsDeletionIn, IsKnownTo
<1>2. /\ runs \in Seq(Runs) /\ Len(runs) \in Nat /\ DOMAIN runs = 1 .. Len(runs)
      /\ run \in Runs
  BY LenProperties, ElementOfSeq DEF WellFormed
<1>3. /\ run \in RunType /\ run.start \in Nat /\ run.end \in Nat
      /\ RunLen(run) \in Nat /\ run.end = run.start + RunLen(run)
  BY <1>2, RunLength DEF RunType
<1>4. /\ s \in Mark /\ Covers(run, s) /\ s.at = d.start.offset
      /\ e \in Mark /\ Covers(run, e) /\ e.at + 1 = d.end.offset
  BY <1>1, <1>3, MarkOfRun DEF AnchoredAt
<1>5. IsLeafApart(order, MarksUpTo(runs, i), RunMarks(run), MarksFrom(runs, i + 1))
  BY LeafIsApart
<1>6. /\ s.at \in Nat /\ e.at \in Nat /\ s.at <= e.at
      /\ d.version_map[e.id] \in Nat
  <2>1. s.at \in Nat /\ e.at \in Nat /\ (e.at < s.at => <<e, s>> \in order)
    BY <1>5 DEF IsLeafApart
  <2>2. ~(<<e, s>> \in order)
    BY <1>1 DEF IsStrictOrder
  <2>3. d.version_map[e.id] \in Nat
    BY <1>1, <1>4 DEF Mark
  <2>4. QED
    BY <2>1, <2>2, <2>3
<1>7. /\ from \in Nat /\ to \in Nat /\ from < to /\ to <= RunLen(run)
      /\ run.start + from = s.at /\ run.start + to = e.at + 1
  <2>1. /\ d.start.offset = s.at /\ d.end.offset = e.at + 1
        /\ run.start <= s.at /\ e.at < run.start + RunLen(run)
    BY <1>3, <1>4 DEF Covers
  <2>2. PICK start, len, a, b :
           start = run.start /\ len = RunLen(run) /\ a = s.at /\ b = e.at
    OBVIOUS
  <2>3. from = a - start /\ to = (b + 1) - start
    BY <2>1, <2>2
  <2>4. /\ start \in Nat /\ len \in Nat /\ a \in Nat /\ b \in Nat
        /\ start <= a /\ a <= b /\ b < start + len
    BY <2>1, <2>2, <1>3, <1>6
  <2> HIDE DEF run, from, to
  <2>5. /\ from \in Nat /\ to \in Nat /\ from < to /\ to <= len
        /\ start + from = a /\ start + to = b + 1
    BY <2>3, <2>4, PartOfLength
  <2>6. QED
    BY <2>2, <2>5
<1>8. \/ run.del /\ new = runs
      \/ new = DeleteRangeInLeaf(runs, i, from, to)
  BY DEF MergeDeletionInLeaf
<1>9. marks = MarksUpTo(runs, i) \cup RunMarks(run) \cup MarksFrom(runs, i + 1)
  BY <1>2, MarksBeside
<1>10. \A c : c \in part <=> /\ c \in RunMarks(run)
                             /\ s.at <= c.at /\ c.at < e.at + 1
  BY <1>2, <1>7, MarksOfSubRun
<1> HIDE DEF new, from, to, part, run, marks
<1>11. ASSUME NEW c \in R PROVE c \in part
  <2>1. c \in marks /\ ~(<<e, c>> \in order) /\ ~(<<c, s>> \in order)
    BY <1>1, OutsideOfRange DEF MarksWithin, marks
  <2>2. c \in RunMarks(run)
    BY <2>1, <1>5, <1>9 DEF IsLeafApart, run
  <2>3. c.at \in Nat /\ ~(c.at < s.at) /\ ~(e.at < c.at)
    BY <2>1, <2>2, <1>5 DEF IsLeafApart, run
  <2>4. s.at <= c.at /\ c.at < e.at + 1
    BY <2>3, <1>6
  <2>5. QED
    BY <2>2, <2>4, <1>10
<1>12. ASSUME NEW c \in part PROVE c \in R
  <2>1. c \in RunMarks(run) /\ s.at <= c.at /\ c.at < e.at + 1
    BY <1>10
  <2>2. /\ c.at \in Nat /\ c.id = e.id
        /\ c.at < e.at => <<c, e>> \in order
        /\ c.at = e.at => c = e
        /\ s.at < c.at => <<s, c>> \in order
        /\ s.at = c.at => s = c
    BY <2>1, <1>5 DEF IsLeafApart, run
  <2>3. (c.at < e.at \/ c.at = e.at) /\ (s.at < c.at \/ s.at = c.at)
        /\ c.at < d.version_map[e.id]
    BY <2>1, <2>2, <1>1, <1>6
  <2>4. IsWithin(order, s, e, c) /\ IsKnownTo(d, c)
    BY <2>2, <2>3 DEF IsWithin, IsKnownTo
  <2>5. QED
    BY <2>1, <2>4, <1>9 DEF MarksWithin
<1>13. R = part
  BY <1>11, <1>12
<1> HIDE DEF R
<1>14. CASE run.del /\ new = runs
  <2>1. part \subseteq DeadMarks(runs)
    <3>1. DeadOf(run) = RunMarks(run)
      BY <1>14 DEF DeadOf
    <3>2. RunMarks(run) \subseteq DeadMarks(runs)
      BY <3>1, <1>2 DEF DeadMarks, run
    <3>3. QED
      BY <3>2, <1>10
  <2>2. QED
    BY <2>1, <1>13, <1>14 DEF R, new, marks
<1>15. CASE new = DeleteRangeInLeaf(runs, i, from, to)
  <2>1. IsRangeDeleted(runs, i, from, to, new, LeafAfterDeleted(runs, i, from, to))
    BY <1>2, <1>7, <1>15, RangeIsDeleted DEF run
  <2>2. DeadMarks(new) = DeadMarks(runs) \cup part
    BY <2>1 DEF IsRangeDeleted, part, run
  <2>3. QED
    BY <2>2, <1>13 DEF R, new, marks
<1>16. QED
  BY <1>8, <1>14, <1>15

(* A deletion that is merged deletes what is within its range, however     *)
(* the document is cut into leaves and whatever is deleted already.        *)
LEMMA MergeDeletionDeletes ==
    ASSUME NEW order, KeepsRuns(order), NEW runs, WellFormed(order, runs),
           NEW d, NEW s, NEW e,
           IsDeletionIn(order, DocumentMarks(runs), d, s, e),
           MergeDeletion(runs, d).sound
    PROVE  DeadMarks(MergeDeletion(runs, d).runs) =
             DeadMarks(runs)
               \cup MarksWithin(order, DocumentMarks(runs), d, s, e)
<1> DEFINE i == IdxAtAnchor(runs, d.start, "right")
           marks == DocumentMarks(runs)
           first == VisitFirstLeaf(runs, d)
           N == 2 * Len(runs)
           f == CHOOSE g : IsWalks(g, first, d, N)
           end == CHOOSE walk \in f[N] : TRUE
           result == MergeDeletion(runs, d)
           R == MarksWithin(order, marks, d, s, e)
           dead == DeadMarks(runs)
<1>1. /\ runs \in Seq(Runs) /\ Len(runs) \in Nat /\ DOMAIN runs = 1 .. Len(runs)
  BY LenProperties DEF WellFormed
<1>2. result = IF ContainsAnchor(runs[i], d.end)
               THEN MergeDeletionInLeaf(runs, d, i)
               ELSE [runs |-> end.runs, ranges |-> end.ranges,
                     sound |-> end.sound]
  BY DEF MergeDeletion, IsWalks, NextWalks
<1>3. /\ MarksHaveOnePlace(marks)
      /\ d.start.offset \in Nat /\ s \in marks /\ AnchoredAt(d.start, "right", s)
      /\ d.end.offset \in Nat /\ e \in marks /\ AnchoredAt(d.end, "left", e)
      /\ d.version_map \in [ReplicaIds -> Nat]
  BY DEF IsDeletionIn
<1>4. i \in 1 .. Len(runs) /\ s \in RunMarks(runs[i])
  BY <1>3, LeafOfMark
<1>5. runs[i] \in Runs
  BY <1>1, <1>4, ElementOfSeq
<1> HIDE DEF result, i
<1>6. CASE ContainsAnchor(runs[i], d.end)
  <2>1. e \in Mark /\ e.id = d.end.id /\ e.at + 1 = d.end.offset
    BY <1>1, <1>3, MarksAreMarks DEF AnchoredAt
  <2>2. PICK c : c = [id |-> runs[i].id, at |-> e.at, ts |-> runs[i].ts,
                      lam |-> runs[i].lam]
    OBVIOUS
  <2>3. e.at \in runs[i].start .. runs[i].end - 1
    BY <2>1, <1>3, <1>5, <1>6 DEF ContainsAnchor, Mark, Runs, RunType
  <2>4. c \in RunMarks(runs[i])
    BY <2>2, <2>3 DEF RunMarks
  <2>5. c \in marks
    BY <2>4, <1>1, <1>4 DEF DocumentMarks
  <2>6. c.id = e.id /\ c.at = e.at
    BY <2>1, <2>2, <1>6 DEF ContainsAnchor
  <2>7. c = e
    BY <2>5, <2>6, <1>3 DEF MarksHaveOnePlace
  <2>8. e \in RunMarks(runs[i])
    BY <2>4, <2>7
  <2>9. result = MergeDeletionInLeaf(runs, d, i)
    BY <1>2, <1>6
  <2>10. DeadMarks(MergeDeletionInLeaf(runs, d, i).runs) = dead \cup R
    BY <2>8, <1>4, LeafDeletes
  <2>11. QED
    BY <2>9, <2>10 DEF result
<1>7. CASE ~ContainsAnchor(runs[i], d.end)
  <2>1. result.runs = end.runs /\ result.sound = end.sound
    BY <1>2, <1>7
  <2>2. N \in Nat
    BY <1>1
  <2>3. KeepsMarks(order, first, marks)
    <3>1. HasLeafAt(runs, d.start, "right")
      BY <1>1, <1>3, HasLeafIffMark
    <3>2. QED
      BY <3>1, <1>3, FirstLeafVisited
  <2>4. IsDeleting(order, first, marks, dead, d, s, e, N)
    BY <2>3, <1>7, DeletingStarts DEF i
  <2> HIDE DEF first, N
  <2>5. IsWalks(f, first, d, N)
    BY <2>2, WalksExist
  <2> HIDE DEF f, marks, dead
  <2>6. f[N] # {} /\ \A w \in f[N] : IsDeleting(order, w, marks, dead, d, s, e, 0)
    <3>1. IsDeletionIn(order, marks, d, s, e)
      BY DEF marks
    <3>2. QED
      BY <3>1, <2>2, <2>4, <2>5, WalksDelete
  <2>7. end \in f[N]
    BY <2>6
  <2> HIDE DEF end, R
  <2>8. IsDeleting(order, end, marks, dead, d, s, e, 0)
    BY <2>6, <2>7
  <2>9. end.sound
    BY <2>1 DEF result
  <2>10. HasDeleted(order, end.runs, end.i, end.done, dead, R, s, e)
         /\ (~end.done => /\ VisitsLeft(end.runs, end.i, d) \in Nat
                          /\ VisitsLeft(end.runs, end.i, d) < 0)
    BY <2>8, <2>9 DEF IsDeleting, R
  <2>11. end.done
    BY <2>10
  <2>12. DeadMarks(end.runs) = dead \cup R
    BY <2>10, <2>11 DEF HasDeleted, DeletesOnly
  <2>13. QED
    BY <2>1, <2>12 DEF result, marks, dead, R
<1>8. QED
  BY <1>6, <1>7

------------------------------------------------------------------------------
(* Insertions neither delete nor revive anything.                          *)
LEMMA DeadOfExtended ==
    ASSUME NEW runs \in Seq(Runs), NEW i \in 1 .. Len(runs), ~runs[i].del,
           NEW end \in Nat, runs[i].start < end
    PROVE  DeadMarks([runs EXCEPT ![i].end = end]) = DeadMarks(runs)
<1>1. runs[i] \in Runs
  BY ElementOfSeq
<1> DEFINE e == [runs[i] EXCEPT !.end = end]
<1>2. e \in Runs /\ ~e.del
  BY <1>1 DEF Runs, RunType
<1>3. [runs EXCEPT ![i].end = end] = [runs EXCEPT ![i] = e]
  OBVIOUS
<1> HIDE DEF e
<1>4. [runs EXCEPT ![i] = e] = Splice(runs, i, <<e>>)
  BY <1>2, ExceptIsSplice
<1>5. PICK N : N = {}
  OBVIOUS
<1>6. PICK Q : Q = <<e>>
  OBVIOUS
<1>7. Q \in Seq(Runs)
  BY <1>2, <1>6
<1>8. DeadMarks(Q) = DeadOf(runs[i]) \cup N
  BY <1>2, <1>5, <1>6, DeadOfOne DEF DeadOf
<1>9. DeadMarks(Splice(runs, i, Q)) = DeadMarks(runs) \cup N
  BY <1>7, <1>8, DeadOfSplice
<1>10. QED
  BY <1>3, <1>4, <1>5, <1>6, <1>9

LEMMA DeadOfSplitWith ==
    ASSUME NEW runs \in Seq(Runs), NEW i \in 1 .. Len(runs),
           NEW order, KeepsRuns(order),
           NEW at \in 1 .. RunLen(runs[i]), NEW run \in Runs, ~run.del
    PROVE  DeadMarks(Splice(runs, i, InsertAt(SplitRun(runs[i], at), 2, run)))
              = DeadMarks(runs)
<1>1. runs[i] \in Runs
  BY ElementOfSeq
<1>2. PICK s : s = SplitRun(runs[i], at)
  OBVIOUS
<1>3. s \in Seq(Runs) /\ s # <<>> /\ DeadMarks(s) = DeadOf(runs[i])
  BY <1>1, <1>2, SplitRunCuts, DeadOfSplit
<1>4. 2 \in 1 .. Len(s) + 1
  BY <1>3, LenProperties, EmptySeq
<1>5. PICK t : t = InsertAt(s, 2, run)
  OBVIOUS
<1>6. PICK N : N = {}
  OBVIOUS
<1>7. t \in Seq(Runs) /\ DeadMarks(t) = DeadOf(runs[i]) \cup N
  BY <1>3, <1>4, <1>5, <1>6, DeadOfInsertAt
<1>8. DeadMarks(Splice(runs, i, t)) = DeadMarks(runs) \cup N
  BY <1>7, DeadOfSplice
<1>9. QED
  BY <1>2, <1>5, <1>6, <1>8

LEMMA InsertKeepsDead ==
    ASSUME NEW order, KeepsRuns(order), NEW runs, WellFormed(order, runs),
           NEW offset \in Nat, offset <= DocumentLen(runs),
           NEW text, text.id \in ReplicaIds, text.start \in Nat,
           text.end \in Nat, text.start < text.end,
           NEW run_c \in Nat, NEW lam_c \in Nat
    PROVE  DeadMarks(Insert(runs, offset, text, run_c, lam_c).runs)
              = DeadMarks(runs)
<1> DEFINE i == LeafAtOffset(runs, offset)
           at == offset - OffsetOfLeaf(runs, i)
           new == EditRunRecord(text.id, text.start, text.end, run_c, lam_c)
<1>1. runs \in Seq(Runs) /\ Len(runs) \in Nat
  BY LenProperties DEF WellFormed
<1>2. new \in Runs /\ ~new.del
  BY NewRun
<1>3. CASE offset = 0
  <2> HIDE DEF new
  <2>1. Insert(runs, offset, text, run_c, lam_c).runs = <<new>> \o runs
    BY <1>3 DEF Insert, new
  <2>2. <<new>> \in Seq(Runs)
    BY <1>2
  <2>3. DeadMarks(<<new>>) = {}
    BY <1>2, DeadOfOne DEF DeadOf
  <2>4. DeadMarks(<<new>> \o runs) = DeadMarks(<<new>>) \cup DeadMarks(runs)
    BY <1>1, <2>2, DeadOfConcat, ZenonT(40)
  <2>5. QED
    BY <2>1, <2>3, <2>4
<1>4. ASSUME offset # 0
      PROVE  /\ i \in 1 .. Len(runs) /\ runs[i] \in Runs /\ ~runs[i].del
             /\ at \in 1 .. RunLen(runs[i])
             /\ runs[i].start \in Nat /\ runs[i].end \in Nat
             /\ runs[i].end = runs[i].start + RunLen(runs[i])
             /\ RunLen(runs[i]) \in Nat
  <2>1. /\ i \in 1 .. Len(runs) /\ OffsetOfLeaf(runs, i) \in Nat
        /\ OffsetOfLeaf(runs, i) < offset
        /\ offset <= OffsetOfLeaf(runs, i) + VisibleLen(runs[i])
    BY <1>1, <1>4, LeafAtOffsetExists
  <2> HIDE DEF i
  <2>2. runs[i] \in Runs
    BY <1>1, <2>1, ElementOfSeq
  <2>3. runs[i].start \in Nat /\ RunLen(runs[i]) \in Nat
        /\ runs[i].end = runs[i].start + RunLen(runs[i])
        /\ VisibleLen(runs[i]) \in Nat
    BY <2>2, RunLength DEF VisibleLen
  <2>4. at \in Nat /\ 0 < at /\ at <= VisibleLen(runs[i])
    <3>1. \A o, v \in Nat : o < offset /\ offset <= o + v
             => offset - o \in Nat /\ 0 < offset - o /\ offset - o <= v
      OBVIOUS
    <3>2. QED
      BY <3>1, <2>1, <2>3
  <2>5. ~runs[i].del
    BY <2>4 DEF VisibleLen
  <2> HIDE DEF at
  <2>6. VisibleLen(runs[i]) = RunLen(runs[i])
    BY <2>5 DEF VisibleLen
  <2>7. at \in 1 .. RunLen(runs[i])
    BY <2>3, <2>4, <2>6
  <2>8. runs[i].end \in Nat
    BY <2>3
  <2>9. QED
    BY <2>1, <2>2, <2>3, <2>5, <2>7, <2>8 DEF at, i
<1>5. CASE offset # 0 /\ ContinuesRun(runs[i], at, text, lam_c)
  <2>1. Insert(runs, offset, text, run_c, lam_c).runs
          = [runs EXCEPT ![i].end = text.end]
    BY <1>5 DEF Insert
  <2>2. runs[i].end = text.start
    BY <1>5 DEF ContinuesRun
  <2> HIDE DEF at, i, new
  <2>3. runs[i].start < text.end
    BY <1>4, <1>5, <2>2
  <2>4. DeadMarks([runs EXCEPT ![i].end = text.end]) = DeadMarks(runs)
    BY <1>1, <1>4, <1>5, <2>3, DeadOfExtended
  <2>5. QED
    BY <2>1, <2>4
<1>6. CASE offset # 0 /\ ~ContinuesRun(runs[i], at, text, lam_c)
  <2>1. Insert(runs, offset, text, run_c, lam_c).runs
          = Splice(runs, i, InsertAt(SplitRun(runs[i], at), 2, new))
    BY <1>6 DEF Insert
  <2> HIDE DEF at, i, new
  <2>2. DeadMarks(Splice(runs, i, InsertAt(SplitRun(runs[i], at), 2, new)))
          = DeadMarks(runs)
    BY <1>1, <1>2, <1>4, <1>6, DeadOfSplitWith
  <2>3. QED
    BY <2>1, <2>2
<1>7. QED
  BY <1>3, <1>5, <1>6

LEMMA MergeInsertionKeepsDead ==
    ASSUME NEW order, KeepsRuns(order), NEW runs, WellFormed(order, runs),
           NEW m, m.by \in ReplicaIds, m.start \in Nat, m.end \in Nat,
           m.start < m.end, m.ts \in Nat, m.lam \in Nat,
           \/ m.anchor = ZeroAnchor
           \/ m.anchor.offset \in Nat /\ HasLeafAt(runs, m.anchor, "left")
    PROVE  DeadMarks(MergeInsertion(runs, m).runs) = DeadMarks(runs)
<1> DEFINE i == IdxAtAnchor(runs, m.anchor, "left")
           run == EditRunRecord(m.by, m.start, m.end, m.ts, m.lam)
           new == MergeInsertion(runs, m).runs
<1>1. /\ runs \in Seq(Runs) /\ Len(runs) \in Nat /\ DOMAIN runs = 1 .. Len(runs)
      /\ Len(runs) # 0 /\ \A k \in 1 .. Len(runs) : runs[k] \in Runs
  BY LenProperties, EmptySeq, ElementOfSeq DEF WellFormed
<1>2. /\ run \in Runs /\ ~run.del /\ run.start = m.start /\ run.end = m.end
  BY NewRun
<1>3. CASE m.anchor = ZeroAnchor
  <2>1. new = InsertRunAtZero(runs, run).runs
    BY <1>3 DEF MergeInsertion
  <2> DEFINE q == PositionFrom(runs, run, 2)
  <2>2. 2 \in 1 .. Len(runs) + 1
    BY <1>1
  <2>3. q \in 2 .. Len(runs) + 1
    BY <1>1, <2>2, PositionFromExists
  <2>4. \/ new = InsertAt(runs, 1, run)
        \/ new = InsertAt(runs, q, run)
    BY <2>1 DEF InsertRunAtZero, InsertRun
  <2> HIDE DEF q, new, run
  <2>5. 1 \in 1 .. Len(runs) + 1 /\ q \in 1 .. Len(runs) + 1
    BY <1>1, <2>3
  <2>6. PICK p \in 1 .. Len(runs) + 1 : new = InsertAt(runs, p, run)
    BY <2>4, <2>5
  <2>7. DeadMarks(InsertAt(runs, p, run)) = DeadMarks(runs)
    BY <1>1, <1>2, DeadOfInsertAt
  <2>8. QED
    BY <2>6, <2>7 DEF new
<1>4. ASSUME m.anchor # ZeroAnchor
      PROVE  /\ i \in 1 .. Len(runs) /\ runs[i] \in Runs
             /\ runs[i].start < m.anchor.offset
             /\ m.anchor.offset <= runs[i].end
             /\ m.anchor.offset \in Nat /\ runs[i].start \in Nat
             /\ runs[i].end \in Nat
             /\ RunLen(runs[i]) = runs[i].end - runs[i].start
  <2>1. i \in LeavesAtAnchor(runs, m.anchor, "left")
    BY <1>4 DEF IdxAtAnchor, HasLeafAt
  <2> HIDE DEF i
  <2>2. /\ i \in 1 .. Len(runs)
        /\ runs[i].start < m.anchor.offset
        /\ m.anchor.offset <= runs[i].end
    BY <2>1, <1>1 DEF LeavesAtAnchor
  <2>3. runs[i].start \in Nat /\ runs[i].end \in Nat
    BY <1>1, <2>2 DEF Runs, RunType
  <2>4. QED
    BY <1>1, <1>4, <2>2, <2>3 DEF RunLen
<1>5. CASE m.anchor # ZeroAnchor /\ m.anchor.offset < runs[i].end
  <2> DEFINE at == m.anchor.offset - runs[i].start
  <2>1. new = Splice(runs, i, InsertAt(SplitRun(runs[i], at), 2, run))
    BY <1>5 DEF MergeInsertion, SplitRunWithAnother
  <2>2. at \in 1 .. RunLen(runs[i])
    BY <1>4, <1>5, SMTT(30)
  <2> HIDE DEF at, i, run, new
  <2>3. DeadMarks(Splice(runs, i, InsertAt(SplitRun(runs[i], at), 2, run)))
          = DeadMarks(runs)
    BY <1>1, <1>2, <1>4, <1>5, <2>2, DeadOfSplitWith
  <2>4. QED
    BY <2>1, <2>3 DEF new
<1>6. CASE m.anchor # ZeroAnchor /\ ~(m.anchor.offset < runs[i].end)
  <2> DEFINE q == PositionFrom(runs, run, i + 1)
  <2>1. new = InsertRunAfterAnchor(runs, run, i).runs
    BY <1>6 DEF MergeInsertion
  <2>2. \/ CanAppend(runs[i], run) /\ new = [runs EXCEPT ![i].end = run.end]
        \/ new = InsertAt(runs, q, run)
    BY <2>1 DEF InsertRunAfterAnchor, InsertRun
  <2>3. i + 1 \in 1 .. Len(runs) + 1
    BY <1>1, <1>4, <1>6
  <2> HIDE DEF run, i, new
  <2>4. q \in i + 1 .. Len(runs) + 1
    BY <1>1, <2>3, PositionFromExists
  <2> HIDE DEF q
  <2>5. CASE CanAppend(runs[i], run) /\ new = [runs EXCEPT ![i].end = run.end]
    <3>1. ~runs[i].del /\ runs[i].end = m.start
      BY <2>5, <1>2 DEF CanAppend, SameRun
    <3>2. runs[i].start < run.end /\ run.end \in Nat
      BY <3>1, <1>2, <1>4, <1>6
    <3>3. DeadMarks([runs EXCEPT ![i].end = run.end]) = DeadMarks(runs)
      BY <1>1, <1>4, <1>6, <3>1, <3>2, DeadOfExtended
    <3>4. QED
      BY <2>5, <3>3 DEF new
  <2>6. CASE new = InsertAt(runs, q, run)
    <3>1. q \in 1 .. Len(runs) + 1
      BY <2>3, <2>4
    <3>2. DeadMarks(InsertAt(runs, q, run)) = DeadMarks(runs)
      BY <1>1, <1>2, <3>1, DeadOfInsertAt
    <3>3. QED
      BY <2>6, <3>2 DEF new
  <2>7. QED
    BY <2>2, <2>5, <2>6
<1>7. QED
  BY <1>3, <1>5, <1>6

------------------------------------------------------------------------------
(* A local deletion deletes what lies between its ends.                    *)
LEMMA DeadOfSubSeq ==
    ASSUME NEW runs \in Seq(Runs),
           NEW m \in 1 .. Len(runs) + 1, NEW n \in 0 .. Len(runs)
    PROVE  \A c : c \in DeadMarks(SubSeq(runs, m, n))
                     <=> \E k \in m .. n : c \in DeadOf(runs[k])
<1> DEFINE s == SubSeq(runs, m, n)
<1>1. Len(runs) \in Nat /\ \A k \in 1 .. Len(runs) : runs[k] \in Runs
  BY LenProperties, ElementOfSeq
<1>2. m \in Int /\ n \in Int /\ \A k \in m .. n : runs[k] \in Runs
  BY <1>1
<1>3. /\ s \in Seq(Runs)
      /\ Len(s) = IF m <= n THEN n - m + 1 ELSE 0
      /\ \A k \in 1 .. n - m + 1 : s[k] = runs[m + k - 1]
  BY <1>2, SubSeqProperties
<1> HIDE DEF s
<1>4. DOMAIN s = 1 .. Len(s)
  BY <1>3, LenProperties
<1>5. ASSUME NEW c, c \in DeadMarks(s)
      PROVE  \E k \in m .. n : c \in DeadOf(runs[k])
  <2>1. PICK k \in 1 .. Len(s) : c \in DeadOf(s[k])
    BY <1>4, <1>5 DEF DeadMarks
  <2>2. k \in 1 .. n - m + 1 /\ m + k - 1 \in m .. n
    BY <1>2, <1>3
  <2>3. QED
    BY <2>1, <2>2, <1>3
<1>6. ASSUME NEW c, NEW k \in m .. n, c \in DeadOf(runs[k])
      PROVE  c \in DeadMarks(s)
  <2>1. /\ k - m + 1 \in 1 .. n - m + 1 /\ k - m + 1 \in 1 .. Len(s)
        /\ m + (k - m + 1) - 1 = k
    BY <1>2, <1>3
  <2>2. s[k - m + 1] = runs[k]
    BY <1>3, <2>1
  <2>3. QED
    BY <1>4, <1>6, <2>1, <2>2 DEF DeadMarks
<1>7. QED
  BY <1>5, <1>6 DEF s

LEMMA DeadOfTombstones ==
    ASSUME NEW runs \in Seq(Runs), NEW p \in 1 .. Len(runs),
           NEW q \in 1 .. Len(runs), p < q
    PROVE  LET T == [k \in 1 .. q - p - 1 |-> Tombstone(runs[p + k])]
           IN  /\ T \in Seq(Runs)
               /\ \A c : c \in DeadMarks(T)
                     <=> \E k \in p + 1 .. q - 1 : c \in RunMarks(runs[k])
<1> DEFINE T == [k \in 1 .. q - p - 1 |-> Tombstone(runs[p + k])]
<1>1. /\ Len(runs) \in Nat /\ \A k \in 1 .. Len(runs) : runs[k] \in Runs
      /\ q - p - 1 \in Nat
  BY LenProperties, ElementOfSeq
<1>2. ASSUME NEW k \in 1 .. q - p - 1
      PROVE  T[k] \in Runs /\ DeadOf(T[k]) = RunMarks(runs[p + k])
  <2>1. p + k \in 1 .. Len(runs)
    BY <1>1
  <2>2. runs[p + k] \in Runs /\ T[k] = Tombstone(runs[p + k])
    BY <1>1, <2>1
  <2>3. Tombstone(runs[p + k]).del
    BY <2>2 DEF Tombstone, Runs, RunType
  <2>4. QED
    BY <2>2, <2>3, TombstoneOfRun DEF DeadOf
<1>3. DOMAIN T = 1 .. q - p - 1
  OBVIOUS
<1>4. T \in Seq(Runs)
  BY <1>1, <1>2, SMTT(30)
<1> HIDE DEF T
<1>5. \A c : c \in DeadMarks(T) <=> \E k \in 1 .. q - p - 1 : c \in DeadOf(T[k])
  BY <1>3 DEF DeadMarks
<1>6. ASSUME NEW c, NEW k \in 1 .. q - p - 1, c \in DeadOf(T[k])
      PROVE  \E j \in p + 1 .. q - 1 : c \in RunMarks(runs[j])
  <2>1. p + k \in p + 1 .. q - 1
    OBVIOUS
  <2>2. QED
    BY <1>2, <1>6, <2>1
<1>7. ASSUME NEW c, NEW j \in p + 1 .. q - 1, c \in RunMarks(runs[j])
      PROVE  \E k \in 1 .. q - p - 1 : c \in DeadOf(T[k])
  <2>1. j - p \in 1 .. q - p - 1 /\ p + (j - p) = j
    OBVIOUS
  <2>2. DeadOf(T[j - p]) = RunMarks(runs[j])
    BY <1>2, <2>1
  <2>3. QED
    BY <1>7, <2>1, <2>2
<1>8. QED
  BY <1>4, <1>5, <1>6, <1>7 DEF T

LEMMA DeadOfFive ==
    ASSUME NEW S, NEW a \in Seq(S), NEW p \in Seq(S), NEW t \in Seq(S),
           NEW u \in Seq(S), NEW b \in Seq(S)
    PROVE  DeadMarks(a \o p \o t \o u \o b)
              = DeadMarks(a) \cup DeadMarks(p) \cup DeadMarks(t)
                  \cup DeadMarks(u) \cup DeadMarks(b)
<1>1. PICK v : v = a \o p \o t
  OBVIOUS
<1>2. v \in Seq(S)
  <2>1. PICK w : w = a \o p
    OBVIOUS
  <2>2. w \in Seq(S)
    BY <2>1, ConcatProperties
  <2>3. w \o t \in Seq(S)
    BY <2>2, ConcatProperties
  <2>4. QED
    BY <1>1, <2>1, <2>3
<1>3. DeadMarks(v) = DeadMarks(a) \cup DeadMarks(p) \cup DeadMarks(t)
  BY <1>1, DeadOfThree
<1>4. DeadMarks(v \o u \o b) = DeadMarks(v) \cup DeadMarks(u) \cup DeadMarks(b)
  BY <1>2, DeadOfThree
<1>5. QED
  BY <1>1, <1>3, <1>4

LEMMA MarksOfTail ==
    ASSUME NEW run \in Runs, NEW from \in Nat, from <= RunLen(run)
    PROVE  \A c : c \in RunMarks(SubRun(run, from, RunLen(run)))
                    <=> c \in RunMarks(run) /\ run.start + from <= c.at
<1>1. PICK to : to = RunLen(run)
  OBVIOUS
<1>2. to \in Nat /\ from <= to /\ to <= RunLen(run) /\ run \in RunType
      /\ run.end = run.start + to
  BY <1>1, RunLength
<1>3. \A c : c \in RunMarks(SubRun(run, from, to)) <=>
               /\ c \in RunMarks(run)
               /\ run.start + from <= c.at /\ c.at < run.start + to
  BY <1>2, MarksOfSubRun
<1>4. \A c \in RunMarks(run) : c.at < run.start + to
  <2>1. \A c \in RunMarks(run) : Covers(run, c)
    BY <1>2, MarkOfRun
  <2>2. QED
    BY <2>1, <1>2 DEF Covers
<1>5. QED
  BY <1>1, <1>3, <1>4

LEMMA MarksOfHead ==
    ASSUME NEW run \in Runs, NEW to \in Nat, to <= RunLen(run)
    PROVE  \A c : c \in RunMarks(SubRun(run, 0, to))
                    <=> c \in RunMarks(run) /\ c.at < run.start + to
<1>1. PICK from : from = 0
  OBVIOUS
<1>2. from \in Nat /\ from <= to /\ run \in RunType
      /\ run.start \in Nat /\ run.start + from = run.start
  BY <1>1, RunLength
<1>3. \A c : c \in RunMarks(SubRun(run, from, to)) <=>
               /\ c \in RunMarks(run)
               /\ run.start + from <= c.at /\ c.at < run.start + to
  BY <1>2, MarksOfSubRun
<1>4. \A c \in RunMarks(run) : run.start + from <= c.at
  <2>1. \A c \in RunMarks(run) : Covers(run, c)
    BY <1>2, MarkOfRun
  <2>2. QED
    BY <2>1, <1>2 DEF Covers
<1>5. QED
  BY <1>1, <1>3, <1>4

LEMMA InodeDeletes ==
    ASSUME NEW order, KeepsRuns(order), NEW runs, WellFormed(order, runs),
           NEW d, NEW s, NEW e,
           IsDeletionIn(order, DocumentMarks(runs), d, s, e),
           NEW p \in 1 .. Len(runs), NEW q \in 1 .. Len(runs), p < q,
           s \in RunMarks(runs[p]), e \in RunMarks(runs[q]),
           NEW from \in Nat, from < RunLen(runs[p]),
           s.at = runs[p].start + from,
           NEW to \in Nat, 0 < to, to <= RunLen(runs[q]),
           e.at + 1 = runs[q].start + to,
           \A k \in p .. q : ~runs[k].del
              => \A c \in RunMarks(runs[k]) : IsKnownTo(d, c)
    PROVE  DeadMarks(DeleteRangeInInode(runs, p, from, q, to)) =
             DeadMarks(runs) \cup MarksWithin(order, DocumentMarks(runs), d, s, e)
<1> DEFINE A == SubSeq(runs, 1, p - 1)
           B == SubSeq(runs, q + 1, Len(runs))
           X == DeleteFrom(runs[p], from)
           T == [k \in 1 .. q - p - 1 |-> Tombstone(runs[p + k])]
           Y == DeleteUpTo(runs[q], to)
           P == RunMarks(SubRun(runs[p], from, RunLen(runs[p])))
           Q == RunMarks(SubRun(runs[q], 0, to))
           new == DeleteRangeInInode(runs, p, from, q, to)
           marks == DocumentMarks(runs)
           R == MarksWithin(order, marks, d, s, e)
<1>1. /\ runs \in Seq(Runs) /\ RunsAreOrdered(order, runs) /\ Len(runs) \in Nat
      /\ DOMAIN runs = 1 .. Len(runs)
      /\ \A k \in 1 .. Len(runs) : runs[k] \in Runs
  BY LenProperties, ElementOfSeq DEF WellFormed
<1>2. /\ runs[p] \in Runs /\ runs[q] \in Runs
      /\ RunLen(runs[p]) \in Nat /\ RunLen(runs[q]) \in Nat
      /\ runs[q].start \in Nat /\ runs[p].start \in Nat
  <2>1. runs[p] \in Runs /\ runs[q] \in Runs
    BY <1>1
  <2>2. QED
    BY <2>1, RunLength
<1>3. new = A \o X \o T \o Y \o B
  BY DEF DeleteRangeInInode
<1>4. X \in Seq(Runs) /\ DeadMarks(X) = DeadOf(runs[p]) \cup P
  <2>1. PICK run, len : run = runs[p] /\ len = RunLen(runs[p])
    OBVIOUS
  <2>2. /\ run \in Runs /\ len \in Nat /\ len <= RunLen(run) /\ from < len
    BY <1>2, <2>1
  <2>3. DeleteRange(run, from, len) \in Seq(Runs)
    BY <2>2, DeleteRangeCuts
  <2>4. DeadMarks(DeleteRange(run, from, len)) =
          DeadOf(run) \cup RunMarks(SubRun(run, from, len))
    BY <2>2, DeadOfDeleteRange
  <2>5. QED
    BY <2>1, <2>3, <2>4 DEF DeleteFrom
<1>5. Y \in Seq(Runs) /\ DeadMarks(Y) = DeadOf(runs[q]) \cup Q
  BY <1>2, DeleteRangeCuts, DeadOfDeleteRange DEF DeleteUpTo
<1>6. /\ T \in Seq(Runs)
      /\ \A c : c \in DeadMarks(T)
            <=> \E k \in p + 1 .. q - 1 : c \in RunMarks(runs[k])
  BY DeadOfTombstones, <1>1
<1>7. A \in Seq(Runs) /\ B \in Seq(Runs)
  BY <1>1, ApartAt
<1>8. /\ 1 \in 1 .. Len(runs) + 1 /\ p - 1 \in 0 .. Len(runs)
      /\ q + 1 \in 1 .. Len(runs) + 1 /\ Len(runs) \in 0 .. Len(runs)
  BY <1>1
<1>9. /\ \A c : c \in DeadMarks(A)
                   <=> \E k \in 1 .. p - 1 : c \in DeadOf(runs[k])
      /\ \A c : c \in DeadMarks(B)
                   <=> \E k \in q + 1 .. Len(runs) : c \in DeadOf(runs[k])
  BY <1>1, <1>8, DeadOfSubSeq
<1>10. \A c : c \in P <=> c \in RunMarks(runs[p]) /\ s.at <= c.at
  <2>1. PICK run : run = runs[p]
    OBVIOUS
  <2>2. run \in Runs /\ from <= RunLen(run)
    BY <1>2, <2>1
  <2>3. \A c : c \in RunMarks(SubRun(run, from, RunLen(run)))
                 <=> c \in RunMarks(run) /\ run.start + from <= c.at
    BY <2>2, MarksOfTail
  <2>4. QED
    BY <2>1, <2>3
<1>11. \A c : c \in Q <=> c \in RunMarks(runs[q]) /\ c.at <= e.at
  <2>1. \A c : c \in Q <=> c \in RunMarks(runs[q]) /\ c.at < runs[q].start + to
    BY <1>2, MarksOfHead
  <2>2. \A c \in RunMarks(runs[q]) : c.at \in Nat
    BY <1>2, RunLength, MarkOfRun DEF Mark
  <2> HIDE DEF Q
  <2>3. QED
    BY <2>1, <2>2
<1> HIDE DEF A, B, X, T, Y, P, Q, new, marks
<1>12. DeadMarks(new) = DeadMarks(A) \cup DeadMarks(X) \cup DeadMarks(T)
                           \cup DeadMarks(Y) \cup DeadMarks(B)
  BY <1>3, <1>4, <1>5, <1>6, <1>7, DeadOfFive
<1>13. /\ \A c : c \in DeadMarks(runs)
                   <=> \E k \in 1 .. Len(runs) : c \in DeadOf(runs[k])
       /\ \A c : c \in marks
                   <=> \E k \in 1 .. Len(runs) : c \in RunMarks(runs[k])
       /\ \A k : DeadOf(runs[k]) \subseteq RunMarks(runs[k])
       /\ \A k : ~runs[k].del \/ DeadOf(runs[k]) = RunMarks(runs[k])
  BY <1>1 DEF DeadMarks, DocumentMarks, DeadOf, marks
<1>14. /\ \A j, k \in 1 .. Len(runs) : j < k =>
            \A x \in RunMarks(runs[j]), y \in RunMarks(runs[k]) : <<x, y>> \in order
       /\ \A k \in 1 .. Len(runs) : \A x, y \in RunMarks(runs[k]) :
            /\ x.at \in Nat /\ y.at \in Nat
            /\ x.at < y.at => <<x, y>> \in order
            /\ x.at = y.at => x = y
  <2>1. ASSUME NEW k \in 1 .. Len(runs), NEW x \in RunMarks(runs[k]),
               NEW y \in RunMarks(runs[k])
        PROVE  /\ x.at \in Nat /\ y.at \in Nat
               /\ x.at < y.at => <<x, y>> \in order
               /\ x.at = y.at => x = y
    BY <2>1, LeafIsApart DEF IsLeafApart
  <2>2. QED
    BY <2>1, <1>1 DEF RunsAreOrdered, MarksBefore
<1>15. ASSUME NEW c \in R
       PROVE  c \in P \/ c \in DeadMarks(T) \/ c \in Q
  <2>1. c \in marks /\ ~(<<e, c>> \in order) /\ ~(<<c, s>> \in order)
    BY OutsideOfRange DEF MarksWithin, marks
  <2>2. PICK k \in 1 .. Len(runs) : c \in RunMarks(runs[k])
    BY <2>1, <1>13
  <2>3. ~(k < p) /\ ~(q < k)
    BY <2>1, <2>2, <1>14
  <2>4. k = p \/ k = q \/ k \in p + 1 .. q - 1
    BY <2>3, <1>1
  <2>5. CASE k = p
    BY <2>1, <2>2, <2>5, <1>10, <1>14
  <2>6. CASE k = q
    BY <2>1, <2>2, <2>6, <1>11, <1>14
  <2>7. CASE k \in p + 1 .. q - 1
    BY <2>2, <2>7, <1>6
  <2>8. QED
    BY <2>4, <2>5, <2>6, <2>7
<1>16. ASSUME NEW k \in p .. q, NEW c \in RunMarks(runs[k]),
              k = p => s.at <= c.at, k = q => c.at <= e.at
       PROVE  c \in DeadMarks(runs) \cup R
  <2>1. k \in 1 .. Len(runs) /\ (k = p \/ p < k) /\ (k = q \/ k < q)
    BY <1>1
  <2>2. c = s \/ <<s, c>> \in order
    <3>1. CASE k = p
      <4>1. s.at \in Nat /\ c.at \in Nat
            /\ (s.at < c.at => <<s, c>> \in order) /\ (s.at = c.at => s = c)
        BY <3>1, <1>14
      <4>2. s.at < c.at \/ s.at = c.at
        BY <3>1, <4>1, <1>16
      <4>3. QED
        BY <4>1, <4>2
    <3>2. CASE p < k
      BY <3>2, <2>1, <1>14
    <3>3. QED
      BY <2>1, <3>1, <3>2
  <2>3. c = e \/ <<c, e>> \in order
    <3>1. CASE k = q
      <4>1. e.at \in Nat /\ c.at \in Nat
            /\ (c.at < e.at => <<c, e>> \in order) /\ (c.at = e.at => c = e)
        BY <3>1, <1>14
      <4>2. c.at < e.at \/ c.at = e.at
        BY <3>1, <4>1, <1>16
      <4>3. QED
        BY <4>1, <4>2
    <3>2. CASE k < q
      BY <3>2, <2>1, <1>14
    <3>3. QED
      BY <2>1, <3>1, <3>2
  <2>4. IsWithin(order, s, e, c) /\ c \in marks
    BY <2>1, <2>2, <2>3, <1>13 DEF IsWithin
  <2>5. CASE ~runs[k].del
    BY <2>4, <2>5 DEF MarksWithin
  <2>6. CASE runs[k].del
    BY <2>1, <2>6, <1>13
  <2>7. QED
    BY <2>5, <2>6
<1> HIDE DEF R
<1>17. ASSUME NEW c \in DeadMarks(new)
       PROVE  c \in DeadMarks(runs) \cup R
  <2>1. CASE c \in DeadMarks(A)
    BY <2>1, <1>1, <1>9, <1>13
  <2>2. CASE c \in DeadMarks(B)
    <3>1. PICK k \in q + 1 .. Len(runs) : c \in DeadOf(runs[k])
      BY <2>2, <1>9
    <3>2. k \in 1 .. Len(runs)
      BY <1>1
    <3>3. QED
      BY <3>1, <3>2, <1>13
  <2>3. CASE c \in DeadOf(runs[p]) \/ c \in DeadOf(runs[q])
    BY <2>3, <1>13
  <2>4. CASE c \in P
    <3>1. p \in p .. q /\ p # q
      BY <1>1
    <3>2. QED
      BY <2>4, <3>1, <1>10, <1>16
  <2>5. CASE c \in Q
    <3>1. q \in p .. q /\ p # q
      BY <1>1
    <3>2. QED
      BY <2>5, <3>1, <1>11, <1>16
  <2>6. CASE c \in DeadMarks(T)
    <3>1. PICK k \in p + 1 .. q - 1 : c \in RunMarks(runs[k])
      BY <2>6, <1>6
    <3>2. k \in p .. q /\ k # p /\ k # q
      OBVIOUS
    <3>3. QED
      BY <3>1, <3>2, <1>16
  <2>7. QED
    BY <1>4, <1>5, <1>12, <2>1, <2>2, <2>3, <2>4, <2>5, <2>6
<1>18. ASSUME NEW c \in DeadMarks(runs)
       PROVE  c \in DeadMarks(new)
  <2>1. PICK k \in 1 .. Len(runs) : c \in DeadOf(runs[k])
    BY <1>13
  <2>2. \/ k \in 1 .. p - 1 \/ k = p \/ k \in p + 1 .. q - 1 \/ k = q
        \/ k \in q + 1 .. Len(runs)
    BY <1>1
  <2>3. c \in RunMarks(runs[k])
    BY <2>1, <1>13
  <2>4. \/ c \in DeadMarks(A) \/ c \in DeadOf(runs[p]) \/ c \in DeadMarks(T)
        \/ c \in DeadOf(runs[q]) \/ c \in DeadMarks(B)
    BY <2>1, <2>2, <2>3, <1>6, <1>9
  <2>5. QED
    BY <2>4, <1>4, <1>5, <1>12
<1>19. DeadMarks(new) = DeadMarks(runs) \cup R
  <2>1. \A c \in R : c \in DeadMarks(new)
    BY <1>4, <1>5, <1>12, <1>15
  <2>2. QED
    BY <2>1, <1>17, <1>18
<1>20. QED
  BY <1>19 DEF new, marks, R

LEMMA MarkOfLeaf ==
    ASSUME NEW runs \in Seq(Runs), NEW i \in 1 .. Len(runs),
           MarksHaveOnePlace(DocumentMarks(runs)),
           NEW c \in DocumentMarks(runs), c.id = runs[i].id,
           NEW at \in Nat, at < RunLen(runs[i]), c.at = runs[i].start + at
    PROVE  c \in RunMarks(runs[i])
<1>1. runs[i] \in Runs /\ DOMAIN runs = 1 .. Len(runs)
  BY LenProperties, ElementOfSeq
<1>2. PICK x : x = [id |-> runs[i].id, at |-> c.at, ts |-> runs[i].ts,
                    lam |-> runs[i].lam]
  OBVIOUS
<1>3. x \in RunMarks(runs[i])
  <2>1. /\ runs[i].start \in Nat /\ RunLen(runs[i]) \in Nat
        /\ runs[i].end = runs[i].start + RunLen(runs[i])
    BY <1>1, RunLength
  <2>2. c.at \in runs[i].start .. runs[i].end - 1
    BY <2>1
  <2>3. QED
    BY <1>2, <2>2 DEF RunMarks
<1>4. x \in DocumentMarks(runs)
  BY <1>1, <1>3 DEF DocumentMarks
<1>5. x.id = c.id /\ x.at = c.at
  BY <1>2
<1>6. x = c
  BY <1>4, <1>5 DEF MarksHaveOnePlace
<1>7. QED
  BY <1>3, <1>6

LEMMA DeleteDeletes ==
    ASSUME NEW order, KeepsRuns(order), NEW runs, WellFormed(order, runs),
           NEW from \in Nat, NEW to \in Nat, from < to, to <= DocumentLen(runs),
           NEW d, NEW s, NEW e,
           IsDeletionIn(order, DocumentMarks(runs), d, s, e),
           d.start = Delete(runs, from, to).start,
           d.end = Delete(runs, from, to).end,
           \A c \in DocumentMarks(runs) :
              c.id \in Delete(runs, from, to).ids => IsKnownTo(d, c)
    PROVE  DeadMarks(Delete(runs, from, to).runs) =
             DeadMarks(runs) \cup MarksWithin(order, DocumentMarks(runs), d, s, e)
<1> DEFINE p == LeafAtOffset(runs, from + 1)
           q == LeafAtOffset(runs, to)
           from_p == from - OffsetOfLeaf(runs, p)
           to_q == to - OffsetOfLeaf(runs, q)
           deleted == Delete(runs, from, to)
<1>1. /\ runs \in Seq(Runs) /\ Len(runs) \in Nat /\ DOMAIN runs = 1 .. Len(runs)
  BY LenProperties DEF WellFormed
<1>2. DocumentLen(runs) \in Nat
  <2>1. Len(runs) + 1 \in 1 .. Len(runs) + 1
    BY <1>1
  <2>2. QED
    BY <1>1, <2>1, OffsetsOfLeaves DEF DocumentLen
<1>3. /\ from + 1 \in Nat /\ 0 < from + 1 /\ from + 1 <= DocumentLen(runs)
      /\ 0 < to
  BY <1>2
<1>4. /\ p \in 1 .. Len(runs) /\ OffsetOfLeaf(runs, p) \in Nat
      /\ OffsetOfLeaf(runs, p) < from + 1
      /\ from + 1 <= OffsetOfLeaf(runs, p) + VisibleLen(runs[p])
  BY <1>1, <1>3, LeafAtOffsetExists
<1>5. /\ q \in 1 .. Len(runs) /\ OffsetOfLeaf(runs, q) \in Nat
      /\ OffsetOfLeaf(runs, q) < to
      /\ to <= OffsetOfLeaf(runs, q) + VisibleLen(runs[q])
  BY <1>1, <1>3, LeafAtOffsetExists
<1>6. deleted =
        [runs |-> IF p = q THEN DeleteRangeInLeaf(runs, p, from_p, to_q)
                  ELSE DeleteRangeInInode(runs, p, from_p, q, to_q),
         start |-> AnchorAt(runs[p], from_p),
         end |-> AnchorAt(runs[q], to_q),
         ids |-> {runs[k].id : k \in {j \in p .. q : ~runs[j].del}}]
  BY DEF Delete
<1> HIDE DEF p, q, deleted
<1>7. runs[p] \in Runs /\ runs[q] \in Runs
  BY <1>1, <1>4, <1>5, ElementOfSeq
<1>8. /\ RunLen(runs[p]) \in Nat /\ RunLen(runs[q]) \in Nat
      /\ runs[p].start \in Nat /\ runs[q].start \in Nat
      /\ VisibleLen(runs[p]) \in Nat /\ VisibleLen(runs[q]) \in Nat
  <2>1. /\ RunLen(runs[p]) \in Nat /\ RunLen(runs[q]) \in Nat
        /\ runs[p].start \in Nat /\ runs[q].start \in Nat
    BY <1>7, RunLength
  <2>2. QED
    BY <2>1 DEF VisibleLen
<1>9. /\ from_p \in Nat /\ from_p < VisibleLen(runs[p])
      /\ to_q \in Nat /\ 0 < to_q /\ to_q <= VisibleLen(runs[q])
      /\ to_q - 1 \in Nat /\ to_q - 1 < VisibleLen(runs[q])
  <2>1. \A o, v \in Nat : o < from + 1 /\ from + 1 <= o + v
                              => from - o \in Nat /\ from - o < v
    OBVIOUS
  <2>2. \A o, v \in Nat :
           o < to /\ to <= o + v
             => /\ to - o \in Nat /\ 0 < to - o /\ to - o <= v
                /\ to - o - 1 \in Nat /\ to - o - 1 < v
    OBVIOUS
  <2>3. from_p \in Nat /\ from_p < VisibleLen(runs[p])
    BY <2>1, <1>4, <1>8
  <2>4. QED
    BY <2>2, <2>3, <1>5, <1>8
<1>10. p <= q
  <2>1. SUFFICES ASSUME q < p PROVE FALSE
    BY <1>4, <1>5
  <2>2. q + 1 \in 1 .. Len(runs) + 1 /\ p \in 1 .. Len(runs) + 1 /\ q + 1 <= p
    BY <1>1, <1>4, <1>5, <2>1
  <2>3. OffsetOfLeaf(runs, q + 1) <= OffsetOfLeaf(runs, p)
    BY <1>1, <2>2, OffsetsGrow
  <2>4. OffsetOfLeaf(runs, q + 1) = OffsetOfLeaf(runs, q) + VisibleLen(runs[q])
    BY <1>1, <1>5, OffsetsOfLeaves
  <2>5. QED
    BY <2>3, <2>4, <1>4, <1>5, <1>8, SMTT(30)
<1>11. /\ ~runs[p].del /\ VisibleLen(runs[p]) = RunLen(runs[p])
       /\ ~runs[q].del /\ VisibleLen(runs[q]) = RunLen(runs[q])
  BY <1>8, <1>9 DEF VisibleLen
<1>12. /\ MarksHaveOnePlace(DocumentMarks(runs))
       /\ s \in DocumentMarks(runs) /\ s.id = runs[p].id
       /\ s.at = runs[p].start + from_p
       /\ e \in DocumentMarks(runs) /\ e.id = runs[q].id
       /\ e.at + 1 = runs[q].start + to_q
       /\ d.start.offset = runs[p].start + from_p
       /\ d.end.offset = runs[q].start + to_q
  BY <1>6 DEF IsDeletionIn, AnchoredAt, AnchorAt, deleted
<1> HIDE DEF from_p, to_q
<1>13. s \in RunMarks(runs[p])
  BY <1>1, <1>4, <1>9, <1>11, <1>12, MarkOfLeaf
<1>14. e \in RunMarks(runs[q])
  <2>1. e.at \in Nat
    BY <1>1, <1>12, MarksAreMarks DEF Mark
  <2>2. e.at = runs[q].start + (to_q - 1)
    BY <2>1, <1>8, <1>9, <1>12
  <2>3. QED
    BY <2>2, <1>1, <1>5, <1>9, <1>11, <1>12, MarkOfLeaf
<1>15. \A k \in p .. q : ~runs[k].del
          => \A c \in RunMarks(runs[k]) : IsKnownTo(d, c)
  <2>1. ASSUME NEW k \in p .. q, ~runs[k].del, NEW c \in RunMarks(runs[k])
        PROVE  IsKnownTo(d, c)
    <3>1. runs[k].id \in deleted.ids
      BY <1>6, <2>1
    <3>2. k \in 1 .. Len(runs)
      BY <1>1, <1>4, <1>5
    <3>3. c \in DocumentMarks(runs)
      BY <3>2, <1>1 DEF DocumentMarks
    <3>4. c.id = runs[k].id
      BY DEF RunMarks
    <3>5. QED
      BY <3>1, <3>3, <3>4 DEF deleted
  <2>2. QED
    BY <2>1
<1>16. CASE p = q
  <2>1. MergeDeletionInLeaf(runs, d, p).runs
          = DeleteRangeInLeaf(runs, p, from_p, to_q)
    <3>1. \A a, b \in Nat : \A c : c = a + b => c - a = b
      OBVIOUS
    <3>2. /\ d.start.offset - runs[p].start = from_p
          /\ d.end.offset - runs[p].start = to_q
      <4>1. runs[p].start \in Nat /\ from_p \in Nat /\ to_q \in Nat
        BY <1>8, <1>9
      <4>2. /\ d.start.offset = runs[p].start + from_p
            /\ d.end.offset = runs[p].start + to_q
        BY <1>12, <1>16
      <4>3. QED
        BY <3>1, <4>1, <4>2
    <3>3. \A i : ~runs[i].del => MergeDeletionInLeaf(runs, d, i).runs =
             DeleteRangeInLeaf(runs, i, d.start.offset - runs[i].start,
                               d.end.offset - runs[i].start)
      BY DEF MergeDeletionInLeaf
    <3>4. QED
      BY <3>2, <3>3, <1>11
  <2>2. DeadMarks(MergeDeletionInLeaf(runs, d, p).runs) =
          DeadMarks(runs) \cup MarksWithin(order, DocumentMarks(runs), d, s, e)
    BY <1>4, <1>13, <1>14, <1>16, LeafDeletes
  <2>3. deleted.runs = DeleteRangeInLeaf(runs, p, from_p, to_q)
    BY <1>6, <1>16
  <2>4. QED
    BY <2>1, <2>2, <2>3 DEF deleted
<1>17. CASE p < q
  <2>1. DeadMarks(DeleteRangeInInode(runs, p, from_p, q, to_q)) =
          DeadMarks(runs) \cup MarksWithin(order, DocumentMarks(runs), d, s, e)
    <3>1. from_p < RunLen(runs[p]) /\ to_q <= RunLen(runs[q])
      BY <1>9, <1>11
    <3>2. /\ s.at = runs[p].start + from_p /\ e.at + 1 = runs[q].start + to_q
          /\ p \in 1 .. Len(runs) /\ q \in 1 .. Len(runs)
          /\ from_p \in Nat /\ to_q \in Nat /\ 0 < to_q
      BY <1>4, <1>5, <1>9, <1>12
    <3>3. QED
      BY <3>1, <3>2, <1>13, <1>14, <1>15, <1>17, InodeDeletes
  <2>2. p # q
    BY <1>4, <1>5, <1>17
  <2>3. deleted.runs = DeleteRangeInInode(runs, p, from_p, q, to_q)
    BY <1>6, <2>2
  <2>4. QED
    BY <2>1, <2>3 DEF deleted
<1>18. QED
  BY <1>4, <1>5, <1>10, <1>16, <1>17

------------------------------------------------------------------------------
(* What each step of a replica does to the deleted characters.             *)
LeavesDead ==
    \A s \in ReplicaIds : DeadMarks(run_tree'[s]) = DeadMarks(run_tree[s])

IsDeletionOf(order, runs, d, s, e) ==
    /\ KeepsRuns(order) /\ WellFormed(order, runs)
    /\ IsDeletionIn(order, DocumentMarks(runs), d, s, e)

DeletesRange(order, runs, new, d, s, e) ==
    DeadMarks(new) =
        DeadMarks(runs) \cup MarksWithin(order, DocumentMarks(runs), d, s, e)

IsDeleted(runs, new, d) ==
    \A order, s, e :
        IsDeletionOf(order, runs, d, s, e)
            => DeletesRange(order, runs, new, d, s, e)

DeletesText(r, d) ==
    /\ \A s \in ReplicaIds \ {r} : run_tree'[s] = run_tree[s]
    /\ IsDeleted(run_tree[r], run_tree'[r], d)

(* The deletion made is of a range of the document, in whatever order.     *)
RangeIsHeld(r, d) ==
    \A order : KeepsRuns(order) /\ WellFormed(order, run_tree[r]) =>
        \E s, e \in DocumentMarks(run_tree[r]) :
           /\ StartsAt(d, s) /\ EndsAt(d, e) /\ IsKnownTo(d, s) /\ IsKnownTo(d, e)
           /\ s = e \/ <<s, e>> \in order

LEMMA InsertedLeavesDead ==
    ASSUME TypeOK, DocumentsAreSentText,
           NEW r \in ReplicaIds, NEW offset \in Nat,
           offset <= DocumentLen(run_tree[r]), NEW len \in InsertLens,
           Inserted(r, offset, len)
    PROVE  LeavesDead
<1> DEFINE runs == run_tree[r]
           text == [id |-> r, start |-> version_map[r][r],
                    end |-> version_map[r][r] + len]
           new == Insert(runs, offset, text, run_clock[r],
                         lamport_clock[r]).runs
<1>1. r \in replicas /\ run_tree' = [run_tree EXCEPT ![r] = new]
  BY DEF Inserted, Idle, Active
<1>2. /\ version_map[r][r] \in Nat /\ len \in Nat /\ len > 0
      /\ lamport_clock[r] \in Nat /\ run_clock[r] \in Nat
  BY InsertLensAssumption DEF TypeOK
<1>3. /\ text.id \in ReplicaIds /\ text.start \in Nat /\ text.end \in Nat
      /\ text.start < text.end
  BY <1>2
<1>4. WellFormed(TypingOrder, runs) /\ run_tree \in [ReplicaIds -> Seq(Runs)]
  BY <1>1 DEF DocumentsAreSentText
<1>5. offset <= DocumentLen(runs)
  OBVIOUS
<1>6. runs = run_tree[r]
  OBVIOUS
<1> HIDE DEF runs, text
<1>7. DeadMarks(new) = DeadMarks(runs)
  BY <1>2, <1>3, <1>4, <1>5, TypingKeepsRuns, InsertKeepsDead
<1> HIDE DEF new
<1>8. /\ run_tree'[r] = new
      /\ \A s \in ReplicaIds \ {r} : run_tree'[s] = run_tree[s]
  BY <1>1, <1>4
<1>9. SUFFICES ASSUME NEW s \in ReplicaIds
               PROVE  DeadMarks(run_tree'[s]) = DeadMarks(run_tree[s])
  BY DEF LeavesDead
<1>10. CASE s = r
  BY <1>6, <1>7, <1>8, <1>10
<1>11. CASE s # r
  BY <1>8, <1>11
<1>12. QED
  BY <1>10, <1>11

LEMMA MergedLeavesDead ==
    ASSUME TypeOK, ClockInvariant, TextInvariant, DocumentsAreSentText,
           NEW r \in replicas, NEW m \in insertions,
           MergeUncheckedInsertion(r, m)
    PROVE  LeavesDead
<1> DEFINE runs == run_tree[r]
           merged == MergeInsertion(runs, m).runs
<1>1. /\ m.start < m.end /\ m.by \in ReplicaIds /\ m.start \in Nat
      /\ m.end \in Nat /\ m.ts \in Nat /\ m.lam \in Nat /\ r \in ReplicaIds
  BY DEF TypeOK, InsertionTypeOK, ClockInvariant, InsertionsAreCounted
<1>2. /\ WellFormed(TypingOrder, runs) /\ run_tree \in [ReplicaIds -> Seq(Runs)]
  BY DEF DocumentsAreSentText
<1>3. CASE m.anchor = ZeroAnchor \/ HasLeafAt(runs, m.anchor, "left")
  <2>1. run_tree' = [run_tree EXCEPT ![r] = merged]
    BY <1>3 DEF MergeUncheckedInsertion
  <2>2. \/ m.anchor = ZeroAnchor
        \/ m.anchor.offset \in Nat /\ HasLeafAt(runs, m.anchor, "left")
    <3>1. m.anchor = ZeroAnchor \/ m.anchor \in AnchorType
      BY DEF TextInvariant, InsertionsAreAnchored
    <3>2. m.anchor \in AnchorType => m.anchor.offset \in Nat
      BY DEF AnchorType
    <3>3. QED
      BY <1>3, <3>1, <3>2
  <2>3. runs = run_tree[r]
    OBVIOUS
  <2> HIDE DEF runs
  <2>4. DeadMarks(merged) = DeadMarks(runs)
    BY <1>1, <1>2, <2>2, TypingKeepsRuns, MergeInsertionKeepsDead
  <2> HIDE DEF merged
  <2>5. /\ run_tree'[r] = merged
        /\ \A s \in ReplicaIds \ {r} : run_tree'[s] = run_tree[s]
    BY <1>1, <1>2, <2>1
  <2>6. SUFFICES ASSUME NEW s \in ReplicaIds
                 PROVE  DeadMarks(run_tree'[s]) = DeadMarks(run_tree[s])
    BY DEF LeavesDead
  <2>7. CASE s = r
    BY <2>3, <2>4, <2>5, <2>7
  <2>8. CASE s # r
    BY <2>5, <2>8
  <2>9. QED
    BY <2>7, <2>8
<1>4. CASE ~(m.anchor = ZeroAnchor \/ HasLeafAt(runs, m.anchor, "left"))
  <2>1. run_tree' = run_tree
    BY <1>4 DEF MergeUncheckedInsertion, tree_vars
  <2>2. QED
    BY <2>1 DEF LeavesDead
<1>5. QED
  BY <1>3, <1>4

LEMMA MergedDeletesText ==
    ASSUME TypeOK, DocumentsAreSentText,
           NEW r \in replicas, NEW d \in deletions,
           CanMergeDeletion(r, d), MergeUncheckedDeletion(r, d),
           UNCHANGED <<replicas, insertions, deletions>>
    PROVE  \/ MergesDeletion(r, d) /\ DeletesText(r, d)
           \/ LeavesClocks /\ UNCHANGED run_tree
<1> DEFINE runs == run_tree[r]
           merged == MergeDeletion(runs, d).runs
<1>1. CASE /\ HasLeafAt(runs, d.start, "right")
           /\ HasLeafAt(runs, d.end, "left")
           /\ MergeDeletion(runs, d).sound
  <2>1. /\ run_tree' = [run_tree EXCEPT ![r] = merged]
        /\ MergesDeletion(r, d)
    BY <1>1 DEF MergeUncheckedDeletion, MergesDeletion
  <2>2. run_tree \in [ReplicaIds -> Seq(Runs)] /\ r \in ReplicaIds
    BY DEF DocumentsAreSentText, TypeOK
  <2>3. runs = run_tree[r]
    OBVIOUS
  <2> HIDE DEF runs
  <2>4. ASSUME NEW order, NEW s, NEW e, IsDeletionOf(order, runs, d, s, e)
        PROVE  DeletesRange(order, runs, merged, d, s, e)
    <3>1. /\ KeepsRuns(order) /\ WellFormed(order, runs)
          /\ IsDeletionIn(order, DocumentMarks(runs), d, s, e)
      BY <2>4 DEF IsDeletionOf
    <3>2. DeadMarks(merged) =
            DeadMarks(runs) \cup MarksWithin(order, DocumentMarks(runs), d, s, e)
      BY <1>1, <3>1, MergeDeletionDeletes
    <3>3. QED
      BY <3>2 DEF DeletesRange
  <2> HIDE DEF merged
  <2>5. /\ run_tree'[r] = merged
        /\ \A s \in ReplicaIds \ {r} : run_tree'[s] = run_tree[s]
    BY <2>1, <2>2
  <2>6. IsDeleted(runs, merged, d)
    BY <2>4 DEF IsDeleted
  <2>8. DeletesText(r, d)
    BY <2>3, <2>5, <2>6 DEF DeletesText
  <2>9. QED
    BY <2>1, <2>8
<1>2. CASE ~ (/\ HasLeafAt(runs, d.start, "right")
              /\ HasLeafAt(runs, d.end, "left")
              /\ MergeDeletion(runs, d).sound)
  BY <1>2 DEF MergeUncheckedDeletion, LeavesClocks, tree_vars
<1>3. QED
  BY <1>1, <1>2

LEMMA DeletedDeletesText ==
    ASSUME TypeOK, TextsOK, DocumentsAreSentText, NEW r \in ReplicaIds,
           NEW from \in 0 .. DocumentLen(run_tree[r]),
           NEW to \in 0 .. DocumentLen(run_tree[r]), from < to,
           Deleted(r, from, to)
    PROVE  \E d \in deletions' :
              Deletes(r, d) /\ DeletesText(r, d) /\ RangeIsHeld(r, d)
<1> DEFINE runs == run_tree[r]
           result == Delete(runs, from, to)
           known == [a \in ReplicaIds |-> IF a \in result.ids \cup {r}
                                          THEN version_map[r][a] ELSE 0]
           deletion == [by |-> r, ts |-> deletion_map[r][r] + 1,
                        start |-> result.start, end |-> result.end,
                        version_map |-> known]
<1>1. /\ r \in replicas
      /\ run_tree' = [run_tree EXCEPT ![r] = result.runs]
      /\ deletion_map' = [deletion_map EXCEPT ![r][r] = @ + 1]
      /\ deletions' = deletions \cup {deletion}
      /\ UNCHANGED <<replicas, run_clock, lamport_clock, version_map,
                     insertions>>
  BY DEF Deleted, Idle, Active
<1>2. \A a \in ReplicaIds : version_map[r][a] \in Nat
  BY DEF TypeOK
<1>3. known \in [ReplicaIds -> Nat]
  BY <1>2
<1>4. /\ \A a \in ReplicaIds : known[a] <= version_map[r][a]
      /\ \A a \in result.ids :
            a \in ReplicaIds => known[a] = version_map[r][a]
  <2>1. \A a \in ReplicaIds :
           known[a] = IF a \in result.ids \cup {r} THEN version_map[r][a] ELSE 0
    OBVIOUS
  <2> HIDE DEF known
  <2>2. QED
    BY <1>2, <2>1
<1>5. /\ deletion.by = r /\ deletion.ts = deletion_map[r][r] + 1
      /\ deletion.version_map = known
      /\ deletion.start = result.start /\ deletion.end = result.end
  OBVIOUS
<1>6. /\ WellFormed(TypingOrder, runs) /\ run_tree \in [ReplicaIds -> Seq(Runs)]
      /\ DocumentMarks(runs) = {c \in SentMarks : c.at < version_map[r][c.id]}
  BY <1>1 DEF DocumentsAreSentText
<1>7. from \in Nat /\ to \in Nat /\ to <= DocumentLen(runs) /\ runs = run_tree[r]
  OBVIOUS
<1> HIDE DEF known, deletion, runs
<1>8. \A c \in DocumentMarks(runs) : c.id \in result.ids => IsKnownTo(deletion, c)
  <2>1. SUFFICES ASSUME NEW c \in DocumentMarks(runs), c.id \in result.ids
                 PROVE  IsKnownTo(deletion, c)
    OBVIOUS
  <2>2. c \in SentMarks /\ c.at < version_map[r][c.id]
    BY <1>6
  <2>3. c.id \in ReplicaIds
    BY <2>2, SentMark DEF TextsOK, IsIn
  <2>4. known[c.id] = version_map[r][c.id]
    BY <1>4, <2>1, <2>3
  <2>5. QED
    BY <1>5, <2>2, <2>4 DEF IsKnownTo
<1>9. ASSUME NEW order, NEW s, NEW e, IsDeletionOf(order, runs, deletion, s, e)
      PROVE  DeletesRange(order, runs, result.runs, deletion, s, e)
  <2>1. /\ KeepsRuns(order) /\ WellFormed(order, runs)
        /\ IsDeletionIn(order, DocumentMarks(runs), deletion, s, e)
    BY <1>9 DEF IsDeletionOf
  <2>2. DeadMarks(result.runs) =
          DeadMarks(runs)
            \cup MarksWithin(order, DocumentMarks(runs), deletion, s, e)
    BY <1>5, <1>7, <1>8, <2>1, DeleteDeletes
  <2>3. QED
    BY <2>2 DEF DeletesRange
<1>10. ASSUME NEW order, KeepsRuns(order), WellFormed(order, runs)
       PROVE  \E s, e \in DocumentMarks(runs) :
                /\ result.start = [id |-> s.id, offset |-> s.at, ts |-> s.ts]
                /\ result.end = [id |-> e.id, offset |-> e.at + 1, ts |-> e.ts]
                /\ s.id \in result.ids /\ e.id \in result.ids
                /\ s = e \/ <<s, e>> \in order
  BY <1>7, <1>10, DeleteKeepsDocument, ZenonT(40)
<1>11. /\ WellFormed(TypingOrder, result.runs)
  BY <1>6, <1>7, TypingKeepsRuns, DeleteKeepsDocument
<1> HIDE DEF result
<1>12. result.runs \in Seq(Runs)
  BY <1>11 DEF WellFormed
<1>13. /\ run_tree'[r] = result.runs
       /\ \A s \in ReplicaIds \ {r} : run_tree'[s] = run_tree[s]
  BY <1>1, <1>6, <1>12
<1>14. DeletesText(r, deletion)
  <2>1. IsDeleted(runs, result.runs, deletion)
    BY <1>9 DEF IsDeleted
  <2>2. QED
    BY <1>7, <1>13, <2>1 DEF DeletesText
<1>15. RangeIsHeld(r, deletion)
  <2>1. SUFFICES ASSUME NEW order, KeepsRuns(order), WellFormed(order, runs)
        PROVE  \E s, e \in DocumentMarks(runs) :
                  /\ StartsAt(deletion, s) /\ EndsAt(deletion, e)
                  /\ IsKnownTo(deletion, s) /\ IsKnownTo(deletion, e)
                  /\ s = e \/ <<s, e>> \in order
    BY <1>7 DEF RangeIsHeld
  <2>2. PICK s \in DocumentMarks(runs), e \in DocumentMarks(runs) :
           /\ result.start = [id |-> s.id, offset |-> s.at, ts |-> s.ts]
           /\ result.end = [id |-> e.id, offset |-> e.at + 1, ts |-> e.ts]
           /\ s.id \in result.ids /\ e.id \in result.ids
           /\ s = e \/ <<s, e>> \in order
    BY <1>10, <2>1
  <2>3. StartsAt(deletion, s) /\ EndsAt(deletion, e)
    BY <1>5, <2>2 DEF StartsAt, EndsAt
  <2>4. QED
    BY <1>8, <2>2, <2>3
<1>16. Deletes(r, deletion)
  BY <1>1, <1>4, <1>5 DEF Deletes
<1>17. QED
  BY <1>1, <1>14, <1>15, <1>16

DeletionSteps ==
    \/ \E r, new \in ReplicaIds : Fork(r, new)
    \/ \E r \in ReplicaIds : \E m : InsertsText(r, m) /\ LeavesDead
    \/ \E r \in ReplicaIds : \E d \in deletions' :
         Deletes(r, d) /\ DeletesText(r, d) /\ RangeIsHeld(r, d)
    \/ \E r \in ReplicaIds : \E m \in insertions :
         MergesInsertion(r, m) /\ LeavesDead
    \/ \E r \in ReplicaIds : \E d \in deletions :
         MergesDeletion(r, d) /\ DeletesText(r, d)
    \/ LeavesClocks /\ UNCHANGED run_tree

LEMMA StepsDelete ==
    ASSUME DocumentInvariant, [Next]_vars
    PROVE  DeletionSteps
<1>1. CASE UNCHANGED vars
  BY <1>1 DEF vars, tree_vars, clock_vars, sent_vars, LeavesClocks,
              DeletionSteps
<1>2. CASE Next
  <2>1. /\ TypeOK /\ ClockInvariant /\ TextInvariant /\ DocumentsAreSentText
        /\ TextsOK
    BY TextsAreOK DEF DocumentInvariant
  <2>2. PICK r \in ReplicaIds :
          \/ \E new \in ReplicaIds : Fork(r, new)
          \/ InsertedAnywhere(r)
          \/ DeletedAnywhere(r)
          \/ \E m \in insertions : IntegrateInsertion(r, m)
          \/ \E d \in deletions : IntegrateDeletion(r, d)
          \/ BackloggedInsertions(r)
          \/ BackloggedDeletions(r)
          \/ NextBackloggedInsertion(r)
          \/ NextBackloggedDeletion(r)
          \/ NextQueue(r)
          \/ DropIterator(r)
    BY <1>2 DEF Next
  <2>3. CASE InsertedAnywhere(r)
    <3>1. PICK offset \in 0 .. DocumentLen(run_tree[r]), len \in InsertLens :
             Inserted(r, offset, len)
      BY <2>3 DEF InsertedAnywhere
    <3>2. offset \in Nat /\ offset <= DocumentLen(run_tree[r])
      OBVIOUS
    <3>3. \E m : InsertsText(r, m)
      BY <2>1, <3>1, <3>2, InsertedAddsText
    <3>4. LeavesDead
      BY <2>1, <3>1, <3>2, InsertedLeavesDead
    <3>5. QED
      BY <3>3, <3>4 DEF DeletionSteps
  <2>4. CASE DeletedAnywhere(r)
    <3>1. PICK from \in 0 .. DocumentLen(run_tree[r]),
               to \in 0 .. DocumentLen(run_tree[r]) :
             from < to /\ Deleted(r, from, to)
      BY <2>4 DEF DeletedAnywhere
    <3>2. \E d \in deletions' :
             Deletes(r, d) /\ DeletesText(r, d) /\ RangeIsHeld(r, d)
      BY <2>1, <3>1, DeletedDeletesText
    <3>3. QED
      BY <3>2 DEF DeletionSteps
  <2>5. ASSUME r \in replicas, NEW m \in insertions,
               CanMergeInsertion(r, m), MergeUncheckedInsertion(r, m),
               UNCHANGED <<replicas, insertions, deletions>>
        PROVE  DeletionSteps
    <3>1. MergesInsertion(r, m) \/ (LeavesClocks /\ UNCHANGED run_tree)
      BY <2>1, <2>5, MergedAddsText
    <3>2. LeavesDead
      BY <2>1, <2>5, MergedLeavesDead
    <3>3. QED
      BY <3>1, <3>2 DEF DeletionSteps
  <2>6. ASSUME r \in replicas, NEW d \in deletions,
               CanMergeDeletion(r, d), MergeUncheckedDeletion(r, d),
               UNCHANGED <<replicas, insertions, deletions>>
        PROVE  DeletionSteps
    <3>1. \/ MergesDeletion(r, d) /\ DeletesText(r, d)
          \/ LeavesClocks /\ UNCHANGED run_tree
      BY <2>1, <2>6, MergedDeletesText
    <3>2. QED
      BY <3>1 DEF DeletionSteps
  <2>7. CASE \E m \in insertions : IntegrateInsertion(r, m)
    <3>1. PICK m \in insertions : IntegrateInsertion(r, m)
      BY <2>7
    <3>2. r \in replicas /\ UNCHANGED <<replicas, insertions, deletions>>
      BY <3>1 DEF IntegrateInsertion, Idle, Active, sent_vars
    <3>3. CASE CanMergeInsertion(r, m) /\ MergeUncheckedInsertion(r, m)
      BY <2>5, <3>2, <3>3
    <3>4. CASE BacklogInsertion(r, m)
      BY <3>2, <3>4 DEF BacklogInsertion, LeavesClocks, tree_vars,
                        DeletionSteps
    <3>5. QED
      BY <3>1, <3>3, <3>4 DEF IntegrateInsertion
  <2>8. CASE \E d \in deletions : IntegrateDeletion(r, d)
    <3>1. PICK d \in deletions : IntegrateDeletion(r, d)
      BY <2>8
    <3>2. r \in replicas /\ UNCHANGED <<replicas, insertions, deletions>>
      BY <3>1 DEF IntegrateDeletion, Idle, Active, sent_vars
    <3>3. CASE CanMergeDeletion(r, d) /\ MergeUncheckedDeletion(r, d)
      BY <2>6, <3>2, <3>3
    <3>4. CASE BacklogDeletion(r, d)
      BY <3>2, <3>4 DEF BacklogDeletion, LeavesClocks, tree_vars,
                        DeletionSteps
    <3>5. QED
      BY <3>1, <3>3, <3>4 DEF IntegrateDeletion
  <2>9. CASE NextBackloggedInsertion(r)
    <3> DEFINE a == iterator[r].current
               queue == insertions_backlog[r][a]
    <3>1. /\ r \in replicas /\ iterator[r] # NoIterator
          /\ UNCHANGED <<replicas, insertions, deletions>>
          /\ queue # <<>> /\ CanMergeInsertion(r, Head(queue))
          /\ MergeUncheckedInsertion(r, Head(queue))
      BY <2>9 DEF NextBackloggedInsertion, Active, NoIterator, sent_vars,
                  CanMergeFirst
    <3>2. a \in ReplicaIds
      BY <2>1, <3>1 DEF TypeOK, IteratorType
    <3>3. queue \in Seq(insertions)
      BY <2>1, <3>2 DEF TypeOK
    <3>4. Head(queue) \in insertions
      BY <3>1, <3>3, HeadTailProperties
    <3> HIDE DEF queue
    <3>5. QED
      BY <2>5, <3>1, <3>4
  <2>10. CASE NextBackloggedDeletion(r)
    <3> DEFINE a == iterator[r].current
               queue == deletions_backlog[r][a]
    <3>1. /\ r \in replicas /\ iterator[r] # NoIterator
          /\ iterator[r].kind = "deletions"
          /\ UNCHANGED <<replicas, insertions, deletions>>
      BY <2>10 DEF NextBackloggedDeletion, Active, NoIterator, sent_vars
    <3>2. /\ queue # <<>> /\ CanMergeDeletion(r, Head(queue))
          /\ MergeUncheckedDeletion(r, Head(queue))
      BY <2>10, <3>1 DEF NextBackloggedDeletion, CanMergeFirst
    <3>3. a \in ReplicaIds
      BY <2>1, <3>1 DEF TypeOK, IteratorType
    <3>4. queue \in Seq(deletions)
      BY <2>1, <3>3 DEF TypeOK
    <3>5. Head(queue) \in deletions
      BY <3>2, <3>4, HeadTailProperties
    <3> HIDE DEF queue
    <3>6. QED
      BY <2>6, <3>1, <3>2, <3>5
  <2>11. CASE \/ BackloggedInsertions(r) \/ BackloggedDeletions(r)
              \/ NextQueue(r) \/ DropIterator(r)
    BY <2>11 DEF BackloggedInsertions, BackloggedDeletions, StartIterator,
                 NextQueue, DropIterator, sent_vars, tree_vars, LeavesClocks,
                 DeletionSteps
  <2>12. CASE \E new \in ReplicaIds : Fork(r, new)
    BY <2>12 DEF DeletionSteps
  <2>13. QED
    BY <2>2, <2>3, <2>4, <2>7, <2>8, <2>9, <2>10, <2>11, <2>12
<1>3. QED
  BY <1>1, <1>2

------------------------------------------------------------------------------
(* What a deletion deletes is known when it is made, and never changes.    *)
IsRangeOf(order, d, s, e) ==
    /\ StartsAt(d, s) /\ EndsAt(d, e) /\ IsKnownTo(d, s) /\ IsKnownTo(d, e)
    /\ s = e \/ <<s, e>> \in order

LEMMA RangeOfDeletion ==
    ASSUME DocumentsOK, NEW d \in deletions, NEW s \in SentMarks
    PROVE  /\ StartsAt(d, s) => IsKnownTo(d, s)
           /\ EndsAt(d, s) => IsKnownTo(d, s)
<1>1. /\ d.start.offset \in Nat /\ d.end.offset \in Nat
      /\ d.start.offset < d.version_map[d.start.id]
      /\ d.end.offset <= d.version_map[d.end.id]
      /\ d.end.id \in ReplicaIds
  BY DEF DocumentsOK, TextInvariant, DeletionsAreAnchored, AnchorType
<1>2. d.version_map[d.end.id] \in Nat /\ s.at \in Nat
  BY <1>1, SentMarksAreMarks DEF DocumentsOK, ClockTypes, Mark
<1>3. StartsAt(d, s) => IsKnownTo(d, s)
  BY <1>1 DEF StartsAt, IsKnownTo
<1>4. ASSUME EndsAt(d, s) PROVE IsKnownTo(d, s)
  <2>1. s.at + 1 <= d.version_map[s.id] /\ d.version_map[s.id] \in Nat
    BY <1>1, <1>2, <1>4 DEF EndsAt
  <2>2. s.at < d.version_map[s.id]
    BY <1>2, <2>1
  <2>3. QED
    BY <2>2 DEF IsKnownTo
<1>5. QED
  BY <1>3, <1>4

(* Merging a deletion deletes what the deletion says, in a document that   *)
(* has all the text its sender had.                                        *)
LEMMA DeletedThere ==
    ASSUME DocumentsOK, NEW order, IsStrictOrder(order, SentMarks),
           NEW r \in replicas, NEW d, d.version_map \in [ReplicaIds -> Nat],
           \A a \in ReplicaIds : d.version_map[a] <= version_map[r][a],
           NEW s \in SentMarks, NEW e \in SentMarks, IsRangeOf(order, d, s, e)
    PROVE  /\ IsDeletionIn(order, DocumentMarks(run_tree[r]), d, s, e)
           /\ MarksWithin(order, DocumentMarks(run_tree[r]), d, s, e)
                = DeletedBy(order, d)
<1> DEFINE marks == DocumentMarks(run_tree[r])
<1>1. marks \subseteq SentMarks /\ SentMarks \subseteq Mark
  BY HeldMarks, SentMarksAreMarks DEF DocumentsOK
<1>2. \A c, f \in SentMarks : c.id = f.id /\ c.at = f.at => c = f
  BY MarksAreUnique DEF DocumentsOK, TextInvariant
<1>3. \A c \in SentMarks : c.at \in Nat /\ c.id \in ReplicaIds
  BY <1>1 DEF Mark
<1>4. version_map[r] \in [ReplicaIds -> Nat]
  BY DEF DocumentsOK, ClockTypes
<1>5. ASSUME NEW c \in SentMarks, IsKnownTo(d, c)
      PROVE  c \in marks
  <2>1. c.at < d.version_map[c.id] /\ d.version_map[c.id] \in Nat
        /\ d.version_map[c.id] <= version_map[r][c.id]
        /\ version_map[r][c.id] \in Nat /\ c.at \in Nat
    BY <1>3, <1>4, <1>5 DEF IsKnownTo
  <2>2. c.at < version_map[r][c.id]
    BY <2>1
  <2>3. QED
    BY <2>2, HeldMarks
<1>6. s \in marks /\ e \in marks
  BY <1>5 DEF IsRangeOf
<1> HIDE DEF marks
<1>7. StartsAt(d, s) /\ EndsAt(d, e) /\ IsKnownTo(d, e)
      /\ (s = e \/ <<s, e>> \in order)
  BY DEF IsRangeOf
<1>8. /\ d.start.offset \in Nat /\ d.end.offset \in Nat
  BY <1>3, <1>7 DEF StartsAt, EndsAt
<1>9. AnchoredAt(d.start, "right", s) /\ AnchoredAt(d.end, "left", e)
  BY <1>7 DEF StartsAt, EndsAt, AnchoredAt
<1>10. IsStrictOrder(order, marks)
  BY <1>1 DEF IsStrictOrder
<1>11. MarksHaveOnePlace(marks)
  BY <1>1, <1>2 DEF MarksHaveOnePlace
<1>12. IsDeletionIn(order, marks, d, s, e)
  BY <1>6, <1>7, <1>8, <1>9, <1>10, <1>11 DEF IsDeletionIn
<1>13. ASSUME NEW f \in SentMarks, StartsAt(d, f) PROVE f = s
  BY <1>2, <1>7, <1>13 DEF StartsAt
<1>14. ASSUME NEW f \in SentMarks, EndsAt(d, f) PROVE f = e
  <2>1. f.id = e.id /\ f.at + 1 = e.at + 1
    BY <1>7, <1>14 DEF EndsAt
  <2>2. f.at \in Nat /\ e.at \in Nat
    BY <1>3
  <2>3. f.at = e.at
    BY <2>1, <2>2
  <2>4. QED
    BY <1>2, <2>1, <2>3
<1>15. ASSUME NEW c \in MarksWithin(order, marks, d, s, e)
       PROVE  c \in DeletedBy(order, d)
  BY <1>1, <1>7, <1>15 DEF MarksWithin, DeletedBy
<1>16. ASSUME NEW c \in DeletedBy(order, d)
       PROVE  c \in MarksWithin(order, marks, d, s, e)
  <2>1. c \in SentMarks /\ IsKnownTo(d, c)
        /\ \E f, g \in SentMarks :
              StartsAt(d, f) /\ EndsAt(d, g) /\ IsWithin(order, f, g, c)
    BY <1>16 DEF DeletedBy
  <2>2. IsWithin(order, s, e, c)
    BY <1>13, <1>14, <2>1
  <2>3. QED
    BY <1>5, <2>1, <2>2 DEF MarksWithin
<1>17. MarksWithin(order, marks, d, s, e) = DeletedBy(order, d)
  BY <1>15, <1>16
<1>18. QED
  BY <1>12, <1>17 DEF marks

(* The order may grow, by new text only.                                   *)
IsGrownOrder(order, next) ==
    /\ SentMarks \subseteq SentMarks'
    /\ \A c, e \in SentMarks : <<c, e>> \in next <=> <<c, e>> \in order

LEMMA OrderIsGrown ==
    ASSUME NEW order, IsStrictOrder(order, SentMarks),
           NEW next, IsStrictOrder(next, SentMarks)',
           SentMarks \subseteq SentMarks', LongerOrder(order, next)
    PROVE  IsGrownOrder(order, next)
<1>1. ASSUME NEW c \in SentMarks, NEW e \in SentMarks, <<c, e>> \in next
      PROVE  <<c, e>> \in order
  <2>1. <<e, c>> \notin next
    BY <1>1 DEF IsStrictOrder
  <2>2. <<e, c>> \notin order /\ c # e
    BY <1>1, <2>1 DEF LongerOrder
  <2>3. QED
    BY <2>2 DEF IsStrictOrder
<1>2. QED
  BY <1>1 DEF IsGrownOrder, LongerOrder

LEMMA SameDeleted ==
    ASSUME NEW order, NEW next, IsGrownOrder(order, next), NEW d,
           \A c \in SentMarks' : IsKnownTo(d, c) => c \in SentMarks,
           \A c \in SentMarks' : StartsAt(d, c) => IsKnownTo(d, c),
           \A c \in SentMarks' : EndsAt(d, c) => IsKnownTo(d, c)
    PROVE  DeletedBy(next, d)' = DeletedBy(order, d)
<1>1. DeletedBy(next, d)' =
        {c \in SentMarks' :
           /\ IsKnownTo(d, c)
           /\ \E s, e \in SentMarks' :
                StartsAt(d, s) /\ EndsAt(d, e) /\ IsWithin(next, s, e, c)}
  BY DEF DeletedBy, IsKnownTo, StartsAt, EndsAt, IsWithin
<1>2. \A c, s, e \in SentMarks :
         IsWithin(next, s, e, c) <=> IsWithin(order, s, e, c)
  BY DEF IsGrownOrder, IsWithin
<1>3. SentMarks \subseteq SentMarks'
  BY DEF IsGrownOrder
<1>4. ASSUME NEW c \in DeletedBy(order, d)
      PROVE  c \in DeletedBy(next, d)'
  BY <1>1, <1>2, <1>3, <1>4 DEF DeletedBy
<1>5. ASSUME NEW c \in DeletedBy(next, d)'
      PROVE  c \in DeletedBy(order, d)
  <2>1. c \in SentMarks' /\ IsKnownTo(d, c)
    BY <1>1, <1>5
  <2>2. PICK s \in SentMarks', e \in SentMarks' :
           StartsAt(d, s) /\ EndsAt(d, e) /\ IsWithin(next, s, e, c)
    BY <1>1, <1>5
  <2>3. c \in SentMarks /\ s \in SentMarks /\ e \in SentMarks
    BY <2>1, <2>2
  <2>4. QED
    BY <1>2, <2>1, <2>2, <2>3 DEF DeletedBy
<1>6. QED
  BY <1>4, <1>5

HasEffect(order, r) ==
    DeadMarks(run_tree[r]) = UNION {DeletedBy(order, d) : d \in MergedDeletions(r)}

DeletesAlike(order, next) ==
    \A d \in deletions : DeletedBy(next, d)' = DeletedBy(order, d)

LEMMA NextDead ==
    ASSUME NEW r, NEW runs, runs = run_tree'[r]
    PROVE  DeadMarks(run_tree[r])' = DeadMarks(runs)
BY DEF DeadMarks, DeadOf, RunMarks

(* A document whose deleted characters and deletions are those of another  *)
(* one before the step.                                                    *)
LEMMA EffectKept ==
    ASSUME NEW order, NEW next, DeletesAlike(order, next), NEW r, NEW q,
           HasEffect(order, r), DeadMarks(run_tree'[q]) = DeadMarks(run_tree[r]),
           MergedDeletions(q)' = MergedDeletions(r)
    PROVE  HasEffect(next, q)'
<1>1. PICK dead : dead = DeadMarks(run_tree'[q])
  OBVIOUS
<1>2. DeadMarks(run_tree[q])' = dead
  BY <1>1, NextDead
<1>3. PICK merged : merged = MergedDeletions(r)
  OBVIOUS
<1>4. merged \subseteq deletions
  BY <1>3 DEF MergedDeletions
<1>5. {DeletedBy(next, d)' : d \in merged} = {DeletedBy(order, d) : d \in merged}
  BY <1>4 DEF DeletesAlike
<1>6. HasEffect(next, q)' <=>
        dead = UNION {DeletedBy(next, d)' : d \in merged}
  BY <1>2, <1>3 DEF HasEffect
<1>7. QED
  BY <1>1, <1>3, <1>5, <1>6 DEF HasEffect

LEMMA EffectAdded ==
    ASSUME NEW order, NEW next, DeletesAlike(order, next), NEW r,
           HasEffect(order, r), NEW d,
           DeadMarks(run_tree'[r]) = DeadMarks(run_tree[r]) \cup DeletedBy(order, d),
           DeletedBy(next, d)' = DeletedBy(order, d),
           MergedDeletions(r)' = MergedDeletions(r) \cup {d}
    PROVE  HasEffect(next, r)'
<1>1. PICK dead : dead = DeadMarks(run_tree'[r])
  OBVIOUS
<1>2. DeadMarks(run_tree[r])' = dead
  BY <1>1, NextDead
<1>3. PICK merged : merged = MergedDeletions(r)
  OBVIOUS
<1>4. merged \subseteq deletions
  BY <1>3 DEF MergedDeletions
<1>5. {DeletedBy(next, f)' : f \in merged \cup {d}}
        = {DeletedBy(order, f) : f \in merged \cup {d}}
  BY <1>4 DEF DeletesAlike
<1>6. HasEffect(next, r)' <=>
        dead = UNION {DeletedBy(next, f)' : f \in merged \cup {d}}
  BY <1>2, <1>3 DEF HasEffect
<1>7. DeadMarks(run_tree[r]) = UNION {DeletedBy(order, f) : f \in merged}
  BY <1>3 DEF HasEffect
<1>8. UNION {DeletedBy(order, f) : f \in merged \cup {d}}
        = (UNION {DeletedBy(order, f) : f \in merged}) \cup DeletedBy(order, d)
  OBVIOUS
<1>9. QED
  BY <1>1, <1>5, <1>6, <1>7, <1>8

(* The deletions that have been merged, step by step.                      *)
LEMMA MergedLeft ==
    ASSUME UNCHANGED <<deletion_map, deletions>>, NEW r
    PROVE  MergedDeletions(r)' = MergedDeletions(r)
BY DEF MergedDeletions, HasMergedDeletion

LEMMA MergedForked ==
    ASSUME DocumentsOK, NEW r \in ReplicaIds, NEW new \in ReplicaIds,
           Fork(r, new)
    PROVE  /\ MergedDeletions(new)' = MergedDeletions(r)
           /\ \A s \in replicas : MergedDeletions(s)' = MergedDeletions(s)
<1>1. /\ r \in replicas /\ new \in ReplicaIds \ replicas
      /\ \A s \in replicas : deletion_map'[s] = deletion_map[s]
      /\ UNCHANGED deletions
  BY Forked DEF DocumentsOK
<1>2. deletion_map' =
        [deletion_map EXCEPT ![new] = [deletion_map[r] EXCEPT ![new] = 0]]
  BY DEF Fork
<1>3. deletion_map \in [ReplicaIds -> [ReplicaIds -> Nat]]
      /\ replicas \subseteq ReplicaIds
  BY DEF DocumentsOK, ClockTypes
<1>4. deletion_map'[new] = [deletion_map[r] EXCEPT ![new] = 0]
  BY <1>2, <1>3
<1>5. \A a \in replicas : deletion_map'[new][a] = deletion_map[r][a]
  BY <1>1, <1>3, <1>4
<1>6. \A d \in deletions : d.by \in replicas
  BY DEF DocumentsOK, ClockInvariant, DeletionsAreCounted
<1>7. QED
  BY <1>1, <1>5, <1>6 DEF MergedDeletions, HasMergedDeletion

LEMMA MergedDeleted ==
    ASSUME DocumentsOK, NEW r, NEW d, Deletes(r, d)
    PROVE  /\ MergedDeletions(r)' = MergedDeletions(r) \cup {d}
           /\ \A s \in replicas \ {r} : MergedDeletions(s)' = MergedDeletions(s)
<1>1. /\ r \in replicas /\ d.by = r /\ d.ts = deletion_map[r][r] + 1
      /\ deletions' = deletions \cup {d}
      /\ deletion_map' = [deletion_map EXCEPT ![r][r] = d.ts]
  BY DEF Deletes
<1>2. deletion_map \in [ReplicaIds -> [ReplicaIds -> Nat]]
      /\ replicas \subseteq ReplicaIds
  BY DEF DocumentsOK, ClockTypes
<1>3. deletion_map[r][r] \in Nat /\ d.ts \in Nat
  BY <1>1, <1>2
<1>4. /\ deletion_map'[r][r] = d.ts
      /\ \A a \in ReplicaIds \ {r} : deletion_map'[r][a] = deletion_map[r][a]
      /\ \A s \in replicas \ {r} : deletion_map'[s] = deletion_map[s]
  BY <1>1, <1>2
<1>5. \A f \in deletions : /\ f.by \in ReplicaIds /\ f.ts \in Nat
                           /\ f.by = r => f.ts <= deletion_map[r][r]
  BY DEF DocumentsOK, ClockInvariant, DeletionsAreCounted, ClockTypes
<1>6. \A s \in replicas : deletion_map[s][r] <= deletion_map[r][r]
                          /\ deletion_map[s][r] \in Nat
  BY <1>1, <1>2 DEF DocumentsOK, ClockInvariant, NobodyKnowsMore
<1>7. \A f \in deletions :
         deletion_map'[r][f.by] >= f.ts <=> deletion_map[r][f.by] >= f.ts
  BY <1>1, <1>3, <1>4, <1>5
<1>8. deletion_map'[r][d.by] >= d.ts
  BY <1>1, <1>3, <1>4
<1>9. MergedDeletions(r)' = MergedDeletions(r) \cup {d}
  BY <1>1, <1>7, <1>8 DEF MergedDeletions, HasMergedDeletion
<1>10. \A s \in replicas \ {r} : ~(deletion_map'[s][d.by] >= d.ts)
  BY <1>1, <1>3, <1>4, <1>6
<1>11. \A s \in replicas \ {r} : MergedDeletions(s)' = MergedDeletions(s)
  BY <1>1, <1>4, <1>10 DEF MergedDeletions, HasMergedDeletion
<1>12. QED
  BY <1>9, <1>11

LEMMA MergedMerged ==
    ASSUME DocumentsOK, NEW r, NEW d \in deletions, MergesDeletion(r, d)
    PROVE  /\ MergedDeletions(r)' = MergedDeletions(r) \cup {d}
           /\ \A s \in replicas \ {r} : MergedDeletions(s)' = MergedDeletions(s)
<1>1. /\ r \in replicas /\ deletion_map[r][d.by] + 1 = d.ts
      /\ UNCHANGED deletions
      /\ deletion_map' = [deletion_map EXCEPT ![r][d.by] = d.ts]
  BY DEF MergesDeletion, CanMergeDeletion
<1>2. deletion_map \in [ReplicaIds -> [ReplicaIds -> Nat]]
      /\ replicas \subseteq ReplicaIds
  BY DEF DocumentsOK, ClockTypes
<1>3. \A f \in deletions : f.by \in ReplicaIds /\ f.ts \in Nat
  BY DEF DocumentsOK, ClockTypes
<1>4. /\ deletion_map'[r][d.by] = d.ts
      /\ \A a \in ReplicaIds \ {d.by} : deletion_map'[r][a] = deletion_map[r][a]
      /\ \A s \in replicas \ {r} : deletion_map'[s] = deletion_map[s]
      /\ deletion_map[r][d.by] \in Nat
  BY <1>1, <1>2, <1>3
<1>5. ASSUME NEW f \in deletions
      PROVE  deletion_map'[r][f.by] >= f.ts
               <=> deletion_map[r][f.by] >= f.ts \/ f = d
  <2>1. CASE f.by = d.by
    <3>1. f.ts = d.ts => f = d
      BY <2>1 DEF DocumentsOK, ClockInvariant, DeletionsAreNumbered
    <3>2. f.ts \in Nat /\ d.ts \in Nat
      BY <1>3
    <3>3. d.ts >= f.ts <=> deletion_map[r][d.by] >= f.ts \/ f.ts = d.ts
      BY <1>1, <1>4, <3>2
    <3>4. QED
      BY <1>4, <2>1, <3>1, <3>3
  <2>2. CASE f.by # d.by
    BY <1>3, <1>4, <2>2
  <2>3. QED
    BY <2>1, <2>2
<1>6. MergedDeletions(r)' = MergedDeletions(r) \cup {d}
  BY <1>1, <1>5 DEF MergedDeletions, HasMergedDeletion
<1>7. \A s \in replicas \ {r} : MergedDeletions(s)' = MergedDeletions(s)
  BY <1>1, <1>4 DEF MergedDeletions, HasMergedDeletion
<1>8. QED
  BY <1>6, <1>7

------------------------------------------------------------------------------
(* What was sent stays sent, and what a deletion did not know of at first  *)
(* it never comes to know.                                                 *)
LEMMA OldMarks ==
    ASSUME DocumentsOK, DeletionSteps
    PROVE  /\ SentMarks \subseteq SentMarks'
           /\ \A d \in deletions, c \in SentMarks' :
                 IsKnownTo(d, c) => c \in SentMarks
<1>1. ASSUME UNCHANGED insertions
      PROVE  SentMarks' = SentMarks
  BY <1>1, SameTexts
<1>2. CASE \E r \in ReplicaIds : \E m : InsertsText(r, m) /\ LeavesDead
  <2>1. PICK r, m : r \in ReplicaIds /\ InsertsText(r, m)
    BY <1>2
  <2>2. /\ r \in replicas /\ m.start = version_map[r][r]
        /\ \A e \in TextMarks(m) : e.id = r /\ e.at \in Nat /\ m.start <= e.at
        /\ SentMarks' = SentMarks \cup TextMarks(m)
    BY <2>1, NewMarks
  <2>3. ASSUME NEW d \in deletions, NEW c \in TextMarks(m), IsKnownTo(d, c)
        PROVE  FALSE
    <3>1. /\ d.version_map[r] \in Nat /\ version_map[r][r] \in Nat
          /\ version_map[d.by][r] \in Nat /\ d.by \in replicas
      BY <2>1 DEF DocumentsOK, ClockTypes, ClockInvariant, DeletionsAreCounted
    <3>2. d.version_map[r] <= version_map[d.by][r]
      BY <2>1 DEF DocumentsOK, ClockInvariant, DeletionsAreCounted
    <3>3. version_map[d.by][r] <= version_map[r][r]
      BY <2>1, <2>2, <3>1 DEF DocumentsOK, ClockInvariant, NobodyKnowsMore
    <3>4. c.at < d.version_map[r] /\ version_map[r][r] <= c.at /\ c.at \in Nat
      BY <2>2, <2>3 DEF IsKnownTo
    <3>5. QED
      BY <3>1, <3>2, <3>3, <3>4
  <2>4. QED
    BY <2>2, <2>3
<1>3. CASE ~(\E r \in ReplicaIds : \E m : InsertsText(r, m) /\ LeavesDead)
  <2>1. UNCHANGED insertions
    BY <1>3 DEF DeletionSteps, Fork, Deletes, MergesInsertion, MergesDeletion,
                LeavesClocks, sent_vars
  <2>2. QED
    BY <1>1, <2>1
<1>4. QED
  BY <1>2, <1>3

RangesAreKnown ==
    \A d \in deletions, s \in SentMarks :
        /\ StartsAt(d, s) => IsKnownTo(d, s)
        /\ EndsAt(d, s) => IsKnownTo(d, s)

LEMMA RangesOfDeletions == DocumentsOK => RangesAreKnown
BY RangeOfDeletion DEF RangesAreKnown

LEMMA DeletionsStayAlike ==
    ASSUME DocumentsOK, DocumentsOK', DeletionSteps,
           NEW order, NEW next, IsGrownOrder(order, next),
           deletions \subseteq deletions'
    PROVE  DeletesAlike(order, next)
<1>1. ASSUME NEW d \in deletions PROVE DeletedBy(next, d)' = DeletedBy(order, d)
  <2>1. \A c \in SentMarks' : IsKnownTo(d, c) => c \in SentMarks
    BY OldMarks
  <2>2. d \in deletions'
    OBVIOUS
  <2>3. RangesAreKnown'
    BY RangesOfDeletions, PTL
  <2>4. \A s \in SentMarks' : /\ StartsAt(d, s) => IsKnownTo(d, s)
                              /\ EndsAt(d, s) => IsKnownTo(d, s)
    BY <2>2, <2>3 DEF RangesAreKnown, StartsAt, EndsAt, IsKnownTo
  <2>5. QED
    BY <2>1, <2>4, SameDeleted
<1>2. QED
  BY <1>1 DEF DeletesAlike

LEMMA EffectHere ==
    ASSUME DocumentsOK, NEW order, KeepsRuns(order), IsOrderOfText(order),
           NEW r \in replicas, NEW d, d.version_map \in [ReplicaIds -> Nat],
           \A a \in ReplicaIds : d.version_map[a] <= version_map[r][a],
           NEW s \in SentMarks, NEW e \in SentMarks,
           IsRangeOf(order, d, s, e), DeletesText(r, d)
    PROVE  DeadMarks(run_tree'[r])
             = DeadMarks(run_tree[r]) \cup DeletedBy(order, d)
<1>1. IsStrictOrder(order, SentMarks) /\ WellFormed(order, run_tree[r])
  BY HeldInOrder DEF IsOrderOfText
<1>2. /\ IsDeletionIn(order, DocumentMarks(run_tree[r]), d, s, e)
      /\ MarksWithin(order, DocumentMarks(run_tree[r]), d, s, e)
           = DeletedBy(order, d)
  BY <1>1, DeletedThere
<1>3. IsDeletionOf(order, run_tree[r], d, s, e)
  BY <1>1, <1>2 DEF IsDeletionOf
<1>4. DeletesRange(order, run_tree[r], run_tree'[r], d, s, e)
  BY <1>3 DEF DeletesText, IsDeleted
<1>5. QED
  BY <1>2, <1>4 DEF DeletesRange

(* Every document has what its deletions deleted, step by step.            *)
LEMMA EffectsLeft ==
    ASSUME DocumentsOK, NEW order, NEW next, DeletesAlike(order, next),
           DeletionsHaveTheirEffect(order), LeavesDead,
           UNCHANGED <<replicas, deletion_map, deletions>>
    PROVE  \A s \in replicas' : HasEffect(next, s)'
<1>1. SUFFICES ASSUME NEW s \in replicas PROVE HasEffect(next, s)'
  OBVIOUS
<1>2. s \in ReplicaIds
  BY DEF DocumentsOK, ClockTypes
<1>3. DeadMarks(run_tree'[s]) = DeadMarks(run_tree[s])
  BY <1>2 DEF LeavesDead
<1>4. HasEffect(order, s)
  BY DEF DeletionsHaveTheirEffect, HasEffect
<1>5. MergedDeletions(s)' = MergedDeletions(s)
  BY MergedLeft
<1>6. QED
  BY <1>3, <1>4, <1>5, EffectKept

LEMMA EffectsForked ==
    ASSUME DocumentsOK, NEW order, NEW next, DeletesAlike(order, next),
           DeletionsHaveTheirEffect(order),
           NEW r \in ReplicaIds, NEW new \in ReplicaIds, Fork(r, new)
    PROVE  \A s \in replicas' : HasEffect(next, s)'
<1>1. /\ r \in replicas /\ new \in ReplicaIds \ replicas
      /\ replicas' = replicas \cup {new}
  BY Forked DEF DocumentsOK
<1>2. /\ run_tree'[new] = run_tree[r]
      /\ \A s \in replicas : run_tree'[s] = run_tree[s]
  <2>1. run_tree' = [run_tree EXCEPT ![new] = run_tree[r]]
    BY DEF Fork
  <2>2. DOMAIN run_tree = ReplicaIds /\ replicas \subseteq ReplicaIds
    BY DEF DocumentsOK, DocumentsAreSentText, ClockTypes
  <2>3. QED
    BY <1>1, <2>1, <2>2
<1>3. /\ MergedDeletions(new)' = MergedDeletions(r)
      /\ \A s \in replicas : MergedDeletions(s)' = MergedDeletions(s)
  BY MergedForked
<1>4. \A s \in replicas : HasEffect(order, s)
  BY DEF DeletionsHaveTheirEffect, HasEffect
<1>5. HasEffect(next, new)'
  <2>1. DeadMarks(run_tree'[new]) = DeadMarks(run_tree[r])
    BY <1>2
  <2>2. QED
    BY <1>1, <1>3, <1>4, <2>1, EffectKept
<1>6. ASSUME NEW s \in replicas PROVE HasEffect(next, s)'
  <2>1. DeadMarks(run_tree'[s]) = DeadMarks(run_tree[s])
    BY <1>2
  <2>2. QED
    BY <1>3, <1>4, <2>1, EffectKept
<1>7. QED
  BY <1>1, <1>5, <1>6

LEMMA EffectsAdded ==
    ASSUME DocumentsOK, NEW order, NEW next, KeepsRuns(order),
           IsOrderOfText(order), DeletesAlike(order, next),
           DeletionsHaveTheirEffect(order),
           NEW r \in replicas, NEW d, DeletedBy(next, d)' = DeletedBy(order, d),
           d.version_map \in [ReplicaIds -> Nat],
           \A a \in ReplicaIds : d.version_map[a] <= version_map[r][a],
           NEW b \in SentMarks, NEW e \in SentMarks,
           IsRangeOf(order, d, b, e), DeletesText(r, d),
           MergedDeletions(r)' = MergedDeletions(r) \cup {d},
           \A s \in replicas \ {r} : MergedDeletions(s)' = MergedDeletions(s),
           UNCHANGED replicas
    PROVE  \A s \in replicas' : HasEffect(next, s)'
<1>1. \A s \in replicas : HasEffect(order, s)
  BY DEF DeletionsHaveTheirEffect, HasEffect
<1>2. replicas \subseteq ReplicaIds
  BY DEF DocumentsOK, ClockTypes
<1>3. HasEffect(next, r)'
  <2>1. DeadMarks(run_tree'[r])
          = DeadMarks(run_tree[r]) \cup DeletedBy(order, d)
    BY EffectHere
  <2>2. HasEffect(order, r)
    BY <1>1
  <2>3. QED
    BY <2>1, <2>2, EffectAdded
<1>4. ASSUME NEW s \in replicas \ {r} PROVE HasEffect(next, s)'
  <2>1. DeadMarks(run_tree'[s]) = DeadMarks(run_tree[s])
    BY <1>2 DEF DeletesText
  <2>2. HasEffect(order, s) /\ MergedDeletions(s)' = MergedDeletions(s)
    BY <1>1
  <2>3. QED
    BY <2>1, <2>2, EffectKept
<1>5. QED
  BY <1>3, <1>4

LEMMA RangesStayInOrder ==
    ASSUME NEW order, NEW next, IsGrownOrder(order, next),
           RangesAreInOrder(order),
           \A d \in deletions' :
              d \in deletions \/ \E s, e \in SentMarks : IsRangeOf(order, d, s, e)
    PROVE  RangesAreInOrder(next)'
<1>1. ASSUME NEW d \in deletions'
      PROVE  \E s, e \in SentMarks' :
                StartsAt(d, s) /\ EndsAt(d, e) /\ IsWithin(next, s, e, s)
  <2>1. \E s, e \in SentMarks :
           StartsAt(d, s) /\ EndsAt(d, e) /\ (s = e \/ <<s, e>> \in order)
    BY DEF RangesAreInOrder, IsWithin, IsRangeOf
  <2>2. PICK s \in SentMarks, e \in SentMarks :
           StartsAt(d, s) /\ EndsAt(d, e) /\ (s = e \/ <<s, e>> \in order)
    BY <2>1
  <2>3. s \in SentMarks' /\ e \in SentMarks' /\ (s = e \/ <<s, e>> \in next)
    BY <2>2 DEF IsGrownOrder
  <2>4. IsWithin(next, s, e, s)
    BY <2>3 DEF IsWithin
  <2>5. QED
    BY <2>2, <2>3, <2>4
<1>2. QED
  BY <1>1 DEF RangesAreInOrder, StartsAt, EndsAt, IsWithin

LEMMA EditsNext ==
    ASSUME DocumentsOK, DocumentsOK', DeletionSteps,
           NEW order, KeepsRuns(order), IsOrderOfEdits(order),
           NEW next, IsGrownOrder(order, next)
    PROVE  RangesAreInOrder(next)' /\ DeletionsHaveTheirEffect(next)'
<1>1. /\ IsOrderOfText(order) /\ RangesAreInOrder(order)
      /\ DeletionsHaveTheirEffect(order) /\ IsStrictOrder(order, SentMarks)
  BY DEF IsOrderOfEdits, IsOrderOfText
<1>2. ASSUME DeletesAlike(order, next), \A s \in replicas' : HasEffect(next, s)',
             \A d \in deletions' :
                d \in deletions \/ \E s, e \in SentMarks : IsRangeOf(order, d, s, e)
      PROVE  RangesAreInOrder(next)' /\ DeletionsHaveTheirEffect(next)'
  <2>1. RangesAreInOrder(next)'
    BY <1>1, <1>2, RangesStayInOrder
  <2>2. DeletionsHaveTheirEffect(next)'
    BY <1>2 DEF DeletionsHaveTheirEffect, HasEffect
  <2>3. QED
    BY <2>1, <2>2
<1>3. ASSUME deletions \subseteq deletions'
      PROVE  DeletesAlike(order, next)
  BY <1>3, DeletionsStayAlike
<1>4. ASSUME LeavesDead, UNCHANGED <<replicas, deletion_map, deletions>>
      PROVE  RangesAreInOrder(next)' /\ DeletionsHaveTheirEffect(next)'
  <2>1. deletions \subseteq deletions' /\ deletions' \subseteq deletions
    BY <1>4
  <2>2. DeletesAlike(order, next)
    BY <1>3, <2>1
  <2>3. \A s \in replicas' : HasEffect(next, s)'
    BY <1>1, <1>4, <2>2, EffectsLeft
  <2>4. QED
    BY <1>2, <2>1, <2>2, <2>3
<1>5. CASE \E r, new \in ReplicaIds : Fork(r, new)
  <2>1. PICK r \in ReplicaIds, new \in ReplicaIds : Fork(r, new)
    BY <1>5
  <2>2. deletions \subseteq deletions' /\ deletions' \subseteq deletions
    BY <2>1, Forked DEF DocumentsOK
  <2>3. DeletesAlike(order, next)
    BY <1>3, <2>2
  <2>4. \A s \in replicas' : HasEffect(next, s)'
    BY <1>1, <2>1, <2>3, EffectsForked
  <2>5. QED
    BY <1>2, <2>2, <2>3, <2>4
<1>6. CASE \E r \in ReplicaIds : \E m : InsertsText(r, m) /\ LeavesDead
  BY <1>4, <1>6 DEF InsertsText
<1>7. CASE \E r \in ReplicaIds : \E m \in insertions :
             MergesInsertion(r, m) /\ LeavesDead
  BY <1>4, <1>7 DEF MergesInsertion
<1>8. CASE \E r \in ReplicaIds : \E d \in deletions' :
             Deletes(r, d) /\ DeletesText(r, d) /\ RangeIsHeld(r, d)
  <2>1. PICK r \in ReplicaIds, d \in deletions' :
           Deletes(r, d) /\ DeletesText(r, d) /\ RangeIsHeld(r, d)
    BY <1>8
  <2>2. /\ r \in replicas /\ deletions' = deletions \cup {d}
        /\ \A a \in ReplicaIds : d.version_map[a] <= version_map[r][a]
        /\ UNCHANGED <<replicas, insertions>>
    BY <2>1 DEF Deletes
  <2>3. d.version_map \in [ReplicaIds -> Nat]
    BY DEF DocumentsOK, ClockTypes
  <2>4. PICK s \in SentMarks, e \in SentMarks : IsRangeOf(order, d, s, e)
    <3>1. WellFormed(order, run_tree[r])
      BY <1>1, <2>2, HeldInOrder DEF IsOrderOfText
    <3>2. \E s, e \in DocumentMarks(run_tree[r]) : IsRangeOf(order, d, s, e)
      BY <2>1, <3>1 DEF RangeIsHeld, IsRangeOf
    <3>3. DocumentMarks(run_tree[r]) \subseteq SentMarks
      BY <2>2, HeldMarks
    <3>4. QED
      BY <3>2, <3>3
  <2>5. deletions \subseteq deletions'
    BY <2>2
  <2>6. DeletesAlike(order, next)
    BY <1>3, <2>5
  <2>7. DeletedBy(next, d)' = DeletedBy(order, d)
    <3>1. SentMarks' = SentMarks
      BY <2>2, SameTexts
    <3>2. RangesAreKnown'
      BY RangesOfDeletions, PTL
    <3>3. \A f \in SentMarks' : /\ StartsAt(d, f) => IsKnownTo(d, f)
                                /\ EndsAt(d, f) => IsKnownTo(d, f)
      BY <3>2 DEF RangesAreKnown, StartsAt, EndsAt, IsKnownTo
    <3>4. QED
      BY <3>1, <3>3, SameDeleted
  <2>8. /\ MergedDeletions(r)' = MergedDeletions(r) \cup {d}
        /\ \A q \in replicas \ {r} : MergedDeletions(q)' = MergedDeletions(q)
    BY <2>1, MergedDeleted
  <2>9. \A q \in replicas' : HasEffect(next, q)'
    BY <1>1, <2>1, <2>2, <2>3, <2>4, <2>6, <2>7, <2>8, EffectsAdded
  <2>10. \A f \in deletions' :
            f \in deletions \/ \E b, c \in SentMarks : IsRangeOf(order, f, b, c)
    BY <2>2, <2>4
  <2>11. QED
    BY <1>2, <2>6, <2>9, <2>10
<1>9. CASE \E r \in ReplicaIds : \E d \in deletions :
             MergesDeletion(r, d) /\ DeletesText(r, d)
  <2>1. PICK r \in ReplicaIds, d \in deletions :
           MergesDeletion(r, d) /\ DeletesText(r, d)
    BY <1>9
  <2>2. /\ r \in replicas /\ UNCHANGED <<replicas, insertions, deletions>>
        /\ \A a \in ReplicaIds : version_map[r][a] >= d.version_map[a]
    BY <2>1 DEF MergesDeletion, CanMergeDeletion
  <2>3. /\ d.version_map \in [ReplicaIds -> Nat]
        /\ \A a \in ReplicaIds : d.version_map[a] <= version_map[r][a]
    BY <2>2 DEF DocumentsOK, ClockTypes
  <2>4. PICK s \in SentMarks, e \in SentMarks : IsRangeOf(order, d, s, e)
    BY <1>1, RangeOfDeletion DEF RangesAreInOrder, IsWithin, IsRangeOf
  <2>5. deletions \subseteq deletions' /\ deletions' \subseteq deletions
    BY <2>2
  <2>6. DeletesAlike(order, next)
    BY <1>3, <2>5
  <2>7. DeletedBy(next, d)' = DeletedBy(order, d)
    BY <2>6 DEF DeletesAlike
  <2>8. /\ MergedDeletions(r)' = MergedDeletions(r) \cup {d}
        /\ \A q \in replicas \ {r} : MergedDeletions(q)' = MergedDeletions(q)
    BY <2>1, MergedMerged
  <2>9. \A q \in replicas' : HasEffect(next, q)'
    BY <1>1, <2>1, <2>2, <2>3, <2>4, <2>6, <2>7, <2>8, EffectsAdded
  <2>10. QED
    BY <1>2, <2>5, <2>6, <2>9
<1>10. CASE LeavesClocks /\ UNCHANGED run_tree
  <2>1. LeavesDead
    BY <1>10 DEF LeavesDead
  <2>2. UNCHANGED <<replicas, deletion_map, deletions>>
    BY <1>10 DEF LeavesClocks, clock_vars
  <2>3. QED
    BY <1>4, <2>1, <2>2
<1>11. QED
  BY <1>5, <1>6, <1>7, <1>8, <1>9, <1>10 DEF DeletionSteps

(* The order of what was sent is extended by a step, never changed.        *)
GrowsOrderOfEdits(order) ==
    \E next : /\ KeepsRuns(next) /\ IsOrderOfEdits(next)'
              /\ IsGrownOrder(order, next)

OrderOfEditsGrows ==
    \E order, next :
        /\ KeepsRuns(order) /\ IsOrderOfEdits(order)
        /\ KeepsRuns(next) /\ IsOrderOfEdits(next)'
        /\ IsGrownOrder(order, next)

LEMMA EditsGrowFrom ==
    ASSUME DocumentInvariant, DocumentInvariant', AnchorsAreCounted,
           [Next]_vars, NEW order, KeepsRuns(order), IsOrderOfEdits(order)
    PROVE  GrowsOrderOfEdits(order) /\ AnchorsAreCounted'
<1>1. IsOrderOfText(order) /\ IsStrictOrder(order, SentMarks)
  BY DEF IsOrderOfEdits, IsOrderOfText
<1>2. KeepsOrder(order)
  BY <1>1, OrderGrows
<1>3. AnchorsAreCounted'
  BY <1>2 DEF KeepsOrder
<1>4. PICK next : /\ KeepsRuns(next) /\ IsOrderOfText(next)'
                  /\ LongerOrder(order, next)
  BY <1>2 DEF KeepsOrder
<1>5. DocumentsOK /\ DeletionSteps
  BY DocumentsAreOK, StepsDelete
<1>6. DocumentsOK'
  BY DocumentsAreOK, PTL
<1>7. SentMarks \subseteq SentMarks'
  BY <1>5, OldMarks
<1>8. IsStrictOrder(next, SentMarks)'
  BY <1>4 DEF IsOrderOfText
<1>9. IsGrownOrder(order, next)
  BY <1>1, <1>4, <1>7, <1>8, OrderIsGrown
<1>10. RangesAreInOrder(next)' /\ DeletionsHaveTheirEffect(next)'
  BY <1>5, <1>6, <1>9, EditsNext
<1>11. IsOrderOfEdits(next)'
  BY <1>4, <1>10 DEF IsOrderOfEdits
<1>12. GrowsOrderOfEdits(order)
  BY <1>4, <1>9, <1>11 DEF GrowsOrderOfEdits
<1>13. QED
  BY <1>3, <1>12

LEMMA EditsGrow ==
    ASSUME DocumentInvariant, DocumentInvariant', DeletionInvariant,
           [Next]_vars
    PROVE  OrderOfEditsGrows /\ AnchorsAreCounted'
<1>1. AnchorsAreCounted
  BY DEF DeletionInvariant
<1>2. PICK order : KeepsRuns(order) /\ IsOrderOfEdits(order)
  BY DEF DeletionInvariant
<1>3. GrowsOrderOfEdits(order) /\ AnchorsAreCounted'
  BY <1>1, <1>2, EditsGrowFrom
<1>4. QED
  BY <1>2, <1>3 DEF GrowsOrderOfEdits, OrderOfEditsGrows

LEMMA DeletionNext ==
    ASSUME DocumentInvariant, DocumentInvariant', DeletionInvariant,
           [Next]_vars
    PROVE  DeletionInvariant'
<1>1. OrderOfEditsGrows /\ AnchorsAreCounted'
  BY EditsGrow
<1>2. PICK next : KeepsRuns(next) /\ IsOrderOfEdits(next)'
  BY <1>1 DEF OrderOfEditsGrows
<1>3. KeepsRuns(next)'
  BY <1>2 DEF KeepsRuns, Mark
<1>4. QED
  BY <1>1, <1>2, <1>3 DEF DeletionInvariant

LEMMA DeletionInit == Init => DeletionInvariant
<1> SUFFICES ASSUME Init PROVE DeletionInvariant
  OBVIOUS
<1>1. AnchorsAreCounted
  BY DEF Init, AnchorsAreCounted
<1>2. KeepsRuns(TypingOrder) /\ IsOrderOfText(TypingOrder)
  BY OrderInit
<1>3. RangesAreInOrder(TypingOrder)
  BY DEF Init, RangesAreInOrder
<1>4. DeletionsHaveTheirEffect(TypingOrder)
  <2>1. SUFFICES ASSUME NEW r \in replicas
        PROVE  DeadMarks(run_tree[r]) =
                 UNION {DeletedBy(TypingOrder, d) : d \in MergedDeletions(r)}
    BY DEF DeletionsHaveTheirEffect
  <2>2. run_tree[r] = <<InitialRun>>
    BY InitialAssumption DEF Init
  <2>3. ~InitialRun.del
    BY DEF InitialRun, EditRunRecord
  <2>4. DeadMarks(<<InitialRun>>) = {}
    BY <2>3 DEF DeadMarks, DeadOf
  <2>5. MergedDeletions(r) = {}
    BY DEF Init, MergedDeletions
  <2>6. QED
    BY <2>2, <2>4, <2>5
<1>5. QED
  BY <1>1, <1>2, <1>3, <1>4 DEF DeletionInvariant, IsOrderOfEdits

(* What is deleted in a document is what the deletions merged there say,   *)
(* in whatever order merge_deletion and delete (run_tree.rs) were called.  *)
THEOREM DeletionsHaveOneEffect == Spec => []DeletionInvariant
<1>1. Init => DeletionInvariant
  BY DeletionInit
<1>2. (DocumentInvariant /\ DocumentInvariant' /\ DeletionInvariant /\ [Next]_vars)
         => DeletionInvariant'
  BY DeletionNext
<1>3. QED
  BY <1>1, <1>2, DocumentsAreCorrect, PTL DEF Spec

------------------------------------------------------------------------------
(* The characters of a document are those of its marks.                    *)
LEMMA CharsOfRun ==
    ASSUME NEW run, NEW x
    PROVE  x \in RunCharSet(run) <=> \E c \in RunMarks(run) : x = CharOf(c)
<1>1. ASSUME x \in RunCharSet(run) PROVE \E c \in RunMarks(run) : x = CharOf(c)
  <2>1. PICK k \in run.start .. run.end - 1 : x = [id |-> run.id, at |-> k]
    BY <1>1 DEF RunCharSet
  <2> DEFINE c == [id |-> run.id, at |-> k, ts |-> run.ts, lam |-> run.lam]
  <2>2. c \in RunMarks(run)
    BY DEF RunMarks
  <2>3. x = CharOf(c)
    BY <2>1 DEF CharOf
  <2>4. QED
    BY <2>2, <2>3
<1>2. ASSUME NEW c \in RunMarks(run), x = CharOf(c) PROVE x \in RunCharSet(run)
  BY <1>2 DEF RunMarks, CharOf, RunCharSet
<1>3. QED
  BY <1>1, <1>2

LEMMA CharsOfMarks ==
    ASSUME NEW runs, NEW x
    PROVE  /\ x \in CharSet(runs)
                <=> \E c \in DocumentMarks(runs) : x = CharOf(c)
           /\ x \in Tombstones(runs) <=> \E c \in DeadMarks(runs) : x = CharOf(c)
<1>1. x \in CharSet(runs) <=> \E c \in DocumentMarks(runs) : x = CharOf(c)
  BY CharsOfRun DEF CharSet, DocumentMarks
<1>2. x \in Tombstones(runs)
        <=> \E i \in DOMAIN runs : runs[i].del /\ x \in RunCharSet(runs[i])
  BY DEF Tombstones
<1>3. \A c : c \in DeadMarks(runs)
        <=> \E i \in DOMAIN runs : runs[i].del /\ c \in RunMarks(runs[i])
  BY DEF DeadMarks, DeadOf
<1>4. QED
  BY <1>1, <1>2, <1>3, CharsOfRun

(* Two replicas with the same version maps have the same text, and with    *)
(* the same deletion maps the same of it is deleted.                       *)
LEMMA SameMarksThere ==
    ASSUME DocumentsOK, NEW r \in replicas, NEW s \in replicas,
           version_map[r] = version_map[s]
    PROVE  DocumentMarks(run_tree[r]) = DocumentMarks(run_tree[s])
<1>1. /\ DocumentMarks(run_tree[r]) \subseteq SentMarks
      /\ DocumentMarks(run_tree[s]) \subseteq SentMarks
      /\ \A c \in SentMarks :
           /\ c \in DocumentMarks(run_tree[r]) <=> c.at < version_map[r][c.id]
           /\ c \in DocumentMarks(run_tree[s]) <=> c.at < version_map[s][c.id]
  BY HeldMarks
<1>2. QED
  BY <1>1

LEMMA SameDeadThere ==
    ASSUME NEW order, DeletionsHaveTheirEffect(order),
           NEW r \in replicas, NEW s \in replicas,
           deletion_map[r] = deletion_map[s]
    PROVE  DeadMarks(run_tree[r]) = DeadMarks(run_tree[s])
<1>1. MergedDeletions(r) = MergedDeletions(s)
  BY DEF MergedDeletions, HasMergedDeletion
<1>2. QED
  BY <1>1 DEF DeletionsHaveTheirEffect

LEMMA SameEditsSameText ==
    ASSUME DocumentInvariant, DeletionInvariant, OrderAgreement
    PROVE  Convergence
<1>1. DocumentsOK
  BY DocumentsAreOK
<1>2. PICK order : DeletionsHaveTheirEffect(order)
  BY DEF DeletionInvariant, IsOrderOfEdits
<1>3. SUFFICES ASSUME NEW r \in Live, NEW s \in Live,
                      version_map[r] = version_map[s],
                      deletion_map[r] = deletion_map[s]
               PROVE  /\ VisibleAt(r) = VisibleAt(s)
                      /\ \A c, e \in VisibleAt(r) :
                           ComesBefore(run_tree[r], c, e)
                             <=> ComesBefore(run_tree[s], c, e)
  BY DEF Convergence
<1>4. r \in replicas /\ s \in replicas
  BY DEF Live
<1>5. DocumentMarks(run_tree[r]) = DocumentMarks(run_tree[s])
  BY <1>1, <1>3, <1>4, SameMarksThere
<1>6. DeadMarks(run_tree[r]) = DeadMarks(run_tree[s])
  BY <1>2, <1>3, <1>4, SameDeadThere
<1>7. CharsAt(r) = CharsAt(s)
  <2>1. \A x : x \in CharSet(run_tree[r]) <=> x \in CharSet(run_tree[s])
    BY <1>5, CharsOfMarks
  <2>2. QED
    BY <2>1 DEF CharsAt
<1>8. Tombstones(run_tree[r]) = Tombstones(run_tree[s])
  <2>1. \A x : x \in Tombstones(run_tree[r])
                 <=> x \in Tombstones(run_tree[s])
    BY <1>6, CharsOfMarks
  <2>2. QED
    BY <2>1
<1>9. VisibleAt(r) = VisibleAt(s) /\ VisibleAt(r) \subseteq CharsAt(r)
  BY <1>7, <1>8 DEF VisibleAt
<1>10. ASSUME NEW c \in VisibleAt(r), NEW e \in VisibleAt(r)
       PROVE  ComesBefore(run_tree[r], c, e)
                <=> ComesBefore(run_tree[s], c, e)
  <2>1. c \in CharsAt(r) \cap CharsAt(s) /\ e \in CharsAt(r) \cap CharsAt(s)
    BY <1>7, <1>9
  <2>2. r < s \/ s < r \/ r = s
    <3>1. r \in ReplicaIds /\ s \in ReplicaIds
      BY <1>1, <1>4 DEF DocumentsOK, ClockTypes
    <3>2. r \in Nat /\ s \in Nat
      BY <3>1, ReplicaIdsAssumption
    <3>3. QED
      BY <3>2
  <2>3. QED
    BY <2>1, <2>2 DEF OrderAgreement
<1>11. QED
  BY <1>9, <1>10

(* Strong eventual consistency: replicas that have merged the same edits,  *)
(* in whatever order they came (replica.rs), show the same text.           *)
THEOREM ReplicasConverge == Spec => []Convergence
<1>1. DocumentInvariant /\ DeletionInvariant /\ OrderAgreement => Convergence
  BY SameEditsSameText
<1>2. QED
  BY <1>1, DocumentsAreCorrect, DeletionsHaveOneEffect, OrderIsAgreedOn, PTL

------------------------------------------------------------------------------
(* What a step may never do.                                               *)
HeldThere ==
    \A r \in replicas :
        /\ run_tree[r] \in Seq(Runs)
        /\ DocumentMarks(run_tree[r]) \subseteq SentMarks
        /\ \A c \in SentMarks :
             c \in DocumentMarks(run_tree[r]) <=> c.at < version_map[r][c.id]

MarksAreTyped ==
    /\ SentMarks \subseteq Mark
    /\ \A c, e \in SentMarks : c.id = e.id /\ c.at = e.at => c = e

LEMMA TextsOfDocuments == DocumentsOK => HeldThere /\ MarksAreTyped
<1> SUFFICES ASSUME DocumentsOK PROVE HeldThere /\ MarksAreTyped
  OBVIOUS
<1>1. HeldThere
  BY HeldMarks DEF HeldThere, DocumentsOK, DocumentsAreSentText, WellFormed
<1>2. MarksAreTyped
  BY SentMarksAreMarks, MarksAreUnique
     DEF MarksAreTyped, DocumentsOK, TextInvariant
<1>3. QED
  BY <1>1, <1>2

(* No replica ever counts less of the text, or fewer deletions.            *)
LEMMA CountsGrow ==
    ASSUME DocumentsOK, DeletionSteps, NEW r \in replicas
    PROVE  /\ r \in replicas' /\ deletions \subseteq deletions'
           /\ \A a \in ReplicaIds : version_map[r][a] <= version_map'[r][a]
           /\ MergedDeletions(r) \subseteq MergedDeletions(r)'
<1>1. /\ version_map \in [ReplicaIds -> [ReplicaIds -> Nat]]
      /\ r \in ReplicaIds
  BY DEF DocumentsOK, ClockTypes
<1>2. CASE \E q, new \in ReplicaIds : Fork(q, new)
  <2>1. PICK q \in ReplicaIds, new \in ReplicaIds : Fork(q, new)
    BY <1>2
  <2>2. /\ replicas' = replicas \cup {new} /\ deletions' = deletions
        /\ version_map'[r] = version_map[r]
    BY <2>1, Forked DEF DocumentsOK
  <2>3. MergedDeletions(r)' = MergedDeletions(r)
    BY <2>1, MergedForked
  <2>4. QED
    BY <1>1, <2>2, <2>3
<1>3. CASE \E q \in ReplicaIds : \E m : InsertsText(q, m) /\ LeavesDead
  <2>1. PICK q, m : q \in ReplicaIds /\ InsertsText(q, m)
    BY <1>3
  <2>2. /\ m.start = version_map[q][q] /\ m.start < m.end
        /\ m.start \in Nat /\ m.end \in Nat
        /\ version_map' = [version_map EXCEPT ![q][q] = m.end]
        /\ UNCHANGED <<replicas, deletion_map, deletions>>
    BY <2>1 DEF InsertsText
  <2>3. \A a \in ReplicaIds : version_map[r][a] <= version_map'[r][a]
    BY <1>1, <2>1, <2>2
  <2>4. MergedDeletions(r)' = MergedDeletions(r)
    BY <2>2, MergedLeft
  <2>5. QED
    BY <2>2, <2>3, <2>4
<1>4. CASE \E q \in ReplicaIds : \E d \in deletions' :
             Deletes(q, d) /\ DeletesText(q, d) /\ RangeIsHeld(q, d)
  <2>1. PICK q \in ReplicaIds, d \in deletions' : Deletes(q, d)
    BY <1>4
  <2>2. /\ deletions' = deletions \cup {d}
        /\ UNCHANGED <<replicas, version_map>>
    BY <2>1 DEF Deletes
  <2>3. /\ MergedDeletions(q)' = MergedDeletions(q) \cup {d}
        /\ \A s \in replicas \ {q} : MergedDeletions(s)' = MergedDeletions(s)
    BY <2>1, MergedDeleted
  <2>4. MergedDeletions(r) \subseteq MergedDeletions(r)'
    BY <2>3
  <2>5. QED
    BY <1>1, <2>2, <2>4
<1>5. CASE \E q \in ReplicaIds : \E m \in insertions :
             MergesInsertion(q, m) /\ LeavesDead
  <2>1. PICK q \in ReplicaIds, m \in insertions : MergesInsertion(q, m)
    BY <1>5
  <2>2. /\ version_map[q][m.by] = m.start
        /\ version_map' = [version_map EXCEPT ![q][m.by] = m.end]
        /\ UNCHANGED <<replicas, deletion_map, deletions>>
    BY <2>1 DEF MergesInsertion
  <2>3. m.start \in Nat /\ m.end \in Nat /\ m.start <= m.end
        /\ m.by \in ReplicaIds
    BY <2>1 DEF DocumentsOK, TextsOK, Texts
  <2>4. \A a \in ReplicaIds : version_map[r][a] <= version_map'[r][a]
    BY <1>1, <2>1, <2>2, <2>3
  <2>5. MergedDeletions(r)' = MergedDeletions(r)
    BY <2>2, MergedLeft
  <2>6. QED
    BY <2>2, <2>4, <2>5
<1>6. CASE \E q \in ReplicaIds : \E d \in deletions :
             MergesDeletion(q, d) /\ DeletesText(q, d)
  <2>1. PICK q \in ReplicaIds, d \in deletions : MergesDeletion(q, d)
    BY <1>6
  <2>2. UNCHANGED <<replicas, version_map, deletions>>
    BY <2>1 DEF MergesDeletion
  <2>3. /\ MergedDeletions(q)' = MergedDeletions(q) \cup {d}
        /\ \A s \in replicas \ {q} : MergedDeletions(s)' = MergedDeletions(s)
    BY <2>1, MergedMerged
  <2>4. MergedDeletions(r) \subseteq MergedDeletions(r)'
    BY <2>3
  <2>5. QED
    BY <1>1, <2>2, <2>4
<1>7. CASE LeavesClocks /\ UNCHANGED run_tree
  <2>1. UNCHANGED <<replicas, version_map, deletion_map, deletions>>
    BY <1>7 DEF LeavesClocks, clock_vars
  <2>2. MergedDeletions(r)' = MergedDeletions(r)
    BY <2>1, MergedLeft
  <2>3. QED
    BY <1>1, <2>1, <2>2
<1>8. QED
  BY <1>2, <1>3, <1>4, <1>5, <1>6, <1>7 DEF DeletionSteps

NextMarksOf(r) ==
    /\ r \in replicas'
    /\ DocumentMarks(run_tree[r]) \subseteq DocumentMarks(run_tree'[r])
    /\ DocumentMarks(run_tree'[r]) \subseteq SentMarks'
    /\ run_tree'[r] \in Seq(Runs)

LEMMA NextMarksThere ==
    ASSUME DocumentsOK, DocumentsOK', DeletionSteps, NEW r \in replicas
    PROVE  NextMarksOf(r)
<1>1. HeldThere /\ MarksAreTyped
  BY TextsOfDocuments
<1>2. HeldThere'
  BY TextsOfDocuments, PTL
<1>3. /\ r \in replicas' /\ SentMarks \subseteq SentMarks'
      /\ \A a \in ReplicaIds : version_map[r][a] <= version_map'[r][a]
  BY CountsGrow, OldMarks
<1>4. PICK runs : runs = run_tree'[r]
  OBVIOUS
<1>5. DocumentMarks(run_tree[r])' = DocumentMarks(runs)
  BY <1>4 DEF DocumentMarks, RunMarks
<1>6. /\ runs \in Seq(Runs)'
      /\ DocumentMarks(runs) \subseteq SentMarks'
      /\ \A c \in SentMarks' : c.at < version_map'[r][c.id] => c \in DocumentMarks(runs)
  BY <1>2, <1>3, <1>4, <1>5 DEF HeldThere
<1>7. Seq(Runs)' = Seq(Runs)
  BY DEF Runs, RunType, IsInitialAndEmpty
<1>8. ASSUME NEW c \in DocumentMarks(run_tree[r])
      PROVE  c \in DocumentMarks(runs)
  <2>1. c \in SentMarks /\ c.at < version_map[r][c.id]
        /\ c.at \in Nat /\ c.id \in ReplicaIds
    BY <1>1, <1>8 DEF HeldThere, MarksAreTyped, Mark
  <2>2. /\ version_map[r][c.id] <= version_map'[r][c.id]
        /\ version_map[r][c.id] \in Nat /\ version_map'[r][c.id] \in Nat
    BY <1>3, <2>1 DEF DocumentsOK, ClockTypes
  <2>3. c.at < version_map'[r][c.id]
    BY <2>1, <2>2
  <2>4. QED
    BY <1>3, <1>6, <2>1, <2>3
<1>9. QED
  BY <1>3, <1>4, <1>6, <1>7, <1>8 DEF NextMarksOf

LEMMA DeadStayDead ==
    ASSUME NEW order, NEW next, DeletesAlike(order, next),
           NEW r, HasEffect(order, r), HasEffect(next, r)',
           MergedDeletions(r) \subseteq MergedDeletions(r)'
    PROVE  DeadMarks(run_tree[r]) \subseteq DeadMarks(run_tree'[r])
<1>1. PICK dead : dead = DeadMarks(run_tree'[r])
  OBVIOUS
<1>2. DeadMarks(run_tree[r])' = dead
  BY <1>1, NextDead
<1>3. dead = UNION {DeletedBy(next, d)' : d \in MergedDeletions(r)'}
  BY <1>2 DEF HasEffect
<1>4. \A d \in MergedDeletions(r) : DeletedBy(next, d)' = DeletedBy(order, d)
  BY DEF DeletesAlike, MergedDeletions
<1>5. \A d \in MergedDeletions(r) : DeletedBy(order, d) \subseteq dead
  BY <1>3, <1>4
<1>6. DeadMarks(run_tree[r])
        = UNION {DeletedBy(order, d) : d \in MergedDeletions(r)}
  BY DEF HasEffect
<1>7. QED
  BY <1>1, <1>5, <1>6

(* Two characters of a document stand there, before a step and after it,   *)
(* as in the order of everything that was sent.                            *)
LEMMA OrderStays ==
    ASSUME DocumentsOK, DocumentsOK', DeletionSteps, NEW order, NEW next,
           KeepsRuns(order), IsOrderOfText(order),
           KeepsRuns(next), IsOrderOfText(next)', IsGrownOrder(order, next),
           NEW r \in replicas, NEW c \in DocumentMarks(run_tree[r]),
           NEW e \in DocumentMarks(run_tree[r])
    PROVE  ComesBefore(run_tree[r], CharOf(c), CharOf(e))
             <=> ComesBefore(run_tree'[r], CharOf(c), CharOf(e))
<1>1. NextMarksOf(r)
  BY NextMarksThere
<1>2. PICK runs : runs = run_tree'[r]
  OBVIOUS
<1>3. PICK marks : marks = SentMarks'
  OBVIOUS
<1>4. /\ r \in replicas' /\ runs \in Seq(Runs)
      /\ DocumentMarks(runs) \subseteq marks
      /\ c \in DocumentMarks(runs) /\ e \in DocumentMarks(runs)
  BY <1>1, <1>2, <1>3 DEF NextMarksOf
<1>5. IsStrictOrder(next, marks)
  BY <1>3 DEF IsOrderOfText, IsStrictOrder
<1>6. RunsAreOrdered(next, runs)
  <2>1. DocumentsAreInOrder(next)'
    BY DEF IsOrderOfText
  <2>2. RunsAreOrdered(next, run_tree[r])'
    BY <1>4, <2>1 DEF DocumentsAreInOrder
  <2>3. RunsAreOrdered(next, run_tree[r])' <=> RunsAreOrdered(next, runs)
    BY <1>2 DEF RunsAreOrdered, MarksBefore, RunMarks
  <2>4. QED
    BY <2>2, <2>3
<1>7. MarksAreTyped'
  BY TextsOfDocuments, PTL
<1>8. /\ marks \subseteq Mark
      /\ \A x, y \in marks : x.id = y.id /\ x.at = y.at => x = y
  BY <1>3, <1>7 DEF MarksAreTyped, Mark
<1>9. ComesBefore(runs, CharOf(c), CharOf(e)) <=> <<c, e>> \in next
  BY <1>4, <1>5, <1>6, <1>8, CharsInOrder
<1>10. ComesBefore(run_tree[r], CharOf(c), CharOf(e)) <=> <<c, e>> \in order
  BY CharsAtInOrder
<1>11. c \in SentMarks /\ e \in SentMarks
  BY HeldMarks
<1>12. <<c, e>> \in next <=> <<c, e>> \in order
  BY <1>11 DEF IsGrownOrder
<1>13. QED
  BY <1>2, <1>9, <1>10, <1>12

Grows(r) ==
    /\ CharsAt(r) \subseteq CharSet(run_tree'[r])
    /\ KeepsItsOrder(r)
    /\ Tombstones(run_tree[r]) \subseteq Tombstones(run_tree'[r])

LEMMA DocumentGrows ==
    ASSUME DocumentInvariant, DocumentInvariant', DeletionInvariant,
           [Next]_vars, NEW r \in replicas
    PROVE  Grows(r)
<1>1. OrderOfEditsGrows
  BY EditsGrow
<1>2. PICK order, next :
         /\ KeepsRuns(order) /\ IsOrderOfEdits(order)
         /\ KeepsRuns(next) /\ IsOrderOfEdits(next)'
         /\ IsGrownOrder(order, next)
  BY <1>1 DEF OrderOfEditsGrows
<1>3. /\ IsOrderOfText(order) /\ DeletionsHaveTheirEffect(order)
      /\ IsOrderOfText(next)' /\ DeletionsHaveTheirEffect(next)'
  BY <1>2 DEF IsOrderOfEdits
<1>4. DocumentsOK /\ DeletionSteps
  BY DocumentsAreOK, StepsDelete
<1>5. DocumentsOK'
  BY DocumentsAreOK, PTL
<1>6. NextMarksOf(r)
  BY <1>4, <1>5, NextMarksThere
<1>7. CharsAt(r) \subseteq CharSet(run_tree'[r])
  <2>1. DocumentMarks(run_tree[r]) \subseteq DocumentMarks(run_tree'[r])
    BY <1>6 DEF NextMarksOf
  <2>2. \A x : x \in CharSet(run_tree[r]) => x \in CharSet(run_tree'[r])
    BY <2>1, CharsOfMarks
  <2>3. QED
    BY <2>2 DEF CharsAt
<1>8. KeepsItsOrder(r)
  <2>1. ASSUME NEW x \in CharsAt(r), NEW y \in CharsAt(r)
        PROVE  ComesBefore(run_tree[r], x, y)
                 <=> ComesBefore(run_tree'[r], x, y)
    <3>1. PICK c \in DocumentMarks(run_tree[r]) : x = CharOf(c)
      BY <2>1, CharsOfMarks DEF CharsAt
    <3>2. PICK e \in DocumentMarks(run_tree[r]) : y = CharOf(e)
      BY <2>1, CharsOfMarks DEF CharsAt
    <3>3. ComesBefore(run_tree[r], CharOf(c), CharOf(e))
            <=> ComesBefore(run_tree'[r], CharOf(c), CharOf(e))
      BY <1>2, <1>3, <1>4, <1>5, OrderStays
    <3>4. QED
      BY <3>1, <3>2, <3>3
  <2>2. QED
    BY <2>1 DEF KeepsItsOrder
<1>9. Tombstones(run_tree[r]) \subseteq Tombstones(run_tree'[r])
  <2>1. /\ r \in replicas' /\ deletions \subseteq deletions'
        /\ MergedDeletions(r) \subseteq MergedDeletions(r)'
    BY <1>4, CountsGrow
  <2>2. DeletesAlike(order, next)
    BY <1>2, <1>4, <1>5, <2>1, DeletionsStayAlike
  <2>3. HasEffect(order, r) /\ HasEffect(next, r)'
    BY <1>3, <2>1 DEF DeletionsHaveTheirEffect, HasEffect
  <2>4. DeadMarks(run_tree[r]) \subseteq DeadMarks(run_tree'[r])
    BY <2>1, <2>2, <2>3, DeadStayDead
  <2>5. \A x : x \in Tombstones(run_tree[r]) => x \in Tombstones(run_tree'[r])
    BY <2>4, CharsOfMarks
  <2>6. QED
    BY <2>5
<1>10. QED
  BY <1>7, <1>8, <1>9 DEF Grows

(* A replica never forgets a character, changes the place of one, or       *)
(* brings a deleted one back, whatever it merges (run_tree.rs).            *)
THEOREM DocumentsOnlyGrow == Spec => DocumentOnlyGrows
<1>1. (DocumentInvariant /\ DocumentInvariant' /\ DeletionInvariant /\ [Next]_vars)
         => [\A r \in replicas :
               /\ CharsAt(r) \subseteq CharSet(run_tree'[r])
               /\ KeepsItsOrder(r)
               /\ Tombstones(run_tree[r]) \subseteq Tombstones(run_tree'[r])]_vars
  BY DocumentGrows DEF Grows
<1>2. QED
  BY <1>1, DocumentsAreCorrect, DeletionsHaveOneEffect, PTL
     DEF Spec, DocumentOnlyGrows
==============================================================================
