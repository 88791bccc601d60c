---------------------------- MODULE RunTreeProofs ----------------------------
(***************************************************************************)
(* What the operations of RunTree do to a document: lemmas for             *)
(* DocumentProofs, for documents of any length.                            *)
(***************************************************************************)
EXTENDS DocumentInvariant, SequenceTheorems, WellFoundedInduction,
        NaturalsInduction, TLAPS

------------------------------------------------------------------------------
(* Induction, with the property given as the set it defines.               *)
Below == {p \in Nat \X Nat : p[1] < p[2]}

LEMMA BelowIsWellFounded == IsWellFoundedOn(Below, Nat)
BY NatLessThanWellFounded DEF OpToRel, Below

(* A set of numbers that is not empty has a least one.                     *)
LEMMA LeastNumber ==
    ASSUME NEW S, S \subseteq Nat, S # {}
    PROVE  \E x \in S : \A y \in S : x <= y
<1>1. PICK x \in S : \A y \in S : ~(<<y, x>> \in Below)
  BY BelowIsWellFounded, WFMin
<1>2. ASSUME NEW y \in S PROVE x <= y
  <2>1. x \in Nat /\ y \in Nat
    OBVIOUS
  <2>2. CASE y < x
    <3>1. <<y, x>> \in Below
      BY <2>1, <2>2 DEF Below
    <3>2. QED
      BY <3>1, <1>1
  <2>3. QED
    BY <2>1, <2>2
<1>3. QED
  BY <1>2

LEMMA Induction ==
    ASSUME NEW S, 0 \in S, \A n \in S \cap Nat : n + 1 \in S
    PROVE  Nat \subseteq S
<1> DEFINE T == Nat \ S
<1> SUFFICES ASSUME T # {} PROVE FALSE
  OBVIOUS
<1>1. PICK x \in T : \A y \in T : x <= y
  <2>1. T \subseteq Nat
    OBVIOUS
  <2> HIDE DEF T
  <2>2. QED
    BY <2>1, LeastNumber
<1>2. x \in Nat /\ x # 0
  OBVIOUS
<1>3. x - 1 \in Nat /\ ~(x <= x - 1)
  BY <1>2
<1>4. x - 1 \in S
  <2>1. x - 1 \notin T
    <3> HIDE DEF T
    <3>1. QED
      BY <1>1, <1>3
  <2>2. QED
    BY <2>1, <1>3
<1>5. (x - 1) + 1 \in S
  BY <1>3, <1>4
<1>6. (x - 1) + 1 = x
  BY <1>2
<1>7. QED
  BY <1>5, <1>6

------------------------------------------------------------------------------
(* Marks of runs.                                                          *)
Covers(run, c) ==
    /\ c.id = run.id /\ c.ts = run.ts /\ c.lam = run.lam
    /\ run.start <= c.at /\ c.at < run.end

LEMMA MarkOfRun ==
    ASSUME NEW run \in RunType, NEW c
    PROVE  c \in RunMarks(run) <=> c \in Mark /\ Covers(run, c)
BY DEF RunMarks, RunType, Mark, Covers

LEMMA MarksOfRun ==
    ASSUME NEW run \in RunType, NEW other \in RunType,
           \A c \in Mark : Covers(run, c) <=> Covers(other, c)
    PROVE  RunMarks(run) = RunMarks(other)
<1>1. \A c : c \in RunMarks(run) <=> c \in RunMarks(other)
  BY MarkOfRun
<1>2. QED
  BY <1>1

(* The marks of a sequence of leaves.                                      *)
LEMMA MarksOfConcat ==
    ASSUME NEW S, NEW s \in Seq(S), NEW t \in Seq(S)
    PROVE  DocumentMarks(s \o t) = DocumentMarks(s) \cup DocumentMarks(t)
<1>1. /\ Len(s) \in Nat /\ DOMAIN s = 1 .. Len(s)
      /\ Len(t) \in Nat /\ DOMAIN t = 1 .. Len(t)
  BY LenProperties
<1>2. /\ s \o t \in Seq(S) /\ Len(s \o t) = Len(s) + Len(t)
      /\ \A i \in 1 .. Len(s) + Len(t) :
            (s \o t)[i] = IF i <= Len(s) THEN s[i] ELSE t[i - Len(s)]
  BY ConcatProperties
<1>3. DOMAIN (s \o t) = 1 .. Len(s) + Len(t)
  BY <1>2, LenProperties
<1> DEFINE u == s \o t
<1> HIDE DEF u
<1>4. ASSUME NEW c \in DocumentMarks(u)
      PROVE  c \in DocumentMarks(s) \cup DocumentMarks(t)
  <2>1. PICK i \in 1 .. Len(s) + Len(t) : c \in RunMarks(u[i])
    BY <1>3 DEF DocumentMarks, u
  <2>2. CASE i <= Len(s)
    BY <2>1, <2>2, <1>1, <1>2 DEF DocumentMarks, u
  <2>3. CASE ~(i <= Len(s))
    <3>1. i - Len(s) \in 1 .. Len(t) /\ u[i] = t[i - Len(s)]
      BY <2>3, <1>1, <1>2 DEF u
    <3>2. QED
      BY <3>1, <2>1, <1>1 DEF DocumentMarks
  <2>4. QED
    BY <2>2, <2>3
<1>5. ASSUME NEW c \in DocumentMarks(s)
      PROVE  c \in DocumentMarks(u)
  <2>1. PICK i \in 1 .. Len(s) : c \in RunMarks(s[i])
    BY <1>1 DEF DocumentMarks
  <2>2. i \in 1 .. Len(s) + Len(t) /\ u[i] = s[i]
    BY <1>1, <1>2 DEF u
  <2>3. QED
    BY <2>1, <2>2, <1>3 DEF DocumentMarks, u
<1>6. ASSUME NEW c \in DocumentMarks(t)
      PROVE  c \in DocumentMarks(u)
  <2>1. PICK i \in 1 .. Len(t) : c \in RunMarks(t[i])
    BY <1>1 DEF DocumentMarks
  <2>2. /\ i + Len(s) \in 1 .. Len(s) + Len(t) /\ ~(i + Len(s) <= Len(s))
        /\ (i + Len(s)) - Len(s) = i
    BY <1>1
  <2>3. u[i + Len(s)] = t[i]
    BY <2>2, <1>2 DEF u
  <2>4. QED
    BY <2>1, <2>2, <2>3, <1>3 DEF DocumentMarks, u
<1>7. QED
  BY <1>4, <1>5, <1>6 DEF u

LEMMA MarksOfOne ==
    ASSUME NEW run
    PROVE  DocumentMarks(<<run>>) = RunMarks(run)
<1>1. DOMAIN <<run>> = {1} /\ <<run>>[1] = run
  OBVIOUS
<1>2. QED
  BY <1>1 DEF DocumentMarks

LEMMA MarksOfNone == DocumentMarks(<<>>) = {}
<1>1. DOMAIN <<>> = {}
  OBVIOUS
<1>2. QED
  BY <1>1 DEF DocumentMarks

------------------------------------------------------------------------------
(* Order of runs.                                                          *)
LEMMA OrderOfConcat ==
    ASSUME NEW order, NEW S, NEW s \in Seq(S), NEW t \in Seq(S)
    PROVE  RunsAreOrdered(order, s \o t) <=>
              /\ RunsAreOrdered(order, s) /\ RunsAreOrdered(order, t)
              /\ MarksBefore(order, DocumentMarks(s), DocumentMarks(t))
<1>1. /\ Len(s) \in Nat /\ DOMAIN s = 1 .. Len(s)
      /\ Len(t) \in Nat /\ DOMAIN t = 1 .. Len(t)
  BY LenProperties
<1> DEFINE u == s \o t
<1>2. /\ u \in Seq(S) /\ Len(u) = Len(s) + Len(t)
      /\ \A i \in 1 .. Len(s) + Len(t) :
            u[i] = IF i <= Len(s) THEN s[i] ELSE t[i - Len(s)]
  BY ConcatProperties
<1>3. DOMAIN u = 1 .. Len(s) + Len(t)
  BY <1>2, LenProperties
<1> HIDE DEF u
<1>4. \A i \in 1 .. Len(s) : i \in DOMAIN u /\ u[i] = s[i]
  BY <1>1, <1>2, <1>3
<1>5. \A i \in 1 .. Len(t) : /\ i + Len(s) \in DOMAIN u
                             /\ u[i + Len(s)] = t[i]
  <2> TAKE i \in 1 .. Len(t)
  <2>1. /\ i + Len(s) \in 1 .. Len(s) + Len(t) /\ ~(i + Len(s) <= Len(s))
        /\ (i + Len(s)) - Len(s) = i
    BY <1>1
  <2>2. QED
    BY <2>1, <1>2, <1>3
<1>6. ASSUME RunsAreOrdered(order, u)
      PROVE  /\ RunsAreOrdered(order, s) /\ RunsAreOrdered(order, t)
             /\ MarksBefore(order, DocumentMarks(s), DocumentMarks(t))
  <2>1. RunsAreOrdered(order, s)
    BY <1>6, <1>4, <1>1 DEF RunsAreOrdered
  <2>2. RunsAreOrdered(order, t)
    <3> SUFFICES ASSUME NEW i \in 1 .. Len(t), NEW j \in 1 .. Len(t), i < j
                 PROVE  MarksBefore(order, RunMarks(t[i]), RunMarks(t[j]))
      BY <1>1 DEF RunsAreOrdered
    <3>1. i + Len(s) < j + Len(s)
      BY <1>1
    <3>2. QED
      BY <3>1, <1>5, <1>6 DEF RunsAreOrdered
  <2>3. ASSUME NEW c \in DocumentMarks(s), NEW e \in DocumentMarks(t)
        PROVE  <<c, e>> \in order
    <3>1. PICK i \in 1 .. Len(s) : c \in RunMarks(s[i])
      BY <1>1 DEF DocumentMarks
    <3>2. PICK j \in 1 .. Len(t) : e \in RunMarks(t[j])
      BY <1>1 DEF DocumentMarks
    <3>3. i < j + Len(s)
      BY <1>1
    <3>4. MarksBefore(order, RunMarks(s[i]), RunMarks(t[j]))
      BY <3>3, <1>4, <1>5, <1>6 DEF RunsAreOrdered
    <3>5. QED
      BY <3>1, <3>2, <3>4 DEF MarksBefore
  <2>4. QED
    BY <2>1, <2>2, <2>3 DEF MarksBefore
<1>7. ASSUME RunsAreOrdered(order, s), RunsAreOrdered(order, t),
             MarksBefore(order, DocumentMarks(s), DocumentMarks(t))
      PROVE  RunsAreOrdered(order, u)
  <2> SUFFICES ASSUME NEW i \in 1 .. Len(s) + Len(t),
                      NEW j \in 1 .. Len(s) + Len(t), i < j
               PROVE  MarksBefore(order, RunMarks(u[i]), RunMarks(u[j]))
    BY <1>3 DEF RunsAreOrdered
  <2>1. CASE j <= Len(s)
    <3>1. /\ i \in 1 .. Len(s) /\ j \in 1 .. Len(s)
          /\ u[i] = s[i] /\ u[j] = s[j]
      BY <2>1, <1>1, <1>2
    <3>2. QED
      BY <3>1, <1>1, <1>7 DEF RunsAreOrdered
  <2>2. CASE ~(j <= Len(s)) /\ ~(i <= Len(s))
    <3>1. /\ i - Len(s) \in 1 .. Len(t) /\ j - Len(s) \in 1 .. Len(t)
          /\ i - Len(s) < j - Len(s)
          /\ u[i] = t[i - Len(s)] /\ u[j] = t[j - Len(s)]
      BY <2>2, <1>1, <1>2
    <3>2. QED
      BY <3>1, <1>1, <1>7 DEF RunsAreOrdered
  <2>3. CASE ~(j <= Len(s)) /\ i <= Len(s)
    <3>1. /\ i \in 1 .. Len(s) /\ j - Len(s) \in 1 .. Len(t)
          /\ u[i] = s[i] /\ u[j] = t[j - Len(s)]
      BY <2>3, <1>1, <1>2
    <3>2. /\ RunMarks(u[i]) \subseteq DocumentMarks(s)
          /\ RunMarks(u[j]) \subseteq DocumentMarks(t)
      BY <3>1, <1>1 DEF DocumentMarks
    <3>3. QED
      BY <3>2, <1>7 DEF MarksBefore
  <2>4. QED
    BY <2>1, <2>2, <2>3
<1>8. QED
  BY <1>6, <1>7 DEF u

LEMMA OrderOfOne == ASSUME NEW order, NEW run PROVE RunsAreOrdered(order, <<run>>)
<1>1. DOMAIN <<run>> = {1}
  OBVIOUS
<1>2. QED
  BY <1>1 DEF RunsAreOrdered

LEMMA OrderOfNone == ASSUME NEW order PROVE RunsAreOrdered(order, <<>>)
<1>1. DOMAIN <<>> = {}
  OBVIOUS
<1>2. QED
  BY <1>1 DEF RunsAreOrdered

------------------------------------------------------------------------------
(* Leaves without an empty run.                                            *)
IsFull(runs) == \A i \in 1 .. Len(runs) : runs[i].start < runs[i].end

LEMMA FullConcat ==
    ASSUME NEW S, NEW s \in Seq(S), NEW t \in Seq(S)
    PROVE  /\ IsFull(s) /\ IsFull(t) => IsFull(s \o t)
           /\ IsFull(s) /\ OnlyLastIsEmpty(t) => OnlyLastIsEmpty(s \o t)
<1> DEFINE u == s \o t
<1>1. /\ Len(s) \in Nat /\ Len(t) \in Nat /\ Len(u) = Len(s) + Len(t)
      /\ \A i \in 1 .. Len(s) + Len(t) :
            u[i] = IF i <= Len(s) THEN s[i] ELSE t[i - Len(s)]
  BY LenProperties, ConcatProperties
<1> HIDE DEF u
<1>2. ASSUME IsFull(s), NEW i \in 1 .. Len(u), i <= Len(s)
      PROVE  u[i].start < u[i].end
  BY <1>1, <1>2 DEF IsFull
<1>3. ASSUME NEW i \in 1 .. Len(u), ~(i <= Len(s))
      PROVE  /\ i - Len(s) \in 1 .. Len(t) /\ u[i] = t[i - Len(s)]
             /\ i \in 1 .. Len(u) - 1 => i - Len(s) \in 1 .. Len(t) - 1
  BY <1>1, <1>3
<1>4. ASSUME IsFull(s), IsFull(t) PROVE IsFull(u)
  BY <1>2, <1>3, <1>4 DEF IsFull
<1>5. ASSUME IsFull(s), OnlyLastIsEmpty(t) PROVE OnlyLastIsEmpty(u)
  <2>1. SUFFICES ASSUME NEW i \in 1 .. Len(u) - 1
                 PROVE  u[i].start < u[i].end
    BY DEF OnlyLastIsEmpty
  <2>2. i \in 1 .. Len(u)
    BY <1>1
  <2>3. QED
    BY <2>1, <2>2, <1>2, <1>3, <1>5 DEF OnlyLastIsEmpty
<1>6. QED
  BY <1>4, <1>5 DEF u

LEMMA FullSubSeqs ==
    ASSUME NEW S, NEW runs \in Seq(S), OnlyLastIsEmpty(runs),
           NEW p \in 1 .. Len(runs) + 1
    PROVE  /\ p <= Len(runs) => IsFull(SubSeq(runs, 1, p - 1))
           /\ p = 1 \/ runs[p - 1].start < runs[p - 1].end
                => IsFull(SubSeq(runs, 1, p - 1))
           /\ OnlyLastIsEmpty(SubSeq(runs, p, Len(runs)))
           /\ IsFull(runs) => IsFull(SubSeq(runs, p, Len(runs)))
<1>1. Len(runs) \in Nat /\ \A k \in 1 .. Len(runs) : runs[k] \in S
  BY LenProperties, ElementOfSeq
<1> DEFINE s == SubSeq(runs, 1, p - 1)
           t == SubSeq(runs, p, Len(runs))
<1>2. Len(s) = p - 1 /\ \A k \in 1 .. p - 1 : s[k] = runs[k]
  BY <1>1, SubSeqProperties
<1>3. Len(t) = Len(runs) - p + 1
      /\ \A k \in 1 .. Len(runs) - p + 1 : t[k] = runs[p + k - 1]
  <2>1. p \in Int /\ Len(runs) \in Int
        /\ \A k \in p .. Len(runs) : runs[k] \in S
    BY <1>1
  <2>2. /\ Len(t) = IF p <= Len(runs) THEN Len(runs) - p + 1 ELSE 0
        /\ \A k \in 1 .. Len(runs) - p + 1 : t[k] = runs[p + k - 1]
    BY <2>1, SubSeqProperties
  <2>3. QED
    BY <1>1, <2>2
<1> HIDE DEF s, t
<1>4. ASSUME p <= Len(runs) PROVE IsFull(s)
  BY <1>1, <1>2, <1>4 DEF IsFull, OnlyLastIsEmpty
<1>5. ASSUME p = 1 \/ runs[p - 1].start < runs[p - 1].end PROVE IsFull(s)
  <2>1. SUFFICES ASSUME NEW k \in 1 .. p - 1
                 PROVE  runs[k].start < runs[k].end
    BY <1>2 DEF IsFull
  <2>2. CASE k = p - 1
    BY <2>2, <1>5
  <2>3. CASE k # p - 1
    BY <2>3, <1>1 DEF OnlyLastIsEmpty
  <2>4. QED
    BY <2>2, <2>3
<1>6. OnlyLastIsEmpty(t)
  <2>1. SUFFICES ASSUME NEW k \in 1 .. Len(t) - 1
                 PROVE  t[k].start < t[k].end
    BY DEF OnlyLastIsEmpty
  <2>2. p + k - 1 \in 1 .. Len(runs) - 1 /\ t[k] = runs[p + k - 1]
    BY <1>1, <1>3
  <2>3. QED
    BY <2>2 DEF OnlyLastIsEmpty
<1>7. ASSUME IsFull(runs), NEW k \in 1 .. Len(t) PROVE t[k].start < t[k].end
  <2>1. p + k - 1 \in 1 .. Len(runs) /\ t[k] = runs[p + k - 1]
    BY <1>1, <1>3
  <2>2. QED
    BY <1>7, <2>1 DEF IsFull
<1>8. IsFull(runs) => IsFull(t)
  BY <1>7 DEF IsFull
<1>9. QED
  BY <1>4, <1>5, <1>6, <1>8 DEF s, t

LEMMA FullSplice ==
    ASSUME NEW runs \in Seq(Runs), OnlyLastIsEmpty(runs),
           NEW i \in 1 .. Len(runs), NEW Q \in Seq(Runs), IsFull(Q)
    PROVE  OnlyLastIsEmpty(Splice(runs, i, Q))
<1> DEFINE A == SubSeq(runs, 1, i - 1)
           B == SubSeq(runs, i + 1, Len(runs))
<1>1. A \in Seq(Runs) /\ B \in Seq(Runs)
  <2>1. /\ Len(runs) \in Nat /\ \A k \in 1 .. Len(runs) : runs[k] \in Runs
    BY LenProperties, ElementOfSeq
  <2>2. QED
    BY <2>1, SubSeqProperties
<1>2. IsFull(A) /\ OnlyLastIsEmpty(B)
  <2>1. /\ i \in 1 .. Len(runs) + 1 /\ i + 1 \in 1 .. Len(runs) + 1
        /\ i <= Len(runs)
    BY LenProperties
  <2>2. QED
    BY <2>1, FullSubSeqs
<1> HIDE DEF A, B
<1>3. A \o Q \in Seq(Runs) /\ IsFull(A \o Q)
  BY <1>1, <1>2, FullConcat, ConcatProperties
<1>4. OnlyLastIsEmpty(A \o Q \o B)
  BY <1>1, <1>2, <1>3, FullConcat
<1>5. QED
  BY <1>4 DEF Splice, A, B

------------------------------------------------------------------------------
(* Replacing some leaves by others with the same marks, and new ones.      *)
AreReplaced(order, A, P, B, Q, N) ==
    /\ A \in Seq(Runs) /\ P \in Seq(Runs) /\ B \in Seq(Runs)
    /\ WellFormed(order, A \o P \o B)
    /\ Q \in Seq(Runs) /\ Q # <<>> /\ RunsAreOrdered(order, Q)
    /\ OnlyLastIsEmpty(A \o Q \o B)
    /\ DocumentMarks(Q) = DocumentMarks(P) \cup N
    /\ MarksBefore(order, DocumentMarks(A), N)
    /\ MarksBefore(order, N, DocumentMarks(B))

LEMMA LeavesReplaced ==
    ASSUME NEW order, NEW A, NEW P, NEW B, NEW Q, NEW N,
           AreReplaced(order, A, P, B, Q, N)
    PROVE  /\ WellFormed(order, A \o Q \o B)
           /\ DocumentMarks(A \o Q \o B) = DocumentMarks(A \o P \o B) \cup N
<1>0. /\ A \in Seq(Runs) /\ P \in Seq(Runs) /\ B \in Seq(Runs)
      /\ WellFormed(order, A \o P \o B)
      /\ Q \in Seq(Runs) /\ Q # <<>> /\ RunsAreOrdered(order, Q)
      /\ OnlyLastIsEmpty(A \o Q \o B)
      /\ DocumentMarks(Q) = DocumentMarks(P) \cup N
      /\ MarksBefore(order, DocumentMarks(A), N)
      /\ MarksBefore(order, N, DocumentMarks(B))
  BY DEF AreReplaced
<1>1. /\ A \o P \in Seq(Runs) /\ A \o Q \in Seq(Runs)
      /\ A \o Q \o B \in Seq(Runs)
  BY <1>0, ConcatProperties
<1>2. A \o Q \o B # <<>>
  BY <1>0, <1>1, ConcatEqualIffEmpty
<1>3. /\ DocumentMarks(A \o P \o B) =
           DocumentMarks(A) \cup DocumentMarks(P) \cup DocumentMarks(B)
      /\ DocumentMarks(A \o Q \o B) =
           DocumentMarks(A) \cup DocumentMarks(Q) \cup DocumentMarks(B)
      /\ DocumentMarks(A \o P) = DocumentMarks(A) \cup DocumentMarks(P)
      /\ DocumentMarks(A \o Q) = DocumentMarks(A) \cup DocumentMarks(Q)
  <2>1. DocumentMarks(A \o P) = DocumentMarks(A) \cup DocumentMarks(P)
    BY <1>0, MarksOfConcat
  <2>2. DocumentMarks(A \o Q) = DocumentMarks(A) \cup DocumentMarks(Q)
    BY <1>0, MarksOfConcat
  <2>3. \A s \in Seq(Runs) :
           DocumentMarks(s \o B) = DocumentMarks(s) \cup DocumentMarks(B)
    BY <1>0, MarksOfConcat
  <2>4. /\ DocumentMarks(A \o P \o B)
             = DocumentMarks(A \o P) \cup DocumentMarks(B)
        /\ DocumentMarks(A \o Q \o B)
             = DocumentMarks(A \o Q) \cup DocumentMarks(B)
    BY <1>0, <1>1, <2>3
  <2>5. QED
    BY <1>0, <2>1, <2>2, <2>3, <2>4
<1>4. RunsAreOrdered(order, A \o P \o B)
  BY <1>0 DEF WellFormed
<1>5. /\ RunsAreOrdered(order, A \o P) /\ RunsAreOrdered(order, B)
      /\ MarksBefore(order, DocumentMarks(A \o P), DocumentMarks(B))
  BY <1>0, <1>1, <1>4, OrderOfConcat
<1>6. /\ RunsAreOrdered(order, A)
      /\ MarksBefore(order, DocumentMarks(A), DocumentMarks(P))
  BY <1>0, <1>5, OrderOfConcat
<1>7. MarksBefore(order, DocumentMarks(A), DocumentMarks(Q))
  BY <1>0, <1>6 DEF MarksBefore
<1>8. RunsAreOrdered(order, A \o Q)
  BY <1>0, <1>6, <1>7, OrderOfConcat
<1>9. MarksBefore(order, DocumentMarks(A \o Q), DocumentMarks(B))
  BY <1>0, <1>3, <1>5 DEF MarksBefore
<1>10. RunsAreOrdered(order, A \o Q \o B)
  BY <1>0, <1>1, <1>5, <1>8, <1>9, OrderOfConcat
<1>11. QED
  BY <1>0, <1>1, <1>2, <1>3, <1>10 DEF WellFormed

LEMMA LeavesRecut ==
    ASSUME NEW order, NEW A \in Seq(Runs), NEW P \in Seq(Runs), NEW B \in Seq(Runs),
           WellFormed(order, A \o P \o B),
           NEW Q \in Seq(Runs), Q # <<>>, RunsAreOrdered(order, Q),
           OnlyLastIsEmpty(A \o Q \o B),
           DocumentMarks(Q) = DocumentMarks(P)
    PROVE  /\ WellFormed(order, A \o Q \o B)
           /\ DocumentMarks(A \o Q \o B) = DocumentMarks(A \o P \o B)
<1> DEFINE N == {}
<1>1. MarksBefore(order, DocumentMarks(A), N) /\ MarksBefore(order, N, DocumentMarks(B))
  BY DEF MarksBefore
<1>2. \A M : M \cup N = M
  OBVIOUS
<1> HIDE DEF N
<1>3. DocumentMarks(Q) = DocumentMarks(P) \cup N
  BY <1>2
<1>4. /\ WellFormed(order, A \o Q \o B)
      /\ DocumentMarks(A \o Q \o B) = DocumentMarks(A \o P \o B) \cup N
  <2>1. AreReplaced(order, A, P, B, Q, N)
    BY <1>1, <1>3 DEF AreReplaced
  <2>2. QED
    BY <2>1, LeavesReplaced
<1>5. QED
  BY <1>2, <1>4

(* A document taken apart at a leaf, and at two that are neighbours.       *)
LEMMA ApartAt ==
    ASSUME NEW S, NEW runs \in Seq(S), NEW i \in 1 .. Len(runs)
    PROVE  /\ SubSeq(runs, 1, i - 1) \in Seq(S)
           /\ SubSeq(runs, i + 1, Len(runs)) \in Seq(S)
           /\ <<runs[i]>> \in Seq(S)
           /\ runs = SubSeq(runs, 1, i - 1) \o <<runs[i]>>
                      \o SubSeq(runs, i + 1, Len(runs))
<1>1. Len(runs) \in Nat /\ \A k \in 1 .. Len(runs) : runs[k] \in S
  BY LenProperties, ElementOfSeq
<1>2. /\ SubSeq(runs, 1, i - 1) \in Seq(S)
      /\ SubSeq(runs, i + 1, Len(runs)) \in Seq(S)
      /\ <<runs[i]>> \in Seq(S)
  BY <1>1, SubSeqProperties
<1>3. SubSeq(runs, 1, i) = SubSeq(runs, 1, i - 1) \o <<runs[i]>>
  <2>1. 1 \in 1 .. Len(runs) /\ i \in 1 .. Len(runs)
    BY <1>1
  <2>2. QED
    BY <2>1, SubSeqRecursiveSecond
<1>4. SubSeq(runs, 1, i) \o SubSeq(runs, i + 1, Len(runs)) =
        SubSeq(runs, 1, Len(runs))
  <2>1. /\ 1 \in 1 .. Len(runs) + 1 /\ i \in 1 - 1 .. Len(runs)
        /\ Len(runs) \in i .. Len(runs)
    BY <1>1
  <2>2. QED
    BY <2>1, ConcatAdjacentSubSeq
<1>5. SubSeq(runs, 1, Len(runs)) = runs
  BY SubSeqFull
<1>6. QED
  BY <1>2, <1>3, <1>4, <1>5

(* A leaf replaced by others.                                              *)
LEMMA LeafSpliced ==
    ASSUME NEW order, NEW runs, WellFormed(order, runs), NEW i \in 1 .. Len(runs),
           NEW Q \in Seq(Runs), Q # <<>>, RunsAreOrdered(order, Q),
           OnlyLastIsEmpty(Splice(runs, i, Q)),
           NEW N, DocumentMarks(Q) = RunMarks(runs[i]) \cup N,
           MarksBefore(order, DocumentMarks(SubSeq(runs, 1, i - 1)), N),
           MarksBefore(order, N, DocumentMarks(SubSeq(runs, i + 1, Len(runs))))
    PROVE  /\ WellFormed(order, Splice(runs, i, Q))
           /\ DocumentMarks(Splice(runs, i, Q)) = DocumentMarks(runs) \cup N
<1> DEFINE A == SubSeq(runs, 1, i - 1)
           B == SubSeq(runs, i + 1, Len(runs))
           P == <<runs[i]>>
<1>1. runs \in Seq(Runs)
  BY DEF WellFormed
<1>2. /\ A \in Seq(Runs) /\ B \in Seq(Runs) /\ P \in Seq(Runs)
      /\ runs = A \o P \o B
  BY <1>1, ApartAt
<1>3. DocumentMarks(P) = RunMarks(runs[i])
  BY MarksOfOne
<1>4. Splice(runs, i, Q) = A \o Q \o B
  BY DEF Splice
<1> HIDE DEF A, B, P
<1>5. MarksBefore(order, DocumentMarks(A), N) /\ MarksBefore(order, N, DocumentMarks(B))
  BY DEF A, B
<1>6. WellFormed(order, A \o P \o B)
  BY <1>2
<1>7. DocumentMarks(Q) = DocumentMarks(P) \cup N
      /\ OnlyLastIsEmpty(A \o Q \o B)
  BY <1>3, <1>4
<1>8. /\ WellFormed(order, A \o Q \o B)
      /\ DocumentMarks(A \o Q \o B) = DocumentMarks(A \o P \o B) \cup N
  <2>1. AreReplaced(order, A, P, B, Q, N)
    BY <1>2, <1>5, <1>6, <1>7 DEF AreReplaced
  <2>2. QED
    BY <2>1, LeavesReplaced
<1>9. QED
  BY <1>2, <1>4, <1>8

LEMMA LeafCut ==
    ASSUME NEW order, NEW runs, WellFormed(order, runs), NEW i \in 1 .. Len(runs),
           NEW Q \in Seq(Runs), Q # <<>>, RunsAreOrdered(order, Q),
           OnlyLastIsEmpty(Splice(runs, i, Q)),
           DocumentMarks(Q) = RunMarks(runs[i])
    PROVE  /\ WellFormed(order, Splice(runs, i, Q))
           /\ DocumentMarks(Splice(runs, i, Q)) = DocumentMarks(runs)
<1> DEFINE N == {}
<1>1. \A M : MarksBefore(order, M, N) /\ MarksBefore(order, N, M)
  BY DEF MarksBefore
<1>2. \A M : M \cup N = M
  OBVIOUS
<1> HIDE DEF N
<1>3. DocumentMarks(Q) = RunMarks(runs[i]) \cup N
  BY <1>2
<1>4. /\ WellFormed(order, Splice(runs, i, Q))
      /\ DocumentMarks(Splice(runs, i, Q)) = DocumentMarks(runs) \cup N
  <2>1. /\ MarksBefore(order, DocumentMarks(SubSeq(runs, 1, i - 1)), N)
        /\ MarksBefore(order, N, DocumentMarks(SubSeq(runs, i + 1, Len(runs))))
    BY <1>1
  <2>2. QED
    BY <1>3, <2>1, LeafSpliced
<1>5. QED
  BY <1>2, <1>4

(* A leaf changed in place.                                                *)
LEMMA ExceptIsSplice ==
    ASSUME NEW S, NEW runs \in Seq(S), NEW i \in 1 .. Len(runs), NEW e \in S
    PROVE  [runs EXCEPT ![i] = e] = Splice(runs, i, <<e>>)
<1> DEFINE new == [runs EXCEPT ![i] = e]
           A == SubSeq(runs, 1, i - 1)
           B == SubSeq(runs, i + 1, Len(runs))
<1>1. Len(runs) \in Nat /\ \A k \in 1 .. Len(runs) : runs[k] \in S
  BY LenProperties, ElementOfSeq
<1>2. /\ new \in Seq(S) /\ Len(new) = Len(runs)
      /\ \A j \in 1 .. Len(runs) : new[j] = IF j = i THEN e ELSE runs[j]
  BY ExceptSeq
<1> HIDE DEF new
<1>3. /\ SubSeq(new, 1, i - 1) \in Seq(S) /\ A \in Seq(S)
      /\ Len(SubSeq(new, 1, i - 1)) = Len(A)
      /\ \A k \in 1 .. Len(A) : SubSeq(new, 1, i - 1)[k] = A[k]
  <2>1. /\ A \in Seq(S) /\ Len(A) = i - 1
        /\ \A k \in 1 .. i - 1 : A[k] = runs[k]
    BY <1>1, SubSeqProperties
  <2>2. /\ SubSeq(new, 1, i - 1) \in Seq(S)
        /\ Len(SubSeq(new, 1, i - 1)) = i - 1
        /\ \A k \in 1 .. i - 1 : SubSeq(new, 1, i - 1)[k] = new[k]
    <3>1. \A k \in 1 .. i - 1 : new[k] \in S
      BY <1>1, <1>2
    <3>2. QED
      BY <3>1, SubSeqProperties
  <2> HIDE DEF A
  <2>3. QED
    BY <2>1, <2>2, <1>2
<1>4. /\ SubSeq(new, i + 1, Len(new)) \in Seq(S) /\ B \in Seq(S)
      /\ Len(SubSeq(new, i + 1, Len(new))) = Len(B)
      /\ \A k \in 1 .. Len(B) : SubSeq(new, i + 1, Len(new))[k] = B[k]
  <2>1. /\ B \in Seq(S) /\ Len(B) = Len(runs) - i
        /\ \A k \in 1 .. Len(runs) - i : B[k] = runs[i + k]
    BY <1>1, SubSeqProperties
  <2>2. /\ SubSeq(new, i + 1, Len(new)) \in Seq(S)
        /\ Len(SubSeq(new, i + 1, Len(new))) = Len(runs) - i
        /\ \A k \in 1 .. Len(runs) - i :
              SubSeq(new, i + 1, Len(new))[k] = new[i + k]
    <3>1. \A k \in i + 1 .. Len(new) : new[k] \in S
      BY <1>1, <1>2
    <3>2. i + 1 \in Int /\ Len(new) \in Int
      BY <1>1, <1>2
    <3>3. /\ SubSeq(new, i + 1, Len(new)) \in Seq(S)
          /\ Len(SubSeq(new, i + 1, Len(new))) =
               IF i + 1 <= Len(new) THEN Len(new) - (i + 1) + 1 ELSE 0
          /\ \A k \in 1 .. Len(new) - (i + 1) + 1 :
                SubSeq(new, i + 1, Len(new))[k] = new[(i + 1) + k - 1]
      BY <3>1, <3>2, SubSeqProperties
    <3>4. QED
      BY <3>3, <1>1, <1>2
  <2> HIDE DEF B
  <2>3. QED
    BY <2>1, <2>2, <1>1, <1>2
<1>5. SubSeq(new, 1, i - 1) = A /\ SubSeq(new, i + 1, Len(new)) = B
  BY <1>3, <1>4, SeqEqual
<1>6. i \in 1 .. Len(new) /\ new[i] = e
  BY <1>2
<1>7. new = SubSeq(new, 1, i - 1) \o <<new[i]>>
              \o SubSeq(new, i + 1, Len(new))
  BY <1>2, <1>6, ApartAt
<1>8. QED
  BY <1>5, <1>6, <1>7 DEF Splice, new

------------------------------------------------------------------------------
(* Cutting a run into pieces.                                              *)
LEMMA RunLength ==
    ASSUME NEW run \in Runs
    PROVE  /\ run \in RunType /\ RunLen(run) \in Nat
           /\ run.start \in Nat /\ run.end = run.start + RunLen(run)
BY DEF Runs, RunType, RunLen, IsInitialAndEmpty

LEMMA MarksOfSubRun ==
    ASSUME NEW run \in Runs, NEW from \in Nat, NEW to \in Nat,
           from <= to, to <= RunLen(run)
    PROVE  /\ SubRun(run, from, to) \in RunType
           /\ from < to => SubRun(run, from, to) \in Runs
           /\ \A c : c \in RunMarks(SubRun(run, from, to)) <=>
                     /\ c \in RunMarks(run)
                     /\ run.start + from <= c.at /\ c.at < run.start + to
<1> DEFINE part == SubRun(run, from, to)
<1>1. run \in RunType /\ run.start \in Nat /\ run.end = run.start + RunLen(run)
      /\ RunLen(run) \in Nat
  BY RunLength
<1>2. /\ part \in RunType /\ part.id = run.id /\ part.ts = run.ts
      /\ part.lam = run.lam /\ part.start = run.start + from
      /\ part.end = run.start + to
  <2>1. PICK k, l : k = run.start + from /\ l = run.start + to
    OBVIOUS
  <2>2. k \in Nat /\ l \in Nat
    BY <1>1, <2>1
  <2>3. part = [run EXCEPT !.start = k, !.end = l]
    BY <2>1 DEF SubRun
  <2> HIDE DEF part
  <2>4. /\ part \in RunType /\ part.id = run.id
        /\ part.ts = run.ts /\ part.lam = run.lam
        /\ part.start = k /\ part.end = l
    BY <1>1, <2>2, <2>3 DEF RunType
  <2>5. QED
    BY <2>1, <2>4
<1> HIDE DEF part
<1>3. from < to => part \in Runs
  BY <1>1, <1>2 DEF Runs
<1>4. \A c : c \in RunMarks(part) <=> c \in Mark /\ Covers(part, c)
  BY <1>2, MarkOfRun
<1>5. \A c : c \in RunMarks(run) <=> c \in Mark /\ Covers(run, c)
  BY <1>1, MarkOfRun
<1>6. ASSUME NEW c \in Mark
      PROVE  Covers(part, c) <=> /\ Covers(run, c)
                                 /\ run.start + from <= c.at
                                 /\ c.at < run.start + to
  <2>1. c.at \in Nat
    BY DEF Mark
  <2>2. QED
    BY <2>1, <1>1, <1>2 DEF Covers
<1>7. QED
  BY <1>2, <1>3, <1>4, <1>5, <1>6 DEF part

LEMMA WholeSubRun ==
    ASSUME NEW run \in Runs
    PROVE  RunMarks(SubRun(run, 0, RunLen(run))) = RunMarks(run)
<1>1. /\ run \in RunType /\ RunLen(run) \in Nat /\ run.start \in Nat
      /\ run.end = run.start + RunLen(run)
  BY RunLength
<1>2. \A c \in RunMarks(run) : run.start <= c.at /\ c.at < run.end
                               /\ c.at \in Nat
  BY <1>1, MarkOfRun DEF Covers, Mark
<1>3. \A c : c \in RunMarks(SubRun(run, 0, RunLen(run))) <=>
               /\ c \in RunMarks(run)
               /\ run.start + 0 <= c.at /\ c.at < run.start + RunLen(run)
  BY <1>1, MarksOfSubRun
<1>4. ASSUME NEW c \in RunMarks(run)
      PROVE  c \in RunMarks(SubRun(run, 0, RunLen(run)))
  <2>1. c.at \in Nat /\ run.start <= c.at /\ c.at < run.end
    BY <1>2
  <2>2. run.start + 0 <= c.at /\ c.at < run.start + RunLen(run)
    BY <2>1, <1>1
  <2>3. QED
    BY <2>2, <1>3
<1>5. QED
  BY <1>3, <1>4

LEMMA SubRunsOfSubRun ==
    ASSUME NEW order, KeepsRuns(order),
           NEW run \in Runs, NEW from \in Nat, NEW mid \in Nat, NEW to \in Nat,
           from <= mid, mid <= to, to <= RunLen(run)
    PROVE  /\ RunMarks(SubRun(run, from, to)) =
                RunMarks(SubRun(run, from, mid))
                  \cup RunMarks(SubRun(run, mid, to))
           /\ MarksBefore(order, RunMarks(SubRun(run, from, mid)),
                          RunMarks(SubRun(run, mid, to)))
<1>1. /\ run \in RunType /\ RunLen(run) \in Nat /\ run.start \in Nat
  BY RunLength
<1>2. \A c \in RunMarks(run) : c.at \in Nat
  BY <1>1, MarkOfRun DEF Mark
<1>3. \A c : c \in RunMarks(SubRun(run, from, to)) <=>
               /\ c \in RunMarks(run)
               /\ run.start + from <= c.at /\ c.at < run.start + to
  BY <1>1, MarksOfSubRun
<1>4. \A c : c \in RunMarks(SubRun(run, from, mid)) <=>
               /\ c \in RunMarks(run)
               /\ run.start + from <= c.at /\ c.at < run.start + mid
  BY <1>1, MarksOfSubRun
<1>5. \A c : c \in RunMarks(SubRun(run, mid, to)) <=>
               /\ c \in RunMarks(run)
               /\ run.start + mid <= c.at /\ c.at < run.start + to
  BY <1>1, MarksOfSubRun
<1>6. ASSUME NEW c
      PROVE  c \in RunMarks(SubRun(run, from, to)) <=>
                \/ c \in RunMarks(SubRun(run, from, mid))
                \/ c \in RunMarks(SubRun(run, mid, to))
  <2>1. CASE c \in RunMarks(run)
    <3>1. c.at \in Nat
      BY <2>1, <1>2
    <3>2. QED
      BY <3>1, <1>1, <1>3, <1>4, <1>5
  <2>2. CASE c \notin RunMarks(run)
    BY <2>2, <1>3, <1>4, <1>5
  <2>3. QED
    BY <2>1, <2>2
<1>7. ASSUME NEW c \in RunMarks(SubRun(run, from, mid)),
             NEW e \in RunMarks(SubRun(run, mid, to))
      PROVE  <<c, e>> \in order
  <2>1. /\ c \in Mark /\ Covers(run, c) /\ e \in Mark /\ Covers(run, e)
        /\ c.at < run.start + mid /\ run.start + mid <= e.at
    BY <1>1, <1>4, <1>5, MarkOfRun
  <2>2. /\ c.at \in Nat /\ e.at \in Nat /\ c.at < e.at
        /\ c.id = e.id /\ c.ts = e.ts /\ c.lam = e.lam
    BY <2>1, <1>1 DEF Mark, Covers
  <2>3. QED
    BY <2>1, <2>2 DEF KeepsRuns
<1>8. QED
  BY <1>6, <1>7 DEF MarksBefore

LEMMA TombstoneOfRun ==
    ASSUME NEW run \in Runs
    PROVE  /\ Tombstone(run) \in Runs /\ RunLen(Tombstone(run)) = RunLen(run)
           /\ RunMarks(Tombstone(run)) = RunMarks(run)
           /\ \A from, to \in Nat : RunMarks(SubRun(Tombstone(run), from, to))
                                     = RunMarks(SubRun(run, from, to))
<1>1. /\ Tombstone(run) \in Runs /\ RunLen(Tombstone(run)) = RunLen(run)
      /\ RunMarks(Tombstone(run)) = RunMarks(run)
  BY DEF Tombstone, Runs, RunType, IsInitialAndEmpty, RunLen, RunMarks
<1>2. ASSUME NEW from \in Nat, NEW to \in Nat
      PROVE  RunMarks(SubRun(Tombstone(run), from, to))
                = RunMarks(SubRun(run, from, to))
  BY DEF Tombstone, Runs, RunType, RunMarks, SubRun
<1>3. QED
  BY <1>1, <1>2

LEMMA MarksOfPart ==
    ASSUME NEW order, NEW run \in Runs, NEW from \in Nat, NEW to \in Nat,
           from <= to, to <= RunLen(run)
    PROVE  /\ Part(run, from, to) \in Seq(Runs)
           /\ RunsAreOrdered(order, Part(run, from, to))
           /\ DocumentMarks(Part(run, from, to)) =
                 RunMarks(SubRun(run, from, to))
           /\ from < to => Part(run, from, to) # <<>>
           /\ IsFull(Part(run, from, to))
<1>1. CASE from < to
  <2>1. Part(run, from, to) = <<SubRun(run, from, to)>>
    BY <1>1 DEF Part
  <2>2. SubRun(run, from, to) \in Runs
    BY <1>1, MarksOfSubRun
  <2>3. <<SubRun(run, from, to)>> \in Seq(Runs)
        /\ <<SubRun(run, from, to)>> # <<>>
    BY <2>2
  <2>4. IsFull(<<SubRun(run, from, to)>>)
    <3>1. /\ SubRun(run, from, to).start = run.start + from
          /\ SubRun(run, from, to).end = run.start + to /\ run.start \in Nat
      BY RunLength DEF SubRun, RunType
    <3>2. QED
      BY <3>1, <1>1 DEF IsFull
  <2>5. QED
    BY <2>1, <2>3, <2>4, MarksOfOne, OrderOfOne
<1>2. CASE ~(from < to)
  <2>1. Part(run, from, to) = <<>> /\ from = to
    BY <1>2 DEF Part
  <2>2. <<>> \in Seq(Runs)
    OBVIOUS
  <2>3. RunMarks(SubRun(run, from, to)) = {}
    <3>1. run.start \in Nat
      BY RunLength
    <3>2. \A c \in RunMarks(run) : c.at \in Nat
      BY RunLength, MarkOfRun DEF Mark
    <3>3. \A c \in RunMarks(SubRun(run, from, to)) :
             /\ c \in RunMarks(run)
             /\ run.start + from <= c.at /\ c.at < run.start + from
      BY <2>1, MarksOfSubRun
    <3>4. QED
      BY <3>1, <3>2, <3>3
  <2>4. IsFull(<<>>)
    BY DEF IsFull
  <2>5. QED
    BY <1>2, <2>1, <2>2, <2>3, <2>4, MarksOfNone, OrderOfNone
<1>3. QED
  BY <1>1, <1>2

(* Pieces that follow each other in a run.                                 *)
LEMMA PartsConcat ==
    ASSUME NEW order, KeepsRuns(order),
           NEW run \in Runs, NEW from \in Nat, NEW mid \in Nat, NEW to \in Nat,
           from <= mid, mid <= to, to <= RunLen(run),
           NEW s \in Seq(Runs), RunsAreOrdered(order, s),
           DocumentMarks(s) = RunMarks(SubRun(run, from, mid)),
           NEW t \in Seq(Runs), RunsAreOrdered(order, t),
           DocumentMarks(t) = RunMarks(SubRun(run, mid, to))
    PROVE  /\ s \o t \in Seq(Runs) /\ RunsAreOrdered(order, s \o t)
           /\ DocumentMarks(s \o t) = RunMarks(SubRun(run, from, to))
<1>1. s \o t \in Seq(Runs)
  BY ConcatProperties
<1>2. DocumentMarks(s \o t) = DocumentMarks(s) \cup DocumentMarks(t)
  BY MarksOfConcat
<1>3. /\ RunMarks(SubRun(run, from, to)) =
                RunMarks(SubRun(run, from, mid))
                  \cup RunMarks(SubRun(run, mid, to))
      /\ MarksBefore(order, RunMarks(SubRun(run, from, mid)),
                     RunMarks(SubRun(run, mid, to)))
  BY SubRunsOfSubRun
<1>4. RunsAreOrdered(order, s \o t)
  BY <1>3, OrderOfConcat
<1>5. QED
  BY <1>1, <1>2, <1>3, <1>4

LEMMA SplitRunCuts ==
    ASSUME NEW order, KeepsRuns(order),
           NEW run \in Runs, NEW at \in 1 .. RunLen(run)
    PROVE  /\ SplitRun(run, at) \in Seq(Runs) /\ SplitRun(run, at) # <<>>
           /\ IsFull(SplitRun(run, at))
           /\ RunsAreOrdered(order, SplitRun(run, at))
           /\ DocumentMarks(SplitRun(run, at)) = RunMarks(run)
<1>1. RunLen(run) \in Nat
  BY RunLength
<1> DEFINE s == Part(run, 0, at)
           t == Part(run, at, RunLen(run))
<1>2. /\ s \in Seq(Runs) /\ RunsAreOrdered(order, s) /\ s # <<>> /\ IsFull(s)
      /\ DocumentMarks(s) = RunMarks(SubRun(run, 0, at))
  BY <1>1, MarksOfPart
<1>3. /\ t \in Seq(Runs) /\ RunsAreOrdered(order, t) /\ IsFull(t)
      /\ DocumentMarks(t) = RunMarks(SubRun(run, at, RunLen(run)))
  BY <1>1, MarksOfPart
<1>4. SplitRun(run, at) = s \o t
  BY DEF SplitRun
<1> HIDE DEF s, t
<1>5. /\ s \o t \in Seq(Runs) /\ RunsAreOrdered(order, s \o t)
      /\ DocumentMarks(s \o t) = RunMarks(SubRun(run, 0, RunLen(run)))
  <2>1. 0 \in Nat /\ at \in Nat /\ 0 <= at /\ at <= RunLen(run)
        /\ RunLen(run) <= RunLen(run)
    BY <1>1
  <2>2. QED
    BY <1>1, <1>2, <1>3, <2>1, PartsConcat
<1>6. s \o t # <<>> /\ IsFull(s \o t)
  BY <1>2, <1>3, ConcatEqualIffEmpty, FullConcat
<1>7. QED
  BY <1>4, <1>5, <1>6, WholeSubRun

LEMMA DeleteRangeCuts ==
    ASSUME NEW order, KeepsRuns(order),
           NEW run \in Runs, NEW from \in Nat, NEW to \in Nat,
           from < to, to <= RunLen(run)
    PROVE  /\ DeleteRange(run, from, to) \in Seq(Runs)
           /\ DeleteRange(run, from, to) # <<>>
           /\ IsFull(DeleteRange(run, from, to))
           /\ RunsAreOrdered(order, DeleteRange(run, from, to))
           /\ DocumentMarks(DeleteRange(run, from, to)) = RunMarks(run)
<1>1. RunLen(run) \in Nat
  BY RunLength
<1> DEFINE s == Part(run, 0, from)
           t == Part(Tombstone(run), from, to)
           u == Part(run, to, RunLen(run))
<1>2. /\ s \in Seq(Runs) /\ RunsAreOrdered(order, s) /\ IsFull(s)
      /\ DocumentMarks(s) = RunMarks(SubRun(run, 0, from))
  BY <1>1, MarksOfPart
<1>3. /\ t \in Seq(Runs) /\ RunsAreOrdered(order, t) /\ t # <<>> /\ IsFull(t)
      /\ DocumentMarks(t) = RunMarks(SubRun(run, from, to))
  <2>1. Tombstone(run) \in Runs /\ RunLen(Tombstone(run)) = RunLen(run)
    BY TombstoneOfRun
  <2>2. /\ t \in Seq(Runs) /\ RunsAreOrdered(order, t) /\ t # <<>> /\ IsFull(t)
        /\ DocumentMarks(t) = RunMarks(SubRun(Tombstone(run), from, to))
    BY <1>1, <2>1, MarksOfPart
  <2>3. QED
    BY <2>2, TombstoneOfRun
<1>4. /\ u \in Seq(Runs) /\ RunsAreOrdered(order, u) /\ IsFull(u)
      /\ DocumentMarks(u) = RunMarks(SubRun(run, to, RunLen(run)))
  BY <1>1, MarksOfPart
<1>5. DeleteRange(run, from, to) = s \o t \o u
  BY DEF DeleteRange
<1> HIDE DEF s, t, u
<1>6. /\ s \o t \in Seq(Runs) /\ RunsAreOrdered(order, s \o t)
      /\ DocumentMarks(s \o t) = RunMarks(SubRun(run, 0, to))
  <2>1. 0 \in Nat /\ 0 <= from /\ from <= to
    OBVIOUS
  <2>2. QED
    BY <1>1, <1>2, <1>3, <2>1, PartsConcat
<1>7. /\ s \o t \o u \in Seq(Runs) /\ RunsAreOrdered(order, s \o t \o u)
      /\ DocumentMarks(s \o t \o u) = RunMarks(SubRun(run, 0, RunLen(run)))
  <2>1. 0 \in Nat /\ 0 <= to /\ RunLen(run) <= RunLen(run)
    BY <1>1
  <2> DEFINE st == s \o t
  <2> HIDE DEF st
  <2>2. /\ st \in Seq(Runs) /\ RunsAreOrdered(order, st)
        /\ DocumentMarks(st) = RunMarks(SubRun(run, 0, to))
    BY <1>6 DEF st
  <2>3. /\ st \o u \in Seq(Runs) /\ RunsAreOrdered(order, st \o u)
        /\ DocumentMarks(st \o u) = RunMarks(SubRun(run, 0, RunLen(run)))
    BY <1>1, <1>4, <2>1, <2>2, PartsConcat
  <2>4. QED
    BY <2>3 DEF st
<1>8. s \o t # <<>> /\ s \o t \o u # <<>> /\ IsFull(s \o t \o u)
  <2>1. s \o t # <<>> /\ IsFull(s \o t)
    BY <1>2, <1>3, ConcatEqualIffEmpty, FullConcat
  <2>2. QED
    <3>1. s \o t \in Seq(Runs) /\ u \in Seq(Runs) /\ IsFull(u)
      BY <1>4, <1>6
    <3> DEFINE st == s \o t
    <3> HIDE DEF st
    <3>2. st \in Seq(Runs) /\ st # <<>> /\ IsFull(st)
      BY <2>1, <3>1 DEF st
    <3>3. IsFull(st \o u) /\ st \o u # <<>>
      BY <3>1, <3>2, FullConcat, ConcatEqualIffEmpty
    <3>4. QED
      BY <2>1, <3>3 DEF st
<1>9. QED
  BY <1>5, <1>7, <1>8, WholeSubRun

------------------------------------------------------------------------------
(* Two neighbours that give each other characters.                         *)
LEMMA SameSubSeq ==
    ASSUME NEW S, NEW s \in Seq(S), NEW t \in Seq(S), Len(s) = Len(t),
           NEW m \in 1 .. Len(s) + 1, NEW n \in 0 .. Len(s),
           \A k \in m .. n : s[k] = t[k]
    PROVE  SubSeq(s, m, n) = SubSeq(t, m, n)
<1>1. Len(s) \in Nat /\ \A k \in 1 .. Len(s) : s[k] \in S /\ t[k] \in S
  BY LenProperties, ElementOfSeq
<1>2. m \in Int /\ n \in Int /\ \A k \in m .. n : k \in 1 .. Len(s)
  BY <1>1
<1>3. /\ SubSeq(s, m, n) \in Seq(S)
      /\ Len(SubSeq(s, m, n)) = IF m <= n THEN n - m + 1 ELSE 0
      /\ \A k \in 1 .. n - m + 1 : SubSeq(s, m, n)[k] = s[m + k - 1]
  BY <1>1, <1>2, SubSeqProperties
<1>4. /\ SubSeq(t, m, n) \in Seq(S)
      /\ Len(SubSeq(t, m, n)) = IF m <= n THEN n - m + 1 ELSE 0
      /\ \A k \in 1 .. n - m + 1 : SubSeq(t, m, n)[k] = t[m + k - 1]
  BY <1>1, <1>2, SubSeqProperties
<1>5. ASSUME NEW k \in 1 .. Len(SubSeq(s, m, n))
      PROVE  SubSeq(s, m, n)[k] = SubSeq(t, m, n)[k]
  <2>1. m <= n /\ k \in 1 .. n - m + 1 /\ m + k - 1 \in m .. n
    BY <1>2, <1>3
  <2>2. QED
    BY <2>1, <1>3, <1>4
<1>6. QED
  BY <1>3, <1>4, <1>5, SeqEqual

LEMMA ApartAtPair ==
    ASSUME NEW S, NEW runs \in Seq(S), NEW i \in 1 .. Len(runs) - 1
    PROVE  /\ SubSeq(runs, 1, i - 1) \in Seq(S)
           /\ SubSeq(runs, i + 2, Len(runs)) \in Seq(S)
           /\ runs[i] \in S /\ runs[i + 1] \in S
           /\ runs = SubSeq(runs, 1, i - 1) \o (<<runs[i]>> \o <<runs[i + 1]>>)
                      \o SubSeq(runs, i + 2, Len(runs))
<1>1. Len(runs) \in Nat /\ \A k \in 1 .. Len(runs) : runs[k] \in S
  BY LenProperties, ElementOfSeq
<1>2. i + 1 \in 1 .. Len(runs) /\ i \in 1 .. Len(runs)
      /\ (i + 1) - 1 = i /\ (i + 1) + 1 = i + 2
  BY <1>1
<1> DEFINE A == SubSeq(runs, 1, i - 1)
           B == SubSeq(runs, i + 2, Len(runs))
<1>3. /\ SubSeq(runs, 1, i) \in Seq(S) /\ B \in Seq(S)
      /\ <<runs[i + 1]>> \in Seq(S)
      /\ runs = SubSeq(runs, 1, i) \o <<runs[i + 1]>> \o B
  <2>1. /\ SubSeq(runs, 1, (i + 1) - 1) \in Seq(S)
        /\ SubSeq(runs, (i + 1) + 1, Len(runs)) \in Seq(S)
        /\ <<runs[i + 1]>> \in Seq(S)
        /\ runs = SubSeq(runs, 1, (i + 1) - 1) \o <<runs[i + 1]>>
                   \o SubSeq(runs, (i + 1) + 1, Len(runs))
    BY <1>2, ApartAt
  <2>2. QED
    BY <2>1, <1>2
<1>4. A \in Seq(S) /\ <<runs[i]>> \in Seq(S)
  BY <1>2, ApartAt
<1>5. SubSeq(runs, 1, i) = A \o <<runs[i]>>
  <2>1. 1 \in 1 .. Len(runs) /\ i \in 1 .. Len(runs)
    BY <1>1
  <2>2. QED
    BY <2>1, SubSeqRecursiveSecond
<1> HIDE DEF A, B
<1>6. (A \o <<runs[i]>>) \o <<runs[i + 1]>> = A \o (<<runs[i]>> \o <<runs[i + 1]>>)
  BY <1>3, <1>4, ConcatAssociative
<1>7. runs = A \o (<<runs[i]>> \o <<runs[i + 1]>>) \o B
  BY <1>3, <1>5, <1>6
<1>8. QED
  BY <1>1, <1>2, <1>3, <1>4, <1>7 DEF A, B

LEMMA TwoLeaves ==
    ASSUME NEW order, NEW x \in Runs, NEW y \in Runs
    PROVE  /\ <<x>> \o <<y>> \in Seq(Runs) /\ <<x>> \o <<y>> # <<>>
           /\ DocumentMarks(<<x>> \o <<y>>) = RunMarks(x) \cup RunMarks(y)
           /\ MarksBefore(order, RunMarks(x), RunMarks(y))
                => RunsAreOrdered(order, <<x>> \o <<y>>)
<1> DEFINE s == <<x>>
           t == <<y>>
<1>1. s \in Seq(Runs) /\ t \in Seq(Runs) /\ s # <<>>
  OBVIOUS
<1>2. DocumentMarks(s) = RunMarks(x) /\ DocumentMarks(t) = RunMarks(y)
  BY MarksOfOne
<1>3. RunsAreOrdered(order, s) /\ RunsAreOrdered(order, t)
  BY OrderOfOne
<1> HIDE DEF s, t
<1>4. s \o t \in Seq(Runs) /\ s \o t # <<>>
  BY <1>1, ConcatProperties, ConcatEqualIffEmpty
<1>5. DocumentMarks(s \o t) = RunMarks(x) \cup RunMarks(y)
  BY <1>1, <1>2, MarksOfConcat
<1>6. MarksBefore(order, RunMarks(x), RunMarks(y)) => RunsAreOrdered(order, s \o t)
  BY <1>1, <1>2, <1>3, OrderOfConcat
<1>7. QED
  BY <1>4, <1>5, <1>6 DEF s, t

(* The leaves at i and i + 1 replaced by e and f.                          *)
IsPairReplaced(new, runs, i, e, f) ==
    /\ new \in Seq(Runs) /\ Len(new) = Len(runs)
    /\ \A k \in 1 .. Len(runs) :
          new[k] = IF k = i + 1 THEN f ELSE IF k = i THEN e ELSE runs[k]

LEMMA PairReplaced ==
    ASSUME NEW order, NEW runs, WellFormed(order, runs), NEW i \in 1 .. Len(runs) - 1,
           NEW e \in Runs, NEW f \in Runs,
           e.start < e.end, f.start < f.end,
           RunMarks(e) \cup RunMarks(f) =
              RunMarks(runs[i]) \cup RunMarks(runs[i + 1]),
           MarksBefore(order, RunMarks(e), RunMarks(f)),
           NEW new, IsPairReplaced(new, runs, i, e, f)
    PROVE  WellFormed(order, new) /\ DocumentMarks(new) = DocumentMarks(runs)
<1> DEFINE A == SubSeq(runs, 1, i - 1)
           B == SubSeq(runs, i + 2, Len(runs))
           P == <<runs[i]>> \o <<runs[i + 1]>>
           Q == <<e>> \o <<f>>
<1>1. runs \in Seq(Runs) /\ Len(runs) \in Nat
  BY LenProperties DEF WellFormed
<1>2. /\ A \in Seq(Runs) /\ B \in Seq(Runs)
      /\ runs[i] \in Runs /\ runs[i + 1] \in Runs
      /\ runs = A \o P \o B
  BY <1>1, ApartAtPair
<1>3. /\ new \in Seq(Runs) /\ Len(new) = Len(runs)
      /\ \A k \in 1 .. Len(runs) :
            new[k] = IF k = i + 1 THEN f ELSE IF k = i THEN e ELSE runs[k]
  BY DEF IsPairReplaced
<1>4. new = SubSeq(new, 1, i - 1) \o (<<new[i]>> \o <<new[i + 1]>>)
              \o SubSeq(new, i + 2, Len(new))
  <2>1. i \in 1 .. Len(new) - 1
    BY <1>3
  <2>2. QED
    BY <2>1, <1>3, ApartAtPair
<1>5. SubSeq(new, 1, i - 1) = A
  <2>1. /\ 1 \in 1 .. Len(new) + 1 /\ i - 1 \in 0 .. Len(new)
        /\ \A k \in 1 .. i - 1 : new[k] = runs[k]
    BY <1>1, <1>3
  <2>2. QED
    BY <2>1, <1>1, <1>3, SameSubSeq
<1>6. SubSeq(new, i + 2, Len(new)) = B
  <2>1. /\ i + 2 \in 1 .. Len(new) + 1 /\ Len(new) \in 0 .. Len(new)
        /\ \A k \in i + 2 .. Len(new) : new[k] = runs[k]
    BY <1>1, <1>3
  <2>2. SubSeq(new, i + 2, Len(new)) = SubSeq(runs, i + 2, Len(new))
    BY <2>1, <1>1, <1>3, SameSubSeq
  <2>3. QED
    BY <2>2, <1>3
<1>7. new[i] = e /\ new[i + 1] = f
  BY <1>1, <1>3
<1>8. new = A \o Q \o B
  BY <1>4, <1>5, <1>6, <1>7
<1>9. /\ P \in Seq(Runs)
      /\ DocumentMarks(P) = RunMarks(runs[i]) \cup RunMarks(runs[i + 1])
  BY <1>2, TwoLeaves
<1>10. /\ Q \in Seq(Runs) /\ Q # <<>> /\ RunsAreOrdered(order, Q)
       /\ DocumentMarks(Q) = RunMarks(e) \cup RunMarks(f)
  BY TwoLeaves
<1> HIDE DEF A, B, P, Q
<1>11. WellFormed(order, A \o P \o B)
  BY <1>2
<1>12. DocumentMarks(Q) = DocumentMarks(P)
  BY <1>9, <1>10
<1>13. OnlyLastIsEmpty(new)
  <2>1. SUFFICES ASSUME NEW k \in 1 .. Len(runs) - 1
                 PROVE  new[k].start < new[k].end
    BY <1>3 DEF OnlyLastIsEmpty
  <2>2. CASE k = i + 1 \/ k = i
    BY <2>2, <1>1, <1>3
  <2>3. CASE k # i + 1 /\ k # i
    <3>1. new[k] = runs[k]
      BY <2>3, <1>1, <1>3
    <3>2. QED
      BY <3>1 DEF WellFormed, OnlyLastIsEmpty
  <2>4. QED
    BY <2>2, <2>3
<1>14. /\ WellFormed(order, A \o Q \o B)
       /\ DocumentMarks(A \o Q \o B) = DocumentMarks(A \o P \o B)
  <2>1. A \in Seq(Runs) /\ B \in Seq(Runs) /\ P \in Seq(Runs)
    BY <1>2, <1>9
  <2>2. /\ Q \in Seq(Runs) /\ Q # <<>> /\ RunsAreOrdered(order, Q)
        /\ OnlyLastIsEmpty(A \o Q \o B)
    BY <1>8, <1>10, <1>13
  <2>3. QED
    BY <2>1, <2>2, <1>11, <1>12, LeavesRecut
<1>15. QED
  BY <1>2, <1>8, <1>14

------------------------------------------------------------------------------
(* A range of one leaf is deleted.                                         *)

(* The tombstone of a range that begins, or ends, with its leaf.           *)
LEMMA TombstoneAtStart ==
    ASSUME NEW run \in Runs, NEW to \in Nat, 0 < to
    PROVE  Head(DeleteRange(run, 0, to)) = SubRun(Tombstone(run), 0, to)
<1>1. /\ Part(run, 0, 0) = <<>>
      /\ Part(Tombstone(run), 0, to) = <<SubRun(Tombstone(run), 0, to)>>
  BY DEF Part
<1>2. CASE to < RunLen(run)
  <2>1. DeleteRange(run, 0, to) =
          <<>> \o <<SubRun(Tombstone(run), 0, to)>>
            \o <<SubRun(run, to, RunLen(run))>>
    BY <1>1, <1>2 DEF DeleteRange, Part
  <2>2. QED
    BY <2>1
<1>3. CASE ~(to < RunLen(run))
  <2>1. DeleteRange(run, 0, to) =
          <<>> \o <<SubRun(Tombstone(run), 0, to)>> \o <<>>
    BY <1>1, <1>3 DEF DeleteRange, Part
  <2>2. QED
    BY <2>1
<1>4. QED
  BY <1>2, <1>3

LEMMA TombstoneAtEnd ==
    ASSUME NEW run \in Runs, NEW from \in Nat, 0 < from, from < RunLen(run)
    PROVE  Last(DeleteRange(run, from, RunLen(run)))
              = SubRun(Tombstone(run), from, RunLen(run))
<1>1. RunLen(run) \in Nat
  BY RunLength
<1>2. /\ Part(run, 0, from) = <<SubRun(run, 0, from)>>
      /\ Part(Tombstone(run), from, RunLen(run))
            = <<SubRun(Tombstone(run), from, RunLen(run))>>
      /\ Part(run, RunLen(run), RunLen(run)) = <<>>
  BY <1>1 DEF Part
<1>3. DeleteRange(run, from, RunLen(run)) =
        <<SubRun(run, 0, from)>>
          \o <<SubRun(Tombstone(run), from, RunLen(run))>> \o <<>>
  BY <1>2 DEF DeleteRange
<1>4. QED
  BY <1>3 DEF Last

WithPrevious(runs, i, to) ==
    [runs EXCEPT ![i - 1].end = runs[i].start + to,
                 ![i].start = runs[i].start + to]

WithNext(runs, i, from) ==
    [runs EXCEPT ![i + 1].start = runs[i].start + from,
                 ![i].end = runs[i].start + from]

(* Of two neighbouring parts of one run the boundary is moved.             *)
IsBoundaryMoved(x, y, e, f, at) ==
    /\ x \in Runs /\ y \in Runs /\ e \in Runs /\ f \in Runs
    /\ x.end = y.start /\ x.id = y.id /\ x.ts = y.ts /\ x.lam = y.lam
    /\ e.id = x.id /\ e.ts = x.ts /\ e.lam = x.lam /\ e.del = x.del
    /\ e.start = x.start /\ e.end = at
    /\ f.id = y.id /\ f.ts = y.ts /\ f.lam = y.lam /\ f.del = y.del
    /\ f.start = at /\ f.end = y.end
    /\ at \in Nat /\ x.start < at /\ at < y.end

LEMMA BoundaryMoved ==
    ASSUME NEW order, KeepsRuns(order),
           NEW x, NEW y, NEW e, NEW f, NEW at, IsBoundaryMoved(x, y, e, f, at)
    PROVE  /\ \A c : c \in RunMarks(e) <=>
                        /\ c \in RunMarks(x) \cup RunMarks(y) /\ c.at < at
           /\ \A c : c \in RunMarks(f) <=>
                        /\ c \in RunMarks(x) \cup RunMarks(y) /\ at <= c.at
           /\ RunMarks(e) \cup RunMarks(f) = RunMarks(x) \cup RunMarks(y)
           /\ MarksBefore(order, RunMarks(e), RunMarks(f))
<1>1. /\ x \in RunType /\ y \in RunType /\ e \in RunType /\ f \in RunType
      /\ x.start \in Nat /\ x.end \in Nat /\ x.start <= x.end
      /\ y.start \in Nat /\ y.end \in Nat /\ y.start <= y.end
  BY RunLength DEF IsBoundaryMoved, Runs, RunType, IsInitialAndEmpty
<1>2. /\ x.end = y.start /\ x.id = y.id /\ x.ts = y.ts /\ x.lam = y.lam
      /\ e.id = x.id /\ e.ts = x.ts /\ e.lam = x.lam
      /\ e.start = x.start /\ e.end = at
      /\ f.id = y.id /\ f.ts = y.ts /\ f.lam = y.lam
      /\ f.start = at /\ f.end = y.end
      /\ at \in Nat /\ x.start < at /\ at < y.end
  BY DEF IsBoundaryMoved
<1>3. /\ \A c : c \in RunMarks(x) <=> c \in Mark /\ Covers(x, c)
      /\ \A c : c \in RunMarks(y) <=> c \in Mark /\ Covers(y, c)
      /\ \A c : c \in RunMarks(e) <=> c \in Mark /\ Covers(e, c)
      /\ \A c : c \in RunMarks(f) <=> c \in Mark /\ Covers(f, c)
  BY <1>1, MarkOfRun
<1>4. ASSUME NEW c \in Mark
      PROVE  /\ Covers(e, c) <=> (Covers(x, c) \/ Covers(y, c)) /\ c.at < at
             /\ Covers(f, c) <=> (Covers(x, c) \/ Covers(y, c)) /\ at <= c.at
  <2>1. c.at \in Nat
    BY DEF Mark
  <2>2. Covers(x, c) \/ Covers(y, c) <=>
           /\ c.id = y.id /\ c.ts = y.ts /\ c.lam = y.lam
           /\ x.start <= c.at /\ c.at < y.end
    BY <2>1, <1>1, <1>2 DEF Covers
  <2>3. Covers(e, c) <=> /\ c.id = y.id /\ c.ts = y.ts /\ c.lam = y.lam
                         /\ x.start <= c.at /\ c.at < at
    BY <1>2 DEF Covers
  <2>4. Covers(f, c) <=> /\ c.id = y.id /\ c.ts = y.ts /\ c.lam = y.lam
                         /\ at <= c.at /\ c.at < y.end
    BY <1>2 DEF Covers
  <2>5. QED
    BY <2>1, <2>2, <2>3, <2>4, <1>1, <1>2
<1>5. ASSUME NEW c
      PROVE  /\ c \in RunMarks(e) <=>
                   /\ c \in RunMarks(x) \cup RunMarks(y) /\ c.at < at
             /\ c \in RunMarks(f) <=>
                   /\ c \in RunMarks(x) \cup RunMarks(y) /\ at <= c.at
  BY <1>3, <1>4
<1>6. ASSUME NEW c
      PROVE  c \in RunMarks(x) \cup RunMarks(y)
                <=> c \in RunMarks(e) \cup RunMarks(f)
  <2>1. CASE c \in Mark
    <3>1. c.at \in Nat
      BY <2>1 DEF Mark
    <3>2. c.at < at \/ at <= c.at
      BY <3>1, <1>2
    <3>3. QED
      BY <3>2, <1>5
  <2>2. CASE c \notin Mark
    BY <2>2, <1>3
  <2>3. QED
    BY <2>1, <2>2
<1>7. MarksBefore(order, RunMarks(e), RunMarks(f))
  <2>1. SUFFICES ASSUME NEW c \in Mark, Covers(e, c), NEW g \in Mark, Covers(f, g)
                 PROVE  <<c, g>> \in order
    BY <1>3 DEF MarksBefore
  <2>2. c.at \in Nat /\ g.at \in Nat
    BY DEF Mark
  <2>3. c.id = g.id /\ c.ts = g.ts /\ c.lam = g.lam /\ c.at < g.at
    BY <2>1, <2>2, <1>2 DEF Covers
  <2>4. QED
    BY <2>3 DEF KeepsRuns
<1>8. QED
  BY <1>5, <1>6, <1>7

(* A tombstone's place is given to the tombstone beside it.                *)
IsPairMoved(new, runs, i, at) ==
    \E e, f : /\ IsBoundaryMoved(runs[i], runs[i + 1], e, f, at)
              /\ IsPairReplaced(new, runs, i, e, f)

LEMMA WithPreviousMoves ==
    ASSUME NEW runs \in Seq(Runs), NEW i \in 1 .. Len(runs), i > 1,
           NEW to \in Nat, 0 < to, to < RunLen(runs[i]),
           CanAppend(runs[i - 1], SubRun(Tombstone(runs[i]), 0, to))
    PROVE  /\ runs[i - 1].del
           /\ IsPairMoved(WithPrevious(runs, i, to), runs, i - 1,
                          runs[i].start + to)
<1> DEFINE new == [runs EXCEPT ![i - 1].end = runs[i].start + to,
                               ![i].start = runs[i].start + to]
           x == runs[i - 1]
           y == runs[i]
           j == i - 1
           at == y.start + to
           e == [x EXCEPT !.end = y.start + to]
           f == [y EXCEPT !.start = y.start + to]
<1>1. Len(runs) \in Nat /\ DOMAIN runs = 1 .. Len(runs)
  BY LenProperties
<1>2. /\ j \in 1 .. Len(runs) - 1 /\ j + 1 = i /\ i - 1 = j
      /\ j \in 1 .. Len(runs) /\ i # j
  BY <1>1
<1>3. x \in Runs /\ y \in Runs
  BY <1>1, <1>2, ElementOfSeq
<1>4. /\ x \in RunType /\ y \in RunType
      /\ RunLen(y) \in Nat /\ y.start \in Nat /\ y.end = y.start + RunLen(y)
      /\ to < RunLen(y) /\ x.start \in Nat /\ x.end \in Nat /\ x.start <= x.end
  <2>1. /\ x \in RunType /\ y \in RunType /\ RunLen(y) \in Nat
        /\ RunLen(x) \in Nat /\ x.end = x.start + RunLen(x)
        /\ y.end = y.start + RunLen(y) /\ x.start \in Nat /\ y.start \in Nat
    BY <1>3, RunLength
  <2>2. QED
    BY <2>1
<1>5. /\ x.end = y.start /\ x.id = y.id /\ x.ts = y.ts /\ x.lam = y.lam
      /\ x.del
  <2>1. LET part == SubRun(Tombstone(y), 0, to)
        IN  /\ part.id = y.id /\ part.ts = y.ts /\ part.lam = y.lam
            /\ part.del /\ part.start = y.start
    BY <1>4 DEF SubRun, Tombstone, RunType
  <2>2. QED
    BY <2>1 DEF CanAppend, SameRun
<1>6. /\ e \in Runs /\ e.id = x.id /\ e.ts = x.ts /\ e.lam = x.lam
      /\ e.start = x.start /\ e.end = at /\ e.del = x.del
  <2>1. y.start + to \in Nat /\ x.start < y.start + to
    BY <1>4, <1>5
  <2>2. QED
    BY <2>1, <1>4 DEF RunType, Runs
<1>7. /\ f \in Runs /\ f.id = y.id /\ f.ts = y.ts /\ f.lam = y.lam
      /\ f.start = at /\ f.end = y.end /\ f.del = y.del
  <2>1. y.start + to \in Nat /\ y.start + to < y.end
    BY <1>4
  <2>2. QED
    BY <2>1, <1>4 DEF RunType, Runs
<1>8. IsPairReplaced(new, runs, j, e, f)
  <2>1. new = [[runs EXCEPT ![j] = e] EXCEPT ![i] = f]
    BY <1>1, <1>2
  <2> HIDE DEF e, f, j, new
  <2> DEFINE mid == [runs EXCEPT ![j] = e]
  <2>2. /\ mid \in Seq(Runs) /\ Len(mid) = Len(runs)
        /\ \A k \in 1 .. Len(runs) : mid[k] = IF k = j THEN e ELSE runs[k]
    BY <1>1, <1>2, <1>6, ExceptSeq
  <2> HIDE DEF mid
  <2>3. /\ [mid EXCEPT ![i] = f] \in Seq(Runs)
        /\ Len([mid EXCEPT ![i] = f]) = Len(mid)
        /\ \A k \in 1 .. Len(mid) :
              [mid EXCEPT ![i] = f][k] = IF k = i THEN f ELSE mid[k]
    BY <1>2, <1>7, <2>2, ExceptSeq
  <2>4. new = [mid EXCEPT ![i] = f]
    BY <2>1 DEF mid
  <2>5. QED
    BY <1>2, <2>2, <2>3, <2>4 DEF IsPairReplaced
<1>9. at \in Nat /\ x.start < at /\ at < y.end
  BY <1>4, <1>5
<1> HIDE DEF e, f, x, y, new, at
<1>10. IsBoundaryMoved(x, y, e, f, at)
  BY <1>3, <1>5, <1>6, <1>7, <1>9 DEF IsBoundaryMoved
<1>11. runs[j] = x /\ runs[j + 1] = y
  BY <1>2 DEF x, y
<1>12. IsPairMoved(new, runs, j, at)
  BY <1>8, <1>10, <1>11 DEF IsPairMoved
<1>13. QED
  BY <1>5, <1>12 DEF new, WithPrevious, x, y, at

LEMMA WithNextMoves ==
    ASSUME NEW runs \in Seq(Runs), NEW i \in 1 .. Len(runs), i < Len(runs),
           NEW from \in Nat, 0 < from, from < RunLen(runs[i]),
           CanPrepend(runs[i + 1],
                      SubRun(Tombstone(runs[i]), from, RunLen(runs[i])))
    PROVE  /\ runs[i + 1].del
           /\ IsPairMoved(WithNext(runs, i, from), runs, i, runs[i].start + from)
<1> DEFINE new == [runs EXCEPT ![i + 1].start = runs[i].start + from,
                               ![i].end = runs[i].start + from]
           x == runs[i]
           j == i + 1
           y == runs[j]
           at == x.start + from
           e == [x EXCEPT !.end = x.start + from]
           f == [y EXCEPT !.start = x.start + from]
<1>1. Len(runs) \in Nat /\ DOMAIN runs = 1 .. Len(runs)
  BY LenProperties
<1>2. i \in 1 .. Len(runs) - 1 /\ j \in 1 .. Len(runs) /\ i # j
  BY <1>1
<1>3. x \in Runs /\ y \in Runs
  BY <1>1, <1>2, ElementOfSeq
<1>4. /\ x \in RunType /\ y \in RunType
      /\ RunLen(x) \in Nat /\ x.start \in Nat /\ x.end = x.start + RunLen(x)
      /\ from < RunLen(x) /\ y.start \in Nat /\ y.end \in Nat
      /\ y.start <= y.end
  <2>1. /\ x \in RunType /\ y \in RunType /\ RunLen(x) \in Nat
        /\ RunLen(y) \in Nat /\ x.end = x.start + RunLen(x)
        /\ y.end = y.start + RunLen(y) /\ x.start \in Nat /\ y.start \in Nat
    BY <1>3, RunLength
  <2>2. QED
    BY <2>1
<1>5. /\ x.end = y.start /\ x.id = y.id /\ x.ts = y.ts /\ x.lam = y.lam
      /\ y.del
  <2>1. LET part == SubRun(Tombstone(x), from, RunLen(x))
        IN  /\ part.id = x.id /\ part.ts = x.ts /\ part.lam = x.lam
            /\ part.del /\ part.end = x.start + RunLen(x)
    BY <1>4 DEF SubRun, Tombstone, RunType
  <2>2. QED
    BY <2>1, <1>4 DEF CanPrepend, SameRun
<1>6. /\ e \in Runs /\ e.id = x.id /\ e.ts = x.ts /\ e.lam = x.lam
      /\ e.start = x.start /\ e.end = at /\ e.del = x.del
  <2>1. x.start + from \in Nat /\ x.start < x.start + from
    BY <1>4
  <2>2. QED
    BY <2>1, <1>4 DEF RunType, Runs
<1>7. /\ f \in Runs /\ f.id = y.id /\ f.ts = y.ts /\ f.lam = y.lam
      /\ f.start = at /\ f.end = y.end /\ f.del = y.del
  <2>1. x.start + from \in Nat /\ x.start + from < y.end
    BY <1>4, <1>5
  <2>2. QED
    BY <2>1, <1>4 DEF RunType, Runs
<1>8. IsPairReplaced(new, runs, i, e, f)
  <2>1. new = [[runs EXCEPT ![j] = f] EXCEPT ![i] = e]
    BY <1>1, <1>2
  <2>2. j = i + 1
    OBVIOUS
  <2> HIDE DEF e, f, j, new
  <2> DEFINE mid == [runs EXCEPT ![j] = f]
  <2>3. /\ mid \in Seq(Runs) /\ Len(mid) = Len(runs)
        /\ \A k \in 1 .. Len(runs) : mid[k] = IF k = j THEN f ELSE runs[k]
    BY <1>1, <1>2, <1>7, ExceptSeq
  <2> HIDE DEF mid
  <2>4. /\ [mid EXCEPT ![i] = e] \in Seq(Runs)
        /\ Len([mid EXCEPT ![i] = e]) = Len(mid)
        /\ \A k \in 1 .. Len(mid) :
              [mid EXCEPT ![i] = e][k] = IF k = i THEN e ELSE mid[k]
    BY <1>2, <1>6, <2>3, ExceptSeq
  <2>5. new = [mid EXCEPT ![i] = e]
    BY <2>1 DEF mid
  <2>6. QED
    BY <1>2, <2>2, <2>3, <2>4, <2>5 DEF IsPairReplaced
<1>9. at \in Nat /\ x.start < at /\ at < y.end
  BY <1>4, <1>5
<1> HIDE DEF e, f, x, y, new, at
<1>10. IsBoundaryMoved(x, y, e, f, at)
  BY <1>3, <1>5, <1>6, <1>7, <1>9 DEF IsBoundaryMoved
<1>11. IsPairMoved(new, runs, i, at)
  BY <1>8, <1>10 DEF IsPairMoved, x, y
<1>12. QED
  BY <1>5, <1>11 DEF new, WithNext, x, y, at

LEMMA PairMoved ==
    ASSUME NEW order, KeepsRuns(order),
           NEW runs, WellFormed(order, runs), NEW i \in 1 .. Len(runs) - 1,
           NEW at, NEW new, IsPairMoved(new, runs, i, at)
    PROVE  WellFormed(order, new) /\ DocumentMarks(new) = DocumentMarks(runs)
<1>1. PICK e, f : /\ IsBoundaryMoved(runs[i], runs[i + 1], e, f, at)
                  /\ IsPairReplaced(new, runs, i, e, f)
  BY DEF IsPairMoved
<1>2. /\ RunMarks(e) \cup RunMarks(f) =
           RunMarks(runs[i]) \cup RunMarks(runs[i + 1])
      /\ MarksBefore(order, RunMarks(e), RunMarks(f))
  BY <1>1, BoundaryMoved
<1>3. /\ e \in Runs /\ f \in Runs /\ e.start < e.end /\ f.start < f.end
  BY <1>1 DEF IsBoundaryMoved
<1>4. QED
  BY <1>1, <1>2, <1>3, PairReplaced

(* However the tombstone is joined, no character comes or goes.            *)
LEMMA RangeDeletedInLeaf ==
    ASSUME NEW order, KeepsRuns(order),
           NEW runs, WellFormed(order, runs), NEW i \in 1 .. Len(runs),
           NEW from \in Nat, NEW to \in Nat, from < to, to <= RunLen(runs[i])
    PROVE  /\ WellFormed(order, DeleteRangeInLeaf(runs, i, from, to))
           /\ DocumentMarks(DeleteRangeInLeaf(runs, i, from, to))
                = DocumentMarks(runs)
           /\ LeafAfterDeleted(runs, i, from, to) \in Nat \ {0}
<1> DEFINE new == DeleteRangeInLeaf(runs, i, from, to)
<1>1. runs \in Seq(Runs) /\ Len(runs) \in Nat
  BY LenProperties DEF WellFormed
<1>2. runs[i] \in Runs
  BY <1>1, ElementOfSeq
<1>3. RunLen(runs[i]) \in Nat
  BY <1>2, RunLength
<1>4. WellFormed(order, new) /\ DocumentMarks(new) = DocumentMarks(runs)
  <2>1. CASE JoinsPrevious(runs, i, from, to)
    <3>1. from = 0 /\ to < RunLen(runs[i]) /\ i > 1 /\ 0 < to
      BY <2>1 DEF JoinsPrevious
    <3>2. CanAppend(runs[i - 1], SubRun(Tombstone(runs[i]), 0, to))
      BY <2>1, <3>1, <1>2, TombstoneAtStart DEF JoinsPrevious
    <3>3. new = WithPrevious(runs, i, to)
      BY <2>1 DEF DeleteRangeInLeaf, WithPrevious
    <3>4. IsPairMoved(new, runs, i - 1, runs[i].start + to)
      BY <3>1, <3>2, <3>3, <1>1, WithPreviousMoves
    <3>5. i - 1 \in 1 .. Len(runs) - 1
      BY <3>1, <1>1
    <3> HIDE DEF new
    <3>6. PICK at : at = runs[i].start + to
      OBVIOUS
    <3>7. PICK j : j = i - 1
      OBVIOUS
    <3>8. j \in 1 .. Len(runs) - 1 /\ IsPairMoved(new, runs, j, at)
      BY <3>4, <3>5, <3>6, <3>7
    <3>9. QED
      BY <3>8, PairMoved
  <2>2. CASE ~JoinsPrevious(runs, i, from, to) /\ JoinsNext(runs, i, from, to)
    <3>1. to = RunLen(runs[i]) /\ i < Len(runs) /\ 0 < from
          /\ from < RunLen(runs[i])
      BY <2>2 DEF JoinsNext
    <3>2. CanPrepend(runs[i + 1],
                     SubRun(Tombstone(runs[i]), from, RunLen(runs[i])))
      BY <2>2, <3>1, <1>2, TombstoneAtEnd DEF JoinsNext
    <3>3. new = WithNext(runs, i, from)
      BY <2>2 DEF DeleteRangeInLeaf, WithNext
    <3>4. IsPairMoved(new, runs, i, runs[i].start + from)
      BY <3>1, <3>2, <3>3, <1>1, WithNextMoves
    <3>5. i \in 1 .. Len(runs) - 1
      BY <3>1, <1>1
    <3> HIDE DEF new
    <3>6. PICK at : at = runs[i].start + from
      OBVIOUS
    <3>7. IsPairMoved(new, runs, i, at)
      BY <3>4, <3>6
    <3>8. QED
      BY <3>5, <3>7, PairMoved
  <2>3. CASE ~JoinsPrevious(runs, i, from, to) /\ ~JoinsNext(runs, i, from, to)
    <3>1. new = Splice(runs, i, DeleteRange(runs[i], from, to))
      BY <2>3 DEF DeleteRangeInLeaf
    <3>2. LET pieces == DeleteRange(runs[i], from, to)
          IN  /\ pieces \in Seq(Runs) /\ pieces # <<>>
              /\ IsFull(pieces) /\ RunsAreOrdered(order, pieces)
              /\ DocumentMarks(pieces) = RunMarks(runs[i])
      BY <1>2, DeleteRangeCuts
    <3>3. OnlyLastIsEmpty(new)
      BY <1>1, <3>1, <3>2, FullSplice DEF WellFormed
    <3>4. QED
      BY <3>1, <3>2, <3>3, LeafCut
  <2>4. QED
    BY <2>1, <2>2, <2>3
<1>5. Len(new) \in Nat \ {0}
  BY <1>4, EmptySeq DEF WellFormed
<1> HIDE DEF new
<1>6. LeafAfterDeleted(runs, i, from, to) \in Nat \ {0}
  BY <1>5 DEF LeafAfterDeleted, new
<1>7. QED
  BY <1>4, <1>6 DEF new

------------------------------------------------------------------------------
(* The same characters in the same order of runs, cut differently.         *)
IsRecut(order, s, t) ==
    /\ s \in Seq(Runs) /\ t \in Seq(Runs)
    /\ DocumentMarks(s) = DocumentMarks(t)
    /\ RunsAreOrdered(order, s) => RunsAreOrdered(order, t)

LEMMA RecutConcat ==
    ASSUME NEW order, NEW s, NEW t, IsRecut(order, s, t), NEW u, NEW v, IsRecut(order, u, v)
    PROVE  IsRecut(order, s \o u, t \o v)
<1>1. s \in Seq(Runs) /\ t \in Seq(Runs) /\ u \in Seq(Runs) /\ v \in Seq(Runs)
  BY DEF IsRecut
<1>2. s \o u \in Seq(Runs) /\ t \o v \in Seq(Runs)
  BY <1>1, ConcatProperties
<1>3. /\ DocumentMarks(s \o u) = DocumentMarks(s) \cup DocumentMarks(u)
      /\ DocumentMarks(t \o v) = DocumentMarks(t) \cup DocumentMarks(v)
  BY <1>1, MarksOfConcat
<1>4. RunsAreOrdered(order, s \o u) <=>
        /\ RunsAreOrdered(order, s) /\ RunsAreOrdered(order, u)
        /\ MarksBefore(order, DocumentMarks(s), DocumentMarks(u))
  BY <1>1, OrderOfConcat
<1>5. RunsAreOrdered(order, t \o v) <=>
        /\ RunsAreOrdered(order, t) /\ RunsAreOrdered(order, v)
        /\ MarksBefore(order, DocumentMarks(t), DocumentMarks(v))
  BY <1>1, OrderOfConcat
<1>6. QED
  BY <1>2, <1>3, <1>4, <1>5 DEF IsRecut

LEMMA RecutItself == ASSUME NEW order, NEW s \in Seq(Runs) PROVE IsRecut(order, s, s)
BY DEF IsRecut

LEMMA RecutTombstones ==
    ASSUME NEW order, NEW s \in Seq(Runs)
    PROVE  IsRecut(order, s, [k \in 1 .. Len(s) |-> Tombstone(s[k])])
<1> DEFINE t == [k \in 1 .. Len(s) |-> Tombstone(s[k])]
<1>1. Len(s) \in Nat /\ DOMAIN s = 1 .. Len(s)
  BY LenProperties
<1>2. ASSUME NEW k \in 1 .. Len(s)
      PROVE  t[k] \in Runs /\ RunMarks(t[k]) = RunMarks(s[k])
  <2>1. s[k] \in Runs
    BY <1>1, ElementOfSeq
  <2>2. QED
    BY <2>1, TombstoneOfRun
<1>3. DOMAIN t = 1 .. Len(s)
  OBVIOUS
<1>4. t \in Seq(Runs)
  BY <1>1, <1>2
<1> HIDE DEF t
<1>5. DocumentMarks(s) = DocumentMarks(t)
  BY <1>1, <1>2, <1>3 DEF DocumentMarks
<1>6. RunsAreOrdered(order, s) => RunsAreOrdered(order, t)
  BY <1>1, <1>2, <1>3 DEF RunsAreOrdered
<1>7. QED
  BY <1>4, <1>5, <1>6 DEF IsRecut, t

LEMMA RangeDeletedInInode ==
    ASSUME NEW order, KeepsRuns(order),
           NEW runs, WellFormed(order, runs),
           NEW p \in 1 .. Len(runs), NEW q \in 1 .. Len(runs), p < q,
           NEW from \in Nat, from < RunLen(runs[p]),
           NEW to \in Nat, 0 < to, to <= RunLen(runs[q])
    PROVE  /\ WellFormed(order, DeleteRangeInInode(runs, p, from, q, to))
           /\ DocumentMarks(DeleteRangeInInode(runs, p, from, q, to))
                = DocumentMarks(runs)
<1> DEFINE A == SubSeq(runs, 1, p - 1)
           M == SubSeq(runs, p + 1, q - 1)
           B == SubSeq(runs, q + 1, Len(runs))
           P == <<runs[p]>>
           Q == <<runs[q]>>
           X == DeleteFrom(runs[p], from)
           T == [k \in 1 .. q - p - 1 |-> Tombstone(runs[p + k])]
           Y == DeleteUpTo(runs[q], to)
<1>1. /\ runs \in Seq(Runs) /\ RunsAreOrdered(order, runs) /\ Len(runs) \in Nat
      /\ \A k \in 1 .. Len(runs) : runs[k] \in Runs
  BY LenProperties, ElementOfSeq DEF WellFormed
<1>2. runs[p] \in Runs /\ runs[q] \in Runs
  BY <1>1
<1>3. IsRecut(order, P, X) /\ X # <<>> /\ IsFull(X)
  <2>1. RunLen(runs[p]) \in Nat
    BY <1>2, RunLength
  <2>2. /\ X \in Seq(Runs) /\ X # <<>> /\ RunsAreOrdered(order, X)
        /\ IsFull(X)
        /\ DocumentMarks(X) = RunMarks(runs[p])
    BY <1>2, <2>1, DeleteRangeCuts DEF DeleteFrom
  <2>3. P \in Seq(Runs) /\ DocumentMarks(P) = RunMarks(runs[p])
    BY <1>2, MarksOfOne
  <2> HIDE DEF P, X
  <2>4. QED
    BY <2>2, <2>3 DEF IsRecut
<1>4. IsRecut(order, Q, Y) /\ IsFull(Y)
  <2>2. /\ Y \in Seq(Runs) /\ Y # <<>> /\ RunsAreOrdered(order, Y)
        /\ IsFull(Y)
        /\ DocumentMarks(Y) = RunMarks(runs[q])
    BY <1>2, DeleteRangeCuts DEF DeleteUpTo
  <2>3. Q \in Seq(Runs) /\ DocumentMarks(Q) = RunMarks(runs[q])
    BY <1>2, MarksOfOne
  <2> HIDE DEF Q, Y
  <2>4. QED
    BY <2>2, <2>3 DEF IsRecut
<1>5. IsRecut(order, M, T) /\ IsFull(T)
  <2>1. /\ M \in Seq(Runs) /\ Len(M) = q - p - 1
        /\ \A k \in 1 .. q - p - 1 : M[k] = runs[p + k]
    <3>1. /\ p + 1 \in Int /\ q - 1 \in Int
          /\ \A k \in p + 1 .. q - 1 : runs[k] \in Runs
      BY <1>1
    <3>2. /\ M \in Seq(Runs)
          /\ Len(M) = IF p + 1 <= q - 1 THEN (q - 1) - (p + 1) + 1 ELSE 0
          /\ \A k \in 1 .. (q - 1) - (p + 1) + 1 : M[k] = runs[(p + 1) + k - 1]
      BY <3>1, SubSeqProperties
    <3> HIDE DEF M
    <3>3. Len(M) = q - p - 1
      BY <3>2
    <3>4. ASSUME NEW k \in 1 .. q - p - 1 PROVE M[k] = runs[p + k]
      <4>1. k \in 1 .. (q - 1) - (p + 1) + 1 /\ (p + 1) + k - 1 = p + k
        OBVIOUS
      <4>2. QED
        BY <3>2, <4>1
    <3>5. QED
      BY <3>2, <3>3, <3>4
  <2> HIDE DEF M
  <2>2. T = [k \in 1 .. Len(M) |-> Tombstone(M[k])]
    BY <2>1
  <2>3. ASSUME NEW k \in 1 .. q - p - 1
        PROVE  T[k].start < T[k].end
    <3>1. p + k \in 1 .. Len(runs) - 1
      BY <1>1
    <3>2. /\ runs[p + k].start < runs[p + k].end
          /\ T[k] = Tombstone(runs[p + k])
      BY <3>1 DEF WellFormed, OnlyLastIsEmpty
    <3>3. /\ Tombstone(runs[p + k]).start = runs[p + k].start
          /\ Tombstone(runs[p + k]).end = runs[p + k].end
      <4>1. runs[p + k] \in Runs
        BY <3>1, <1>1
      <4>2. QED
        BY <4>1 DEF Tombstone, Runs, RunType
    <3>4. QED
      BY <3>2, <3>3
  <2>4. Len(T) = q - p - 1
    <3>1. Len(T) = Len(M)
      BY <2>1, <2>2
    <3>2. QED
      BY <3>1, <2>1
  <2> HIDE DEF T
  <2>5. IsFull(T)
    BY <2>3, <2>4 DEF IsFull
  <2>6. QED
    BY <2>1, <2>2, <2>5, RecutTombstones
<1>6. IsRecut(order, A, A) /\ IsRecut(order, B, B)
  <2>1. A \in Seq(Runs) /\ B \in Seq(Runs)
    BY <1>1, ApartAt
  <2> HIDE DEF A, B
  <2>2. QED
    BY <2>1, RecutItself
<1>7. runs = A \o P \o M \o Q \o B
  <2>1. /\ SubSeq(runs, 1, p) = A \o P
        /\ SubSeq(runs, 1, q) = SubSeq(runs, 1, q - 1) \o Q
    <3>1. 1 \in 1 .. Len(runs)
      BY <1>1
    <3>2. \A k \in 1 .. Len(runs) :
             SubSeq(runs, 1, k) = SubSeq(runs, 1, k - 1) \o <<runs[k]>>
      BY <1>1, <3>1, SubSeqRecursiveSecond
    <3>3. QED
      BY <3>2
  <2>2. SubSeq(runs, 1, p) \o M = SubSeq(runs, 1, q - 1)
    <3>1. 1 \in 1 .. Len(runs) + 1 /\ p \in 1 - 1 .. Len(runs)
          /\ q - 1 \in p .. Len(runs)
      BY <1>1
    <3>2. QED
      BY <1>1, <3>1, ConcatAdjacentSubSeq
  <2>3. SubSeq(runs, 1, q) \o B = runs
    <3>1. 1 \in 1 .. Len(runs) + 1 /\ q \in 1 - 1 .. Len(runs)
          /\ Len(runs) \in q .. Len(runs)
      BY <1>1
    <3>2. SubSeq(runs, 1, q) \o B = SubSeq(runs, 1, Len(runs))
      BY <1>1, <3>1, ConcatAdjacentSubSeq
    <3>3. QED
      BY <1>1, <3>2, SubSeqFull
  <2> HIDE DEF A, P, M, Q, B
  <2>4. QED
    BY <2>1, <2>2, <2>3
<1>8. DeleteRangeInInode(runs, p, from, q, to) = A \o X \o T \o Y \o B
  BY DEF DeleteRangeInInode
<1> HIDE DEF A, P, M, Q, B, X, T, Y
<1>9. IsRecut(order, A \o P \o M \o Q \o B, A \o X \o T \o Y \o B)
  <2>1. IsRecut(order, A \o P, A \o X)
    BY <1>3, <1>6, RecutConcat
  <2>2. IsRecut(order, A \o P \o M, A \o X \o T)
    BY <1>5, <2>1, RecutConcat
  <2>3. IsRecut(order, A \o P \o M \o Q, A \o X \o T \o Y)
    BY <1>4, <2>2, RecutConcat
  <2>4. QED
    BY <1>6, <2>3, RecutConcat
<1>10. A \o X \o T \o Y \o B # <<>>
  <2>1. /\ A \in Seq(Runs) /\ X \in Seq(Runs) /\ T \in Seq(Runs)
        /\ Y \in Seq(Runs) /\ B \in Seq(Runs)
    BY <1>3, <1>4, <1>5, <1>6 DEF IsRecut
  <2>2. A \o X \in Seq(Runs) /\ A \o X # <<>>
    BY <1>3, <2>1, ConcatProperties, ConcatEqualIffEmpty
  <2>3. A \o X \o T \in Seq(Runs) /\ A \o X \o T # <<>>
    BY <2>1, <2>2, ConcatProperties, ConcatEqualIffEmpty
  <2>4. A \o X \o T \o Y \in Seq(Runs) /\ A \o X \o T \o Y # <<>>
    BY <2>1, <2>3, ConcatProperties, ConcatEqualIffEmpty
  <2>5. QED
    BY <2>1, <2>4, ConcatProperties, ConcatEqualIffEmpty
<1>11. OnlyLastIsEmpty(A \o X \o T \o Y \o B)
  <2>1. /\ A \in Seq(Runs) /\ X \in Seq(Runs) /\ T \in Seq(Runs)
        /\ Y \in Seq(Runs) /\ B \in Seq(Runs)
    BY <1>3, <1>4, <1>5, <1>6 DEF IsRecut
  <2>2. IsFull(A) /\ OnlyLastIsEmpty(B)
    <3>1. /\ p \in 1 .. Len(runs) + 1 /\ q + 1 \in 1 .. Len(runs) + 1
          /\ p <= Len(runs)
      BY <1>1
    <3>2. QED
      BY <1>1, <3>1, FullSubSeqs DEF WellFormed, A, B
  <2>3. A \o X \in Seq(Runs) /\ IsFull(A \o X)
    BY <1>3, <2>1, <2>2, ConcatProperties, FullConcat
  <2>4. A \o X \o T \in Seq(Runs) /\ IsFull(A \o X \o T)
    BY <1>5, <2>1, <2>3, ConcatProperties, FullConcat
  <2>5. A \o X \o T \o Y \in Seq(Runs) /\ IsFull(A \o X \o T \o Y)
    BY <1>4, <2>1, <2>4, ConcatProperties, FullConcat
  <2>6. QED
    BY <2>1, <2>2, <2>5, FullConcat
<1>12. QED
  BY <1>1, <1>7, <1>8, <1>9, <1>10, <1>11 DEF IsRecut, WellFormed

(* A whole leaf deleted.                                                   *)
LEMMA LeafDeleted ==
    ASSUME NEW order, NEW runs, WellFormed(order, runs), NEW i \in 1 .. Len(runs)
    PROVE  /\ WellFormed(order, [runs EXCEPT ![i].del = TRUE])
           /\ DocumentMarks([runs EXCEPT ![i].del = TRUE])
                = DocumentMarks(runs)
<1> DEFINE e == Tombstone(runs[i])
           Q == <<e>>
<1>1. runs \in Seq(Runs)
  BY DEF WellFormed
<1>2. runs[i] \in Runs
  BY <1>1, ElementOfSeq
<1>3. e \in Runs /\ RunMarks(e) = RunMarks(runs[i])
  BY <1>2, TombstoneOfRun
<1>4. [runs EXCEPT ![i].del = TRUE] = [runs EXCEPT ![i] = e]
  BY DEF Tombstone
<1> HIDE DEF e
<1>5. [runs EXCEPT ![i] = e] = Splice(runs, i, Q)
  BY <1>1, <1>3, ExceptIsSplice
<1>6. Q \in Seq(Runs) /\ Q # <<>> /\ DocumentMarks(Q) = RunMarks(runs[i])
      /\ RunsAreOrdered(order, Q)
  BY <1>3, MarksOfOne, OrderOfOne
<1> HIDE DEF Q
<1>7. OnlyLastIsEmpty([runs EXCEPT ![i] = e])
  <2> DEFINE new == [runs EXCEPT ![i] = e]
  <2>1. /\ Len(new) = Len(runs) /\ Len(runs) \in Nat
        /\ \A k \in 1 .. Len(runs) : new[k] = IF k = i THEN e ELSE runs[k]
    BY <1>1, <1>3, ExceptSeq, LenProperties
  <2>2. e.start = runs[i].start /\ e.end = runs[i].end
    BY <1>2 DEF e, Tombstone, Runs, RunType
  <2> HIDE DEF new
  <2>3. QED
    BY <2>1, <2>2 DEF new, WellFormed, OnlyLastIsEmpty
<1>8. /\ WellFormed(order, Splice(runs, i, Q))
      /\ DocumentMarks(Splice(runs, i, Q)) = DocumentMarks(runs)
  <2>1. OnlyLastIsEmpty(Splice(runs, i, Q))
    BY <1>5, <1>7
  <2>2. QED
    BY <1>6, <2>1, LeafCut
<1>9. QED
  BY <1>4, <1>5, <1>8

------------------------------------------------------------------------------
(* Offsets of leaves.                                                      *)
IsOffsets(runs, f, n) ==
    f = [k \in 1 .. n |->
           IF k = 1 THEN 0 ELSE f[k - 1] + VisibleLen(runs[k - 1])]

LEMMA OffsetsExist ==
    ASSUME NEW runs, NEW n \in Nat
    PROVE  \E f : IsOffsets(runs, f, n + 1)
<1> DEFINE S == {k \in Nat : \E f : IsOffsets(runs, f, k + 1)}
<1>1. 0 \in S
  <2> DEFINE f == [k \in 1 .. 0 + 1 |-> 0]
  <2>1. f = [k \in 1 .. 0 + 1 |->
               IF k = 1 THEN 0 ELSE f[k - 1] + VisibleLen(runs[k - 1])]
    OBVIOUS
  <2>2. IsOffsets(runs, f, 0 + 1)
    BY <2>1 DEF IsOffsets
  <2> HIDE DEF f
  <2>3. QED
    BY <2>2
<1>2. ASSUME NEW k \in S \cap Nat PROVE k + 1 \in S
  <2>1. PICK f : IsOffsets(runs, f, k + 1)
    OBVIOUS
  <2> DEFINE last == f[k + 1] + VisibleLen(runs[k + 1])
             g == [j \in 1 .. (k + 1) + 1 |-> IF j = k + 2 THEN last ELSE f[j]]
             h == [j \in 1 .. (k + 1) + 1 |->
                     IF j = 1 THEN 0 ELSE g[j - 1] + VisibleLen(runs[j - 1])]
  <2>2. \A j \in 1 .. k + 1 :
           f[j] = IF j = 1 THEN 0 ELSE f[j - 1] + VisibleLen(runs[j - 1])
    BY <2>1 DEF IsOffsets
  <2>3. ASSUME NEW j \in 1 .. (k + 1) + 1 PROVE g[j] = h[j]
    <3>1. CASE j = k + 2
      <4>1. j - 1 = k + 1 /\ j - 1 \in 1 .. (k + 1) + 1 /\ j - 1 # k + 2
            /\ j # 1
        BY <3>1
      <4>2. g[j - 1] = f[k + 1] /\ g[j] = last
        BY <3>1, <4>1
      <4>3. h[j] = g[j - 1] + VisibleLen(runs[j - 1])
        BY <4>1
      <4>4. QED
        BY <4>1, <4>2, <4>3
    <3>2. CASE j # k + 2 /\ j # 1
      <4>1. j - 1 \in 1 .. (k + 1) + 1 /\ j - 1 # k + 2 /\ j \in 1 .. k + 1
        BY <3>2
      <4>2. g[j - 1] = f[j - 1] /\ g[j] = f[j]
        BY <3>2, <4>1
      <4>3. h[j] = g[j - 1] + VisibleLen(runs[j - 1])
        BY <3>2
      <4>4. f[j] = f[j - 1] + VisibleLen(runs[j - 1])
        BY <2>2, <3>2, <4>1
      <4>5. QED
        BY <4>2, <4>3, <4>4
    <3>3. CASE j # k + 2 /\ j = 1
      <4>1. g[j] = f[j] /\ h[j] = 0 /\ 1 \in 1 .. k + 1
        BY <3>3
      <4>2. QED
        BY <2>2, <3>3, <4>1
    <3>4. QED
      BY <3>1, <3>2, <3>3
  <2>4. g = h
    BY <2>3
  <2>5. IsOffsets(runs, g, (k + 1) + 1)
    BY <2>4 DEF IsOffsets
  <2> HIDE DEF g
  <2>6. QED
    BY <2>5
<1> HIDE DEF S
<1>3. n \in S
  BY <1>1, <1>2, Induction
<1>4. QED
  BY <1>3 DEF S

LEMMA OffsetsOfLeaves ==
    ASSUME NEW runs \in Seq(Runs)
    PROVE  /\ OffsetOfLeaf(runs, 1) = 0
           /\ \A k \in 1 .. Len(runs) :
                /\ VisibleLen(runs[k]) \in Nat
                /\ OffsetOfLeaf(runs, k + 1) =
                     OffsetOfLeaf(runs, k) + VisibleLen(runs[k])
           /\ \A k \in 1 .. Len(runs) + 1 : OffsetOfLeaf(runs, k) \in Nat
<1>1. Len(runs) \in Nat
  OBVIOUS
<1> DEFINE f == CHOOSE g : IsOffsets(runs, g, Len(runs) + 1)
<1>2. IsOffsets(runs, f, Len(runs) + 1)
  BY <1>1, OffsetsExist
<1>3. ASSUME NEW i PROVE OffsetOfLeaf(runs, i) = f[i]
  BY DEF OffsetOfLeaf, IsOffsets
<1> HIDE DEF f
<1>4. \A k \in 1 .. Len(runs) + 1 :
         f[k] = IF k = 1 THEN 0 ELSE f[k - 1] + VisibleLen(runs[k - 1])
  BY <1>2 DEF IsOffsets
<1>5. f[1] = 0
  BY <1>1, <1>4
<1>6. ASSUME NEW k \in 1 .. Len(runs)
      PROVE  VisibleLen(runs[k]) \in Nat
  <2>1. runs[k] \in Runs
    BY ElementOfSeq
  <2>2. RunLen(runs[k]) \in Nat
    BY <2>1, RunLength
  <2>3. QED
    BY <2>2 DEF VisibleLen
<1>7. ASSUME NEW k \in 1 .. Len(runs)
      PROVE  f[k + 1] = f[k] + VisibleLen(runs[k])
  <2>1. k + 1 \in 1 .. Len(runs) + 1 /\ k + 1 # 1 /\ (k + 1) - 1 = k
    BY <1>1
  <2>2. f[k + 1] = f[(k + 1) - 1] + VisibleLen(runs[(k + 1) - 1])
    BY <2>1, <1>4
  <2>3. QED
    BY <2>1, <2>2
<1>8. \A k \in 1 .. Len(runs) + 1 : f[k] \in Nat
  <2> DEFINE S == {k \in Nat : k <= Len(runs) => f[k + 1] \in Nat}
  <2>1. 0 \in S
    BY <1>5
  <2>2. ASSUME NEW k \in S \cap Nat PROVE k + 1 \in S
    <3>1. CASE k + 1 <= Len(runs)
      <4>1. k + 1 \in 1 .. Len(runs) /\ k <= Len(runs)
        BY <1>1, <3>1
      <4>2. f[k + 1] \in Nat
        BY <4>1
      <4>3. f[(k + 1) + 1] = f[k + 1] + VisibleLen(runs[k + 1])
        BY <4>1, <1>7
      <4>4. VisibleLen(runs[k + 1]) \in Nat
        BY <4>1, <1>6
      <4>5. QED
        BY <4>2, <4>3, <4>4
    <3>2. CASE ~(k + 1 <= Len(runs))
      BY <3>2
    <3>3. QED
      BY <3>1, <3>2
  <2> HIDE DEF S
  <2>3. Nat \subseteq S
    BY <2>1, <2>2, Induction
  <2>4. ASSUME NEW k \in 1 .. Len(runs) + 1 PROVE f[k] \in Nat
    <3>1. k - 1 \in S /\ k - 1 <= Len(runs) /\ (k - 1) + 1 = k
      BY <2>3, <1>1
    <3>2. QED
      BY <3>1 DEF S
  <2>5. QED
    BY <2>4
<1>9. QED
  BY <1>3, <1>5, <1>6, <1>7, <1>8

LEMMA OffsetsGrow ==
    ASSUME NEW runs \in Seq(Runs),
           NEW i \in 1 .. Len(runs) + 1, NEW j \in 1 .. Len(runs) + 1, i <= j
    PROVE  OffsetOfLeaf(runs, i) <= OffsetOfLeaf(runs, j)
<1> DEFINE f[k \in Nat] == OffsetOfLeaf(runs, k)
           S == {k \in Nat : i + k <= Len(runs) + 1 => f[i] <= f[i + k]}
<1>1. Len(runs) \in Nat
  OBVIOUS
<1>2. /\ \A k \in 1 .. Len(runs) :
           VisibleLen(runs[k]) \in Nat /\ f[k + 1] = f[k] + VisibleLen(runs[k])
      /\ \A k \in 1 .. Len(runs) + 1 : f[k] \in Nat
  BY OffsetsOfLeaves
<1>3. f[i] = OffsetOfLeaf(runs, i) /\ f[j] = OffsetOfLeaf(runs, j)
  OBVIOUS
<1> HIDE DEF f
<1>4. 0 \in S
  <2>1. i + 0 = i /\ f[i] \in Nat
    BY <1>2
  <2>2. QED
    BY <2>1
<1>5. ASSUME NEW k \in S \cap Nat PROVE k + 1 \in S
  <2>1. SUFFICES ASSUME i + (k + 1) <= Len(runs) + 1
                 PROVE  f[i] <= f[i + (k + 1)]
    OBVIOUS
  <2>2. i + k \in 1 .. Len(runs) /\ i + k <= Len(runs) + 1
        /\ (i + k) + 1 = i + (k + 1) /\ i + k \in 1 .. Len(runs) + 1
    BY <1>1, <2>1
  <2>3. f[i] <= f[i + k]
    BY <2>2
  <2>4. f[i + (k + 1)] = f[i + k] + VisibleLen(runs[i + k])
        /\ VisibleLen(runs[i + k]) \in Nat
    BY <1>2, <2>2
  <2>5. f[i] \in Nat /\ f[i + k] \in Nat
    BY <1>2, <2>2
  <2>6. QED
    BY <2>3, <2>4, <2>5
<1> HIDE DEF S
<1>6. j - i \in S
  <2>1. j - i \in Nat
    BY <1>1
  <2>2. QED
    BY <2>1, <1>4, <1>5, Induction
<1>7. i + (j - i) = j /\ j <= Len(runs) + 1
  BY <1>1
<1>8. QED
  BY <1>3, <1>6, <1>7 DEF S

(* The leaf with a visible character exists.                               *)
LEMMA LeafAtOffsetExists ==
    ASSUME NEW runs \in Seq(Runs),
           NEW offset \in Nat, 0 < offset, offset <= DocumentLen(runs)
    PROVE  /\ LeafAtOffset(runs, offset) \in 1 .. Len(runs)
           /\ OffsetOfLeaf(runs, LeafAtOffset(runs, offset)) \in Nat
           /\ OffsetOfLeaf(runs, LeafAtOffset(runs, offset)) < offset
           /\ offset <= OffsetOfLeaf(runs, LeafAtOffset(runs, offset))
                          + VisibleLen(runs[LeafAtOffset(runs, offset)])
<1> DEFINE S == {k \in 1 .. Len(runs) + 1 : offset <= OffsetOfLeaf(runs, k)}
<1>1. Len(runs) \in Nat /\ DOMAIN runs = 1 .. Len(runs)
  OBVIOUS
<1>2. S \subseteq Nat /\ Len(runs) + 1 \in S
  BY <1>1 DEF DocumentLen
<1>3. PICK k \in S : \A j \in S : k <= j
  <2> HIDE DEF S
  <2>1. QED
    BY <1>2, LeastNumber
<1>4. k \in 1 .. Len(runs) + 1 /\ offset <= OffsetOfLeaf(runs, k)
  OBVIOUS
<1>5. k # 1
  BY <1>4, OffsetsOfLeaves
<1> DEFINE i == k - 1
<1>6. i \in 1 .. Len(runs) /\ i \in 1 .. Len(runs) + 1 /\ i + 1 = k
      /\ ~(k <= i)
  BY <1>1, <1>4, <1>5
<1>7. i \notin S
  BY <1>3, <1>6
<1> HIDE DEF i
<1>8. OffsetOfLeaf(runs, i) < offset
  <2>1. ~(offset <= OffsetOfLeaf(runs, i))
    BY <1>6, <1>7
  <2>2. OffsetOfLeaf(runs, i) \in Nat
    BY <1>6, OffsetsOfLeaves
  <2>3. QED
    BY <2>1, <2>2
<1>9. offset <= OffsetOfLeaf(runs, i) + VisibleLen(runs[i])
  BY <1>4, <1>6, OffsetsOfLeaves
<1>10. /\ LeafAtOffset(runs, offset) \in 1 .. Len(runs)
       /\ OffsetOfLeaf(runs, LeafAtOffset(runs, offset)) < offset
       /\ offset <= OffsetOfLeaf(runs, LeafAtOffset(runs, offset))
                      + VisibleLen(runs[LeafAtOffset(runs, offset)])
  BY <1>1, <1>6, <1>8, <1>9 DEF LeafAtOffset
<1>11. OffsetOfLeaf(runs, LeafAtOffset(runs, offset)) \in Nat
  <2>1. LeafAtOffset(runs, offset) \in 1 .. Len(runs) + 1
    BY <1>1, <1>10
  <2>2. QED
    BY <2>1, OffsetsOfLeaves
<1>12. QED
  BY <1>10, <1>11

(* The leaf with a visible character, as a run with a character in it.     *)
LEMMA LeafOfVisible ==
    ASSUME NEW runs \in Seq(Runs), NEW i \in 1 .. Len(runs),
           NEW at \in Nat, at < VisibleLen(runs[i]),
           NEW c, c = [id |-> runs[i].id, at |-> runs[i].start + at,
                       ts |-> runs[i].ts, lam |-> runs[i].lam]
    PROVE  /\ ~runs[i].del /\ VisibleLen(runs[i]) = RunLen(runs[i])
           /\ c \in RunMarks(runs[i]) /\ c \in DocumentMarks(runs)
<1>1. DOMAIN runs = 1 .. Len(runs)
  BY LenProperties
<1>2. runs[i] \in Runs
  BY ElementOfSeq
<1>3. ~runs[i].del /\ VisibleLen(runs[i]) = RunLen(runs[i])
  BY DEF VisibleLen
<1>4. /\ runs[i] \in RunType /\ RunLen(runs[i]) \in Nat
      /\ runs[i].start \in Nat /\ runs[i].end = runs[i].start + RunLen(runs[i])
  BY <1>2, RunLength
<1>5. runs[i].start + at \in runs[i].start .. runs[i].end - 1
  BY <1>3, <1>4
<1>6. c \in RunMarks(runs[i])
  BY <1>5 DEF RunMarks
<1>7. QED
  BY <1>1, <1>3, <1>6 DEF DocumentMarks

LEMMA DeleteKeepsDocument ==
    ASSUME NEW order, KeepsRuns(order),
           NEW runs, WellFormed(order, runs),
           NEW from \in Nat, NEW to \in Nat, from < to, to <= DocumentLen(runs)
    PROVE  LET deleted == Delete(runs, from, to)
           IN  /\ WellFormed(order, deleted.runs)
               /\ DocumentMarks(deleted.runs) = DocumentMarks(runs)
               /\ \E c, e \in DocumentMarks(runs) :
                    /\ deleted.start =
                         [id |-> c.id, offset |-> c.at, ts |-> c.ts]
                    /\ deleted.end =
                         [id |-> e.id, offset |-> e.at + 1, ts |-> e.ts]
                    /\ c.id \in deleted.ids /\ e.id \in deleted.ids
                    /\ c = e \/ <<c, e>> \in order
<1> DEFINE p == LeafAtOffset(runs, from + 1)
           q == LeafAtOffset(runs, to)
           from_p == from - OffsetOfLeaf(runs, p)
           to_q == to - OffsetOfLeaf(runs, q)
           deleted == Delete(runs, from, to)
<1>1. /\ runs \in Seq(Runs) /\ Len(runs) \in Nat /\ DOMAIN runs = 1 .. Len(runs)
      /\ RunsAreOrdered(order, runs)
  BY LenProperties DEF WellFormed
<1>2. DocumentLen(runs) \in Nat
  <2>1. Len(runs) + 1 \in 1 .. Len(runs) + 1
    BY <1>1
  <2>2. QED
    BY <1>1, <2>1, OffsetsOfLeaves DEF DocumentLen
<1>3. /\ from + 1 \in Nat /\ 0 < from + 1 /\ from + 1 <= DocumentLen(runs)
      /\ 0 < to
  BY <1>2
<1>4. /\ p \in 1 .. Len(runs) /\ OffsetOfLeaf(runs, p) \in Nat
      /\ OffsetOfLeaf(runs, p) < from + 1
      /\ from + 1 <= OffsetOfLeaf(runs, p) + VisibleLen(runs[p])
  BY <1>1, <1>3, LeafAtOffsetExists
<1>5. /\ q \in 1 .. Len(runs) /\ OffsetOfLeaf(runs, q) \in Nat
      /\ OffsetOfLeaf(runs, q) < to
      /\ to <= OffsetOfLeaf(runs, q) + VisibleLen(runs[q])
  BY <1>1, <1>3, LeafAtOffsetExists
<1>6. deleted =
        [runs |-> IF p = q THEN DeleteRangeInLeaf(runs, p, from_p, to_q)
                  ELSE DeleteRangeInInode(runs, p, from_p, q, to_q),
         start |-> AnchorAt(runs[p], from_p),
         end |-> AnchorAt(runs[q], to_q),
         ids |-> {runs[k].id : k \in {j \in p .. q : ~runs[j].del}}]
  BY DEF Delete
<1> HIDE DEF p, q, deleted
<1>7. runs[p] \in Runs /\ runs[q] \in Runs
  BY <1>1, <1>4, <1>5, ElementOfSeq
<1>8. /\ RunLen(runs[p]) \in Nat /\ RunLen(runs[q]) \in Nat
      /\ runs[p].start \in Nat /\ runs[q].start \in Nat
      /\ VisibleLen(runs[p]) \in Nat /\ VisibleLen(runs[q]) \in Nat
  <2>1. /\ RunLen(runs[p]) \in Nat /\ RunLen(runs[q]) \in Nat
        /\ runs[p].start \in Nat /\ runs[q].start \in Nat
    BY <1>7, RunLength
  <2>2. QED
    BY <2>1 DEF VisibleLen
<1>9. /\ from_p \in Nat /\ from_p < VisibleLen(runs[p])
      /\ to_q \in Nat /\ 0 < to_q /\ to_q <= VisibleLen(runs[q])
      /\ to_q - 1 \in Nat /\ to_q - 1 < VisibleLen(runs[q])
  <2>1. \A o, v \in Nat : o < from + 1 /\ from + 1 <= o + v
                              => from - o \in Nat /\ from - o < v
    OBVIOUS
  <2>2. \A o, v \in Nat :
           o < to /\ to <= o + v
             => /\ to - o \in Nat /\ 0 < to - o /\ to - o <= v
                /\ to - o - 1 \in Nat /\ to - o - 1 < v
    OBVIOUS
  <2>3. from_p \in Nat /\ from_p < VisibleLen(runs[p])
    BY <2>1, <1>4, <1>8
  <2>4. QED
    BY <2>2, <2>3, <1>5, <1>8
<1>10. p <= q
  <2>1. SUFFICES ASSUME q < p PROVE FALSE
    BY <1>4, <1>5
  <2>2. q + 1 \in 1 .. Len(runs) + 1 /\ p \in 1 .. Len(runs) + 1 /\ q + 1 <= p
    BY <1>1, <1>4, <1>5, <2>1
  <2>3. OffsetOfLeaf(runs, q + 1) <= OffsetOfLeaf(runs, p)
    BY <1>1, <2>2, OffsetsGrow
  <2>4. OffsetOfLeaf(runs, q + 1) = OffsetOfLeaf(runs, q) + VisibleLen(runs[q])
    BY <1>1, <1>5, OffsetsOfLeaves
  <2>5. QED
    BY <2>3, <2>4, <1>4, <1>5, <1>8
<1> DEFINE c == [id |-> runs[p].id, at |-> runs[p].start + from_p,
                 ts |-> runs[p].ts, lam |-> runs[p].lam]
           e == [id |-> runs[q].id, at |-> runs[q].start + (to_q - 1),
                 ts |-> runs[q].ts, lam |-> runs[q].lam]
<1>11. /\ ~runs[p].del /\ VisibleLen(runs[p]) = RunLen(runs[p])
       /\ c \in RunMarks(runs[p]) /\ c \in DocumentMarks(runs)
  BY <1>1, <1>4, <1>9, LeafOfVisible
<1>12. /\ ~runs[q].del /\ VisibleLen(runs[q]) = RunLen(runs[q])
       /\ e \in RunMarks(runs[q]) /\ e \in DocumentMarks(runs)
  BY <1>1, <1>5, <1>9, LeafOfVisible
<1>13. /\ deleted.start = [id |-> c.id, offset |-> c.at, ts |-> c.ts]
       /\ deleted.end = [id |-> e.id, offset |-> e.at + 1, ts |-> e.ts]
  <2>1. runs[q].start + (to_q - 1) + 1 = runs[q].start + to_q
    BY <1>8, <1>9
  <2>2. QED
    BY <1>6, <2>1 DEF AnchorAt
<1>14. c.id \in deleted.ids /\ e.id \in deleted.ids
  <2>1. p \in p .. q /\ q \in p .. q
    BY <1>4, <1>5, <1>10
  <2>2. QED
    BY <1>6, <1>11, <1>12, <2>1
<1>15. c = e \/ <<c, e>> \in order
  <2>1. CASE p = q
    <3>1. from_p = to_q - 1 \/ from_p < to_q - 1
      BY <2>1, <1>4, <1>5, <1>9
    <3>2. from_p = to_q - 1 => c = e
      BY <2>1
    <3>3. from_p < to_q - 1 => c.at < e.at
      BY <2>1, <1>8, <1>9
    <3>4. c.id = e.id /\ c.ts = e.ts /\ c.lam = e.lam
      BY <2>1
    <3> HIDE DEF c, e
    <3>5. c \in Mark /\ e \in Mark
      BY <1>7, <1>11, <1>12, RunLength, MarkOfRun
    <3>6. QED
      BY <3>1, <3>2, <3>3, <3>4, <3>5 DEF KeepsRuns
  <2>2. CASE p < q
    <3>1. MarksBefore(order, RunMarks(runs[p]), RunMarks(runs[q]))
      BY <2>2, <1>1, <1>4, <1>5 DEF RunsAreOrdered
    <3> HIDE DEF c, e
    <3>2. QED
      BY <3>1, <1>11, <1>12 DEF MarksBefore
  <2>3. QED
    BY <2>1, <2>2, <1>4, <1>5, <1>10
<1>16. WellFormed(order, deleted.runs) /\ DocumentMarks(deleted.runs) = DocumentMarks(runs)
  <2>1. CASE p = q
    <3>1. from_p < to_q /\ to_q <= RunLen(runs[p])
      BY <2>1, <1>4, <1>5, <1>9, <1>12
    <3>2. /\ WellFormed(order, DeleteRangeInLeaf(runs, p, from_p, to_q))
          /\ DocumentMarks(DeleteRangeInLeaf(runs, p, from_p, to_q))
               = DocumentMarks(runs)
      BY <3>1, <1>4, <1>9, RangeDeletedInLeaf
    <3>3. QED
      BY <2>1, <3>2, <1>6
  <2>2. CASE p < q
    <3>1. from_p < RunLen(runs[p]) /\ to_q <= RunLen(runs[q])
      BY <1>9, <1>11, <1>12
    <3>2. /\ WellFormed(order, DeleteRangeInInode(runs, p, from_p, q, to_q))
          /\ DocumentMarks(DeleteRangeInInode(runs, p, from_p, q, to_q))
               = DocumentMarks(runs)
      BY <2>2, <3>1, <1>4, <1>5, <1>9, RangeDeletedInInode, SMTT(30)
    <3>3. p # q
      BY <2>2, <1>4, <1>5
    <3>4. QED
      BY <3>2, <3>3, <1>6
  <2>3. QED
    BY <2>1, <2>2, <1>4, <1>5, <1>10
<1> HIDE DEF c, e
<1>17. QED
  BY <1>11, <1>12, <1>13, <1>14, <1>15, <1>16 DEF deleted

------------------------------------------------------------------------------
(* Text placed in a document.                                              *)
LEMMA MarksOfSubSeq ==
    ASSUME NEW runs \in Seq(Runs),
           NEW m \in 1 .. Len(runs) + 1, NEW n \in 0 .. Len(runs)
    PROVE  /\ SubSeq(runs, m, n) \in Seq(Runs)
           /\ \A c \in DocumentMarks(SubSeq(runs, m, n)) :
                \E k \in m .. n : k \in 1 .. Len(runs) /\ c \in RunMarks(runs[k])
           /\ DocumentMarks(SubSeq(runs, m, n)) \subseteq DocumentMarks(runs)
<1> DEFINE s == SubSeq(runs, m, n)
<1>1. Len(runs) \in Nat /\ DOMAIN runs = 1 .. Len(runs)
      /\ \A k \in 1 .. Len(runs) : runs[k] \in Runs
  BY LenProperties, ElementOfSeq
<1>2. /\ m \in Int /\ n \in Int
      /\ \A k \in m .. n : k \in 1 .. Len(runs)
  BY <1>1
<1>3. /\ s \in Seq(Runs)
      /\ Len(s) = IF m <= n THEN n - m + 1 ELSE 0
      /\ \A k \in 1 .. n - m + 1 : s[k] = runs[m + k - 1]
  BY <1>1, <1>2, SubSeqProperties
<1> HIDE DEF s
<1>4. DOMAIN s = 1 .. Len(s)
  BY <1>3, LenProperties
<1>5. ASSUME NEW c \in DocumentMarks(s)
      PROVE  \E k \in m .. n : k \in 1 .. Len(runs) /\ c \in RunMarks(runs[k])
  <2>1. PICK k \in 1 .. Len(s) : c \in RunMarks(s[k])
    BY <1>4 DEF DocumentMarks
  <2>2. k \in 1 .. n - m + 1 /\ m + k - 1 \in m .. n
    BY <1>2, <1>3
  <2>3. QED
    BY <2>1, <2>2, <1>2, <1>3
<1>6. DocumentMarks(s) \subseteq DocumentMarks(runs)
  BY <1>1, <1>5 DEF DocumentMarks
<1>7. QED
  BY <1>3, <1>5, <1>6 DEF s

(* The marks before a leaf, and from it on.                                *)
MarksUpTo(runs, p) == DocumentMarks(SubSeq(runs, 1, p - 1))

MarksFrom(runs, p) == DocumentMarks(SubSeq(runs, p, Len(runs)))

LEMMA MarksAreMarks ==
    ASSUME NEW runs \in Seq(Runs)
    PROVE  DocumentMarks(runs) \subseteq Mark
<1>1. DOMAIN runs = 1 .. Len(runs) /\ \A k \in 1 .. Len(runs) : runs[k] \in Runs
  BY LenProperties, ElementOfSeq
<1>2. \A k \in 1 .. Len(runs) : RunMarks(runs[k]) \subseteq Mark
  BY <1>1, RunLength, MarkOfRun
<1>3. QED
  BY <1>1, <1>2 DEF DocumentMarks

LEMMA MarksAround ==
    ASSUME NEW runs \in Seq(Runs), NEW p \in 1 .. Len(runs) + 1
    PROVE  /\ \A c : c \in MarksUpTo(runs, p)
                 <=> \E k \in 1 .. p - 1 : c \in RunMarks(runs[k])
           /\ \A c : c \in MarksFrom(runs, p)
                 <=> \E k \in p .. Len(runs) : c \in RunMarks(runs[k])
           /\ MarksUpTo(runs, p) \cup MarksFrom(runs, p) = DocumentMarks(runs)
<1> DEFINE s == SubSeq(runs, 1, p - 1)
           t == SubSeq(runs, p, Len(runs))
<1>1. /\ Len(runs) \in Nat /\ DOMAIN runs = 1 .. Len(runs)
      /\ \A k \in 1 .. Len(runs) : runs[k] \in Runs
  BY LenProperties, ElementOfSeq
<1>2. /\ s \in Seq(Runs) /\ Len(s) = p - 1
      /\ \A k \in 1 .. p - 1 : s[k] = runs[k]
  BY <1>1, SubSeqProperties
<1>3. /\ t \in Seq(Runs) /\ Len(t) = Len(runs) - p + 1
      /\ \A k \in 1 .. Len(runs) - p + 1 : t[k] = runs[p + k - 1]
  <2>1. p \in Int /\ Len(runs) \in Int
        /\ \A k \in p .. Len(runs) : runs[k] \in Runs
    BY <1>1
  <2>2. /\ t \in Seq(Runs)
        /\ Len(t) = IF p <= Len(runs) THEN Len(runs) - p + 1 ELSE 0
        /\ \A k \in 1 .. Len(runs) - p + 1 : t[k] = runs[p + k - 1]
    BY <2>1, SubSeqProperties
  <2>3. QED
    BY <1>1, <2>2
<1> HIDE DEF s, t
<1>4. DOMAIN s = 1 .. p - 1 /\ DOMAIN t = 1 .. Len(runs) - p + 1
  BY <1>2, <1>3, LenProperties
<1>5. \A c : c \in DocumentMarks(s)
               <=> \E k \in 1 .. p - 1 : c \in RunMarks(runs[k])
  BY <1>2, <1>4 DEF DocumentMarks
<1>6. ASSUME NEW c
      PROVE  c \in DocumentMarks(t)
               <=> \E k \in p .. Len(runs) : c \in RunMarks(runs[k])
  <2>1. ASSUME c \in DocumentMarks(t)
        PROVE  \E k \in p .. Len(runs) : c \in RunMarks(runs[k])
    <3>1. PICK k \in 1 .. Len(runs) - p + 1 : c \in RunMarks(t[k])
      BY <2>1, <1>4 DEF DocumentMarks
    <3>2. p + k - 1 \in p .. Len(runs) /\ t[k] = runs[p + k - 1]
      BY <1>1, <1>3
    <3>3. QED
      BY <3>1, <3>2
  <2>2. ASSUME NEW k \in p .. Len(runs), c \in RunMarks(runs[k])
        PROVE  c \in DocumentMarks(t)
    <3>1. /\ k - p + 1 \in 1 .. Len(runs) - p + 1
          /\ p + (k - p + 1) - 1 = k
      BY <1>1
    <3>2. t[k - p + 1] = runs[k]
      BY <3>1, <1>3
    <3>3. QED
      BY <2>2, <3>1, <3>2, <1>4 DEF DocumentMarks
  <2>3. QED
    BY <2>1, <2>2
<1>7. ASSUME NEW c
      PROVE  c \in DocumentMarks(runs)
               <=> c \in DocumentMarks(s) \/ c \in DocumentMarks(t)
  <2>1. c \in DocumentMarks(runs)
          <=> \E k \in 1 .. Len(runs) : c \in RunMarks(runs[k])
    BY <1>1 DEF DocumentMarks
  <2>2. \A k : k \in 1 .. Len(runs) <=> k \in 1 .. p - 1 \/ k \in p .. Len(runs)
    BY <1>1
  <2>3. QED
    BY <2>1, <2>2, <1>5, <1>6
<1>8. QED
  BY <1>5, <1>6, <1>7 DEF s, t, MarksUpTo, MarksFrom

(* What the order says of them.                                            *)
LEMMA MarksInOrder ==
    ASSUME NEW order, KeepsRuns(order), NEW runs, WellFormed(order, runs),
           NEW i \in 1 .. Len(runs), NEW c \in RunMarks(runs[i])
    PROVE  /\ c \in Mark /\ Covers(runs[i], c)
           /\ \A x \in MarksUpTo(runs, i) : <<x, c>> \in order
           /\ \A y \in MarksFrom(runs, i + 1) : <<c, y>> \in order
           /\ \A e \in RunMarks(runs[i]) :
                 /\ e \in Mark /\ Covers(runs[i], e)
                 /\ e.at < c.at => <<e, c>> \in order
                 /\ c.at < e.at => <<c, e>> \in order
<1>1. /\ runs \in Seq(Runs) /\ Len(runs) \in Nat /\ DOMAIN runs = 1 .. Len(runs)
      /\ RunsAreOrdered(order, runs) /\ runs[i] \in Runs
  BY LenProperties, ElementOfSeq DEF WellFormed
<1>2. \A e \in RunMarks(runs[i]) : e \in Mark /\ Covers(runs[i], e)
  BY <1>1, RunLength, MarkOfRun
<1>3. ASSUME NEW x \in MarksUpTo(runs, i) PROVE <<x, c>> \in order
  <2>1. PICK k \in 1 .. i - 1 : x \in RunMarks(runs[k])
    BY <1>1, MarksAround
  <2>2. k \in 1 .. Len(runs) /\ k < i
    BY <1>1
  <2>3. QED
    BY <2>1, <2>2, <1>1 DEF RunsAreOrdered, MarksBefore
<1>4. ASSUME NEW y \in MarksFrom(runs, i + 1) PROVE <<c, y>> \in order
  <2>1. i + 1 \in 1 .. Len(runs) + 1
    BY <1>1
  <2>2. PICK k \in i + 1 .. Len(runs) : y \in RunMarks(runs[k])
    BY <1>1, <2>1, MarksAround
  <2>3. k \in 1 .. Len(runs) /\ i < k
    BY <1>1
  <2>4. QED
    BY <2>2, <2>3, <1>1 DEF RunsAreOrdered, MarksBefore
<1>5. ASSUME NEW e \in RunMarks(runs[i])
      PROVE  /\ e.at < c.at => <<e, c>> \in order
             /\ c.at < e.at => <<c, e>> \in order
  BY <1>2 DEF KeepsRuns, Covers
<1>6. QED
  BY <1>2, <1>3, <1>4, <1>5

(* The first mark from a leaf on.                                          *)
LEMMA FirstOfMarksFrom ==
    ASSUME NEW order, KeepsRuns(order), NEW runs, WellFormed(order, runs),
           NEW p \in 1 .. Len(runs) + 1, NEW y \in MarksFrom(runs, p)
    PROVE  /\ p <= Len(runs)
           /\ \E z \in MarksFrom(runs, p) :
                /\ z.id = runs[p].id /\ z.lam = runs[p].lam
                /\ y = z \/ <<z, y>> \in order
<1>1. /\ runs \in Seq(Runs) /\ Len(runs) \in Nat
      /\ \A k \in 1 .. Len(runs) : runs[k] \in Runs
  BY LenProperties, ElementOfSeq DEF WellFormed
<1>2. PICK k \in p .. Len(runs) : y \in RunMarks(runs[k])
  BY <1>1, MarksAround
<1>3. p \in 1 .. Len(runs) /\ p <= Len(runs) /\ p \in p .. Len(runs)
  BY <1>1
<1>4. runs[p].start < runs[p].end
  <2>1. CASE p = k
    <3>1. Covers(runs[p], y) /\ y \in Mark
      BY <2>1, <1>1, <1>2, <1>3, RunLength, MarkOfRun
    <3>2. runs[p].start \in Nat /\ runs[p].end \in Nat
      BY <1>1, <1>3 DEF Runs, RunType
    <3>3. QED
      BY <3>1, <3>2 DEF Covers, Mark
  <2>2. CASE p # k
    <3>1. p \in 1 .. Len(runs) - 1
      BY <2>2, <1>1, <1>3
    <3>2. QED
      BY <3>1 DEF WellFormed, OnlyLastIsEmpty
  <2>3. QED
    BY <2>1, <2>2
<1> DEFINE z == [id |-> runs[p].id, at |-> runs[p].start, ts |-> runs[p].ts,
                 lam |-> runs[p].lam]
<1>5. z \in RunMarks(runs[p])
  <2>1. runs[p].start \in Nat /\ runs[p].end \in Nat
    BY <1>1, <1>3 DEF Runs, RunType
  <2>2. runs[p].start \in runs[p].start .. runs[p].end - 1
    BY <2>1, <1>4
  <2>3. QED
    BY <2>2 DEF RunMarks
<1>6. z.id = runs[p].id /\ z.lam = runs[p].lam /\ z.at = runs[p].start
      /\ z.ts = runs[p].ts
  OBVIOUS
<1> HIDE DEF z
<1>7. z \in MarksFrom(runs, p)
  BY <1>1, <1>3, <1>5, MarksAround
<1>8. y = z \/ <<z, y>> \in order
  <2>1. CASE p = k
    <3>1. y \in RunMarks(runs[p])
      BY <2>1, <1>2
    <3>2. /\ y \in Mark /\ Covers(runs[p], y) /\ z \in Mark
          /\ z.at < y.at => <<z, y>> \in order
      BY <3>1, <1>3, <1>5, MarksInOrder
    <3>3. y.at \in Nat /\ z.at \in Nat /\ z.at <= y.at
      BY <3>2, <1>6 DEF Mark, Covers
    <3>4. z.at = y.at => y = z
      BY <3>2, <1>6 DEF Mark, Covers
    <3>5. QED
      BY <3>2, <3>3, <3>4
  <2>2. CASE p # k
    <3>1. y \in MarksFrom(runs, p + 1)
      <4>1. p + 1 \in 1 .. Len(runs) + 1 /\ k \in p + 1 .. Len(runs)
        BY <2>2, <1>1, <1>3
      <4>2. QED
        BY <4>1, <1>1, <1>2, MarksAround
    <3>2. QED
      BY <3>1, <1>3, <1>5, MarksInOrder
  <2>3. QED
    BY <2>1, <2>2
<1>9. QED
  BY <1>3, <1>6, <1>7, <1>8

(* The marks before an offset of a leaf, and after it.                     *)
MarksLeftOf(runs, i, at) ==
    MarksUpTo(runs, i) \cup RunMarks(SubRun(runs[i], 0, at))

MarksRightOf(runs, i, at) ==
    RunMarks(SubRun(runs[i], at, RunLen(runs[i]))) \cup MarksFrom(runs, i + 1)

IsMarkBefore(run, at, c) ==
    c = [id |-> run.id, at |-> run.start + (at - 1), ts |-> run.ts,
         lam |-> run.lam]

LEMMA MarksAroundOffset ==
    ASSUME NEW order, KeepsRuns(order), NEW runs, WellFormed(order, runs),
           NEW i \in 1 .. Len(runs), NEW at \in 1 .. RunLen(runs[i]),
           NEW c, IsMarkBefore(runs[i], at, c)
    PROVE  /\ c \in MarksLeftOf(runs, i, at) /\ c \in DocumentMarks(runs)
           /\ \A x \in MarksLeftOf(runs, i, at) : x = c \/ <<x, c>> \in order
           /\ \A y \in MarksRightOf(runs, i, at) : <<c, y>> \in order
<1>1. /\ runs \in Seq(Runs) /\ Len(runs) \in Nat /\ runs[i] \in Runs
      /\ DOMAIN runs = 1 .. Len(runs)
  BY LenProperties, ElementOfSeq DEF WellFormed
<1>2. /\ RunLen(runs[i]) \in Nat /\ runs[i].start \in Nat
      /\ runs[i].end = runs[i].start + RunLen(runs[i])
  BY <1>1, RunLength
<1>3. /\ \A e : e \in RunMarks(SubRun(runs[i], 0, at)) <=>
            /\ e \in RunMarks(runs[i])
            /\ runs[i].start + 0 <= e.at /\ e.at < runs[i].start + at
      /\ \A e : e \in RunMarks(SubRun(runs[i], at, RunLen(runs[i]))) <=>
            /\ e \in RunMarks(runs[i])
            /\ runs[i].start + at <= e.at
            /\ e.at < runs[i].start + RunLen(runs[i])
  <2>1. 0 \in Nat /\ at \in Nat /\ 0 <= at /\ at <= RunLen(runs[i])
        /\ RunLen(runs[i]) <= RunLen(runs[i])
    BY <1>2
  <2>2. QED
    BY <1>1, <1>2, <2>1, MarksOfSubRun
<1>4. /\ c.id = runs[i].id /\ c.ts = runs[i].ts /\ c.lam = runs[i].lam
      /\ c.at = runs[i].start + (at - 1)
  BY DEF IsMarkBefore
<1>5. c \in RunMarks(runs[i])
  <2>1. runs[i].start + (at - 1) \in runs[i].start .. runs[i].end - 1
    BY <1>2
  <2>2. QED
    BY <2>1 DEF RunMarks, IsMarkBefore
<1>6. c \in RunMarks(SubRun(runs[i], 0, at))
  <2>1. runs[i].start + 0 <= c.at /\ c.at < runs[i].start + at
    BY <1>2, <1>4
  <2>2. QED
    BY <2>1, <1>3, <1>5
<1>7. /\ \A x \in MarksUpTo(runs, i) : <<x, c>> \in order
      /\ \A y \in MarksFrom(runs, i + 1) : <<c, y>> \in order
      /\ \A e \in RunMarks(runs[i]) :
            /\ e \in Mark /\ Covers(runs[i], e) /\ c \in Mark
            /\ e.at < c.at => <<e, c>> \in order
            /\ c.at < e.at => <<c, e>> \in order
  BY <1>5, MarksInOrder
<1>8. ASSUME NEW x \in RunMarks(SubRun(runs[i], 0, at))
      PROVE  x = c \/ <<x, c>> \in order
  <2>1. x \in RunMarks(runs[i]) /\ x.at < runs[i].start + at
    BY <1>3
  <2>2. x \in Mark /\ c \in Mark /\ x.id = c.id /\ x.ts = c.ts /\ x.lam = c.lam
    BY <2>1, <1>4, <1>7 DEF Covers
  <2>3. x.at \in Nat /\ (x.at = c.at \/ x.at < c.at)
    BY <2>1, <2>2, <1>2, <1>4, SMTT(30) DEF Mark
  <2>4. x.at = c.at => x = c
    BY <2>2 DEF Mark
  <2>5. QED
    BY <2>1, <2>3, <2>4, <1>7
<1>9. ASSUME NEW y \in RunMarks(SubRun(runs[i], at, RunLen(runs[i])))
      PROVE  <<c, y>> \in order
  <2>1. y \in RunMarks(runs[i]) /\ runs[i].start + at <= y.at
    BY <1>3
  <2>2. y \in Mark
    BY <2>1, <1>7
  <2>3. c.at < y.at
    BY <2>1, <2>2, <1>2, <1>4 DEF Mark
  <2>4. QED
    BY <2>1, <2>3, <1>7
<1>10. c \in DocumentMarks(runs)
  BY <1>1, <1>5 DEF DocumentMarks
<1>11. QED
  BY <1>6, <1>7, <1>8, <1>9, <1>10 DEF MarksLeftOf, MarksRightOf

LEMMA MarksAroundEnd ==
    ASSUME NEW runs \in Seq(Runs), NEW i \in 1 .. Len(runs)
    PROVE  /\ MarksLeftOf(runs, i, RunLen(runs[i])) = MarksUpTo(runs, i + 1)
           /\ MarksRightOf(runs, i, RunLen(runs[i])) = MarksFrom(runs, i + 1)
<1>1. /\ Len(runs) \in Nat /\ runs[i] \in Runs /\ i + 1 \in 1 .. Len(runs) + 1
      /\ i \in 1 .. Len(runs) + 1
  BY LenProperties, ElementOfSeq
<1>2. RunMarks(SubRun(runs[i], 0, RunLen(runs[i]))) = RunMarks(runs[i])
  BY <1>1, WholeSubRun
<1>3. RunMarks(SubRun(runs[i], RunLen(runs[i]), RunLen(runs[i]))) = {}
  <2>1. RunLen(runs[i]) \in Nat /\ RunLen(runs[i]) <= RunLen(runs[i])
        /\ runs[i].start \in Nat
    BY <1>1, RunLength
  <2>2. \A e : e \in RunMarks(SubRun(runs[i], RunLen(runs[i]), RunLen(runs[i])))
          => /\ e \in RunMarks(runs[i])
             /\ runs[i].start + RunLen(runs[i]) <= e.at
             /\ e.at < runs[i].start + RunLen(runs[i])
    BY <1>1, <2>1, MarksOfSubRun
  <2>3. \A e \in RunMarks(runs[i]) : e.at \in Nat
    BY <1>1, RunLength, MarkOfRun DEF Mark
  <2>4. QED
    BY <2>1, <2>2, <2>3
<1>4. ASSUME NEW c
      PROVE  c \in MarksUpTo(runs, i + 1)
               <=> c \in MarksUpTo(runs, i) \/ c \in RunMarks(runs[i])
  <2>1. /\ c \in MarksUpTo(runs, i)
             <=> \E k \in 1 .. i - 1 : c \in RunMarks(runs[k])
        /\ c \in MarksUpTo(runs, i + 1)
             <=> \E k \in 1 .. (i + 1) - 1 : c \in RunMarks(runs[k])
    BY <1>1, MarksAround
  <2>2. \A k : k \in 1 .. (i + 1) - 1 <=> k \in 1 .. i - 1 \/ k = i
    BY <1>1
  <2>3. QED
    BY <2>1, <2>2
<1>5. QED
  BY <1>2, <1>3, <1>4 DEF MarksLeftOf, MarksRightOf

LEMMA MarksApart ==
    ASSUME NEW order, NEW runs, WellFormed(order, runs),
           NEW p \in 1 .. Len(runs) + 1
    PROVE  MarksBefore(order, MarksUpTo(runs, p), MarksFrom(runs, p))
<1>1. /\ runs \in Seq(Runs) /\ Len(runs) \in Nat /\ DOMAIN runs = 1 .. Len(runs)
      /\ RunsAreOrdered(order, runs)
  BY LenProperties DEF WellFormed
<1>2. SUFFICES ASSUME NEW x \in MarksUpTo(runs, p), NEW y \in MarksFrom(runs, p)
               PROVE  <<x, y>> \in order
  BY DEF MarksBefore
<1>3. /\ \E k \in 1 .. p - 1 : x \in RunMarks(runs[k])
      /\ \E k \in p .. Len(runs) : y \in RunMarks(runs[k])
  BY <1>1, MarksAround
<1>4. PICK k \in 1 .. p - 1, j \in p .. Len(runs) :
         x \in RunMarks(runs[k]) /\ y \in RunMarks(runs[j])
  BY <1>3
<1>5. k \in DOMAIN runs /\ j \in DOMAIN runs /\ k < j
  BY <1>1
<1>6. QED
  BY <1>1, <1>4, <1>5 DEF RunsAreOrdered, MarksBefore

LEMMA MarksApartInLeaf ==
    ASSUME NEW order, KeepsRuns(order), NEW runs, WellFormed(order, runs),
           NEW i \in 1 .. Len(runs), NEW at \in 1 .. RunLen(runs[i])
    PROVE  MarksBefore(order, MarksLeftOf(runs, i, at), MarksRightOf(runs, i, at))
<1>1. /\ runs \in Seq(Runs) /\ Len(runs) \in Nat /\ runs[i] \in Runs
      /\ i \in 1 .. Len(runs) + 1 /\ i + 1 \in 1 .. Len(runs) + 1
  BY LenProperties, ElementOfSeq DEF WellFormed
<1>2. RunLen(runs[i]) \in Nat /\ runs[i].start \in Nat
  BY <1>1, RunLength
<1>3. /\ \A e : e \in RunMarks(SubRun(runs[i], 0, at)) <=>
            /\ e \in RunMarks(runs[i])
            /\ runs[i].start + 0 <= e.at /\ e.at < runs[i].start + at
      /\ \A e : e \in RunMarks(SubRun(runs[i], at, RunLen(runs[i]))) <=>
            /\ e \in RunMarks(runs[i])
            /\ runs[i].start + at <= e.at
            /\ e.at < runs[i].start + RunLen(runs[i])
  <2>1. /\ 0 \in Nat /\ at \in Nat /\ at <= RunLen(runs[i]) /\ 0 <= at
        /\ RunLen(runs[i]) <= RunLen(runs[i])
    BY <1>2
  <2>2. QED
    BY <1>1, <1>2, <2>1, MarksOfSubRun
<1>4. SUFFICES ASSUME NEW x \in MarksLeftOf(runs, i, at),
                      NEW y \in MarksRightOf(runs, i, at)
               PROVE  <<x, y>> \in order
  BY DEF MarksBefore
<1>5. CASE x \in MarksUpTo(runs, i) /\ y \in RunMarks(runs[i])
  BY <1>5, MarksInOrder
<1>6. CASE x \in RunMarks(runs[i]) /\ y \in MarksFrom(runs, i + 1)
  BY <1>6, MarksInOrder
<1>7. CASE x \in MarksUpTo(runs, i) /\ y \in MarksFrom(runs, i + 1)
  <2>1. MarksUpTo(runs, i) \subseteq MarksUpTo(runs, i + 1)
    <3>1. /\ \A c : c \in MarksUpTo(runs, i)
                <=> \E k \in 1 .. i - 1 : c \in RunMarks(runs[k])
          /\ \A c : c \in MarksUpTo(runs, i + 1)
                <=> \E k \in 1 .. (i + 1) - 1 : c \in RunMarks(runs[k])
      BY <1>1, MarksAround
    <3>2. \A k \in 1 .. i - 1 : k \in 1 .. (i + 1) - 1
      BY <1>1
    <3>3. QED
      BY <3>1, <3>2
  <2>2. QED
    BY <1>1, <1>7, <2>1, MarksApart DEF MarksBefore
<1>8. CASE /\ x \in RunMarks(SubRun(runs[i], 0, at))
           /\ y \in RunMarks(SubRun(runs[i], at, RunLen(runs[i])))
  <2>1. /\ x \in RunMarks(runs[i]) /\ y \in RunMarks(runs[i])
        /\ x.at < runs[i].start + at /\ runs[i].start + at <= y.at
    BY <1>3, <1>8
  <2>2. /\ x \in Mark /\ y \in Mark
        /\ x.at < y.at => <<x, y>> \in order
    BY <2>1, MarksInOrder
  <2>3. x.at \in Nat /\ y.at \in Nat
    BY <2>2 DEF Mark
  <2>4. QED
    BY <1>2, <2>1, <2>2, <2>3
<1>9. QED
  BY <1>3, <1>5, <1>6, <1>7, <1>8 DEF MarksLeftOf, MarksRightOf

(* A run may be placed between the marks X and the marks Y.                *)
FitsBetween(order, marks, X, Y) ==
    MarksBefore(order, X, marks) /\ MarksBefore(order, marks, Y)

IsGrown(order, runs, marks, new) ==
    /\ WellFormed(order, new)
    /\ DocumentMarks(new) = DocumentMarks(runs) \cup marks

IsPlaced(order, runs, run, new, X, Y) ==
    /\ X \cup Y = DocumentMarks(runs) /\ MarksBefore(order, X, Y)
    /\ FitsBetween(order, RunMarks(run), X, Y)
          => IsGrown(order, runs, RunMarks(run), new)

LEMMA RunPlaced ==
    ASSUME NEW order, NEW runs, WellFormed(order, runs),
           NEW run \in Runs, run.start < run.end,
           NEW p \in 1 .. Len(runs) + 1,
           p = 1 \/ runs[p - 1].start < runs[p - 1].end
    PROVE  /\ IsPlaced(order, runs, run, InsertAt(runs, p, run),
                       MarksUpTo(runs, p), MarksFrom(runs, p))
           /\ IsFull(runs) => IsFull(InsertAt(runs, p, run))
<1> DEFINE A == SubSeq(runs, 1, p - 1)
           B == SubSeq(runs, p, Len(runs))
           P == <<>>
           Q == <<run>>
           N == RunMarks(run)
<1>1. runs \in Seq(Runs) /\ Len(runs) \in Nat /\ OnlyLastIsEmpty(runs)
  BY LenProperties DEF WellFormed
<1>2. /\ 1 \in 1 .. Len(runs) + 1 /\ p - 1 \in 0 .. Len(runs)
      /\ Len(runs) \in 0 .. Len(runs) /\ p - 1 \in 1 - 1 .. Len(runs)
      /\ Len(runs) \in p - 1 .. Len(runs) /\ (p - 1) + 1 = p
  BY <1>1
<1>3. /\ A \in Seq(Runs) /\ B \in Seq(Runs)
      /\ IsFull(A) /\ OnlyLastIsEmpty(B) /\ (IsFull(runs) => IsFull(B))
  BY <1>1, <1>2, MarksOfSubSeq, FullSubSeqs
<1>4. A \o B = runs
  <2>1. SubSeq(runs, 1, p - 1) \o SubSeq(runs, (p - 1) + 1, Len(runs))
          = SubSeq(runs, 1, Len(runs))
    BY <1>1, <1>2, ConcatAdjacentSubSeq
  <2>2. QED
    BY <2>1, <1>1, <1>2, SubSeqFull
<1>5. P \in Seq(Runs) /\ Q \in Seq(Runs) /\ Q # <<>>
      /\ DocumentMarks(P) = {} /\ DocumentMarks(Q) = N /\ RunsAreOrdered(order, Q)
  BY MarksOfNone, MarksOfOne, OrderOfOne
<1>6. IsFull(Q)
  BY DEF IsFull
<1>7. InsertAt(runs, p, run) = A \o Q \o B
  BY DEF InsertAt
<1>8. A \o P = A
  BY <1>3
<1>9. /\ DocumentMarks(A) = MarksUpTo(runs, p)
      /\ DocumentMarks(B) = MarksFrom(runs, p)
  BY DEF MarksUpTo, MarksFrom
<1> HIDE DEF A, B, P, Q, N
<1>10. A \o P \o B = runs
  BY <1>4, <1>8
<1>11. A \o Q \in Seq(Runs) /\ IsFull(A \o Q)
  BY <1>3, <1>5, <1>6, FullConcat, ConcatProperties
<1>12. /\ OnlyLastIsEmpty(A \o Q \o B)
       /\ IsFull(runs) => IsFull(A \o Q \o B)
  BY <1>3, <1>11, FullConcat
<1>13. WellFormed(order, A \o P \o B)
  BY <1>10
<1>14. DocumentMarks(Q) = DocumentMarks(P) \cup N
  BY <1>5
<1>15. ASSUME MarksBefore(order, DocumentMarks(A), N),
              MarksBefore(order, N, DocumentMarks(B))
       PROVE  /\ WellFormed(order, A \o Q \o B)
              /\ DocumentMarks(A \o Q \o B) = DocumentMarks(runs) \cup N
  <2>1. AreReplaced(order, A, P, B, Q, N)
    <3>1. A \in Seq(Runs) /\ B \in Seq(Runs)
      BY <1>3
    <3>2. P \in Seq(Runs) /\ Q \in Seq(Runs) /\ Q # <<>> /\ RunsAreOrdered(order, Q)
      BY <1>5
    <3>3. OnlyLastIsEmpty(A \o Q \o B)
      BY <1>12
    <3>4. QED
      BY <3>1, <3>2, <3>3, <1>13, <1>14, <1>15, Zenon DEF AreReplaced
  <2>2. /\ WellFormed(order, A \o Q \o B)
        /\ DocumentMarks(A \o Q \o B) = DocumentMarks(A \o P \o B) \cup N
    BY <2>1, LeavesReplaced
  <2>3. QED
    BY <2>2, <1>10
<1>16. MarksUpTo(runs, p) \cup MarksFrom(runs, p) = DocumentMarks(runs)
  BY <1>1, MarksAround
<1>17. FitsBetween(order, RunMarks(run), MarksUpTo(runs, p), MarksFrom(runs, p))
         => IsGrown(order, runs, RunMarks(run), A \o Q \o B)
  <2>1. FitsBetween(order, N, MarksUpTo(runs, p), MarksFrom(runs, p))
          => IsGrown(order, runs, N, A \o Q \o B)
    BY <1>9, <1>15 DEF FitsBetween, IsGrown
  <2>2. QED
    BY <2>1 DEF N
<1>18. IsPlaced(order, runs, run, A \o Q \o B, MarksUpTo(runs, p),
                MarksFrom(runs, p))
  BY <1>16, <1>17, MarksApart, Zenon DEF IsPlaced
<1>19. QED
  BY <1>7, <1>12, <1>18

(* A run placed inside of a leaf, or right after it.                       *)
LEMMA LeafSplitAround ==
    ASSUME NEW order, KeepsRuns(order), NEW runs, WellFormed(order, runs),
           NEW run \in Runs, run.start < run.end,
           NEW i \in 1 .. Len(runs), NEW at \in 1 .. RunLen(runs[i])
    PROVE  IsPlaced(order, runs, run,
                    Splice(runs, i, InsertAt(SplitRun(runs[i], at), 2, run)),
                    MarksLeftOf(runs, i, at), MarksRightOf(runs, i, at))
<1> DEFINE pieces == SplitRun(runs[i], at)
           Q == InsertAt(pieces, 2, run)
           N == RunMarks(run)
           X == MarksLeftOf(runs, i, at)
           Y == MarksRightOf(runs, i, at)
           left == RunMarks(SubRun(runs[i], 0, at))
           right == RunMarks(SubRun(runs[i], at, RunLen(runs[i])))
<1>1. /\ runs \in Seq(Runs) /\ Len(runs) \in Nat /\ DOMAIN runs = 1 .. Len(runs)
      /\ runs[i] \in Runs /\ RunLen(runs[i]) \in Nat
      /\ i \in 1 .. Len(runs) + 1 /\ i + 1 \in 1 .. Len(runs) + 1
      /\ OnlyLastIsEmpty(runs)
  BY LenProperties, ElementOfSeq, RunLength DEF WellFormed
<1>2. /\ pieces \in Seq(Runs) /\ pieces # <<>> /\ RunsAreOrdered(order, pieces)
      /\ DocumentMarks(pieces) = RunMarks(runs[i]) /\ IsFull(pieces)
  BY <1>1, SplitRunCuts
<1>3. /\ Len(pieces) \in {1, 2}
      /\ RunMarks(pieces[1]) = left
      /\ Len(pieces) = 2 => RunMarks(pieces[2]) = right
  <2>1. Part(runs[i], 0, at) = <<SubRun(runs[i], 0, at)>>
    BY DEF Part
  <2>2. CASE at < RunLen(runs[i])
    <3>1. pieces = <<SubRun(runs[i], 0, at)>>
                     \o <<SubRun(runs[i], at, RunLen(runs[i]))>>
      BY <2>1, <2>2 DEF SplitRun, Part
    <3>2. QED
      BY <3>1
  <2>3. CASE ~(at < RunLen(runs[i]))
    <3>1. pieces = <<SubRun(runs[i], 0, at)>> \o <<>>
      BY <2>1, <2>3 DEF SplitRun, Part
    <3>2. QED
      BY <3>1
  <2>4. QED
    BY <2>2, <2>3
<1> HIDE DEF pieces, left, right
<1>4. WellFormed(order, pieces)
  <2>1. OnlyLastIsEmpty(pieces)
    BY <1>2, <1>3 DEF IsFull, OnlyLastIsEmpty
  <2>2. QED
    BY <1>2, <2>1 DEF WellFormed
<1>5. /\ IsPlaced(order, pieces, run, Q,
                  MarksUpTo(pieces, 2), MarksFrom(pieces, 2))
      /\ IsFull(Q)
  <2>1. 2 \in 1 .. Len(pieces) + 1 /\ pieces[2 - 1].start < pieces[2 - 1].end
    BY <1>2, <1>3 DEF IsFull
  <2>2. QED
    BY <1>2, <1>4, <2>1, RunPlaced
<1>6. MarksUpTo(pieces, 2) \subseteq left /\ MarksFrom(pieces, 2) \subseteq right
  <2>1. 2 \in 1 .. Len(pieces) + 1
    BY <1>3
  <2>2. /\ \A c : c \in MarksUpTo(pieces, 2)
              <=> \E k \in 1 .. 2 - 1 : c \in RunMarks(pieces[k])
        /\ \A c : c \in MarksFrom(pieces, 2)
              <=> \E k \in 2 .. Len(pieces) : c \in RunMarks(pieces[k])
    BY <1>2, <2>1, MarksAround
  <2>3. /\ \A k \in 1 .. 2 - 1 : k = 1
        /\ \A k \in 2 .. Len(pieces) : k = 2 /\ Len(pieces) = 2
    BY <1>3
  <2>4. QED
    BY <1>3, <2>2, <2>3
<1>7. X \cup Y = DocumentMarks(runs)
  <2>1. left \cup right = RunMarks(runs[i])
    <3>1. 0 \in Nat /\ at \in Nat /\ 0 <= at /\ at <= RunLen(runs[i])
          /\ RunLen(runs[i]) <= RunLen(runs[i])
      BY <1>1
    <3>2. RunMarks(SubRun(runs[i], 0, RunLen(runs[i]))) = left \cup right
      BY <1>1, <3>1, SubRunsOfSubRun DEF left, right
    <3>3. QED
      BY <1>1, <3>2, WholeSubRun
  <2>2. ASSUME NEW c
        PROVE  c \in DocumentMarks(runs)
                 <=> \/ c \in MarksUpTo(runs, i) \/ c \in RunMarks(runs[i])
                     \/ c \in MarksFrom(runs, i + 1)
    <3>1. /\ c \in MarksUpTo(runs, i)
                <=> \E k \in 1 .. i - 1 : c \in RunMarks(runs[k])
          /\ c \in MarksFrom(runs, i + 1)
                <=> \E k \in i + 1 .. Len(runs) : c \in RunMarks(runs[k])
      BY <1>1, MarksAround
    <3>2. c \in DocumentMarks(runs)
            <=> \E k \in 1 .. Len(runs) : c \in RunMarks(runs[k])
      BY <1>1 DEF DocumentMarks
    <3>3. \A k : k \in 1 .. Len(runs)
                   <=> k \in 1 .. i - 1 \/ k = i \/ k \in i + 1 .. Len(runs)
      BY <1>1
    <3>4. QED
      BY <3>1, <3>2, <3>3
  <2>3. X = MarksUpTo(runs, i) \cup left /\ Y = right \cup MarksFrom(runs, i + 1)
    BY DEF MarksLeftOf, MarksRightOf, left, right
  <2> HIDE DEF X, Y
  <2>4. QED
    BY <2>1, <2>2, <2>3
<1>8. FitsBetween(order, N, X, Y) => IsGrown(order, runs, N, Splice(runs, i, Q))
  <2> SUFFICES ASSUME MarksBefore(order, X, N), MarksBefore(order, N, Y)
               PROVE  /\ WellFormed(order, Splice(runs, i, Q))
                      /\ DocumentMarks(Splice(runs, i, Q)) = DocumentMarks(runs) \cup N
    BY DEF FitsBetween, IsGrown
  <2>1. /\ MarksBefore(order, MarksUpTo(runs, i), N) /\ MarksBefore(order, left, N)
        /\ MarksBefore(order, N, MarksFrom(runs, i + 1))
        /\ MarksBefore(order, N, right)
    BY DEF MarksBefore, MarksLeftOf, MarksRightOf, left, right
  <2> HIDE DEF X, Y, Q, N
  <2>2. WellFormed(order, Q) /\ DocumentMarks(Q) = DocumentMarks(pieces) \cup N
    BY <1>5, <1>6, <2>1 DEF IsPlaced, FitsBetween, IsGrown, MarksBefore, N
  <2>3. Q \in Seq(Runs) /\ Q # <<>> /\ RunsAreOrdered(order, Q)
        /\ DocumentMarks(Q) = RunMarks(runs[i]) \cup N
    BY <1>2, <2>2 DEF WellFormed
  <2>4. /\ MarksBefore(order, DocumentMarks(SubSeq(runs, 1, i - 1)), N)
        /\ MarksBefore(order, N, DocumentMarks(SubSeq(runs, i + 1, Len(runs))))
    BY <2>1 DEF MarksUpTo, MarksFrom
  <2>5. OnlyLastIsEmpty(Splice(runs, i, Q))
    BY <1>1, <1>5, <2>3, FullSplice
  <2>6. QED
    BY <1>1, <2>3, <2>4, <2>5, LeafSpliced
<1>9. QED
  BY <1>7, <1>8, MarksApartInLeaf, Zenon DEF IsPlaced, pieces

(* A leaf extended by the text that continues it.                          *)
LEMMA LeafExtended ==
    ASSUME NEW order, NEW runs, WellFormed(order, runs), NEW run \in Runs,
           NEW i \in 1 .. Len(runs),
           runs[i].start < runs[i].end, run.start < run.end,
           runs[i].end = run.start, runs[i].id = run.id,
           runs[i].ts = run.ts, runs[i].lam = run.lam
    PROVE  IsPlaced(order, runs, run, [runs EXCEPT ![i].end = run.end],
                    MarksUpTo(runs, i + 1), MarksFrom(runs, i + 1))
<1> DEFINE x == runs[i]
           e == [x EXCEPT !.end = run.end]
           Q == <<e>>
           N == RunMarks(run)
<1>1. /\ runs \in Seq(Runs) /\ Len(runs) \in Nat /\ DOMAIN runs = 1 .. Len(runs)
      /\ x \in Runs /\ OnlyLastIsEmpty(runs)
      /\ i \in 1 .. Len(runs) + 1 /\ i + 1 \in 1 .. Len(runs) + 1
  BY LenProperties, ElementOfSeq DEF WellFormed
<1>2. /\ x \in RunType /\ run \in RunType
      /\ x.start \in Nat /\ x.end \in Nat /\ run.start \in Nat
      /\ run.end \in Nat
  BY <1>1 DEF Runs, RunType
<1>3. /\ e \in Runs /\ e.id = x.id /\ e.ts = x.ts /\ e.lam = x.lam
      /\ e.start = x.start /\ e.end = run.end /\ e.start < e.end
  <2>1. x.start < run.end
    BY <1>2
  <2>2. QED
    BY <2>1, <1>2 DEF Runs, RunType
<1>4. [runs EXCEPT ![i].end = run.end] = [runs EXCEPT ![i] = e]
  OBVIOUS
<1> HIDE DEF e
<1>5. [runs EXCEPT ![i] = e] = Splice(runs, i, Q)
  <2>1. runs \in Seq(Runs) /\ e \in Runs
    BY <1>1, <1>3
  <2>2. QED
    BY <2>1, ExceptIsSplice
<1>6. RunMarks(e) = RunMarks(x) \cup N
  <2>1. /\ \A c : c \in RunMarks(e) <=> c \in Mark /\ Covers(e, c)
        /\ \A c : c \in RunMarks(x) <=> c \in Mark /\ Covers(x, c)
        /\ \A c : c \in N <=> c \in Mark /\ Covers(run, c)
    BY <1>2, <1>3, MarkOfRun DEF Runs
  <2> HIDE DEF x, N
  <2>2. ASSUME NEW c \in Mark
        PROVE  Covers(e, c) <=> Covers(x, c) \/ Covers(run, c)
    <3>1. c.at \in Nat
      BY DEF Mark
    <3>2. x.start < x.end /\ x.end = run.start /\ x.id = run.id
          /\ x.ts = run.ts /\ x.lam = run.lam
      BY DEF x
    <3>3. QED
      BY <3>1, <3>2, <1>2, <1>3 DEF Covers
  <2>3. QED
    BY <2>1, <2>2
<1>7. Q \in Seq(Runs) /\ Q # <<>> /\ DocumentMarks(Q) = RunMarks(x) \cup N
      /\ RunsAreOrdered(order, Q) /\ IsFull(Q)
  BY <1>3, <1>6, MarksOfOne, OrderOfOne DEF IsFull
<1>8. MarksUpTo(runs, i) \subseteq MarksUpTo(runs, i + 1)
  <2>1. /\ \A c : c \in MarksUpTo(runs, i)
              <=> \E k \in 1 .. i - 1 : c \in RunMarks(runs[k])
        /\ \A c : c \in MarksUpTo(runs, i + 1)
              <=> \E k \in 1 .. (i + 1) - 1 : c \in RunMarks(runs[k])
    BY <1>1, MarksAround
  <2>2. \A k \in 1 .. i - 1 : k \in 1 .. (i + 1) - 1
    BY <1>1
  <2>3. QED
    BY <2>1, <2>2
<1>9. MarksUpTo(runs, i + 1) \cup MarksFrom(runs, i + 1) = DocumentMarks(runs)
  BY <1>1, MarksAround
<1> HIDE DEF N, Q
<1>10. FitsBetween(order, N, MarksUpTo(runs, i + 1), MarksFrom(runs, i + 1))
         => IsGrown(order, runs, N, Splice(runs, i, Q))
  <2> SUFFICES ASSUME MarksBefore(order, MarksUpTo(runs, i + 1), N),
                      MarksBefore(order, N, MarksFrom(runs, i + 1))
               PROVE  /\ WellFormed(order, Splice(runs, i, Q))
                      /\ DocumentMarks(Splice(runs, i, Q)) = DocumentMarks(runs) \cup N
    BY DEF FitsBetween, IsGrown
  <2>1. DocumentMarks(Q) = RunMarks(runs[i]) \cup N
    BY <1>7
  <2>2. /\ MarksBefore(order, DocumentMarks(SubSeq(runs, 1, i - 1)), N)
        /\ MarksBefore(order, N, DocumentMarks(SubSeq(runs, i + 1, Len(runs))))
    BY <1>8 DEF MarksBefore, MarksUpTo, MarksFrom
  <2>3. OnlyLastIsEmpty(Splice(runs, i, Q))
    BY <1>1, <1>7, FullSplice
  <2> HIDE DEF x
  <2>4. Q \in Seq(Runs) /\ Q # <<>> /\ RunsAreOrdered(order, Q)
    BY <1>7
  <2>5. QED
    BY <2>1, <2>2, <2>3, <2>4, LeafSpliced
<1> HIDE DEF x
<1>11. [runs EXCEPT ![i].end = run.end] = Splice(runs, i, Q)
  BY <1>4, <1>5, Zenon
<1>12. MarksBefore(order, MarksUpTo(runs, i + 1), MarksFrom(runs, i + 1))
  BY <1>1, MarksApart
<1>13. QED
  BY <1>9, <1>10, <1>11, <1>12, Zenon DEF N, IsPlaced

------------------------------------------------------------------------------
(* Insertions.  A local one is anchored to the character before it, and it *)
(* starts a run unless that character ends its inserter's latest run.      *)
InsertedRun(result, text, run_c, lam_c) ==
    EditRunRecord(text.id, text.start, text.end,
                  IF result.new THEN run_c ELSE run_c - 1,
                  IF result.new THEN lam_c ELSE lam_c - 1)

IsAfterMark(anchor, c) ==
    anchor = [id |-> c.id, offset |-> c.at + 1, ts |-> c.ts]

(* Right after the mark c, between the marks X and the marks Y.            *)
IsRightAfter(order, c, X, Y) ==
    /\ c \in X
    /\ \A x \in X : x = c \/ <<x, c>> \in order
    /\ \A y \in Y : <<c, y>> \in order

(* The text comes after all text of its inserter in the document, which    *)
(* is of runs started before, the last of them if it ends at the text.     *)
ComesNext(runs, text, run_c) ==
    \A c \in DocumentMarks(runs) :
        c.id = text.id =>
            /\ c.at < text.start /\ c.ts < run_c
            /\ c.at + 1 = text.start => c.ts = run_c - 1

ContinuesMark(text, run_c, lam_c, c) ==
    /\ c.id = text.id /\ c.at + 1 = text.start
    /\ c.ts = run_c - 1 /\ c.lam = lam_c - 1

LEMMA NewRun ==
    ASSUME NEW id \in ReplicaIds, NEW start \in Nat, NEW end \in Nat,
           start < end, NEW ts \in Nat, NEW lam \in Nat
    PROVE  LET run == EditRunRecord(id, start, end, ts, lam)
           IN  /\ run \in Runs /\ run.id = id /\ run.start = start
               /\ run.end = end /\ run.ts = ts /\ run.lam = lam /\ ~run.del
BY DEF EditRunRecord, Runs, RunType

LEMMA InsertPlaces ==
    ASSUME NEW order, KeepsRuns(order),
           NEW runs, WellFormed(order, runs),
           NEW offset \in Nat, offset <= DocumentLen(runs),
           NEW text, text.id \in ReplicaIds, text.start \in Nat,
           text.end \in Nat, text.start < text.end,
           NEW run_c \in Nat, NEW lam_c \in Nat,
           ComesNext(runs, text, run_c),
           NEW result, result = Insert(runs, offset, text, run_c, lam_c),
           NEW run, run = InsertedRun(result, text, run_c, lam_c)
    PROVE  /\ result.new \in BOOLEAN
           /\ run \in Runs
           /\ \E X, Y :
                /\ IsPlaced(order, runs, run, result.runs, X, Y)
                /\ \/ result.anchor = ZeroAnchor /\ result.new /\ X = {}
                   \/ \E c \in DocumentMarks(runs) :
                        /\ IsAfterMark(result.anchor, c)
                        /\ IsRightAfter(order, c, X, Y)
                        /\ ~result.new => ContinuesMark(text, run_c, lam_c, c)
<1> DEFINE i == LeafAtOffset(runs, offset)
           at == offset - OffsetOfLeaf(runs, i)
           new == EditRunRecord(text.id, text.start, text.end, run_c, lam_c)
<1>0. ASSUME NEW ts \in Nat, NEW lam \in Nat, NEW x,
             x = EditRunRecord(text.id, text.start, text.end, ts, lam)
      PROVE  /\ x \in Runs /\ x.id = text.id /\ x.start = text.start
             /\ x.end = text.end /\ x.ts = ts /\ x.lam = lam
  BY <1>0 DEF EditRunRecord, Runs, RunType
<1>1. /\ runs \in Seq(Runs) /\ Len(runs) \in Nat /\ DOMAIN runs = 1 .. Len(runs)
      /\ runs # <<>> /\ RunsAreOrdered(order, runs)
  BY LenProperties DEF WellFormed
<1>2. /\ new \in Runs /\ new.id = text.id /\ new.start = text.start
      /\ new.end = text.end /\ new.ts = run_c /\ new.lam = lam_c
      /\ new.start < new.end
  BY <1>0
<1>3. CASE offset = 0
  <2>1. result = [runs |-> <<new>> \o runs, anchor |-> ZeroAnchor, new |-> TRUE]
    BY <1>3 DEF Insert
  <2>2. InsertAt(runs, 1, new) = <<new>> \o runs
    <3>1. SubSeq(runs, 1, 1 - 1) = <<>> /\ SubSeq(runs, 1, Len(runs)) = runs
      BY <1>1, SubSeqEmpty, SubSeqFull
    <3> HIDE DEF new
    <3>2. <<new>> \in Seq(Runs)
      BY <1>2
    <3>3. InsertAt(runs, 1, new) = <<>> \o <<new>> \o runs
      BY <3>1 DEF InsertAt
    <3>4. <<>> \o <<new>> = <<new>>
      BY <3>2
    <3>5. QED
      BY <3>3, <3>4
  <2>3. run = new
    BY <2>1 DEF InsertedRun
  <2> HIDE DEF new
  <2>4. /\ result.new = TRUE /\ result.anchor = ZeroAnchor
        /\ result.runs = InsertAt(runs, 1, new)
    BY <2>1, <2>2
  <2>5. 1 \in 1 .. Len(runs) + 1
    BY <1>1
  <2>6. IsPlaced(order, runs, run, result.runs, MarksUpTo(runs, 1), MarksFrom(runs, 1))
    BY <1>2, <2>3, <2>4, <2>5, RunPlaced
  <2>7. MarksUpTo(runs, 1) = {}
    BY <1>1, <2>5, MarksAround
  <2>8. QED
    BY <1>2, <2>3, <2>4, <2>6, <2>7
<1>4. ASSUME offset # 0
      PROVE  /\ i \in 1 .. Len(runs) /\ runs[i] \in Runs
             /\ at \in 1 .. RunLen(runs[i])
             /\ runs[i].start \in Nat /\ RunLen(runs[i]) \in Nat
             /\ runs[i].end = runs[i].start + RunLen(runs[i])
             /\ \E c \in DocumentMarks(runs) :
                  /\ IsAfterMark(AnchorAt(runs[i], at), c)
                  /\ IsRightAfter(order, c, MarksLeftOf(runs, i, at),
                                  MarksRightOf(runs, i, at))
                  /\ c.id = runs[i].id /\ c.ts = runs[i].ts
                  /\ c.lam = runs[i].lam /\ c.at + 1 = runs[i].start + at
  <2>1. /\ i \in 1 .. Len(runs) /\ OffsetOfLeaf(runs, i) \in Nat
        /\ OffsetOfLeaf(runs, i) < offset
        /\ offset <= OffsetOfLeaf(runs, i) + VisibleLen(runs[i])
    BY <1>1, <1>4, LeafAtOffsetExists
  <2> HIDE DEF i
  <2>2. runs[i] \in Runs
    BY <1>1, <2>1, ElementOfSeq
  <2>3. runs[i].start \in Nat /\ RunLen(runs[i]) \in Nat
        /\ runs[i].end = runs[i].start + RunLen(runs[i])
        /\ VisibleLen(runs[i]) \in Nat
    BY <2>2, RunLength DEF VisibleLen
  <2>4. at \in Nat /\ 0 < at /\ at <= VisibleLen(runs[i])
        /\ at - 1 \in Nat /\ at - 1 < VisibleLen(runs[i])
    <3>1. \A o, v \in Nat : o < offset /\ offset <= o + v
             => /\ offset - o \in Nat /\ 0 < offset - o /\ offset - o <= v
                /\ offset - o - 1 \in Nat /\ offset - o - 1 < v
      OBVIOUS
    <3>2. QED
      BY <3>1, <2>1, <2>3
  <2> DEFINE c == [id |-> runs[i].id, at |-> runs[i].start + (at - 1),
                   ts |-> runs[i].ts, lam |-> runs[i].lam]
  <2> HIDE DEF at
  <2>5. VisibleLen(runs[i]) = RunLen(runs[i])
    BY <1>1, <2>1, <2>4, LeafOfVisible
  <2>6. at \in 1 .. RunLen(runs[i])
    BY <2>3, <2>4, <2>5
  <2>7. runs[i].start + (at - 1) + 1 = runs[i].start + at
    BY <2>3, <2>4
  <2>8. /\ IsAfterMark(AnchorAt(runs[i], at), c)
        /\ c.id = runs[i].id /\ c.ts = runs[i].ts
        /\ c.lam = runs[i].lam /\ c.at + 1 = runs[i].start + at
    BY <2>7 DEF IsAfterMark, AnchorAt
  <2>9. IsMarkBefore(runs[i], at, c)
    BY DEF IsMarkBefore
  <2> HIDE DEF c
  <2>10. /\ c \in DocumentMarks(runs)
         /\ IsRightAfter(order, c, MarksLeftOf(runs, i, at),
                         MarksRightOf(runs, i, at))
    BY <2>1, <2>6, <2>9, MarksAroundOffset DEF IsRightAfter
  <2>11. QED
    BY <2>1, <2>2, <2>3, <2>6, <2>8, <2>10 DEF at
<1>5. CASE offset # 0 /\ ContinuesRun(runs[i], at, text, lam_c)
  <2>1. result = [runs |-> [runs EXCEPT ![i].end = text.end],
                  anchor |-> AnchorAt(runs[i], at), new |-> FALSE]
    BY <1>5 DEF Insert
  <2>2. /\ RunLen(runs[i]) = at /\ runs[i].end = text.start
        /\ runs[i].id = text.id /\ runs[i].lam = lam_c - 1
    BY <1>5 DEF ContinuesRun
  <2>3. PICK c \in DocumentMarks(runs) :
           /\ IsAfterMark(AnchorAt(runs[i], at), c)
           /\ IsRightAfter(order, c, MarksLeftOf(runs, i, at),
                           MarksRightOf(runs, i, at))
           /\ c.id = runs[i].id /\ c.ts = runs[i].ts
           /\ c.lam = runs[i].lam /\ c.at + 1 = runs[i].start + at
    BY <1>4, <1>5
  <2>4. c.id = text.id /\ c.at + 1 = text.start
    BY <2>2, <2>3, <1>4, <1>5
  <2>5. c.ts = run_c - 1 /\ c.ts < run_c
    BY <2>4 DEF ComesNext
  <2>6. c.ts \in Nat /\ c.lam \in Nat
    <3>1. runs[i].ts \in Nat /\ runs[i].lam \in Nat
      BY <1>4, <1>5 DEF Runs, RunType
    <3>2. QED
      BY <3>1, <2>3
  <2>7. run_c - 1 \in Nat /\ lam_c - 1 \in Nat
    <3>1. c.lam = lam_c - 1
      BY <2>2, <2>3
    <3>2. QED
      BY <3>1, <2>5, <2>6
  <2>8. run = EditRunRecord(text.id, text.start, text.end, run_c - 1, lam_c - 1)
    BY <2>1 DEF InsertedRun
  <2>9. /\ run \in Runs /\ run.id = text.id /\ run.start = text.start
        /\ run.end = text.end /\ run.ts = run_c - 1 /\ run.lam = lam_c - 1
    BY <2>7, <2>8, <1>0, SMTT(30)
  <2>10. runs[i].start < runs[i].end
    BY <1>4, <1>5, <2>2
  <2>11. runs[i].ts = run.ts
    BY <2>3, <2>5, <2>9
  <2>12. /\ i \in 1 .. Len(runs) /\ MarksLeftOf(runs, i, at) = MarksUpTo(runs, i + 1)
         /\ MarksRightOf(runs, i, at) = MarksFrom(runs, i + 1)
    <3>1. i \in 1 .. Len(runs)
      BY <1>4, <1>5
    <3> HIDE DEF i
    <3>2. QED
      BY <1>1, <3>1, <2>2, MarksAroundEnd
  <2> HIDE DEF i, at
  <2>13. IsPlaced(order, runs, run, [runs EXCEPT ![i].end = run.end],
                  MarksUpTo(runs, i + 1), MarksFrom(runs, i + 1))
    <3>1. /\ runs[i].end = run.start /\ runs[i].id = run.id
          /\ runs[i].lam = run.lam /\ run.start < run.end
      BY <2>2, <2>9
    <3>2. QED
      BY <3>1, <2>9, <2>10, <2>11, <2>12, LeafExtended
  <2>14. IsAfterMark(result.anchor, c) /\ ContinuesMark(text, run_c, lam_c, c)
    <3>1. result.anchor = AnchorAt(runs[i], at)
      BY <2>1
    <3>2. IsAfterMark(result.anchor, c)
      BY <2>3, <3>1
    <3>3. c.lam = lam_c - 1 /\ c.id = text.id /\ c.at + 1 = text.start
      BY <2>2, <2>3, <2>4
    <3>4. QED
      BY <3>2, <3>3, <2>5 DEF ContinuesMark
  <2>15. result.runs = [runs EXCEPT ![i].end = run.end] /\ result.new = FALSE
    <3>1. \A x, y : LET record == [runs |-> x, anchor |-> y, new |-> FALSE]
                    IN  record.runs = x /\ record.new = FALSE
      OBVIOUS
    <3>2. result.runs = [runs EXCEPT ![i].end = text.end] /\ result.new = FALSE
      BY <2>1, <3>1, ZenonT(40)
    <3>3. run.end = text.end
      BY <2>9
    <3>4. QED
      BY <3>2, <3>3, Zenon
  <2>16. IsPlaced(order, runs, run, result.runs, MarksUpTo(runs, i + 1),
                  MarksFrom(runs, i + 1))
    BY <2>13, <2>15
  <2>17. IsRightAfter(order, c, MarksUpTo(runs, i + 1), MarksFrom(runs, i + 1))
    BY <2>3, <2>12
  <2>18. QED
    BY <2>9, <2>14, <2>15, <2>16, <2>17
<1>6. CASE offset # 0 /\ ~ContinuesRun(runs[i], at, text, lam_c)
  <2>1. result = [runs |-> Splice(runs, i,
                                  InsertAt(SplitRun(runs[i], at), 2, new)),
                  anchor |-> AnchorAt(runs[i], at), new |-> TRUE]
    BY <1>6 DEF Insert
  <2>2. run = new
    BY <2>1 DEF InsertedRun
  <2> HIDE DEF new, i, at
  <2>3. IsPlaced(order, runs, run, result.runs, MarksLeftOf(runs, i, at),
                 MarksRightOf(runs, i, at))
    <3>1. i \in 1 .. Len(runs) /\ at \in 1 .. RunLen(runs[i])
      BY <1>4, <1>6
    <3>2. IsPlaced(order, runs, new,
                   Splice(runs, i, InsertAt(SplitRun(runs[i], at), 2, new)),
                   MarksLeftOf(runs, i, at), MarksRightOf(runs, i, at))
      BY <3>1, <1>2, LeafSplitAround
    <3>3. QED
      BY <3>2, <2>1, <2>2
  <2>4. result.new = TRUE /\ result.anchor = AnchorAt(runs[i], at)
    BY <2>1
  <2>5. PICK c \in DocumentMarks(runs) :
           /\ IsAfterMark(AnchorAt(runs[i], at), c)
           /\ IsRightAfter(order, c, MarksLeftOf(runs, i, at),
                           MarksRightOf(runs, i, at))
    BY <1>4, <1>6
  <2>6. IsAfterMark(result.anchor, c)
    BY <2>4, <2>5
  <2>7. QED
    BY <1>2, <2>2, <2>3, <2>4, <2>5, <2>6
<1>7. QED
  BY <1>3, <1>5, <1>6

(* A remote one goes where its anchor is.                                  *)
AnchoredAt(anchor, bias, c) ==
    /\ c.id = anchor.id /\ c.ts = anchor.ts
    /\ IF bias = "left" THEN c.at + 1 = anchor.offset ELSE c.at = anchor.offset

LEMMA PositionFromExists ==
    ASSUME NEW runs, Len(runs) \in Nat, NEW run,
           NEW i \in 1 .. Len(runs) + 1
    PROVE  LET p == PositionFrom(runs, run, i)
           IN  /\ p \in i .. Len(runs) + 1
               /\ \A k \in i .. p - 1 : SortsAfter(run, runs[k])
               /\ p <= Len(runs) => ~SortsAfter(run, runs[p])
<1> DEFINE Stops(p) == p <= Len(runs) => ~SortsAfter(run, runs[p])
           S == {p \in i .. Len(runs) + 1 : Stops(p)}
<1>1. S \subseteq Nat /\ Len(runs) + 1 \in S
  OBVIOUS
<1>2. PICK p \in S : \A k \in S : p <= k
  <2> HIDE DEF S
  <2>1. QED
    BY <1>1, LeastNumber
<1>3. p \in i .. Len(runs) + 1 /\ Stops(p)
  OBVIOUS
<1>4. ASSUME NEW k \in i .. p - 1 PROVE SortsAfter(run, runs[k])
  <2>1. k \in i .. Len(runs) + 1 /\ ~(p <= k) /\ k <= Len(runs)
    BY <1>3
  <2>2. k \notin S
    BY <1>2, <2>1
  <2>3. QED
    BY <2>1, <2>2
<1>5. \E q \in i .. Len(runs) + 1 :
         /\ \A k \in i .. q - 1 : SortsAfter(run, runs[k])
         /\ q <= Len(runs) => ~SortsAfter(run, runs[q])
  BY <1>3, <1>4
<1>6. QED
  BY <1>5 DEF PositionFrom

(* Between X and Y, runs that sort before it or are anchored before it     *)
(* come first, and it comes before one that it does not sort after.        *)
IsInPlace(order, run, anchor, X, Y) ==
    /\ \A y \in Y : \E z \in Y :
          ~SortsAfter(run, z) /\ (y = z \/ <<z, y>> \in order)
    /\ anchor = ZeroAnchor => \A x \in X : ~SortsAfter(x, run)
    /\ anchor # ZeroAnchor =>
          \E c \in X :
             /\ AnchoredAt(anchor, "left", c)
             /\ \A y \in Y : <<c, y>> \in order
             /\ \A x \in X : x = c \/ <<x, c>> \in order \/ ~SortsAfter(x, run)

(* Where a run is placed by skipping the leaves it sorts after.            *)
LEMMA SkippedLeaves ==
    ASSUME NEW order, KeepsRuns(order), NEW runs, WellFormed(order, runs),
           NEW run \in Runs, InitialLen = 0 => run.lam > 0,
           NEW p \in 1 .. Len(runs) + 1, NEW i \in 1 .. p,
           p <= Len(runs) => ~SortsAfter(run, runs[p]),
           \A k \in i .. p - 1 : ~SortsAfter(runs[k], run)
    PROVE  /\ \A y \in MarksFrom(runs, p) : \E z \in MarksFrom(runs, p) :
                ~SortsAfter(run, z) /\ (y = z \/ <<z, y>> \in order)
           /\ \A x \in MarksUpTo(runs, p) :
                x \in MarksUpTo(runs, i) \/ ~SortsAfter(x, run)
           /\ \A k \in i .. p - 1 : runs[k].start < runs[k].end
<1>1. /\ runs \in Seq(Runs) /\ Len(runs) \in Nat
      /\ \A k \in 1 .. Len(runs) : runs[k] \in Runs
      /\ i \in 1 .. Len(runs) + 1
  BY LenProperties, ElementOfSeq DEF WellFormed
<1>2. ASSUME NEW y \in MarksFrom(runs, p)
      PROVE  \E z \in MarksFrom(runs, p) :
                ~SortsAfter(run, z) /\ (y = z \/ <<z, y>> \in order)
  <2>1. p <= Len(runs)
    BY FirstOfMarksFrom
  <2>2. PICK z \in MarksFrom(runs, p) :
           /\ z.id = runs[p].id /\ z.lam = runs[p].lam
           /\ y = z \/ <<z, y>> \in order
    BY FirstOfMarksFrom
  <2>3. QED
    BY <2>1, <2>2 DEF SortsAfter
<1>3. ASSUME NEW x \in MarksUpTo(runs, p)
      PROVE  x \in MarksUpTo(runs, i) \/ ~SortsAfter(x, run)
  <2>1. PICK k \in 1 .. p - 1 : x \in RunMarks(runs[k])
    BY <1>1, MarksAround
  <2>2. CASE k <= i - 1
    <3>1. k \in 1 .. i - 1
      BY <2>2
    <3>2. QED
      BY <3>1, <2>1, <1>1, MarksAround
  <2>3. CASE ~(k <= i - 1)
    <3>1. k \in i .. p - 1
      BY <2>3
    <3>2. x.id = runs[k].id /\ x.lam = runs[k].lam
      BY <2>1 DEF RunMarks
    <3>3. QED
      BY <3>1, <3>2 DEF SortsAfter
  <2>4. QED
    BY <2>2, <2>3
<1>4. ASSUME NEW k \in i .. p - 1 PROVE runs[k].start < runs[k].end
  <2>1. runs[k] \in Runs
    BY <1>1
  <2>2. run.lam \in Nat /\ runs[k].lam \in Nat
    BY <2>1 DEF Runs, RunType
  <2>3. SUFFICES ASSUME IsInitialAndEmpty(runs[k]) PROVE FALSE
    BY <2>1 DEF Runs
  <2>4. runs[k].lam = 0 /\ run.lam > 0
    BY <2>3 DEF IsInitialAndEmpty
  <2>5. QED
    BY <2>2, <2>4 DEF SortsAfter
<1>5. QED
  BY <1>2, <1>3, <1>4

LEMMA MoreMarks ==
    ASSUME NEW runs \in Seq(Runs), NEW p \in 1 .. Len(runs) + 1, NEW i \in 1 .. p
    PROVE  /\ MarksUpTo(runs, i) \subseteq MarksUpTo(runs, p)
           /\ MarksFrom(runs, p) \subseteq MarksFrom(runs, i)
<1>1. Len(runs) \in Nat /\ i \in 1 .. Len(runs) + 1
  BY LenProperties
<1>2. /\ \A k \in 1 .. i - 1 : k \in 1 .. p - 1
      /\ \A k \in p .. Len(runs) : k \in i .. Len(runs)
  BY <1>1
<1>3. /\ \A c : c \in MarksUpTo(runs, i)
            <=> \E k \in 1 .. i - 1 : c \in RunMarks(runs[k])
      /\ \A c : c \in MarksFrom(runs, i)
            <=> \E k \in i .. Len(runs) : c \in RunMarks(runs[k])
  BY <1>1, MarksAround
<1>4. /\ \A c : c \in MarksUpTo(runs, p)
            <=> \E k \in 1 .. p - 1 : c \in RunMarks(runs[k])
      /\ \A c : c \in MarksFrom(runs, p)
            <=> \E k \in p .. Len(runs) : c \in RunMarks(runs[k])
  BY <1>1, MarksAround
<1>5. QED
  BY <1>2, <1>3, <1>4

LEMMA SortsAfterOneWay ==
    ASSUME NEW x, NEW y, x.id \in Nat, y.id \in Nat, x.lam \in Nat, y.lam \in Nat,
           SortsAfter(x, y)
    PROVE  ~SortsAfter(y, x)
BY DEF SortsAfter

LEMMA MergeInsertionPlaces ==
    ASSUME NEW order, KeepsRuns(order),
           NEW runs, WellFormed(order, runs),
           NEW m, m.by \in ReplicaIds, m.start \in Nat, m.end \in Nat,
           m.start < m.end, m.ts \in Nat, m.lam \in Nat,
           InitialLen = 0 => m.lam > 0,
           \/ m.anchor = ZeroAnchor
           \/ m.anchor.offset \in Nat /\ HasLeafAt(runs, m.anchor, "left"),
           NEW run, run = EditRunRecord(m.by, m.start, m.end, m.ts, m.lam),
           \A c \in DocumentMarks(runs) :
              AnchoredAt(m.anchor, "left", c) => ~SortsAfter(run, c)
    PROVE  /\ run \in Runs
           /\ \E X, Y :
                /\ IsPlaced(order, runs, run, MergeInsertion(runs, m).runs, X, Y)
                /\ IsInPlace(order, run, m.anchor, X, Y)
<1> DEFINE i == IdxAtAnchor(runs, m.anchor, "left")
           new == MergeInsertion(runs, m).runs
<1>1. /\ runs \in Seq(Runs) /\ Len(runs) \in Nat /\ DOMAIN runs = 1 .. Len(runs)
      /\ Len(runs) # 0 /\ \A k \in 1 .. Len(runs) : runs[k] \in Runs
  BY LenProperties, EmptySeq, ElementOfSeq DEF WellFormed
<1>2. /\ run \in Runs /\ run.id = m.by /\ run.start = m.start
      /\ run.end = m.end /\ run.ts = m.ts /\ run.lam = m.lam
      /\ run.start < run.end /\ (InitialLen = 0 => run.lam > 0)
  BY NewRun
<1>3. ASSUME NEW k \in 1 .. Len(runs)
      PROVE  /\ SortsAfter(run, runs[k]) => ~SortsAfter(runs[k], run)
             /\ SortsAfter(runs[k], run) => ~SortsAfter(run, runs[k])
  <2>1. /\ run.id \in Nat /\ run.lam \in Nat
        /\ runs[k].id \in Nat /\ runs[k].lam \in Nat
    BY <1>1, <1>2, ReplicaIdsAssumption DEF Runs, RunType
  <2>2. QED
    BY <2>1, SortsAfterOneWay
<1>4. CASE m.anchor = ZeroAnchor
  <2>1. new = InsertRunAtZero(runs, run).runs
    BY <1>4 DEF MergeInsertion
  <2> DEFINE q == PositionFrom(runs, run, 2)
  <2>2. PICK p \in 1 .. Len(runs) + 1 :
           /\ new = InsertAt(runs, p, run)
           /\ p <= Len(runs) => ~SortsAfter(run, runs[p])
           /\ \A k \in 1 .. p - 1 : ~SortsAfter(runs[k], run)
    <3>1. CASE SortsBefore(run, runs[1])
      <4>1. new = InsertAt(runs, 1, run)
        BY <2>1, <3>1 DEF InsertRunAtZero, InsertRun
      <4>2. 1 \in 1 .. Len(runs) /\ ~SortsAfter(run, runs[1])
        BY <1>1, <1>3, <3>1 DEF SortsBefore
      <4>3. /\ 1 \in 1 .. Len(runs) + 1
            /\ \A k \in 1 .. 1 - 1 : ~SortsAfter(runs[k], run)
        BY <1>1
      <4>4. QED
        BY <4>1, <4>2, <4>3
    <3>2. CASE ~SortsBefore(run, runs[1])
      <4>1. new = InsertAt(runs, q, run)
        BY <2>1, <3>2 DEF InsertRunAtZero, InsertRun
      <4>2. /\ q \in 2 .. Len(runs) + 1
            /\ \A k \in 2 .. q - 1 : SortsAfter(run, runs[k])
            /\ q <= Len(runs) => ~SortsAfter(run, runs[q])
        <5>1. 2 \in 1 .. Len(runs) + 1
          BY <1>1
        <5>2. QED
          BY <1>1, <5>1, PositionFromExists
      <4> HIDE DEF q
      <4>3. ASSUME NEW k \in 1 .. q - 1 PROVE ~SortsAfter(runs[k], run)
        <5>1. k = 1 \/ k \in 2 .. q - 1
          BY <4>2
        <5>2. CASE k = 1
          BY <5>2, <3>2 DEF SortsBefore
        <5>3. CASE k \in 2 .. q - 1
          <6>1. k \in 1 .. Len(runs)
            BY <4>2, <1>1
          <6>2. QED
            BY <6>1, <5>3, <4>2, <1>3
        <5>4. QED
          BY <5>1, <5>2, <5>3
      <4>4. q \in 1 .. Len(runs) + 1
        BY <4>2
      <4>5. QED
        BY <4>1, <4>2, <4>3, <4>4
    <3>3. QED
      BY <3>1, <3>2
  <2> HIDE DEF new
  <2>3. 1 \in 1 .. p /\ 1 \in 1 .. Len(runs) + 1
    BY <1>1, <2>2
  <2>4. /\ \A y \in MarksFrom(runs, p) : \E z \in MarksFrom(runs, p) :
              ~SortsAfter(run, z) /\ (y = z \/ <<z, y>> \in order)
        /\ \A x \in MarksUpTo(runs, p) :
              x \in MarksUpTo(runs, 1) \/ ~SortsAfter(x, run)
        /\ \A k \in 1 .. p - 1 : runs[k].start < runs[k].end
    BY <1>2, <2>2, <2>3, SkippedLeaves, SMTT(30)
  <2>5. MarksUpTo(runs, 1) = {}
    BY <1>1, <2>3, MarksAround
  <2>6. IsInPlace(order, run, m.anchor, MarksUpTo(runs, p), MarksFrom(runs, p))
    BY <1>4, <2>4, <2>5 DEF IsInPlace
  <2>7. IsPlaced(order, runs, run, new, MarksUpTo(runs, p), MarksFrom(runs, p))
    <3>1. p = 1 \/ runs[p - 1].start < runs[p - 1].end
      BY <2>2, <2>4
    <3>2. QED
      BY <1>2, <2>2, <3>1, RunPlaced
  <2>8. QED
    BY <1>2, <2>6, <2>7 DEF new
<1>5. ASSUME m.anchor # ZeroAnchor
      PROVE  /\ i \in 1 .. Len(runs) /\ runs[i] \in Runs
             /\ runs[i].id = m.anchor.id /\ runs[i].ts = m.anchor.ts
             /\ runs[i].start < m.anchor.offset
             /\ m.anchor.offset <= runs[i].end
             /\ m.anchor.offset \in Nat /\ runs[i].start \in Nat
             /\ runs[i].end \in Nat
             /\ RunLen(runs[i]) = runs[i].end - runs[i].start
  <2>1. i \in LeavesAtAnchor(runs, m.anchor, "left")
    BY <1>5 DEF IdxAtAnchor, HasLeafAt
  <2> HIDE DEF i
  <2>2. /\ i \in 1 .. Len(runs)
        /\ runs[i].id = m.anchor.id /\ runs[i].ts = m.anchor.ts
        /\ runs[i].start < m.anchor.offset
        /\ m.anchor.offset <= runs[i].end
    BY <2>1, <1>1 DEF LeavesAtAnchor
  <2>3. runs[i].start \in Nat /\ runs[i].end \in Nat
    BY <1>1, <2>2 DEF Runs, RunType
  <2>4. QED
    BY <1>1, <1>5, <2>2, <2>3 DEF RunLen
<1>6. ASSUME m.anchor # ZeroAnchor
      PROVE  LET at == m.anchor.offset - runs[i].start
             IN  /\ at \in 1 .. RunLen(runs[i])
                 /\ \E c \in DocumentMarks(runs) :
                      /\ AnchoredAt(m.anchor, "left", c)
                      /\ IsRightAfter(order, c, MarksLeftOf(runs, i, at),
                                      MarksRightOf(runs, i, at))
                      /\ c.id = runs[i].id /\ c.lam = runs[i].lam
                      /\ ~SortsAfter(run, c)
  <2> DEFINE at == m.anchor.offset - runs[i].start
             c == [id |-> runs[i].id, at |-> runs[i].start + (at - 1),
                   ts |-> runs[i].ts, lam |-> runs[i].lam]
  <2>1. /\ i \in 1 .. Len(runs)
        /\ runs[i].id = m.anchor.id /\ runs[i].ts = m.anchor.ts
        /\ at \in 1 .. RunLen(runs[i])
        /\ (runs[i].start + (at - 1)) + 1 = m.anchor.offset
    BY <1>5, <1>6, SMTT(30)
  <2>2. AnchoredAt(m.anchor, "left", c)
    BY <2>1 DEF AnchoredAt
  <2>3. IsMarkBefore(runs[i], at, c) /\ c.id = runs[i].id /\ c.lam = runs[i].lam
    BY DEF IsMarkBefore
  <2> HIDE DEF i, at, c
  <2>4. /\ c \in DocumentMarks(runs)
        /\ IsRightAfter(order, c, MarksLeftOf(runs, i, at),
                        MarksRightOf(runs, i, at))
    BY <2>1, <2>3, MarksAroundOffset DEF IsRightAfter
  <2>5. ~SortsAfter(run, c)
    BY <2>2, <2>4
  <2>6. QED
    BY <2>1, <2>2, <2>3, <2>4, <2>5 DEF at
<1>7. CASE m.anchor # ZeroAnchor /\ m.anchor.offset < runs[i].end
  <2> DEFINE at == m.anchor.offset - runs[i].start
             X == MarksLeftOf(runs, i, at)
             Y == MarksRightOf(runs, i, at)
  <2>1. /\ at \in 1 .. RunLen(runs[i]) /\ i \in 1 .. Len(runs)
        /\ RunLen(runs[i]) \in Nat
        /\ runs[i].start \in Nat /\ runs[i].start + at < runs[i].end
    BY <1>5, <1>6, <1>7
  <2>2. PICK c \in DocumentMarks(runs) :
           /\ AnchoredAt(m.anchor, "left", c) /\ IsRightAfter(order, c, X, Y)
           /\ c.id = runs[i].id /\ c.lam = runs[i].lam /\ ~SortsAfter(run, c)
    BY <1>6, <1>7
  <2>3. new = Splice(runs, i, InsertAt(SplitRun(runs[i], at), 2, run))
    BY <1>7 DEF MergeInsertion, SplitRunWithAnother
  <2> HIDE DEF new, at, i
  <2>4. IsPlaced(order, runs, run, new, X, Y)
    <3>1. run \in Runs /\ run.start < run.end
      BY <1>2
    <3>2. IsPlaced(order, runs, run,
                   Splice(runs, i, InsertAt(SplitRun(runs[i], at), 2, run)),
                   MarksLeftOf(runs, i, at), MarksRightOf(runs, i, at))
      BY <3>1, <2>1, LeafSplitAround
    <3>3. QED
      BY <3>2, <2>3
  <2> DEFINE z == [id |-> runs[i].id, at |-> runs[i].start + at,
                   ts |-> runs[i].ts, lam |-> runs[i].lam]
  <2>5. z \in RunMarks(runs[i])
    <3>1. runs[i] \in Runs
      BY <2>1, <1>1
    <3>2. runs[i].end \in Nat
      BY <3>1 DEF Runs, RunType
    <3>3. runs[i].start + at \in runs[i].start .. runs[i].end - 1
      BY <2>1, <3>2, SMTT(30)
    <3>4. QED
      BY <3>3 DEF RunMarks
  <2>6. /\ z.id = runs[i].id /\ z.at = runs[i].start + at
        /\ z.ts = runs[i].ts /\ z.lam = runs[i].lam
    OBVIOUS
  <2> HIDE DEF z
  <2>7. ~SortsAfter(run, z)
    BY <2>2, <2>6 DEF SortsAfter
  <2>8. \A e : e \in RunMarks(SubRun(runs[i], at, RunLen(runs[i]))) <=>
           /\ e \in RunMarks(runs[i])
           /\ runs[i].start + at <= e.at
           /\ e.at < runs[i].start + RunLen(runs[i])
    <3>1. at \in Nat /\ at <= RunLen(runs[i]) /\ RunLen(runs[i]) <= RunLen(runs[i])
      BY <2>1
    <3>2. QED
      BY <1>1, <2>1, <3>1, MarksOfSubRun
  <2>9. z \in Y
    <3>1. runs[i].end = runs[i].start + RunLen(runs[i])
      BY <1>1, <2>1, RunLength
    <3>2. runs[i].start + at <= z.at /\ z.at < runs[i].start + RunLen(runs[i])
      BY <2>1, <2>6, <3>1
    <3>3. QED
      BY <2>5, <2>8, <3>2 DEF MarksRightOf
  <2>10. ASSUME NEW y \in Y PROVE y = z \/ <<z, y>> \in order
    <3>1. /\ \A e \in MarksFrom(runs, i + 1) : <<z, e>> \in order
          /\ \A e \in RunMarks(runs[i]) :
                /\ e \in Mark /\ Covers(runs[i], e) /\ z \in Mark
                /\ z.at < e.at => <<z, e>> \in order
      BY <2>1, <2>5, MarksInOrder
    <3>2. CASE y \in MarksFrom(runs, i + 1)
      BY <3>1, <3>2
    <3>3. CASE y \in RunMarks(SubRun(runs[i], at, RunLen(runs[i])))
      <4>1. y \in RunMarks(runs[i]) /\ z.at <= y.at
        BY <2>6, <2>8, <3>3
      <4>2. y \in Mark /\ z \in Mark /\ y.id = z.id /\ y.ts = z.ts /\ y.lam = z.lam
        BY <3>1, <4>1, <2>6 DEF Covers
      <4>3. z.at < y.at \/ y.at = z.at
        BY <4>1, <4>2 DEF Mark
      <4>4. y.at = z.at => y = z
        BY <4>2 DEF Mark
      <4>5. QED
        BY <3>1, <4>1, <4>3, <4>4
    <3>4. QED
      BY <3>2, <3>3 DEF MarksRightOf
  <2> HIDE DEF X, Y
  <2>11. IsInPlace(order, run, m.anchor, X, Y)
    <3>1. \A y \in Y : \E w \in Y :
             ~SortsAfter(run, w) /\ (y = w \/ <<w, y>> \in order)
      BY <2>7, <2>9, <2>10
    <3>2. /\ c \in X /\ AnchoredAt(m.anchor, "left", c)
          /\ \A y \in Y : <<c, y>> \in order
          /\ \A x \in X : x = c \/ <<x, c>> \in order \/ ~SortsAfter(x, run)
      BY <2>2 DEF IsRightAfter
    <3>3. QED
      BY <1>7, <3>1, <3>2 DEF IsInPlace
  <2>12. QED
    BY <1>2, <2>4, <2>11 DEF new
<1>8. CASE m.anchor # ZeroAnchor /\ ~(m.anchor.offset < runs[i].end)
  <2>1. /\ i \in 1 .. Len(runs) /\ runs[i] \in Runs
        /\ m.anchor.offset = runs[i].end
        /\ m.anchor.offset - runs[i].start = RunLen(runs[i])
        /\ runs[i].start < runs[i].end
    BY <1>5, <1>8
  <2>2. new = InsertRunAfterAnchor(runs, run, i).runs
    BY <1>8 DEF MergeInsertion
  <2>3. PICK c \in DocumentMarks(runs) :
           /\ AnchoredAt(m.anchor, "left", c)
           /\ IsRightAfter(order, c, MarksLeftOf(runs, i, RunLen(runs[i])),
                           MarksRightOf(runs, i, RunLen(runs[i])))
    BY <1>6, <1>8, <2>1
  <2> DEFINE q == PositionFrom(runs, run, i + 1)
  <2>4. /\ q \in i + 1 .. Len(runs) + 1
        /\ \A k \in i + 1 .. q - 1 : SortsAfter(run, runs[k])
        /\ q <= Len(runs) => ~SortsAfter(run, runs[q])
    <3>1. i + 1 \in 1 .. Len(runs) + 1
      BY <1>1, <2>1
    <3>2. QED
      BY <1>1, <3>1, PositionFromExists
  <2>5. \/ /\ new = [runs EXCEPT ![i].end = run.end]
           /\ CanAppend(runs[i], run) /\ ~SortsAfter(run, runs[i + 1])
        \/ new = InsertAt(runs, q, run)
    BY <2>2 DEF InsertRunAfterAnchor, InsertRun
  <2> HIDE DEF new, q, i
  <2>6. IsRightAfter(order, c, MarksUpTo(runs, i + 1), MarksFrom(runs, i + 1))
    BY <1>1, <2>1, <2>3, MarksAroundEnd
  <2>7. ASSUME NEW p \in i + 1 .. Len(runs) + 1,
               p <= Len(runs) => ~SortsAfter(run, runs[p]),
               \A k \in i + 1 .. p - 1 : SortsAfter(run, runs[k])
        PROVE  /\ IsInPlace(order, run, m.anchor, MarksUpTo(runs, p),
                            MarksFrom(runs, p))
               /\ runs[p - 1].start < runs[p - 1].end
    <3>1. p \in 1 .. Len(runs) + 1 /\ i + 1 \in 1 .. p
      BY <2>1, <1>1
    <3>2. \A k \in i + 1 .. p - 1 : ~SortsAfter(runs[k], run)
      <4>1. \A k \in i + 1 .. p - 1 : k \in 1 .. Len(runs)
        BY <2>1, <1>1
      <4>2. QED
        BY <4>1, <2>7, <1>3
    <3>3. /\ \A y \in MarksFrom(runs, p) : \E z \in MarksFrom(runs, p) :
                ~SortsAfter(run, z) /\ (y = z \/ <<z, y>> \in order)
          /\ \A x \in MarksUpTo(runs, p) :
                x \in MarksUpTo(runs, i + 1) \/ ~SortsAfter(x, run)
          /\ \A k \in i + 1 .. p - 1 : runs[k].start < runs[k].end
      BY <1>2, <2>7, <3>1, <3>2, SkippedLeaves
    <3>4. /\ MarksUpTo(runs, i + 1) \subseteq MarksUpTo(runs, p)
          /\ MarksFrom(runs, p) \subseteq MarksFrom(runs, i + 1)
      BY <1>1, <3>1, MoreMarks
    <3>5. /\ c \in MarksUpTo(runs, p)
          /\ \A y \in MarksFrom(runs, p) : <<c, y>> \in order
          /\ \A x \in MarksUpTo(runs, p) :
                x = c \/ <<x, c>> \in order \/ ~SortsAfter(x, run)
      BY <2>6, <3>3, <3>4 DEF IsRightAfter
    <3>6. IsInPlace(order, run, m.anchor, MarksUpTo(runs, p), MarksFrom(runs, p))
      BY <1>8, <2>3, <3>3, <3>5 DEF IsInPlace
    <3>7. p - 1 = i \/ p - 1 \in i + 1 .. p - 1
      BY <2>1, <1>1
    <3>8. QED
      BY <2>1, <3>3, <3>6, <3>7
  <2>8. CASE new = InsertAt(runs, q, run)
    <3>1. /\ IsInPlace(order, run, m.anchor, MarksUpTo(runs, q),
                       MarksFrom(runs, q))
          /\ runs[q - 1].start < runs[q - 1].end
      BY <2>4, <2>7
    <3>2. q \in 1 .. Len(runs) + 1
      BY <2>1, <2>4, <1>1
    <3>3. IsPlaced(order, runs, run, new, MarksUpTo(runs, q), MarksFrom(runs, q))
      BY <1>2, <2>8, <3>1, <3>2, RunPlaced
    <3>4. QED
      BY <1>2, <3>1, <3>3 DEF new
  <2>9. CASE /\ new = [runs EXCEPT ![i].end = run.end]
             /\ CanAppend(runs[i], run) /\ ~SortsAfter(run, runs[i + 1])
    <3>1. IsInPlace(order, run, m.anchor, MarksUpTo(runs, i + 1),
                    MarksFrom(runs, i + 1))
      <4>1. i + 1 \in i + 1 .. Len(runs) + 1
        BY <1>1, <2>1
      <4>2. \A k \in i + 1 .. (i + 1) - 1 : SortsAfter(run, runs[k])
        BY <1>1, <2>1
      <4>3. QED
        BY <2>7, <2>9, <4>1, <4>2
    <3>2. /\ runs[i].end = run.start /\ runs[i].id = run.id
          /\ runs[i].ts = run.ts /\ runs[i].lam = run.lam
      BY <2>9 DEF CanAppend, SameRun
    <3>3. IsPlaced(order, runs, run, new, MarksUpTo(runs, i + 1),
                   MarksFrom(runs, i + 1))
      BY <1>2, <2>1, <2>9, <3>2, LeafExtended
    <3>4. QED
      BY <1>2, <3>1, <3>3 DEF new
  <2>10. QED
    BY <2>5, <2>8, <2>9
<1>9. QED
  BY <1>4, <1>7, <1>8

------------------------------------------------------------------------------
(* New text in a document ordered by typing.  It is the latest of its      *)
(* inserter, and of a new run or placed behind the text it continues.      *)
IsLatest(runs, run) ==
    \A c \in DocumentMarks(runs) : c.id = run.id => c.at < run.start

IsOfNewRun(runs, run) ==
    \A c \in DocumentMarks(runs) : ~(c.id = run.id /\ c.ts = run.ts)

LEMMA TypingKeepsRuns == KeepsRuns(TypingOrder)
BY DEF KeepsRuns, TypingOrder

LEMMA LatestIsTyped ==
    ASSUME NEW runs \in Seq(Runs), NEW run \in Runs, IsLatest(runs, run),
           NEW X, X \subseteq DocumentMarks(runs),
           NEW Y, Y \subseteq DocumentMarks(runs),
           \/ IsOfNewRun(runs, run)
           \/ \E c : /\ c.id = run.id /\ c.ts = run.ts /\ c.at + 1 = run.start
                     /\ \A y \in Y : <<c, y>> \in TypingOrder
    PROVE  /\ MarksBefore(TypingOrder, X, RunMarks(run))
           /\ MarksBefore(TypingOrder, RunMarks(run), Y)
<1>1. /\ DocumentMarks(runs) \subseteq Mark /\ run.start \in Nat
      /\ \A e \in RunMarks(run) : e \in Mark /\ Covers(run, e)
  BY MarksAreMarks, MarkOfRun, RunLength
<1>2. ASSUME NEW x \in X, NEW e \in RunMarks(run), x.id = e.id
      PROVE  x.at < e.at
  <2>1. x.at < run.start /\ run.start <= e.at
    BY <1>1, <1>2 DEF IsLatest, Covers
  <2>2. x.at \in Nat /\ e.at \in Nat
    BY <1>1 DEF Mark
  <2>3. QED
    BY <2>1, <2>2, <1>1
<1>3. ASSUME NEW y \in Y, NEW e \in RunMarks(run), y.id = e.id, y.ts = e.ts
      PROVE  FALSE
  <2>1. y.id = run.id /\ y.ts = run.ts /\ y \in Mark /\ y.at < run.start
    BY <1>1, <1>3 DEF Covers, IsLatest
  <2>2. PICK c : /\ c.id = run.id /\ c.ts = run.ts /\ c.at + 1 = run.start
                 /\ \A u \in Y : <<c, u>> \in TypingOrder
    BY <2>1 DEF IsOfNewRun
  <2>3. <<c, y>> \in TypingOrder
    BY <2>2
  <2>4. c \in Mark /\ c.at < y.at
    BY <2>1, <2>2, <2>3 DEF TypingOrder
  <2>5. c.at \in Nat /\ y.at \in Nat
    BY <2>1, <2>4 DEF Mark
  <2>6. QED
    BY <2>1, <2>2, <2>4, <2>5
<1>4. MarksBefore(TypingOrder, X, RunMarks(run))
  <2>1. SUFFICES ASSUME NEW x \in X, NEW e \in RunMarks(run)
                 PROVE  <<x, e>> \in TypingOrder
    BY DEF MarksBefore
  <2>2. x \in Mark /\ e \in Mark
    BY <1>1
  <2>3. QED
    BY <2>2, <1>2 DEF TypingOrder
<1>5. MarksBefore(TypingOrder, RunMarks(run), Y)
  <2>1. SUFFICES ASSUME NEW y \in Y, NEW e \in RunMarks(run)
                 PROVE  <<e, y>> \in TypingOrder
    BY DEF MarksBefore
  <2>2. y \in Mark /\ e \in Mark
    BY <1>1
  <2>3. QED
    BY <2>2, <1>3 DEF TypingOrder
<1>6. QED
  BY <1>4, <1>5

LEMMA InsertAdds ==
    ASSUME NEW runs, WellFormed(TypingOrder, runs),
           NEW offset \in Nat, offset <= DocumentLen(runs),
           NEW text, text.id \in ReplicaIds, text.start \in Nat,
           text.end \in Nat, text.start < text.end,
           NEW run_c \in Nat, NEW lam_c \in Nat,
           ComesNext(runs, text, run_c),
           NEW result, result = Insert(runs, offset, text, run_c, lam_c),
           NEW run, run = InsertedRun(result, text, run_c, lam_c)
    PROVE  /\ result.new \in BOOLEAN
           /\ WellFormed(TypingOrder, result.runs)
           /\ DocumentMarks(result.runs)
                = DocumentMarks(runs) \cup RunMarks(run)
           /\ \/ result.anchor = ZeroAnchor /\ result.new
              \/ \E c \in DocumentMarks(runs) :
                   /\ IsAfterMark(result.anchor, c)
                   /\ ~result.new => ContinuesMark(text, run_c, lam_c, c)
<1>1. runs \in Seq(Runs)
  BY DEF WellFormed
<1>2. /\ result.new \in BOOLEAN
      /\ run \in Runs
      /\ \E X, Y :
           /\ IsPlaced(TypingOrder, runs, run, result.runs, X, Y)
           /\ \/ result.anchor = ZeroAnchor /\ result.new /\ X = {}
              \/ \E c \in DocumentMarks(runs) :
                   /\ IsAfterMark(result.anchor, c)
                   /\ IsRightAfter(TypingOrder, c, X, Y)
                   /\ ~result.new => ContinuesMark(text, run_c, lam_c, c)
  BY TypingKeepsRuns, InsertPlaces
<1>3. PICK X, Y :
           /\ IsPlaced(TypingOrder, runs, run, result.runs, X, Y)
           /\ \/ result.anchor = ZeroAnchor /\ result.new /\ X = {}
              \/ \E c \in DocumentMarks(runs) :
                   /\ IsAfterMark(result.anchor, c)
                   /\ IsRightAfter(TypingOrder, c, X, Y)
                   /\ ~result.new => ContinuesMark(text, run_c, lam_c, c)
  BY <1>2
<1>4. /\ run.id = text.id /\ run.start = text.start
      /\ result.new => run.ts = run_c
      /\ ~result.new => run.ts = run_c - 1
  BY <1>2 DEF InsertedRun, EditRunRecord
<1>5. IsLatest(runs, run)
  BY <1>4 DEF IsLatest, ComesNext
<1>6. ASSUME result.new PROVE IsOfNewRun(runs, run)
  <2>1. ~(run_c < run_c)
    OBVIOUS
  <2>2. QED
    BY <2>1, <1>4, <1>6 DEF IsOfNewRun, ComesNext
<1>7. ASSUME ~result.new
      PROVE  \E c : /\ c.id = run.id /\ c.ts = run.ts /\ c.at + 1 = run.start
                    /\ \A y \in Y : <<c, y>> \in TypingOrder
  BY <1>3, <1>4, <1>7 DEF ContinuesMark, IsRightAfter
<1>8. X \subseteq DocumentMarks(runs) /\ Y \subseteq DocumentMarks(runs)
  BY <1>3 DEF IsPlaced, FitsBetween, IsGrown
<1>9. /\ MarksBefore(TypingOrder, X, RunMarks(run))
      /\ MarksBefore(TypingOrder, RunMarks(run), Y)
  BY <1>1, <1>2, <1>5, <1>6, <1>7, <1>8, LatestIsTyped
<1>10. QED
  BY <1>2, <1>3, <1>9 DEF IsPlaced, FitsBetween, IsGrown

LEMMA MergeInsertionAdds ==
    ASSUME NEW runs, WellFormed(TypingOrder, runs),
           NEW m, m.by \in ReplicaIds, m.start \in Nat, m.end \in Nat,
           m.start < m.end, m.ts \in Nat, m.lam \in Nat,
           InitialLen = 0 => m.lam > 0,
           \/ m.anchor = ZeroAnchor
           \/ m.anchor.offset \in Nat /\ HasLeafAt(runs, m.anchor, "left"),
           NEW run, run = EditRunRecord(m.by, m.start, m.end, m.ts, m.lam),
           \A c \in DocumentMarks(runs) :
              AnchoredAt(m.anchor, "left", c) => ~SortsAfter(run, c),
           IsLatest(runs, run),
           \/ IsOfNewRun(runs, run)
           \/ /\ m.anchor # ZeroAnchor
              /\ m.anchor = [id |-> m.by, offset |-> m.start, ts |-> m.ts]
    PROVE  /\ WellFormed(TypingOrder, MergeInsertion(runs, m).runs)
           /\ DocumentMarks(MergeInsertion(runs, m).runs)
                = DocumentMarks(runs) \cup RunMarks(run)
<1>1. runs \in Seq(Runs)
  BY DEF WellFormed
<1>2. /\ run \in Runs
      /\ \E X, Y :
           /\ IsPlaced(TypingOrder, runs, run, MergeInsertion(runs, m).runs, X, Y)
           /\ IsInPlace(TypingOrder, run, m.anchor, X, Y)
  BY TypingKeepsRuns, MergeInsertionPlaces
<1>3. PICK X, Y :
           /\ IsPlaced(TypingOrder, runs, run, MergeInsertion(runs, m).runs, X, Y)
           /\ IsInPlace(TypingOrder, run, m.anchor, X, Y)
  BY <1>2
<1>4. run.id = m.by /\ run.start = m.start /\ run.ts = m.ts
  BY DEF EditRunRecord
<1>5. ASSUME m.anchor # ZeroAnchor,
             m.anchor = [id |-> m.by, offset |-> m.start, ts |-> m.ts]
      PROVE  \E c : /\ c.id = run.id /\ c.ts = run.ts /\ c.at + 1 = run.start
                    /\ \A y \in Y : <<c, y>> \in TypingOrder
  <2>1. PICK c \in X : /\ AnchoredAt(m.anchor, "left", c)
                       /\ \A y \in Y : <<c, y>> \in TypingOrder
    BY <1>3, <1>5 DEF IsInPlace
  <2>2. QED
    BY <2>1, <1>4, <1>5 DEF AnchoredAt
<1>6. X \subseteq DocumentMarks(runs) /\ Y \subseteq DocumentMarks(runs)
  BY <1>3 DEF IsPlaced, FitsBetween, IsGrown
<1>7. /\ MarksBefore(TypingOrder, X, RunMarks(run))
      /\ MarksBefore(TypingOrder, RunMarks(run), Y)
  BY <1>1, <1>2, <1>5, <1>6, LatestIsTyped
<1>8. QED
  BY <1>3, <1>7 DEF IsPlaced, FitsBetween, IsGrown

------------------------------------------------------------------------------
(* Remote deletions.  Anchors are found where their character is.          *)
LEMMA HasLeafIffMark ==
    ASSUME NEW runs \in Seq(Runs), NEW anchor, anchor.offset \in Nat,
           NEW bias \in {"left", "right"}
    PROVE  HasLeafAt(runs, anchor, bias) <=>
              \E c \in DocumentMarks(runs) : AnchoredAt(anchor, bias, c)
<1>1. /\ DOMAIN runs = 1 .. Len(runs)
      /\ \A k \in 1 .. Len(runs) : runs[k] \in Runs
  BY LenProperties, ElementOfSeq
<1>2. \A run \in Runs : run.start \in Nat /\ run.end \in Nat
  BY DEF Runs, RunType
<1>3. ASSUME NEW k \in LeavesAtAnchor(runs, anchor, bias)
      PROVE  \E c \in DocumentMarks(runs) : AnchoredAt(anchor, bias, c)
  <2> DEFINE x == runs[k]
             at == IF bias = "left" THEN anchor.offset - 1 ELSE anchor.offset
             c == [id |-> x.id, at |-> at, ts |-> x.ts, lam |-> x.lam]
  <2>1. /\ k \in 1 .. Len(runs) /\ x.id = anchor.id /\ x.ts = anchor.ts
        /\ \/ bias = "left" /\ x.start < anchor.offset /\ anchor.offset <= x.end
           \/ bias = "right" /\ x.start <= anchor.offset /\ anchor.offset < x.end
    BY <1>1 DEF LeavesAtAnchor
  <2>2. x.start \in Nat /\ x.end \in Nat
    BY <2>1, <1>1, <1>2
  <2> HIDE DEF x
  <2>3. at \in x.start .. x.end - 1
    BY <2>1, <2>2
  <2>4. c \in RunMarks(x)
    BY <2>3 DEF RunMarks
  <2>5. c \in DocumentMarks(runs)
    BY <2>1, <2>4, <1>1 DEF DocumentMarks, x
  <2>6. IF bias = "left" THEN c.at + 1 = anchor.offset ELSE c.at = anchor.offset
    OBVIOUS
  <2>7. c.id = anchor.id /\ c.ts = anchor.ts
    BY <2>1
  <2> HIDE DEF c
  <2>8. QED
    BY <2>5, <2>6, <2>7 DEF AnchoredAt
<1>4. ASSUME NEW c \in DocumentMarks(runs), AnchoredAt(anchor, bias, c)
      PROVE  HasLeafAt(runs, anchor, bias)
  <2>1. PICK k \in 1 .. Len(runs) : c \in RunMarks(runs[k])
    BY <1>1 DEF DocumentMarks
  <2>2. runs[k] \in RunType
    BY <1>1, RunLength
  <2>3. c \in Mark /\ Covers(runs[k], c)
    BY <2>1, <2>2, MarkOfRun
  <2>4. /\ c.at \in Nat /\ runs[k].start \in Nat /\ runs[k].end \in Nat
        /\ runs[k].id = anchor.id /\ runs[k].ts = anchor.ts
        /\ runs[k].start <= c.at /\ c.at < runs[k].end
    BY <2>2, <2>3, <1>1, <1>2, <1>4 DEF Mark, Covers, AnchoredAt
  <2>5. CASE bias = "left"
    <3>1. runs[k].start < anchor.offset /\ anchor.offset <= runs[k].end
      BY <2>4, <2>5, <1>4 DEF AnchoredAt
    <3>2. k \in LeavesAtAnchor(runs, anchor, bias)
      BY <1>1, <2>4, <2>5, <3>1 DEF LeavesAtAnchor
    <3>3. QED
      BY <3>2 DEF HasLeafAt
  <2>6. CASE bias = "right"
    <3>1. runs[k].start <= anchor.offset /\ anchor.offset < runs[k].end
      BY <2>4, <2>6, <1>4 DEF AnchoredAt
    <3>2. k \in LeavesAtAnchor(runs, anchor, bias)
      BY <1>1, <2>4, <2>6, <3>1 DEF LeavesAtAnchor
    <3>3. QED
      BY <3>2 DEF HasLeafAt
  <2>7. QED
    BY <2>5, <2>6
<1>5. QED
  BY <1>3, <1>4 DEF HasLeafAt

LEMMA LeafAtAnchor ==
    ASSUME NEW runs \in Seq(Runs), NEW anchor, NEW bias,
           HasLeafAt(runs, anchor, bias)
    PROVE  LET i == IdxAtAnchor(runs, anchor, bias)
           IN  /\ i \in 1 .. Len(runs) /\ runs[i] \in Runs
               /\ runs[i].id = anchor.id /\ runs[i].ts = anchor.ts
               /\ \/ /\ bias = "left"
                     /\ runs[i].start < anchor.offset
                     /\ anchor.offset <= runs[i].end
                  \/ /\ bias = "right"
                     /\ runs[i].start <= anchor.offset
                     /\ anchor.offset < runs[i].end
<1> DEFINE i == IdxAtAnchor(runs, anchor, bias)
<1>1. i \in LeavesAtAnchor(runs, anchor, bias)
  BY DEF IdxAtAnchor, HasLeafAt
<1>2. DOMAIN runs = 1 .. Len(runs)
  BY LenProperties
<1> HIDE DEF i
<1>3. /\ i \in 1 .. Len(runs)
      /\ runs[i].id = anchor.id /\ runs[i].ts = anchor.ts
      /\ \/ /\ bias = "left"
            /\ runs[i].start < anchor.offset
            /\ anchor.offset <= runs[i].end
         \/ /\ bias = "right"
            /\ runs[i].start <= anchor.offset
            /\ anchor.offset < runs[i].end
  BY <1>1, <1>2 DEF LeavesAtAnchor
<1>4. runs[i] \in Runs
  BY <1>3, ElementOfSeq
<1>5. QED
  BY <1>3, <1>4 DEF i

------------------------------------------------------------------------------
(* The walk of merge_deletion.  As long as it is sound, the document it    *)
(* has reached holds the characters the document had before.               *)
IsWalk(w) ==
    w = [runs |-> w.runs, i |-> w.i, state |-> w.state, from |-> w.from,
         leaf_offset |-> w.leaf_offset, visible_offset |-> w.visible_offset,
         ranges |-> w.ranges, done |-> w.done, sound |-> w.sound]

KeepsMarks(order, w, marks) ==
    /\ IsWalk(w)
    /\ w.sound => /\ w.i \in Nat \ {0}
                  /\ WellFormed(order, w.runs)
                  /\ DocumentMarks(w.runs) = marks

LEMMA LeafRangeDeleted ==
    ASSUME NEW order, KeepsRuns(order),
           NEW marks, NEW w, KeepsMarks(order, w, marks),
           NEW from \in Nat, NEW to,
           w.sound => /\ w.i \in 1 .. Len(w.runs)
                      /\ to \in Int /\ to <= RunLen(w.runs[w.i])
    PROVE  KeepsMarks(order, DeleteLeafRange(w, from, to), marks)
<1> DEFINE v == DeleteLeafRange(w, from, to)
<1>1. /\ v = [runs |-> v.runs, i |-> v.i, state |-> v.state, from |-> v.from,
              leaf_offset |-> v.leaf_offset,
              visible_offset |-> v.visible_offset,
              ranges |-> v.ranges, done |-> v.done, sound |-> v.sound]
      /\ v.runs = DeleteRangeInLeaf(w.runs, w.i, from, to)
      /\ v.i = LeafAfterDeleted(w.runs, w.i, from, to)
      /\ v.sound = (/\ w.sound
                    /\ w.leaf_offset = OffsetOfLeaf(w.runs, w.i)
                    /\ from < to /\ ~w.runs[w.i].del)
  <2> DEFINE runs == DeleteRangeInLeaf(w.runs, w.i, from, to)
             i == LeafAfterDeleted(w.runs, w.i, from, to)
             sound == /\ w.sound
                      /\ w.leaf_offset = OffsetOfLeaf(w.runs, w.i)
                      /\ from < to /\ ~w.runs[w.i].del
  <2>1. v = [w EXCEPT !.runs = runs, !.i = i, !.sound = sound]
    BY DEF DeleteLeafRange
  <2> HIDE DEF runs, i, sound, v
  <2>2. /\ v = [runs |-> runs, i |-> i, state |-> w.state, from |-> w.from,
                leaf_offset |-> w.leaf_offset,
                visible_offset |-> w.visible_offset,
                ranges |-> w.ranges, done |-> w.done, sound |-> sound]
    BY <2>1 DEF KeepsMarks, IsWalk
  <2>3. QED
    BY <2>2 DEF runs, i, sound
<1> HIDE DEF v
<1>2. ASSUME v.sound
      PROVE  /\ v.i \in Nat \ {0} /\ WellFormed(order, v.runs)
             /\ DocumentMarks(v.runs) = marks
  <2>1. w.sound /\ from < to
    BY <1>1, <1>2
  <2>2. /\ WellFormed(order, w.runs) /\ DocumentMarks(w.runs) = marks
        /\ w.i \in 1 .. Len(w.runs) /\ to \in Nat
        /\ to <= RunLen(w.runs[w.i])
    BY <2>1 DEF KeepsMarks
  <2>3. /\ WellFormed(order, DeleteRangeInLeaf(w.runs, w.i, from, to))
        /\ DocumentMarks(DeleteRangeInLeaf(w.runs, w.i, from, to))
             = DocumentMarks(w.runs)
        /\ LeafAfterDeleted(w.runs, w.i, from, to) \in Nat \ {0}
    BY <2>1, <2>2, RangeDeletedInLeaf
  <2>4. QED
    BY <1>1, <2>2, <2>3
<1>3. QED
  BY <1>1, <1>2 DEF v, KeepsMarks, IsWalk

(* What is written on a walk besides its document.                         *)
IsSameWalk(v, w) ==
    /\ IsWalk(v)
    /\ v.runs = w.runs /\ v.i = w.i /\ v.sound = w.sound

LEMMA SameWalk ==
    ASSUME NEW order, NEW marks, NEW w, KeepsMarks(order, w, marks), NEW v, IsSameWalk(v, w)
    PROVE  KeepsMarks(order, v, marks)
BY DEF KeepsMarks, IsSameWalk

LEMMA RecordIsWalk ==
    ASSUME NEW runs, NEW i, NEW state, NEW from, NEW leaf, NEW visible,
           NEW ranges, NEW done, NEW sound,
           NEW v, v = [runs |-> runs, i |-> i, state |-> state, from |-> from,
                       leaf_offset |-> leaf, visible_offset |-> visible,
                       ranges |-> ranges, done |-> done, sound |-> sound]
    PROVE  IsWalk(v) /\ v.runs = runs /\ v.i = i /\ v.sound = sound
BY DEF IsWalk

LEMMA WalkNoted ==
    ASSUME NEW w, IsWalk(w),
           NEW ranges, NEW done, NEW state, NEW from, NEW leaf, NEW visible
    PROVE  /\ IsSameWalk([w EXCEPT !.ranges = ranges, !.done = done], w)
           /\ IsSameWalk([w EXCEPT !.ranges = ranges, !.state = state,
                                   !.visible_offset = visible], w)
           /\ IsSameWalk([w EXCEPT !.ranges = ranges, !.state = state,
                                   !.from = from, !.leaf_offset = leaf,
                                   !.visible_offset = visible], w)
<1>1. IsSameWalk([w EXCEPT !.ranges = ranges, !.done = done], w)
  <2> DEFINE v == [w EXCEPT !.ranges = ranges, !.done = done]
  <2>0. v = [w EXCEPT !.ranges = ranges, !.done = done]
    OBVIOUS
  <2> HIDE DEF v
  <2>1. v = [runs |-> w.runs,
              i |-> w.i,
              state |-> w.state,
              from |-> w.from,
              leaf_offset |-> w.leaf_offset,
              visible_offset |-> w.visible_offset,
              ranges |-> ranges,
              done |-> done,
              sound |-> w.sound]
    BY <2>0 DEF IsWalk
  <2>2. IsWalk(v) /\ v.runs = w.runs /\ v.i = w.i /\ v.sound = w.sound
    BY <2>1, RecordIsWalk
  <2>3. IsSameWalk(v, w)
    BY <2>2 DEF IsSameWalk
  <2>4. QED
    BY <2>3 DEF v
<1>2. IsSameWalk([w EXCEPT !.ranges = ranges, !.state = state,
                           !.visible_offset = visible], w)
  <2> DEFINE v == [w EXCEPT !.ranges = ranges, !.state = state,
                           !.visible_offset = visible]
  <2>0. v = [w EXCEPT !.ranges = ranges, !.state = state,
                           !.visible_offset = visible]
    OBVIOUS
  <2> HIDE DEF v
  <2>1. v = [runs |-> w.runs,
              i |-> w.i,
              state |-> state,
              from |-> w.from,
              leaf_offset |-> w.leaf_offset,
              visible_offset |-> visible,
              ranges |-> ranges,
              done |-> w.done,
              sound |-> w.sound]
    BY <2>0 DEF IsWalk
  <2>2. IsWalk(v) /\ v.runs = w.runs /\ v.i = w.i /\ v.sound = w.sound
    BY <2>1, RecordIsWalk
  <2>3. IsSameWalk(v, w)
    BY <2>2 DEF IsSameWalk
  <2>4. QED
    BY <2>3 DEF v
<1>3. IsSameWalk([w EXCEPT !.ranges = ranges, !.state = state,
                           !.from = from, !.leaf_offset = leaf,
                           !.visible_offset = visible], w)
  <2> DEFINE v == [w EXCEPT !.ranges = ranges, !.state = state,
                           !.from = from, !.leaf_offset = leaf,
                           !.visible_offset = visible]
  <2>0. v = [w EXCEPT !.ranges = ranges, !.state = state,
                           !.from = from, !.leaf_offset = leaf,
                           !.visible_offset = visible]
    OBVIOUS
  <2> HIDE DEF v
  <2>1. v = [runs |-> w.runs,
              i |-> w.i,
              state |-> state,
              from |-> from,
              leaf_offset |-> leaf,
              visible_offset |-> visible,
              ranges |-> ranges,
              done |-> w.done,
              sound |-> w.sound]
    BY <2>0 DEF IsWalk
  <2>2. IsWalk(v) /\ v.runs = w.runs /\ v.i = w.i /\ v.sound = w.sound
    BY <2>1, RecordIsWalk
  <2>3. IsSameWalk(v, w)
    BY <2>2 DEF IsSameWalk
  <2>4. QED
    BY <2>3 DEF v
<1>4. QED
  BY <1>1, <1>2, <1>3

LEMMA FirstLeafVisited ==
    ASSUME NEW order, KeepsRuns(order),
           NEW runs, WellFormed(order, runs), NEW d, d.start.offset \in Nat,
           HasLeafAt(runs, d.start, "right"),
           d.version_map \in [ReplicaIds -> Nat]
    PROVE  KeepsMarks(order, VisitFirstLeaf(runs, d), DocumentMarks(runs))
<1> DEFINE i == IdxAtAnchor(runs, d.start, "right")
           run == runs[i]
           offset == OffsetOfLeaf(runs, i)
           known == KnownTo(d, run)
           from == d.start.offset - run.start
           up_to == IF run.end > known THEN known - run.start ELSE RunLen(run)
           walk == [runs |-> runs, i |-> i, state |-> "starting",
                    from |-> offset, leaf_offset |-> offset,
                    visible_offset |-> offset, ranges |-> <<>>,
                    done |-> FALSE, sound |-> TRUE]
           marks == DocumentMarks(runs)
           v == VisitFirstLeaf(runs, d)
<1>1. runs \in Seq(Runs)
  BY DEF WellFormed
<1>2. /\ i \in 1 .. Len(runs) /\ run \in Runs
      /\ run.start <= d.start.offset /\ d.start.offset < run.end
  BY <1>1, LeafAtAnchor
<1>3. /\ run.start \in Nat /\ run.end \in Nat /\ run.id \in ReplicaIds
      /\ RunLen(run) = run.end - run.start
  BY <1>2 DEF Runs, RunType, RunLen
<1>4. known \in Nat
  BY <1>3 DEF KnownTo
<1>5. v = IF run.del THEN [walk EXCEPT !.i = i + 1]
          ELSE [DeleteLeafRange(walk, from, up_to) EXCEPT
                 !.ranges = IF run.end > known
                            THEN AddRange(walk, offset + from, offset + up_to)
                            ELSE <<>>,
                 !.state = IF run.end > known THEN "skipping" ELSE "deleting",
                 !.from = offset + from,
                 !.leaf_offset = offset + from,
                 !.visible_offset = offset + up_to]
  BY DEF VisitFirstLeaf
<1>6. i \in Nat \ {0} /\ i + 1 \in Nat \ {0}
  BY <1>2
<1> HIDE DEF v
<1>7. /\ KeepsMarks(order, walk, marks) /\ walk.runs = runs /\ walk.i = i
  BY <1>6 DEF KeepsMarks, IsWalk
<1>8. CASE run.del
  <2>1. v = [walk EXCEPT !.i = i + 1]
    BY <1>5, <1>8
  <2>2. v = [runs |-> runs, i |-> i + 1, state |-> "starting",
             from |-> offset, leaf_offset |-> offset,
             visible_offset |-> offset, ranges |-> <<>>,
             done |-> FALSE, sound |-> TRUE]
    BY <2>1
  <2>3. KeepsMarks(order, v, marks)
    BY <2>2, <1>6 DEF KeepsMarks, IsWalk
  <2>4. QED
    BY <2>3 DEF v
<1>9. CASE ~run.del
  <2>1. from \in Nat
    BY <1>2, <1>3
  <2>2. up_to \in Int /\ up_to <= RunLen(run)
    BY <1>3, <1>4
  <2> DEFINE w == DeleteLeafRange(walk, from, up_to)
  <2>3. walk.i \in 1 .. Len(walk.runs) /\ up_to <= RunLen(walk.runs[walk.i])
    BY <1>2, <1>7, <2>2
  <2> HIDE DEF from, up_to, walk, marks
  <2>4. KeepsMarks(order, w, marks)
    BY <1>7, <2>1, <2>2, <2>3, LeafRangeDeleted
  <2>5. IsWalk(w)
    BY <2>4 DEF KeepsMarks
  <2> DEFINE a == IF run.end > known
                  THEN AddRange(walk, offset + from, offset + up_to) ELSE <<>>
             b == IF run.end > known THEN "skipping" ELSE "deleting"
             c == offset + from
             e == offset + up_to
  <2>6. v = [w EXCEPT !.ranges = a, !.state = b, !.from = c,
                      !.leaf_offset = c, !.visible_offset = e]
    BY <1>5, <1>9
  <2> HIDE DEF a, b, c, e, w
  <2>7. IsSameWalk(v, w)
    BY <2>5, <2>6, WalkNoted
  <2>8. KeepsMarks(order, v, marks)
    BY <2>4, <2>7, SameWalk
  <2>9. QED
    BY <2>8 DEF v, marks
<1>10. QED
  BY <1>8, <1>9

LEMMA LastLeafVisited ==
    ASSUME NEW order, KeepsRuns(order),
           NEW marks, NEW w, KeepsMarks(order, w, marks), NEW d,
           d.end.offset \in Nat,
           \E c \in marks : AnchoredAt(d.end, "left", c),
           w.i = IdxAtAnchor(w.runs, d.end, "left")
    PROVE  KeepsMarks(order, VisitLastLeaf(w, d), marks)
<1> DEFINE run == w.runs[w.i]
           up_to == d.end.offset - run.start
           v == VisitLastLeaf(w, d)
           a == AddRange(w, DeletingFrom(w), w.visible_offset + up_to)
           b == EndRange(w)
           x == DeleteLeafRange(w, 0, up_to)
<1>1. v = IF run.del THEN [w EXCEPT !.ranges = b, !.done = TRUE]
          ELSE [x EXCEPT !.ranges = a, !.done = TRUE]
  BY DEF VisitLastLeaf
<1> HIDE DEF v, a, b
<1>2. CASE run.del
  <2>1. v = [w EXCEPT !.ranges = b, !.done = TRUE]
    BY <1>1, <1>2
  <2>2. IsSameWalk(v, w)
    BY <2>1, WalkNoted DEF KeepsMarks
  <2>3. KeepsMarks(order, v, marks)
    BY <2>2, SameWalk
  <2>4. QED
    BY <2>3 DEF v
<1>3. CASE ~run.del
  <2>1. ASSUME w.sound
        PROVE  /\ w.i \in 1 .. Len(w.runs)
               /\ up_to \in Int /\ up_to <= RunLen(w.runs[w.i])
    <3>1. w.runs \in Seq(Runs) /\ DocumentMarks(w.runs) = marks
      BY <2>1 DEF KeepsMarks, WellFormed
    <3>2. HasLeafAt(w.runs, d.end, "left")
      BY <3>1, HasLeafIffMark
    <3>3. /\ w.i \in 1 .. Len(w.runs) /\ run \in Runs
          /\ run.start < d.end.offset /\ d.end.offset <= run.end
      BY <3>1, <3>2, LeafAtAnchor
    <3>4. run.start \in Nat /\ run.end \in Nat
      BY <3>3 DEF Runs, RunType
    <3>5. QED
      BY <3>3, <3>4 DEF RunLen
  <2> HIDE DEF run, up_to
  <2>2. KeepsMarks(order, x, marks)
    BY <2>1, LeafRangeDeleted
  <2>3. v = [x EXCEPT !.ranges = a, !.done = TRUE]
    BY <1>1, <1>3
  <2> HIDE DEF x
  <2>4. IsSameWalk(v, x)
    BY <2>2, <2>3, WalkNoted DEF KeepsMarks
  <2>5. KeepsMarks(order, v, marks)
    BY <2>2, <2>4, SameWalk
  <2>6. QED
    BY <2>5 DEF v
<1>4. QED
  BY <1>2, <1>3

(* A walk that goes on to the next leaf.                                   *)
IsNextWalk(v, w) ==
    /\ IsWalk(v) /\ v.sound = w.sound /\ v.i = w.i + 1
    /\ \/ v.runs = w.runs
       \/ w.sound => /\ w.i \in 1 .. Len(w.runs)
                     /\ v.runs = [w.runs EXCEPT ![w.i].del = TRUE]

LEMMA WalkGoesOn ==
    ASSUME NEW order, NEW marks, NEW w, KeepsMarks(order, w, marks), NEW v, IsNextWalk(v, w)
    PROVE  KeepsMarks(order, v, marks)
<1>1. SUFFICES ASSUME v.sound
               PROVE  /\ v.i \in Nat \ {0} /\ WellFormed(order, v.runs)
                      /\ DocumentMarks(v.runs) = marks
  BY DEF KeepsMarks, IsNextWalk
<1>2. /\ w.sound /\ w.i \in Nat \ {0} /\ WellFormed(order, w.runs)
      /\ DocumentMarks(w.runs) = marks
  BY <1>1 DEF KeepsMarks, IsNextWalk
<1>3. v.i \in Nat \ {0}
  BY <1>2 DEF IsNextWalk
<1>4. CASE v.runs = w.runs
  BY <1>2, <1>3, <1>4
<1>5. CASE w.i \in 1 .. Len(w.runs) /\ v.runs = [w.runs EXCEPT ![w.i].del = TRUE]
  <2>1. WellFormed(order, v.runs) /\ DocumentMarks(v.runs) = DocumentMarks(w.runs)
    BY <1>2, <1>5, LeafDeleted
  <2>2. QED
    BY <2>1, <1>2, <1>3
<1>6. QED
  BY <1>2, <1>4, <1>5 DEF IsNextWalk

LEMMA LeafVisited ==
    ASSUME NEW order, KeepsRuns(order),
           NEW marks, NEW w, KeepsMarks(order, w, marks), NEW d,
           d.end.offset \in Nat,
           \E c \in marks : AnchoredAt(d.end, "left", c),
           d.version_map \in [ReplicaIds -> Nat]
    PROVE  KeepsMarks(order, VisitLeaf(w, d), marks)
<1> DEFINE run == w.runs[w.i]
           known == KnownTo(d, run)
           up_to == known - run.start
           v == VisitLeaf(w, d)
           x == DeleteLeafRange(w, 0, up_to)
           v1 == [w EXCEPT !.sound = FALSE, !.done = TRUE]
           v3 == [w EXCEPT !.i = w.i + 1]
           v4 == [w EXCEPT !.runs = [w.runs EXCEPT ![w.i].del = TRUE],
                           !.i = w.i + 1, !.from = DeletingFrom(w),
                           !.state = "deleting",
                           !.visible_offset = w.visible_offset + RunLen(run)]
           v5 == [w EXCEPT !.i = w.i + 1, !.ranges = EndRange(w),
                           !.state = "skipping",
                           !.leaf_offset = w.leaf_offset + RunLen(run),
                           !.visible_offset = w.visible_offset + RunLen(run)]
           v6 == [x EXCEPT !.ranges = AddRange(w, DeletingFrom(w),
                                               w.visible_offset + up_to),
                           !.state = "skipping",
                           !.visible_offset = x.visible_offset + up_to]
<1>1. IsWalk(w)
  BY DEF KeepsMarks
<1>2. v = IF w.i > Len(w.runs) THEN v1
          ELSE IF w.i = IdxAtAnchor(w.runs, d.end, "left")
          THEN VisitLastLeaf(w, d)
          ELSE IF run.del THEN v3
          ELSE IF run.end <= known THEN v4
          ELSE IF run.start >= known THEN v5 ELSE v6
  BY DEF VisitLeaf
<1> HIDE DEF v
<1>3. ASSUME w.sound, ~(w.i > Len(w.runs))
      PROVE  /\ w.i \in 1 .. Len(w.runs) /\ run \in Runs
             /\ run.start \in Nat /\ run.end \in Nat /\ known \in Nat
             /\ RunLen(run) = run.end - run.start
  <2>1. w.runs \in Seq(Runs) /\ Len(w.runs) \in Nat /\ w.i \in Nat \ {0}
    BY <1>3, LenProperties DEF KeepsMarks, WellFormed
  <2>2. w.i \in 1 .. Len(w.runs)
    BY <1>3, <2>1
  <2>3. run \in Runs
    BY <2>1, <2>2, ElementOfSeq
  <2> HIDE DEF run
  <2>4. run.start \in Nat /\ run.end \in Nat /\ run.id \in ReplicaIds
        /\ RunLen(run) = run.end - run.start
    BY <2>3 DEF Runs, RunType, RunLen
  <2>5. known \in Nat
    BY <2>4 DEF KnownTo
  <2>6. QED
    BY <2>2, <2>3, <2>4, <2>5
<1>4. KeepsMarks(order, v1, marks)
  <2>1. v1 = [w EXCEPT !.sound = FALSE, !.done = TRUE]
    OBVIOUS
  <2> HIDE DEF v1
  <2>2. v1 = [runs |-> w.runs,
              i |-> w.i,
              state |-> w.state,
              from |-> w.from,
              leaf_offset |-> w.leaf_offset,
              visible_offset |-> w.visible_offset,
              ranges |-> w.ranges,
              done |-> TRUE,
              sound |-> FALSE]
    BY <1>1, <2>1 DEF IsWalk
  <2>3. IsWalk(v1) /\ v1.sound = FALSE
    BY <2>2, RecordIsWalk
  <2>4. QED
    BY <2>3 DEF KeepsMarks
<1>5. KeepsMarks(order, v3, marks)
  <2> DEFINE i == w.i + 1
  <2>1. v3 = [w EXCEPT !.i = i]
    OBVIOUS
  <2> HIDE DEF v3, i
  <2>2. v3 = [runs |-> w.runs,
              i |-> i,
              state |-> w.state,
              from |-> w.from,
              leaf_offset |-> w.leaf_offset,
              visible_offset |-> w.visible_offset,
              ranges |-> w.ranges,
              done |-> w.done,
              sound |-> w.sound]
    BY <1>1, <2>1 DEF IsWalk
  <2>3. IsWalk(v3) /\ v3.runs = w.runs /\ v3.i = i /\ v3.sound = w.sound
    BY <2>2, RecordIsWalk
  <2>4. IsNextWalk(v3, w)
    BY <2>3 DEF IsNextWalk, i
  <2>5. QED
    BY <2>4, WalkGoesOn
<1>6. ASSUME ~(w.i > Len(w.runs))
      PROVE  KeepsMarks(order, v4, marks)
  <2> DEFINE runs == [w.runs EXCEPT ![w.i].del = TRUE]
             from == DeletingFrom(w)
             visible == w.visible_offset + RunLen(run)
             i == w.i + 1
  <2>1. v4 = [w EXCEPT !.runs = runs, !.i = i, !.from = from,
                       !.state = "deleting", !.visible_offset = visible]
    OBVIOUS
  <2> HIDE DEF v4, runs, from, visible, i
  <2>2. v4 = [runs |-> runs,
              i |-> i,
              state |-> "deleting",
              from |-> from,
              leaf_offset |-> w.leaf_offset,
              visible_offset |-> visible,
              ranges |-> w.ranges,
              done |-> w.done,
              sound |-> w.sound]
    BY <1>1, <2>1 DEF IsWalk
  <2>3. IsWalk(v4) /\ v4.runs = runs /\ v4.i = i /\ v4.sound = w.sound
    BY <2>2, RecordIsWalk
  <2>4. w.sound => w.i \in 1 .. Len(w.runs)
    BY <1>3, <1>6
  <2>5. IsNextWalk(v4, w)
    BY <2>3, <2>4 DEF IsNextWalk, i, runs
  <2>6. QED
    BY <2>5, WalkGoesOn
<1>7. KeepsMarks(order, v5, marks)
  <2> DEFINE leaf == w.leaf_offset + RunLen(run)
             visible == w.visible_offset + RunLen(run)
             ranges == EndRange(w)
             i == w.i + 1
  <2>1. v5 = [w EXCEPT !.i = i, !.ranges = ranges, !.state = "skipping",
                       !.leaf_offset = leaf, !.visible_offset = visible]
    OBVIOUS
  <2> HIDE DEF v5, leaf, visible, ranges, i
  <2>2. v5 = [runs |-> w.runs,
              i |-> i,
              state |-> "skipping",
              from |-> w.from,
              leaf_offset |-> leaf,
              visible_offset |-> visible,
              ranges |-> ranges,
              done |-> w.done,
              sound |-> w.sound]
    BY <1>1, <2>1 DEF IsWalk
  <2>3. IsWalk(v5) /\ v5.runs = w.runs /\ v5.i = i /\ v5.sound = w.sound
    BY <2>2, RecordIsWalk
  <2>4. IsNextWalk(v5, w)
    BY <2>3 DEF IsNextWalk, i
  <2>5. QED
    BY <2>4, WalkGoesOn
<1>8. ASSUME ~(w.i > Len(w.runs)), ~(run.end <= known)
      PROVE  KeepsMarks(order, v6, marks)
  <2>1. w.sound => /\ w.i \in 1 .. Len(w.runs)
                   /\ up_to \in Int /\ up_to <= RunLen(w.runs[w.i])
    <3>1. SUFFICES ASSUME w.sound
                   PROVE  /\ w.i \in 1 .. Len(w.runs)
                          /\ up_to \in Int /\ up_to <= RunLen(run)
      OBVIOUS
    <3> HIDE DEF run, known
    <3>2. QED
      BY <3>1, <1>3, <1>8
  <2> DEFINE ranges == AddRange(w, DeletingFrom(w), w.visible_offset + up_to)
             visible == x.visible_offset + up_to
             state == "skipping"
  <2>2. v6 = [x EXCEPT !.ranges = ranges, !.state = state,
                       !.visible_offset = visible]
    OBVIOUS
  <2> HIDE DEF up_to, v6, ranges, visible, state
  <2>3. KeepsMarks(order, x, marks)
    BY <2>1, LeafRangeDeleted
  <2> HIDE DEF x
  <2>4. IsSameWalk(v6, x)
    BY <2>2, <2>3, WalkNoted DEF KeepsMarks
  <2>5. QED
    BY <2>3, <2>4, SameWalk
<1>9. ASSUME w.i = IdxAtAnchor(w.runs, d.end, "left")
      PROVE  KeepsMarks(order, VisitLastLeaf(w, d), marks)
  BY <1>9, LastLeafVisited
<1> HIDE DEF v1, v3, v4, v5, v6, run, known
<1>10. KeepsMarks(order, v, marks)
  BY <1>2, <1>4, <1>5, <1>6, <1>7, <1>8, <1>9
<1>11. QED
  BY <1>10 DEF v

(* The walks exist, and all of them keep the document's characters.        *)
NextWalks(walks, d) ==
    {IF walk.done THEN walk ELSE VisitLeaf(walk, d) : walk \in walks}

IsWalks(f, first, d, n) ==
    f = [k \in 0 .. n |->
           IF k = 0 THEN {first} ELSE NextWalks(f[k - 1], d)]

LEMMA WalksExist ==
    ASSUME NEW first, NEW d, NEW n \in Nat
    PROVE  \E f : IsWalks(f, first, d, n)
<1> DEFINE S == {k \in Nat : \E f : IsWalks(f, first, d, k)}
<1>1. 0 \in S
  <2> DEFINE f == [k \in 0 .. 0 |-> {first}]
  <2>1. f = [k \in 0 .. 0 |->
               IF k = 0 THEN {first} ELSE NextWalks(f[k - 1], d)]
    OBVIOUS
  <2>2. IsWalks(f, first, d, 0)
    BY <2>1 DEF IsWalks
  <2> HIDE DEF f
  <2>3. QED
    BY <2>2
<1>2. ASSUME NEW k \in S \cap Nat PROVE k + 1 \in S
  <2>1. PICK f : IsWalks(f, first, d, k)
    OBVIOUS
  <2> DEFINE last == NextWalks(f[k], d)
             g == [j \in 0 .. k + 1 |-> IF j = k + 1 THEN last ELSE f[j]]
             h == [j \in 0 .. k + 1 |->
                     IF j = 0 THEN {first} ELSE NextWalks(g[j - 1], d)]
  <2>2. \A j \in 0 .. k :
           f[j] = IF j = 0 THEN {first} ELSE NextWalks(f[j - 1], d)
    BY <2>1 DEF IsWalks
  <2>3. ASSUME NEW j \in 0 .. k + 1 PROVE g[j] = h[j]
    <3>1. CASE j = k + 1
      <4>1. j - 1 = k /\ k \in 0 .. k + 1 /\ k # k + 1 /\ j # 0
        BY <3>1
      <4>2. g[j - 1] = f[k] /\ g[j] = last
        BY <3>1, <4>1
      <4>3. h[j] = NextWalks(g[j - 1], d)
        BY <4>1
      <4>4. QED
        BY <4>2, <4>3
    <3>2. CASE j # k + 1 /\ j # 0
      <4>1. j - 1 \in 0 .. k + 1 /\ j - 1 # k + 1 /\ j \in 0 .. k
        BY <3>2
      <4>2. g[j - 1] = f[j - 1] /\ g[j] = f[j]
        BY <3>2, <4>1
      <4>3. h[j] = NextWalks(g[j - 1], d)
        BY <3>2
      <4>4. f[j] = NextWalks(f[j - 1], d)
        BY <2>2, <3>2, <4>1
      <4>5. QED
        BY <4>2, <4>3, <4>4
    <3>3. CASE j # k + 1 /\ j = 0
      <4>1. g[j] = f[j] /\ h[j] = {first} /\ 0 \in 0 .. k
        BY <3>3
      <4>2. QED
        BY <2>2, <3>3, <4>1
    <3>4. QED
      BY <3>1, <3>2, <3>3
  <2>4. g = h
    BY <2>3
  <2>5. IsWalks(g, first, d, k + 1)
    BY <2>4 DEF IsWalks
  <2> HIDE DEF g
  <2>6. QED
    BY <2>5
<1> HIDE DEF S
<1>3. n \in S
  BY <1>1, <1>2, Induction
<1>4. QED
  BY <1>3 DEF S

LEMMA WalksKeepMarks ==
    ASSUME NEW order, KeepsRuns(order),
           NEW marks, NEW first, KeepsMarks(order, first, marks), NEW d,
           d.end.offset \in Nat,
           \E c \in marks : AnchoredAt(d.end, "left", c),
           d.version_map \in [ReplicaIds -> Nat],
           NEW n \in Nat, NEW f, IsWalks(f, first, d, n)
    PROVE  f[n] # {} /\ \A w \in f[n] : KeepsMarks(order, w, marks)
<1> DEFINE Keep(walks) == walks # {} /\ \A w \in walks : KeepsMarks(order, w, marks)
           S == {k \in Nat : k <= n => Keep(f[k])}
<1>1. \A k \in 0 .. n :
         f[k] = IF k = 0 THEN {first} ELSE NextWalks(f[k - 1], d)
  BY DEF IsWalks
<1>2. 0 \in S
  <2>1. f[0] = {first}
    BY <1>1
  <2>2. QED
    BY <2>1
<1>3. ASSUME NEW k \in S \cap Nat PROVE k + 1 \in S
  <2>1. SUFFICES ASSUME k + 1 <= n PROVE Keep(f[k + 1])
    OBVIOUS
  <2>2. Keep(f[k])
    BY <2>1
  <2>3. f[k + 1] = NextWalks(f[k], d)
    <3>1. k + 1 \in 0 .. n /\ k + 1 # 0 /\ (k + 1) - 1 = k
      BY <2>1
    <3>2. QED
      BY <3>1, <1>1
  <2>4. NextWalks(f[k], d) # {}
    BY <2>2 DEF NextWalks
  <2>5. ASSUME NEW v \in NextWalks(f[k], d) PROVE KeepsMarks(order, v, marks)
    <3>1. PICK w \in f[k] : v = IF w.done THEN w ELSE VisitLeaf(w, d)
      BY DEF NextWalks
    <3>2. KeepsMarks(order, w, marks)
      BY <2>2
    <3>3. KeepsMarks(order, VisitLeaf(w, d), marks)
      BY <3>2, LeafVisited
    <3>4. QED
      BY <3>1, <3>2, <3>3
  <2>6. QED
    BY <2>3, <2>4, <2>5
<1> HIDE DEF S
<1>4. n \in S
  BY <1>2, <1>3, Induction
<1>5. QED
  BY <1>4 DEF S

(* A deletion that is merged takes no character and brings none.           *)
LEMMA MergeDeletionKeeps ==
    ASSUME NEW order, KeepsRuns(order),
           NEW runs, WellFormed(order, runs),
           \A c, e \in DocumentMarks(runs) :
              c.id = e.id /\ c.at = e.at => c.ts = e.ts,
           NEW d, d.start.offset \in Nat, d.end.offset \in Nat,
           d.start.id = d.end.id /\ d.start.ts = d.end.ts
              => d.start.offset < d.end.offset,
           d.version_map \in [ReplicaIds -> Nat],
           HasLeafAt(runs, d.start, "right"), HasLeafAt(runs, d.end, "left"),
           MergeDeletion(runs, d).sound
    PROVE  /\ WellFormed(order, MergeDeletion(runs, d).runs)
           /\ DocumentMarks(MergeDeletion(runs, d).runs) = DocumentMarks(runs)
<1> DEFINE i == IdxAtAnchor(runs, d.start, "right")
           marks == DocumentMarks(runs)
           first == VisitFirstLeaf(runs, d)
           N == 2 * Len(runs)
           f == CHOOSE g : IsWalks(g, first, d, N)
           end == CHOOSE walk \in f[N] : TRUE
           result == MergeDeletion(runs, d)
<1>1. /\ runs \in Seq(Runs) /\ Len(runs) \in Nat /\ DOMAIN runs = 1 .. Len(runs)
  BY LenProperties DEF WellFormed
<1>2. result = IF ContainsAnchor(runs[i], d.end)
               THEN MergeDeletionInLeaf(runs, d, i)
               ELSE [runs |-> end.runs, ranges |-> end.ranges,
                     sound |-> end.sound]
  BY DEF MergeDeletion, IsWalks, NextWalks
<1>3. /\ i \in 1 .. Len(runs) /\ runs[i] \in Runs
      /\ runs[i].id = d.start.id /\ runs[i].ts = d.start.ts
      /\ runs[i].start <= d.start.offset /\ d.start.offset < runs[i].end
  BY <1>1, LeafAtAnchor
<1>4. PICK e \in marks : AnchoredAt(d.end, "left", e)
  BY <1>1, HasLeafIffMark
<1> HIDE DEF result
<1>5. CASE ContainsAnchor(runs[i], d.end)
  <2> DEFINE from == d.start.offset - runs[i].start
             to == d.end.offset - runs[i].start
  <2>1. result = MergeDeletionInLeaf(runs, d, i)
    BY <1>2, <1>5
  <2>2. result.runs = runs \/ result.runs = DeleteRangeInLeaf(runs, i, from, to)
    BY <2>1 DEF MergeDeletionInLeaf
  <2> HIDE DEF i
  <2>3. /\ runs[i].id = d.end.id /\ runs[i].start < d.end.offset
        /\ d.end.offset <= runs[i].end
    BY <1>5 DEF ContainsAnchor
  <2>4. /\ runs[i].start \in Nat /\ runs[i].end \in Nat
        /\ RunLen(runs[i]) = runs[i].end - runs[i].start
    BY <1>3 DEF Runs, RunType, RunLen
  <2>5. runs[i].ts = d.end.ts
    <3> DEFINE c == [id |-> runs[i].id, at |-> d.end.offset - 1,
                     ts |-> runs[i].ts, lam |-> runs[i].lam]
    <3>1. d.end.offset - 1 \in runs[i].start .. runs[i].end - 1
      BY <2>3, <2>4
    <3>2. c \in RunMarks(runs[i])
      BY <3>1 DEF RunMarks
    <3>3. c \in marks
      BY <3>2, <1>1, <1>3 DEF DocumentMarks
    <3>4. e.id = d.end.id /\ e.ts = d.end.ts /\ e.at + 1 = d.end.offset
      BY <1>4 DEF AnchoredAt
    <3>5. e.at \in Nat
      <4>1. PICK k \in 1 .. Len(runs) : e \in RunMarks(runs[k])
        BY <1>1 DEF DocumentMarks
      <4>2. e \in Mark
        BY <4>1, <1>1, ElementOfSeq, RunLength, MarkOfRun
      <4>3. QED
        BY <4>2 DEF Mark
    <3>6. c.id = e.id /\ c.at = e.at
      BY <2>3, <3>4, <3>5
    <3>7. c.ts = runs[i].ts
      OBVIOUS
    <3> HIDE DEF c
    <3>8. c.ts = e.ts
      BY <3>3, <3>6
    <3>9. QED
      BY <3>4, <3>7, <3>8
  <2>6. d.start.offset < d.end.offset
    BY <1>3, <2>3, <2>5
  <2>7. from \in Nat /\ to \in Nat /\ from < to /\ to <= RunLen(runs[i])
    BY <1>3, <2>3, <2>4, <2>6
  <2> HIDE DEF from, to
  <2>8. /\ WellFormed(order, DeleteRangeInLeaf(runs, i, from, to))
        /\ DocumentMarks(DeleteRangeInLeaf(runs, i, from, to)) = marks
    BY <1>3, <2>7, RangeDeletedInLeaf
  <2>9. WellFormed(order, result.runs) /\ DocumentMarks(result.runs) = marks
    BY <2>2, <2>8
  <2>10. QED
    BY <2>9 DEF result
<1>6. CASE ~ContainsAnchor(runs[i], d.end)
  <2>1. result.runs = end.runs /\ result.sound = end.sound
    BY <1>2, <1>6
  <2>2. N \in Nat
    BY <1>1
  <2> HIDE DEF first, N
  <2>3. IsWalks(f, first, d, N)
    BY <2>2, WalksExist
  <2>4. KeepsMarks(order, first, marks)
    BY FirstLeafVisited DEF first
  <2> HIDE DEF f
  <2>5. \E c \in marks : AnchoredAt(d.end, "left", c)
    BY <1>4
  <2> HIDE DEF marks
  <2>6. f[N] # {} /\ \A w \in f[N] : KeepsMarks(order, w, marks)
    BY <2>2, <2>3, <2>4, <2>5, WalksKeepMarks
  <2>7. end \in f[N]
    BY <2>6
  <2> HIDE DEF end
  <2>8. KeepsMarks(order, end, marks)
    BY <2>6, <2>7
  <2>9. end.sound
    BY <2>1 DEF result
  <2>10. WellFormed(order, end.runs) /\ DocumentMarks(end.runs) = marks
    BY <2>8, <2>9 DEF KeepsMarks
  <2>11. QED
    BY <2>1, <2>10 DEF result, marks
<1>7. QED
  BY <1>5, <1>6
==============================================================================
