----------------------------- MODULE OrderProofs -----------------------------
(***************************************************************************)
(* Theorems about the order of characters, for any number of replicas: all *)
(* documents are parts of one order, so that two replicas never disagree   *)
(* about the order of two characters.  Then what the text of a document is *)
(* made of, the text that a deletion cuts out, and where an anchor is      *)
(* resolved to in any document that has its character.                     *)
(***************************************************************************)
EXTENDS DocumentProofs, OrderInvariant, AnchorProperties, FiniteSetTheorems

------------------------------------------------------------------------------
(* The order of runs, on marks.                                            *)
LEMMA SortsAfterIsStrict ==
    ASSUME NEW c \in Mark, NEW e \in Mark, NEW f \in Mark
    PROVE  /\ ~SortsAfter(c, c)
           /\ SortsAfter(c, e) => ~SortsAfter(e, c)
           /\ SortsAfter(c, e) /\ SortsAfter(e, f) => SortsAfter(c, f)
           /\ \/ SortsAfter(c, e) \/ SortsAfter(e, c)
              \/ c.lam = e.lam /\ c.id = e.id
<1>1. /\ c.lam \in Nat /\ e.lam \in Nat /\ f.lam \in Nat
      /\ c.id \in Nat /\ e.id \in Nat /\ f.id \in Nat
  BY ReplicaIdsAssumption DEF Mark
<1>2. QED
  BY <1>1 DEF SortsAfter

(* It looks at nothing but the two keys.                                   *)
LEMMA SortsAfterOfSame ==
    ASSUME NEW c, NEW d, NEW e, c.lam = d.lam, c.id = d.id
    PROVE  /\ SortsAfter(c, e) <=> SortsAfter(d, e)
           /\ SortsAfter(e, c) <=> SortsAfter(e, d)
BY DEF SortsAfter

(* One mark is older than another: by its clock, then by its position.     *)
IsOlder(c, e) == c.lam < e.lam \/ (c.lam = e.lam /\ c.at < e.at)

LEMMA OldestMark ==
    ASSUME NEW marks \in SUBSET Mark, marks # {}
    PROVE  \E c \in marks : \A e \in marks : ~IsOlder(e, c)
<1> DEFINE Lams == {c.lam : c \in marks}
<1>1. \A c \in marks : c.lam \in Nat /\ c.at \in Nat
  BY DEF Mark
<1>2. Lams \subseteq Nat /\ Lams # {}
  BY <1>1
<1>3. PICK lam \in Lams : \A k \in Lams : lam <= k
  <2> HIDE DEF Lams
  <2> QED BY <1>2, LeastNumber
<1> DEFINE Ats == {c.at : c \in {e \in marks : e.lam = lam}}
<1>4. Ats \subseteq Nat /\ Ats # {}
  BY <1>1, <1>3
<1>5. PICK at \in Ats : \A k \in Ats : at <= k
  <2> HIDE DEF Ats
  <2> QED BY <1>4, LeastNumber
<1>6. PICK c \in marks : c.lam = lam /\ c.at = at
  BY <1>5
<1>7. ASSUME NEW e \in marks PROVE ~IsOlder(e, c)
  <2>1. e.lam \in Nat /\ lam \in Nat /\ e.at \in Nat /\ at \in Nat
    BY <1>1, <1>6
  <2>2. lam <= e.lam
    BY <1>3
  <2>3. e.lam = lam => at <= e.at
    BY <1>5
  <2>4. QED
    BY <1>6, <2>1, <2>2, <2>3 DEF IsOlder
<1>8. QED
  BY <1>7

------------------------------------------------------------------------------
(* A text put into an order: after the marks in front, before the others.   *)
OrderWith(order, marks, new, InFront) ==
    {p \in Mark \X Mark :
        \/ /\ p[1].id = p[2].id /\ p[1].ts = p[2].ts /\ p[1].lam = p[2].lam
           /\ p[1].at < p[2].at
        \/ p[1] \in marks /\ p[2] \in marks /\ p \in order
        \/ p[1] \in InFront /\ p[2] \in new
        \/ p[1] \in new /\ p[2] \in marks \ InFront}

(* The new marks are of one run, later than any other mark of that run.    *)
IsOneRun(new, marks) ==
    /\ \A c, e \in new : c.id = e.id /\ c.ts = e.ts /\ c.lam = e.lam
    /\ \A c \in new, e \in marks :
          c.id = e.id /\ c.ts = e.ts /\ c.lam = e.lam => e.at < c.at

IsFront(order, marks, InFront) ==
    /\ InFront \subseteq marks
    /\ \A c \in marks, e \in InFront : <<c, e>> \in order => c \in InFront

IsExtended(order, marks, new, InFront, next) ==
    /\ \A c, e \in marks : <<c, e>> \in next <=> <<c, e>> \in order
    /\ \A c \in marks, e \in new :
          /\ <<c, e>> \in next <=> c \in InFront
          /\ <<e, c>> \in next <=> c \notin InFront
    /\ \A c, e \in new : <<c, e>> \in next <=> c.at < e.at

LEMMA OrderIsExtended ==
    ASSUME NEW order, KeepsRuns(order),
           NEW marks \in SUBSET Mark, NEW new \in SUBSET Mark,
           marks \cap new = {}, IsOneRun(new, marks),
           NEW InFront, IsFront(order, marks, InFront),
           \A c \in marks, e \in new :
              c.id = e.id /\ c.ts = e.ts /\ c.lam = e.lam => c \in InFront
    PROVE  LET next == OrderWith(order, marks, new, InFront)
           IN  KeepsRuns(next) /\ IsExtended(order, marks, new, InFront, next)
<1> DEFINE next == OrderWith(order, marks, new, InFront)
<1>1. \A c, e \in Mark :
         <<c, e>> \in next <=>
           \/ c.id = e.id /\ c.ts = e.ts /\ c.lam = e.lam /\ c.at < e.at
           \/ c \in marks /\ e \in marks /\ <<c, e>> \in order
           \/ c \in InFront /\ e \in new
           \/ c \in new /\ e \in marks \ InFront
  BY DEF OrderWith
<1> HIDE DEF next
<1>2. KeepsRuns(next)
  BY <1>1 DEF KeepsRuns
<1>3. ASSUME NEW c \in marks, NEW e \in marks
      PROVE  <<c, e>> \in next <=> <<c, e>> \in order
  <2>1. c \in Mark /\ e \in Mark /\ c \notin new /\ e \notin new
    OBVIOUS
  <2>2. c.id = e.id /\ c.ts = e.ts /\ c.lam = e.lam /\ c.at < e.at
          => <<c, e>> \in order
    BY <2>1 DEF KeepsRuns
  <2>3. QED
    BY <1>1, <2>1, <2>2
<1>4. ASSUME NEW c \in marks, NEW e \in new
      PROVE  /\ <<c, e>> \in next <=> c \in InFront
             /\ <<e, c>> \in next <=> c \notin InFront
  <2>1. c \in Mark /\ e \in Mark /\ c \notin new /\ e \notin marks
    OBVIOUS
  <2>2. c.at \in Nat /\ e.at \in Nat
    BY <2>1 DEF Mark
  <2>3. ~(e.id = c.id /\ e.ts = c.ts /\ e.lam = c.lam /\ e.at < c.at)
    BY <2>2 DEF IsOneRun
  <2>4. e \notin InFront
    BY <2>1 DEF IsFront
  <2>5. QED
    BY <1>1, <2>1, <2>3, <2>4
<1>5. ASSUME NEW c \in new, NEW e \in new
      PROVE  <<c, e>> \in next <=> c.at < e.at
  <2>1. /\ c \in Mark /\ e \in Mark /\ c \notin marks /\ e \notin marks
        /\ c.id = e.id /\ c.ts = e.ts /\ c.lam = e.lam
    BY DEF IsOneRun
  <2>2. c \notin InFront
    BY <2>1 DEF IsFront
  <2>3. QED
    BY <1>1, <2>1, <2>2
<1>6. QED
  BY <1>2, <1>3, <1>4, <1>5 DEF IsExtended, next

LEMMA ExtensionIsStrict ==
    ASSUME NEW order, NEW marks \in SUBSET Mark, NEW new \in SUBSET Mark,
           marks \cap new = {}, IsOneRun(new, marks),
           IsStrictOrder(order, marks),
           NEW InFront, IsFront(order, marks, InFront),
           NEW next, IsExtended(order, marks, new, InFront, next)
    PROVE  IsStrictOrder(next, marks \cup new)
<1>1. \A c \in new : c.at \in Nat
  BY DEF Mark
<1>2. \A c, e \in new : c.at = e.at => c = e
  BY DEF IsOneRun, Mark
<1>3. ASSUME NEW c \in marks \cup new, NEW e \in marks \cup new,
             <<c, e>> \in next
      PROVE  <<e, c>> \notin next
  <2>1. CASE c \in marks /\ e \in marks
    BY <1>3, <2>1 DEF IsExtended, IsStrictOrder
  <2>2. CASE c \in marks /\ e \in new
    BY <1>3, <2>2 DEF IsExtended
  <2>3. CASE c \in new /\ e \in marks
    BY <1>3, <2>3 DEF IsExtended
  <2>4. CASE c \in new /\ e \in new
    <3>1. c.at < e.at
      BY <1>3, <2>4 DEF IsExtended
    <3>2. ~(e.at < c.at)
      BY <1>1, <2>4, <3>1
    <3>3. QED
      BY <2>4, <3>2 DEF IsExtended
  <2>5. QED
    BY <2>1, <2>2, <2>3, <2>4
<1>4. ASSUME NEW c \in marks \cup new, NEW e \in marks \cup new
      PROVE  c = e \/ <<c, e>> \in next \/ <<e, c>> \in next
  <2>1. CASE c \in marks /\ e \in marks
    BY <2>1 DEF IsExtended, IsStrictOrder
  <2>2. CASE c \in marks /\ e \in new
    BY <2>2 DEF IsExtended
  <2>3. CASE c \in new /\ e \in marks
    BY <2>3 DEF IsExtended
  <2>4. CASE c \in new /\ e \in new
    <3>1. c.at < e.at \/ e.at < c.at \/ c.at = e.at
      BY <1>1, <2>4
    <3>2. QED
      BY <1>2, <2>4, <3>1 DEF IsExtended
  <2>5. QED
    BY <2>1, <2>2, <2>3, <2>4
<1>5. ASSUME NEW c \in marks \cup new, NEW e \in marks \cup new,
             NEW f \in marks \cup new, <<c, e>> \in next, <<e, f>> \in next
      PROVE  <<c, f>> \in next
  <2>1. CASE c \in marks /\ e \in marks /\ f \in marks
    BY <1>5, <2>1 DEF IsExtended, IsStrictOrder
  <2>2. CASE c \in marks /\ e \in marks /\ f \in new
    <3>1. <<c, e>> \in order /\ e \in InFront
      BY <1>5, <2>2 DEF IsExtended
    <3>2. c \in InFront
      BY <2>2, <3>1 DEF IsFront
    <3>3. QED
      BY <2>2, <3>2 DEF IsExtended
  <2>3. CASE c \in marks /\ e \in new /\ f \in marks
    <3>1. c \in InFront /\ f \notin InFront
      BY <1>5, <2>3 DEF IsExtended
    <3>2. <<f, c>> \notin order /\ c # f
      BY <2>3, <3>1 DEF IsFront
    <3>3. <<c, f>> \in order
      BY <2>3, <3>2 DEF IsStrictOrder
    <3>4. QED
      BY <2>3, <3>3 DEF IsExtended
  <2>4. CASE c \in new /\ e \in marks /\ f \in marks
    <3>1. e \notin InFront /\ <<e, f>> \in order
      BY <1>5, <2>4 DEF IsExtended
    <3>2. f \notin InFront
      BY <2>4, <3>1 DEF IsFront
    <3>3. QED
      BY <2>4, <3>2 DEF IsExtended
  <2>5. CASE c \in marks /\ e \in new /\ f \in new
    <3>1. c \in InFront
      BY <1>5, <2>5 DEF IsExtended
    <3>2. QED
      BY <2>5, <3>1 DEF IsExtended
  <2>6. CASE c \in new /\ e \in marks /\ f \in new
    BY <1>5, <2>6 DEF IsExtended
  <2>7. CASE c \in new /\ e \in new /\ f \in marks
    <3>1. f \notin InFront
      BY <1>5, <2>7 DEF IsExtended
    <3>2. QED
      BY <2>7, <3>1 DEF IsExtended
  <2>8. CASE c \in new /\ e \in new /\ f \in new
    <3>1. c.at < e.at /\ e.at < f.at
      BY <1>5, <2>8 DEF IsExtended
    <3>2. c.at < f.at
      BY <1>1, <2>8, <3>1
    <3>3. QED
      BY <2>8, <3>2 DEF IsExtended
  <2>9. QED
    BY <2>1, <2>2, <2>3, <2>4, <2>5, <2>6, <2>7, <2>8
<1>6. QED
  BY <1>3, <1>4, <1>5 DEF IsStrictOrder

------------------------------------------------------------------------------
(* The marks of documents.                                                 *)
DocumentsOK ==
    /\ ClockTypes
    /\ ClockInvariant
    /\ TextInvariant
    /\ TextsOK
    /\ DocumentsAreSentText

LEMMA DocumentsAreOK == DocumentInvariant => DocumentsOK
BY TypesOfClocks, TextsAreOK DEF DocumentInvariant, DocumentsOK

LEMMA SentMarksAreMarks ==
    ASSUME TextsOK
    PROVE  SentMarks \subseteq Mark
<1>1. SUFFICES ASSUME NEW c \in SentMarks PROVE c \in Mark
  OBVIOUS
<1>2. PICK t \in Texts : c \in TextMarks(t) /\ IsIn(c, t)
  BY SentMark
<1>3. t.by \in ReplicaIds /\ t.ts \in Nat /\ t.lam \in Nat
  BY DEF TextsOK
<1>4. c.at \in Nat
  BY <1>2 DEF IsIn
<1>5. c = [id |-> t.by, at |-> c.at, ts |-> t.ts, lam |-> t.lam]
  BY <1>2 DEF TextMarks
<1>6. QED
  BY <1>3, <1>4, <1>5 DEF Mark

LEMMA HeldMarks ==
    ASSUME DocumentsOK, NEW r \in replicas
    PROVE  /\ DocumentMarks(run_tree[r]) \subseteq SentMarks
           /\ \A c \in SentMarks :
                 c \in DocumentMarks(run_tree[r]) <=> c.at < version_map[r][c.id]
BY DEF DocumentsOK, DocumentsAreSentText

(* Marks of one inserter are of one run by either clock.                   *)
LEMMA MarksOfOneRun ==
    ASSUME DocumentsOK, NEW c \in SentMarks, NEW e \in SentMarks, c.id = e.id
    PROVE  c.ts = e.ts <=> c.lam = e.lam
<1>1. TextsOK /\ TextsAreInOrder /\ TextsAreDisjoint
  BY DEF DocumentsOK, TextInvariant
<1>2. PICK t \in Texts : IsIn(c, t)
  BY <1>1, SentMark
<1>3. PICK u \in Texts : IsIn(e, u)
  BY <1>1, SentMark
<1>4. t.start \in Nat /\ u.start \in Nat /\ t.end \in Nat /\ u.end \in Nat
  BY <1>1 DEF TextsOK
<1>5. t.by = u.by
  BY <1>2, <1>3 DEF IsIn
<1>6. t = u \/ t.end <= u.start \/ u.end <= t.start
  BY <1>1, <1>5 DEF TextsAreDisjoint
<1>7. t = u \/ t.start < u.start \/ u.start < t.start
  BY <1>2, <1>3, <1>4, <1>6 DEF IsIn
<1>8. t.ts = u.ts <=> t.lam = u.lam
  BY <1>1, <1>5, <1>7 DEF TextsAreInOrder
<1>9. QED
  BY <1>2, <1>3, <1>8 DEF IsIn

(* A character comes with a higher clock than the one it was typed after,  *)
(* if it is not of the same inserter's run.                                *)
ComesAfter(c, p) ==
    p.lam < c.lam \/ (p.id = c.id /\ p.lam = c.lam /\ p.at < c.at)

LEMMA AnchorComesBefore ==
    ASSUME DocumentsOK, NEW m \in insertions, NEW p \in SentMarks,
           m.anchor # ZeroAnchor, AnchoredAt(m.anchor, "left", p),
           NEW c \in TextMarks(m), c.at = m.start
    PROVE  ComesAfter(c, p) /\ m.anchor \in AnchorType
<1>1. TextsOK /\ TextInvariant
  BY DEF DocumentsOK
<1>2. /\ m.anchor \in AnchorType
      /\ \E t \in Texts :
           /\ IsAnchoredIn(m.anchor, "left", t)
           /\ \/ t.lam < m.lam
              \/ t.by = m.by /\ m.anchor.offset <= m.start
  BY <1>1 DEF TextInvariant, InsertionsAreAnchored
<1>3. PICK t \in Texts :
         /\ IsAnchoredIn(m.anchor, "left", t)
         /\ \/ t.lam < m.lam
            \/ t.by = m.by /\ m.anchor.offset <= m.start
  BY <1>2
<1>4. PICK u \in Texts : IsIn(p, u)
  BY <1>1, SentMark
<1>5. m \in Texts
  BY DEF Texts
<1>6. /\ t.start \in Nat /\ t.end \in Nat /\ t.lam \in Nat
      /\ u.start \in Nat /\ u.end \in Nat /\ u.lam \in Nat
      /\ m.start \in Nat /\ m.end \in Nat /\ m.lam \in Nat
  BY <1>1, <1>5 DEF TextsOK
<1>7. IsIn(c, m)
  BY <1>6, MarkOfText
<1>8. /\ t.by = p.id /\ p.at + 1 = m.anchor.offset
      /\ t.start < m.anchor.offset /\ m.anchor.offset <= t.end
  BY <1>3 DEF AnchoredAt, IsAnchoredIn
<1>9. u.by = p.id /\ p.lam = u.lam /\ p.at \in Nat
      /\ u.start <= p.at /\ p.at < u.end
  BY <1>4 DEF IsIn
<1>10. t = u \/ t.end <= u.start \/ u.end <= t.start
  BY <1>1, <1>8, <1>9 DEF TextInvariant, TextsAreDisjoint
<1>11. t = u
  BY <1>6, <1>8, <1>9, <1>10
<1>12. CASE t.lam < m.lam
  BY <1>2, <1>7, <1>9, <1>11, <1>12 DEF IsIn, ComesAfter
<1>13. CASE t.by = m.by /\ m.anchor.offset <= m.start
  <2>1. t.start < m.start
    BY <1>6, <1>8, <1>9, <1>13
  <2>2. t.lam <= m.lam
    BY <1>1, <1>5, <1>13, <2>1 DEF TextInvariant, TextsAreInOrder
  <2>3. p.at < c.at
    BY <1>6, <1>8, <1>9, <1>13
  <2>4. c.id = p.id /\ c.lam = m.lam
    BY <1>7, <1>8, <1>13 DEF IsIn
  <2>5. QED
    BY <1>2, <1>6, <1>9, <1>11, <2>2, <2>3, <2>4 DEF ComesAfter
<1>14. QED
  BY <1>3, <1>12, <1>13

(* What a character was typed after is in every document it is in.         *)
LEMMA PredecessorIsHeld ==
    ASSUME DocumentsOK, AnchorsAreCounted, NEW r \in replicas,
           NEW c \in DocumentMarks(run_tree[r]), NEW p \in SentMarks,
           IsTypedAfter(c, p)
    PROVE  p \in DocumentMarks(run_tree[r]) /\ ComesAfter(c, p)
<1>1. TextsOK /\ ClockTypes
  BY DEF DocumentsOK
<1>2. c \in SentMarks /\ c.at < version_map[r][c.id]
  BY HeldMarks
<1>3. c \in Mark /\ p \in Mark
  BY <1>1, <1>2, SentMarksAreMarks
<1>4. /\ c.at \in Nat /\ p.at \in Nat /\ c.id \in ReplicaIds
      /\ p.id \in ReplicaIds /\ r \in ReplicaIds
  BY <1>1, <1>3 DEF Mark, ClockTypes
<1>5. version_map[r][c.id] \in Nat /\ version_map[r][p.id] \in Nat
  BY <1>1, <1>4 DEF ClockTypes
<1>6. CASE p.id = c.id /\ p.ts = c.ts /\ p.lam = c.lam /\ p.at + 1 = c.at
  <2>1. p.at < c.at /\ p.at < version_map[r][p.id]
    BY <1>2, <1>4, <1>5, <1>6
  <2>2. QED
    BY <1>6, <2>1, HeldMarks DEF ComesAfter
<1>7. ASSUME NEW m \in insertions, c \in TextMarks(m), c.at = m.start,
             p.id = m.anchor.id, p.ts = m.anchor.ts,
             p.at + 1 = m.anchor.offset
      PROVE  p \in DocumentMarks(run_tree[r]) /\ ComesAfter(c, p)
  <2>1. m.anchor # ZeroAnchor
    BY <1>4, <1>7 DEF ZeroAnchor
  <2>2. AnchoredAt(m.anchor, "left", p)
    BY <1>7 DEF AnchoredAt
  <2>3. ComesAfter(c, p)
    BY <1>7, <2>1, <2>2, AnchorComesBefore
  <2>4. m \in Texts /\ m.start \in Nat /\ m.end \in Nat
    BY <1>1 DEF Texts, TextsOK
  <2>5. c.id = m.by
    BY <1>7, <2>4, MarkOfText DEF IsIn
  <2>6. HasMergedInsertion(r, m)
    BY <1>2, <1>4, <1>5, <1>7, <2>5 DEF HasMergedInsertion
  <2>7. m.anchor.offset <= version_map[r][m.anchor.id]
    BY <2>1, <2>6 DEF AnchorsAreCounted
  <2>8. p.at < version_map[r][p.id]
    BY <1>4, <1>5, <1>7, <2>7
  <2>9. QED
    BY <2>3, <2>8, HeldMarks
<1>8. QED
  BY <1>6, <1>7 DEF IsTypedAfter

(* The first character of a text was typed after what it is anchored to.   *)
LEMMA FirstPredecessor ==
    ASSUME DocumentsOK, NEW m \in insertions,
           NEW c \in TextMarks(m), c.at = m.start,
           NEW p \in SentMarks, IsTypedAfter(c, p)
    PROVE  m.anchor # ZeroAnchor /\ AnchoredAt(m.anchor, "left", p)
<1>1. TextsOK /\ TextInvariant
  BY DEF DocumentsOK
<1>2. m \in Texts /\ m.start \in Nat /\ m.end \in Nat /\ m.by \in ReplicaIds
      /\ m.start < m.end
  BY <1>1 DEF Texts, TextsOK, DocumentsOK, ClockInvariant, InsertionsAreCounted
<1>3. IsIn(c, m)
  BY <1>2, MarkOfText
<1>4. p.at \in Nat /\ c.id = m.by /\ c.ts = m.ts
  BY <1>1, <1>3, SentMarksAreMarks DEF Mark, IsIn
<1>5. CASE p.id = c.id /\ p.ts = c.ts /\ p.lam = c.lam /\ p.at + 1 = c.at
  <2>1. PICK t \in Texts : IsIn(p, t)
    BY <1>1, SentMark
  <2>2. t.by = m.by /\ t.ts = m.ts /\ t.start < m.start
    <3>1. t.start \in Nat /\ t.start <= p.at
      BY <1>1, <2>1 DEF TextsOK, IsIn
    <3>2. t.by = m.by /\ t.ts = m.ts
      BY <1>4, <1>5, <2>1 DEF IsIn
    <3>3. QED
      BY <1>2, <1>4, <1>5, <3>1, <3>2
  <2>3. m.anchor = [id |-> m.by, offset |-> m.start, ts |-> m.ts]
    BY <1>1, <2>2 DEF TextInvariant, RunsAreContinued
  <2>4. m.by # 0
    BY <1>2, ReplicaIdsAssumption
  <2>5. m.anchor # ZeroAnchor
    BY <2>3, <2>4 DEF ZeroAnchor
  <2>6. QED
    BY <1>4, <1>5, <2>3, <2>5 DEF AnchoredAt
<1>6. ASSUME NEW n \in insertions, c \in TextMarks(n), c.at = n.start,
             p.id = n.anchor.id, p.ts = n.anchor.ts,
             p.at + 1 = n.anchor.offset
      PROVE  m.anchor # ZeroAnchor /\ AnchoredAt(m.anchor, "left", p)
  <2>1. n \in Texts /\ n.start \in Nat /\ n.end \in Nat /\ n.start < n.end
    BY <1>1 DEF Texts, TextsOK, DocumentsOK, ClockInvariant,
                InsertionsAreCounted
  <2>2. n.by = m.by
    BY <1>4, <1>6, <2>1, MarkOfText DEF IsIn
  <2>3. n = m \/ n.end <= m.start \/ m.end <= n.start
    BY <1>1, <1>2, <2>1, <2>2 DEF TextInvariant, TextsAreDisjoint
  <2>4. n = m
    BY <1>2, <1>6, <2>1, <2>3
  <2>5. QED
    BY <1>4, <1>6, <2>4 DEF AnchoredAt, ZeroAnchor
<1>7. QED
  BY <1>5, <1>6 DEF IsTypedAfter

------------------------------------------------------------------------------
(* Merging a text that has its place in the order.  In the document it is  *)
(* put between the marks X and the marks Y.                                *)

(* What the order has before the text, of marks the text does not sort     *)
(* before: all of X, if none of them is wrongly behind its first mark.     *)
LEMMA MarksAreBeforeFirst ==
    ASSUME DocumentsOK, AnchorsAreCounted, NEW order,
           IsOrderOfText(order), NEW r \in replicas, NEW X, NEW Y,
           X \cup Y = DocumentMarks(run_tree[r]), MarksBefore(order, X, Y),
           NEW first \in SentMarks \ DocumentMarks(run_tree[r]),
           \A x \in X : <<first, x>> \in order => ~SortsAfter(x, first)
    PROVE  \A x \in X : <<x, first>> \in order
<1> DEFINE Behind == {x \in X : <<first, x>> \in order}
           held == DocumentMarks(run_tree[r])
<1>1. TextsOK /\ X \subseteq held /\ Y \subseteq held /\ held \subseteq SentMarks
  BY HeldMarks DEF DocumentsOK
<1>2. SentMarks \subseteq Mark
  BY <1>1, SentMarksAreMarks
<1>3. IsStrictOrder(order, SentMarks)
  BY DEF IsOrderOfText
<1>4. ASSUME Behind # {} PROVE FALSE
  <2>1. Behind \in SUBSET Mark
    BY <1>1, <1>2
  <2>2. PICK c \in Behind : \A e \in Behind : ~IsOlder(e, c)
    <3> HIDE DEF Behind
    <3> QED BY <1>4, <2>1, OldestMark
  <2>3. c \in X /\ c \in held /\ c \in SentMarks /\ <<first, c>> \in order
        /\ ~SortsAfter(c, first)
    BY <1>1
  <2>4. CASE \E p \in SentMarks : IsTypedAfter(c, p)
    <3>1. PICK p \in SentMarks : IsTypedAfter(c, p)
      BY <2>4
    <3>2. p \in held /\ ComesAfter(c, p)
      BY <2>3, <3>1, PredecessorIsHeld
    <3>3. IsOlder(p, c)
      BY <3>2 DEF ComesAfter, IsOlder
    <3>4. <<p, c>> \in order
      BY <2>3, <3>1 DEF IsOrderOfText, PlacesAreKept
    <3>5. p \in X
      BY <1>1, <1>3, <2>3, <3>2, <3>4 DEF MarksBefore, IsStrictOrder
    <3>6. <<first, p>> \notin order
      BY <2>2, <3>3, <3>5
    <3>7. <<p, first>> \in order
      BY <1>3, <3>1, <3>2, <3>6 DEF IsStrictOrder
    <3>8. SortsAfter(c, first)
      BY <2>3, <3>1, <3>7 DEF IsOrderOfText, PlacesAreKept
    <3>9. QED
      BY <2>3, <3>8
  <2>5. CASE \A p \in SentMarks : ~IsTypedAfter(c, p)
    BY <2>3, <2>5 DEF IsOrderOfText, FirstPlacesAreKept
  <2>6. QED
    BY <2>4, <2>5
<1>5. QED
  BY <1>1, <1>3, <1>4 DEF IsStrictOrder

(* Behind the first mark of a text, a mark that the text does not sort     *)
(* after is behind the whole text.                                         *)
LEMMA TextIsBefore ==
    ASSUME DocumentsOK, NEW order, KeepsRuns(order), IsOrderOfText(order),
           NEW m \in insertions, NEW z \in SentMarks \ TextMarks(m),
           NEW first \in TextMarks(m), first.at = m.start,
           <<first, z>> \in order, ~SortsAfter(first, z)
    PROVE  \A e \in TextMarks(m) : <<e, z>> \in order
<1> DEFINE M == TextMarks(m)
           After == {e.at : e \in {f \in M : <<f, z>> \notin order}}
<1>1. TextsOK /\ m \in Texts
  BY DEF DocumentsOK, Texts
<1>2. M \subseteq SentMarks /\ SentMarks \subseteq Mark
  BY <1>1, SentMarksAreMarks DEF SentMarks
<1>3. m.start \in Nat /\ m.end \in Nat
  BY <1>1 DEF TextsOK
<1>4. \A e \in M : IsIn(e, m)
  BY <1>3, MarkOfText
<1>5. ASSUME After # {} PROVE FALSE
  <2>1. After \subseteq Nat
    BY <1>4 DEF IsIn
  <2>2. PICK k \in After : \A l \in After : k <= l
    <3> HIDE DEF After
    <3> QED BY <1>5, <2>1, LeastNumber
  <2>3. PICK e \in M : <<e, z>> \notin order /\ e.at = k
    OBVIOUS
  <2>4. e.at \in Nat /\ m.start <= e.at /\ e.at < m.end
    BY <1>4, <2>3 DEF IsIn
  <2>5. e.at # m.start
    <3>1. e = [id |-> m.by, at |-> e.at, ts |-> m.ts, lam |-> m.lam]
          /\ first = [id |-> m.by, at |-> first.at, ts |-> m.ts, lam |-> m.lam]
      BY DEF TextMarks
    <3>2. e # first
      BY <2>3
    <3>3. QED
      BY <3>1, <3>2
  <2> DEFINE d == [id |-> m.by, at |-> e.at - 1, ts |-> m.ts, lam |-> m.lam]
  <2>6. e.at - 1 \in m.start .. m.end - 1
    BY <1>3, <2>4, <2>5
  <2>7. d \in M
    BY <2>6 DEF TextMarks
  <2>8. e.id = m.by /\ e.ts = m.ts /\ e.lam = m.lam
    BY <1>4, <2>3 DEF IsIn
  <2>9. d.id = e.id /\ d.ts = e.ts /\ d.lam = e.lam /\ d.at + 1 = e.at
        /\ d.at < e.at /\ d.at \in Nat
    BY <1>3, <2>4, <2>6, <2>8
  <2>10. SortsAfter(e, z) <=> SortsAfter(first, z)
    <3>1. first.lam = m.lam /\ first.id = m.by
      BY <1>4 DEF IsIn
    <3>2. QED
      BY <2>8, <3>1, SortsAfterOfSame
  <2> HIDE DEF d
  <2>11. <<d, z>> \in order
    <3>1. ~(k <= d.at)
      BY <2>3, <2>4, <2>9
    <3>2. d.at \notin After
      BY <2>2, <3>1
    <3>3. QED
      BY <2>7, <3>2
  <2>12. d \in SentMarks /\ e \in SentMarks /\ e # z
    BY <1>2, <2>3, <2>7
  <2>13. <<z, e>> \in order
    BY <2>3, <2>12 DEF IsOrderOfText, IsStrictOrder
  <2>14. IsTypedAfter(e, d)
    BY <2>9 DEF IsTypedAfter
  <2>15. SortsAfter(e, z)
    BY <2>11, <2>12, <2>13, <2>14 DEF IsOrderOfText, PlacesAreKept
  <2>16. QED
    BY <2>10, <2>15
<1>6. QED
  BY <1>5

(* So the place merge_insertion finds is the text's place in the order.    *)
LEMMA MergedTextFits ==
    ASSUME DocumentsOK, AnchorsAreCounted,
           NEW order, KeepsRuns(order), IsOrderOfText(order),
           NEW r \in replicas, NEW m \in insertions,
           version_map[r][m.by] = m.start, NEW X, NEW Y,
           X \cup Y = DocumentMarks(run_tree[r]), MarksBefore(order, X, Y),
           IsInPlace(order, EditRunRecord(m.by, m.start, m.end, m.ts, m.lam),
                     m.anchor, X, Y)
    PROVE  FitsBetween(order, TextMarks(m), X, Y)
<1> DEFINE M == TextMarks(m)
           held == DocumentMarks(run_tree[r])
           run == EditRunRecord(m.by, m.start, m.end, m.ts, m.lam)
           first == [id |-> m.by, at |-> m.start, ts |-> m.ts, lam |-> m.lam]
<1>1. TextsOK /\ m \in Texts /\ IsStrictOrder(order, SentMarks)
  BY DEF DocumentsOK, Texts, IsOrderOfText
<1>2. X \subseteq held /\ Y \subseteq held /\ held \subseteq SentMarks
      /\ M \subseteq SentMarks /\ SentMarks \subseteq Mark
  BY <1>1, SentMarksAreMarks, HeldMarks DEF SentMarks
<1>3. m.start \in Nat /\ m.end \in Nat /\ m.start < m.end
  BY <1>1 DEF TextsOK, DocumentsOK, ClockInvariant, InsertionsAreCounted
<1>4. first \in M
  <2>1. m.start \in m.start .. m.end - 1
    BY <1>3
  <2>2. QED
    BY <2>1 DEF TextMarks
<1>5. \A e \in M : IsIn(e, m)
  BY <1>3, MarkOfText
<1>6. \A e \in M : e \notin held
  <2>1. \A e \in M : ~(e.at < version_map[r][e.id])
    BY <1>3, <1>5 DEF IsIn
  <2>2. QED
    BY <1>2, <2>1, HeldMarks
<1>7. \A e \in M : e.id = first.id /\ e.ts = first.ts /\ e.lam = first.lam
                   /\ (e = first \/ first.at < e.at)
  <2>1. SUFFICES ASSUME NEW e \in M
                 PROVE  e.id = first.id /\ e.ts = first.ts
                        /\ e.lam = first.lam
                        /\ (e = first \/ first.at < e.at)
    OBVIOUS
  <2>2. e.id = m.by /\ e.ts = m.ts /\ e.lam = m.lam /\ e.at \in Nat
        /\ m.start <= e.at
    BY <1>5 DEF IsIn
  <2>3. e = [id |-> m.by, at |-> e.at, ts |-> m.ts, lam |-> m.lam]
    BY DEF TextMarks
  <2>4. e.at = m.start \/ m.start < e.at
    BY <1>3, <2>2
  <2>5. QED
    BY <2>2, <2>3, <2>4
<1>8. first.at = m.start /\ run.lam = first.lam /\ run.id = first.id
  BY DEF EditRunRecord
<1> HIDE DEF M, held, run, first
<1>9. first \in SentMarks /\ first \notin held
  BY <1>2, <1>4, <1>6
<1>10. \A e \in M : e = first \/ <<first, e>> \in order
  BY <1>2, <1>4, <1>7 DEF KeepsRuns
<1>11. \A z : /\ SortsAfter(run, z) <=> SortsAfter(first, z)
              /\ SortsAfter(z, run) <=> SortsAfter(z, first)
  BY <1>8 DEF SortsAfter
<1>12. /\ \A y \in Y : \E z \in Y :
             ~SortsAfter(first, z) /\ (y = z \/ <<z, y>> \in order)
       /\ m.anchor = ZeroAnchor => \A x \in X : ~SortsAfter(x, first)
       /\ m.anchor # ZeroAnchor =>
             \E c \in X :
                /\ AnchoredAt(m.anchor, "left", c)
                /\ \A y \in Y : <<c, y>> \in order
                /\ \A x \in X :
                     x = c \/ <<x, c>> \in order \/ ~SortsAfter(x, first)
  BY <1>11 DEF IsInPlace, run
<1>13. /\ \A x \in X : <<first, x>> \in order => ~SortsAfter(x, first)
       /\ \A z \in Y : <<z, first>> \in order => SortsAfter(first, z)
  <2>1. CASE m.anchor = ZeroAnchor
    <3>1. \A p \in SentMarks : ~IsTypedAfter(first, p)
      BY <1>4, <1>8, <2>1, FirstPredecessor DEF M
    <3>2. QED
      BY <1>2, <1>9, <1>12, <2>1, <3>1 DEF IsOrderOfText, FirstPlacesAreKept
  <2>2. CASE m.anchor # ZeroAnchor
    <3>1. PICK c \in X :
             /\ AnchoredAt(m.anchor, "left", c)
             /\ \A y \in Y : <<c, y>> \in order
             /\ \A x \in X :
                  x = c \/ <<x, c>> \in order \/ ~SortsAfter(x, first)
      BY <1>12, <2>2
    <3>2. IsTypedAfter(first, c)
      BY <1>4, <1>8, <3>1 DEF IsTypedAfter, AnchoredAt, M
    <3>3. c \in SentMarks
      BY <1>2
    <3>4. /\ <<c, first>> \in order
          /\ \A e \in SentMarks : <<c, e>> \in order /\ <<e, first>> \in order
                                    => SortsAfter(first, e)
      BY <1>9, <3>2, <3>3 DEF IsOrderOfText, PlacesAreKept
    <3>5. ASSUME NEW x \in X, <<first, x>> \in order
          PROVE  ~SortsAfter(x, first)
      <4>1. x \in SentMarks
        BY <1>2
      <4>2. <<c, x>> \in order
        BY <1>1, <1>9, <3>3, <3>4, <3>5, <4>1 DEF IsStrictOrder
      <4>3. x # c /\ <<x, c>> \notin order
        BY <1>1, <3>3, <4>1, <4>2 DEF IsStrictOrder
      <4>4. QED
        BY <3>1, <4>3
    <3>6. QED
      BY <1>2, <3>1, <3>4, <3>5
  <2>3. QED
    BY <2>1, <2>2
<1>14. \A x \in X : <<x, first>> \in order
  BY <1>9, <1>13, MarksAreBeforeFirst DEF held
<1>15. MarksBefore(order, X, M)
  <2>1. SUFFICES ASSUME NEW x \in X, NEW e \in M PROVE <<x, e>> \in order
    BY DEF MarksBefore
  <2>2. x \in SentMarks /\ e \in SentMarks /\ <<x, first>> \in order
    BY <1>2, <1>14
  <2>3. QED
    BY <1>1, <1>9, <1>10, <2>2 DEF IsStrictOrder
<1>16. MarksBefore(order, M, Y)
  <2>1. SUFFICES ASSUME NEW e \in M, NEW y \in Y PROVE <<e, y>> \in order
    BY DEF MarksBefore
  <2>2. PICK z \in Y : ~SortsAfter(first, z) /\ (y = z \/ <<z, y>> \in order)
    BY <1>12
  <2>3. z \in SentMarks \ M /\ z # first
    BY <1>2, <1>6, <1>9
  <2>4. <<first, z>> \in order
    BY <1>1, <1>9, <1>13, <2>2, <2>3 DEF IsStrictOrder
  <2>5. <<e, z>> \in order
    BY <1>4, <1>8, <2>2, <2>3, <2>4, TextIsBefore DEF M
  <2>6. y \in SentMarks /\ e \in SentMarks
    BY <1>2
  <2>7. QED
    BY <1>1, <2>2, <2>3, <2>5, <2>6 DEF IsStrictOrder
<1>17. QED
  BY <1>15, <1>16 DEF FitsBetween, M

------------------------------------------------------------------------------
(* A new text, and what was sent before it.                                *)
FirstMark(m) == [id |-> m.by, at |-> m.start, ts |-> m.ts, lam |-> m.lam]

(* It is of a run of its own, newer than all that its inserter holds ...   *)
IsNewestRun(r, m) ==
    /\ \A c \in SentMarks : c.id = r => c.lam # m.lam /\ c.ts # m.ts
    /\ \A c \in DocumentMarks(run_tree[r]) : c.lam < m.lam

(* ... or it goes on the newest one.                                       *)
ContinuesNewestRun(r, m, a) ==
    /\ a.id = r /\ a.at + 1 = m.start /\ a.ts = m.ts /\ a.lam = m.lam
    /\ \A c \in DocumentMarks(run_tree[r]) : c.lam <= m.lam

LEMMA NewMarks ==
    ASSUME DocumentsOK, NEW r, NEW m, InsertsText(r, m)
    PROVE  /\ r \in replicas /\ r \in ReplicaIds /\ m.by = r
           /\ m.start \in Nat /\ m.end \in Nat /\ m.lam \in Nat /\ m.ts \in Nat
           /\ m.start = version_map[r][r] /\ m.start < m.end
           /\ TextMarks(m) \subseteq Mark
           /\ SentMarks \cap TextMarks(m) = {}
           /\ FirstMark(m) \in TextMarks(m)
           /\ \A e \in TextMarks(m) :
                /\ e.id = r /\ e.ts = m.ts /\ e.lam = m.lam
                /\ e.at \in Nat /\ m.start <= e.at
                /\ e.at = m.start => e = FirstMark(m)
           /\ \A c \in SentMarks : c.id = r => c.at < m.start
           /\ SentMarks' = SentMarks \cup TextMarks(m)
<1>1. /\ r \in replicas /\ r \in ReplicaIds /\ m.by = r
      /\ m.start = version_map[r][r] /\ m.start < m.end
      /\ m.start \in Nat /\ m.end \in Nat /\ m.ts \in Nat /\ m.lam \in Nat
  BY DEF InsertsText
<1>2. SentMarks' = SentMarks \cup TextMarks(m)
  BY MoreTexts DEF InsertsText
<1>3. ASSUME NEW e \in TextMarks(m)
      PROVE  /\ e.id = r /\ e.ts = m.ts /\ e.lam = m.lam
             /\ e.at \in Nat /\ m.start <= e.at
             /\ e.at = m.start => e = FirstMark(m)
             /\ e \in Mark
  <2>1. IsIn(e, m)
    BY <1>1, MarkOfText
  <2>2. e = [id |-> m.by, at |-> e.at, ts |-> m.ts, lam |-> m.lam]
    BY DEF TextMarks
  <2>3. e \in Mark
    BY <1>1, <2>1, <2>2 DEF Mark, IsIn
  <2>4. QED
    BY <1>1, <2>1, <2>2, <2>3 DEF IsIn, FirstMark
<1>4. ASSUME NEW c \in SentMarks, c.id = r
      PROVE  c.at < m.start
  <2>1. TextsOK
    BY DEF DocumentsOK
  <2>2. PICK t \in Texts : IsIn(c, t)
    BY <2>1, SentMark
  <2>3. t.end <= version_map[t.by][t.by] /\ t.end \in Nat
    BY <2>1 DEF TextsOK
  <2>4. QED
    BY <1>1, <1>4, <2>2, <2>3 DEF IsIn
<1>5. FirstMark(m) \in TextMarks(m)
  <2>1. m.start \in m.start .. m.end - 1
    BY <1>1
  <2>2. QED
    BY <2>1 DEF TextMarks, FirstMark
<1>6. SentMarks \cap TextMarks(m) = {}
  <2>1. SUFFICES ASSUME NEW c \in SentMarks, c \in TextMarks(m) PROVE FALSE
    OBVIOUS
  <2>2. c.id = r /\ c.at \in Nat /\ m.start <= c.at
    BY <1>3, <2>1
  <2>3. c.at < m.start
    BY <1>4, <2>2
  <2>4. QED
    BY <1>1, <2>2, <2>3
<1>7. QED
  BY <1>1, <1>2, <1>3, <1>4, <1>5, <1>6

LEMMA NewRunOrNot ==
    ASSUME DocumentsOK, NEW r, NEW m, InsertsText(r, m)
    PROVE  \/ m.anchor = ZeroAnchor /\ IsNewestRun(r, m)
           \/ \E a \in DocumentMarks(run_tree[r]) :
                /\ IsAfterMark(m.anchor, a)
                /\ IsNewestRun(r, m) \/ ContinuesNewestRun(r, m, a)
<1>1. TextsOK /\ TextInvariant /\ ClockTypes
  BY DEF DocumentsOK
<1>2. r \in replicas /\ r \in ReplicaIds
  BY NewMarks
<1>3. lamport_clock[r] \in Nat /\ run_clock[r] \in Nat
      /\ version_map[r][r] \in Nat
  BY <1>1, <1>2 DEF ClockTypes
<1>4. ASSUME NEW c \in DocumentMarks(run_tree[r])
      PROVE  c.lam < lamport_clock[r] /\ c.lam \in Nat
  <2>1. c \in SentMarks /\ c.at < version_map[r][c.id]
    BY <1>2, HeldMarks
  <2>2. PICK t \in Texts : IsIn(c, t)
    BY <1>1, <2>1, SentMark
  <2>3. /\ t.start \in Nat /\ t.lam \in Nat /\ t.by \in ReplicaIds
        /\ version_map[r][t.by] > t.start => t.lam < lamport_clock[r]
    BY <1>1, <1>2, <2>2 DEF TextsOK
  <2>4. version_map[r][t.by] \in Nat
    BY <1>1, <1>2, <2>3 DEF ClockTypes
  <2>5. version_map[r][t.by] > t.start
    BY <2>1, <2>2, <2>3, <2>4 DEF IsIn
  <2>6. QED
    BY <2>2, <2>3, <2>5 DEF IsIn
<1>5. ASSUME NEW c \in SentMarks, c.id = r
      PROVE  c.ts < run_clock[r] /\ c.lam < lamport_clock[r]
             /\ c.ts \in Nat /\ c.lam \in Nat
  <2>1. PICK t \in Texts : IsIn(c, t)
    BY <1>1, SentMark
  <2>2. t.by = r /\ t.ts = c.ts /\ c.at \in Nat /\ c.at < t.end
    BY <1>5, <2>1 DEF IsIn
  <2>3. t.ts < run_clock[r] /\ t.ts \in Nat /\ t.end \in Nat
        /\ t.end <= version_map[r][r]
    BY <1>1, <2>2 DEF TextInvariant, RunClockIsAhead, TextsOK
  <2>4. c.at < version_map[r][c.id]
    BY <1>3, <1>5, <2>2, <2>3
  <2>5. c \in DocumentMarks(run_tree[r])
    BY <1>2, <2>4, HeldMarks
  <2>6. QED
    BY <1>4, <2>2, <2>3, <2>5
<1>6. ASSUME StartsNewRun(r, m) PROVE IsNewestRun(r, m)
  <2>1. m.ts = run_clock[r] /\ m.lam = lamport_clock[r]
    BY <1>6 DEF StartsNewRun
  <2>2. \A c \in SentMarks : c.id = r => c.lam # m.lam /\ c.ts # m.ts
    BY <1>3, <1>5, <2>1
  <2>3. QED
    BY <1>4, <2>1, <2>2 DEF IsNewestRun
<1>7. ASSUME NEW a, ContinuesRunAt(r, m, a)
      PROVE  ContinuesNewestRun(r, m, a)
  <2>1. /\ a.id = r /\ a.at + 1 = m.start /\ a.ts = m.ts /\ a.lam = m.lam
        /\ m.lam = lamport_clock[r] - 1
    BY <1>7 DEF ContinuesRunAt
  <2>2. \A c \in DocumentMarks(run_tree[r]) : c.lam <= m.lam
    BY <1>3, <1>4, <2>1
  <2>3. QED
    BY <2>1, <2>2 DEF ContinuesNewestRun
<1>8. \/ m.anchor = ZeroAnchor /\ StartsNewRun(r, m)
      \/ \E c \in DocumentMarks(run_tree[r]) :
            /\ IsAfterMark(m.anchor, c)
            /\ StartsNewRun(r, m) \/ ContinuesRunAt(r, m, c)
  BY DEF InsertsText
<1>9. CASE m.anchor = ZeroAnchor /\ StartsNewRun(r, m)
  BY <1>6, <1>9
<1>10. ASSUME NEW c \in DocumentMarks(run_tree[r]), IsAfterMark(m.anchor, c),
              StartsNewRun(r, m) \/ ContinuesRunAt(r, m, c)
       PROVE  IsNewestRun(r, m) \/ ContinuesNewestRun(r, m, c)
  BY <1>6, <1>7, <1>10
<1>11. QED
  BY <1>8, <1>9, <1>10

(* The predecessors of the characters there were stay what they are.       *)
LEMMA OldPredecessors ==
    ASSUME DocumentsOK, NEW r, NEW m, InsertsText(r, m),
           NEW c \in SentMarks, NEW p \in SentMarks \cup TextMarks(m)
    PROVE  IsTypedAfter(c, p)' <=> p \in SentMarks /\ IsTypedAfter(c, p)
<1>1. TextsOK /\ TextInvariant /\ insertions' = insertions \cup {m}
  BY DEF DocumentsOK, InsertsText
<1>2. /\ m.start \in Nat /\ c \notin TextMarks(m)
      /\ p \in TextMarks(m) => p.id = r /\ p.at \in Nat /\ m.start <= p.at
      /\ c.id = r => c.at < m.start
      /\ m.start = version_map[r][r]
  BY NewMarks
<1>3. c.at \in Nat
  BY <1>1, SentMarksAreMarks DEF Mark
<1>4. ASSUME p.id = c.id, p.at + 1 = c.at PROVE p \in SentMarks
  BY <1>2, <1>3, <1>4
<1>5. ASSUME NEW n \in insertions, p.id = n.anchor.id,
             p.ts = n.anchor.ts, p.at + 1 = n.anchor.offset
      PROVE  p \in SentMarks
  <2>1. SUFFICES ASSUME p \in TextMarks(m) PROVE FALSE
    OBVIOUS
  <2>2. n.anchor # ZeroAnchor
    BY <1>2, <1>5, <2>1 DEF ZeroAnchor
  <2>3. PICK t \in Texts : IsAnchoredIn(n.anchor, "left", t)
    BY <1>1, <2>2 DEF TextInvariant, InsertionsAreAnchored
  <2>4. t.by = r /\ p.at + 1 <= t.end
    BY <1>2, <1>5, <2>1, <2>3 DEF IsAnchoredIn
  <2>5. t.end <= m.start /\ t.end \in Nat
    BY <1>1, <1>2, <2>4 DEF TextsOK
  <2>6. QED
    BY <1>2, <2>1, <2>4, <2>5
<1>6. QED
  BY <1>1, <1>2, <1>4, <1>5 DEF IsTypedAfter

(* The new text is typed after its anchor, and on from there.              *)
LEMMA NewPredecessors ==
    ASSUME DocumentsOK, NEW r, NEW m, InsertsText(r, m),
           NEW c \in TextMarks(m), NEW p \in SentMarks \cup TextMarks(m)
    PROVE  IsTypedAfter(c, p)' <=>
             \/ p \in TextMarks(m) /\ p.at + 1 = c.at
             \/ p \in SentMarks /\ c = FirstMark(m) /\ IsAfterMark(m.anchor, p)
<1>1. /\ TextsOK /\ TextInvariant /\ insertions' = insertions \cup {m}
      /\ TextsAreDisjoint
  BY DEF DocumentsOK, TextInvariant, InsertsText
<1>2. /\ m.start \in Nat /\ m.end \in Nat /\ m.by = r /\ r \in replicas
      /\ \A e \in TextMarks(m) :
           /\ e.id = r /\ e.ts = m.ts /\ e.lam = m.lam
           /\ e.at \in Nat /\ m.start <= e.at
           /\ e.at = m.start => e = FirstMark(m)
      /\ \A e \in SentMarks : e.id = r => e.at < m.start
      /\ SentMarks \cap TextMarks(m) = {}
  BY NewMarks
<1>3. p.at \in Nat
  BY <1>1, <1>2, SentMarksAreMarks DEF Mark
<1>4. \A n \in insertions : TextMarks(n) \subseteq SentMarks
  BY DEF Texts, SentMarks
<1>5. FirstMark(m).at = m.start
  BY DEF FirstMark
<1>6. ASSUME NEW a \in DocumentMarks(run_tree[r]), IsAfterMark(m.anchor, a),
             p.id = m.anchor.id, p.ts = m.anchor.ts,
             p.at + 1 = m.anchor.offset
      PROVE  p \in SentMarks /\ IsAfterMark(m.anchor, p)
  <2>1. a \in SentMarks
    BY <1>2, HeldMarks
  <2>2. a.at \in Nat
    BY <1>1, <2>1, SentMarksAreMarks DEF Mark
  <2>3. p.id = a.id /\ p.at = a.at
    BY <1>3, <1>6, <2>2 DEF IsAfterMark
  <2>4. p \in SentMarks
    BY <1>2, <1>3, <2>1, <2>3
  <2>5. p = a
    BY <1>1, <2>1, <2>3, <2>4, MarksAreUnique
  <2>6. QED
    BY <1>6, <2>4, <2>5
<1>7. \/ m.anchor = ZeroAnchor
      \/ \E a \in DocumentMarks(run_tree[r]) :
           /\ IsAfterMark(m.anchor, a)
           /\ IsNewestRun(r, m) \/ ContinuesNewestRun(r, m, a)
  BY NewRunOrNot
<1>8. ASSUME IsTypedAfter(c, p)'
      PROVE  \/ p \in TextMarks(m) /\ p.at + 1 = c.at
             \/ p \in SentMarks /\ c = FirstMark(m) /\ IsAfterMark(m.anchor, p)
  <2>1. CASE /\ p.id = c.id /\ p.ts = c.ts /\ p.lam = c.lam
             /\ p.at + 1 = c.at
    <3>1. CASE p \in TextMarks(m)
      BY <2>1, <3>1
    <3>2. CASE p \in SentMarks
      <4>1. p.at < m.start /\ p.id = r /\ p.ts = m.ts
        BY <1>2, <2>1, <3>2
      <4>2. c.at = m.start
        BY <1>2, <1>3, <2>1, <4>1
      <4>3. c = FirstMark(m)
        BY <1>2, <4>2
      <4>4. ~IsNewestRun(r, m)
        BY <3>2, <4>1 DEF IsNewestRun
      <4>5. PICK a \in DocumentMarks(run_tree[r]) :
              IsAfterMark(m.anchor, a) /\ ContinuesNewestRun(r, m, a)
        BY <4>4, NewRunOrNot
      <4>6. m.anchor.id = r /\ m.anchor.ts = m.ts /\ m.anchor.offset = m.start
        BY <4>5 DEF IsAfterMark, ContinuesNewestRun
      <4>7. IsAfterMark(m.anchor, p)
        BY <1>6, <2>1, <4>1, <4>2, <4>5, <4>6
      <4>8. QED
        BY <3>2, <4>3, <4>7
    <3>3. QED
      BY <3>1, <3>2
  <2>2. ASSUME NEW n \in insertions', c \in TextMarks(n), c.at = n.start,
               p.id = n.anchor.id, p.ts = n.anchor.ts,
               p.at + 1 = n.anchor.offset
        PROVE  p \in SentMarks /\ c = FirstMark(m) /\ IsAfterMark(m.anchor, p)
    <3>1. n = m
      BY <1>1, <1>2, <1>4, <2>2
    <3>2. c = FirstMark(m)
      BY <1>2, <2>2, <3>1
    <3>3. m.anchor # ZeroAnchor
      BY <1>3, <2>2, <3>1 DEF ZeroAnchor
    <3>4. QED
      BY <1>6, <1>7, <2>2, <3>1, <3>2, <3>3
  <2>3. QED
    BY <1>8, <2>1, <2>2 DEF IsTypedAfter
<1>9. ASSUME p \in TextMarks(m), p.at + 1 = c.at
      PROVE  IsTypedAfter(c, p)'
  BY <1>2, <1>9 DEF IsTypedAfter
<1>10. ASSUME p \in SentMarks, c = FirstMark(m), IsAfterMark(m.anchor, p)
       PROVE  IsTypedAfter(c, p)'
  <2>1. /\ p.id = m.anchor.id /\ p.ts = m.anchor.ts
        /\ p.at + 1 = m.anchor.offset
    BY <1>10 DEF IsAfterMark
  <2>2. m \in insertions' /\ c.at = m.start
    BY <1>1, <1>5, <1>10
  <2>3. QED
    BY <2>1, <2>2 DEF IsTypedAfter
<1>11. QED
  BY <1>8, <1>9, <1>10

------------------------------------------------------------------------------
(* The place of a new text in the order: where an insertion at its anchor  *)
(* goes if it is merged into everything that was sent.  It follows what    *)
(* comes before the first mark behind its anchor that it sorts before.     *)
Behind(order, marks, m) ==
    {w \in marks : \A a \in marks : IsAfterMark(m.anchor, a) => <<a, w>> \in order}

Follows(order, marks, m, c) ==
    \A w \in Behind(order, marks, m) :
        w = c \/ <<w, c>> \in order => SortsAfter(FirstMark(m), w)

FrontOf(order, marks, m) == {c \in marks : Follows(order, marks, m, c)}

(* Of what is not in front, or in it, of an order on paper.                *)
LEMMA MarksInFront ==
    ASSUME NEW order, NEW marks, IsStrictOrder(order, marks), NEW m,
           NEW a \in marks, IsAfterMark(m.anchor, a)
    PROVE  \A c \in marks :
              c = a \/ <<c, a>> \in order => c \in FrontOf(order, marks, m)
<1>1. SUFFICES ASSUME NEW c \in marks, c = a \/ <<c, a>> \in order,
                      NEW w \in Behind(order, marks, m),
                      w = c \/ <<w, c>> \in order
               PROVE  FALSE
  BY DEF FrontOf, Follows
<1>2. w \in marks /\ <<a, w>> \in order
  BY DEF Behind
<1>3. QED
  BY <1>1, <1>2 DEF IsStrictOrder

LEMMA FrontIsFront ==
    ASSUME NEW order, NEW marks, IsStrictOrder(order, marks), NEW m
    PROVE  IsFront(order, marks, FrontOf(order, marks, m))
<1>1. SUFFICES ASSUME NEW c \in marks, NEW e \in FrontOf(order, marks, m),
                      <<c, e>> \in order
               PROVE  Follows(order, marks, m, c)
  BY DEF IsFront, FrontOf
<1>2. SUFFICES ASSUME NEW w \in Behind(order, marks, m),
                      w = c \/ <<w, c>> \in order
               PROVE  SortsAfter(FirstMark(m), w)
  BY DEF Follows
<1>3. e \in marks /\ w \in marks /\ Follows(order, marks, m, e)
  BY DEF FrontOf, Behind
<1>4. <<w, e>> \in order
  BY <1>1, <1>2, <1>3 DEF IsStrictOrder
<1>5. QED
  BY <1>3, <1>4 DEF Follows

(* The new order.                                                          *)
OrderWithText(order, m) ==
    OrderWith(order, SentMarks, TextMarks(m), FrontOf(order, SentMarks, m))

IsOrderWithText(order, m, next) ==
    /\ KeepsRuns(next)
    /\ IsStrictOrder(next, SentMarks \cup TextMarks(m))
    /\ IsExtended(order, SentMarks, TextMarks(m),
                  FrontOf(order, SentMarks, m), next)

(* Marks of the run the new text goes on are in front of it.               *)
LEMMA OwnRunIsInFront ==
    ASSUME DocumentsOK, NEW order, KeepsRuns(order),
           IsStrictOrder(order, SentMarks), NEW r, NEW m, InsertsText(r, m),
           NEW c \in SentMarks, c.id = r, c.lam = m.lam
    PROVE  c.ts = m.ts /\ c \in FrontOf(order, SentMarks, m)
<1>1. TextsOK /\ TextsAreDisjoint
  BY DEF DocumentsOK, TextInvariant
<1>2. ~IsNewestRun(r, m)
  BY DEF IsNewestRun
<1>3. PICK a \in DocumentMarks(run_tree[r]) :
        IsAfterMark(m.anchor, a) /\ ContinuesNewestRun(r, m, a)
  BY <1>2, NewRunOrNot
<1>4. a.id = r /\ a.at + 1 = m.start /\ a.ts = m.ts /\ a.lam = m.lam
  BY <1>3 DEF ContinuesNewestRun
<1>5. a \in SentMarks
  BY NewMarks, HeldMarks
<1>6. c \in Mark /\ a \in Mark
  BY <1>1, <1>5, SentMarksAreMarks
<1>7. c.ts = m.ts
  BY <1>4, <1>5, MarksOfOneRun
<1>8. c.at < m.start /\ c.at \in Nat /\ a.at \in Nat /\ m.start \in Nat
  BY <1>6, NewMarks DEF Mark
<1>9. c.at = a.at \/ c.at < a.at
  BY <1>4, <1>8
<1>10. c = a \/ <<c, a>> \in order
  <2>1. CASE c.at = a.at
    BY <1>1, <1>4, <1>5, <2>1, MarksAreUnique
  <2>2. CASE c.at < a.at
    BY <1>4, <1>6, <1>7, <2>2 DEF KeepsRuns
  <2>3. QED
    BY <1>9, <2>1, <2>2
<1>11. QED
  BY <1>3, <1>5, <1>7, <1>10, MarksInFront

LEMMA TextIsPutInOrder ==
    ASSUME DocumentsOK, NEW order, KeepsRuns(order),
           IsStrictOrder(order, SentMarks), NEW r, NEW m, InsertsText(r, m)
    PROVE  IsOrderWithText(order, m, OrderWithText(order, m))
<1> DEFINE S == SentMarks
           N == TextMarks(m)
           InFront == FrontOf(order, S, m)
           next == OrderWithText(order, m)
<1>1. TextsOK
  BY DEF DocumentsOK
<1>2. S \in SUBSET Mark
  BY <1>1, SentMarksAreMarks
<1>3. /\ N \in SUBSET Mark /\ S \cap N = {}
      /\ \A e \in N : /\ e.id = r /\ e.ts = m.ts /\ e.lam = m.lam
                      /\ e.at \in Nat /\ m.start <= e.at
      /\ \A c \in S : c.id = r => c.at < m.start
      /\ m.start \in Nat
  BY NewMarks
<1>4. IsOneRun(N, S)
  <2>1. \A c \in S : c.at \in Nat
    BY <1>2 DEF Mark
  <2>2. ASSUME NEW c \in N, NEW e \in S, c.id = e.id PROVE e.at < c.at
    BY <1>3, <2>1, <2>2
  <2>3. QED
    BY <1>3, <2>2 DEF IsOneRun
<1>5. IsFront(order, S, InFront)
  BY FrontIsFront
<1>6. \A c \in S, e \in N :
         c.id = e.id /\ c.ts = e.ts /\ c.lam = e.lam => c \in InFront
  BY <1>3, OwnRunIsInFront
<1>7. next = OrderWith(order, S, N, InFront)
  BY DEF OrderWithText
<1> HIDE DEF S, N, InFront, next
<1>8. KeepsRuns(next) /\ IsExtended(order, S, N, InFront, next)
  BY <1>2, <1>3, <1>4, <1>5, <1>6, <1>7, OrderIsExtended
<1>9. IsStrictOrder(next, S \cup N)
  BY <1>2, <1>3, <1>4, <1>5, <1>8, ExtensionIsStrict DEF S
<1>10. QED
  BY <1>8, <1>9 DEF IsOrderWithText, S, N, InFront, next

(* What is not in front is behind a mark that the text sorts before.       *)
IsFirstBehind(order, m, c, w) ==
    /\ w \in Behind(order, SentMarks, m)
    /\ w = c \/ <<w, c>> \in order
    /\ ~SortsAfter(FirstMark(m), w)
    /\ w = c \/ SortsAfter(c, w) => SortsAfter(c, FirstMark(m))

LEMMA MarksNotInFront ==
    ASSUME DocumentsOK, NEW order, KeepsRuns(order),
           IsStrictOrder(order, SentMarks), NEW r, NEW m, InsertsText(r, m),
           NEW c \in SentMarks \ FrontOf(order, SentMarks, m)
    PROVE  \E w : IsFirstBehind(order, m, c, w)
<1> DEFINE first == FirstMark(m)
<1>1. PICK w \in Behind(order, SentMarks, m) :
        (w = c \/ <<w, c>> \in order) /\ ~SortsAfter(first, w)
  BY DEF FrontOf, Follows
<1>2. c \in Mark /\ w \in Mark /\ first \in Mark /\ w \in SentMarks
  <2>1. SentMarks \subseteq Mark
    BY SentMarksAreMarks DEF DocumentsOK
  <2>2. QED
    BY <2>1, NewMarks DEF Behind
<1>3. first.lam = m.lam /\ first.id = r
  BY NewMarks DEF FirstMark
<1> HIDE DEF first
<1>4. \/ SortsAfter(w, first) \/ (w.lam = first.lam /\ w.id = first.id)
  BY <1>1, <1>2, SortsAfterIsStrict
<1>5. ASSUME w = c PROVE SortsAfter(c, first)
  <2>1. c \notin FrontOf(order, SentMarks, m)
    OBVIOUS
  <2>2. ~(c.lam = m.lam /\ c.id = r)
    BY <2>1, OwnRunIsInFront
  <2>3. QED
    BY <1>3, <1>4, <1>5, <2>2
<1>6. ASSUME SortsAfter(c, w) PROVE SortsAfter(c, first)
  <2>1. CASE SortsAfter(w, first)
    BY <1>2, <1>6, <2>1, SortsAfterIsStrict
  <2>2. CASE w.lam = first.lam /\ w.id = first.id
    BY <1>6, <2>2, SortsAfterOfSame
  <2>3. QED
    BY <1>4, <2>1, <2>2
<1>7. QED
  BY <1>1, <1>5, <1>6 DEF first, IsFirstBehind

(* The characters there were keep their places.                            *)
LEMMA OldPlacesAreKept ==
    ASSUME DocumentsOK, NEW order, KeepsRuns(order), IsOrderOfText(order),
           NEW r, NEW m, InsertsText(r, m),
           NEW next, IsOrderWithText(order, m, next), NEW c \in SentMarks
    PROVE  /\ \A p \in SentMarks' :
                IsTypedAfter(c, p)' =>
                  /\ <<p, c>> \in next
                  /\ \A e \in SentMarks' :
                       <<p, e>> \in next /\ <<e, c>> \in next
                          => SortsAfter(c, e)
           /\ \A e \in SentMarks' :
                <<e, c>> \in next /\ (\A p \in SentMarks' : ~IsTypedAfter(c, p)')
                   => SortsAfter(c, e)
<1> DEFINE S == SentMarks
           N == TextMarks(m)
           InFront == FrontOf(order, S, m)
           first == FirstMark(m)
<1>1. /\ SentMarks' = S \cup N
      /\ \A e \in N : e.lam = first.lam /\ e.id = first.id
  <2>1. /\ SentMarks' = SentMarks \cup TextMarks(m) /\ m.by = r
        /\ \A e \in TextMarks(m) : e.lam = m.lam /\ e.id = r
    BY NewMarks
  <2>2. FirstMark(m).lam = m.lam /\ FirstMark(m).id = m.by
    BY DEF FirstMark
  <2>3. QED
    BY <2>1, <2>2
<1>2. IsStrictOrder(order, S) /\ PlacesAreKept(order)
      /\ FirstPlacesAreKept(order)
  BY DEF IsOrderOfText
<1>3. /\ \A d, e \in S : <<d, e>> \in next <=> <<d, e>> \in order
      /\ \A d \in S, e \in N :
            /\ <<d, e>> \in next <=> d \in InFront
            /\ <<e, d>> \in next <=> d \notin InFront
  BY DEF IsOrderWithText, IsExtended
<1>4. \A e \in N : SortsAfter(c, first) => SortsAfter(c, e)
  BY <1>1 DEF SortsAfter
<1>5. \A p \in S \cup N : IsTypedAfter(c, p)' <=> p \in S /\ IsTypedAfter(c, p)
  BY OldPredecessors
<1> HIDE DEF N, first
<1>6. ASSUME NEW p \in S, IsTypedAfter(c, p)
      PROVE  /\ <<p, c>> \in next
             /\ \A e \in S \cup N :
                  <<p, e>> \in next /\ <<e, c>> \in next => SortsAfter(c, e)
  <2>1. /\ <<p, c>> \in order
        /\ \A e \in S : <<p, e>> \in order /\ <<e, c>> \in order
                          => SortsAfter(c, e)
    BY <1>2, <1>6 DEF PlacesAreKept
  <2>2. ASSUME NEW e \in N, <<p, e>> \in next, <<e, c>> \in next
        PROVE  SortsAfter(c, e)
    <3>1. p \in InFront /\ c \in S \ InFront
      BY <1>3, <2>2
    <3>2. PICK w : IsFirstBehind(order, m, c, w)
      BY <1>2, <3>1, MarksNotInFront
    <3>3. /\ w \in S /\ (w = c \/ <<w, c>> \in order)
          /\ ~(w = p \/ <<w, p>> \in order)
      BY <3>1, <3>2 DEF IsFirstBehind, Behind, FrontOf, Follows
    <3>4. <<p, w>> \in order
      BY <1>2, <3>3 DEF IsStrictOrder
    <3>5. w = c \/ SortsAfter(c, w)
      BY <2>1, <3>3, <3>4
    <3>6. SortsAfter(c, first)
      BY <3>2, <3>5 DEF IsFirstBehind, first
    <3>7. QED
      BY <1>4, <2>2, <3>6
  <2>3. QED
    BY <1>3, <2>1, <2>2
<1>7. ASSUME NEW e \in S \cup N, <<e, c>> \in next,
             \A p \in S \cup N : ~IsTypedAfter(c, p)'
      PROVE  SortsAfter(c, e)
  <2>1. \A d \in S : <<d, c>> \in order => SortsAfter(c, d)
    BY <1>2, <1>5, <1>7 DEF FirstPlacesAreKept
  <2>2. CASE e \in S
    BY <1>3, <1>7, <2>1, <2>2
  <2>3. CASE e \in N
    <3>1. c \in S \ InFront
      BY <1>3, <1>7, <2>3
    <3>2. PICK w : IsFirstBehind(order, m, c, w)
      BY <1>2, <3>1, MarksNotInFront
    <3>3. w \in S /\ (w = c \/ <<w, c>> \in order)
      BY <3>2 DEF IsFirstBehind, Behind
    <3>4. SortsAfter(c, first)
      BY <2>1, <3>2, <3>3 DEF IsFirstBehind, first
    <3>5. QED
      BY <1>4, <2>3, <3>4
  <2>4. QED
    BY <2>2, <2>3
<1>8. QED
  BY <1>1, <1>5, <1>6, <1>7

(* The new characters get theirs.                                          *)
LEMMA NewPlacesAreKept ==
    ASSUME DocumentsOK, NEW order, KeepsRuns(order), IsOrderOfText(order),
           NEW r, NEW m, InsertsText(r, m),
           NEW next, IsOrderWithText(order, m, next), NEW c \in TextMarks(m)
    PROVE  /\ \A p \in SentMarks' :
                IsTypedAfter(c, p)' =>
                  /\ <<p, c>> \in next
                  /\ \A e \in SentMarks' :
                       <<p, e>> \in next /\ <<e, c>> \in next
                          => SortsAfter(c, e)
           /\ \A e \in SentMarks' :
                <<e, c>> \in next /\ (\A p \in SentMarks' : ~IsTypedAfter(c, p)')
                   => SortsAfter(c, e)
<1> DEFINE S == SentMarks
           N == TextMarks(m)
           InFront == FrontOf(order, S, m)
           first == FirstMark(m)
<1>1. /\ SentMarks' = S \cup N /\ m.start \in Nat /\ m.end \in Nat
      /\ \A e \in N : /\ e.lam = first.lam /\ e.id = first.id
                      /\ e.at \in Nat /\ m.start <= e.at
                      /\ e.at = m.start => e = first
      /\ first.at = m.start
  <2>1. /\ SentMarks' = S \cup N /\ m.start \in Nat /\ m.end \in Nat
        /\ m.by = r
        /\ \A e \in N : /\ e.lam = m.lam /\ e.id = r
                        /\ e.at \in Nat /\ m.start <= e.at
                        /\ e.at = m.start => e = first
    BY NewMarks
  <2>2. first.lam = m.lam /\ first.id = m.by /\ first.at = m.start
    BY DEF FirstMark
  <2>3. QED
    BY <2>1, <2>2
<1>2. IsStrictOrder(order, S)
  BY DEF IsOrderOfText
<1>3. /\ \A d, e \in S : <<d, e>> \in next <=> <<d, e>> \in order
      /\ \A d \in S, e \in N :
            /\ <<d, e>> \in next <=> d \in InFront
            /\ <<e, d>> \in next <=> d \notin InFront
      /\ \A d, e \in N : <<d, e>> \in next <=> d.at < e.at
  BY DEF IsOrderWithText, IsExtended
<1>4. \A e : SortsAfter(first, e) => SortsAfter(c, e)
  BY <1>1 DEF SortsAfter
<1>5. \A p \in S \cup N :
         IsTypedAfter(c, p)' <=>
           \/ p \in N /\ p.at + 1 = c.at
           \/ p \in S /\ c = first /\ IsAfterMark(m.anchor, p)
  BY NewPredecessors
<1>6. \A e \in InFront : e \in Behind(order, S, m) => SortsAfter(first, e)
  BY DEF FrontOf, Follows
<1>7. c = first \/ \E p \in N : p.at + 1 = c.at
  <2>1. CASE c.at = m.start
    BY <1>1, <2>1
  <2>2. CASE c.at # m.start
    <3>1. c.at \in Nat /\ m.start <= c.at /\ c.at < m.end
      BY <1>1, MarkOfText DEF IsIn
    <3>2. c.at - 1 \in m.start .. m.end - 1 /\ c.at - 1 + 1 = c.at
      BY <1>1, <2>2, <3>1
    <3> DEFINE p == [id |-> m.by, at |-> c.at - 1, ts |-> m.ts, lam |-> m.lam]
    <3>3. p \in N /\ p.at = c.at - 1
      BY <3>2 DEF TextMarks
    <3>4. QED
      BY <3>2, <3>3
  <2>3. QED
    BY <2>1, <2>2
<1>8. \A p, q \in S :
         IsAfterMark(m.anchor, p) /\ IsAfterMark(m.anchor, q) => p = q
  <2>1. SUFFICES ASSUME NEW p \in S, NEW q \in S,
                        IsAfterMark(m.anchor, p), IsAfterMark(m.anchor, q)
                 PROVE  p = q
    OBVIOUS
  <2>2. p.at \in Nat /\ q.at \in Nat
    BY SentMarksAreMarks DEF DocumentsOK, Mark
  <2>3. p.id = q.id /\ p.at = q.at
    BY <2>1, <2>2 DEF IsAfterMark
  <2>4. QED
    BY <2>3, MarksAreUnique DEF DocumentsOK, TextInvariant
<1> HIDE DEF N, first, InFront
<1>9. ASSUME NEW p \in N, p.at + 1 = c.at, NEW e \in S \cup N,
             <<p, e>> \in next, <<e, c>> \in next
      PROVE  FALSE
  <2>1. CASE e \in S
    BY <1>3, <1>9, <2>1 DEF N
  <2>2. CASE e \in N
    <3>1. p.at < e.at /\ e.at < c.at
      BY <1>3, <1>9, <2>2 DEF N
    <3>2. QED
      BY <1>1, <1>9, <2>2, <3>1 DEF N
  <2>3. QED
    BY <2>1, <2>2
<1>10. ASSUME NEW p \in S, c = first, IsAfterMark(m.anchor, p)
       PROVE  /\ <<p, c>> \in next
              /\ \A e \in S \cup N :
                   <<p, e>> \in next /\ <<e, c>> \in next => SortsAfter(c, e)
  <2>1. p \in InFront
    BY <1>2, <1>10, MarksInFront DEF InFront
  <2>2. ASSUME NEW e \in S, <<p, e>> \in next, <<e, c>> \in next
        PROVE  SortsAfter(c, e)
    <3>1. e \in InFront /\ <<p, e>> \in order
      BY <1>3, <2>2 DEF N
    <3>2. e \in Behind(order, S, m)
      BY <1>8, <1>10, <3>1 DEF Behind
    <3>3. QED
      BY <1>4, <1>6, <3>1, <3>2
  <2>3. ASSUME NEW e \in N, <<e, c>> \in next PROVE FALSE
    <3>1. e.at < m.start
      BY <1>1, <1>3, <1>10, <2>3 DEF N
    <3>2. QED
      BY <1>1, <2>3, <3>1
  <2>4. QED
    BY <1>3, <2>1, <2>2, <2>3 DEF N
<1>11. ASSUME NEW e \in S \cup N, <<e, c>> \in next,
              \A p \in S \cup N : ~IsTypedAfter(c, p)'
       PROVE  SortsAfter(c, e)
  <2>1. c = first /\ \A p \in S : ~IsAfterMark(m.anchor, p)
    BY <1>5, <1>7, <1>11
  <2>2. e \notin N
    <3>1. SUFFICES ASSUME e \in N PROVE FALSE
      OBVIOUS
    <3>2. e.at < m.start
      BY <1>1, <1>3, <1>11, <2>1, <3>1 DEF N
    <3>3. QED
      BY <1>1, <3>1, <3>2
  <2>3. e \in InFront /\ e \in S
    BY <1>3, <1>11, <2>2 DEF N
  <2>4. e \in Behind(order, S, m)
    BY <2>1, <2>3 DEF Behind
  <2>5. QED
    BY <1>4, <1>6, <2>3, <2>4
<1>12. \A p \in N : p.at + 1 = c.at => <<p, c>> \in next
  BY <1>1, <1>3 DEF N
<1>13. QED
  BY <1>1, <1>5, <1>9, <1>10, <1>11, <1>12

LEMMA PlacesAreKeptNext ==
    ASSUME DocumentsOK, NEW order, KeepsRuns(order), IsOrderOfText(order),
           NEW r, NEW m, InsertsText(r, m),
           NEW next, IsOrderWithText(order, m, next)
    PROVE  PlacesAreKept(next)' /\ FirstPlacesAreKept(next)'
<1>1. SentMarks' = SentMarks \cup TextMarks(m)
  BY NewMarks
<1>2. \A c \in SentMarks' :
        /\ \A p \in SentMarks' :
             IsTypedAfter(c, p)' =>
               /\ <<p, c>> \in next
               /\ \A e \in SentMarks' :
                    <<p, e>> \in next /\ <<e, c>> \in next
                       => SortsAfter(c, e)
        /\ \A e \in SentMarks' :
             <<e, c>> \in next /\ (\A p \in SentMarks' : ~IsTypedAfter(c, p)')
                => SortsAfter(c, e)
  BY <1>1, OldPlacesAreKept, NewPlacesAreKept
<1>3. QED
  BY <1>2 DEF PlacesAreKept, FirstPlacesAreKept

------------------------------------------------------------------------------
(* The document of the inserter puts the text where the order has it.      *)

(* A held mark between the anchor and another one that the text does not   *)
(* sort after: the oldest of them, which was typed after nothing there.    *)
LEMMA SomeMarkSortsBefore ==
    ASSUME DocumentsOK, AnchorsAreCounted, NEW order, IsOrderOfText(order),
           NEW r, NEW m, InsertsText(r, m),
           NEW a \in DocumentMarks(run_tree[r]), IsAfterMark(m.anchor, a),
           ContinuesNewestRun(r, m, a),
           NEW y \in DocumentMarks(run_tree[r]), <<a, y>> \in order
    PROVE  \E w \in DocumentMarks(run_tree[r]) :
              /\ <<a, w>> \in order /\ (w = y \/ <<w, y>> \in order)
              /\ ~SortsAfter(FirstMark(m), w)
<1> DEFINE held == DocumentMarks(run_tree[r])
           first == FirstMark(m)
           Between == {w \in held : <<a, w>> \in order
                                    /\ (w = y \/ <<w, y>> \in order)}
<1>1. r \in replicas /\ m.by = r /\ m.lam \in Nat /\ m.start \in Nat
  BY NewMarks
<1>2. held \subseteq SentMarks /\ SentMarks \subseteq Mark
  BY <1>1, HeldMarks, SentMarksAreMarks DEF DocumentsOK
<1>3. Between \in SUBSET Mark /\ y \in Between
  BY <1>2
<1>4. PICK w \in Between : \A e \in Between : ~IsOlder(e, w)
  <2> HIDE DEF Between
  <2> QED BY <1>3, OldestMark
<1>5. /\ w \in held /\ <<a, w>> \in order /\ (w = y \/ <<w, y>> \in order)
      /\ w \in SentMarks /\ a \in SentMarks /\ y \in SentMarks
  BY <1>2, <1>4
<1>6. first.lam = m.lam /\ first.id = r
  BY <1>1 DEF FirstMark
<1>7. /\ a.id = r /\ a.at + 1 = m.start /\ a.lam = m.lam /\ w.lam <= m.lam
  BY <1>5 DEF ContinuesNewestRun
<1>8. /\ w.lam \in Nat /\ w.id \in Nat /\ r \in Nat
  BY <1>1, <1>2, <1>5, <1>7, ReplicaIdsAssumption DEF Mark
<1> HIDE DEF held, first
<1>9. ASSUME SortsAfter(first, w) PROVE FALSE
  <2>1. w.lam = m.lam /\ w.id < r
    BY <1>1, <1>6, <1>7, <1>8, <1>9 DEF SortsAfter
  <2>2. ~SortsAfter(w, a)
    BY <1>7, <1>8, <2>1 DEF SortsAfter
  <2>3. CASE \E p \in SentMarks : IsTypedAfter(w, p)
    <3>1. PICK p \in SentMarks : IsTypedAfter(w, p)
      BY <2>3
    <3>2. p \in held /\ ComesAfter(w, p)
      BY <1>1, <1>5, <3>1, PredecessorIsHeld DEF held
    <3>3. IsOlder(p, w)
      BY <3>2 DEF ComesAfter, IsOlder
    <3>4. p # a
      BY <1>7, <1>8, <2>1, <3>2 DEF ComesAfter
    <3>5. /\ <<p, w>> \in order
          /\ <<p, a>> \in order => SortsAfter(w, a)
      BY <1>5, <3>1 DEF IsOrderOfText, PlacesAreKept
    <3>6. <<p, y>> \in order
      BY <1>5, <3>1, <3>5 DEF IsOrderOfText, IsStrictOrder
    <3>7. p \notin Between
      BY <1>4, <3>3
    <3>8. <<a, p>> \notin order
      BY <3>2, <3>6, <3>7
    <3>9. <<p, a>> \in order
      BY <1>5, <3>1, <3>4, <3>8 DEF IsOrderOfText, IsStrictOrder
    <3>10. QED
      BY <2>2, <3>5, <3>9
  <2>4. CASE \A p \in SentMarks : ~IsTypedAfter(w, p)
    BY <1>5, <2>2, <2>4 DEF IsOrderOfText, FirstPlacesAreKept
  <2>5. QED
    BY <2>3, <2>4
<1>10. QED
  BY <1>5, <1>9 DEF held, first

LEMMA InsertedTextFits ==
    ASSUME DocumentsOK, AnchorsAreCounted, NEW order, KeepsRuns(order),
           IsOrderOfText(order), NEW r, NEW m, InsertsText(r, m),
           NEW next, IsOrderWithText(order, m, next),
           NEW X, NEW Y, X \cup Y = DocumentMarks(run_tree[r]),
           \/ m.anchor = ZeroAnchor /\ X = {}
           \/ \E c \in DocumentMarks(run_tree[r]) :
                IsAfterMark(m.anchor, c) /\ IsRightAfter(next, c, X, Y)
    PROVE  FitsBetween(next, TextMarks(m), X, Y)
<1> DEFINE S == SentMarks
           N == TextMarks(m)
           InFront == FrontOf(order, S, m)
           held == DocumentMarks(run_tree[r])
           first == FirstMark(m)
<1>1. r \in replicas /\ m.by = r /\ m.lam \in Nat
  BY NewMarks
<1>2. X \subseteq held /\ Y \subseteq held /\ held \subseteq S /\ S \subseteq Mark
  BY <1>1, HeldMarks, SentMarksAreMarks DEF DocumentsOK
<1>3. IsStrictOrder(order, S)
  BY DEF IsOrderOfText
<1>4. /\ \A d, e \in S : <<d, e>> \in next <=> <<d, e>> \in order
      /\ \A d \in S, e \in N :
            /\ <<d, e>> \in next <=> d \in InFront
            /\ <<e, d>> \in next <=> d \notin InFront
  BY DEF IsOrderWithText, IsExtended
<1>5. first.lam = m.lam /\ first.id = r
  BY <1>1 DEF FirstMark
<1>6. ASSUME IsNewestRun(r, m), NEW y \in held PROVE ~SortsAfter(first, y)
  <2>1. y.lam < m.lam /\ y.lam \in Nat
    BY <1>2, <1>6 DEF IsNewestRun, Mark
  <2>2. QED
    BY <1>1, <1>5, <2>1 DEF SortsAfter
<1> HIDE DEF first, N
<1>7. ASSUME NEW w \in Behind(order, S, m), ~SortsAfter(first, w),
             NEW y \in S, w = y \/ <<w, y>> \in order
      PROVE  y \notin InFront
  BY <1>7 DEF FrontOf, Follows, first
<1>8. (\A x \in X : x \in InFront) /\ (\A y \in Y : y \notin InFront)
  <2>1. CASE m.anchor = ZeroAnchor /\ X = {}
    <3>1. \A e \in S : ~IsAfterMark(m.anchor, e)
      <4>1. \A e \in S : e.at \in Nat
        BY <1>2 DEF Mark
      <4>2. QED
        BY <2>1, <4>1 DEF IsAfterMark, ZeroAnchor
    <3>2. IsNewestRun(r, m)
      BY <1>2, <3>1, NewRunOrNot
    <3>3. Behind(order, S, m) = S
      BY <3>1 DEF Behind
    <3>4. QED
      BY <1>2, <1>6, <1>7, <2>1, <3>2, <3>3
  <2>2. ASSUME NEW c \in held, IsAfterMark(m.anchor, c),
               IsRightAfter(next, c, X, Y)
        PROVE  (\A x \in X : x \in InFront) /\ (\A y \in Y : y \notin InFront)
    <3>1. /\ \A x \in X : x = c \/ <<x, c>> \in order
          /\ \A y \in Y : <<c, y>> \in order
      BY <1>2, <1>4, <2>2 DEF IsRightAfter
    <3>2. \A x \in X : x \in InFront
      BY <1>2, <1>3, <2>2, <3>1, MarksInFront
    <3>3. ASSUME NEW a \in S, IsAfterMark(m.anchor, a) PROVE a = c
      <4>1. a.at \in Nat /\ c.at \in Nat
        BY <1>2 DEF Mark
      <4>2. a.id = c.id /\ a.at = c.at
        BY <2>2, <3>3, <4>1 DEF IsAfterMark
      <4>3. QED
        BY <1>2, <4>2, MarksAreUnique DEF DocumentsOK, TextInvariant
    <3>4. \A w \in S : <<c, w>> \in order => w \in Behind(order, S, m)
      BY <3>3 DEF Behind
    <3>5. IsNewestRun(r, m) \/ ContinuesNewestRun(r, m, c)
      <4>1. c.at \in Nat /\ c.at + 1 # 0
        BY <1>2 DEF Mark
      <4>2. m.anchor # ZeroAnchor
        BY <2>2, <4>1 DEF IsAfterMark, ZeroAnchor
      <4>3. QED
        BY <1>2, <3>3, <4>2, NewRunOrNot
    <3>6. CASE IsNewestRun(r, m)
      <4>1. \A y \in Y : y \notin InFront
        BY <1>2, <1>6, <1>7, <3>1, <3>4, <3>6
      <4>2. QED
        BY <3>2, <4>1
    <3>7. CASE ContinuesNewestRun(r, m, c)
      <4>1. SUFFICES ASSUME NEW y \in Y PROVE y \notin InFront
        BY <3>2
      <4>2. PICK w \in held : /\ <<c, w>> \in order
                              /\ w = y \/ <<w, y>> \in order
                              /\ ~SortsAfter(first, w)
        BY <1>2, <2>2, <3>1, <3>7, SomeMarkSortsBefore DEF first
      <4>3. QED
        BY <1>2, <1>7, <3>4, <4>2
    <3>8. QED
      BY <3>5, <3>6, <3>7
  <2>3. QED
    BY <2>1, <2>2
<1>9. QED
  BY <1>2, <1>4, <1>8 DEF FitsBetween, MarksBefore, N

------------------------------------------------------------------------------
(* The invariant, step by step.                                            *)
LEMMA HeldInOrder ==
    ASSUME DocumentsOK, NEW order, DocumentsAreInOrder(order),
           NEW r \in replicas
    PROVE  WellFormed(order, run_tree[r])
BY DEF DocumentsOK, DocumentsAreSentText, DocumentsAreInOrder, WellFormed

LEMMA NextInOrder ==
    ASSUME NEW order,
           \A r \in replicas' : RunsAreOrdered(order, run_tree'[r])
    PROVE  DocumentsAreInOrder(order)'
<1>1. ASSUME NEW r, NEW runs, runs = run_tree'[r]
      PROVE  RunsAreOrdered(order, run_tree[r])' <=> RunsAreOrdered(order, runs)
  BY <1>1 DEF RunsAreOrdered, MarksBefore, RunMarks
<1>2. \A r \in replicas' : RunsAreOrdered(order, run_tree[r])'
  BY <1>1
<1>3. QED
  BY <1>2 DEF DocumentsAreInOrder

LEMMA SamePlaces ==
    ASSUME UNCHANGED insertions, NEW order, IsOrderOfText(order),
           \A r \in replicas' : RunsAreOrdered(order, run_tree'[r])
    PROVE  IsOrderOfText(order)'
<1>1. SentMarks' = SentMarks
  BY SameTexts
<1>2. \A c, p : IsTypedAfter(c, p)' <=> IsTypedAfter(c, p)
  BY DEF IsTypedAfter, TextMarks
<1>3. IsStrictOrder(order, SentMarks)'
  BY <1>1 DEF IsOrderOfText, IsStrictOrder
<1>4. PlacesAreKept(order)'
  BY <1>1, <1>2 DEF IsOrderOfText, PlacesAreKept
<1>5. FirstPlacesAreKept(order)'
  BY <1>1, <1>2 DEF IsOrderOfText, FirstPlacesAreKept
<1>6. QED
  BY <1>3, <1>4, <1>5, NextInOrder DEF IsOrderOfText

(* Documents that do not change stay in an order that only gets longer.    *)
LEMMA StaysInOrder ==
    ASSUME DocumentsOK, NEW order, DocumentsAreInOrder(order),
           NEW next,
           \A c, e \in SentMarks : <<c, e>> \in order => <<c, e>> \in next,
           NEW r \in replicas
    PROVE  RunsAreOrdered(next, run_tree[r])
<1>1. DocumentMarks(run_tree[r]) \subseteq SentMarks
  BY HeldMarks
<1>2. \A i \in DOMAIN run_tree[r] : RunMarks(run_tree[r][i]) \subseteq SentMarks
  BY <1>1 DEF DocumentMarks
<1>3. SUFFICES ASSUME NEW i \in DOMAIN run_tree[r], NEW j \in DOMAIN run_tree[r],
                      i < j
               PROVE  MarksBefore(next, RunMarks(run_tree[r][i]),
                                  RunMarks(run_tree[r][j]))
  BY DEF RunsAreOrdered
<1>4. MarksBefore(order, RunMarks(run_tree[r][i]), RunMarks(run_tree[r][j]))
  BY <1>3 DEF DocumentsAreInOrder, RunsAreOrdered
<1>5. QED
  BY <1>2, <1>4 DEF MarksBefore

LongerOrder(order, next) ==
    \A c, e \in SentMarks : <<c, e>> \in order => <<c, e>> \in next

LEMMA OrderInserted ==
    ASSUME DocumentsOK, AnchorsAreCounted,
           NEW order, KeepsRuns(order), IsOrderOfText(order),
           NEW r, NEW m, InsertsText(r, m), AddsText(r, m),
           IsPutAfterAnchor(r, m)
    PROVE  \E next : /\ KeepsRuns(next) /\ IsOrderOfText(next)'
                     /\ LongerOrder(order, next)
<1>1. /\ r \in replicas /\ r \in ReplicaIds
      /\ SentMarks' = SentMarks \cup TextMarks(m)
  BY NewMarks
<1>2. IsStrictOrder(order, SentMarks) /\ DocumentsAreInOrder(order)
  BY DEF IsOrderOfText
<1>3. PICK next : IsOrderWithText(order, m, next)
  BY <1>2, TextIsPutInOrder
<1>4. /\ KeepsRuns(next)
      /\ IsStrictOrder(next, SentMarks \cup TextMarks(m))
      /\ \A c, e \in SentMarks : <<c, e>> \in order => <<c, e>> \in next
  BY <1>3 DEF IsOrderWithText, IsExtended
<1>5. \A s \in replicas : RunsAreOrdered(next, run_tree[s])
  BY <1>2, <1>4, StaysInOrder
<1>6. RunsAreOrdered(next, run_tree'[r])
  <2>1. WellFormed(next, run_tree[r])
    BY <1>1, <1>5
       DEF DocumentsOK, DocumentsAreSentText, WellFormed
  <2>2. PICK X, Y :
          /\ IsPutBetween(r, m, next, X, Y)
          /\ \/ m.anchor = ZeroAnchor /\ X = {}
             \/ \E c \in DocumentMarks(run_tree[r]) :
                  /\ IsAfterMark(m.anchor, c)
                  /\ IsRightAfter(next, c, X, Y)
    BY <1>4, <2>1 DEF IsPutAfterAnchor
  <2>3. X \cup Y = DocumentMarks(run_tree[r])
    BY <2>2 DEF IsPutBetween, IsPlaced
  <2>4. FitsBetween(next, TextMarks(m), X, Y)
    BY <1>3, <2>2, <2>3, InsertedTextFits
  <2>5. QED
    BY <2>2, <2>4, MarksOfText DEF IsPutBetween, IsPlaced, IsGrown, WellFormed
<1>7. \A s \in replicas' : RunsAreOrdered(next, run_tree'[s])
  <2>1. replicas' = replicas /\ replicas \subseteq ReplicaIds
    BY DEF InsertsText, DocumentsOK, ClockTypes
  <2>2. \A s \in ReplicaIds \ {r} : run_tree'[s] = run_tree[s]
    BY DEF AddsText
  <2>3. QED
    BY <1>5, <1>6, <2>1, <2>2
<1>8. DocumentsAreInOrder(next)'
  BY <1>7, NextInOrder
<1>9. PlacesAreKept(next)' /\ FirstPlacesAreKept(next)'
  BY <1>3, PlacesAreKeptNext
<1>10. IsStrictOrder(next, SentMarks)'
  BY <1>1, <1>4 DEF IsStrictOrder
<1>11. QED
  BY <1>4, <1>8, <1>9, <1>10 DEF IsOrderOfText, LongerOrder

LEMMA OrderMerged ==
    ASSUME DocumentsOK, AnchorsAreCounted,
           NEW order, KeepsRuns(order), IsOrderOfText(order),
           NEW r, NEW m \in insertions,
           MergesInsertion(r, m), AddsText(r, m), IsPutInPlace(r, m)
    PROVE  IsOrderOfText(order)'
<1>1. /\ r \in replicas /\ version_map[r][m.by] = m.start
      /\ UNCHANGED insertions /\ replicas' = replicas
      /\ replicas \subseteq ReplicaIds
  BY DEF MergesInsertion, DocumentsOK, ClockTypes
<1>2. DocumentsAreInOrder(order)
  BY DEF IsOrderOfText
<1>3. RunsAreOrdered(order, run_tree'[r])
  <2>1. WellFormed(order, run_tree[r])
    BY <1>1, <1>2, HeldInOrder
  <2>2. PICK X, Y :
          /\ IsPutBetween(r, m, order, X, Y)
          /\ IsInPlace(order,
                       EditRunRecord(m.by, m.start, m.end, m.ts, m.lam),
                       m.anchor, X, Y)
    BY <2>1 DEF IsPutInPlace
  <2>3. X \cup Y = DocumentMarks(run_tree[r]) /\ MarksBefore(order, X, Y)
    BY <2>2 DEF IsPutBetween, IsPlaced
  <2>4. FitsBetween(order, TextMarks(m), X, Y)
    BY <1>1, <2>2, <2>3, MergedTextFits
  <2>5. QED
    BY <2>2, <2>4, MarksOfText DEF IsPutBetween, IsPlaced, IsGrown, WellFormed
<1>4. \A s \in ReplicaIds \ {r} : run_tree'[s] = run_tree[s]
  BY DEF AddsText
<1>5. \A s \in replicas' : RunsAreOrdered(order, run_tree'[s])
  BY <1>1, <1>2, <1>3, <1>4 DEF DocumentsAreInOrder
<1>6. QED
  BY <1>1, <1>5, SamePlaces

LEMMA OrderKept ==
    ASSUME DocumentsOK, NEW order, KeepsRuns(order), IsOrderOfText(order),
           NEW r, r \in replicas, KeepsText(r),
           UNCHANGED <<replicas, insertions>>
    PROVE  IsOrderOfText(order)'
<1>1. DocumentsAreInOrder(order) /\ replicas \subseteq ReplicaIds
  BY DEF IsOrderOfText, DocumentsOK, ClockTypes
<1>2. WellFormed(order, run_tree'[r])
  BY <1>1, HeldInOrder DEF KeepsText
<1>3. \A s \in ReplicaIds \ {r} : run_tree'[s] = run_tree[s]
  BY DEF KeepsText
<1>4. \A s \in replicas' : RunsAreOrdered(order, run_tree'[s])
  BY <1>1, <1>2, <1>3 DEF DocumentsAreInOrder, WellFormed
<1>5. QED
  BY <1>4, SamePlaces

LEMMA OrderForked ==
    ASSUME DocumentsOK, NEW order, IsOrderOfText(order),
           NEW r \in ReplicaIds, NEW new \in ReplicaIds, Fork(r, new)
    PROVE  IsOrderOfText(order)'
<1>1. /\ r \in replicas /\ new \in ReplicaIds \ replicas
      /\ replicas' = replicas \cup {new} /\ UNCHANGED insertions
  BY Forked DEF DocumentsOK
<1>2. DocumentsAreInOrder(order)
  BY DEF IsOrderOfText
<1>3. /\ run_tree'[new] = run_tree[r]
      /\ \A s \in replicas : run_tree'[s] = run_tree[s]
  <2>1. run_tree' = [run_tree EXCEPT ![new] = run_tree[r]]
    BY DEF Fork
  <2>2. DOMAIN run_tree = ReplicaIds /\ replicas \subseteq ReplicaIds
    BY DEF DocumentsOK, DocumentsAreSentText, ClockTypes
  <2>3. QED
    BY <1>1, <2>1, <2>2
<1>4. \A s \in replicas' : RunsAreOrdered(order, run_tree'[s])
  BY <1>1, <1>2, <1>3 DEF DocumentsAreInOrder
<1>5. QED
  BY <1>1, <1>4, SamePlaces

LEMMA OrderInit ==
    Init => KeepsRuns(TypingOrder) /\ IsOrderOfText(TypingOrder)
<1> SUFFICES ASSUME Init
             PROVE  KeepsRuns(TypingOrder) /\ IsOrderOfText(TypingOrder)
  OBVIOUS
<1>1. KeepsRuns(TypingOrder)
  BY DEF KeepsRuns, TypingOrder
<1>2. SentMarks = TextMarks(InitialText) /\ insertions = {}
  BY DEF Init, SentMarks, Texts
<1>3. \A c \in SentMarks :
         /\ c \in Mark /\ c.at \in Nat /\ 0 <= c.at /\ c.at < InitialLen
         /\ c = [id |-> Creator, at |-> c.at, ts |-> 0, lam |-> 0]
  <2>1. SUFFICES ASSUME NEW c \in TextMarks(InitialText)
        PROVE /\ c \in Mark /\ c.at \in Nat /\ 0 <= c.at /\ c.at < InitialLen
              /\ c = [id |-> Creator, at |-> c.at, ts |-> 0, lam |-> 0]
    BY <1>2
  <2>2. PICK k \in 0 .. InitialLen - 1 :
           c = [id |-> Creator, at |-> k, ts |-> 0, lam |-> 0]
    BY DEF TextMarks, InitialText
  <2>3. k \in Nat /\ k < InitialLen
    BY InitialAssumption
  <2>4. QED
    BY <2>2, <2>3, InitialAssumption DEF Mark
<1>4. \A c, e \in SentMarks : <<c, e>> \in TypingOrder <=> c.at < e.at
  BY <1>3 DEF TypingOrder
<1>5. IsStrictOrder(TypingOrder, SentMarks)
  <2>1. \A c, e \in SentMarks : c = e \/ c.at < e.at \/ e.at < c.at
    BY <1>3
  <2>2. \A c, e \in SentMarks : c.at < e.at => ~(e.at < c.at)
    BY <1>3
  <2>3. \A c, e, f \in SentMarks : c.at < e.at /\ e.at < f.at => c.at < f.at
    BY <1>3
  <2>4. QED
    BY <1>4, <2>1, <2>2, <2>3 DEF IsStrictOrder
<1>6. \A c, p \in SentMarks : IsTypedAfter(c, p) <=> p.at + 1 = c.at
  <2>1. \A c, p \in SentMarks : p.id = c.id /\ p.ts = c.ts /\ p.lam = c.lam
    BY <1>3
  <2>2. QED
    BY <1>2, <2>1 DEF IsTypedAfter
<1>7. PlacesAreKept(TypingOrder)
  <2>1. ASSUME NEW c \in SentMarks, NEW p \in SentMarks, p.at + 1 = c.at
        PROVE  /\ p.at < c.at
               /\ \A e \in SentMarks : ~(p.at < e.at /\ e.at < c.at)
    BY <1>3, <2>1
  <2>2. QED
    BY <1>4, <1>6, <2>1 DEF PlacesAreKept
<1>8. FirstPlacesAreKept(TypingOrder)
  <2>1. SUFFICES ASSUME NEW c \in SentMarks, NEW e \in SentMarks, e.at < c.at
                 PROVE  \E p \in SentMarks : p.at + 1 = c.at
    BY <1>4, <1>6 DEF FirstPlacesAreKept
  <2>2. c.at - 1 \in 0 .. InitialLen - 1 /\ c.at - 1 + 1 = c.at
    BY <1>3, <2>1, InitialAssumption
  <2> DEFINE p == [id |-> Creator, at |-> c.at - 1, ts |-> 0, lam |-> 0]
  <2>3. p \in TextMarks(InitialText)
    BY <2>2 DEF TextMarks, InitialText
  <2>4. QED
    BY <1>2, <2>2, <2>3
<1>9. DocumentsAreInOrder(TypingOrder)
  <2>1. DocumentsAreSentText
    BY DocumentsInit
  <2>2. QED
    BY <2>1 DEF DocumentsAreSentText, WellFormed, DocumentsAreInOrder
<1>10. QED
  BY <1>1, <1>5, <1>7, <1>8, <1>9 DEF IsOrderOfText

(* An insertion is merged after what it is anchored to.                    *)
LEMMA AnchorIds ==
    ASSUME DocumentsOK, NEW m \in insertions
    PROVE  /\ m.by \in ReplicaIds /\ m.by \in replicas
           /\ m.start \in Nat /\ m.end \in Nat /\ m.start < m.end
           /\ m.anchor # ZeroAnchor =>
                /\ m.anchor.id \in replicas /\ m.anchor.id \in ReplicaIds
                /\ m.anchor.offset \in Nat
<1>1. TextsOK /\ TextInvariant
  BY DEF DocumentsOK
<1>2. m \in Texts /\ m.start < m.end
  BY DEF Texts, DocumentsOK, ClockInvariant, InsertionsAreCounted
<1>3. CASE m.anchor # ZeroAnchor
  <2>1. /\ m.anchor \in AnchorType
        /\ \E t \in Texts : IsAnchoredIn(m.anchor, "left", t)
    BY <1>1, <1>3 DEF TextInvariant, InsertionsAreAnchored
  <2>2. m.anchor.id \in replicas /\ m.anchor.id \in ReplicaIds
    BY <1>1, <2>1 DEF IsAnchoredIn, TextsOK
  <2>3. QED
    BY <1>1, <1>2, <2>1, <2>2 DEF AnchorType, TextsOK
<1>4. QED
  BY <1>1, <1>2, <1>3 DEF TextsOK

LEMMA AnchorsInserted ==
    ASSUME DocumentsOK, AnchorsAreCounted, NEW r, NEW m, InsertsText(r, m)
    PROVE  AnchorsAreCounted'
<1>1. /\ r \in replicas /\ r \in ReplicaIds /\ m.by = r
      /\ m.start \in Nat /\ m.end \in Nat
      /\ m.start = version_map[r][r] /\ m.start < m.end
  BY NewMarks
<1>2. /\ replicas' = replicas /\ replicas \subseteq ReplicaIds
      /\ insertions' = insertions \cup {m}
      /\ version_map' = [version_map EXCEPT ![r][r] = m.end]
      /\ version_map \in [ReplicaIds -> [ReplicaIds -> Nat]]
  BY DEF InsertsText, DocumentsOK, ClockTypes
<1>3. /\ version_map'[r][r] = m.end
      /\ \A s, a \in ReplicaIds :
            /\ s # r \/ a # r => version_map'[s][a] = version_map[s][a]
            /\ version_map[s][a] \in Nat /\ version_map'[s][a] \in Nat
            /\ version_map[s][a] <= version_map'[s][a]
  BY <1>1, <1>2
<1>4. SUFFICES ASSUME NEW s \in replicas, NEW n \in insertions \cup {m},
                      version_map'[s][n.by] > n.start, n.anchor # ZeroAnchor
               PROVE  n.anchor.offset <= version_map'[s][n.anchor.id]
  BY <1>2 DEF AnchorsAreCounted, HasMergedInsertion
<1>5. s \in ReplicaIds
  BY <1>2
<1>6. CASE n \in insertions
  <2>1. /\ n.by \in ReplicaIds /\ n.start \in Nat
        /\ n.end \in Nat /\ n.start < n.end
        /\ n.anchor.id \in ReplicaIds /\ n.anchor.offset \in Nat
        /\ n.end <= version_map[n.by][n.by]
    BY <1>4, <1>6, AnchorIds DEF DocumentsOK, ClockInvariant,
                                 InsertionsAreCounted
  <2>2. version_map[s][n.by] > n.start
    BY <1>1, <1>3, <1>4, <1>5, <2>1
  <2>3. n.anchor.offset <= version_map[s][n.anchor.id]
    BY <1>4, <1>6, <2>2 DEF AnchorsAreCounted, HasMergedInsertion
  <2>4. QED
    BY <1>3, <1>5, <2>1, <2>3
<1>7. CASE n = m
  <2>1. s = r
    <3>1. version_map[s][r] <= version_map[r][r]
      BY <1>1 DEF DocumentsOK, ClockInvariant, NobodyKnowsMore
    <3>2. QED
      BY <1>1, <1>3, <1>4, <1>5, <1>7, <3>1
  <2>2. PICK a \in DocumentMarks(run_tree[r]) : IsAfterMark(m.anchor, a)
    BY <1>4, <1>7 DEF InsertsText
  <2>3. a \in SentMarks /\ a.at < version_map[r][a.id]
    BY <1>1, HeldMarks
  <2>4. a.id \in ReplicaIds /\ a.at \in Nat
    BY <2>3, SentMarksAreMarks DEF DocumentsOK, Mark
  <2>5. m.anchor.id = a.id /\ m.anchor.offset = a.at + 1
    BY <2>2 DEF IsAfterMark
  <2>6. a.at + 1 <= version_map'[r][a.id]
    BY <1>1, <1>3, <2>3, <2>4
  <2>7. QED
    BY <1>7, <2>1, <2>5, <2>6
<1>8. QED
  BY <1>6, <1>7

LEMMA AnchorsMerged ==
    ASSUME DocumentsOK, AnchorsAreCounted, NEW r, NEW m \in insertions,
           MergesInsertion(r, m), HasAnchor(r, m.anchor)
    PROVE  AnchorsAreCounted'
<1>1. /\ r \in replicas /\ r \in ReplicaIds /\ version_map[r][m.by] = m.start
      /\ UNCHANGED <<replicas, insertions>> /\ replicas \subseteq ReplicaIds
      /\ version_map' = [version_map EXCEPT ![r][m.by] = m.end]
      /\ version_map \in [ReplicaIds -> [ReplicaIds -> Nat]]
  BY DEF MergesInsertion, DocumentsOK, ClockTypes
<1>2. /\ m.by \in ReplicaIds /\ m.start \in Nat /\ m.end \in Nat
      /\ m.start < m.end
  BY AnchorIds
<1>3. /\ version_map'[r][m.by] = m.end
      /\ \A s, a \in ReplicaIds :
            /\ s # r \/ a # m.by => version_map'[s][a] = version_map[s][a]
            /\ version_map[s][a] \in Nat /\ version_map'[s][a] \in Nat
            /\ version_map[s][a] <= version_map'[s][a]
  BY <1>1, <1>2
<1>4. SUFFICES ASSUME NEW s \in replicas, NEW n \in insertions,
                      version_map'[s][n.by] > n.start, n.anchor # ZeroAnchor
               PROVE  n.anchor.offset <= version_map'[s][n.anchor.id]
  BY <1>1 DEF AnchorsAreCounted, HasMergedInsertion
<1>5. s \in ReplicaIds
  BY <1>1
<1>6. /\ n.by \in ReplicaIds /\ n.start \in Nat
      /\ n.end \in Nat /\ n.start < n.end
      /\ n.anchor.id \in ReplicaIds /\ n.anchor.offset \in Nat
  BY <1>4, AnchorIds
<1>7. n = m \/ n.by # m.by \/ n.end <= m.start \/ m.end <= n.start
  BY DEF DocumentsOK, ClockInvariant, InsertionsAreDisjoint
<1>8. CASE n = m /\ s = r
  <2>1. version_map[r][n.anchor.id] >= n.anchor.offset
    BY <1>6, <1>8 DEF HasAnchor, VersionOf
  <2>2. QED
    BY <1>1, <1>3, <1>6, <1>8, <2>1
<1>9. CASE ~(n = m /\ s = r)
  <2>1. version_map[s][n.by] > n.start
    BY <1>1, <1>2, <1>3, <1>4, <1>5, <1>6, <1>7, <1>9
  <2>2. n.anchor.offset <= version_map[s][n.anchor.id]
    BY <1>4, <2>1 DEF AnchorsAreCounted, HasMergedInsertion
  <2>3. QED
    BY <1>3, <1>5, <1>6, <2>2
<1>10. QED
  BY <1>8, <1>9

LEMMA AnchorsForked ==
    ASSUME DocumentsOK, AnchorsAreCounted,
           NEW r \in ReplicaIds, NEW new \in ReplicaIds, Fork(r, new)
    PROVE  AnchorsAreCounted'
<1>1. /\ r \in replicas /\ new \in ReplicaIds \ replicas
      /\ replicas' = replicas \cup {new} /\ UNCHANGED insertions
      /\ \A s \in replicas : version_map'[s] = version_map[s]
      /\ \A a \in replicas : version_map'[new][a] = version_map[r][a]
  BY Forked DEF DocumentsOK
<1>2. SUFFICES ASSUME NEW s \in replicas \cup {new}, NEW n \in insertions,
                      version_map'[s][n.by] > n.start, n.anchor # ZeroAnchor
               PROVE  n.anchor.offset <= version_map'[s][n.anchor.id]
  BY <1>1 DEF AnchorsAreCounted, HasMergedInsertion
<1>3. n.by \in replicas /\ n.anchor.id \in replicas
  BY <1>2, AnchorIds
<1>4. CASE s \in replicas
  BY <1>1, <1>2, <1>4 DEF AnchorsAreCounted, HasMergedInsertion
<1>5. CASE s = new
  BY <1>1, <1>2, <1>3, <1>5 DEF AnchorsAreCounted, HasMergedInsertion
<1>6. QED
  BY <1>4, <1>5

(* Every step keeps the order of what was sent, or adds to it.             *)
KeepsOrder(order) ==
    /\ AnchorsAreCounted'
    /\ \E next : /\ KeepsRuns(next) /\ IsOrderOfText(next)'
                 /\ LongerOrder(order, next)

LEMMA OrderGrows ==
    ASSUME DocumentInvariant, [Next]_vars, AnchorsAreCounted,
           NEW order, KeepsRuns(order), IsOrderOfText(order)
    PROVE  KeepsOrder(order)
<1>1. DocumentsOK /\ AnchorsAreCounted
  BY DocumentsAreOK
<1>2. KeepsRuns(order) /\ IsOrderOfText(order)
  OBVIOUS
<1>3. ASSUME AnchorsAreCounted', IsOrderOfText(order)'
      PROVE  KeepsOrder(order)
  BY <1>2, <1>3 DEF KeepsOrder, LongerOrder
<1>4. ASSUME UNCHANGED <<replicas, version_map, insertions>>
      PROVE  AnchorsAreCounted'
  BY <1>1, <1>4 DEF AnchorsAreCounted, HasMergedInsertion
<1>5. CASE \E r, new \in ReplicaIds : Fork(r, new)
  BY <1>1, <1>2, <1>3, <1>5, AnchorsForked, OrderForked
<1>6. CASE \E r \in ReplicaIds : \E m :
              InsertsText(r, m) /\ AddsText(r, m) /\ IsPutAfterAnchor(r, m)
  BY <1>1, <1>2, <1>6, AnchorsInserted, OrderInserted DEF KeepsOrder
<1>7. CASE \E r \in ReplicaIds : \E m \in insertions :
              MergesInsertion(r, m) /\ AddsText(r, m) /\ IsPutInPlace(r, m)
  <2>1. PICK r \in ReplicaIds, m \in insertions :
          MergesInsertion(r, m) /\ AddsText(r, m) /\ IsPutInPlace(r, m)
    BY <1>7
  <2>2. HasAnchor(r, m.anchor)
    BY <2>1 DEF IsPutInPlace
  <2>3. QED
    BY <1>1, <1>2, <1>3, <2>1, <2>2, AnchorsMerged, OrderMerged
<1>8. ASSUME NEW r \in ReplicaIds, r \in replicas, KeepsText(r),
             UNCHANGED <<replicas, version_map, insertions>>
      PROVE  KeepsOrder(order)
  BY <1>1, <1>2, <1>3, <1>4, <1>8, OrderKept
<1>9. CASE \E r \in ReplicaIds : \E d \in deletions' :
              Deletes(r, d) /\ AnchorsRange(r, d) /\ KeepsText(r)
  BY <1>8, <1>9 DEF Deletes
<1>10. CASE \E r \in ReplicaIds : \E d \in deletions :
              MergesDeletion(r, d) /\ KeepsText(r)
  BY <1>8, <1>10 DEF MergesDeletion
<1>11. CASE LeavesClocks /\ UNCHANGED run_tree
  <2>1. UNCHANGED <<replicas, version_map, insertions>>
    BY <1>11 DEF LeavesClocks, clock_vars
  <2>2. DocumentsAreInOrder(order)
    BY <1>2 DEF IsOrderOfText
  <2>3. \A r \in replicas' : RunsAreOrdered(order, run_tree'[r])
    BY <1>11, <2>1, <2>2 DEF DocumentsAreInOrder
  <2>4. QED
    BY <1>2, <1>3, <1>4, <2>1, <2>3, SamePlaces
<1>12. QED
  <2>1. TypeOK /\ ClockInvariant /\ TextInvariant /\ DocumentsAreSentText
        /\ TextsOK
    BY <1>1 DEF DocumentInvariant, DocumentsOK
  <2>2. QED
    BY <1>5, <1>6, <1>7, <1>9, <1>10, <1>11, <2>1, DocumentSteps

LEMMA OrderNext ==
    DocumentInvariant /\ OrderInvariant /\ [Next]_vars => OrderInvariant'
<1> SUFFICES ASSUME DocumentInvariant, OrderInvariant, [Next]_vars
             PROVE  OrderInvariant'
  OBVIOUS
<1>1. PICK order : KeepsRuns(order) /\ IsOrderOfText(order)
  BY DEF OrderInvariant
<1>2. KeepsOrder(order)
  BY <1>1, OrderGrows DEF OrderInvariant
<1>3. QED
  BY <1>2 DEF KeepsOrder, OrderInvariant, KeepsRuns, Mark

(* There is one order of everything that was sent, and every document is   *)
(* in it: merge_insertion (run_tree.rs) finds the place of a text by its   *)
(* anchor and by the order of runs alone, wherever it is merged.           *)
THEOREM TextHasOneOrder == Spec => []OrderInvariant
<1>1. Init => AnchorsAreCounted
  BY DEF Init, AnchorsAreCounted
<1>2. Init => OrderInvariant
  BY <1>1, OrderInit DEF OrderInvariant
<1>3. DocumentInvariant /\ OrderInvariant /\ [Next]_vars => OrderInvariant'
  BY OrderNext
<1>4. QED
  BY <1>2, <1>3, DocumentsAreCorrect, PTL DEF Spec

------------------------------------------------------------------------------
(* The characters of a document come in the order of their marks.          *)
CharOf(c) == [id |-> c.id, at |-> c.at]

LEMMA MarkOfChar ==
    ASSUME NEW runs \in Seq(Runs), NEW i \in DOMAIN runs, NEW x,
           HasChar(runs[i], x), x.at \in Nat
    PROVE  \E c \in RunMarks(runs[i]) :
              /\ c.id = x.id /\ c.at = x.at
              /\ c.ts = runs[i].ts /\ c.lam = runs[i].lam
<1> DEFINE c == [id |-> runs[i].id, at |-> x.at,
                 ts |-> runs[i].ts, lam |-> runs[i].lam]
<1>1. runs[i].start \in Nat /\ runs[i].end \in Nat
  BY SMTT(30) DEF Runs, RunType
<1>2. x.at \in runs[i].start .. runs[i].end - 1 /\ x.id = runs[i].id
  BY <1>1 DEF HasChar
<1>3. c \in RunMarks(runs[i])
  BY <1>2 DEF RunMarks
<1>4. QED
  BY <1>2, <1>3

LEMMA CharOfMark ==
    ASSUME NEW runs \in Seq(Runs), NEW i \in DOMAIN runs,
           NEW c \in RunMarks(runs[i])
    PROVE  /\ HasChar(runs[i], CharOf(c)) /\ c.at \in Nat
           /\ c.ts = runs[i].ts /\ c.lam = runs[i].lam
           /\ c.id = runs[i].id
<1>1. runs[i].start \in Nat /\ runs[i].end \in Nat
  BY DEF Runs, RunType
<1>2. PICK k \in runs[i].start .. runs[i].end - 1 :
        c = [id |-> runs[i].id, at |-> k,
             ts |-> runs[i].ts, lam |-> runs[i].lam]
  BY DEF RunMarks
<1>3. k \in Nat /\ runs[i].start <= k /\ k < runs[i].end
  BY <1>1
<1>4. QED
  BY <1>2, <1>3 DEF HasChar, CharOf

LEMMA CharsInOrder ==
    ASSUME NEW order, KeepsRuns(order),
           NEW runs \in Seq(Runs), RunsAreOrdered(order, runs),
           NEW marks, IsStrictOrder(order, marks), marks \subseteq Mark,
           \A c, e \in marks : c.id = e.id /\ c.at = e.at => c = e,
           DocumentMarks(runs) \subseteq marks,
           NEW c \in DocumentMarks(runs), NEW e \in DocumentMarks(runs)
    PROVE  ComesBefore(runs, CharOf(c), CharOf(e)) <=> <<c, e>> \in order
<1>1. \A i \in DOMAIN runs : RunMarks(runs[i]) \subseteq marks
  BY DEF DocumentMarks
<1>2. c.at \in Nat /\ e.at \in Nat /\ c \in marks /\ e \in marks
      /\ c \in Mark /\ e \in Mark
  BY DEF Mark
<1>3. \A x : CharOf(x).id = x.id /\ CharOf(x).at = x.at
  BY DEF CharOf
<1>4. ASSUME NEW x \in marks, x \in Mark, NEW i \in DOMAIN runs,
             HasChar(runs[i], CharOf(x))
      PROVE  x \in RunMarks(runs[i])
  <2>1. CharOf(x).at \in Nat
    BY <1>3, <1>4 DEF Mark
  <2>2. PICK y \in RunMarks(runs[i]) :
          y.id = CharOf(x).id /\ y.at = CharOf(x).at
    BY <1>4, <2>1, MarkOfChar
  <2>3. y = x
    BY <1>1, <1>3, <1>4, <2>2
  <2>4. QED
    BY <2>2, <2>3
<1>5. ASSUME NEW i \in DOMAIN runs, c \in RunMarks(runs[i]),
             e \in RunMarks(runs[i]), c.at < e.at
      PROVE  <<c, e>> \in order
  BY <1>2, <1>5, CharOfMark DEF KeepsRuns
<1>6. ASSUME NEW i \in DOMAIN runs, c \in RunMarks(runs[i]),
             e \in RunMarks(runs[i]), e.at < c.at
      PROVE  <<e, c>> \in order
  BY <1>2, <1>6, CharOfMark DEF KeepsRuns
<1>7. ASSUME ComesBefore(runs, CharOf(c), CharOf(e))
      PROVE  <<c, e>> \in order
  <2>1. PICK i \in DOMAIN runs, j \in DOMAIN runs :
          /\ HasChar(runs[i], CharOf(c)) /\ HasChar(runs[j], CharOf(e))
          /\ i < j \/ (i = j /\ c.at < e.at)
    BY <1>3, <1>7 DEF ComesBefore
  <2>2. c \in RunMarks(runs[i]) /\ e \in RunMarks(runs[j])
    BY <1>2, <1>4, <2>1
  <2>3. CASE i < j
    BY <2>2, <2>3 DEF RunsAreOrdered, MarksBefore
  <2>4. CASE i = j /\ c.at < e.at
    BY <1>5, <2>2, <2>4
  <2>5. QED
    BY <2>1, <2>3, <2>4
<1>8. ASSUME <<c, e>> \in order
      PROVE  ComesBefore(runs, CharOf(c), CharOf(e))
  <2>1. PICK i \in DOMAIN runs : c \in RunMarks(runs[i])
    BY DEF DocumentMarks
  <2>2. PICK j \in DOMAIN runs : e \in RunMarks(runs[j])
    BY DEF DocumentMarks
  <2>3. HasChar(runs[i], CharOf(c)) /\ HasChar(runs[j], CharOf(e))
    BY <2>1, <2>2, CharOfMark
  <2>4. c # e /\ <<e, c>> \notin order
    BY <1>2, <1>8 DEF IsStrictOrder
  <2>5. ~(j < i)
    BY <2>1, <2>2, <2>4 DEF RunsAreOrdered, MarksBefore
  <2>6. i = j => c.id = e.id
    BY <2>1, <2>2, CharOfMark
  <2>7. i = j => c.at < e.at
    BY <1>2, <1>6, <2>1, <2>2, <2>4, <2>6
  <2>8. i \in Nat /\ j \in Nat
    OBVIOUS
  <2>9. i < j \/ (i = j /\ CharOf(c).at < CharOf(e).at)
    BY <1>3, <2>5, <2>7, <2>8
  <2>10. QED
    BY <2>3, <2>9 DEF ComesBefore
<1>9. QED
  BY <1>7, <1>8

LEMMA CharsAtInOrder ==
    ASSUME DocumentsOK, NEW order, KeepsRuns(order), IsOrderOfText(order),
           NEW r \in replicas,
           NEW c \in DocumentMarks(run_tree[r]),
           NEW e \in DocumentMarks(run_tree[r])
    PROVE  ComesBefore(run_tree[r], CharOf(c), CharOf(e)) <=> <<c, e>> \in order
<1>1. run_tree[r] \in Seq(Runs)
  BY DEF DocumentsOK, DocumentsAreSentText, WellFormed
<1>2. IsStrictOrder(order, SentMarks) /\ RunsAreOrdered(order, run_tree[r])
  BY DEF IsOrderOfText, DocumentsAreInOrder
<1>3. SentMarks \subseteq Mark /\ DocumentMarks(run_tree[r]) \subseteq SentMarks
  BY SentMarksAreMarks, HeldMarks DEF DocumentsOK
<1>4. \A x, y \in SentMarks : x.id = y.id /\ x.at = y.at => x = y
  BY MarksAreUnique DEF DocumentsOK, TextInvariant
<1>5. QED
  BY <1>1, <1>2, <1>3, <1>4, CharsInOrder

LEMMA CharsHaveMarks ==
    ASSUME NEW runs \in Seq(Runs), NEW x \in CharSet(runs)
    PROVE  \E c \in DocumentMarks(runs) : x = CharOf(c)
<1>1. PICK i \in DOMAIN runs : x \in RunCharSet(runs[i])
  BY DEF CharSet
<1>2. PICK k \in runs[i].start .. runs[i].end - 1 :
        x = [id |-> runs[i].id, at |-> k]
  BY <1>1 DEF RunCharSet
<1> DEFINE c == [id |-> runs[i].id, at |-> k,
                 ts |-> runs[i].ts, lam |-> runs[i].lam]
<1>3. c \in RunMarks(runs[i])
  BY DEF RunMarks
<1>4. QED
  BY <1>2, <1>3 DEF DocumentMarks, CharOf

LEMMA DocumentsAgree ==
    ASSUME DocumentInvariant, OrderInvariant
    PROVE  OrderAgreement
<1>1. DocumentsOK
  BY DocumentsAreOK
<1>2. PICK order : KeepsRuns(order) /\ IsOrderOfText(order)
  BY DEF OrderInvariant
<1>3. SUFFICES ASSUME NEW r \in replicas, NEW s \in replicas,
                      NEW x \in CharsAt(r) \cap CharsAt(s),
                      NEW y \in CharsAt(r) \cap CharsAt(s)
               PROVE  ComesBefore(run_tree[r], x, y)
                        <=> ComesBefore(run_tree[s], x, y)
  BY DEF OrderAgreement, Live
<1>4. ASSUME NEW q \in replicas, NEW z \in CharsAt(q)
      PROVE  \E c \in DocumentMarks(run_tree[q]) : z = CharOf(c)
  <2>1. run_tree[q] \in Seq(Runs)
    BY <1>1 DEF DocumentsOK, DocumentsAreSentText, WellFormed
  <2>2. QED
    BY <1>4, <2>1, CharsHaveMarks DEF CharsAt
<1>5. ASSUME NEW z \in CharsAt(r) \cap CharsAt(s)
      PROVE  \E c \in DocumentMarks(run_tree[r])
                        \cap DocumentMarks(run_tree[s]) : z = CharOf(c)
  <2>1. PICK c \in DocumentMarks(run_tree[r]) : z = CharOf(c)
    BY <1>4, <1>5
  <2>2. PICK e \in DocumentMarks(run_tree[s]) : z = CharOf(e)
    BY <1>4, <1>5
  <2>3. c \in SentMarks /\ e \in SentMarks
    BY <1>1, HeldMarks
  <2>4. c.id = e.id /\ c.at = e.at
    BY <2>1, <2>2 DEF CharOf
  <2>5. c = e
    BY <1>1, <2>3, <2>4, MarksAreUnique DEF DocumentsOK, TextInvariant
  <2>6. QED
    BY <2>1, <2>2, <2>5
<1>6. PICK c \in DocumentMarks(run_tree[r]) \cap DocumentMarks(run_tree[s]) :
        x = CharOf(c)
  BY <1>5
<1>7. PICK e \in DocumentMarks(run_tree[r]) \cap DocumentMarks(run_tree[s]) :
        y = CharOf(e)
  BY <1>5
<1>8. ComesBefore(run_tree[r], x, y) <=> <<c, e>> \in order
  BY <1>1, <1>2, <1>6, <1>7, CharsAtInOrder
<1>9. ComesBefore(run_tree[s], x, y) <=> <<c, e>> \in order
  BY <1>1, <1>2, <1>6, <1>7, CharsAtInOrder
<1>10. QED
  BY <1>8, <1>9

(* Wherever two characters are held they are in the one order of the text. *)
THEOREM OrderIsAgreedOn == Spec => []OrderAgreement
<1>1. DocumentInvariant /\ OrderInvariant => OrderAgreement
  BY DocumentsAgree
<1>2. QED
  BY <1>1, DocumentsAreCorrect, TextHasOneOrder, PTL

------------------------------------------------------------------------------
(* The characters of a text, by the leaves they are in.                    *)
IsCharAt(runs, p, i, k) ==
    /\ i \in 1 .. Len(runs) /\ ~runs[i].del
    /\ k \in 1 .. RunLen(runs[i])
    /\ p \in 1 .. Len(VisibleChars(runs))
    /\ p = OffsetOfLeaf(runs, i) + k
    /\ VisibleChars(runs)[p] = [id |-> runs[i].id, at |-> runs[i].start + k - 1]

LEMMA CharOfLeaf ==
    ASSUME NEW runs \in Seq(Runs), NEW i \in 1 .. Len(runs), ~runs[i].del,
           NEW k \in 1 .. RunLen(runs[i])
    PROVE  IsCharAt(runs, OffsetOfLeaf(runs, i) + k, i, k)
<1>1. PICK A, L, B, n, text :
         /\ A = BeforeLeaf(runs, i) /\ L = RunText(runs[i])
         /\ B = FromLeaf(runs, i + 1) /\ n = OffsetOfLeaf(runs, i)
         /\ text = VisibleChars(runs)
  OBVIOUS
<1>2. Len(runs) \in Nat /\ i \in 1 .. Len(runs) + 1
  BY LenProperties
<1>3. /\ A \in Seq(Characters) /\ Len(A) = n
      /\ text = A \o FromLeaf(runs, i)
  BY <1>1, <1>2, TextAroundLeaf DEF IsTextAround
<1>4. /\ L \in Seq(Characters) /\ B \in Seq(Characters)
      /\ FromLeaf(runs, i) = L \o B
  BY <1>1, TextFromLeaf
<1>5. runs[i] \in Runs
  BY ElementOfSeq
<1>6. RunLen(runs[i]) \in Nat
  BY <1>5, RunLength
<1>7. /\ Len(L) = RunLen(runs[i])
      /\ L[k] = [id |-> runs[i].id, at |-> runs[i].start + k - 1]
  <2>1. L = [j \in 1 .. RunLen(runs[i]) |->
               [id |-> runs[i].id, at |-> runs[i].start + j - 1]]
    BY <1>1 DEF RunText, RunChars
  <2>2. QED
    BY <2>1, <1>6
<1>8. PICK T : T = L \o B
  OBVIOUS
<1>9. /\ T \in Seq(Characters) /\ Len(T) = Len(L) + Len(B)
      /\ \A j \in 1 .. Len(L) : T[j] = L[j]
  BY <1>4, <1>8, ConcatProperties
<1>10. /\ Len(text) = n + Len(T)
       /\ \A j \in 1 .. Len(text) : text[j] = IF j <= n THEN A[j] ELSE T[j - n]
  <2>1. A \in Seq(Characters) /\ T \in Seq(Characters) /\ Len(A) = n
    BY <1>3, <1>9
  <2>2. text = A \o T
    BY <1>3, <1>4, <1>8
  <2>3. /\ Len(A \o T) = Len(A) + Len(T)
        /\ \A j \in 1 .. Len(A) + Len(T) :
             (A \o T)[j] = IF j <= Len(A) THEN A[j] ELSE T[j - Len(A)]
    BY <2>1, ConcatProperties
  <2>4. QED
    BY <2>1, <2>2, <2>3
<1>11. Len(A) \in Nat /\ Len(L) \in Nat /\ Len(B) \in Nat /\ Len(T) \in Nat
  BY <1>3, <1>4, <1>9, LenProperties
<1>12. n \in Nat /\ k \in 1 .. Len(L) /\ k \in Nat
  BY <1>3, <1>6, <1>7, <1>11
<1>13. n + k \in 1 .. Len(text) /\ ~(n + k <= n) /\ (n + k) - n = k
  BY <1>9, <1>10, <1>11, <1>12
<1>14. text[n + k] = T[k]
  BY <1>10, <1>13
<1>15. text[n + k] = [id |-> runs[i].id, at |-> runs[i].start + k - 1]
  BY <1>7, <1>9, <1>12, <1>14
<1>16. QED
  BY <1>1, <1>13, <1>15 DEF IsCharAt

LEMMA CharsAreOfLeaves ==
    ASSUME NEW runs \in Seq(Runs), NEW p \in 1 .. Len(VisibleChars(runs))
    PROVE  \E i, k : IsCharAt(runs, p, i, k)
<1>1. Len(VisibleChars(runs)) = DocumentLen(runs)
      /\ Len(VisibleChars(runs)) \in Nat
  BY TextLength, LenProperties
<1>2. p \in Nat /\ 0 < p /\ p <= DocumentLen(runs)
  BY <1>1
<1>3. PICK i : i = LeafAtOffset(runs, p)
  OBVIOUS
<1>4. /\ i \in 1 .. Len(runs) /\ OffsetOfLeaf(runs, i) \in Nat
      /\ OffsetOfLeaf(runs, i) < p
      /\ p <= OffsetOfLeaf(runs, i) + VisibleLen(runs[i])
  BY <1>2, <1>3, LeafAtOffsetExists
<1>5. runs[i] \in Runs
  BY <1>4, ElementOfSeq
<1>6. RunLen(runs[i]) \in Nat
  BY <1>5, RunLength
<1>7. ~runs[i].del
  <2>1. SUFFICES ASSUME runs[i].del PROVE FALSE
    OBVIOUS
  <2>2. VisibleLen(runs[i]) = 0
    BY <2>1 DEF VisibleLen
  <2>3. QED
    BY <1>2, <1>4, <2>2
<1>8. VisibleLen(runs[i]) = RunLen(runs[i])
  BY <1>7 DEF VisibleLen
<1>9. PICK k : k = p - OffsetOfLeaf(runs, i)
  OBVIOUS
<1>10. k \in 1 .. RunLen(runs[i]) /\ p = OffsetOfLeaf(runs, i) + k
  BY <1>2, <1>4, <1>6, <1>8, <1>9
<1>11. IsCharAt(runs, p, i, k)
  BY <1>4, <1>7, <1>10, CharOfLeaf
<1>12. QED
  BY <1>11

(* Each character is in one leaf, and so in one place of the text.         *)
AreApart(runs) ==
    \A i, j \in DOMAIN runs :
        i < j => RunCharSet(runs[i]) \cap RunCharSet(runs[j]) = {}

LEMMA LeavesApart ==
    ASSUME NEW runs \in Seq(Runs), AreApart(runs),
           NEW i \in 1 .. Len(runs), NEW j \in 1 .. Len(runs), NEW x,
           x \in RunCharSet(runs[i]), x \in RunCharSet(runs[j])
    PROVE  i = j
<1>1. Len(runs) \in Nat /\ DOMAIN runs = 1 .. Len(runs)
  BY LenProperties
<1>2. ~(i < j) /\ ~(j < i)
  BY <1>1 DEF AreApart
<1>3. QED
  BY <1>1, <1>2

LEMMA CharIsOfRun ==
    ASSUME NEW runs \in Seq(Runs), NEW p, NEW i, NEW k, IsCharAt(runs, p, i, k)
    PROVE  VisibleChars(runs)[p] \in RunCharSet(runs[i])
<1>1. /\ i \in 1 .. Len(runs) /\ k \in 1 .. RunLen(runs[i])
      /\ VisibleChars(runs)[p] = [id |-> runs[i].id, at |-> runs[i].start + k - 1]
  BY DEF IsCharAt
<1>2. runs[i] \in Runs
  BY <1>1, ElementOfSeq
<1>3. /\ runs[i].start \in Nat /\ RunLen(runs[i]) \in Nat
      /\ runs[i].end = runs[i].start + RunLen(runs[i])
  BY <1>2, RunLength
<1>4. runs[i].start + k - 1 \in runs[i].start .. runs[i].end - 1
  BY <1>1, <1>3
<1>5. QED
  BY <1>1, <1>4 DEF RunCharSet

LEMMA TextHasNoRepeats ==
    ASSUME NEW runs \in Seq(Runs), AreApart(runs),
           NEW p \in 1 .. Len(VisibleChars(runs)),
           NEW q \in 1 .. Len(VisibleChars(runs)),
           VisibleChars(runs)[p] = VisibleChars(runs)[q]
    PROVE  p = q
<1>1. PICK i, k : IsCharAt(runs, p, i, k)
  BY CharsAreOfLeaves
<1>2. PICK j, l : IsCharAt(runs, q, j, l)
  BY CharsAreOfLeaves
<1>3. i = j
  <2>1. /\ VisibleChars(runs)[p] \in RunCharSet(runs[i])
        /\ VisibleChars(runs)[p] \in RunCharSet(runs[j])
    BY <1>1, <1>2, CharIsOfRun
  <2>2. i \in 1 .. Len(runs) /\ j \in 1 .. Len(runs)
    BY <1>1, <1>2 DEF IsCharAt
  <2>3. QED
    BY <2>1, <2>2, LeavesApart
<1>4. PICK start, n : start = runs[i].start /\ n = RunLen(runs[i])
  OBVIOUS
<1>5. runs[i] \in Runs
  BY <1>1, ElementOfSeq DEF IsCharAt
<1>6. start \in Nat /\ n \in Nat
  BY <1>4, <1>5, RunLength
<1>7. start + k - 1 = start + l - 1
  BY <1>1, <1>2, <1>3, <1>4 DEF IsCharAt
<1>8. k \in 1 .. n /\ l \in 1 .. n
  BY <1>1, <1>2, <1>3, <1>4 DEF IsCharAt
<1>9. k = l
  BY <1>6, <1>7, <1>8
<1>10. QED
  BY <1>1, <1>2, <1>3, <1>9 DEF IsCharAt

IsInText(x, text) == \E p \in 1 .. Len(text) : text[p] = x

(* What the user sees is what is in the document and is not deleted.       *)
LEMMA TextIsVisible ==
    ASSUME NEW runs \in Seq(Runs), AreApart(runs), NEW x
    PROVE  IsInText(x, VisibleChars(runs))
             <=> x \in CharSet(runs) /\ x \notin Tombstones(runs)
<1>1. Len(runs) \in Nat /\ DOMAIN runs = 1 .. Len(runs)
  BY LenProperties
<1>2. ASSUME NEW p \in 1 .. Len(VisibleChars(runs)), VisibleChars(runs)[p] = x
      PROVE  x \in CharSet(runs) /\ x \notin Tombstones(runs)
  <2>1. PICK i, k : IsCharAt(runs, p, i, k)
    BY CharsAreOfLeaves
  <2>2. x \in RunCharSet(runs[i]) /\ i \in 1 .. Len(runs) /\ ~runs[i].del
    BY <1>2, <2>1, CharIsOfRun DEF IsCharAt
  <2>3. ASSUME x \in Tombstones(runs) PROVE FALSE
    <3>1. PICK j \in 1 .. Len(runs) : runs[j].del /\ x \in RunCharSet(runs[j])
      BY <1>1, <2>3 DEF Tombstones
    <3>2. i = j
      BY <2>2, <3>1, LeavesApart
    <3>3. QED
      BY <2>2, <3>1, <3>2
  <2>4. x \in CharSet(runs)
    BY <1>1, <2>2 DEF CharSet
  <2>5. QED
    BY <2>3, <2>4
<1>3. ASSUME x \in CharSet(runs), x \notin Tombstones(runs)
      PROVE  \E p \in 1 .. Len(VisibleChars(runs)) : VisibleChars(runs)[p] = x
  <2>1. PICK i \in 1 .. Len(runs) : x \in RunCharSet(runs[i])
    BY <1>1, <1>3 DEF CharSet
  <2>2. ~runs[i].del
    BY <1>1, <1>3, <2>1 DEF Tombstones
  <2>3. PICK at \in runs[i].start .. runs[i].end - 1 :
           x = [id |-> runs[i].id, at |-> at]
    BY <2>1 DEF RunCharSet
  <2>4. runs[i] \in Runs
    BY ElementOfSeq
  <2>5. /\ runs[i].start \in Nat /\ RunLen(runs[i]) \in Nat
        /\ runs[i].end = runs[i].start + RunLen(runs[i])
    BY <2>4, RunLength
  <2>6. PICK k : k = at - runs[i].start + 1
    OBVIOUS
  <2>7. k \in 1 .. RunLen(runs[i]) /\ runs[i].start + k - 1 = at
    BY <2>3, <2>5, <2>6
  <2>8. IsCharAt(runs, OffsetOfLeaf(runs, i) + k, i, k)
    BY <2>2, <2>7, CharOfLeaf
  <2>9. PICK p : p = OffsetOfLeaf(runs, i) + k
    OBVIOUS
  <2>10. /\ p \in 1 .. Len(VisibleChars(runs))
         /\ VisibleChars(runs)[p] = [id |-> runs[i].id, at |-> at]
    BY <2>7, <2>8, <2>9 DEF IsCharAt
  <2>11. QED
    BY <2>3, <2>10
<1>4. QED
  BY <1>2, <1>3 DEF IsInText

(* A range cut out of a text: what goes, and what is left.                 *)
CutOut(text, from, to) == ToSet(SubSeq(text, from + 1, to))

LEMMA CharsOfRange ==
    ASSUME NEW S, NEW text \in Seq(S), NEW from \in Nat, NEW to \in Nat,
           from < to, to <= Len(text), NEW x
    PROVE  x \in CutOut(text, from, to)
             <=> \E p \in from + 1 .. to : text[p] = x
<1>1. Len(text) \in Nat
  BY LenProperties
<1>2. PICK gone : gone = SubSeq(text, from + 1, to)
  OBVIOUS
<1>3. /\ gone \in Seq(S) /\ Len(gone) = to - from
      /\ \A i \in 1 .. to - from : gone[i] = text[from + i]
  <2>1. /\ from + 1 \in 1 .. Len(text) + 1 /\ to \in from .. Len(text)
        /\ \A i \in 1 .. to - from : text[from + 1 + i - 1] = text[from + i]
        /\ to - (from + 1) + 1 = to - from
    BY <1>1
  <2>2. /\ gone \in Seq(S) /\ Len(gone) = to - (from + 1) + 1
        /\ \A i \in 1 .. to - (from + 1) + 1 : gone[i] = text[from + 1 + i - 1]
    BY <1>1, <1>2, SubSeqProperties
  <2>3. QED
    BY <2>1, <2>2
<1>4. DOMAIN gone = 1 .. to - from
  BY <1>3, LenProperties
<1>5. ASSUME x \in ToSet(gone) PROVE \E p \in from + 1 .. to : text[p] = x
  <2>1. PICK i \in 1 .. to - from : gone[i] = x
    BY <1>4, <1>5 DEF ToSet
  <2>2. from + i \in from + 1 .. to
    OBVIOUS
  <2>3. QED
    BY <1>3, <2>1, <2>2
<1>6. ASSUME NEW p \in from + 1 .. to, text[p] = x PROVE x \in ToSet(gone)
  <2>1. PICK i : i = p - from
    OBVIOUS
  <2>2. i \in 1 .. to - from /\ from + i = p
    BY <2>1
  <2>3. gone[i] = x
    BY <1>3, <1>6, <2>2
  <2>4. QED
    BY <1>4, <2>2, <2>3 DEF ToSet
<1>7. QED
  BY <1>2, <1>5, <1>6 DEF CutOut

LEMMA CharsOutsideRange ==
    ASSUME NEW S, NEW text \in Seq(S), NEW from \in Nat, NEW to \in Nat,
           from < to, to <= Len(text), NEW x
    PROVE  IsInText(x, RemoveRange(text, [start |-> from, end |-> to]))
             <=> \E p \in 1 .. Len(text) : ~(p \in from + 1 .. to) /\ text[p] = x
<1>1. Len(text) \in Nat /\ from \in 0 .. Len(text) /\ to \in 0 .. Len(text)
  BY LenProperties
<1>2. PICK A, B, left : /\ A = UpTo(text, from) /\ B = TextAfter(text, to)
                        /\ left = A \o B
  OBVIOUS
<1>3. RemoveRange(text, [start |-> from, end |-> to]) = left
  BY <1>2, RemoveRangeCuts
<1>4. /\ A \in Seq(S) /\ Len(A) = from
      /\ \A i \in 1 .. from : A[i] = text[i]
  <2>1. IsCutAt(text, from, S)
    BY <1>1, TextIsCut
  <2>2. QED
    BY <1>2, <2>1 DEF IsCutAt
<1>5. /\ B \in Seq(S) /\ Len(B) = Len(text) - to
      /\ \A i \in 1 .. Len(B) : B[i] = text[to + i]
  <2>1. IsCutAt(text, to, S)
    BY <1>1, TextIsCut
  <2>2. QED
    BY <1>2, <2>1 DEF IsCutAt
<1>6. Len(B) \in Nat
  BY <1>5, LenProperties
<1>7. /\ Len(left) = from + Len(B)
      /\ \A i \in 1 .. Len(left) : left[i] = IF i <= from THEN A[i] ELSE B[i - from]
  <2>1. A \in Seq(S) /\ B \in Seq(S) /\ Len(A) = from
    BY <1>4, <1>5
  <2>2. left = A \o B
    BY <1>2
  <2>3. QED
    BY <2>1, <2>2, ConcatProperties
<1>8. ASSUME NEW i \in 1 .. Len(left), left[i] = x
      PROVE  \E p \in 1 .. Len(text) : ~(p \in from + 1 .. to) /\ text[p] = x
  <2>1. CASE i <= from
    <3>1. i \in 1 .. from /\ i \in 1 .. Len(text) /\ ~(i \in from + 1 .. to)
      BY <2>1, <1>1, <1>6, <1>7
    <3>2. text[i] = x
      BY <3>1, <2>1, <1>4, <1>7, <1>8
    <3>3. QED
      BY <3>1, <3>2
  <2>2. CASE ~(i <= from)
    <3>1. PICK j : j = i - from
      OBVIOUS
    <3>2. /\ j \in 1 .. Len(B) /\ to + j \in 1 .. Len(text)
          /\ ~(to + j \in from + 1 .. to)
      BY <2>2, <3>1, <1>1, <1>5, <1>6, <1>7
    <3>3. text[to + j] = x
      BY <2>2, <3>1, <3>2, <1>5, <1>7, <1>8
    <3>4. QED
      BY <3>2, <3>3
  <2>3. QED
    BY <2>1, <2>2
<1>9. ASSUME NEW p \in 1 .. Len(text), ~(p \in from + 1 .. to), text[p] = x
      PROVE  \E i \in 1 .. Len(left) : left[i] = x
  <2>1. CASE p <= from
    <3>1. p \in 1 .. from /\ p \in 1 .. Len(left)
      BY <2>1, <1>1, <1>6, <1>7
    <3>2. left[p] = x
      BY <3>1, <2>1, <1>4, <1>7, <1>9
    <3>3. QED
      BY <3>1, <3>2
  <2>2. CASE ~(p <= from)
    <3>1. PICK j, i : j = p - to /\ i = from + j
      OBVIOUS
    <3>2. /\ j \in 1 .. Len(B) /\ i \in 1 .. Len(left) /\ to + j = p
          /\ ~(i <= from) /\ i - from = j
      BY <2>2, <3>1, <1>1, <1>5, <1>6, <1>7, <1>9
    <3>3. left[i] = B[j] /\ B[j] = x
      BY <3>2, <1>5, <1>7, <1>9
    <3>4. QED
      BY <3>2, <3>3
  <2>3. QED
    BY <2>1, <2>2
<1>10. QED
  BY <1>3, <1>8, <1>9 DEF IsInText

(* A range cut out of the text of a document is what is deleted there and  *)
(* was not before.                                                         *)
LEMMA CutTextIsDeleted ==
    ASSUME NEW runs \in Seq(Runs), NEW now \in Seq(Runs),
           AreApart(runs), AreApart(now), CharSet(now) = CharSet(runs),
           NEW from \in Nat, NEW to \in Nat, from < to, to <= DocumentLen(runs),
           VisibleChars(now) =
             RemoveRange(VisibleChars(runs), [start |-> from, end |-> to]),
           NEW x
    PROVE  x \in CutOut(VisibleChars(runs), from, to)
             <=> /\ x \in CharSet(runs)
                 /\ x \in Tombstones(now) /\ x \notin Tombstones(runs)
<1>1. PICK text : text = VisibleChars(runs)
  OBVIOUS
<1>2. text \in Seq(Characters) /\ to <= Len(text) /\ Len(text) \in Nat
  BY <1>1, TextLength, LenProperties
<1>3. x \in CutOut(text, from, to)
        <=> \E p \in from + 1 .. to : text[p] = x
  <2>1. /\ text \in Seq(Characters) /\ from \in Nat /\ to \in Nat
        /\ from < to /\ to <= Len(text)
    BY <1>2
  <2>2. QED
    BY <2>1, CharsOfRange
<1>4. IsInText(x, RemoveRange(text, [start |-> from, end |-> to]))
        <=> \E p \in 1 .. Len(text) : ~(p \in from + 1 .. to) /\ text[p] = x
  BY <1>2, CharsOutsideRange
<1>5. IsInText(x, text) <=> x \in CharSet(runs) /\ x \notin Tombstones(runs)
  BY <1>1, TextIsVisible
<1>6. IsInText(x, VisibleChars(now))
        <=> x \in CharSet(runs) /\ x \notin Tombstones(now)
  BY TextIsVisible
<1>7. \A p, q \in 1 .. Len(text) : text[p] = text[q] => p = q
  BY <1>1, TextHasNoRepeats
<1>8. \A p \in from + 1 .. to : p \in 1 .. Len(text)
  BY <1>2
<1>9. (\E p \in from + 1 .. to : text[p] = x)
        <=> /\ IsInText(x, text)
            /\ ~(\E p \in 1 .. Len(text) : ~(p \in from + 1 .. to) /\ text[p] = x)
  BY <1>7, <1>8, Zenon DEF IsInText
<1>10. IsInText(x, VisibleChars(now))
         <=> IsInText(x, RemoveRange(text, [start |-> from, end |-> to]))
  BY <1>1
<1>11. QED
  BY <1>1, <1>3, <1>4, <1>5, <1>6, <1>9, <1>10, Zenon

------------------------------------------------------------------------------
(* As many characters as there are places for them.                        *)
LEMMA CountOfPlaces ==
    ASSUME NEW text, NEW n \in Nat, n <= Len(text), Len(text) \in Nat,
           \A p, q \in 1 .. Len(text) : text[p] = text[q] => p = q,
           NEW T, \A x : x \in T <=> \E p \in 1 .. n : text[p] = x
    PROVE  Cardinality(T) = n
<1> DEFINE f == [p \in 1 .. n |-> text[p]]
<1>1. \A p \in 1 .. n : p \in 1 .. Len(text) /\ text[p] \in T
  OBVIOUS
<1>2. f \in [1 .. n -> T] /\ \A p \in 1 .. n : f[p] = text[p]
  BY <1>1
<1>3. DOMAIN f = 1 .. n
  OBVIOUS
<1> HIDE DEF f
<1>4. IsInjective(f)
  <2>1. ASSUME NEW p \in 1 .. n, NEW q \in 1 .. n, f[p] = f[q] PROVE p = q
    BY <1>1, <1>2, <2>1
  <2>2. QED
    BY <1>3, <2>1 DEF IsInjective
<1>5. \A x \in T : \E p \in 1 .. n : f[p] = x
  BY <1>2
<1>6. f \in Bijection(1 .. n, T)
  BY <1>2, <1>4, <1>5 DEF Bijection, Injection, Surjection
<1>7. IsFiniteSet(1 .. n) /\ Cardinality(1 .. n) = n
  <2>1. 1 \in Int /\ n \in Int
    OBVIOUS
  <2>2. /\ IsFiniteSet(1 .. n)
        /\ Cardinality(1 .. n) = IF 1 > n THEN 0 ELSE n - 1 + 1
    BY <2>1, FS_Interval, Zenon
  <2>3. PICK N : N = Cardinality(1 .. n)
    OBVIOUS
  <2>4. N = IF 1 > n THEN 0 ELSE n - 1 + 1
    BY <2>2, <2>3
  <2>5. N = n
    BY <2>4
  <2>6. QED
    BY <2>2, <2>3, <2>5
<1>8. ExistsBijection(1 .. n, T)
  BY <1>6 DEF ExistsBijection
<1>9. QED
  BY <1>7, <1>8, FS_Bijection

(* The first leaf from i on that can be seen starts where leaf i does.     *)
IsNextVisible(runs, i, k) ==
    /\ k \in i .. Len(runs) /\ k \in 1 .. Len(runs) /\ ~runs[k].del
    /\ OffsetOfLeaf(runs, k) = OffsetOfLeaf(runs, i)
    /\ RunLen(runs[k]) \in Nat /\ RunLen(runs[k]) >= 1

LEMMA NextVisible ==
    ASSUME NEW runs \in Seq(Runs), OnlyLastIsEmpty(runs),
           NEW i \in 1 .. Len(runs) + 1,
           OffsetOfLeaf(runs, i) < DocumentLen(runs)
    PROVE  IsNextVisible(runs, i, VisibleFrom(runs, i))
<1>1. Len(runs) \in Nat
  BY LenProperties
<1>2. PICK p : p = OffsetOfLeaf(runs, i)
  OBVIOUS
<1>3. p \in Nat /\ DocumentLen(runs) \in Nat
  <2>1. Len(runs) + 1 \in 1 .. Len(runs) + 1
    BY <1>1
  <2>2. QED
    BY <1>2, <2>1, OffsetsOfLeaves DEF DocumentLen
<1>4. PICK q : q = LeafAtOffset(runs, p + 1)
  OBVIOUS
<1>5. /\ q \in 1 .. Len(runs) /\ OffsetOfLeaf(runs, q) \in Nat
      /\ OffsetOfLeaf(runs, q) < p + 1
      /\ p + 1 <= OffsetOfLeaf(runs, q) + VisibleLen(runs[q])
  <2>1. p + 1 \in Nat /\ 0 < p + 1 /\ p + 1 <= DocumentLen(runs)
    BY <1>2, <1>3
  <2>2. QED
    BY <1>4, <2>1, LeafAtOffsetExists
<1>6. ~runs[q].del
  <2>1. SUFFICES ASSUME runs[q].del PROVE FALSE
    OBVIOUS
  <2>2. VisibleLen(runs[q]) = 0
    BY <2>1 DEF VisibleLen
  <2>3. QED
    BY <1>3, <1>5, <2>2
<1>7. /\ OffsetOfLeaf(runs, q + 1) = OffsetOfLeaf(runs, q) + VisibleLen(runs[q])
      /\ VisibleLen(runs[q]) \in Nat
  BY <1>5, OffsetsOfLeaves
<1>8. i <= q
  <2>1. SUFFICES ASSUME q + 1 <= i PROVE FALSE
    BY <1>1, <1>5
  <2>2. q + 1 \in 1 .. Len(runs) + 1
    BY <1>1, <1>5
  <2>3. OffsetOfLeaf(runs, q + 1) <= p
    BY <1>2, <2>1, <2>2, OffsetsGrow
  <2>4. QED
    BY <1>3, <1>5, <1>7, <2>3
<1>9. PICK S : S = {k \in i .. Len(runs) : ~runs[k].del}
  OBVIOUS
<1>10. q \in S /\ S \subseteq Nat
  BY <1>1, <1>5, <1>6, <1>8, <1>9
<1>11. PICK m \in S : \A k \in S : m <= k
  BY <1>10, LeastNumber
<1>12. /\ m \in i .. Len(runs) /\ ~runs[m].del
       /\ \A k \in i .. m - 1 : runs[k].del
  BY <1>1, <1>9, <1>11
<1>13. PICK k : k = VisibleFrom(runs, i)
  OBVIOUS
<1>14. /\ k \in i .. Len(runs) /\ ~runs[k].del
       /\ \A l \in i .. k - 1 : runs[l].del
  BY <1>12, <1>13 DEF VisibleFrom
<1>15. k <= q /\ k \in 1 .. Len(runs)
  <2>1. ~(q \in i .. k - 1)
    BY <1>6, <1>14
  <2>2. QED
    BY <2>1, <1>1, <1>5, <1>8, <1>14
<1>16. OffsetOfLeaf(runs, k) = p
  <2>1. i \in 1 .. Len(runs) + 1 /\ k \in 1 .. Len(runs) + 1
        /\ q \in 1 .. Len(runs) + 1 /\ i <= k /\ k <= q
    BY <1>1, <1>5, <1>14, <1>15
  <2>2. /\ p <= OffsetOfLeaf(runs, k)
        /\ OffsetOfLeaf(runs, k) <= OffsetOfLeaf(runs, q)
    BY <1>2, <2>1, OffsetsGrow
  <2>3. OffsetOfLeaf(runs, k) \in Nat
    BY <2>1, OffsetsOfLeaves
  <2>4. QED
    BY <1>3, <1>5, <2>2, <2>3
<1>17. runs[k] \in Runs /\ runs[q] \in Runs
  BY <1>5, <1>15, ElementOfSeq
<1>18. /\ runs[k].start \in Nat /\ RunLen(runs[k]) \in Nat
       /\ runs[k].end = runs[k].start + RunLen(runs[k])
  BY <1>17, RunLength
<1>19. RunLen(runs[k]) >= 1
  <2>1. CASE k = q
    <3>1. VisibleLen(runs[q]) = RunLen(runs[q])
      BY <1>6 DEF VisibleLen
    <3>2. QED
      BY <2>1, <3>1, <1>3, <1>5, <1>18
  <2>2. CASE k # q
    <3>1. k \in 1 .. Len(runs) - 1
      BY <2>2, <1>1, <1>5, <1>15
    <3>2. runs[k].start < runs[k].end
      BY <3>1 DEF OnlyLastIsEmpty
    <3>3. QED
      BY <3>2, <1>18
  <2>3. QED
    BY <2>1, <2>2
<1>20. QED
  BY <1>2, <1>13, <1>14, <1>15, <1>16, <1>18, <1>19 DEF IsNextVisible

(* An anchor sticks to the character at place p of the text.               *)
AnchorOf(c, ts, bias) ==
    BiasedAnchor([id |-> c.id,
                  offset |-> IF bias = "left" THEN c.at + 1 ELSE c.at,
                  ts |-> ts], bias)

IsStuckAt(runs, p, bias, anchor) ==
    \E i, k : /\ IsCharAt(runs, p, i, k)
              /\ anchor = AnchorOf(VisibleChars(runs)[p], runs[i].ts, bias)

LEMMA StuckToLeaf ==
    ASSUME NEW runs \in Seq(Runs), NEW i \in 1 .. Len(runs), ~runs[i].del,
           NEW k \in 1 .. RunLen(runs[i]), NEW bias \in Biases,
           NEW at, at = IF bias = "left" THEN k ELSE k - 1
    PROVE  IsStuckAt(runs, OffsetOfLeaf(runs, i) + k, bias,
                     BiasedAnchor(AnchorAt(runs[i], at), bias))
<1>1. PICK p : p = OffsetOfLeaf(runs, i) + k
  OBVIOUS
<1>2. IsCharAt(runs, p, i, k)
  BY <1>1, CharOfLeaf
<1>3. PICK c : c = VisibleChars(runs)[p]
  OBVIOUS
<1>4. c = [id |-> runs[i].id, at |-> runs[i].start + k - 1]
  BY <1>2, <1>3 DEF IsCharAt
<1>5. runs[i] \in Runs
  BY ElementOfSeq
<1>6. runs[i].start \in Nat /\ RunLen(runs[i]) \in Nat
  BY <1>5, RunLength
<1>7. runs[i].start + at = IF bias = "left" THEN c.at + 1 ELSE c.at
  BY <1>4, <1>6
<1>8. AnchorAt(runs[i], at) =
        [id |-> c.id, offset |-> IF bias = "left" THEN c.at + 1 ELSE c.at,
         ts |-> runs[i].ts]
  BY <1>4, <1>7 DEF AnchorAt
<1>9. BiasedAnchor(AnchorAt(runs[i], at), bias) = AnchorOf(c, runs[i].ts, bias)
  BY <1>8 DEF AnchorOf
<1>10. QED
  BY <1>1, <1>2, <1>3, <1>9 DEF IsStuckAt

(* create_anchor: the character, or the end of the document there.         *)
IsCreatedAt(runs, p, bias, anchor) ==
    IF p \in 1 .. Len(VisibleChars(runs)) THEN IsStuckAt(runs, p, bias, anchor)
    ELSE anchor = IF bias = "left" THEN StartOfDocument ELSE EndOfDocument

LEMMA CreatedAnchor ==
    ASSUME NEW runs \in Seq(Runs), OnlyLastIsEmpty(runs),
           NEW offset \in 0 .. DocumentLen(runs), NEW bias \in Biases,
           NEW p, p = IF bias = "left" THEN offset ELSE offset + 1
    PROVE  IsCreatedAt(runs, p, bias, CreateAnchor(runs, offset, bias))
<1>1. PICK N : N = DocumentLen(runs)
  OBVIOUS
<1>2. N \in Nat /\ Len(VisibleChars(runs)) = N
  BY <1>1, TextLength, LenProperties
<1>3. offset \in Nat /\ offset <= N /\ (bias = "left" \/ bias = "right")
  BY <1>1, <1>2 DEF Biases
<1>4. PICK i, leaf_end, next, at :
         /\ i = LeafAtOffset(runs, offset)
         /\ leaf_end = OffsetOfLeaf(runs, i) + RunLen(runs[i])
         /\ next = VisibleFrom(runs, IF offset = 0 THEN 1 ELSE i + 1)
         /\ at = offset - OffsetOfLeaf(runs, i)
  OBVIOUS
<1>5. CreateAnchor(runs, offset, bias) =
        IF offset = N /\ bias = "right" THEN EndOfDocument
        ELSE IF offset = 0 /\ bias = "left" THEN StartOfDocument
        ELSE IF offset = 0 \/ (bias = "right" /\ offset = leaf_end)
        THEN BiasedAnchor(AnchorAt(runs[next], 0), "right")
        ELSE BiasedAnchor(AnchorAt(runs[i], at), bias)
  BY <1>1, <1>4 DEF CreateAnchor
<1>6. PICK anchor : anchor = CreateAnchor(runs, offset, bias)
  OBVIOUS
<1>7. ASSUME 0 < offset
      PROVE  /\ i \in 1 .. Len(runs) /\ ~runs[i].del
             /\ RunLen(runs[i]) \in Nat /\ OffsetOfLeaf(runs, i) \in Nat
             /\ at \in 1 .. RunLen(runs[i]) /\ OffsetOfLeaf(runs, i) + at = offset
             /\ OffsetOfLeaf(runs, i + 1) = leaf_end
  <2>1. /\ i \in 1 .. Len(runs) /\ OffsetOfLeaf(runs, i) \in Nat
        /\ OffsetOfLeaf(runs, i) < offset
        /\ offset <= OffsetOfLeaf(runs, i) + VisibleLen(runs[i])
    BY <1>1, <1>3, <1>4, <1>7, LeafAtOffsetExists
  <2>2. ~runs[i].del
    <3>1. SUFFICES ASSUME runs[i].del PROVE FALSE
      OBVIOUS
    <3>2. VisibleLen(runs[i]) = 0
      BY <3>1 DEF VisibleLen
    <3>3. QED
      BY <1>3, <2>1, <3>2
  <2>3. VisibleLen(runs[i]) = RunLen(runs[i])
    BY <2>2 DEF VisibleLen
  <2>4. runs[i] \in Runs
    BY <2>1, ElementOfSeq
  <2>5. RunLen(runs[i]) \in Nat
    BY <2>4, RunLength
  <2>6. OffsetOfLeaf(runs, i + 1) = OffsetOfLeaf(runs, i) + VisibleLen(runs[i])
    BY <2>1, OffsetsOfLeaves
  <2>7. at \in 1 .. RunLen(runs[i]) /\ OffsetOfLeaf(runs, i) + at = offset
    BY <1>3, <1>4, <2>1, <2>3, <2>5
  <2>8. QED
    BY <1>4, <2>1, <2>2, <2>3, <2>5, <2>6, <2>7
<1>8. ASSUME NEW j \in 1 .. Len(runs) + 1, OffsetOfLeaf(runs, j) = offset,
             offset < N, bias = "right", next = VisibleFrom(runs, j),
             anchor = BiasedAnchor(AnchorAt(runs[next], 0), "right")
      PROVE  IsStuckAt(runs, p, bias, anchor)
  <2>1. IsNextVisible(runs, j, next)
    BY <1>1, <1>8, NextVisible
  <2>2. /\ next \in 1 .. Len(runs) /\ ~runs[next].del
        /\ 1 \in 1 .. RunLen(runs[next])
        /\ OffsetOfLeaf(runs, next) = offset
    BY <1>8, <2>1 DEF IsNextVisible
  <2>3. IsStuckAt(runs, OffsetOfLeaf(runs, next) + 1, bias,
                  BiasedAnchor(AnchorAt(runs[next], 0), bias))
    <3>1. 0 = IF bias = "left" THEN 1 ELSE 1 - 1
      BY <1>8
    <3>2. QED
      BY <2>2, <3>1, StuckToLeaf
  <2>4. p = offset + 1
    BY <1>8
  <2>5. QED
    BY <1>8, <2>2, <2>3, <2>4
<1>9. CASE offset = N /\ bias = "right"
  <2>1. anchor = EndOfDocument
    BY <1>5, <1>6, <1>9
  <2>2. p \notin 1 .. N
    BY <1>2, <1>3, <1>9
  <2>3. QED
    BY <1>2, <1>6, <1>9, <2>1, <2>2 DEF IsCreatedAt
<1>10. CASE offset = 0 /\ bias = "left"
  <2>1. anchor = StartOfDocument
    BY <1>5, <1>6, <1>10
  <2>2. p \notin 1 .. N
    BY <1>10
  <2>3. QED
    BY <1>2, <1>6, <1>10, <2>1, <2>2 DEF IsCreatedAt
<1>11. CASE ~(offset = N /\ bias = "right") /\ ~(offset = 0 /\ bias = "left")
  <2>1. p \in 1 .. N
    BY <1>2, <1>3, <1>11
  <2>2. IsStuckAt(runs, p, bias, anchor)
    <3>1. CASE offset = 0
      <4>1. bias = "right" /\ offset < N
        BY <3>1, <1>2, <1>3, <1>11
      <4>2. anchor = BiasedAnchor(AnchorAt(runs[next], 0), "right")
        BY <1>5, <1>6, <1>11, <3>1
      <4>3. next = VisibleFrom(runs, 1)
        BY <1>4, <3>1
      <4>4. OffsetOfLeaf(runs, 1) = offset /\ 1 \in 1 .. Len(runs) + 1
        BY <3>1, OffsetsOfLeaves, LenProperties
      <4>5. QED
        BY <1>8, <4>1, <4>2, <4>3, <4>4
    <3>2. CASE 0 < offset /\ bias = "right" /\ offset = leaf_end
      <4>1. offset < N
        BY <3>2, <1>2, <1>3, <1>11
      <4>2. anchor = BiasedAnchor(AnchorAt(runs[next], 0), "right")
        BY <1>5, <1>6, <1>11, <3>2
      <4>3. next = VisibleFrom(runs, i + 1)
        BY <1>4, <3>2
      <4>4. OffsetOfLeaf(runs, i + 1) = offset /\ i + 1 \in 1 .. Len(runs) + 1
        BY <3>2, <1>7, LenProperties
      <4>5. QED
        BY <1>8, <3>2, <4>1, <4>2, <4>3, <4>4
    <3>3. CASE 0 < offset /\ ~(bias = "right" /\ offset = leaf_end)
      <4>1. anchor = BiasedAnchor(AnchorAt(runs[i], at), bias)
        BY <1>5, <1>6, <1>11, <3>3
      <4>2. PICK k : k = IF bias = "left" THEN at ELSE at + 1
        OBVIOUS
      <4>3. /\ i \in 1 .. Len(runs) /\ ~runs[i].del
            /\ RunLen(runs[i]) \in Nat /\ OffsetOfLeaf(runs, i) \in Nat
            /\ at \in 1 .. RunLen(runs[i]) /\ OffsetOfLeaf(runs, i) + at = offset
        BY <1>7, <3>3
      <4>4. k \in 1 .. RunLen(runs[i])
        <5>1. bias = "right" => at # RunLen(runs[i])
          BY <1>4, <3>3, <4>3
        <5>2. QED
          BY <1>3, <4>2, <4>3, <5>1
      <4>5. at = (IF bias = "left" THEN k ELSE k - 1)
            /\ p = OffsetOfLeaf(runs, i) + k
        BY <1>3, <4>2, <4>3
      <4>6. IsStuckAt(runs, OffsetOfLeaf(runs, i) + k, bias,
                      BiasedAnchor(AnchorAt(runs[i], at), bias))
        BY <4>3, <4>4, <4>5, StuckToLeaf
      <4>7. QED
        BY <4>1, <4>5, <4>6
    <3>4. QED
      BY <1>3, <3>1, <3>2, <3>3
  <2>3. QED
    BY <1>2, <1>6, <2>1, <2>2 DEF IsCreatedAt
<1>12. QED
  BY <1>9, <1>10, <1>11

------------------------------------------------------------------------------
(* How many characters are visible before one, from the leaf it is in.     *)
LeafHas(runs, i, x) ==
    /\ i \in 1 .. Len(runs) /\ x \in RunCharSet(runs[i]) /\ HasChar(runs[i], x)
    /\ x = [id |-> x.id, at |-> x.at] /\ x.at \in Nat
    /\ runs[i].start \in Nat /\ RunLen(runs[i]) \in Nat
    /\ runs[i].end = runs[i].start + RunLen(runs[i])
    /\ runs[i].start <= x.at /\ x.at < runs[i].end

LEMMA CharInLeaf ==
    ASSUME NEW runs \in Seq(Runs), NEW i \in 1 .. Len(runs),
           NEW x \in RunCharSet(runs[i])
    PROVE  LeafHas(runs, i, x)
<1>1. runs[i] \in Runs
  BY ElementOfSeq
<1>2. /\ runs[i].start \in Nat /\ RunLen(runs[i]) \in Nat
      /\ runs[i].end = runs[i].start + RunLen(runs[i])
  BY <1>1, RunLength
<1>3. PICK k \in runs[i].start .. runs[i].end - 1 : x = [id |-> runs[i].id, at |-> k]
  BY DEF RunCharSet
<1>4. /\ x.id = runs[i].id /\ x.at = k /\ x = [id |-> x.id, at |-> x.at]
  BY <1>3
<1>5. k \in Nat /\ runs[i].start <= k /\ k < runs[i].end
  BY <1>2
<1>6. QED
  BY <1>2, <1>4, <1>5 DEF LeafHas, HasChar

LEMMA CharIsInLeaf ==
    ASSUME NEW runs \in Seq(Runs), NEW i \in 1 .. Len(runs), NEW x,
           x = [id |-> x.id, at |-> x.at], x.at \in Nat, HasChar(runs[i], x)
    PROVE  x \in RunCharSet(runs[i])
<1>1. runs[i] \in Runs
  BY ElementOfSeq
<1>2. /\ runs[i].start \in Nat /\ RunLen(runs[i]) \in Nat
      /\ runs[i].end = runs[i].start + RunLen(runs[i])
  BY <1>1, RunLength
<1>3. x.id = runs[i].id /\ x.at \in runs[i].start .. runs[i].end - 1
  BY <1>2 DEF HasChar
<1>4. QED
  BY <1>3 DEF RunCharSet

LEMMA OrderOfChars ==
    ASSUME NEW runs \in Seq(Runs), AreApart(runs),
           NEW i, NEW x, LeafHas(runs, i, x), NEW j, NEW y, LeafHas(runs, j, y)
    PROVE  ComesBefore(runs, y, x) <=> j < i \/ (j = i /\ y.at < x.at)
<1>1. DOMAIN runs = 1 .. Len(runs)
  BY LenProperties
<1>2. ASSUME NEW k \in 1 .. Len(runs), HasChar(runs[k], x) PROVE k = i
  <2>1. x \in RunCharSet(runs[k])
    BY <1>2, CharIsInLeaf DEF LeafHas
  <2>2. QED
    BY <2>1, LeavesApart DEF LeafHas
<1>3. ASSUME NEW k \in 1 .. Len(runs), HasChar(runs[k], y) PROVE k = j
  <2>1. y \in RunCharSet(runs[k])
    BY <1>3, CharIsInLeaf DEF LeafHas
  <2>2. QED
    BY <2>1, LeavesApart DEF LeafHas
<1>4. /\ i \in 1 .. Len(runs) /\ HasChar(runs[i], x)
      /\ j \in 1 .. Len(runs) /\ HasChar(runs[j], y)
  BY DEF LeafHas
<1>5. QED
  BY <1>1, <1>2, <1>3, <1>4 DEF ComesBefore

VisiblePlace(runs, i, x) ==
    OffsetOfLeaf(runs, i) + IF runs[i].del THEN 0 ELSE x.at - runs[i].start

LEMMA VisiblePlaceIsCounted ==
    ASSUME NEW runs \in Seq(Runs), AreApart(runs),
           NEW i, NEW x, LeafHas(runs, i, x)
    PROVE  Cardinality({y \in ToSet(VisibleChars(runs)) : ComesBefore(runs, y, x)})
             = VisiblePlace(runs, i, x)
<1>1. PICK text, T, n, at :
         /\ text = VisibleChars(runs) /\ n = VisiblePlace(runs, i, x)
         /\ T = {y \in ToSet(text) : ComesBefore(runs, y, x)}
         /\ at = x.at - runs[i].start
  OBVIOUS
<1>2. /\ text \in Seq(Characters) /\ Len(text) = DocumentLen(runs)
      /\ Len(text) \in Nat /\ DOMAIN text = 1 .. Len(text)
  BY <1>1, TextLength, LenProperties
<1>3. /\ i \in 1 .. Len(runs) /\ Len(runs) \in Nat
      /\ at \in Nat /\ at < RunLen(runs[i]) /\ RunLen(runs[i]) \in Nat
      /\ x.at = runs[i].start + at /\ runs[i].start \in Nat
  BY <1>1, LenProperties DEF LeafHas
<1>4. PICK here, after : /\ here = OffsetOfLeaf(runs, i)
                         /\ after = OffsetOfLeaf(runs, i + 1)
  OBVIOUS
<1>5. /\ here \in Nat /\ after \in Nat /\ VisibleLen(runs[i]) \in Nat
      /\ after = here + VisibleLen(runs[i])
  <2>1. i \in 1 .. Len(runs) + 1 /\ i + 1 \in 1 .. Len(runs) + 1
    BY <1>3
  <2>2. QED
    BY <1>3, <1>4, <2>1, OffsetsOfLeaves
<1>6. /\ n \in Nat /\ here <= n /\ n <= after
      /\ ~runs[i].del => n = here + at /\ after = here + RunLen(runs[i])
  <2>1. n = here + IF runs[i].del THEN 0 ELSE at
    BY <1>1, <1>4 DEF VisiblePlace
  <2>2. VisibleLen(runs[i]) = IF runs[i].del THEN 0 ELSE RunLen(runs[i])
    BY DEF VisibleLen
  <2>3. CASE runs[i].del
    <3>1. n = here + 0 /\ VisibleLen(runs[i]) = 0
      BY <2>1, <2>2, <2>3
    <3>2. QED
      BY <2>3, <3>1, <1>5
  <2>4. CASE ~runs[i].del
    <3>1. n = here + at /\ VisibleLen(runs[i]) = RunLen(runs[i])
      BY <2>1, <2>2, <2>4
    <3>2. QED
      BY <3>1, <1>3, <1>5
  <2>5. QED
    BY <2>3, <2>4
<1>7. n <= Len(text)
  <2>1. i + 1 \in 1 .. Len(runs) + 1 /\ Len(runs) + 1 \in 1 .. Len(runs) + 1
        /\ i + 1 <= Len(runs) + 1
    BY <1>3
  <2>2. after <= Len(text)
    BY <1>2, <1>4, <2>1, OffsetsGrow DEF DocumentLen
  <2>3. QED
    BY <1>2, <1>5, <1>6, <2>2
<1>8. ASSUME NEW p \in 1 .. Len(text)
      PROVE  ComesBefore(runs, text[p], x) <=> p <= n
  <2>1. PICK j, k : IsCharAt(runs, p, j, k)
    BY <1>1, <1>8, CharsAreOfLeaves
  <2>2. PICK y : y = text[p]
    OBVIOUS
  <2>3. /\ j \in 1 .. Len(runs) /\ ~runs[j].del /\ k \in 1 .. RunLen(runs[j])
        /\ p = OffsetOfLeaf(runs, j) + k /\ y.at = runs[j].start + k - 1
    BY <1>1, <2>1, <2>2 DEF IsCharAt
  <2>4. LeafHas(runs, j, y)
    <3>1. y \in RunCharSet(runs[j])
      BY <1>1, <2>1, <2>2, CharIsOfRun
    <3>2. QED
      BY <2>3, <3>1, CharInLeaf
  <2>5. ComesBefore(runs, y, x) <=> j < i \/ (j = i /\ y.at < x.at)
    BY <2>4, OrderOfChars
  <2>6. PICK there, len : /\ there = OffsetOfLeaf(runs, j)
                          /\ len = RunLen(runs[j])
    OBVIOUS
  <2>7. len \in Nat /\ k \in 1 .. len /\ p = there + k
    BY <2>3, <2>4, <2>6 DEF LeafHas
  <2>8. there \in Nat /\ OffsetOfLeaf(runs, j + 1) = there + len
    <3>1. j \in 1 .. Len(runs) + 1
      BY <1>3, <2>3
    <3>2. VisibleLen(runs[j]) = len
      BY <2>3, <2>6 DEF VisibleLen
    <3>3. QED
      BY <2>3, <2>6, <3>1, <3>2, OffsetsOfLeaves
  <2>9. CASE j < i
    <3>1. j + 1 \in 1 .. Len(runs) + 1 /\ i \in 1 .. Len(runs) + 1 /\ j + 1 <= i
      BY <1>3, <2>3, <2>9
    <3>2. there + len <= here
      BY <1>4, <2>8, <3>1, OffsetsGrow
    <3>3. p <= n
      BY <1>5, <1>6, <2>7, <2>8, <3>2
    <3>4. QED
      BY <2>2, <2>5, <2>9, <3>3
  <2>10. CASE j = i
    <3>1. there = here /\ n = here + at
      BY <1>4, <1>6, <2>3, <2>6, <2>10
    <3>2. y.at < x.at <=> k <= at
      BY <1>3, <2>3, <2>7, <2>10
    <3>3. p <= n <=> k <= at
      BY <1>3, <1>5, <2>7, <3>1
    <3>4. QED
      BY <1>3, <2>2, <2>5, <2>10, <3>2, <3>3
  <2>11. CASE i < j
    <3>1. i + 1 \in 1 .. Len(runs) + 1 /\ j \in 1 .. Len(runs) + 1 /\ i + 1 <= j
      BY <1>3, <2>3, <2>11
    <3>2. after <= there
      BY <1>4, <2>6, <3>1, OffsetsGrow
    <3>3. ~(p <= n)
      BY <1>5, <1>6, <2>7, <2>8, <3>2
    <3>4. ~(j < i) /\ j # i
      BY <1>3, <2>3, <2>11
    <3>5. QED
      BY <2>2, <2>5, <3>3, <3>4
  <2>12. QED
    BY <1>3, <2>3, <2>9, <2>10, <2>11
<1>9. \A y : y \in T <=> \E p \in 1 .. n : text[p] = y
  <2>1. \A y : y \in ToSet(text) <=> \E p \in 1 .. Len(text) : text[p] = y
    BY <1>2 DEF ToSet
  <2>2. \A p \in 1 .. n : p \in 1 .. Len(text) /\ p <= n
    BY <1>2, <1>6, <1>7
  <2>3. \A p \in 1 .. Len(text) : p <= n => p \in 1 .. n
    BY <1>2, <1>6
  <2>4. QED
    BY <1>1, <1>8, <2>1, <2>2, <2>3
<1>10. \A p, q \in 1 .. Len(text) : text[p] = text[q] => p = q
  BY <1>1, TextHasNoRepeats
<1>11. Cardinality(T) = n
  <2>1. n \in Nat /\ n <= Len(text) /\ Len(text) \in Nat
    BY <1>2, <1>6, <1>7
  <2>2. QED
    BY <2>1, <1>9, <1>10, CountOfPlaces
<1>12. QED
  BY <1>1, <1>11

------------------------------------------------------------------------------
(* resolve_anchor finds the leaf of the character, and its place there.    *)
IsResolvedTo(runs, c, bias, resolved) ==
    \E i : /\ LeafHas(runs, i, CharOf(c))
           /\ resolved = VisiblePlace(runs, i, CharOf(c))
                + IF bias = "left" /\ ~runs[i].del THEN 1 ELSE 0

LEMMA ResolvedAnchor ==
    ASSUME NEW runs \in Seq(Runs), NEW c \in DocumentMarks(runs), c.id # 0,
           NEW bias \in Biases
    PROVE  IsResolvedTo(runs, c, bias,
                        ResolveAnchor(runs, AnchorOf(CharOf(c), c.ts, bias)))
<1>1. PICK at, i, anchor, x :
         /\ x = CharOf(c)
         /\ at = [id |-> c.id, ts |-> c.ts,
                  offset |-> IF bias = "left" THEN c.at + 1 ELSE c.at]
         /\ i = IdxAtAnchor(runs, at, bias) /\ anchor = BiasedAnchor(at, bias)
  OBVIOUS
<1>2. bias = "left" \/ bias = "right"
  BY DEF Biases
<1>3. AnchorOf(x, c.ts, bias) = anchor
  BY <1>1 DEF AnchorOf, CharOf
<1>4. DOMAIN runs = 1 .. Len(runs)
  BY LenProperties
<1>5. PICK j \in 1 .. Len(runs) : c \in RunMarks(runs[j])
  BY <1>4 DEF DocumentMarks
<1>6. /\ runs[j].start \in Nat /\ RunLen(runs[j]) \in Nat
      /\ runs[j].end = runs[j].start + RunLen(runs[j])
  <2>1. runs[j] \in Runs
    BY ElementOfSeq
  <2>2. QED
    BY <2>1, RunLength
<1>7. /\ c.id = runs[j].id /\ c.ts = runs[j].ts /\ c.at \in Nat
      /\ runs[j].start <= c.at /\ c.at < runs[j].end
  <2>1. c.id = runs[j].id /\ c.ts = runs[j].ts
        /\ c.at \in runs[j].start .. runs[j].end - 1
    BY <1>5 DEF RunMarks
  <2>2. QED
    BY <1>6, <2>1
<1>8. j \in LeavesAtAnchor(runs, at, bias)
  BY <1>1, <1>2, <1>4, <1>6, <1>7 DEF LeavesAtAnchor
<1>9. i \in LeavesAtAnchor(runs, at, bias)
  BY <1>1, <1>8 DEF IdxAtAnchor
<1>10. /\ i \in 1 .. Len(runs) /\ runs[i].id = c.id
       /\ \/ bias = "left" /\ runs[i].start < at.offset /\ at.offset <= runs[i].end
          \/ bias = "right" /\ runs[i].start <= at.offset /\ at.offset < runs[i].end
  BY <1>1, <1>4, <1>9 DEF LeavesAtAnchor
<1>11. /\ runs[i].start \in Nat /\ RunLen(runs[i]) \in Nat
       /\ runs[i].end = runs[i].start + RunLen(runs[i])
  <2>1. runs[i] \in Runs
    BY <1>10, ElementOfSeq
  <2>2. QED
    BY <2>1, RunLength
<1>12. x = [id |-> c.id, at |-> c.at]
  BY <1>1 DEF CharOf
<1>13. x.id = c.id /\ x.at = c.at /\ x = [id |-> x.id, at |-> x.at]
  BY <1>12
<1>14. at.offset = IF bias = "left" THEN x.at + 1 ELSE x.at
  BY <1>1, <1>13
<1>15. runs[i].start <= x.at /\ x.at < runs[i].end
  <2>1. CASE bias = "left"
    BY <2>1, <1>7, <1>10, <1>11, <1>13, <1>14
  <2>2. CASE bias = "right"
    BY <2>2, <1>7, <1>10, <1>11, <1>13, <1>14
  <2>3. QED
    BY <1>2, <2>1, <2>2
<1>16. LeafHas(runs, i, x)
  <2>1. HasChar(runs[i], x)
    BY <1>10, <1>13, <1>15 DEF HasChar
  <2>2. x \in RunCharSet(runs[i])
    BY <1>7, <1>10, <1>13, <2>1, CharIsInLeaf
  <2>3. QED
    BY <1>10, <2>2, CharInLeaf
<1>17. anchor # StartOfDocument /\ anchor # EndOfDocument
  <2>1. at.id = c.id /\ anchor.at = at
    BY <1>1 DEF BiasedAnchor
  <2>2. StartOfDocument.at.id = 0 /\ EndOfDocument.at.id = 0
    BY DEF StartOfDocument, EndOfDocument, BiasedAnchor, ZeroAnchor
  <2>3. QED
    BY <2>1, <2>2
<1>18. ResolveAnchor(runs, anchor) =
         IF runs[i].del THEN OffsetOfLeaf(runs, i)
         ELSE OffsetOfLeaf(runs, i) + (at.offset - runs[i].start)
  <2>1. anchor.at = at /\ anchor.bias = bias
    BY <1>1 DEF BiasedAnchor
  <2>2. QED
    BY <1>1, <1>17, <2>1 DEF ResolveAnchor
<1>19. PICK here : here = OffsetOfLeaf(runs, i)
  OBVIOUS
<1>20. here \in Nat
  <2>1. i \in 1 .. Len(runs) + 1
    BY <1>10, LenProperties
  <2>2. QED
    BY <1>19, <2>1, OffsetsOfLeaves
<1>21. ResolveAnchor(runs, anchor) =
         VisiblePlace(runs, i, x) + IF bias = "left" /\ ~runs[i].del THEN 1 ELSE 0
  <2>1. CASE runs[i].del
    <3>1. /\ ResolveAnchor(runs, anchor) = here
          /\ VisiblePlace(runs, i, x) = here + 0
      BY <1>18, <1>19, <2>1 DEF VisiblePlace
    <3>2. QED
      BY <1>20, <2>1, <3>1
  <2>2. CASE ~runs[i].del
    <3>1. /\ ResolveAnchor(runs, anchor) = here + (at.offset - runs[i].start)
          /\ VisiblePlace(runs, i, x) = here + (x.at - runs[i].start)
      BY <1>18, <1>19, <2>2 DEF VisiblePlace
    <3>2. x.at \in Nat
      BY <1>7, <1>13
    <3>3. here + (at.offset - runs[i].start) =
            here + (x.at - runs[i].start) + IF bias = "left" THEN 1 ELSE 0
      <4>1. PICK to, from, start : /\ to = at.offset /\ from = x.at
                                   /\ start = runs[i].start
        OBVIOUS
      <4>2. /\ from \in Nat /\ start \in Nat
            /\ to = IF bias = "left" THEN from + 1 ELSE from
        BY <1>11, <1>14, <3>2, <4>1
      <4>3. here + (to - start) =
              here + (from - start) + IF bias = "left" THEN 1 ELSE 0
        <5>1. CASE bias = "left"
          <6>1. to = from + 1
            BY <4>2, <5>1
          <6>2. here + (to - start) = here + (from - start) + 1
            BY <6>1, <1>20, <4>2
          <6>3. QED
            BY <5>1, <6>2
        <5>2. CASE bias # "left"
          <6>1. to = from
            BY <4>2, <5>2
          <6>2. here + (to - start) = here + (from - start) + 0
            BY <6>1, <1>20, <4>2
          <6>3. QED
            BY <5>2, <6>2
        <5>3. QED
          BY <5>1, <5>2
      <4>4. QED
        BY <4>1, <4>3
    <3>4. QED
      BY <2>2, <3>1, <3>3
  <2>3. QED
    BY <2>1, <2>2
<1>22. QED
  BY <1>1, <1>3, <1>16, <1>21 DEF IsResolvedTo

(* Together they say where an anchor made in one document is in another.   *)
LEMMA AnchorKeepsPlace ==
    ASSUME NEW runs \in Seq(Runs), AreApart(runs),
           NEW c \in DocumentMarks(runs), c.id # 0, NEW bias \in Biases,
           NEW before, before = Cardinality(
             {y \in ToSet(VisibleChars(runs)) : ComesBefore(runs, y, CharOf(c))})
    PROVE  ResolveAnchor(runs, AnchorOf(CharOf(c), c.ts, bias)) =
             IF bias = "left" /\ CharOf(c) \in ToSet(VisibleChars(runs))
             THEN before + 1 ELSE before
<1>1. PICK x, resolved :
         /\ x = CharOf(c)
         /\ resolved = ResolveAnchor(runs, AnchorOf(CharOf(c), c.ts, bias))
  OBVIOUS
<1>2. PICK i : /\ LeafHas(runs, i, x)
               /\ resolved = VisiblePlace(runs, i, x)
                    + IF bias = "left" /\ ~runs[i].del THEN 1 ELSE 0
  BY <1>1, ResolvedAnchor DEF IsResolvedTo
<1>3. before = VisiblePlace(runs, i, x)
  BY <1>1, <1>2, VisiblePlaceIsCounted
<1>4. before \in Nat
  <2>1. i \in 1 .. Len(runs) + 1
    BY <1>2, LenProperties DEF LeafHas
  <2>2. OffsetOfLeaf(runs, i) \in Nat
    BY <2>1, OffsetsOfLeaves
  <2>3. (IF runs[i].del THEN 0 ELSE x.at - runs[i].start) \in Nat
    BY <1>2 DEF LeafHas
  <2>4. QED
    BY <1>3, <2>2, <2>3 DEF VisiblePlace
<1>5. x \in ToSet(VisibleChars(runs)) <=> ~runs[i].del
  <2>1. /\ DOMAIN runs = 1 .. Len(runs)
        /\ DOMAIN VisibleChars(runs) = 1 .. Len(VisibleChars(runs))
    BY TextLength, LenProperties
  <2>2. x \in ToSet(VisibleChars(runs)) <=> IsInText(x, VisibleChars(runs))
    BY <2>1 DEF ToSet, IsInText
  <2>3. i \in 1 .. Len(runs) /\ x \in RunCharSet(runs[i])
    BY <1>2 DEF LeafHas
  <2>4. x \in CharSet(runs)
    BY <2>1, <2>3 DEF CharSet
  <2>5. x \in Tombstones(runs) <=> runs[i].del
    <3>1. x \in Tombstones(runs)
            <=> \E j \in 1 .. Len(runs) : runs[j].del /\ x \in RunCharSet(runs[j])
      BY <2>1 DEF Tombstones
    <3>2. \A j \in 1 .. Len(runs) : x \in RunCharSet(runs[j]) => j = i
      BY <2>3, LeavesApart
    <3>3. QED
      BY <2>3, <3>1, <3>2
  <2>6. QED
    BY <2>2, <2>4, <2>5, TextIsVisible
<1>6. resolved = before + IF bias = "left" /\ ~runs[i].del THEN 1 ELSE 0
  BY <1>2, <1>3
<1>7. resolved = IF bias = "left" /\ ~runs[i].del THEN before + 1 ELSE before
  BY <1>4, <1>6
<1>8. QED
  BY <1>1, <1>5, <1>7
==============================================================================
