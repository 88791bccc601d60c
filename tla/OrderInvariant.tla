---------------------------- MODULE OrderInvariant ----------------------------
(***************************************************************************)
(* The inductive invariant behind the order of characters: there is one    *)
(* order of everything that was sent, every document is a part of it, and  *)
(* what stands between a character and the one it was typed after is there *)
(* because the order of runs puts it first.                                *)
(***************************************************************************)
EXTENDS DocumentInvariant

(* The character another one was typed after: the one before it in its     *)
(* run, or the one its text is anchored to.                                *)
IsTypedAfter(c, p) ==
    \/ p.id = c.id /\ p.ts = c.ts /\ p.lam = c.lam /\ p.at + 1 = c.at
    \/ \E m \in insertions :
         /\ c \in TextMarks(m) /\ c.at = m.start
         /\ p.id = m.anchor.id /\ p.ts = m.anchor.ts
         /\ p.at + 1 = m.anchor.offset

IsStrictOrder(order, marks) ==
    /\ \A c, e \in marks : <<c, e>> \in order => <<e, c>> \notin order
    /\ \A c, e \in marks : c = e \/ <<c, e>> \in order \/ <<e, c>> \in order
    /\ \A c, e, f \in marks :
          <<c, e>> \in order /\ <<e, f>> \in order => <<c, f>> \in order

(* What stands between a character and its predecessor sorts before it.    *)
PlacesAreKept(order) ==
    \A c, p \in SentMarks :
        IsTypedAfter(c, p) =>
            /\ <<p, c>> \in order
            /\ \A e \in SentMarks :
                 <<p, e>> \in order /\ <<e, c>> \in order
                    => SortsAfter(c, e)

(* So does all that stands before a character without predecessor.         *)
FirstPlacesAreKept(order) ==
    \A c, e \in SentMarks :
        <<e, c>> \in order /\ (\A p \in SentMarks : ~IsTypedAfter(c, p))
            => SortsAfter(c, e)

DocumentsAreInOrder(order) ==
    \A r \in replicas : RunsAreOrdered(order, run_tree[r])

IsOrderOfText(order) ==
    /\ IsStrictOrder(order, SentMarks)
    /\ PlacesAreKept(order)
    /\ FirstPlacesAreKept(order)
    /\ DocumentsAreInOrder(order)

(* An insertion is merged after what it is anchored to.                    *)
AnchorsAreCounted ==
    \A r \in replicas, m \in insertions :
        HasMergedInsertion(r, m) /\ m.anchor # ZeroAnchor
            => m.anchor.offset <= version_map[r][m.anchor.id]

OrderInvariant ==
    /\ AnchorsAreCounted
    /\ \E order : KeepsRuns(order) /\ IsOrderOfText(order)
==============================================================================
