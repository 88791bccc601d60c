------------------------------ MODULE SharedText ------------------------------
(***************************************************************************)
(* What a document shared by several replicas promises its users, without  *)
(* a word of trees, runs, clocks or anchors: there is one order of all the *)
(* characters anybody ever inserted, and a user's text is that order with  *)
(* the characters left out that the replica does not have or knows to be   *)
(* deleted.                                                                *)
(***************************************************************************)
EXTENDS Naturals, SequencesExt

CONSTANT Replicas

VARIABLES
    members,   \* the replicas that exist
    order,     \* every character ever inserted, in the one order
    inserted,  \* the insertions: the set of characters of each
    erased,    \* the deletions: the set of characters of each
    known,     \* per replica: the characters it has
    gone,      \* per replica: the characters it knows to be deleted
    text       \* per replica: what its user sees

vars == <<members, order, inserted, erased, known, gone, text>>

Shown(all, have, lost) == SelectSeq(all, LAMBDA c : c \in have \ lost)

Init ==
    /\ members \subseteq Replicas /\ members # {}
    /\ IsInjective(order)
    /\ inserted = {} /\ erased = {}
    /\ known = [r \in Replicas |-> ToSet(order)]
    /\ gone = [r \in Replicas |-> {}]
    /\ text = [r \in Replicas |-> order]

(* A new replica has what the one it was made from has.                    *)
Join(r, new) ==
    /\ r \in members /\ new \in Replicas \ members
    /\ members' = members \cup {new}
    /\ known' = [known EXCEPT ![new] = known[r]]
    /\ gone' = [gone EXCEPT ![new] = gone[r]]
    /\ text' = [text EXCEPT ![new] = text[r]]
    /\ UNCHANGED <<order, inserted, erased>>

InsertedAt(s, place, chars) ==
    SubSeq(s, 1, place) \o chars \o SubSeq(s, place + 1, Len(s))

(* The characters shown that were not known before.                        *)
NewChars(shown, have) == SelectSeq(shown, LAMBDA c : c \notin have)

(* A user inserts characters nobody has seen before at an offset of the    *)
(* text; they find a place in the one order where they stay together.      *)
Insert(r, chars) ==
    /\ r \in members /\ chars # <<>>
    /\ inserted' = inserted \cup {ToSet(chars)}
    /\ ToSet(chars) \cap ToSet(order) = {}
    /\ \E offset \in 0 .. Len(text[r]) :
         text' = [text EXCEPT ![r] = InsertedAt(@, offset, chars)]
    /\ \E place \in 0 .. Len(order) :
         order' = InsertedAt(order, place, chars)
    /\ known' = [known EXCEPT ![r] = @ \cup ToSet(chars)]
    /\ text'[r] = Shown(order', known'[r], gone[r])
    /\ UNCHANGED <<members, erased, gone>>

(* A user deletes the characters from..to of the text.                     *)
Delete(r, from, to) ==
    LET chars == ToSet(SubSeq(text[r], from + 1, to))
    IN  /\ r \in members /\ from < to
        /\ text' = [text EXCEPT ![r] = SubSeq(@, 1, from)
                                          \o SubSeq(@, to + 1, Len(@))]
        /\ erased' = erased \cup {chars}
        /\ gone' = [gone EXCEPT ![r] = @ \cup chars]
        /\ UNCHANGED <<members, order, inserted, known>>

(* Another user's insertion, or deletion, takes effect at a replica; a     *)
(* deletion only where all it deletes is known.                            *)
ReceiveInsertion(r, chars) ==
    /\ r \in members /\ ~(chars \subseteq known[r])
    /\ known' = [known EXCEPT ![r] = @ \cup chars]
    /\ text' = [text EXCEPT ![r] = Shown(order, known'[r], gone[r])]
    /\ UNCHANGED <<members, order, inserted, erased, gone>>

ReceiveDeletion(r, chars) ==
    /\ r \in members /\ chars \subseteq known[r]
    /\ gone' = [gone EXCEPT ![r] = @ \cup chars]
    /\ text' = [text EXCEPT ![r] = Shown(order, known[r], gone'[r])]
    /\ UNCHANGED <<members, order, inserted, erased, known>>

------------------------------------------------------------------------------
Next ==
    \E r \in Replicas :
        \/ \E new \in Replicas : Join(r, new)
        \/ Insert(r, NewChars(text'[r], known[r]))
        \/ \E from, to \in 0 .. Len(text[r]) : Delete(r, from, to)
        \/ \E chars \in inserted : ReceiveInsertion(r, chars)
        \/ \E chars \in erased : ReceiveDeletion(r, chars)

Spec == Init /\ [][Next]_vars
==============================================================================
