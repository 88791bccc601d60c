---------------------------- MODULE DeliveryProofs ----------------------------
(***************************************************************************)
(* What causal delivery is worth: closed under causality, whatever is      *)
(* sent, merged, copied and joined.                                        *)
(***************************************************************************)
EXTENDS CausalDelivery, TLAPS

(* Edits are merged, and copied, only once they were sent.                 *)
Inv ==
    /\ CausallyClosed
    /\ members \subseteq Replicas
    /\ merged \in [Replicas -> SUBSET sent]
    /\ copies \subseteq SUBSET sent
    /\ \A e \in sent : e.no \in Nat

LEMMA DeliveryStarts == Init => Inv
BY DEF Init, Inv, CausallyClosed, IsCausallyClosed

(* Sending an edit puts it before none that was sent.                      *)
LEMMA SendIsLast ==
    ASSUME Inv, NEW r \in Replicas, NEW e, Send(r, e), NEW f \in sent
    PROVE  Earlier(f)' = Earlier(f)
<1>1. f.kind = e.kind /\ f.by = e.by => f.no < e.no
  BY DEF Send, Earlier
<1>2. f.no \in Nat /\ e.no \in Nat
  BY DEF Inv, Send
<1>3. ~(e.kind = f.kind /\ e.by = f.by /\ e.no < f.no)
  BY <1>1, <1>2
<1>4. sent' = sent \cup {e}
  BY DEF Send
<1>5. QED
  BY <1>3, <1>4 DEF Earlier

LEMMA DeliveryGoesOn == Inv /\ [Next]_vars => Inv'
<1> SUFFICES ASSUME Inv, [Next]_vars PROVE Inv'
  OBVIOUS
<1>1. ASSUME NEW r \in Replicas, NEW e, Send(r, e)
      PROVE  Inv'
  <2>1. /\ e.no \in Nat /\ Earlier(e) \cup e.needs \subseteq merged[r]
        /\ sent' = sent \cup {e}
        /\ merged' = [merged EXCEPT ![r] = @ \cup {e}]
        /\ UNCHANGED <<members, copies>>
    BY <1>1 DEF Send
  <2>2. Earlier(e)' = Earlier(e)
    BY <2>1 DEF Earlier, Inv
  <2>3. \A f \in sent : Earlier(f)' = Earlier(f)
    BY <1>1, SendIsLast
  <2>4. /\ members \subseteq Replicas
        /\ merged \in [Replicas -> SUBSET sent]
        /\ copies \subseteq SUBSET sent
        /\ \A f \in sent : f.no \in Nat
    BY DEF Inv
  <2>5. \A s \in Replicas : IsCausallyClosed(merged[s])'
    <3>1. ASSUME NEW s \in Replicas, NEW f \in merged'[s]
          PROVE  Earlier(f)' \cup f.needs \subseteq merged'[s]
      <4>1. CASE f \in merged[s]
        BY <2>1, <2>3, <2>4, <4>1 DEF Inv, CausallyClosed, IsCausallyClosed
      <4>2. CASE s = r /\ f = e
        BY <2>1, <2>2, <2>4, <4>2
      <4>3. QED
        BY <2>1, <2>4, <4>1, <4>2
    <3>2. QED
      BY <3>1 DEF IsCausallyClosed
  <2>6. \A edits \in copies' : IsCausallyClosed(edits)'
    BY <2>1, <2>3, <2>4 DEF Inv, CausallyClosed, IsCausallyClosed
  <2>7. QED
    BY <2>1, <2>4, <2>5, <2>6 DEF Inv, CausallyClosed
<1>2. ASSUME NEW r \in Replicas, NEW e \in sent, Merge(r, e)
      PROVE  Inv'
  <2>1. /\ Earlier(e) \cup e.needs \subseteq merged[r]
        /\ UNCHANGED <<members, sent, copies>>
        /\ merged' = [merged EXCEPT ![r] = @ \cup {e}]
    BY <1>2 DEF Merge
  <2>2. /\ merged \in [Replicas -> SUBSET sent]
        /\ \A f : Earlier(f)' = Earlier(f)
    BY <2>1 DEF Inv, Earlier
  <2>3. \A s \in Replicas : IsCausallyClosed(merged[s])'
    BY <2>1, <2>2 DEF Inv, CausallyClosed, IsCausallyClosed
  <2>4. QED
    BY <2>1, <2>2, <2>3 DEF Inv, CausallyClosed, IsCausallyClosed
<1>3. ASSUME NEW r \in Replicas, Copy(r)
      PROVE  Inv'
  BY <1>3 DEF Inv, Copy, CausallyClosed, IsCausallyClosed, Earlier
<1>4. ASSUME NEW new \in Replicas, NEW edits, Join(new, edits),
             IsCausallyClosed(edits), edits \subseteq sent
      PROVE  Inv'
  BY <1>4 DEF Inv, Join, CausallyClosed, IsCausallyClosed, Earlier
<1>5. ASSUME NEW new \in Replicas, NEW r \in members, Join(new, merged[r])
      PROVE  Inv'
  BY <1>4, <1>5 DEF Inv, CausallyClosed
<1>6. ASSUME NEW new \in Replicas, NEW edits \in copies, Join(new, edits)
      PROVE  Inv'
  BY <1>4, <1>6 DEF Inv, CausallyClosed
<1>7. CASE UNCHANGED vars
  BY <1>7 DEF vars, Inv, CausallyClosed, IsCausallyClosed, Earlier
<1>8. QED
  BY <1>1, <1>2, <1>3, <1>5, <1>6, <1>7 DEF Next

(* No replica and no copy is ever missing an edit that one of its edits    *)
(* came after.                                                             *)
THEOREM EditsAreCausallyClosed == Spec => []CausallyClosed
<1>1. Inv => CausallyClosed
  BY DEF Inv
<1>2. QED
  BY <1>1, DeliveryStarts, DeliveryGoesOn, PTL DEF Spec
==============================================================================
