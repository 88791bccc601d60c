---------------------------- MODULE CausalDelivery ----------------------------
(***************************************************************************)
(* What the version maps, the deletion maps and the backlog promise about  *)
(* edits, whatever an edit does to a document: each takes effect once at a *)
(* replica, after those its sender made before, and after the ones it      *)
(* needs.  A replica may be made from a copy of what another one had.      *)
(***************************************************************************)
EXTENDS Naturals

CONSTANT Replicas

VARIABLES
    members,   \* the replicas that exist
    sent,      \* the edits: [kind, by, no, needs]
    merged,    \* per replica: the edits that have taken effect there
    copies     \* what was saved: sets of edits

vars == <<members, sent, merged, copies>>

(* The edits of the same kind its sender made before.                      *)
Earlier(e) ==
    {f \in sent : f.kind = e.kind /\ f.by = e.by /\ f.no < e.no}

Init ==
    /\ members \subseteq Replicas /\ members # {}
    /\ sent = {}
    /\ merged = [r \in Replicas |-> {}]
    /\ copies = {}

(* An edit takes effect where it is made.  It is numbered after all the    *)
(* others of its kind made there.                                          *)
Send(r, e) ==
    /\ r \in members /\ e.by = r /\ e.no \in Nat /\ e \notin sent
    /\ {f \in sent : f.kind = e.kind /\ f.by = r} = Earlier(e)
    /\ Earlier(e) \cup e.needs \subseteq merged[r]
    /\ sent' = sent \cup {e}
    /\ merged' = [merged EXCEPT ![r] = @ \cup {e}]
    /\ UNCHANGED <<members, copies>>

Merge(r, e) ==
    /\ r \in members /\ e \notin merged[r]
    /\ Earlier(e) \cup e.needs \subseteq merged[r]
    /\ merged' = [merged EXCEPT ![r] = @ \cup {e}]
    /\ UNCHANGED <<members, sent, copies>>

Copy(r) ==
    /\ r \in members
    /\ copies' = copies \cup {merged[r]}
    /\ UNCHANGED <<members, sent, merged>>

Join(new, edits) ==
    /\ new \in Replicas \ members
    /\ members' = members \cup {new}
    /\ merged' = [merged EXCEPT ![new] = edits]
    /\ UNCHANGED <<sent, copies>>

Next ==
    \/ \E r \in Replicas :
         \/ \E e \in sent' : Send(r, e)
         \/ \E e \in sent : Merge(r, e)
         \/ Copy(r)
    \/ \E new \in Replicas :
         \/ \E r \in members : Join(new, merged[r])
         \/ \E edits \in copies : Join(new, edits)

Spec == Init /\ [][Next]_vars

------------------------------------------------------------------------------
(* What follows: a replica, and a copy, has with every edit all that was   *)
(* made before it by its sender, and all it needs.                         *)
IsCausallyClosed(edits) ==
    \A e \in edits : Earlier(e) \cup e.needs \subseteq edits

CausallyClosed ==
    /\ \A r \in Replicas : IsCausallyClosed(merged[r])
    /\ \A edits \in copies : IsCausallyClosed(edits)
==============================================================================
