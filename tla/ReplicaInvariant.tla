--------------------------- MODULE ReplicaInvariant ---------------------------
(***************************************************************************)
(* The inductive invariant behind the theorems of ReplicaProofs.  It says  *)
(* what the version, deletion and Lamport clocks of the replicas know of   *)
(* the edits that were sent; the documents do not occur in it.             *)
(***************************************************************************)
EXTENDS ReplicaProperties

(* Replica::new makes every Lamport clock start above zero.                *)
LamportClocksStarted == \A r \in ReplicaIds : lamport_clock[r] > 0

(* An inserter has counted all it sent, and its clock is past it.          *)
InsertionsAreCounted ==
    \A m \in insertions :
        /\ m.by \in replicas
        /\ m.start < m.end
        /\ m.end <= version_map[m.by][m.by]

(* What a replica inserted, it inserted only once.                         *)
InsertionsAreDisjoint ==
    \A m, n \in insertions :
        m.by = n.by => m = n \/ m.end <= n.start \/ n.end <= m.start

DeletionsAreCounted ==
    \A d \in deletions :
        /\ d.by \in replicas
        /\ 0 < d.ts /\ d.ts <= deletion_map[d.by][d.by]
        /\ \A a \in ReplicaIds : d.version_map[a] <= version_map[d.by][a]

DeletionsAreNumbered ==
    \A d, e \in deletions : d.by = e.by /\ d.ts = e.ts => d = e

(* A replica that does not exist yet has made no edit.                     *)
NothingOfTheUnborn ==
    \A r \in replicas : \A a \in ReplicaIds \ replicas :
        version_map[r][a] = 0 /\ deletion_map[r][a] = 0

(* Nobody knows more of a replica's edits than the replica itself.         *)
NobodyKnowsMore ==
    \A r, a \in replicas :
        /\ version_map[r][a] <= version_map[a][a]
        /\ deletion_map[r][a] <= deletion_map[a][a]

(* Together with TypeOK it is inductive.                                   *)
ClockInvariant ==
    /\ LamportClocksStarted
    /\ InsertionsAreCounted
    /\ InsertionsAreDisjoint
    /\ DeletionsAreCounted
    /\ DeletionsAreNumbered
    /\ NothingOfTheUnborn
    /\ NobodyKnowsMore
    /\ LamportClockIsAhead
    /\ DeletionsAreCausal
==============================================================================
