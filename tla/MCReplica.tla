------------------------------ MODULE MCReplica ------------------------------
(***************************************************************************)
(* Small instances of the replicas for TLC, with all their properties.     *)
(***************************************************************************)
EXTENDS ReplicaRefinement, AnchorProperties, DocumentInvariant
==============================================================================
