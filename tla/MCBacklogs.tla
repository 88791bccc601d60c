------------------------------ MODULE MCBacklogs ------------------------------
(***************************************************************************)
(* A small instance of fair replicas for TLC, in which edits wait for each *)
(* other: three insertions, or deletions beside fewer of them.             *)
(***************************************************************************)
EXTENDS ReplicaProperties, EncodingProperties

CONSTANT MaxMixedInsertions   \* bound: the insertions beside deletions

FewEdits == deletions = {} \/ Cardinality(insertions) <= MaxMixedInsertions

BacklogsSpec == Init /\ [][Next /\ FewEdits']_vars /\ Fairness
===============================================================================
