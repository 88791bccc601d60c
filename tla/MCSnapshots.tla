----------------------------- MODULE MCSnapshots -----------------------------
(***************************************************************************)
(* Small instances of the replicas and their snapshots for TLC.            *)
(***************************************************************************)
EXTENDS SnapshotEncoding, SnapshotRefinement
==============================================================================
