------------------------------ MODULE MCRunStore ------------------------------
(* Instances of the store for TLC.                                         *)
EXTENDS RunStoreProperties

(* A new document; and documents that were typed into until the tree has   *)
(* two full leaf nodes, or inner nodes on several levels.                  *)
MCHistories ==
    {[places |-> <<>>, edits |-> 3],
     [places |-> <<1, 1, 1>>, edits |-> 2],
     [places |-> <<0, 1, 3, 4, 4, 5, 8, 9>>, edits |-> 1],
     [places |-> <<0, 2, 0, 2, 1, 0, 4, 2, 1>>, edits |-> 2]}
===============================================================================
