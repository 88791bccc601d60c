------------------------------ MODULE MCFragments ------------------------------
(* Instances of the fragments of a run for TLC.                            *)
EXTENDS Fragments

(* A short run in one fragment; a run whose array is full; and runs in     *)
(* trees of two levels, the last of which is about to get a third one.     *)
MCHistories ==
    {[len |-> 6, splits |-> <<>>, operations |-> 4],
     [len |-> 8, splits |-> <<4, 2, 6>>, operations |-> 3],
     [len |-> 14, splits |-> <<2, 10, 4, 12, 6, 13, 8>>, operations |-> 2],
     [len |-> 16, splits |-> <<1, 2, 3, 4, 5, 6, 7, 8, 9, 11, 12, 13>>,
      operations |-> 2]}
===============================================================================
