------------------------------ MODULE MCBTree ------------------------------
(* Three keys, values of two lengths and two cursors; the page is filled    *)
(* exactly by two long cells and a short one, and two bytes too small for   *)
(* three long ones.                                                         *)
EXTENDS BTree, TLC

CONSTANTS short, long, c1, c2

MCLength == short :> 1 @@ long :> 3
Symmetry == Permutations({c1, c2})
============================================================================
