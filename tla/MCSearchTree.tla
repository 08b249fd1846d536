---------------------------- MODULE MCSearchTree ----------------------------
(* Six keys.  Five are the fewest with which tdelete takes a successor that  *)
(* has a right subtree from below the right child; with six it also has to   *)
(* go down twice to find it.                                                 *)
EXTENDS SearchTree, TLC

Addresses == Permutations(Nodes)
=============================================================================
