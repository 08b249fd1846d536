----------------------------- MODULE MCEnviron -----------------------------
(* Three names and an array that putenv enlarges by two, so it is filled     *)
(* and replaced several times; never more than two arrays are allocated.     *)
EXTENDS Environ, TLC

Addresses == Permutations(Arrays)
=============================================================================
