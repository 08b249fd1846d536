------------------------------- MODULE MCExit -------------------------------
(* Three FILEs on the heap, so that one lies between two others on the list, *)
(* a table of three handlers that can be full, and a handler that may be     *)
(* registered twice.  The addresses are interchangeable.                     *)
EXTENDS Exit, TLC

Addresses == Permutations(Heap)
=============================================================================
