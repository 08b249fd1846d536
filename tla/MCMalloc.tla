------------------------------ MODULE MCMalloc ------------------------------
(* A word of 32 values: a root, and a heap of five units below a stack       *)
(* pointer, which may also dive into the heap.  The callers keep to what     *)
(* the proofs assume of them.                                                *)
EXTENDS MallocProofs

\* One product that fits a word and one that does not.
MCCallocSizes == {<<3, 2>>, <<9, 8>>}

MCNone == {}
=============================================================================
