----------------------------- MODULE Allocator -----------------------------
(***************************************************************************)
(* What the callers of malloc, free, realloc and calloc may rely on.  The  *)
(* program holds areas of memory, each known by its pointer; areas never   *)
(* overlap, and the contents of an area change only when its holder writes *)
(* in it or asks for another size.                                         *)
(***************************************************************************)
EXTENDS Integers

VARIABLES
    len,    \* pointer -> bytes, for the areas held
    data    \* pointer -> offset -> contents

Held == DOMAIN len

Min2(m, n) == IF m < n THEN m ELSE n

\* Areas [q, q + m) and [r, r + n) have no byte in common.
Apart(q, m, r, n) == q + m <= r \/ r + n <= q

\* The areas of S keep their lengths and contents.
Kept(S) == \A q \in S : len'[q] = len[q] /\ data'[q] = data[q]

Allocate(q) ==
    /\ q \notin Held
    /\ DOMAIN len' = Held \cup {q}
    /\ Kept(Held)
    /\ \A r \in Held : Apart(q, len'[q], r, len[r])

Release(q) ==
    /\ DOMAIN len' = Held \ {q}
    /\ Kept(Held \ {q})

\* The length of q changes in place; the bytes it had and has still are kept.
Resize(q) ==
    /\ DOMAIN len' = Held
    /\ Kept(Held \ {q})
    /\ \A r \in Held \ {q} : Apart(q, len'[q], r, len[r])
    /\ \A i \in 0 .. Min2(len[q], len'[q]) - 1 : data'[q][i] = data[q][i]

\* The contents of q move to r, and q is released.
Move(q, r) ==
    /\ q # r
    /\ DOMAIN len' = Held \ {q}
    /\ len'[r] = len[r]
    /\ Kept(Held \ {q, r})
    /\ \A i \in 0 .. Min2(len[q], len[r]) - 1 : data'[r][i] = data[q][i]

Write(q) ==
    /\ len' = len
    /\ Kept(Held \ {q})

AllocInit == Held = {}

AllocNext ==
    \/ \E q \in DOMAIN len' : Allocate(q)
    \/ \E q \in Held : Release(q) \/ Resize(q) \/ Write(q)
    \/ \E q, r \in Held : Move(q, r)

AllocSpec == AllocInit /\ [][AllocNext]_<<len, data>>

=============================================================================
