----------------------------- MODULE OrderedSet -----------------------------
(***************************************************************************)
(* What tsearch, tfind and tdelete (include/search.h) promise: a set of    *)
(* keys.                                                                   *)
(***************************************************************************)
CONSTANTS Keys, MayFail

VARIABLES keys, found

\* The key is in the set afterwards, unless there was no memory for it.
Search(k) ==
    \/ keys' = keys \cup {k} /\ found' = TRUE
    \/ MayFail /\ k \notin keys /\ keys' = keys /\ found' = FALSE

Find(k) == found' = (k \in keys) /\ UNCHANGED keys

Delete(k) == keys' = keys \ {k} /\ found' = (k \in keys)

SetInit == keys = {} /\ found = FALSE

SetNext == \E k \in Keys : Search(k) \/ Find(k) \/ Delete(k)

SetSpec == SetInit /\ [][SetNext]_<<keys, found>>

=============================================================================
