------------------------------ MODULE Environ ------------------------------
(***************************************************************************)
(* The environment of a process: setenv and unsetenv (libs/setenv.c),      *)
(* putenv (libs/putenv.c) and getenv (libs/getenv.c).  environ is an array *)
(* of pointers to strings name=value.  setenv and putenv each replace the  *)
(* array by one of their own when it is full, and each keeps its own       *)
(* pointer to the last one it allocated.                                   *)
(*                                                                         *)
(* All names have one length, and a value is its length.                   *)
(***************************************************************************)
EXTENDS Integers, Sequences, SequencesExt, FiniteSetsExt

CONSTANTS
    Names,
    Values,
    Arrays,         \* addresses of arrays, those that malloc may give
    Initial,        \* the array the program is started with
    Null,
    ADD_NUM,        \* pointers that putenv adds to what it needs
    Functions,      \* which of the functions the program calls
    MayFail,        \* whether malloc may fail
    MaxExtras       \* bound on extras before a putenv takes a string out

ASSUME EnvironAssumption ==
    /\ IsFiniteSet(Names) /\ Values \subseteq Nat
    /\ ADD_NUM \in Nat \ {0} /\ MaxExtras \in Nat
    /\ Initial \notin Arrays /\ Null \notin Arrays \cup {Initial}
    /\ Functions \subseteq {"setenv", "unsetenv", "putenv"} /\ MayFail \in BOOLEAN

VARIABLES
    environ,        \* the array in use
    vector,         \* its strings: [name, value, size], size being what fits
    room,           \* the pointers the array has room for, the final NULL among them
    alloc,          \* arrays that are allocated
    last_environ,   \* setenv's
    mall_env,       \* putenv's
    extras          \* pointers that putenv believes to be free

vars == <<environ, vector, room, alloc, last_environ, mall_env, extras>>

Fits == Len(vector) + 1 <= room

\* The string for a name: its index, or 0.
Find(n) == Min({i \in DOMAIN vector : vector[i].name = n} \cup {Len(vector) + 1}) % (Len(vector) + 1)

getenv(n) == IF Find(n) = 0 THEN -1 ELSE vector[Find(n)].value

New(n, v) == [name |-> n, value |-> v, size |-> v]

\* Variant for mutation: the string's size is not looked at.
AlwaysInPlace(s, v) == [s EXCEPT !.value = v]

\* String s given the value v: in place if that is no longer than the old one.
Replaced(s, v) == IF s.value < v THEN New(s.name, v) ELSE [s EXCEPT !.value = v]

\* Variant for mutation: the array in use is freed when it is replaced.
FreeInUse(a, old) == (alloc \ {environ}) \cup {a}

\* The arrays when a takes the place of old, the last that the function
\* allocated.
Freed(a, old) == (alloc \ {old}) \cup {a}

\* A variable that is not there goes to a new array, exactly large enough.
setenvNew(n, v) ==
    /\ Find(n) = 0
    /\ \E a \in Arrays \ alloc :
         /\ environ' = a
         /\ vector' = Append(vector, New(n, v))
         /\ room' = Len(vector) + 2
         /\ alloc' = Freed(a, last_environ)
         /\ last_environ' = a
    /\ UNCHANGED <<mall_env, extras>>

setenvOld(n, v) ==
    /\ Find(n) # 0
    /\ vector' = [vector EXCEPT ![Find(n)] = Replaced(@, v)]
    /\ UNCHANGED <<environ, room, alloc, last_environ, mall_env, extras>>

\* No memory, or nothing to replace.
setenvNot == UNCHANGED vars

setenv(n, v, replace) ==
    \/ setenvNew(n, v)
    \/ replace /\ setenvOld(n, v)
    \/ (MayFail \/ (~ replace /\ Find(n) # 0)) /\ setenvNot

\* The strings for other names, moved down: dp after i pointers of the array.
Compacted(n) ==
    LET dp[i \in 0 .. Len(vector)] ==
          IF i = 0 THEN <<>>
          ELSE IF vector[i].name = n THEN dp[i - 1] ELSE Append(dp[i - 1], vector[i])
    IN  dp[Len(vector)]

unsetenv(n) ==
    /\ vector' = Compacted(n)
    /\ UNCHANGED <<environ, room, alloc, last_environ, mall_env, extras>>

\* Variant for mutation: the old string stays.
NotTaken(n) == [vec |-> vector, ext |-> extras]

\* The first string for name n taken out, which leaves a pointer free.
Taken(n) ==
    IF Find(n) = 0 THEN [vec |-> vector, ext |-> extras]
    ELSE [vec |-> RemoveAt(vector, Find(n)), ext |-> extras + 1]

\* Variant for mutation: the pointers that are used are not counted.
UsedUncounted(x) == x

\* extras after one pointer has been used.
Used(x) == x - 1

\* A string without "=": the variable is taken out.
putenvName(n) ==
    /\ vector' = Taken(n).vec /\ extras' = Taken(n).ext
    /\ UNCHANGED <<environ, room, alloc, last_environ, mall_env>>

putenv(n, v) ==
    LET t == Taken(n)
    IN  \/ /\ t.ext > 0
           /\ vector' = Append(t.vec, New(n, v)) /\ extras' = Used(t.ext)
           /\ UNCHANGED <<environ, room, alloc, last_environ, mall_env>>
        \/ /\ t.ext <= 0
           /\ \E a \in Arrays \ alloc :
                /\ environ' = a /\ mall_env' = a
                /\ alloc' = Freed(a, mall_env)
           /\ vector' = Append(t.vec, New(n, v))
           /\ room' = Len(t.vec) + 1 + ADD_NUM
           /\ extras' = Used(ADD_NUM)
           /\ UNCHANGED last_environ
        \/ t.ext <= 0 /\ MayFail /\ vector' = t.vec /\ extras' = t.ext
           /\ UNCHANGED <<environ, room, alloc, last_environ, mall_env>>

\* Any variables, none twice, in an array of just their size.
Init ==
    /\ environ = Initial /\ alloc = {}
    /\ \E D \in SUBSET Names, w \in Values :
         vector = SetToSeq({New(n, w) : n \in D})
    /\ room = Len(vector) + 1
    /\ last_environ = Null /\ mall_env = Null /\ extras = 0

\* Nothing is said of a program that has written behind the array.
Next ==
    /\ Fits
    /\ \/ "setenv" \in Functions /\ \E n \in Names, v \in Values, r \in BOOLEAN : setenv(n, v, r)
       \/ "unsetenv" \in Functions /\ \E n \in Names : unsetenv(n)
       \/ "putenv" \in Functions /\ \E n \in Names, v \in Values : putenv(n, v)
       \/ "putenv" \in Functions /\ extras <= MaxExtras /\ \E n \in Names : putenvName(n)

Spec == Init /\ [][Next]_vars

-----------------------------------------------------------------------------

\* The array in use is never one that was freed, and none is lost: setenv and
\* putenv each free only their own last one, which the other may have left in
\* use or replaced.
ArraysKept ==
    /\ environ \in alloc \cup {Initial}
    /\ alloc \subseteq {environ, last_environ, mall_env}
    /\ {last_environ, mall_env} \subseteq alloc \cup {Null}

\* No value is larger than the memory of its string, whatever was written in
\* place before; and as long as setenv has not replaced the array, putenv's
\* count of the free pointers keeps it inside.
StaysInside ==
    /\ \A i \in DOMAIN vector : vector[i].value <= vector[i].size
    /\ last_environ = Null => Fits

Environment == [n \in Names |-> getenv(n)]

\* For getenv the environment is a function from names to values, which every
\* call changes for its own name and as it says, or not at all if there was no
\* memory.
IsAnEnvironment ==
    [][\A n \in Names :
         /\ \A v \in Values :
              /\ setenv(n, v, TRUE) \/ putenv(n, v) =>
                   \/ Environment' = [Environment EXCEPT ![n] = v]
                   \/ MayFail /\ vector' = vector
              /\ setenv(n, v, FALSE) =>
                   \/ Environment' = [Environment EXCEPT ![n] = IF @ = -1 THEN v ELSE @]
                   \/ MayFail /\ vector' = vector
         /\ unsetenv(n) \/ putenvName(n) =>
              Environment' = [Environment EXCEPT ![n] = -1]]_vars

=============================================================================
