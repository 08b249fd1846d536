------------------------------ MODULE Induction ------------------------------
(***************************************************************************)
(* Induction over numbers as facts about sets and functions: the least     *)
(* element of a set of numbers, and functions defined by recursion.  The   *)
(* proofs about lists and arrays use them.                                 *)
(***************************************************************************)
EXTENDS Integers, WellFoundedInduction, TLAPS

\* Numbers, if there are any, have a least one.
LEMMA LeastOf ==
  ASSUME NEW S, S \subseteq Nat, S # {}
  PROVE  \E m \in S : \A k \in S : m <= k
<1>1. PICK m \in S : \A k \in S : <<k, m>> \notin OpToRel(<, Nat)
  BY WFMin, NatLessThanWellFounded
<1>2. \A k \in S : ~ k < m
  BY <1>1 DEF OpToRel
<1>3. \A k \in S : m <= k
  BY <1>2
<1> QED
  BY <1>3

\* A set of numbers up to n that holds 0, and with each number the one after it, holds
\* them all.
LEMMA UpTo ==
  ASSUME NEW n \in Nat, NEW S, 0 \in S, \A i \in 1 .. n : i - 1 \in S => i \in S
  PROVE  \A i \in 0 .. n : i \in S
<1> SUFFICES ASSUME {i \in 0 .. n : i \notin S} # {} PROVE FALSE
  OBVIOUS
<1>1. PICK m \in {i \in 0 .. n : i \notin S} : \A k \in {i \in 0 .. n : i \notin S} : m <= k
  <2>1. {i \in 0 .. n : i \notin S} \subseteq Nat
    OBVIOUS
  <2> QED
    BY <2>1, LeastOf
<1>2. m \in 1 .. n /\ m - 1 \in 0 .. n /\ m - 1 \in S
  BY <1>1
<1> QED
  BY <1>1, <1>2

\* The steps of a recursion: the i-th takes a value to the next one.
Steps(n, V) == [1 .. n -> [V -> V]]

\* There is a function with a first value and a step to each next one.
LEMMA Recursion ==
  ASSUME NEW n \in Nat, NEW V, NEW c \in V, NEW step \in Steps(n, V)
  PROVE  \E f \in [0 .. n -> V] :
           f[0] = c /\ \A i \in 1 .. n : f[i] = step[i][f[i - 1]]
<1> DEFINE Good(m, f) == /\ f \in [0 .. m -> V] /\ f[0] = c
                         /\ \A i \in 1 .. m : f[i] = step[i][f[i - 1]]
           S == {m \in 0 .. n : \E f : Good(m, f)}
<1>1. 0 \in S
  <2>1. Good(0, [i \in 0 .. 0 |-> c])
    OBVIOUS
  <2> HIDE DEF Good
  <2> QED
    BY <2>1
<1>2. ASSUME NEW m \in 1 .. n, m - 1 \in S PROVE m \in S
  <2>1. PICK f : Good(m - 1, f)
    BY <1>2
  <2> DEFINE g == [i \in 0 .. m |-> IF i = m THEN step[m][f[m - 1]] ELSE f[i]]
  <2>2. f[m - 1] \in V /\ step[m][f[m - 1]] \in V
    BY <2>1 DEF Steps
  <2>3. g \in [0 .. m -> V] /\ g[0] = c
    BY <2>1, <2>2
  <2>4. ASSUME NEW i \in 1 .. m PROVE g[i] = step[i][g[i - 1]]
    <3>1. g[i - 1] = f[i - 1]
      OBVIOUS
    <3>2. CASE i = m
      BY <3>1, <3>2
    <3>3. CASE i # m
      BY <2>1, <3>1, <3>3
    <3> QED
      BY <3>2, <3>3
  <2>5. Good(m, g)
    BY <2>3, <2>4
  <2> HIDE DEF Good, g
  <2> QED
    BY <2>5
<1>3. n \in S
  <2> HIDE DEF S
  <2>1. \A i \in 0 .. n : i \in S
    BY <1>1, <1>2, UpTo
  <2> QED
    BY <2>1
<1> QED
  BY <1>3

\* The same from any number on.
LEMMA UpFrom ==
  ASSUME NEW a \in Int, NEW b \in Int, a <= b, NEW S, a \in S, \A i \in a + 1 .. b : i - 1 \in S => i \in S
  PROVE  \A i \in a .. b : i \in S
<1> DEFINE T == {i \in 0 .. b - a : a + i \in S}
<1>1. b - a \in Nat /\ 0 \in T
  BY a + 0 = a
<1>2. ASSUME NEW i \in 1 .. b - a, i - 1 \in T PROVE i \in T
  <2>1. a + i \in a + 1 .. b /\ (a + i) - 1 = a + (i - 1) /\ i \in 0 .. b - a
    OBVIOUS
  <2> QED
    BY <1>2, <2>1
<1>3. \A i \in 0 .. b - a : i \in T
  <2> HIDE DEF T
  <2> QED
    BY <1>1, <1>2, UpTo
<1>4. ASSUME NEW i \in a .. b PROVE i \in S
  <2>1. i - a \in 0 .. b - a /\ a + (i - a) = i
    OBVIOUS
  <2> QED
    BY <1>3, <2>1
<1> QED
  BY <1>4

StepsFrom(a, b, V) == [a + 1 .. b -> [V -> V]]

\* f has the first value c, and the others by the steps.
IsRun(f, a, b, V, c, step) ==
    f \in [a .. b -> V] /\ f[a] = c /\ \A i \in a + 1 .. b : f[i] = step[i][f[i - 1]]

LEMMA RecursionFrom ==
  ASSUME NEW a \in Int, NEW b \in Int, a <= b, NEW V, NEW c \in V,
         NEW step \in StepsFrom(a, b, V)
  PROVE  \E f : IsRun(f, a, b, V, c, step)
<1>0. PICK m : m = b - a
  OBVIOUS
<1> DEFINE s == [i \in 1 .. m |-> step[a + i]]
<1>1. m \in Nat /\ \A i \in 1 .. m : a + i \in a + 1 .. b
  BY <1>0
<1>2. s \in Steps(m, V)
  BY <1>1 DEF Steps, StepsFrom
<1>3. PICK g \in [0 .. m -> V] : g[0] = c /\ \A i \in 1 .. m : g[i] = s[i][g[i - 1]]
  <2> HIDE DEF s
  <2> QED
    BY <1>1, <1>2, Recursion
<1> DEFINE f == [i \in a .. b |-> g[i - a]]
<1>4. \A i \in a .. b : i - a \in 0 .. m
  BY <1>0
<1>5. f \in [a .. b -> V] /\ f[a] = c
  BY <1>3, <1>4, a - a = 0, a \in a .. b
<1>6. ASSUME NEW i \in a + 1 .. b PROVE f[i] = step[i][f[i - 1]]
  <2>1. i \in a .. b /\ i - 1 \in a .. b /\ i - a \in 1 .. m /\ a + (i - a) = i /\ (i - a) - 1 = (i - 1) - a
    BY <1>0
  <2>2. s[i - a] = step[i]
    BY <2>1
  <2>3. f[i] = g[i - a] /\ f[i - 1] = g[(i - a) - 1]
    BY <2>1
  <2> HIDE DEF s, f
  <2> QED
    BY <1>3, <2>1, <2>2, <2>3
<1> HIDE DEF f
<1> QED
  BY <1>5, <1>6 DEF IsRun

===============================================================================
