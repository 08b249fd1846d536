----------------------------- MODULE TableProofs -----------------------------
(***************************************************************************)
(* The tables of the C library: what setenv, unsetenv and putenv keep true *)
(* of the environment, for any names and values and any order of calls;    *)
(* and that what tsearch and tdelete make is always a search tree of what  *)
(* is allocated, for every set of keys and every order of calls: a set for *)
(* its user, whole below its root, and walked in order.                    *)
(***************************************************************************)
EXTENDS Environ, SearchTree, Induction, FiniteSetTheorems, SequenceTheorems

(***************************************************************************)
(* The environment                                                         *)
(***************************************************************************)

Str == [name : Names, value : Nat, size : Nat]

Types ==
    /\ vector \in Seq(Str) /\ room \in Nat /\ extras \in Nat
    /\ environ \in Arrays \cup {Initial} /\ alloc \subseteq Arrays
    /\ {last_environ, mall_env} \subseteq Arrays \cup {Null}

\* setenv and putenv each have an array of their own or none, and these are all
\* that is allocated.
OwnArrays ==
    /\ environ \in {last_environ, mall_env, Initial}
    /\ alloc = {last_environ, mall_env} \ {Null}
    /\ last_environ = mall_env => last_environ = Null

\* No name has two strings.
Distinct(vec) == \A i, j \in 1 .. Len(vec) : vec[i].name = vec[j].name => i = j

\* No value is larger than the memory of its string.
Sized(vec) == \A i \in 1 .. Len(vec) : vec[i].value <= vec[i].size

\* The pointers that putenv counts are there, as long as setenv has not
\* replaced the array.
Counted == last_environ = Null => Len(vector) + 1 + extras <= room

Inv == Types /\ OwnArrays /\ Distinct(vector) /\ Sized(vector) /\ Counted

-----------------------------------------------------------------------------
(* What the operators give                                                  *)

\* The strings of a sequence are strings.
LEMMA StrIs ==
  ASSUME NEW vec \in Seq(Str)
  PROVE  /\ Len(vec) \in Nat /\ DOMAIN vec = 1 .. Len(vec)
         /\ \A i \in 1 .. Len(vec) : /\ vec[i] \in Str /\ vec[i].name \in Names
                                     /\ vec[i].value \in Nat /\ vec[i].size \in Nat
<1>1. Len(vec) \in Nat /\ DOMAIN vec = 1 .. Len(vec) /\ \A i \in 1 .. Len(vec) : vec[i] \in Str
  BY LenProperties, ElementOfSeq
<1> QED
  BY <1>1 DEF Str

LEMMA NewIs ==
  ASSUME NEW n \in Names, NEW v \in Values
  PROVE  /\ New(n, v) \in Str /\ New(n, v).name = n
         /\ New(n, v).value = v /\ New(n, v).size = v /\ v \in Nat
BY EnvironAssumption DEF New, Str

\* A string given a new value holds it.
LEMMA ReplacedIs ==
  ASSUME NEW s \in Str, s.value <= s.size, NEW v \in Values
  PROVE  /\ Replaced(s, v) \in Str /\ Replaced(s, v).name = s.name
         /\ Replaced(s, v).value = v /\ v <= Replaced(s, v).size
BY EnvironAssumption DEF Replaced, New, Str

\* Where vec has the string for a name, and its value, as Find and getenv have it.
FindIn(vec, n) ==
    Min({i \in DOMAIN vec : vec[i].name = n} \cup {Len(vec) + 1}) % (Len(vec) + 1)

Value(vec, n) == IF FindIn(vec, n) = 0 THEN -1 ELSE vec[FindIn(vec, n)].value

\* The first string for the name, or none.
LEMMA FindIs ==
  ASSUME NEW vec \in Seq(Str), NEW n
  PROVE  \/ /\ FindIn(vec, n) \in 1 .. Len(vec) /\ vec[FindIn(vec, n)].name = n
         \/ /\ FindIn(vec, n) = 0 /\ \A i \in 1 .. Len(vec) : vec[i].name # n
<1> DEFINE I == {i \in DOMAIN vec : vec[i].name = n}
           L == Len(vec)
           m == Min(I \cup {L + 1})
<1>1. L \in Nat /\ DOMAIN vec = 1 .. L /\ I \subseteq 1 .. L
  BY StrIs
<1>2. m \in I \cup {L + 1} /\ \A i \in I : m <= i
  <2> HIDE DEF I, L
  <2>1. I \cup {L + 1} \subseteq Nat /\ I \cup {L + 1} # {}
    BY <1>1
  <2>2. \E x \in I \cup {L + 1} : \A y \in I \cup {L + 1} : x <= y
    BY <2>1, LeastOf
  <2>3. m \in I \cup {L + 1} /\ \A y \in I \cup {L + 1} : m <= y
    BY <2>2 DEF Min
  <2> QED
    BY <2>3
<1>3. FindIn(vec, n) = m % (L + 1)
  BY DEF FindIn
<1>4. CASE m = L + 1
  <2>1. (L + 1) % (L + 1) = 0
    BY <1>1
  <2>2. FindIn(vec, n) = 0
    BY <1>3, <1>4, <2>1
  <2>3. I = {}
    <3> HIDE DEF m, I, L
    <3> QED
      BY <1>1, <1>2, <1>4
  <2> QED
    BY <1>1, <2>2, <2>3
<1>5. CASE m # L + 1
  <2>1. m \in I /\ m \in 1 .. L
    BY <1>1, <1>2, <1>5
  <2>2. m % (L + 1) = m
    <3> HIDE DEF m, L
    <3> QED
      BY <1>1, <2>1
  <2> QED
    BY <1>3, <2>1, <2>2
<1> QED
  BY <1>4, <1>5

\* With one string for a name, getenv gives its value.
LEMMA HasValue ==
  ASSUME NEW vec \in Seq(Str), Distinct(vec), NEW i \in 1 .. Len(vec)
  PROVE  Value(vec, vec[i].name) = vec[i].value /\ Value(vec, vec[i].name) # -1
<1>1. FindIn(vec, vec[i].name) = i
  BY FindIs DEF Distinct
<1>2. i # 0 /\ vec[i].value # -1
  BY StrIs
<1> QED
  BY <1>1, <1>2 DEF Value

LEMMA HasNone ==
  ASSUME NEW vec \in Seq(Str), NEW n, \A i \in 1 .. Len(vec) : vec[i].name # n
  PROVE  Value(vec, n) = -1
BY FindIs DEF Value

\* Two arrays with the same strings for a name give it the same value.
LEMMA SameValue ==
  ASSUME NEW vec \in Seq(Str), NEW other \in Seq(Str), Distinct(vec), Distinct(other), NEW n,
         \A i \in 1 .. Len(vec) : vec[i].name = n =>
           \E j \in 1 .. Len(other) : other[j].name = n /\ other[j].value = vec[i].value,
         \A j \in 1 .. Len(other) : other[j].name = n => \E i \in 1 .. Len(vec) : vec[i].name = n
  PROVE  Value(vec, n) = Value(other, n)
<1>1. CASE \E i \in 1 .. Len(vec) : vec[i].name = n
  BY <1>1, HasValue
<1>2. CASE \A i \in 1 .. Len(vec) : vec[i].name # n
  BY <1>2, HasNone
<1> QED
  BY <1>1, <1>2

-----------------------------------------------------------------------------
(* What the calls do to the array                                           *)

\* A string for a new name at the end.
LEMMA AppendIs ==
  ASSUME NEW vec \in Seq(Str), Distinct(vec), Sized(vec),
         NEW s \in Str, s.value <= s.size, \A i \in 1 .. Len(vec) : vec[i].name # s.name
  PROVE  /\ Append(vec, s) \in Seq(Str) /\ Len(Append(vec, s)) = Len(vec) + 1
         /\ Distinct(Append(vec, s)) /\ Sized(Append(vec, s))
         /\ Value(Append(vec, s), s.name) = s.value
         /\ \A m : m # s.name => Value(Append(vec, s), m) = Value(vec, m)
<1> DEFINE new == Append(vec, s)
           L == Len(vec)
<1>1. /\ new \in Seq(Str) /\ Len(new) = L + 1 /\ L \in Nat
      /\ \A i \in 1 .. L : new[i] = vec[i]
      /\ new[L + 1] = s
  BY AppendProperties, LenProperties
<1> HIDE DEF new, L
<1>2. \A i \in 1 .. Len(new) : i \in 1 .. L \/ i = L + 1
  BY <1>1
<1>3. Distinct(new)
  BY <1>1, <1>2 DEF Distinct, L
<1>4. Sized(new)
  BY <1>1, <1>2 DEF Sized, L
<1>5. Value(new, s.name) = s.value
  <2>1. L + 1 \in 1 .. Len(new)
    BY <1>1
  <2> QED
    BY <1>1, <1>3, <2>1, HasValue
<1>6. ASSUME NEW m, m # s.name PROVE Value(new, m) = Value(vec, m)
  <2>1. ASSUME NEW i \in 1 .. Len(vec), vec[i].name = m
        PROVE  \E j \in 1 .. Len(new) : new[j].name = m /\ new[j].value = vec[i].value
    BY <1>1, <2>1 DEF L
  <2>2. ASSUME NEW j \in 1 .. Len(new), new[j].name = m
        PROVE  \E i \in 1 .. Len(vec) : vec[i].name = m
    BY <1>1, <1>2, <1>6, <2>2 DEF L
  <2> QED
    BY <1>1, <1>3, <2>1, <2>2, SameValue
<1> QED
  BY <1>1, <1>3, <1>4, <1>5, <1>6 DEF new, L

\* Another string for the same name, in the same place.
LEMMA UpdateIs ==
  ASSUME NEW vec \in Seq(Str), Distinct(vec), Sized(vec), NEW k \in 1 .. Len(vec),
         NEW s \in Str, s.value <= s.size, s.name = vec[k].name
  PROVE  LET new == [vec EXCEPT ![k] = s]
         IN  /\ new \in Seq(Str) /\ Len(new) = Len(vec) /\ Distinct(new) /\ Sized(new)
             /\ Value(new, s.name) = s.value
             /\ \A m : m # s.name => Value(new, m) = Value(vec, m)
<1> DEFINE new == [vec EXCEPT ![k] = s]
<1>1. /\ new \in Seq(Str) /\ Len(new) = Len(vec)
      /\ \A i \in 1 .. Len(vec) : new[i] = IF i = k THEN s ELSE vec[i]
  BY ExceptSeq
<1> HIDE DEF new
<1>2. \A i \in 1 .. Len(vec) : new[i].name = vec[i].name
  BY <1>1
<1>3. Distinct(new)
  BY <1>1, <1>2 DEF Distinct
<1>4. Sized(new)
  BY <1>1 DEF Sized
<1>5. Value(new, s.name) = s.value
  BY <1>1, <1>3, HasValue
<1>6. ASSUME NEW m, m # s.name PROVE Value(new, m) = Value(vec, m)
  <2>1. \A i \in 1 .. Len(vec) : vec[i].name = m => new[i].name = m /\ new[i].value = vec[i].value
    BY <1>1, <1>6
  <2>2. \A i \in 1 .. Len(vec) : new[i].name = m => vec[i].name = m
    BY <1>2
  <2> QED
    BY <1>1, <1>3, <2>1, <2>2, SameValue
<1> QED
  BY <1>1, <1>3, <1>4, <1>5, <1>6 DEF new

\* Array other has the strings of array vec but those for the name n.
IsWithout(vec, other, n) ==
    /\ other \in Seq(Str) /\ Len(other) <= Len(vec)
    /\ \A j \in 1 .. Len(other) :
         other[j].name # n /\ \E i \in 1 .. Len(vec) : vec[i] = other[j]
    /\ \A i \in 1 .. Len(vec) : vec[i].name # n => \E j \in 1 .. Len(other) : other[j] = vec[i]
    /\ Distinct(other)

LEMMA WithoutIs ==
  ASSUME NEW vec \in Seq(Str), Distinct(vec), Sized(vec), NEW n, NEW other,
         IsWithout(vec, other, n)
  PROVE  /\ other \in Seq(Str) /\ Len(other) <= Len(vec) /\ Distinct(other) /\ Sized(other)
         /\ Value(other, n) = -1
         /\ \A m : m # n => Value(other, m) = Value(vec, m)
<1>1. Sized(other)
  BY DEF IsWithout, Sized
<1>2. Value(other, n) = -1
  BY HasNone DEF IsWithout
<1>3. ASSUME NEW m, m # n PROVE Value(other, m) = Value(vec, m)
  <2>1. ASSUME NEW i \in 1 .. Len(vec), vec[i].name = m
        PROVE  \E j \in 1 .. Len(other) : other[j].name = m /\ other[j].value = vec[i].value
    BY <1>3, <2>1 DEF IsWithout
  <2>2. \A j \in 1 .. Len(other) : other[j].name = m => \E i \in 1 .. Len(vec) : vec[i].name = m
    BY DEF IsWithout
  <2> QED
    BY <2>1, <2>2, SameValue DEF IsWithout
<1> QED
  BY <1>1, <1>2, <1>3 DEF IsWithout

\* unsetenv's loop leaves the strings for other names.
LEMMA CompactedIs ==
  ASSUME vector \in Seq(Str), Distinct(vector), NEW n
  PROVE  IsWithout(vector, Compacted(n), n)
<1> DEFINE L == Len(vector)
           V == Seq(Str)
           Next1(i, x) == IF vector[i].name = n THEN x ELSE Append(x, vector[i])
           step == [i \in 1 .. L |-> [x \in V |-> Next1(i, x)]]
           Loop(f) == f = [i \in 0 .. L |-> IF i = 0 THEN <<>> ELSE Next1(i, f[i - 1])]
           dp == CHOOSE f : Loop(f)
<1>1. L \in Nat /\ \A i \in 1 .. L : vector[i] \in Str
  BY StrIs
<1>2. \E f : Loop(f)
  <2>1. \A i \in 1 .. L, x \in V : Next1(i, x) \in V
    BY <1>1, AppendProperties
  <2>2. <<>> \in V /\ step \in Steps(L, V)
    BY <2>1 DEF Steps
  <2>3. PICK f \in [0 .. L -> V] :
          f[0] = <<>> /\ \A i \in 1 .. L : f[i] = step[i][f[i - 1]]
    <3> HIDE DEF step, V, L
    <3> QED
      BY <1>1, <2>2, Recursion
  <2>4. \A i \in 1 .. L : step[i][f[i - 1]] = Next1(i, f[i - 1])
    <3>1. \A i \in 1 .. L : f[i - 1] \in V
      BY <1>1
    <3> HIDE DEF V, Next1
    <3> QED
      BY <3>1
  <2>5. Loop(f)
    <3> HIDE DEF step, Next1
    <3> QED
      BY <2>3, <2>4
  <2> QED
    BY <2>5
<1>3. Loop(dp)
  BY <1>2
<1>4. dp[0] = <<>> /\ \A i \in 1 .. L : dp[i] = Next1(i, dp[i - 1])
  <2> HIDE DEF Next1, dp
  <2> QED
    BY <1>1, <1>3
<1>5. Compacted(n) = dp[L]
  BY DEF Compacted
<1> HIDE DEF dp, Next1, step
<1> DEFINE Upto(i, d) ==
             /\ d \in Seq(Str) /\ Len(d) <= i
             /\ \A j \in 1 .. Len(d) : d[j].name # n /\ \E k \in 1 .. i : vector[k] = d[j]
             /\ \A k \in 1 .. i : vector[k].name # n => \E j \in 1 .. Len(d) : d[j] = vector[k]
             /\ Distinct(d)
           S == {i \in 0 .. L : Upto(i, dp[i])}
<1>6. 0 \in S
  <2>1. <<>> \in Seq(Str) /\ Len(<<>>) = 0
    BY EmptySeq
  <2>2. Upto(0, <<>>)
    BY <2>1 DEF Distinct
  <2> HIDE DEF Upto
  <2> QED
    BY <1>1, <1>4, <2>2
<1>7. ASSUME NEW i \in 1 .. L, i - 1 \in S PROVE i \in S
  <2> DEFINE d == dp[i - 1]
  <2>1. Upto(i - 1, d) /\ i \in Nat /\ i - 1 \in Nat /\ vector[i] \in Str
    BY <1>1, <1>7
  <2>2. dp[i] = Next1(i, d)
    BY <1>4
  <2>3. CASE vector[i].name = n
    <3>1. dp[i] = d
      BY <2>2, <2>3 DEF Next1
    <3>2. Upto(i, d)
      <4>1. \A k \in 1 .. i : k \in 1 .. i - 1 \/ k = i
        BY <2>1
      <4>2. 1 .. i - 1 \subseteq 1 .. i
        BY <2>1
      <4>3. d \in Seq(Str) /\ Len(d) <= i /\ Distinct(d)
        BY <2>1, LenProperties
      <4> HIDE DEF d
      <4> QED
        BY <2>1, <2>3, <4>1, <4>2, <4>3
    <3> HIDE DEF Upto
    <3> QED
      BY <1>1, <3>1, <3>2
  <2>4. CASE vector[i].name # n
    <3> DEFINE e == Append(d, vector[i])
               M == Len(d)
    <3>1. dp[i] = e
      BY <2>2, <2>4 DEF Next1
    <3>2. /\ e \in Seq(Str) /\ Len(e) = M + 1 /\ M \in Nat
          /\ \A j \in 1 .. M : e[j] = d[j]
          /\ e[M + 1] = vector[i]
      BY <2>1, AppendProperties, LenProperties
    <3> HIDE DEF e, d, M
    <3>3. \A j \in 1 .. Len(e) : j \in 1 .. M \/ j = M + 1
      BY <3>2
    <3>4. Len(e) <= i
      BY <2>1, <3>2 DEF M
    <3>5. ASSUME NEW j \in 1 .. Len(e)
          PROVE  e[j].name # n /\ \E k \in 1 .. i : vector[k] = e[j]
      <4>1. CASE j = M + 1
        BY <2>1, <2>4, <3>2, <4>1
      <4>2. CASE j \in 1 .. M
        <5>1. d[j].name # n /\ \E k \in 1 .. i - 1 : vector[k] = d[j]
          BY <2>1, <4>2 DEF M
        <5> QED
          BY <2>1, <3>2, <4>2, <5>1
      <4> QED
        BY <3>3, <4>1, <4>2
    <3>6. ASSUME NEW k \in 1 .. i, vector[k].name # n
          PROVE  \E j \in 1 .. Len(e) : e[j] = vector[k]
      <4>1. CASE k = i
        BY <3>2, <4>1
      <4>2. CASE k # i
        <5>1. PICK j \in 1 .. M : d[j] = vector[k]
          BY <2>1, <3>6, <4>2 DEF M
        <5> QED
          BY <3>2, <5>1
      <4> QED
        BY <4>1, <4>2
    <3>7. \A j \in 1 .. M : d[j].name # vector[i].name
      <4> SUFFICES ASSUME NEW j \in 1 .. M, d[j].name = vector[i].name PROVE FALSE
        OBVIOUS
      <4>1. PICK k \in 1 .. i - 1 : vector[k] = d[j]
        BY <2>1 DEF M
      <4>2. k \in 1 .. L /\ i \in 1 .. L /\ vector[k].name = vector[i].name /\ k # i
        BY <1>1, <2>1, <4>1
      <4> QED
        BY <4>2 DEF Distinct
    <3>8. Distinct(e)
      <4>1. \A j, k \in 1 .. M : d[j].name = d[k].name => j = k
        BY <2>1 DEF Distinct, M
      <4>2. \A j, k \in 1 .. Len(e) : e[j].name = e[k].name => j = k
        BY <3>2, <3>3, <3>7, <4>1
      <4> QED
        BY <4>2 DEF Distinct
    <3>9. Upto(i, e)
      BY <3>2, <3>4, <3>5, <3>6, <3>8
    <3> HIDE DEF Upto
    <3> QED
      BY <1>1, <3>1, <3>9
  <2> QED
    BY <2>3, <2>4
<1>8. Upto(L, dp[L])
  <2> HIDE DEF Upto
  <2>1. \A i \in 0 .. L : i \in S
    <3> HIDE DEF S, L
    <3> QED
      BY <1>1, <1>6, <1>7, UpTo
  <2>2. L \in 0 .. L
    BY <1>1
  <2> QED
    BY <2>1, <2>2
<1> QED
  BY <1>5, <1>8 DEF IsWithout

\* Finding, and asking, in the array as it is.
LEMMA InVector ==
  ASSUME NEW n
  PROVE  /\ Find(n) = FindIn(vector, n) /\ getenv(n) = Value(vector, n)
         /\ Find(n)' = FindIn(vector', n) /\ getenv(n)' = Value(vector', n)
BY DEF Find, FindIn, getenv, Value

\* One string taken out of the middle leaves the strings for other names.
LEMMA RemoveIs ==
  ASSUME NEW vec \in Seq(Str), Distinct(vec), NEW k \in 1 .. Len(vec)
  PROVE  /\ IsWithout(vec, RemoveAt(vec, k), vec[k].name)
         /\ Len(RemoveAt(vec, k)) = Len(vec) - 1
<1> DEFINE L == Len(vec)
           low == SubSeq(vec, 1, k - 1)
           high == SubSeq(vec, k + 1, L)
           new == low \o high
<1>1. L \in Nat /\ k \in Nat /\ k >= 1 /\ k <= L /\ \A i \in 1 .. L : vec[i] \in Str
  BY StrIs
<1>2. low \in Seq(Str) /\ Len(low) = k - 1 /\ \A i \in 1 .. k - 1 : low[i] = vec[i]
  <2> HIDE DEF L
  <2>1. 1 \in Int /\ k - 1 \in Int /\ \A i \in 1 .. k - 1 : vec[i] \in Str
    BY <1>1
  <2>2. /\ low \in Seq(Str) /\ Len(low) = IF 1 <= k - 1 THEN k - 1 - 1 + 1 ELSE 0
        /\ \A i \in 1 .. k - 1 - 1 + 1 : low[i] = vec[1 + i - 1]
    BY ONLY <2>1, SubSeqProperties
  <2> HIDE DEF low
  <2> QED
    BY <1>1, <2>2
<1>3. high \in Seq(Str) /\ Len(high) = L - k /\ \A i \in 1 .. L - k : high[i] = vec[k + i]
  <2> HIDE DEF L
  <2>1. k + 1 \in Int /\ L \in Int /\ \A i \in k + 1 .. L : vec[i] \in Str
    BY <1>1
  <2>2. /\ high \in Seq(Str) /\ Len(high) = IF k + 1 <= L THEN L - (k + 1) + 1 ELSE 0
        /\ \A i \in 1 .. L - (k + 1) + 1 : high[i] = vec[k + 1 + i - 1]
    BY ONLY <2>1, SubSeqProperties
  <2> HIDE DEF high
  <2> QED
    BY <1>1, <2>2
<1>4. RemoveAt(vec, k) = new
  BY DEF RemoveAt
<1> HIDE DEF low, high
<1>5. /\ new \in Seq(Str) /\ Len(new) = L - 1
      /\ \A j \in 1 .. L - 1 : new[j] = IF j < k THEN vec[j] ELSE vec[j + 1]
  <2>1. /\ new \in Seq(Str) /\ Len(new) = Len(low) + Len(high)
        /\ \A j \in 1 .. Len(low) + Len(high) :
             new[j] = IF j <= Len(low) THEN low[j] ELSE high[j - Len(low)]
    BY <1>2, <1>3, ConcatProperties
  <2> HIDE DEF new, L
  <2>2. Len(new) = L - 1 /\ Len(low) + Len(high) = L - 1
    BY <1>1, <1>2, <1>3, <2>1
  <2>3. ASSUME NEW j \in 1 .. L - 1
        PROVE  new[j] = IF j < k THEN vec[j] ELSE vec[j + 1]
    <3>1. CASE j < k
      <4>1. j \in 1 .. Len(low) /\ j <= Len(low) /\ low[j] = vec[j]
        BY <1>1, <1>2, <3>1
      <4>2. new[j] = low[j]
        BY <2>1, <2>2, <4>1
      <4> QED
        BY <3>1, <4>1, <4>2
    <3>2. CASE ~ j < k
      <4>1. j - Len(low) \in 1 .. L - k /\ k + (j - Len(low)) = j + 1 /\ ~ j <= Len(low)
        BY <1>1, <1>2, <3>2
      <4> QED
        BY <1>3, <2>1, <2>2, <3>2, <4>1
    <3> QED
      BY <3>1, <3>2
  <2> QED
    BY <2>1, <2>2, <2>3
<1> HIDE DEF new, L
<1>6. ASSUME NEW j \in 1 .. L - 1
      PROVE  \E i \in 1 .. L : /\ vec[i] = new[j] /\ i # k
                              /\ i = IF j < k THEN j ELSE j + 1
  BY <1>1, <1>5
<1>7. ASSUME NEW i \in 1 .. L, i # k PROVE \E j \in 1 .. L - 1 : new[j] = vec[i]
  <2>1. CASE i < k
    BY <1>1, <1>5, <2>1
  <2>2. CASE k < i
    <3>1. i - 1 \in 1 .. L - 1 /\ ~ i - 1 < k /\ i - 1 + 1 = i
      BY <1>1, <2>2
    <3> QED
      BY <1>5, <3>1
  <2> QED
    BY <1>1, <1>7, <2>1, <2>2
<1>8. \A i, j \in 1 .. L : vec[i].name = vec[j].name => i = j
  BY DEF Distinct, L
<1>9. Distinct(new)
  <2> SUFFICES ASSUME NEW i \in 1 .. L - 1, NEW j \in 1 .. L - 1, new[i].name = new[j].name
               PROVE  i = j
    BY <1>5 DEF Distinct
  <2>1. PICK a \in 1 .. L : vec[a] = new[i] /\ a = IF i < k THEN i ELSE i + 1
    BY <1>6
  <2>2. PICK b \in 1 .. L : vec[b] = new[j] /\ b = IF j < k THEN j ELSE j + 1
    BY <1>6
  <2>3. a = b
    BY <1>8, <2>1, <2>2
  <2> QED
    BY <1>1, <2>1, <2>2, <2>3
<1>10. \A j \in 1 .. L - 1 : new[j].name # vec[k].name /\ \E i \in 1 .. L : vec[i] = new[j]
  BY <1>1, <1>6, <1>8
<1>11. \A i \in 1 .. L : vec[i].name # vec[k].name => \E j \in 1 .. L - 1 : new[j] = vec[i]
  BY <1>7
<1> QED
  BY <1>1, <1>4, <1>5, <1>9, <1>10, <1>11 DEF IsWithout, L

\* putenv's first step: the variable is gone, and its pointer counted as free.
LEMMA TakenIs ==
  ASSUME vector \in Seq(Str), Distinct(vector), extras \in Nat, NEW n
  PROVE  /\ IsWithout(vector, Taken(n).vec, n)
         /\ Taken(n).ext \in Nat
         /\ Len(Taken(n).vec) + Taken(n).ext = Len(vector) + extras
         /\ Taken(n).ext = 0 => Taken(n).vec = vector
<1>1. Len(vector) \in Nat
  BY LenProperties
<1>2. CASE Find(n) = 0
  <2>1. Taken(n).vec = vector /\ Taken(n).ext = extras
    BY <1>2 DEF Taken
  <2>2. \A i \in 1 .. Len(vector) : vector[i].name # n
    BY <1>2, FindIs, InVector
  <2>3. IsWithout(vector, vector, n)
    BY <1>1, <2>2 DEF IsWithout
  <2> QED
    BY <2>1, <2>3
<1>3. CASE Find(n) # 0
  <2> DEFINE new == RemoveAt(vector, Find(n))
  <2>1. Taken(n).vec = new /\ Taken(n).ext = extras + 1
    BY <1>3 DEF Taken
  <2>2. Find(n) \in 1 .. Len(vector) /\ vector[Find(n)].name = n
    BY <1>3, FindIs, InVector
  <2>3. IsWithout(vector, new, n) /\ Len(new) = Len(vector) - 1
    BY <2>2, RemoveIs
  <2> HIDE DEF new
  <2> QED
    BY <1>1, <2>1, <2>3
<1> QED
  BY <1>2, <1>3
-----------------------------------------------------------------------------
(* The invariant                                                            *)

\* The array of the first variables: each has a string of its own.
LEMMA InitVector ==
  ASSUME NEW D \in SUBSET Names, NEW w \in Values,
         vector = SetToSeq({New(n, w) : n \in D})
  PROVE  vector \in Seq(Str) /\ Distinct(vector) /\ Sized(vector)
<1> DEFINE T == {New(n, w) : n \in D}
           c == Cardinality(T)
           Found(f) == f \in [1 .. c -> T] /\ IsInjective(f)
<1>1. \A s \in T : s \in Str /\ s = New(s.name, w) /\ s.value = s.size
  BY NewIs
<1>2. IsFiniteSet(T)
  <2> DEFINE g == [n \in D |-> New(n, w)]
  <2>1. g \in Surjection(D, T)
    BY DEF Surjection
  <2>2. IsFiniteSet(D)
    BY EnvironAssumption, FS_Subset
  <2> HIDE DEF g, T
  <2> QED
    BY <2>1, <2>2, FS_Surjection
<1> HIDE DEF T
<1>3. c \in Nat /\ ExistsBijection(1 .. c, T)
  BY <1>2, FS_CardinalityType
<1> HIDE DEF c
<1>4. \E f : Found(f)
  <2>1. PICK f : f \in Bijection(1 .. c, T)
    BY <1>3 DEF ExistsBijection
  <2> QED
    BY <2>1 DEF Bijection, Injection
<1>5. vector = CHOOSE f \in [1 .. c -> T] : IsInjective(f)
  BY DEF SetToSeq, T, c
<1>6. Found(vector)
  BY <1>4, <1>5
<1>7. vector \in Seq(Str) /\ Len(vector) = c
  <2>1. vector \in [1 .. c -> Str]
    BY <1>1, <1>6
  <2>2. vector \in Seq(Str)
    BY <1>3, <2>1, SeqDef
  <2>3. DOMAIN vector = 1 .. Len(vector) /\ Len(vector) \in Nat
    BY <2>2, LenProperties
  <2>4. 1 .. Len(vector) = 1 .. c
    BY <2>1, <2>3
  <2>5. Len(vector) <= c
    <3>1. Len(vector) = 0 \/ Len(vector) \in 1 .. Len(vector)
      BY <2>3
    <3> QED
      BY <1>3, <2>4, <3>1
  <2>6. c <= Len(vector)
    <3>1. c = 0 \/ c \in 1 .. c
      BY <1>3
    <3> QED
      BY <2>3, <2>4, <3>1
  <2>7. c \in Nat
    BY <1>3
  <2>8. Len(vector) = c
    <3> DEFINE l == Len(vector)
    <3>1. l \in Nat /\ l <= c /\ c <= l
      BY <2>3, <2>5, <2>6
    <3> HIDE DEF l
    <3> QED
      BY <2>7, <3>1 DEF l
  <2> QED
    BY <2>2, <2>8
<1>8. \A i \in 1 .. c : vector[i] \in T
  BY <1>6
<1>9. \A i, j \in 1 .. c : vector[i] = vector[j] => i = j
  BY <1>6 DEF IsInjective
<1>10. Distinct(vector)
  <2> SUFFICES ASSUME NEW i \in 1 .. c, NEW j \in 1 .. c, vector[i].name = vector[j].name
               PROVE  i = j
    BY <1>7 DEF Distinct
  <2>1. vector[i] = New(vector[i].name, w) /\ vector[j] = New(vector[j].name, w)
    BY <1>1, <1>8
  <2> QED
    BY <1>9, <2>1
<1>11. Sized(vector)
  <2>1. \A i \in 1 .. c : vector[i].value = vector[i].size /\ vector[i].size \in Nat
    BY <1>1, <1>8 DEF Str
  <2> QED
    BY <1>7, <2>1 DEF Sized
<1> QED
  BY <1>7, <1>10, <1>11

LEMMA InitInv == Init => Inv
<1> SUFFICES ASSUME Init PROVE Inv
  OBVIOUS
<1>1. vector \in Seq(Str) /\ Distinct(vector) /\ Sized(vector)
  BY InitVector DEF Init
<1>2. Len(vector) \in Nat
  BY <1>1, LenProperties
<1>3. Types
  BY <1>1, <1>2, EnvironAssumption DEF Init, Types
<1>4. OwnArrays
  BY DEF Init, OwnArrays
<1>5. Counted
  BY <1>2 DEF Init, Counted
<1> QED
  BY <1>1, <1>3, <1>4, <1>5 DEF Inv

\* What a call makes of the environment: name n has the value v, -1 being none, and every
\* other name the value it had.
Gives(n, v) ==
    /\ Value(vector', n) = v
    /\ \A m : m # n => Value(vector', m) = Value(vector, m)

LEMMA NewKeepsInv ==
  ASSUME Inv, NEW n \in Names, NEW v \in Values, setenvNew(n, v)
  PROVE  Inv' /\ Gives(n, v)
<1>1. PICK a \in Arrays \ alloc :
        /\ environ' = a
        /\ vector' = Append(vector, New(n, v))
        /\ room' = Len(vector) + 2
        /\ alloc' = Freed(a, last_environ)
        /\ last_environ' = a
  BY DEF setenvNew
<1>2. mall_env' = mall_env /\ extras' = extras
  BY DEF setenvNew
<1>3. \A i \in 1 .. Len(vector) : vector[i].name # n
  BY FindIs, InVector DEF setenvNew, Inv, Types
<1>4. /\ vector' \in Seq(Str) /\ Distinct(vector') /\ Sized(vector')
      /\ Gives(n, v)
  BY <1>1, <1>3, NewIs, AppendIs DEF Inv, Types, Gives
<1>5. Len(vector) \in Nat
  BY LenProperties DEF Inv, Types
<1>6. a # Null /\ a # mall_env
  BY EnvironAssumption DEF Inv, OwnArrays
<1>7. Types'
  BY <1>1, <1>2, <1>4, <1>5 DEF Inv, Types, Freed
<1>8. OwnArrays'
  BY <1>1, <1>2, <1>6 DEF Inv, OwnArrays, Freed
<1>9. Counted'
  BY <1>1, <1>6 DEF Counted
<1> QED
  BY <1>4, <1>7, <1>8, <1>9 DEF Inv

LEMMA OldKeepsInv ==
  ASSUME Inv, NEW n \in Names, NEW v \in Values, setenvOld(n, v)
  PROVE  Inv' /\ Gives(n, v)
<1> DEFINE k == Find(n)
           s == Replaced(vector[k], v)
<1>1. k \in 1 .. Len(vector) /\ vector[k].name = n
  BY FindIs, InVector DEF setenvOld, Inv, Types
<1>2. vector[k] \in Str /\ vector[k].value <= vector[k].size
  BY <1>1, StrIs DEF Inv, Types, Sized
<1>3. s \in Str /\ s.name = n /\ s.value = v /\ s.value <= s.size
  BY <1>1, <1>2, ReplacedIs
<1>4. vector' = [vector EXCEPT ![k] = s]
  BY DEF setenvOld
<1> HIDE DEF k, s
<1>5. /\ vector' \in Seq(Str) /\ Distinct(vector') /\ Sized(vector') /\ Len(vector') = Len(vector)
      /\ Gives(n, v)
  <2>1. vector \in Seq(Str) /\ Distinct(vector) /\ Sized(vector)
    BY DEF Inv, Types
  <2>2. LET new == [vector EXCEPT ![k] = s]
        IN  /\ new \in Seq(Str) /\ Len(new) = Len(vector) /\ Distinct(new) /\ Sized(new)
            /\ Value(new, s.name) = s.value
            /\ \A m : m # s.name => Value(new, m) = Value(vector, m)
    BY <1>1, <1>3, <2>1, UpdateIs
  <2> QED
    BY <1>3, <1>4, <2>2 DEF Gives
<1> QED
  BY <1>5 DEF setenvOld, Inv, Types, OwnArrays, Counted

LEMMA NotKeepsInv == Inv /\ setenvNot => Inv'
BY DEF setenvNot, vars, Inv, Types, OwnArrays, Distinct, Sized, Counted

LEMMA UnsetKeepsInv ==
  ASSUME Inv, NEW n, unsetenv(n)
  PROVE  Inv' /\ Gives(n, -1)
<1>1. vector \in Seq(Str) /\ Distinct(vector) /\ Sized(vector)
  BY DEF Inv, Types
<1>2. vector' = Compacted(n) /\ IsWithout(vector, Compacted(n), n)
  BY <1>1, CompactedIs DEF unsetenv
<1>3. /\ vector' \in Seq(Str) /\ Distinct(vector') /\ Sized(vector') /\ Len(vector') <= Len(vector)
      /\ Gives(n, -1)
  BY <1>1, <1>2, WithoutIs DEF Gives
<1>4. Len(vector) \in Nat /\ Len(vector') \in Nat
  BY <1>1, <1>3, LenProperties
<1> QED
  BY <1>3, <1>4 DEF unsetenv, Inv, Types, OwnArrays, Counted

LEMMA NameKeepsInv ==
  ASSUME Inv, NEW n, putenvName(n)
  PROVE  Inv' /\ Gives(n, -1)
<1>1. vector \in Seq(Str) /\ Distinct(vector) /\ Sized(vector) /\ extras \in Nat
  BY DEF Inv, Types
<1>2. /\ vector' = Taken(n).vec /\ extras' = Taken(n).ext
      /\ IsWithout(vector, vector', n) /\ extras' \in Nat
      /\ Len(vector') + extras' = Len(vector) + extras
  BY <1>1, TakenIs DEF putenvName
<1>3. vector' \in Seq(Str) /\ Distinct(vector') /\ Sized(vector') /\ Gives(n, -1)
  BY <1>1, <1>2, WithoutIs DEF Gives
<1>4. Len(vector) \in Nat /\ Len(vector') \in Nat
  BY <1>1, <1>3, LenProperties
<1> QED
  BY <1>1, <1>2, <1>3, <1>4 DEF putenvName, Inv, Types, OwnArrays, Counted

LEMMA PutKeepsInv ==
  ASSUME Inv, NEW n \in Names, NEW v \in Values, putenv(n, v)
  PROVE  Inv' /\ (Gives(n, v) \/ (MayFail /\ vector' = vector))
<1> DEFINE t == Taken(n)
           added == Append(t.vec, New(n, v))
<1>1. vector \in Seq(Str) /\ Distinct(vector) /\ Sized(vector) /\ extras \in Nat
  BY DEF Inv, Types
<1>2. /\ IsWithout(vector, t.vec, n) /\ t.ext \in Nat
      /\ Len(t.vec) + t.ext = Len(vector) + extras
      /\ t.ext = 0 => t.vec = vector
  BY <1>1, TakenIs
<1> HIDE DEF t
<1>3. /\ t.vec \in Seq(Str) /\ Distinct(t.vec) /\ Sized(t.vec)
      /\ \A m : m # n => Value(t.vec, m) = Value(vector, m)
  BY <1>1, <1>2, WithoutIs
<1>4. \A i \in 1 .. Len(t.vec) : t.vec[i].name # n
  BY <1>2 DEF IsWithout
<1>5. /\ added \in Seq(Str) /\ Len(added) = Len(t.vec) + 1
      /\ Distinct(added) /\ Sized(added)
      /\ Value(added, n) = v
      /\ \A m : m # n => Value(added, m) = Value(vector, m)
  BY <1>3, <1>4, NewIs, AppendIs
<1> HIDE DEF added
<1>6. Len(vector) \in Nat /\ Len(t.vec) \in Nat
  BY <1>1, <1>3, LenProperties
<1>7. CASE /\ t.ext > 0
           /\ vector' = added /\ extras' = Used(t.ext)
           /\ UNCHANGED <<environ, room, alloc, last_environ, mall_env>>
  <2>1. extras' \in Nat /\ Len(vector') + extras' = Len(vector) + extras
    <3>1. extras' = t.ext - 1 /\ Len(vector') = Len(t.vec) + 1
      BY <1>5, <1>7 DEF Used
    <3>2. t.ext \in Nat /\ t.ext > 0
      BY <1>2, <1>7
    <3> QED
      BY <1>1, <1>2, <1>6, <3>1, <3>2
  <2>2. Types' /\ Counted'
    BY <1>1, <1>5, <1>6, <1>7, <2>1 DEF Inv, Types, Counted
  <2> QED
    BY <1>5, <1>7, <2>2 DEF Inv, OwnArrays, Gives
<1>8. CASE /\ t.ext <= 0
           /\ \E a \in Arrays \ alloc :
                /\ environ' = a /\ mall_env' = a
                /\ alloc' = Freed(a, mall_env)
           /\ vector' = added
           /\ room' = Len(t.vec) + 1 + ADD_NUM
           /\ extras' = Used(ADD_NUM)
           /\ UNCHANGED last_environ
  <2>1. PICK a \in Arrays \ alloc : /\ environ' = a /\ mall_env' = a
                                   /\ alloc' = Freed(a, mall_env)
    BY <1>8
  <2>2. a # Null /\ a # last_environ
    BY EnvironAssumption DEF Inv, OwnArrays
  <2>3. Types'
    BY <1>5, <1>6, <1>8, <2>1, EnvironAssumption DEF Inv, Types, Freed, Used
  <2>4. OwnArrays'
    BY <1>8, <2>1, <2>2 DEF Inv, OwnArrays, Freed
  <2>5. Counted'
    BY <1>5, <1>6, <1>8, EnvironAssumption DEF Counted, Used
  <2> QED
    BY <1>5, <1>8, <2>3, <2>4, <2>5 DEF Inv, Gives
<1>9. CASE /\ t.ext <= 0 /\ MayFail /\ vector' = t.vec /\ extras' = t.ext
           /\ UNCHANGED <<environ, room, alloc, last_environ, mall_env>>
  <2>1. t.ext = 0 /\ vector' = vector
    BY <1>2, <1>9
  <2>2. Types' /\ Counted'
    BY <1>1, <1>2, <1>6, <1>9, <2>1 DEF Inv, Types, Counted
  <2> QED
    BY <1>1, <1>9, <2>1, <2>2 DEF Inv, OwnArrays
<1> QED
  BY <1>7, <1>8, <1>9 DEF putenv, t, added

LEMMA StepInv == Inv /\ [Next]_vars => Inv'
<1> SUFFICES ASSUME Inv, [Next]_vars PROVE Inv'
  OBVIOUS
<1>1. CASE \E n \in Names, v \in Values, r \in BOOLEAN : setenv(n, v, r)
  BY <1>1, NewKeepsInv, OldKeepsInv, NotKeepsInv DEF setenv
<1>2. CASE \E n \in Names : unsetenv(n)
  BY <1>2, UnsetKeepsInv
<1>3. CASE \E n \in Names, v \in Values : putenv(n, v)
  BY <1>3, PutKeepsInv
<1>4. CASE \E n \in Names : putenvName(n)
  BY <1>4, NameKeepsInv
<1>5. CASE UNCHANGED vars
  BY <1>5, NotKeepsInv DEF setenvNot
<1> QED
  BY <1>1, <1>2, <1>3, <1>4, <1>5 DEF Next

LEMMA Invariance == Spec => []Inv
<1>1. Init => Inv
  BY InitInv
<1>2. Inv /\ [Next]_vars => Inv'
  BY StepInv
<1> QED
  BY <1>1, <1>2, PTL DEF Spec

-----------------------------------------------------------------------------

\* However setenv and putenv take turns, the array in use has not been freed and
\* none that was allocated is lost (setenv.c's last_environ, putenv.c's mall_env).
THEOREM ArraysKeptHolds == Spec => []ArraysKept
<1>1. Inv => ArraysKept
  BY EnvironAssumption DEF Inv, Types, OwnArrays, ArraysKept
<1> QED
  BY <1>1, Invariance, PTL

\* No value outgrows its string, and until setenv replaces the array putenv's
\* count of free pointers keeps it inside.
THEOREM StaysInsideHolds == Spec => []StaysInside
<1>1. Inv => StaysInside
  <2> SUFFICES ASSUME Inv PROVE StaysInside
    OBVIOUS
  <2>1. Len(vector) \in Nat /\ DOMAIN vector = 1 .. Len(vector)
    BY StrIs DEF Inv, Types
  <2>2. \A i \in DOMAIN vector : vector[i].value <= vector[i].size
    BY <2>1 DEF Inv, Sized
  <2>3. last_environ = Null => Fits
    BY <2>1 DEF Inv, Types, Counted, Fits
  <2> QED
    BY <2>2, <2>3 DEF StaysInside
<1> QED
  BY <1>1, Invariance, PTL

\* The environment after a call that gave one name a value.
LEMMA GivesEnvironment ==
  ASSUME NEW n \in Names, NEW v, Gives(n, v)
  PROVE  Environment' = [Environment EXCEPT ![n] = v]
<1>1. \A m \in Names : getenv(m) = Value(vector, m) /\ getenv(m)' = Value(vector', m)
  BY InVector
<1>2. Environment' = [m \in Names |-> getenv(m)']
  BY DEF Environment
<1> QED
  BY <1>1, <1>2 DEF Environment, Gives

\* What IsAnEnvironment asks of each step.
CallsAsSaid ==
    \A n \in Names :
         /\ \A v \in Values :
              /\ setenv(n, v, TRUE) \/ putenv(n, v) =>
                   \/ Environment' = [Environment EXCEPT ![n] = v]
                   \/ MayFail /\ vector' = vector
              /\ setenv(n, v, FALSE) =>
                   \/ Environment' = [Environment EXCEPT ![n] = IF @ = -1 THEN v ELSE @]
                   \/ MayFail /\ vector' = vector
         /\ unsetenv(n) \/ putenvName(n) =>
              Environment' = [Environment EXCEPT ![n] = -1]

LEMMA StepAsSaid == Inv => CallsAsSaid
<1> SUFFICES ASSUME Inv, NEW n \in Names
             PROVE  /\ \A v \in Values :
                         /\ setenv(n, v, TRUE) \/ putenv(n, v) =>
                              \/ Environment' = [Environment EXCEPT ![n] = v]
                              \/ MayFail /\ vector' = vector
                         /\ setenv(n, v, FALSE) =>
                              \/ Environment' = [Environment EXCEPT ![n] = IF @ = -1 THEN v ELSE @]
                              \/ MayFail /\ vector' = vector
                    /\ unsetenv(n) \/ putenvName(n) =>
                         Environment' = [Environment EXCEPT ![n] = -1]
  BY DEF CallsAsSaid
<1>1. ASSUME NEW v \in Values, setenv(n, v, TRUE)
      PROVE  \/ Environment' = [Environment EXCEPT ![n] = v]
             \/ MayFail /\ vector' = vector
  <2>1. CASE setenvNew(n, v)
    BY <2>1, NewKeepsInv, GivesEnvironment
  <2>2. CASE setenvOld(n, v)
    BY <2>2, OldKeepsInv, GivesEnvironment
  <2>3. CASE MayFail /\ setenvNot
    BY <2>3 DEF setenvNot, vars
  <2> QED
    BY <1>1, <2>1, <2>2, <2>3 DEF setenv
<1>2. ASSUME NEW v \in Values, putenv(n, v)
      PROVE  \/ Environment' = [Environment EXCEPT ![n] = v]
             \/ MayFail /\ vector' = vector
  BY <1>2, PutKeepsInv, GivesEnvironment
<1>3. ASSUME NEW v \in Values, setenv(n, v, FALSE)
      PROVE  \/ Environment' = [Environment EXCEPT ![n] = IF @ = -1 THEN v ELSE @]
             \/ MayFail /\ vector' = vector
  <2>1. CASE setenvNew(n, v)
    <3>1. Find(n) = 0 /\ getenv(n) = -1
      BY <2>1 DEF setenvNew, getenv
    <3>2. Environment[n] = -1
      BY <3>1 DEF Environment
    <3>3. Environment' = [Environment EXCEPT ![n] = v]
      BY <2>1, NewKeepsInv, GivesEnvironment
    <3> QED
      BY <3>2, <3>3
  <2>2. CASE Find(n) # 0 /\ setenvNot
    <3>1. Value(vector, n) # -1
      BY <2>2, FindIs, HasValue, InVector DEF Inv, Types
    <3>2. Environment[n] # -1
      BY <3>1, InVector DEF Environment
    <3>3. Environment' = Environment /\ Environment = [m \in Names |-> Environment[m]]
      BY <2>2 DEF setenvNot, vars, Environment, getenv, Find
    <3> QED
      BY <3>2, <3>3
  <2>3. CASE MayFail /\ setenvNot
    BY <2>3 DEF setenvNot, vars
  <2> QED
    BY <1>3, <2>1, <2>2, <2>3 DEF setenv
<1>4. ASSUME unsetenv(n) \/ putenvName(n)
      PROVE  Environment' = [Environment EXCEPT ![n] = -1]
  BY <1>4, UnsetKeepsInv, NameKeepsInv, GivesEnvironment
<1> QED
  BY <1>1, <1>2, <1>3, <1>4

\* For getenv every call changes its own name's value, as it says, and no other, or
\* nothing at all for want of memory.
THEOREM IsAnEnvironmentHolds == Spec => IsAnEnvironment
<1>1. Inv => [CallsAsSaid]_vars
  BY StepAsSaid
<1> QED
  BY <1>1, Invariance, PTL DEF IsAnEnvironment, CallsAsSaid

(***************************************************************************)
(* Search trees.                                                           *)
(* A tree is argued about by the sets u[n] of the nodes at and below each  *)
(* node n, which exist as long as it is one: the invariant is that there   *)
(* are such sets, and an insertion or a removal that keeps the tree sorted *)
(* is shown to have new ones.                                              *)
(***************************************************************************)

\* What u says is below a node, if there is one.
Part(u, n) == IF n = Nil THEN {} ELSE u[n]

\* In tree t of the nodes a, with keys ks, the nodes below n and n itself are u[n]:
\* what is left of n has smaller keys, what is right of it larger ones, and that is
\* all there is.
Hangs(t, ks, a, u) == \A n \in a :
    /\ n \in u[n]
    /\ t.left[n] \in a \cup {Nil} /\ t.right[n] \in a \cup {Nil}
    /\ Part(u, t.left[n]) = {m \in u[n] : ks[m] < ks[n]}
    /\ Part(u, t.right[n]) = {m \in u[n] : ks[m] > ks[n]}

\* Two subtrees are apart or one is within the other.
Within(a, u) ==
    /\ \A n \in a : \A m \in u[n] : u[m] \subseteq u[n]
    /\ \A m, n \in a : \A z \in u[m] \cap u[n] : m \in u[n] \/ n \in u[m]

Sorted(t, ks, a, u) ==
    /\ t = [root |-> t.root, left |-> t.left, right |-> t.right]
    /\ t.root \in a \cup {Nil}
    /\ t.left \in [Nodes -> Nodes \cup {Nil}] /\ t.right \in [Nodes -> Nodes \cup {Nil}]
    /\ ks \in [Nodes -> Int] /\ a \subseteq Nodes /\ u \in [a -> SUBSET a]
    /\ Part(u, t.root) = a
    /\ \A m, n \in a : ks[m] = ks[n] => m = n
    /\ \A n \in Nodes \ a : t.left[n] = Nil /\ t.right[n] = Nil
    /\ Hangs(t, ks, a, u) /\ Within(a, u)

LEMMA NilIsNone == Nil \notin Nodes /\ IsFiniteSet(Nodes) /\ Keys \subseteq Int
BY TreeAssumption

LEMMA Antisymmetric ==
  ASSUME NEW t, NEW ks, NEW a, NEW u, Sorted(t, ks, a, u),
         NEW m \in a, NEW n \in a, m \in u[n], n \in u[m]
  PROVE  m = n
<1> SUFFICES ASSUME m # n PROVE FALSE
  OBVIOUS
<1>1. ks[m] \in Int /\ ks[n] \in Int /\ ks[m] # ks[n]
  BY DEF Sorted
<1>2. CASE ks[m] < ks[n]
  <2>1. m \in Part(u, t.left[n]) /\ n \notin Part(u, t.left[n]) /\ t.left[n] \in a \cup {Nil}
    BY <1>1, <1>2 DEF Sorted, Hangs
  <2>2. t.left[n] \in a /\ m \in u[t.left[n]] /\ n \notin u[t.left[n]]
    BY <2>1 DEF Part
  <2> QED
    BY <2>2 DEF Sorted, Within
<1>3. CASE ks[m] > ks[n]
  <2>1. m \in Part(u, t.right[n]) /\ n \notin Part(u, t.right[n]) /\ t.right[n] \in a \cup {Nil}
    BY <1>1, <1>3 DEF Sorted, Hangs
  <2>2. t.right[n] \in a /\ m \in u[t.right[n]] /\ n \notin u[t.right[n]]
    BY <2>1 DEF Part
  <2> QED
    BY <2>2 DEF Sorted, Within
<1> QED
  BY <1>1, <1>2, <1>3

\* What is above a node is above its parent, or is the parent.
LEMMA ParentIsBelow ==
  ASSUME NEW t, NEW ks, NEW a, NEW u, Sorted(t, ks, a, u),
         NEW m \in a, NEW n \in a, NEW c \in a, c = t.left[n] \/ c = t.right[n],
         c \in u[m], m # c
  PROVE  n \in u[m] /\ c \in u[n] /\ c # n
<1>1. c # Nil /\ c \in u[c] /\ ks[m] \in Int /\ ks[n] \in Int /\ ks[c] \in Int /\ u[c] \subseteq a
      /\ (m # n => ks[m] # ks[n]) /\ n \in u[n]
  BY NilIsNone DEF Sorted, Hangs
<1>2. CASE c = t.left[n]
  <2>1. u[c] = {z \in u[n] : ks[z] < ks[n]}
    BY <1>1, <1>2 DEF Sorted, Hangs, Part
  <2>2. c \in u[n] /\ ks[c] < ks[n]
    BY <1>1, <2>1
  <2>3. ASSUME m \in u[n], n \notin u[m] PROVE FALSE
    <3>1. m # n
      BY <1>1, <2>3
    <3>2. CASE ks[m] < ks[n]
      <4>1. m \in u[c]
        BY <2>1, <2>3, <3>2
      <4> QED
        BY <4>1, Antisymmetric
    <3>3. CASE ks[m] > ks[n]
      <4>1. m \in Part(u, t.right[n]) /\ t.right[n] \in a \cup {Nil}
        BY <2>3, <3>3 DEF Sorted, Hangs
      <4>2. t.right[n] \in a /\ m \in u[t.right[n]]
        BY <4>1 DEF Part
      <4>3. c \in u[t.right[n]]
        BY <4>2 DEF Sorted, Within
      <4>4. u[t.right[n]] = {z \in u[n] : ks[z] > ks[n]}
        BY <4>2, NilIsNone DEF Sorted, Hangs, Part
      <4> QED
        BY <1>1, <2>2, <4>3, <4>4
    <3> QED
      BY <1>1, <3>1, <3>2, <3>3
  <2> QED
    BY <1>1, <2>2, <2>3 DEF Sorted, Within
<1>3. CASE c = t.right[n]
  <2>1. u[c] = {z \in u[n] : ks[z] > ks[n]}
    BY <1>1, <1>3 DEF Sorted, Hangs, Part
  <2>2. c \in u[n] /\ ks[c] > ks[n]
    BY <1>1, <2>1
  <2>3. ASSUME m \in u[n], n \notin u[m] PROVE FALSE
    <3>1. m # n
      BY <1>1, <2>3
    <3>2. CASE ks[m] > ks[n]
      <4>1. m \in u[c]
        BY <2>1, <2>3, <3>2
      <4> QED
        BY <4>1, Antisymmetric
    <3>3. CASE ks[m] < ks[n]
      <4>1. m \in Part(u, t.left[n]) /\ t.left[n] \in a \cup {Nil}
        BY <2>3, <3>3 DEF Sorted, Hangs
      <4>2. t.left[n] \in a /\ m \in u[t.left[n]]
        BY <4>1 DEF Part
      <4>3. c \in u[t.left[n]]
        BY <4>2 DEF Sorted, Within
      <4>4. u[t.left[n]] = {z \in u[n] : ks[z] < ks[n]}
        BY <4>2, NilIsNone DEF Sorted, Hangs, Part
      <4> QED
        BY <1>1, <2>2, <4>3, <4>4
    <3> QED
      BY <1>1, <3>1, <3>2, <3>3
  <2> QED
    BY <1>1, <2>2, <2>3 DEF Sorted, Within
<1> QED
  BY <1>2, <1>3

-----------------------------------------------------------------------------
(* The search                                                               *)

N == Cardinality(Nodes)
Places == ({"root"} \X {Nil}) \cup ({"left", "right"} \X Nodes)

LEMMA NodesCount == N \in Nat /\ \A a \in SUBSET Nodes :
                      IsFiniteSet(a) /\ Cardinality(a) \in Nat /\ Cardinality(a) <= N
BY NilIsNone, FS_CardinalityType, FS_Subset DEF N

LEMMA PlacesAre ==
  /\ Root \in Places
  /\ \A n \in Nodes : Left(n) \in Places /\ Right(n) \in Places
  /\ \A p \in Places : p = Root \/ \E n \in Nodes : p = Left(n) \/ p = Right(n)
BY DEF Places, Root, Left, Right

\* What stands at each place.
LEMMA AtIs ==
  ASSUME NEW t, NEW n
  PROVE  /\ At(t, Root) = t.root /\ At(t, Left(n)) = t.left[n] /\ At(t, Right(n)) = t.right[n]
BY DEF At, Root, Left, Right

\* The tree as it stands, u being what is below each node.
Now(u) == Sorted(tree, key, allocated, u)

LEMMA NowIs ==
  ASSUME NEW u, Now(u)
  PROVE  /\ tree.root = root /\ tree.left = left /\ tree.right = right
         /\ root \in Nodes \cup {Nil}
         /\ left \in [Nodes -> Nodes \cup {Nil}] /\ right \in [Nodes -> Nodes \cup {Nil}]
         /\ key \in [Nodes -> Int] /\ allocated \subseteq Nodes
BY DEF Now, Sorted, tree

LEMMA AtPlace ==
  ASSUME NEW u, Now(u), NEW p \in Places
  PROVE  At(tree, p) \in Nodes \cup {Nil}
BY NowIs, PlacesAre, AtIs

LEMMA DownIsPlace ==
  ASSUME NEW u, Now(u), NEW p \in Places, NEW k
  PROVE  Down(k, p) \in Places
BY AtPlace, PlacesAre DEF Down

\* The path to key k.
Path(w, k) ==
    /\ w \in [0 .. N -> Places] /\ w[0] = Root
    /\ \A i \in 1 .. N : w[i] = Down(k, w[i - 1])

LEMMA PlaceIsOnPath ==
  ASSUME NEW u, Now(u), NEW k
  PROVE  \E w : Path(w, k) /\ PlaceOf(k) = w[N]
<1> DEFINE IsLoop(g) == g = [i \in 0 .. N |-> IF i = 0 THEN Root ELSE Down(k, g[i - 1])]
           w == CHOOSE g : IsLoop(g)
           turn == [p \in Places |-> Down(k, p)]
           step == [i \in 1 .. N |-> turn]
<1>1. N \in Nat /\ 0 \in 0 .. N /\ N \in 0 .. N
  BY NodesCount
<1>2. step \in Steps(N, Places)
  BY DownIsPlace DEF Steps
<1>3. PICK f \in [0 .. N -> Places] : f[0] = Root /\ \A i \in 1 .. N : f[i] = step[i][f[i - 1]]
  <2> HIDE DEF step
  <2> QED
    BY <1>1, <1>2, PlacesAre, Recursion
<1>4. \A i \in 1 .. N : i \in 0 .. N /\ i - 1 \in 0 .. N /\ i # 0 /\ f[i] = Down(k, f[i - 1])
  <2>1. \A i \in 1 .. N : i \in 0 .. N /\ i - 1 \in 0 .. N /\ i # 0
    BY <1>1
  <2>2. \A i \in 1 .. N : step[i] = turn /\ f[i - 1] \in Places
    BY <1>3, <2>1
  <2> QED
    BY <1>3, <2>1, <2>2
<1>5. \A i \in 0 .. N : i = 0 \/ i \in 1 .. N
  BY <1>1
<1>6. IsLoop(f)
  <2> HIDE DEF step
  <2>1. \A i \in 0 .. N : f[i] = IF i = 0 THEN Root ELSE Down(k, f[i - 1])
    BY <1>3, <1>4, <1>5
  <2> QED
    BY <1>3, <2>1
<1>7. IsLoop(w)
  <2> HIDE DEF IsLoop
  <2> QED
    BY <1>6
<1>8. w[0] = Root /\ \A i \in 1 .. N : w[i] = Down(k, w[i - 1])
  <2> HIDE DEF w
  <2>1. \A i \in 0 .. N : w[i] = IF i = 0 THEN Root ELSE Down(k, w[i - 1])
    BY <1>7
  <2> QED
    BY <1>1, <1>4, <2>1
<1>9. w = [i \in 0 .. N |-> w[i]]
  <2> HIDE DEF w
  <2> QED
    BY <1>7
<1>10. \A i \in 0 .. N : w[i] \in Places
  <2> DEFINE S == {i \in 0 .. N : w[i] \in Places}
  <2> HIDE DEF w
  <2>1. 0 \in S
    BY <1>1, <1>8, PlacesAre
  <2>2. \A i \in 1 .. N : i - 1 \in S => i \in S
    BY <1>4, <1>8, DownIsPlace
  <2>3. \A i \in 0 .. N : i \in S
    <3> HIDE DEF S
    <3> QED
      BY <1>1, <2>1, <2>2, UpTo
  <2> QED
    BY <2>3
<1>11. PlaceOf(k) = w[N]
  BY DEF PlaceOf, N
<1>12. Path(w, k)
  <2> HIDE DEF w
  <2> QED
    BY <1>8, <1>9, <1>10 DEF Path
<1> HIDE DEF w
<1> QED
  BY <1>11, <1>12

\* Key k belongs at place p: if a node has it, it is there or below, and seen from each
\* node above p the key is on the side of p.
FitsAt(u, p, k) ==
    /\ p \in Places /\ At(tree, p) \in allocated \cup {Nil}
    /\ \A m \in allocated : key[m] = k => m \in Part(u, At(tree, p))
    /\ p[1] # "root" =>
         /\ p[2] \in allocated
         /\ (p[1] = "left" /\ k < key[p[2]]) \/ (p[1] = "right" /\ k > key[p[2]])
         /\ \A m \in allocated : p[2] \in u[m] /\ m # p[2] =>
              \/ key[p[2]] < key[m] /\ k < key[m]
              \/ key[p[2]] > key[m] /\ k > key[m]

\* What is below a place.
Under(u, p) == Part(u, At(tree, p))

LEMMA UnderIs ==
  ASSUME NEW u, Now(u), NEW p, At(tree, p) \in allocated \cup {Nil}
  PROVE  Under(u, p) \subseteq allocated /\ (At(tree, p) # Nil => At(tree, p) \in Under(u, p))
BY DEF Now, Sorted, Hangs, Under, Part

\* One turn goes down to where the key belongs.
LEMMA DownFits ==
  ASSUME NEW u, Now(u), NEW k \in Int, NEW p, FitsAt(u, p, k),
         At(tree, p) # Nil, key[At(tree, p)] # k
  PROVE  /\ FitsAt(u, Down(k, p), k)
         /\ Under(u, Down(k, p)) \subseteq Under(u, p) \ {At(tree, p)}
<1> DEFINE n == At(tree, p)
<1>1. n \in allocated /\ n \in Nodes /\ key[n] \in Int /\ \A m \in allocated : key[m] \in Int
  BY NowIs DEF FitsAt
<1>2. \A m \in allocated : n \in u[m] /\ m # n =>
        \/ key[n] < key[m] /\ k < key[m]
        \/ key[n] > key[m] /\ k > key[m]
  <2> SUFFICES ASSUME NEW m \in allocated, n \in u[m], m # n
               PROVE  \/ key[n] < key[m] /\ k < key[m]
                      \/ key[n] > key[m] /\ k > key[m]
    OBVIOUS
  <2>1. CASE p = Root
    <3>1. root = n /\ u[n] = allocated
      BY <1>1, <2>1, AtIs, NowIs, NilIsNone DEF Now, Sorted, Part
    <3> QED
      BY <1>1, <3>1, Antisymmetric DEF Now
  <2>2. ASSUME NEW q \in allocated, p = Left(q) \/ p = Right(q), p[2] = q, p[1] # "root"
        PROVE  \/ key[n] < key[m] /\ k < key[m]
               \/ key[n] > key[m] /\ k > key[m]
    <3>1. n = left[q] \/ n = right[q]
      BY <2>2, AtIs, NowIs
    <3>2. q \in u[m] /\ n \in u[q] /\ n # q
      BY <1>1, <3>1, ParentIsBelow, NowIs DEF Now
    <3>3. m = q \/ \/ key[q] < key[m] /\ k < key[m]
                   \/ key[q] > key[m] /\ k > key[m]
      BY <2>2, <3>2 DEF FitsAt
    <3>4. CASE m = q
      <4>1. CASE p = Left(q)
        <5>1. n \in Part(u, left[q]) /\ k < key[q]
          <6>1. n = left[q] /\ p[1] = "left" /\ n # Nil /\ n \in u[n]
            <7>1. n = left[q]
              BY <4>1, AtIs, NowIs
            <7>2. p[1] = "left"
              BY <4>1 DEF Left
            <7>3. n # Nil /\ n \in u[n]
              BY <1>1, NilIsNone DEF Now, Sorted, Hangs
            <7> QED
              BY <7>1, <7>2, <7>3
          <6>2. k < key[q]
            BY <6>1, <2>2 DEF FitsAt
          <6> QED
            BY <6>1, <6>2 DEF Part
        <5>2. key[n] < key[q]
          BY <5>1, NowIs DEF Now, Sorted, Hangs
        <5> QED
          BY <3>4, <5>1, <5>2
      <4>2. CASE p = Right(q)
        <5>1. n \in Part(u, right[q]) /\ k > key[q]
          <6>1. n = right[q] /\ p[1] = "right" /\ n # Nil /\ n \in u[n]
            <7>1. n = right[q]
              BY <4>2, AtIs, NowIs
            <7>2. p[1] = "right"
              BY <4>2 DEF Right
            <7>3. n # Nil /\ n \in u[n]
              BY <1>1, NilIsNone DEF Now, Sorted, Hangs
            <7> QED
              BY <7>1, <7>2, <7>3
          <6>2. k > key[q]
            BY <6>1, <2>2 DEF FitsAt
          <6> QED
            BY <6>1, <6>2 DEF Part
        <5>2. key[n] > key[q]
          BY <5>1, NowIs DEF Now, Sorted, Hangs
        <5> QED
          BY <3>4, <5>1, <5>2
      <4> QED
        BY <2>2, <4>1, <4>2
    <3>5. CASE m # q /\ key[q] < key[m] /\ k < key[m]
      <4>1. q \in Part(u, left[m]) /\ left[m] \in allocated \cup {Nil}
        BY <3>2, <3>5, NowIs DEF Now, Sorted, Hangs
      <4>2. left[m] \in allocated /\ q \in u[left[m]] /\ u[left[m]] = {z \in u[m] : key[z] < key[m]}
        BY <4>1, NilIsNone, NowIs DEF Part, Now, Sorted, Hangs
      <4>3. n \in u[left[m]]
        BY <4>2, <3>2 DEF Now, Sorted, Within
      <4> QED
        BY <3>5, <4>2, <4>3
    <3>6. CASE m # q /\ key[q] > key[m] /\ k > key[m]
      <4>1. q \in Part(u, right[m]) /\ right[m] \in allocated \cup {Nil}
        BY <3>2, <3>6, NowIs DEF Now, Sorted, Hangs
      <4>2. right[m] \in allocated /\ q \in u[right[m]] /\ u[right[m]] = {z \in u[m] : key[z] > key[m]}
        BY <4>1, NilIsNone, NowIs DEF Part, Now, Sorted, Hangs
      <4>3. n \in u[right[m]]
        BY <4>2, <3>2 DEF Now, Sorted, Within
      <4> QED
        BY <3>6, <4>2, <4>3
    <3> QED
      BY <3>3, <3>4, <3>5, <3>6
  <2> QED
    <3>1. p = Root \/ \E q \in Nodes : p = Left(q) \/ p = Right(q)
      BY PlacesAre DEF FitsAt
    <3>2. CASE p # Root
      <4>1. PICK q \in Nodes : p = Left(q) \/ p = Right(q)
        BY <3>1, <3>2
      <4>2. p[2] = q /\ p[1] # "root"
        BY <4>1 DEF Left, Right
      <4> QED
        BY <4>1, <4>2, <2>2 DEF FitsAt
    <3> QED
      BY <2>1, <3>2
<1>3. /\ Part(u, left[n]) = {m \in u[n] : key[m] < key[n]} /\ left[n] \in allocated \cup {Nil}
      /\ Part(u, right[n]) = {m \in u[n] : key[m] > key[n]} /\ right[n] \in allocated \cup {Nil}
      /\ Under(u, p) = u[n] /\ n # Nil
      /\ \A m \in allocated : key[m] = k => m \in u[n]
  BY <1>1, NowIs, NilIsNone DEF Now, Sorted, Hangs, Under, Part, FitsAt
<1>4. CASE k < key[n]
  <2>1. Down(k, p) = Left(n) /\ At(tree, Left(n)) = left[n] /\ Left(n)[1] = "left" /\ Left(n)[2] = n
        /\ Left(n) \in Places
    BY <1>1, <1>4, AtIs, NowIs, PlacesAre DEF Down, Left
  <2>2. Under(u, Left(n)) \subseteq u[n] \ {n}
    BY <1>1, <1>3, <2>1 DEF Under
  <2>3. \A m \in allocated : key[m] = k => m \in Part(u, left[n])
    BY <1>3, <1>4
  <2> QED
    BY <1>1, <1>2, <1>3, <1>4, <2>1, <2>2, <2>3 DEF FitsAt
<1>5. CASE k > key[n]
  <2>1. Down(k, p) = Right(n) /\ At(tree, Right(n)) = right[n] /\ Right(n)[1] = "right" /\ Right(n)[2] = n
        /\ Right(n) \in Places
    BY <1>1, <1>5, AtIs, NowIs, PlacesAre DEF Down, Right
  <2>2. Under(u, Right(n)) \subseteq u[n] \ {n}
    BY <1>1, <1>3, <2>1 DEF Under
  <2>3. \A m \in allocated : key[m] = k => m \in Part(u, right[n])
    BY <1>3, <1>5
  <2> QED
    BY <1>1, <1>2, <1>3, <1>5, <2>1, <2>2, <2>3 DEF FitsAt
<1> QED
  BY <1>1, <1>4, <1>5

\* The search ends at the node with the key, or at the place for it.
LEMMA PlaceIs ==
  ASSUME NEW u, Now(u), NEW k \in Int
  PROVE  FitsAt(u, PlaceOf(k), k) /\ (At(tree, PlaceOf(k)) = Nil \/ key[At(tree, PlaceOf(k))] = k)
<1> DEFINE Done(p) == At(tree, p) = Nil \/ key[At(tree, p)] = k
<1>1. PICK w : Path(w, k) /\ PlaceOf(k) = w[N]
  BY PlaceIsOnPath
<1> DEFINE S == {i \in 0 .. N : FitsAt(u, w[i], k) /\ (Done(w[i]) \/ Cardinality(Under(u, w[i])) <= N - i)}
<1>2. N \in Nat
  BY NodesCount
<1>3. \A p : At(tree, p) \in allocated \cup {Nil} =>
        IsFiniteSet(Under(u, p)) /\ Cardinality(Under(u, p)) \in Nat /\ Cardinality(Under(u, p)) <= N
  BY UnderIs, NodesCount, NowIs
<1>4. 0 \in S
  <2>1. w[0] = Root /\ Root[1] = "root" /\ At(tree, Root) = root /\ Root \in Places
    BY <1>1, AtIs, NowIs, PlacesAre DEF Path, Root
  <2>2. root \in allocated \cup {Nil} /\ Part(u, root) = allocated
    BY NowIs DEF Now, Sorted
  <2>3. FitsAt(u, Root, k)
    BY <2>1, <2>2 DEF FitsAt
  <2>4. Cardinality(Under(u, w[0])) <= N - 0
    BY <1>2, <1>3, <2>1, <2>2
  <2> QED
    BY <1>2, <2>1, <2>3, <2>4
<1>5. ASSUME NEW i \in 1 .. N, i - 1 \in S PROVE i \in S
  <2> DEFINE p == w[i - 1]
             p2 == w[i]
  <2>1. i \in 0 .. N /\ FitsAt(u, p, k) /\ (Done(p) \/ Cardinality(Under(u, p)) <= N - (i - 1))
        /\ p2 = Down(k, p)
    BY <1>1, <1>2, <1>5 DEF Path
  <2> HIDE DEF p, p2
  <2>2. CASE Done(p)
    <3>1. p2 = p
      BY <2>1, <2>2 DEF Down
    <3> QED
      BY <2>1, <2>2, <3>1 DEF p2
  <2>3. CASE ~ Done(p)
    <3>1. FitsAt(u, p2, k) /\ Under(u, p2) \subseteq Under(u, p) \ {At(tree, p)}
          /\ At(tree, p) \in Under(u, p)
      BY <2>1, <2>3, DownFits, UnderIs DEF FitsAt
    <3>2. /\ IsFiniteSet(Under(u, p)) /\ Cardinality(Under(u, p)) \in Nat
          /\ Cardinality(Under(u, p2)) \in Nat
      BY <1>3, <2>1, <3>1 DEF FitsAt
    <3>3. Cardinality(Under(u, p2)) <= Cardinality(Under(u, p))
          /\ Cardinality(Under(u, p2)) # Cardinality(Under(u, p))
      BY <3>1, <3>2, FS_Subset
    <3>4. Cardinality(Under(u, p2)) <= N - i
      BY <1>2, <2>1, <2>3, <3>2, <3>3
    <3> QED
      BY <2>1, <3>1, <3>4 DEF p2
  <2> QED
    BY <2>2, <2>3
<1>6. N \in S
  <2> HIDE DEF S
  <2>1. \A i \in 0 .. N : i \in S
    BY <1>2, <1>4, <1>5, UpTo
  <2> QED
    BY <1>2, <2>1
<1>7. CASE ~ Done(w[N])
  <2>1. At(tree, w[N]) \in Under(u, w[N]) /\ Cardinality(Under(u, w[N])) = 0
        /\ IsFiniteSet(Under(u, w[N]))
    BY <1>2, <1>3, <1>6, <1>7, UnderIs DEF FitsAt
  <2> QED
    BY <2>1, FS_EmptySet
<1> QED
  BY <1>1, <1>6, <1>7

\* What is below each node when n is new at the side of q.
Grown(u, q, n) == [m \in allocated \cup {n} |->
    IF m = n THEN {n} ELSE IF q \in u[m] THEN u[m] \cup {n} ELSE u[m]]

IsGrown(u, q, n, g) ==
    /\ g[n] = {n}
    /\ \A m \in allocated : g[m] = IF q \in u[m] THEN u[m] \cup {n} ELSE u[m]
    /\ \A c \in allocated \cup {Nil} :
         Part(g, c) = IF q \in Part(u, c) THEN Part(u, c) \cup {n} ELSE Part(u, c)
    /\ g \in [allocated \cup {n} -> SUBSET (allocated \cup {n})]

LEMMA GrownParts ==
  ASSUME NEW u, Now(u), NEW q \in allocated, NEW n \in Nodes \ allocated
  PROVE  IsGrown(u, q, n, Grown(u, q, n))
<1>1. \A m \in allocated : u[m] \subseteq allocated /\ m # n
  BY DEF Now, Sorted
<1>2. Nil \notin allocated /\ Nil # n
  BY NilIsNone, NowIs
<1> QED
  BY <1>1, <1>2 DEF Grown, Part, IsGrown

LEMMA GrownWithin ==
  ASSUME NEW u, Now(u), NEW q \in allocated, NEW n \in Nodes \ allocated
  PROVE  Within(allocated \cup {n}, Grown(u, q, n))
<1> DEFINE g == Grown(u, q, n)
<1> HIDE DEF g
<1>1. /\ g[n] = {n}
      /\ \A m \in allocated : g[m] = IF q \in u[m] THEN u[m] \cup {n} ELSE u[m]
  <2>1. IsGrown(u, q, n, g)
    BY GrownParts DEF g
  <2> QED
    BY <2>1 DEF IsGrown
<1>2. Within(allocated, u) /\ \A m \in allocated : u[m] \subseteq allocated /\ m # n
  BY DEF Now, Sorted
<1>3. ASSUME NEW m \in allocated \cup {n}, NEW z \in g[m] PROVE g[z] \subseteq g[m]
  <2>1. CASE m = n \/ z = n
    BY <1>1, <1>2, <1>3, <2>1
  <2>2. CASE m # n /\ z # n
    <3>1. m \in allocated /\ z \in u[m] /\ z \in allocated
      BY <1>1, <1>2, <1>3, <2>2
    <3>2. u[z] \subseteq u[m]
      BY <1>2, <3>1 DEF Within
    <3> QED
      BY <1>1, <3>1, <3>2
  <2> QED
    BY <2>1, <2>2
<1>4. ASSUME NEW m \in allocated \cup {n}, NEW o \in allocated \cup {n}, NEW z \in g[m] \cap g[o]
      PROVE  m \in g[o] \/ o \in g[m]
  <2>1. CASE m = n \/ o = n
    BY <1>1, <1>2, <1>4, <2>1
  <2>2. CASE m # n /\ o # n
    <3>1. m \in allocated /\ o \in allocated /\ u[m] \subseteq g[m] /\ u[o] \subseteq g[o]
      BY <1>1, <2>2
    <3>2. (z \in u[m] /\ z \in u[o]) \/ (q \in u[m] /\ q \in u[o])
      BY <1>1, <1>2, <1>4, <3>1
    <3>3. m \in u[o] \/ o \in u[m]
      BY <1>2, <3>1, <3>2 DEF Within
    <3> QED
      BY <3>1, <3>3
  <2> QED
    BY <2>1, <2>2
<1> QED
  BY <1>3, <1>4 DEF Within, g

LEMMA PutIs ==
  ASSUME NEW u, Now(u), NEW n, NEW q \in Nodes
  PROVE  /\ Put(tree, Root, n) = [root |-> n, left |-> left, right |-> right]
         /\ Put(tree, Left(q), n) = [root |-> root, left |-> [left EXCEPT ![q] = n], right |-> right]
         /\ Put(tree, Right(q), n) = [root |-> root, left |-> left, right |-> [right EXCEPT ![q] = n]]
BY DEF Put, tree, Root, Left, Right

\* A new node keeps the order.
LEMMA GrownHangs ==
  ASSUME NEW u, Now(u), NEW k \in Int, NEW p, FitsAt(u, p, k), At(tree, p) = Nil,
         NEW q \in allocated, p = Left(q) \/ p = Right(q), NEW n \in Nodes \ allocated
  PROVE  Hangs(Put(tree, p, n), Keyed(n, k), allocated \cup {n}, Grown(u, q, n))
<1> DEFINE g == Grown(u, q, n)
           t == Put(tree, p, n)
           ks == Keyed(n, k)
<1>1. /\ g[n] = {n}
      /\ \A m \in allocated : g[m] = IF q \in u[m] THEN u[m] \cup {n} ELSE u[m]
      /\ \A c \in allocated \cup {Nil} : Part(g, c) =
              IF q \in Part(u, c) THEN Part(u, c) \cup {n} ELSE Part(u, c)
  <2>1. IsGrown(u, q, n, g)
    BY GrownParts
  <2> HIDE DEF g
  <2> QED
    BY <2>1 DEF IsGrown
<1>2. /\ ks[n] = k /\ \A m \in allocated : m # n /\ ks[m] = key[m] /\ key[m] \in Int
  BY NowIs DEF Keyed
<1>3. n # Nil /\ Part(g, n) = {n} /\ Part(g, Nil) = {}
  BY <1>1, NilIsNone DEF Part
<1>4. /\ t.left = IF p = Left(q) THEN [left EXCEPT ![q] = n] ELSE left
      /\ t.right = IF p = Right(q) THEN [right EXCEPT ![q] = n] ELSE right
      /\ Left(q) # Right(q) /\ q \in Nodes /\ q # n
  <2>1. q \in Nodes /\ q # n /\ Left(q) # Right(q)
    BY NowIs DEF Left, Right
  <2>2. CASE p = Left(q)
    BY <2>1, <2>2, PutIs
  <2>3. CASE p = Right(q)
    BY <2>1, <2>3, PutIs
  <2> QED
    BY <2>1, <2>2, <2>3
<1>5. /\ p = Left(q) => left[q] = Nil /\ k < key[q]
      /\ p = Right(q) => right[q] = Nil /\ k > key[q]
      /\ \A m \in allocated : q \in u[m] /\ m # q =>
              \/ key[q] < key[m] /\ k < key[m]
              \/ key[q] > key[m] /\ k > key[m]
  <2>1. p[2] = q /\ p[1] # "root" /\ (p[1] = "left" <=> p = Left(q)) /\ (p[1] = "right" <=> p = Right(q))
    BY DEF Left, Right
  <2>2. (p = Left(q) => left[q] = Nil) /\ (p = Right(q) => right[q] = Nil)
    BY AtIs, NowIs
  <2> QED
    BY <2>1, <2>2 DEF FitsAt
<1>6. \A m \in allocated :
        /\ m \in u[m] /\ u[m] \subseteq allocated
        /\ left[m] \in allocated \cup {Nil} /\ right[m] \in allocated \cup {Nil}
        /\ Part(u, left[m]) = {z \in u[m] : key[z] < key[m]}
        /\ Part(u, right[m]) = {z \in u[m] : key[z] > key[m]}
  BY NowIs DEF Now, Sorted, Hangs
<1>7. left[n] = Nil /\ right[n] = Nil /\ left \in [Nodes -> Nodes \cup {Nil}] /\ right \in [Nodes -> Nodes \cup {Nil}]
  BY NowIs DEF Now, Sorted
<1> HIDE DEF g, t, ks
<1>8. ASSUME NEW m \in allocated
      PROVE  /\ m \in g[m]
             /\ t.left[m] \in allocated \cup {n, Nil} /\ t.right[m] \in allocated \cup {n, Nil}
             /\ Part(g, t.left[m]) = {z \in g[m] : ks[z] < ks[m]}
             /\ Part(g, t.right[m]) = {z \in g[m] : ks[z] > ks[m]}
  <2>1. \A z \in u[m] : ks[z] = key[z] /\ key[z] \in Int
    BY <1>2, <1>6
  <2>2. {z \in u[m] : ks[z] < ks[m]} = Part(u, left[m]) /\ {z \in u[m] : ks[z] > ks[m]} = Part(u, right[m])
    BY <1>2, <1>6, <2>1
  <2>3. CASE q \notin u[m]
    <3>1. m # q /\ t.left[m] = left[m] /\ t.right[m] = right[m] /\ g[m] = u[m]
      BY <1>1, <1>4, <1>6, <1>7, <2>3, NowIs
    <3>2. Part(g, left[m]) = Part(u, left[m]) /\ Part(g, right[m]) = Part(u, right[m])
      BY <1>1, <1>6, <2>3
    <3> QED
      BY <1>6, <2>2, <3>1, <3>2
  <2>4. CASE q \in u[m] /\ m # q
    <3>1. t.left[m] = left[m] /\ t.right[m] = right[m] /\ g[m] = u[m] \cup {n}
      BY <1>1, <1>4, <1>7, <2>4, NowIs
    <3>2. Part(g, left[m]) = (IF key[q] < key[m] THEN Part(u, left[m]) \cup {n} ELSE Part(u, left[m]))
      BY <1>1, <1>6, <2>4
    <3>3. Part(g, right[m]) = (IF key[q] > key[m] THEN Part(u, right[m]) \cup {n} ELSE Part(u, right[m]))
      BY <1>1, <1>6, <2>4
    <3>4. (k < key[m] <=> key[q] < key[m]) /\ (k > key[m] <=> key[q] > key[m])
      BY <1>2, <1>5, <2>4
    <3>5. {z \in g[m] : ks[z] < ks[m]} = (IF key[q] < key[m] THEN Part(u, left[m]) \cup {n} ELSE Part(u, left[m]))
      BY <1>2, <2>2, <3>1, <3>4
    <3>6. {z \in g[m] : ks[z] > ks[m]} = (IF key[q] > key[m] THEN Part(u, right[m]) \cup {n} ELSE Part(u, right[m]))
      BY <1>2, <2>2, <3>1, <3>4
    <3> QED
      BY <1>6, <3>1, <3>2, <3>3, <3>5, <3>6
  <2>5. CASE m = q
    <3>1. g[m] = u[m] \cup {n} /\ q \in u[m]
      BY <1>1, <1>6, <2>5
    <3>2. Part(g, left[m]) = Part(u, left[m]) /\ Part(g, right[m]) = Part(u, right[m])
      BY <1>1, <1>2, <1>6, <2>5
    <3>3. CASE p = Left(q)
      <4>1. t.left[m] = n /\ t.right[m] = right[m]
        BY <1>4, <1>7, <2>5, <3>3
      <4>2. Part(u, left[m]) = {} /\ k < key[m]
        BY <1>5, <2>5, <3>3 DEF Part
      <4>3. {z \in g[m] : ks[z] < ks[m]} = {n} /\ {z \in g[m] : ks[z] > ks[m]} = Part(u, right[m])
        BY <1>2, <2>2, <3>1, <4>2
      <4> QED
        BY <1>3, <1>6, <3>1, <3>2, <4>1, <4>3
    <3>4. CASE p = Right(q)
      <4>1. t.left[m] = left[m] /\ t.right[m] = n
        BY <1>4, <1>7, <2>5, <3>4
      <4>2. Part(u, right[m]) = {} /\ k > key[m]
        BY <1>5, <2>5, <3>4 DEF Part
      <4>3. {z \in g[m] : ks[z] > ks[m]} = {n} /\ {z \in g[m] : ks[z] < ks[m]} = Part(u, left[m])
        BY <1>2, <2>2, <3>1, <4>2
      <4> QED
        BY <1>3, <1>6, <3>1, <3>2, <4>1, <4>3
    <3> QED
      BY <3>3, <3>4
  <2> QED
    BY <2>3, <2>4, <2>5
<1>9. /\ n \in g[n] /\ t.left[n] = Nil /\ t.right[n] = Nil
      /\ Part(g, t.left[n]) = {z \in g[n] : ks[z] < ks[n]}
      /\ Part(g, t.right[n]) = {z \in g[n] : ks[z] > ks[n]}
  <2>1. t.left[n] = Nil /\ t.right[n] = Nil
    BY <1>4, <1>7
  <2> QED
    BY <1>1, <1>2, <1>3, <2>1
<1> QED
  BY <1>8, <1>9 DEF Hangs, g, t, ks

LEMMA GrownIsSorted ==
  ASSUME NEW u, Now(u), NEW k \in Int, NEW p, FitsAt(u, p, k), At(tree, p) = Nil,
         NEW n \in Nodes \ allocated
  PROVE  \E g : Sorted(Put(tree, p, n), Keyed(n, k), allocated \cup {n}, g)
<1>1. /\ Keyed(n, k) \in [Nodes -> Int] /\ allocated \cup {n} \subseteq Nodes
      /\ \A m, o \in allocated \cup {n} : Keyed(n, k)[m] = Keyed(n, k)[o] => m = o
  <2>1. \A m \in allocated : key[m] # k
    BY DEF FitsAt, Part
  <2>2. Keyed(n, k)[n] = k /\ \A m \in allocated : Keyed(n, k)[m] = key[m] /\ m # n
    BY NowIs DEF Keyed
  <2>3. \A m, o \in allocated : key[m] = key[o] => m = o
    BY DEF Now, Sorted
  <2>4. Keyed(n, k) \in [Nodes -> Int] /\ allocated \cup {n} \subseteq Nodes
    BY NowIs DEF Keyed
  <2> QED
    BY <2>1, <2>2, <2>3, <2>4
<1>2. \A m \in Nodes \ allocated : left[m] = Nil /\ right[m] = Nil
  BY NowIs DEF Now, Sorted
<1>3. CASE p = Root
  <2>1. root = Nil /\ allocated = {}
    BY <1>3, AtIs, NowIs DEF Now, Sorted, Part
  <2> DEFINE g == [m \in {n} |-> {n}]
             t == Put(tree, p, n)
  <2>2. t = [root |-> n, left |-> left, right |-> right] /\ n # Nil /\ n \in Nodes
    BY <1>3, PutIs, NilIsNone
  <2>3. t.root = n /\ t.left = left /\ t.right = right /\ t = [root |-> t.root, left |-> t.left, right |-> t.right]
    BY <2>2
  <2>4. Part(g, n) = {n} /\ g[n] = {n} /\ Part(g, Nil) = {} /\ left[n] = Nil /\ right[n] = Nil
    BY <1>2, <2>1, <2>2 DEF Part
  <2>5. Keyed(n, k)[n] \in Int
    BY <1>1
  <2>6. Hangs(t, Keyed(n, k), {n}, g) /\ Within({n}, g)
    <3> HIDE DEF t
    <3> QED
      BY <2>3, <2>4, <2>5 DEF Hangs, Within
  <2>7. g \in [{n} -> SUBSET {n}] /\ allocated \cup {n} = {n}
    BY <2>1
  <2> HIDE DEF g, t
  <2>8. Sorted(t, Keyed(n, k), {n}, g)
    BY <1>1, <1>2, <2>1, <2>2, <2>3, <2>4, <2>6, <2>7, NowIs DEF Sorted
  <2> QED
    BY <2>7, <2>8 DEF t
<1>4. ASSUME NEW q \in allocated, p = Left(q) \/ p = Right(q)
      PROVE  Sorted(Put(tree, p, n), Keyed(n, k), allocated \cup {n}, Grown(u, q, n))
  <2> DEFINE t == Put(tree, p, n)
             g == Grown(u, q, n)
             a == allocated \cup {n}
             ks == Keyed(n, k)
  <2>1. /\ t = [root |-> t.root, left |-> t.left, right |-> t.right] /\ t.root = root
        /\ t.left \in [Nodes -> Nodes \cup {Nil}] /\ t.right \in [Nodes -> Nodes \cup {Nil}]
        /\ \A m \in Nodes \ a : t.left[m] = left[m] /\ t.right[m] = right[m]
    <3>1. q \in Nodes /\ left \in [Nodes -> Nodes \cup {Nil}] /\ right \in [Nodes -> Nodes \cup {Nil}]
      BY NowIs
    <3>2. CASE p = Left(q)
      <4>1. t = [root |-> root, left |-> [left EXCEPT ![q] = n], right |-> right]
        BY <3>1, <3>2, PutIs
      <4> HIDE DEF t
      <4>2. t.root = root /\ t.left = [left EXCEPT ![q] = n] /\ t.right = right
        BY <4>1
      <4> QED
        BY <3>1, <4>1, <4>2
    <3>3. CASE p = Right(q)
      <4>1. t = [root |-> root, left |-> left, right |-> [right EXCEPT ![q] = n]]
        BY <3>1, <3>3, PutIs
      <4> HIDE DEF t
      <4>2. t.root = root /\ t.left = left /\ t.right = [right EXCEPT ![q] = n]
        BY <4>1
      <4> QED
        BY <3>1, <4>1, <4>2
    <3> QED
      BY <1>4, <3>2, <3>3
  <2>2. Hangs(t, ks, a, g) /\ Within(a, g) /\ IsGrown(u, q, n, g)
    BY <1>4, GrownHangs, GrownWithin, GrownParts
  <2>3. root \in allocated /\ root # Nil /\ u[root] = allocated
    BY NowIs, <1>4 DEF Now, Sorted, Part
  <2> HIDE DEF t, g, ks
  <2>4. Part(g, root) = a /\ g \in [a -> SUBSET a]
    BY <1>4, <2>2, <2>3 DEF Part, IsGrown
  <2> HIDE DEF a
  <2>5. t.root \in a \cup {Nil} /\ Part(g, t.root) = a
    BY <2>1, <2>3, <2>4 DEF a
  <2>6. /\ ks \in [Nodes -> Int] /\ a \subseteq Nodes /\ \A m, o \in a : ks[m] = ks[o] => m = o
    BY <1>1 DEF ks, a
  <2>7. \A m \in Nodes \ a : t.left[m] = Nil /\ t.right[m] = Nil
    BY <1>2, <2>1 DEF a
  <2>8. Sorted(t, ks, a, g)
    BY <2>1, <2>2, <2>4, <2>5, <2>6, <2>7 DEF Sorted
  <2> QED
    BY <2>8 DEF t, g, a, ks
<1>5. p = Root \/ \E q \in allocated : p = Left(q) \/ p = Right(q)
  <2>1. p = Root \/ \E q \in Nodes : p = Left(q) \/ p = Right(q)
    BY PlacesAre DEF FitsAt
  <2>2. ASSUME NEW q \in Nodes, p = Left(q) \/ p = Right(q) PROVE q \in allocated
    <3>1. p[2] = q /\ p[1] # "root"
      BY <2>2 DEF Left, Right
    <3> QED
      BY <3>1 DEF FitsAt
  <2> QED
    BY <2>1, <2>2
<1> QED
  BY <1>3, <1>4, <1>5

-----------------------------------------------------------------------------
(* The removal                                                              *)

\* A node hangs at one place.
LEMMA OnlyPlace ==
  ASSUME NEW u, Now(u), NEW x \in allocated, NEW p \in Places, At(tree, p) = x,
         p[1] # "root" => p[2] \in allocated
  PROVE  /\ root = x <=> p = Root
         /\ \A m \in allocated : (left[m] = x <=> p = Left(m)) /\ (right[m] = x <=> p = Right(m))
<1>1. x # Nil /\ x \in Nodes /\ allocated \subseteq Nodes /\ x \in u[x]
  BY NowIs, NilIsNone DEF Now, Sorted, Hangs
<1>2. ASSUME NEW m \in allocated, x = left[m] \/ x = right[m] PROVE x \in u[m] /\ x # m
  <2>1. \A z \in allocated : key[z] \in Int
    BY NowIs
  <2>2. /\ Part(u, left[m]) = {z \in u[m] : key[z] < key[m]}
        /\ Part(u, right[m]) = {z \in u[m] : key[z] > key[m]}
    BY NowIs DEF Now, Sorted, Hangs
  <2> QED
    BY <1>1, <1>2, <2>1, <2>2 DEF Part
<1>3. ASSUME NEW m \in allocated, x = left[m] \/ x = right[m],
             NEW q \in allocated, x = left[q] \/ x = right[q]
      PROVE  m = q
  <2>1. m \in u[q] /\ q \in u[m]
    BY <1>2, <1>3, ParentIsBelow, NowIs DEF Now
  <2> QED
    BY <2>1, Antisymmetric DEF Now
<1>4. ASSUME NEW m \in allocated, x = left[m], x = right[m] PROVE FALSE
  <2>1. \A z \in allocated : key[z] \in Int
    BY NowIs
  <2>2. /\ Part(u, left[m]) = {z \in u[m] : key[z] < key[m]}
        /\ Part(u, right[m]) = {z \in u[m] : key[z] > key[m]}
    BY NowIs DEF Now, Sorted, Hangs
  <2> QED
    BY <1>1, <1>4, <2>1, <2>2 DEF Part
<1>5. ASSUME NEW m \in allocated, x = left[m] \/ x = right[m], root = x PROVE FALSE
  <2>1. u[x] = allocated
    BY <1>1, <1>5, NowIs DEF Now, Sorted, Part
  <2>2. m \in u[x] /\ x \in u[m] /\ m # x
    BY <1>2, <1>5, <2>1
  <2> QED
    BY <2>2, Antisymmetric DEF Now
<1>6. p = Root \/ \E q \in allocated : p = Left(q) \/ p = Right(q)
  <2>1. p = Root \/ \E q \in Nodes : p = Left(q) \/ p = Right(q)
    BY PlacesAre
  <2>2. ASSUME NEW q \in Nodes, p = Left(q) \/ p = Right(q) PROVE q \in allocated
    <3>1. p[2] = q /\ p[1] # "root"
      BY <2>2 DEF Left, Right
    <3> QED
      BY <3>1
  <2> QED
    BY <2>1, <2>2
<1>7. /\ \A q, m : Left(q) = Left(m) => q = m
      /\ \A q, m : Right(q) = Right(m) => q = m
      /\ \A q, m : Left(q) # Right(m) /\ Left(q) # Root /\ Right(q) # Root
  BY DEF Left, Right, Root
<1>8. CASE p = Root
  <2>1. root = x
    BY <1>8, AtIs, NowIs
  <2> QED
    BY <1>5, <1>7, <1>8, <2>1
<1>9. ASSUME NEW q \in allocated, p = Left(q)
      PROVE  /\ root = x <=> p = Root
             /\ \A m \in allocated : (left[m] = x <=> p = Left(m)) /\ (right[m] = x <=> p = Right(m))
  <2>1. left[q] = x
    BY <1>9, AtIs, NowIs
  <2> QED
    BY <1>3, <1>4, <1>5, <1>7, <1>9, <2>1
<1>10. ASSUME NEW q \in allocated, p = Right(q)
      PROVE  /\ root = x <=> p = Root
             /\ \A m \in allocated : (left[m] = x <=> p = Left(m)) /\ (right[m] = x <=> p = Right(m))
  <2>1. right[q] = x
    BY <1>10, AtIs, NowIs
  <2> QED
    BY <1>3, <1>4, <1>5, <1>7, <1>10, <2>1
<1> QED
  BY <1>6, <1>8, <1>9, <1>10

Kids == [Nodes -> Nodes \cup {Nil}]

\* In t, y stands where x did, and x has nothing below it; else t has the branches l and r.
Stands(t, l, r, x, y) ==
    /\ t = [root |-> t.root, left |-> t.left, right |-> t.right]
    /\ t.left \in Kids /\ t.right \in Kids
    /\ t.root = IF root = x THEN y ELSE root
    /\ t.left[x] = Nil /\ t.right[x] = Nil
    /\ \A m \in allocated \ {x} :
         /\ t.left[m] = IF left[m] = x THEN y ELSE l[m]
         /\ t.right[m] = IF right[m] = x THEN y ELSE r[m]
    /\ \A m \in Nodes \ allocated : t.left[m] = l[m] /\ t.right[m] = r[m]

LEMMA ClearedIs ==
  ASSUME NEW a, NEW b, NEW c, NEW x
  PROVE  Cleared([root |-> a, left |-> b, right |-> c], x) =
           [root |-> a, left |-> [b EXCEPT ![x] = Nil], right |-> [c EXCEPT ![x] = Nil]]
BY DEF Cleared

LEMMA PutStands ==
  ASSUME NEW u, Now(u), NEW x \in allocated, NEW p \in Places, At(tree, p) = x,
         p[1] # "root" => p[2] \in allocated,
         NEW l \in Kids, NEW r \in Kids, NEW y \in Nodes \cup {Nil},
         NEW t1, t1 = [root |-> root, left |-> l, right |-> r]
  PROVE  Stands(Cleared(Put(t1, p, y), x), l, r, x, y)
<1> DEFINE t2 == Put(t1, p, y)
           t3 == Cleared(t2, x)
           full == [root |-> IF p = Root THEN y ELSE root,
                    left |-> [m \in Nodes |-> IF p = Left(m) THEN y ELSE l[m]],
                    right |-> [m \in Nodes |-> IF p = Right(m) THEN y ELSE r[m]]]
<1>1. /\ root = x <=> p = Root
      /\ \A m \in allocated : (left[m] = x <=> p = Left(m)) /\ (right[m] = x <=> p = Right(m))
  BY OnlyPlace
<1>2. x \in Nodes /\ allocated \subseteq Nodes
  BY NowIs
<1>3. t2 = full
  <2>1. /\ \A q, m : Left(q) = Left(m) <=> q = m
        /\ \A q, m : Right(q) = Right(m) <=> q = m
        /\ \A q, m : Left(q) # Right(m) /\ Left(q) # Root /\ Right(q) # Root
    BY DEF Left, Right, Root
  <2>2. /\ \A q : Left(q)[1] = "left" /\ Left(q)[2] = q
        /\ \A q : Right(q)[1] = "right" /\ Right(q)[2] = q
        /\ Root[1] = "root"
    BY DEF Left, Right, Root
  <2>3. l = [m \in Nodes |-> l[m]] /\ r = [m \in Nodes |-> r[m]]
    BY DEF Kids
  <2>4. CASE p = Root
    <3>1. t2 = [root |-> y, left |-> l, right |-> r]
      BY <2>2, <2>4 DEF Put
    <3> HIDE DEF t2
    <3>2. [m \in Nodes |-> IF p = Left(m) THEN y ELSE l[m]] = l
          /\ [m \in Nodes |-> IF p = Right(m) THEN y ELSE r[m]] = r
      BY <2>1, <2>3, <2>4
    <3> QED
      BY <2>4, <3>1, <3>2
  <2>5. ASSUME NEW q \in Nodes, p = Left(q) PROVE t2 = full
    <3>1. t2 = [root |-> root, left |-> [l EXCEPT ![q] = y], right |-> r]
      BY <2>2, <2>5 DEF Put
    <3> HIDE DEF t2
    <3>2. [m \in Nodes |-> IF p = Left(m) THEN y ELSE l[m]] = [l EXCEPT ![q] = y]
          /\ [m \in Nodes |-> IF p = Right(m) THEN y ELSE r[m]] = r
      BY <2>1, <2>3, <2>5
    <3>3. p # Root
      BY <2>1, <2>5
    <3> QED
      BY <3>1, <3>2, <3>3
  <2>6. ASSUME NEW q \in Nodes, p = Right(q) PROVE t2 = full
    <3>1. t2 = [root |-> root, left |-> l, right |-> [r EXCEPT ![q] = y]]
      BY <2>2, <2>6 DEF Put
    <3> HIDE DEF t2
    <3>2. [m \in Nodes |-> IF p = Right(m) THEN y ELSE r[m]] = [r EXCEPT ![q] = y]
          /\ [m \in Nodes |-> IF p = Left(m) THEN y ELSE l[m]] = l
      BY <2>1, <2>3, <2>6
    <3>3. p # Root
      BY <2>1, <2>6
    <3> QED
      BY <3>1, <3>2, <3>3
  <2> QED
    BY <2>4, <2>5, <2>6, PlacesAre
<1> HIDE DEF t2
<1>4. t3 = [root |-> t2.root, left |-> [t2.left EXCEPT ![x] = Nil], right |-> [t2.right EXCEPT ![x] = Nil]]
  <2>1. PICK a, b, c : t2 = [root |-> a, left |-> b, right |-> c]
    BY <1>3
  <2>2. t2.root = a /\ t2.left = b /\ t2.right = c
    BY <2>1
  <2> QED
    BY <2>1, <2>2, ClearedIs
<1> HIDE DEF t3
<1>5. /\ t3.root = IF p = Root THEN y ELSE root
      /\ t3.left \in Kids /\ t3.right \in Kids
      /\ t3 = [root |-> t3.root, left |-> t3.left, right |-> t3.right]
      /\ t3.left[x] = Nil /\ t3.right[x] = Nil
      /\ \A m \in Nodes \ {x} : /\ t3.left[m] = IF p = Left(m) THEN y ELSE l[m]
                                /\ t3.right[m] = IF p = Right(m) THEN y ELSE r[m]
  <2>1. /\ t2.root = IF p = Root THEN y ELSE root
        /\ t2.left = [m \in Nodes |-> IF p = Left(m) THEN y ELSE l[m]]
        /\ t2.right = [m \in Nodes |-> IF p = Right(m) THEN y ELSE r[m]]
    BY <1>3
  <2>2. /\ t3.root = t2.root /\ t3.left = [t2.left EXCEPT ![x] = Nil]
        /\ t3.right = [t2.right EXCEPT ![x] = Nil]
    BY <1>4
  <2>3. t3 = [root |-> t3.root, left |-> t3.left, right |-> t3.right]
    BY <1>4, <2>2
  <2>4. t3.left \in Kids /\ t3.right \in Kids
    BY <1>2, <2>1, <2>2 DEF Kids
  <2> QED
    BY <1>2, <2>1, <2>2, <2>3, <2>4
<1>6. \A m \in Nodes \ allocated : p # Left(m) /\ p # Right(m)
  BY DEF Left, Right
<1> QED
  BY <1>1, <1>2, <1>5, <1>6 DEF Stands, t3, t2

\* The keys and nodes once x is gone.
Forgot(x) == [key EXCEPT ![x] = 0]

LEMMA ForgotIs ==
  ASSUME NEW u, Now(u), NEW x \in allocated
  PROVE  /\ Forgot(x) \in [Nodes -> Int] /\ allocated \ {x} \subseteq Nodes
         /\ \A m \in allocated \ {x} : Forgot(x)[m] = key[m] /\ key[m] \in Int
         /\ \A m, n \in allocated \ {x} : Forgot(x)[m] = Forgot(x)[n] => m = n
BY NowIs DEF Forgot, Now, Sorted

\* The facts about a node that the removal is argued from.
Branches(u, m) ==
    /\ m \in u[m] /\ u[m] \subseteq allocated /\ m \in Nodes /\ m # Nil
    /\ left[m] \in allocated \cup {Nil} /\ right[m] \in allocated \cup {Nil}
    /\ Part(u, left[m]) = {z \in u[m] : key[z] < key[m]}
    /\ Part(u, right[m]) = {z \in u[m] : key[z] > key[m]}

LEMMA BranchesAre ==
  ASSUME NEW u, Now(u), NEW m \in allocated
  PROVE  Branches(u, m)
BY NowIs, NilIsNone DEF Now, Sorted, Hangs, Branches

\* A node is left of another, right of it, or the same.
LEMMA Sides ==
  ASSUME NEW u, Now(u), NEW m \in allocated
  PROVE  u[m] = Part(u, left[m]) \cup {m} \cup Part(u, right[m])
<1>1. Branches(u, m) /\ \A z \in allocated : key[z] \in Int /\ (key[z] = key[m] => z = m)
  BY BranchesAre, NowIs DEF Now, Sorted
<1> QED
  BY <1>1 DEF Branches

\* D1: x, with a branch at most, is replaced by it.
LEMMA ReplacedKeeps ==
  ASSUME NEW u, Now(u), NEW x \in allocated, NEW y,
         (y = left[x] /\ right[x] = Nil) \/ (y = right[x] /\ left[x] = Nil),
         NEW t, Stands(t, left, right, x, y)
  PROVE  \E g : Sorted(t, Forgot(x), allocated \ {x}, g)
<1> DEFINE a == allocated \ {x}
           ks == Forgot(x)
           g == [m \in a |-> u[m] \ {x}]
<1>1. y \in a \cup {Nil} /\ Part(u, y) = u[x] \ {x} /\ x \in u[x]
  <2>1. Branches(u, x) /\ u[x] = Part(u, left[x]) \cup {x} \cup Part(u, right[x])
    BY BranchesAre, Sides
  <2>2. x \notin Part(u, left[x]) /\ x \notin Part(u, right[x]) /\ Part(u, Nil) = {}
    BY <2>1, NowIs DEF Branches, Part
  <2>3. y \in allocated \cup {Nil} /\ Part(u, y) = u[x] \ {x} /\ x \in u[x]
    BY <2>1, <2>2 DEF Branches
  <2>4. y # x
    BY <2>1, <2>3 DEF Branches, Part, Now, Sorted, Hangs
  <2> QED
    BY <2>3, <2>4
<1>2. \A m \in allocated : Branches(u, m)
  BY BranchesAre
<1>3. \A c \in a \cup {Nil} : Part(g, c) = Part(u, c) \ {x}
  BY <1>2 DEF Part, Branches
<1>4. g \in [a -> SUBSET a] /\ \A m \in a : g[m] = u[m] \ {x}
  BY <1>2 DEF Branches
<1>5. \A m \in a : ks[m] = key[m] /\ key[m] \in Int
  BY ForgotIs
<1> HIDE DEF g, ks
<1>6. ASSUME NEW m \in a
      PROVE  /\ m \in g[m] /\ t.left[m] \in a \cup {Nil} /\ t.right[m] \in a \cup {Nil}
             /\ Part(g, t.left[m]) = {z \in g[m] : ks[z] < ks[m]}
             /\ Part(g, t.right[m]) = {z \in g[m] : ks[z] > ks[m]}
  <2>1. Branches(u, m) /\ m # x /\ m \in allocated
    BY <1>2
  <2>2. g[m] = u[m] \ {x} /\ g[m] \subseteq a /\ \A z \in g[m] : ks[z] = key[z]
    BY <1>4, <1>5, <2>1 DEF Branches
  <2>3. /\ {z \in g[m] : ks[z] < ks[m]} = Part(u, left[m]) \ {x}
        /\ {z \in g[m] : ks[z] > ks[m]} = Part(u, right[m]) \ {x}
    BY <1>5, <2>1, <2>2 DEF Branches
  <2>4. /\ t.left[m] = IF left[m] = x THEN y ELSE left[m]
        /\ t.right[m] = IF right[m] = x THEN y ELSE right[m]
    BY <2>1 DEF Stands
  <2>5. Part(u, x) = u[x] /\ Part(g, y) = u[x] \ {x}
    BY <1>1, <1>2, <1>3 DEF Part, Branches
  <2>6. t.left[m] \in a \cup {Nil} /\ Part(g, t.left[m]) = Part(u, left[m]) \ {x}
    BY <1>1, <1>3, <2>1, <2>4, <2>5 DEF Branches
  <2>7. t.right[m] \in a \cup {Nil} /\ Part(g, t.right[m]) = Part(u, right[m]) \ {x}
    BY <1>1, <1>3, <2>1, <2>4, <2>5 DEF Branches
  <2> QED
    BY <2>1, <2>2, <2>3, <2>6, <2>7 DEF Branches
<1>7. Within(a, g)
  <2>1. Within(allocated, u)
    BY DEF Now, Sorted
  <2>2. ASSUME NEW m \in a, NEW z \in g[m] PROVE g[z] \subseteq g[m]
    BY <1>4, <2>1, <2>2 DEF Within
  <2>3. ASSUME NEW m \in a, NEW n \in a, NEW z \in g[m] \cap g[n] PROVE m \in g[n] \/ n \in g[m]
    BY <1>4, <2>1, <2>3 DEF Within
  <2> QED
    BY <2>2, <2>3 DEF Within
<1>8. t.root \in a \cup {Nil} /\ Part(g, t.root) = a
  <2>1. root \in allocated \cup {Nil} /\ Part(u, root) = allocated
    BY NowIs DEF Now, Sorted
  <2>2. t.root = IF root = x THEN y ELSE root
    BY DEF Stands
  <2>3. CASE root = x
    BY <1>1, <1>2, <1>3, <2>1, <2>2, <2>3 DEF Part, Branches
  <2>4. CASE root # x
    BY <1>3, <2>1, <2>2, <2>4
  <2> QED
    BY <2>3, <2>4
<1>9. \A m \in Nodes \ a : t.left[m] = Nil /\ t.right[m] = Nil
  <2>1. \A m \in Nodes \ allocated : left[m] = Nil /\ right[m] = Nil
    BY NowIs DEF Now, Sorted
  <2> QED
    BY <2>1 DEF Stands
<1>10. /\ t = [root |-> t.root, left |-> t.left, right |-> t.right]
       /\ t.left \in [Nodes -> Nodes \cup {Nil}] /\ t.right \in [Nodes -> Nodes \cup {Nil}]
  BY DEF Stands, Kids
<1>11. ks \in [Nodes -> Int] /\ a \subseteq Nodes /\ \A m, n \in a : ks[m] = ks[n] => m = n
  BY ForgotIs DEF ks
<1>12. Hangs(t, ks, a, g)
  BY <1>6 DEF Hangs
<1> HIDE DEF a
<1>13. Sorted(t, ks, a, g)
  BY <1>4, <1>7, <1>8, <1>9, <1>10, <1>11, <1>12 DEF Sorted
<1> QED
  BY <1>13 DEF a, ks

\* s is the first in the order of what is right of x, and has no left branch; l and r
\* are the branches once it has those of x and has left its place.
Spliced(u, x, s, l, r) ==
    /\ left[x] # Nil /\ right[x] # Nil /\ s \in u[right[x]] /\ left[s] = Nil
    /\ \A z \in u[right[x]] : z = s \/ key[z] > key[s]
    /\ l[s] = left[x] /\ r[s] = IF s = right[x] THEN right[s] ELSE right[x]
    /\ \A m \in Nodes \ {s} : r[m] = right[m]
    /\ \A m \in allocated \ {s, x} : l[m] = IF left[m] = s THEN right[s] ELSE left[m]
    /\ \A m \in Nodes \ allocated : l[m] = left[m]

\* What is below each node then.
SplicedTo(u, x, s) == [m \in allocated \ {x} |->
    IF m = s THEN u[x] \ {x} ELSE IF m \in u[right[x]] THEN u[m] \ {s} ELSE u[m] \ {x}]

\* Where the nodes are: x, s among those right of x, and the others.
Around(u, x, s) ==
    /\ right[x] \in allocated /\ u[right[x]] = {z \in u[x] : key[z] > key[x]}
    /\ left[x] \in allocated /\ u[left[x]] = {z \in u[x] : key[z] < key[x]}
    /\ u[x] = u[left[x]] \cup {x} \cup u[right[x]]
    /\ x \notin u[right[x]] /\ x \notin u[left[x]] /\ u[left[x]] \cap u[right[x]] = {}
    /\ s \in allocated /\ s # x /\ s # Nil
    /\ \A m \in u[right[x]] : u[m] \subseteq u[right[x]] /\ x \notin u[m]
    /\ \A m \in allocated : m \notin u[right[x]] /\ m # x /\ u[m] \cap u[right[x]] # {} => u[x] \subseteq u[m]

LEMMA AroundIs ==
  ASSUME NEW u, Now(u), NEW x \in allocated, left[x] # Nil, right[x] # Nil, NEW s \in u[right[x]]
  PROVE  Around(u, x, s)
<1> DEFINE R == u[right[x]]
           L == u[left[x]]
<1>1. Branches(u, x) /\ \A m \in allocated : key[m] \in Int
  BY BranchesAre, NowIs
<1>2. right[x] \in allocated /\ left[x] \in allocated /\ Part(u, right[x]) = R /\ Part(u, left[x]) = L
  BY <1>1 DEF Branches, Part
<1>3. R = {z \in u[x] : key[z] > key[x]} /\ L = {z \in u[x] : key[z] < key[x]}
  BY <1>1, <1>2 DEF Branches
<1>4. u[x] = L \cup {x} \cup R
  BY <1>2, Sides
<1>5. x \notin R /\ x \notin L /\ L \cap R = {} /\ R \subseteq allocated /\ L \subseteq allocated
  BY <1>1, <1>3 DEF Branches
<1>6. Within(allocated, u)
  BY DEF Now, Sorted
<1> HIDE DEF R, L
<1>7. \A m \in R : u[m] \subseteq R /\ x \notin u[m]
  BY <1>2, <1>5, <1>6 DEF Within, R
<1>8. ASSUME NEW m \in allocated, m \notin R, m # x, u[m] \cap R # {} PROVE u[x] \subseteq u[m]
  <2>1. PICK z \in u[m] : z \in R
    BY <1>8
  <2>2. z \in u[x]
    BY <1>4, <2>1
  <2>3. m \in u[x] \/ x \in u[m]
    BY <1>6, <2>1, <2>2 DEF Within
  <2>4. CASE m \in u[x]
    <3>1. m \in L
      BY <1>4, <1>8, <2>4
    <3>2. u[m] \subseteq L
      BY <1>2, <1>6, <3>1 DEF Within, L
    <3> QED
      BY <1>5, <2>1, <3>2
  <2>5. CASE x \in u[m]
    BY <1>6, <1>8, <2>5 DEF Within
  <2> QED
    BY <2>3, <2>4, <2>5
<1>9. s \in R
  BY DEF R
<1>10. s \in allocated /\ s # x /\ s # Nil
  BY <1>5, <1>9, NilIsNone, NowIs
<1> QED
  BY <1>2, <1>3, <1>4, <1>5, <1>7, <1>8, <1>10 DEF Around, R, L

LEMMA SplicedWithin ==
  ASSUME NEW u, Now(u), NEW x \in allocated, NEW s, Around(u, x, s), s \in u[right[x]]
  PROVE  /\ SplicedTo(u, x, s) \in [allocated \ {x} -> SUBSET (allocated \ {x})]
         /\ Within(allocated \ {x}, SplicedTo(u, x, s))
<1> DEFINE a == allocated \ {x}
           g == SplicedTo(u, x, s)
           R == u[right[x]]
<1>1. /\ s \in a /\ s \in R /\ x \notin R /\ R \subseteq u[x] /\ x \in u[x] /\ s \in u[x]
      /\ \A m \in R : u[m] \subseteq R /\ x \notin u[m]
      /\ \A m \in a : m \notin R /\ u[m] \cap R # {} => u[x] \subseteq u[m]
  BY DEF Around
<1>2. /\ g[s] = u[x] \ {x}
      /\ \A m \in a : m # s /\ m \in R => g[m] = u[m] \ {s}
      /\ \A m \in a : m # s /\ m \notin R => g[m] = u[m] \ {x}
  BY <1>1 DEF SplicedTo
<1>3. Within(allocated, u) /\ \A m \in allocated : u[m] \subseteq allocated /\ m \in u[m]
  BY DEF Now, Sorted, Hangs
<1>4. g \in [a -> SUBSET a]
  BY <1>1, <1>3 DEF SplicedTo
<1> HIDE DEF g, R
<1>5. ASSUME NEW m \in a, NEW z \in g[m] PROVE g[z] \subseteq g[m]
  <2>1. z \in a
    BY <1>4, <1>5
  <2>2. CASE m = s
    <3>1. z \in u[x] /\ u[z] \subseteq u[x]
      BY <1>2, <1>3, <1>5, <2>2 DEF Within
    <3> QED
      BY <1>1, <1>2, <2>1, <2>2, <3>1
  <2>3. CASE m # s /\ m \in R
    <3>1. z \in u[m] /\ z # s /\ z \in R /\ u[z] \subseteq u[m]
      BY <1>1, <1>2, <1>3, <1>5, <2>3 DEF Within
    <3> QED
      BY <1>2, <2>1, <2>3, <3>1
  <2>4. CASE m # s /\ m \notin R
    <3>1. z \in u[m] /\ u[z] \subseteq u[m] /\ g[m] = u[m] \ {x}
      BY <1>2, <1>3, <1>5, <2>4 DEF Within
    <3>2. CASE z = s
      BY <1>1, <1>2, <2>4, <3>1, <3>2
    <3>3. CASE z # s /\ z \in R
      BY <1>1, <1>2, <2>1, <3>1, <3>3
    <3>4. CASE z # s /\ z \notin R
      BY <1>2, <2>1, <3>1, <3>4
    <3> QED
      BY <3>2, <3>3, <3>4
  <2> QED
    BY <2>2, <2>3, <2>4
<1>6. ASSUME NEW m \in a, NEW n \in a, m = s, n # s, NEW z \in g[m] \cap g[n] PROVE m \in g[n] \/ n \in g[m]
  <2>1. z \in u[x] /\ z \in u[n]
    BY <1>2, <1>6
  <2>2. n \in u[x] \/ x \in u[n]
    BY <1>3, <2>1 DEF Within
  <2>3. CASE n \in u[x]
    BY <1>2, <1>6, <2>3
  <2>4. CASE x \in u[n]
    <3>1. n \notin R /\ u[x] \subseteq u[n]
      BY <1>1, <1>3, <2>4 DEF Within
    <3> QED
      BY <1>1, <1>2, <1>6, <3>1
  <2> QED
    BY <2>2, <2>3, <2>4
<1>7. ASSUME NEW m \in a, NEW n \in a, m # s, n # s, NEW z \in g[m] \cap g[n] PROVE m \in g[n] \/ n \in g[m]
  <2>1. z \in u[m] /\ z \in u[n]
    BY <1>2, <1>7
  <2>2. m \in u[n] \/ n \in u[m]
    BY <1>3, <2>1 DEF Within
  <2> QED
    BY <1>2, <1>7, <2>2
<1>8. ASSUME NEW m \in a, NEW n \in a, NEW z \in g[m] \cap g[n] PROVE m \in g[n] \/ n \in g[m]
  <2>1. CASE m = s /\ n = s
    BY <1>2, <1>1, <2>1
  <2> QED
    BY <1>6, <1>7, <2>1
<1> QED
  BY <1>4, <1>5, <1>8 DEF Within, g

LEMMA SplicedHangs ==
  ASSUME NEW u, Now(u), NEW x \in allocated, NEW s, NEW l, NEW r, Spliced(u, x, s, l, r),
         NEW t, Stands(t, l, r, x, s)
  PROVE  Hangs(t, Forgot(x), allocated \ {x}, SplicedTo(u, x, s))
<1> DEFINE a == allocated \ {x}
           g == SplicedTo(u, x, s)
           R == u[right[x]]
           ks == Forgot(x)
<1>1. Around(u, x, s) /\ s \in R /\ left[s] = Nil /\ \A z \in R : z = s \/ key[z] > key[s]
  BY AroundIs DEF Spliced
<1>2. /\ s \in a /\ s # Nil /\ x \notin R /\ R \subseteq u[x] /\ s \in u[x]
      /\ \A m \in R : u[m] \subseteq R /\ x \notin u[m]
      /\ \A m \in a : m \notin R /\ u[m] \cap R # {} => u[x] \subseteq u[m]
  BY <1>1 DEF Around
<1>3. /\ g[s] = u[x] \ {x}
      /\ \A m \in a : m # s /\ m \in R => g[m] = u[m] \ {s}
      /\ \A m \in a : m # s /\ m \notin R => g[m] = u[m] \ {x}
  BY <1>2 DEF SplicedTo
<1>4. g \in [a -> SUBSET a]
  BY <1>1, SplicedWithin
<1>5. \A m \in a : ks[m] = key[m] /\ key[m] \in Int
  BY ForgotIs
<1>6. \A m \in allocated : Branches(u, m)
  BY BranchesAre
<1>7. \A c : c # Nil => Part(u, c) = u[c] /\ Part(g, c) = g[c]
  BY DEF Part
<1>8. Part(u, Nil) = {} /\ Part(g, Nil) = {}
  BY DEF Part
<1>9. /\ \A m \in a \ {s} : r[m] = right[m] /\ l[m] = IF left[m] = s THEN right[s] ELSE left[m]
      /\ l[s] = left[x] /\ r[s] = IF s = right[x] THEN right[s] ELSE right[x]
  BY NowIs DEF Spliced
<1>10. \A m \in a : /\ t.left[m] = IF left[m] = x THEN s ELSE l[m]
                    /\ t.right[m] = IF right[m] = x THEN s ELSE r[m]
  BY DEF Stands
<1>11. /\ right[x] \in allocated /\ right[x] \in R /\ right[x] # x /\ right[x] # Nil
       /\ left[x] \in a /\ left[x] \notin R /\ left[x] # s /\ left[x] # Nil
       /\ u[left[x]] = {z \in u[x] : key[z] < key[x]} /\ x \notin u[left[x]]
       /\ R = {z \in u[x] : key[z] > key[x]}
  BY <1>1, <1>2, <1>6 DEF Around, Branches
<1>12. \A m \in allocated : key[m] \in Int
  BY NowIs
<1> HIDE DEF g, ks, R
\* s in the place of x
<1>13. /\ s \in g[s] /\ t.left[s] \in a \cup {Nil} /\ t.right[s] \in a \cup {Nil}
       /\ Part(g, t.left[s]) = {z \in g[s] : ks[z] < ks[s]}
       /\ Part(g, t.right[s]) = {z \in g[s] : ks[z] > ks[s]}
  <2>1. Branches(u, s) /\ Branches(u, x)
    BY <1>2, <1>6
  <2>2. right[s] # x /\ right[s] \in R \cup {Nil} /\ right[s] \in allocated \cup {Nil} /\ right[s] # s
    <3>1. CASE right[s] # Nil
      <4>1. right[s] \in allocated /\ right[s] \in u[right[s]]
        BY <1>6, <2>1, <3>1 DEF Branches
      <4>2. right[s] \in u[s] /\ key[right[s]] > key[s]
        BY <1>7, <2>1, <3>1, <4>1 DEF Branches
      <4> QED
        BY <1>1, <1>2, <1>12, <2>1, <4>1, <4>2 DEF Branches
    <3> QED
      BY <1>2, <2>1, <3>1, NilIsNone DEF Branches
  <2>3. t.left[s] = left[x] /\ t.right[s] = IF s = right[x] THEN right[s] ELSE right[x]
    <3>1. left[s] # x
      BY <1>1, <2>1 DEF Branches
    <3> QED
      BY <1>2, <1>9, <1>10, <2>2, <3>1
  <2>4. Part(g, t.left[s]) = u[left[x]]
    BY <1>3, <1>7, <1>11, <2>3
  <2>5. \A z \in g[s] : ks[z] = key[z] /\ ks[s] = key[s] /\ key[z] \in Int /\ key[s] \in Int
    BY <1>2, <1>4, <1>5
  <2>6. key[x] < key[s]
    BY <1>1, <1>11
  <2>7. \A z \in g[s] : (ks[z] < ks[s] <=> key[z] < key[x])
    <3>1. \A z \in g[s] : z \in u[x] /\ z # x
      BY <1>3
    <3>2. \A z \in g[s] : z \in R \/ key[z] < key[x]
      <4>1. u[x] = u[left[x]] \cup {x} \cup R
        BY <1>1 DEF Around, R
      <4> QED
        BY <3>1, <4>1, <1>11
    <3> QED
      BY <1>1, <1>11, <1>12, <2>5, <2>6, <3>2, <2>1 DEF Branches
  <2>8. {z \in g[s] : ks[z] < ks[s]} = u[left[x]]
    BY <1>3, <1>11, <2>7
  <2>9. {z \in g[s] : ks[z] > ks[s]} = R \ {s}
    <3>1. \A z \in g[s] : z \in R \/ key[z] < key[x]
      <4>1. u[x] = u[left[x]] \cup {x} \cup R
        BY <1>1 DEF Around, R
      <4> QED
        BY <1>3, <4>1, <1>11
    <3>2. \A z \in R \ {s} : z \in g[s] /\ key[z] > key[s]
      BY <1>1, <1>2, <1>3
    <3> QED
      BY <1>1, <2>5, <2>6, <3>1, <3>2, <1>12, <2>1 DEF Branches
  <2>10. Part(g, t.right[s]) = R \ {s}
    <3>1. CASE s = right[x]
      <4>1. u[s] = R
        BY <3>1 DEF R
      <4>2. Part(u, right[s]) = R \ {s}
        BY <1>1, <1>12, <2>1, <4>1 DEF Branches
      <4>3. CASE right[s] = Nil
        BY <1>8, <2>3, <3>1, <4>2, <4>3
      <4>4. CASE right[s] # Nil
        <5>1. right[s] \in a /\ right[s] # s /\ right[s] \in R
          BY <2>2, <4>4, <1>11
        <5>2. g[right[s]] = u[right[s]] \ {s}
          BY <1>3, <5>1
        <5> QED
          BY <1>7, <2>3, <3>1, <4>2, <4>4, <5>2
      <4> QED
        BY <4>3, <4>4
    <3>2. CASE s # right[x]
      <4>1. g[right[x]] = u[right[x]] \ {s}
        BY <1>3, <1>11, <3>2
      <4> QED
        BY <1>7, <1>11, <2>3, <3>2, <4>1 DEF R
    <3> QED
      BY <3>1, <3>2
  <2>11. t.left[s] \in a \cup {Nil} /\ t.right[s] \in a \cup {Nil} /\ s \in g[s]
    BY <1>2, <1>3, <1>11, <2>2, <2>3
  <2> QED
    BY <2>4, <2>8, <2>9, <2>10, <2>11
\* a node right of x
<1>14. ASSUME NEW m \in a, m \in R, m # s
       PROVE  /\ m \in g[m] /\ t.left[m] \in a \cup {Nil} /\ t.right[m] \in a \cup {Nil}
              /\ Part(g, t.left[m]) = {z \in g[m] : ks[z] < ks[m]}
              /\ Part(g, t.right[m]) = {z \in g[m] : ks[z] > ks[m]}
  <2>1. Branches(u, m) /\ Branches(u, s) /\ g[m] = u[m] \ {s} /\ u[m] \subseteq R
    BY <1>2, <1>3, <1>6, <1>14
  <2>2. \A z \in g[m] : ks[z] = key[z] /\ ks[m] = key[m]
    BY <1>2, <1>4, <1>5
  <2>3. /\ {z \in g[m] : ks[z] < ks[m]} = Part(u, left[m]) \ {s}
        /\ {z \in g[m] : ks[z] > ks[m]} = Part(u, right[m]) \ {s}
    BY <2>1, <2>2 DEF Branches
  <2>4. \A c \in allocated : c = left[m] \/ c = right[m] => c \in u[m] /\ c \in R
    <3> SUFFICES ASSUME NEW c \in allocated, c = left[m] \/ c = right[m] PROVE c \in u[m]
      BY <2>1
    <3>1. c \in u[c] /\ c # Nil
      BY <1>6 DEF Branches
    <3> QED
      BY <1>7, <2>1, <3>1 DEF Branches
  <2>5. left[m] # x /\ right[m] # x
    BY <1>2, <2>4
  <2>6. s \notin Part(u, right[m])
    BY <1>1, <1>2, <1>12, <1>14, <2>1 DEF Branches
  <2>7. right[m] # s
    BY <1>2, <1>6, <1>7, <2>6 DEF Branches
  <2>8. t.right[m] = right[m] /\ t.left[m] = IF left[m] = s THEN right[s] ELSE left[m]
    BY <1>9, <1>10, <1>14, <2>5
  <2>9. Part(g, t.right[m]) = Part(u, right[m]) \ {s} /\ t.right[m] \in a \cup {Nil}
    <3>1. CASE right[m] = Nil
      BY <1>8, <2>8, <3>1
    <3>2. CASE right[m] # Nil
      <4>1. right[m] \in a /\ right[m] \in R
        BY <2>1, <2>4, <2>5, <3>2 DEF Branches
      <4> QED
        BY <1>3, <1>7, <2>7, <2>8, <3>2, <4>1
    <3> QED
      BY <3>1, <3>2
  <2>10. Part(g, t.left[m]) = Part(u, left[m]) \ {s} /\ t.left[m] \in a \cup {Nil}
    <3>1. CASE left[m] = Nil
      BY <1>2, <1>8, <2>8, <3>1
    <3>2. CASE left[m] # Nil /\ left[m] # s
      <4>1. left[m] \in a /\ left[m] \in R
        BY <2>1, <2>4, <2>5, <3>2 DEF Branches
      <4> QED
        BY <1>3, <1>7, <2>8, <3>2, <4>1
    <3>3. CASE left[m] = s
      <4>1. Part(u, left[m]) = u[s] /\ t.left[m] = right[s]
        BY <1>2, <1>7, <2>8, <3>3
      <4>2. u[s] = {s} \cup Part(u, right[s])
        BY <1>1, <1>2, <1>8, Sides
      <4>3. CASE right[s] = Nil
        BY <1>8, <4>1, <4>2, <4>3
      <4>4. CASE right[s] # Nil
        <5>1. right[s] \in allocated /\ right[s] \in u[right[s]] /\ Part(u, right[s]) = u[right[s]]
          BY <1>6, <1>7, <2>1, <4>4 DEF Branches
        <5>2. right[s] \in u[s] /\ s \notin u[right[s]] /\ right[s] # s
          BY <1>12, <2>1, <5>1 DEF Branches
        <5>3. right[s] \in R /\ right[s] \in a
          BY <1>1, <1>2, <5>1, <5>2
        <5>4. g[right[s]] = u[right[s]] \ {s}
          BY <1>3, <5>2, <5>3
        <5> QED
          BY <1>7, <4>1, <4>2, <4>4, <5>1, <5>2, <5>3, <5>4
      <4> QED
        BY <4>3, <4>4
    <3> QED
      BY <3>1, <3>2, <3>3
  <2> QED
    BY <1>14, <2>1, <2>3, <2>9, <2>10 DEF Branches
\* another one
<1>15. ASSUME NEW m \in a, m \notin R
       PROVE  /\ m \in g[m] /\ t.left[m] \in a \cup {Nil} /\ t.right[m] \in a \cup {Nil}
              /\ Part(g, t.left[m]) = {z \in g[m] : ks[z] < ks[m]}
              /\ Part(g, t.right[m]) = {z \in g[m] : ks[z] > ks[m]}
  <2>1. Branches(u, m) /\ m # s /\ m # x /\ g[m] = u[m] \ {x} /\ m \in allocated
    BY <1>1, <1>3, <1>6, <1>15
  <2>2. \A z \in g[m] : ks[z] = key[z] /\ ks[m] = key[m]
    BY <1>4, <1>5
  <2>3. /\ {z \in g[m] : ks[z] < ks[m]} = Part(u, left[m]) \ {x}
        /\ {z \in g[m] : ks[z] > ks[m]} = Part(u, right[m]) \ {x}
    BY <2>1, <2>2 DEF Branches
  <2>4. ASSUME NEW c \in allocated, c = left[m] \/ c = right[m], c # x PROVE c \notin R /\ c \in a
    <3> SUFFICES ASSUME c \in R PROVE FALSE
      BY <2>4
    <3>1. c \in u[x]
      BY <1>2
    <3>2. m \in u[x] /\ c \in u[m]
      BY <2>1, <2>4, <3>1, ParentIsBelow, NowIs DEF Now
    <3>3. u[x] \subseteq u[m]
      BY <1>2, <1>15, <3>2, <2>1
    <3>4. x \in u[m]
      BY <1>6, <3>3 DEF Branches
    <3> QED
      BY <2>1, <3>2, <3>4, Antisymmetric DEF Now
  <2>5. left[m] # s /\ right[m] # s
    BY <1>1, <1>2, <2>4
  <2>6. /\ t.left[m] = IF left[m] = x THEN s ELSE left[m]
        /\ t.right[m] = IF right[m] = x THEN s ELSE right[m]
    BY <1>9, <1>10, <2>1, <2>5
  <2>7. x # Nil /\ Part(u, x) = u[x] /\ Part(g, s) = u[x] \ {x}
    BY <1>2, <1>3, <1>6, <1>7 DEF Branches
  <2>8. Part(g, t.left[m]) = Part(u, left[m]) \ {x} /\ t.left[m] \in a \cup {Nil}
    <3>1. CASE left[m] = Nil
      BY <1>8, <2>6, <2>7, <3>1
    <3>2. CASE left[m] = x
      BY <1>2, <2>6, <2>7, <3>2
    <3>3. CASE left[m] # Nil /\ left[m] # x
      <4>1. left[m] \in a /\ left[m] \notin R
        BY <2>1, <2>4, <3>3 DEF Branches
      <4> QED
        BY <1>3, <1>7, <2>5, <2>6, <3>3, <4>1
    <3> QED
      BY <3>1, <3>2, <3>3
  <2>9. Part(g, t.right[m]) = Part(u, right[m]) \ {x} /\ t.right[m] \in a \cup {Nil}
    <3>1. CASE right[m] = Nil
      BY <1>8, <2>6, <2>7, <3>1
    <3>2. CASE right[m] = x
      BY <1>2, <2>6, <2>7, <3>2
    <3>3. CASE right[m] # Nil /\ right[m] # x
      <4>1. right[m] \in a /\ right[m] \notin R
        BY <2>1, <2>4, <3>3 DEF Branches
      <4> QED
        BY <1>3, <1>7, <2>5, <2>6, <3>3, <4>1
    <3> QED
      BY <3>1, <3>2, <3>3
  <2> QED
    BY <2>1, <2>3, <2>8, <2>9 DEF Branches
<1> QED
  BY <1>13, <1>14, <1>15 DEF Hangs, g, ks, a, R

\* D2 and D3: x, with two branches, is replaced by its successor.
LEMMA Succeeded ==
  ASSUME NEW u, Now(u), NEW x \in allocated, NEW s, NEW l, NEW r, Spliced(u, x, s, l, r),
         NEW t, Stands(t, l, r, x, s)
  PROVE  \E g : Sorted(t, Forgot(x), allocated \ {x}, g)
<1> DEFINE a == allocated \ {x}
           ks == Forgot(x)
           g == SplicedTo(u, x, s)
<1>1. Hangs(t, ks, a, g)
  BY SplicedHangs
<1>2. Around(u, x, s) /\ s \in u[right[x]]
  BY AroundIs DEF Spliced
<1>3. g \in [a -> SUBSET a] /\ Within(a, g)
  BY <1>2, SplicedWithin
<1>4. t.root \in a \cup {Nil} /\ Part(g, t.root) = a
  <2>1. root \in allocated /\ u[root] = allocated /\ root # Nil
    BY NowIs, NilIsNone DEF Now, Sorted, Part
  <2>2. t.root = IF root = x THEN s ELSE root
    BY DEF Stands
  <2>3. s \in a /\ s # Nil /\ g[s] = u[x] \ {x}
    BY <1>2 DEF Around, SplicedTo
  <2>4. CASE root = x
    BY <2>1, <2>2, <2>3, <2>4 DEF Part
  <2>5. CASE root # x
    <3>1. root \notin u[right[x]]
      <4>1. root \in u[right[x]] => x \in u[root] /\ root \in u[x]
        BY <1>2, <2>1 DEF Around
      <4> QED
        BY <2>1, <2>5, <4>1, Antisymmetric DEF Now
    <3>2. g[root] = u[root] \ {x}
      BY <1>2, <2>1, <2>5, <3>1 DEF SplicedTo
    <3> QED
      BY <2>1, <2>2, <2>5, <3>2 DEF Part
  <2> QED
    BY <2>4, <2>5
<1>5. \A m \in Nodes \ a : t.left[m] = Nil /\ t.right[m] = Nil
  <2>1. \A m \in Nodes \ allocated : left[m] = Nil /\ right[m] = Nil
    BY NowIs DEF Now, Sorted
  <2>2. s \in allocated
    BY <1>2 DEF Around
  <2>3. \A m \in Nodes \ allocated : l[m] = left[m] /\ r[m] = right[m]
    BY <2>2 DEF Spliced
  <2> QED
    BY <2>1, <2>3 DEF Stands
<1>6. /\ t = [root |-> t.root, left |-> t.left, right |-> t.right]
      /\ t.left \in [Nodes -> Nodes \cup {Nil}] /\ t.right \in [Nodes -> Nodes \cup {Nil}]
  BY DEF Stands, Kids
<1>7. ks \in [Nodes -> Int] /\ a \subseteq Nodes /\ \A m, n \in a : ks[m] = ks[n] => m = n
  BY ForgotIs
<1> HIDE DEF a, ks, g
<1>8. Sorted(t, ks, a, g)
  BY <1>1, <1>3, <1>4, <1>5, <1>6, <1>7 DEF Sorted
<1> QED
  BY <1>8 DEF a, ks

\* The nodes with a left branch, and the loop of D3 from one to the next.
Branched == {b \in allocated : left[b] # Nil}
Turned(b) == IF left[left[b]] = Nil THEN b ELSE left[b]

LEMMA TurnedIsBranched ==
  ASSUME NEW u, Now(u), NEW b \in Branched
  PROVE  Turned(b) \in Branched /\ left[b] \in allocated
<1>1. left[b] \in allocated
  BY BranchesAre DEF Branched, Branches
<1> QED
  BY <1>1 DEF Branched, Turned

\* The loop's values.
LeftOf(w, r) ==
    /\ w \in [0 .. N -> Branched] /\ w[0] = r
    /\ \A i \in 1 .. N : w[i] = Turned(w[i - 1])

LEMMA LastBranchIsLeft ==
  ASSUME NEW u, Now(u), NEW r \in Branched
  PROVE  \E w : LeftOf(w, r) /\ LastBranch(r) = w[N]
<1> DEFINE IsLoop(g) == g = [i \in 0 .. N |-> IF i = 0 THEN r
                               ELSE IF left[left[g[i - 1]]] = Nil THEN g[i - 1] ELSE left[g[i - 1]]]
           w == CHOOSE g : IsLoop(g)
           turn == [b \in Branched |-> Turned(b)]
           step == [i \in 1 .. N |-> turn]
<1>1. N \in Nat /\ 0 \in 0 .. N /\ N \in 0 .. N
  BY NodesCount
<1>2. step \in Steps(N, Branched)
  BY TurnedIsBranched DEF Steps
<1>3. PICK f \in [0 .. N -> Branched] : f[0] = r /\ \A i \in 1 .. N : f[i] = step[i][f[i - 1]]
  <2> HIDE DEF step
  <2> QED
    BY <1>1, <1>2, Recursion
<1>4. \A i \in 1 .. N : i \in 0 .. N /\ i - 1 \in 0 .. N /\ i # 0 /\ f[i] = Turned(f[i - 1])
  <2>1. \A i \in 1 .. N : i \in 0 .. N /\ i - 1 \in 0 .. N /\ i # 0
    BY <1>1
  <2>2. \A i \in 1 .. N : step[i] = turn /\ f[i - 1] \in Branched
    BY <1>3, <2>1
  <2> QED
    BY <1>3, <2>1, <2>2
<1>5. \A i \in 0 .. N : i = 0 \/ i \in 1 .. N
  BY <1>1
<1>6. IsLoop(f)
  <2> HIDE DEF step
  <2>1. \A i \in 0 .. N : f[i] = IF i = 0 THEN r
                               ELSE IF left[left[f[i - 1]]] = Nil THEN f[i - 1] ELSE left[f[i - 1]]
    BY <1>3, <1>4, <1>5 DEF Turned
  <2> QED
    BY <1>3, <2>1
<1>7. IsLoop(w)
  <2> HIDE DEF IsLoop
  <2> QED
    BY <1>6
<1>8. w[0] = r /\ \A i \in 1 .. N : w[i] = Turned(w[i - 1])
  <2> HIDE DEF w
  <2>1. \A i \in 0 .. N : w[i] = IF i = 0 THEN r
                               ELSE IF left[left[w[i - 1]]] = Nil THEN w[i - 1] ELSE left[w[i - 1]]
    BY <1>7
  <2> QED
    BY <1>1, <1>4, <2>1 DEF Turned
<1>9. w = [i \in 0 .. N |-> w[i]]
  <2> HIDE DEF w
  <2> QED
    BY <1>7
<1>10. \A i \in 0 .. N : w[i] \in Branched
  <2> DEFINE S == {i \in 0 .. N : w[i] \in Branched}
  <2> HIDE DEF w
  <2>1. 0 \in S
    BY <1>1, <1>8
  <2>2. \A i \in 1 .. N : i - 1 \in S => i \in S
    BY <1>4, <1>8, TurnedIsBranched
  <2>3. \A i \in 0 .. N : i \in S
    <3> HIDE DEF S
    <3> QED
      BY <1>1, <2>1, <2>2, UpTo
  <2> QED
    BY <2>3
<1>11. LastBranch(r) = w[N]
  BY DEF LastBranch, N
<1>12. LeftOf(w, r)
  <2> HIDE DEF w
  <2> QED
    BY <1>8, <1>9, <1>10 DEF LeftOf
<1> HIDE DEF w
<1> QED
  BY <1>11, <1>12

\* What is at n and right of b is after all that is left of b.
Leads(u, r, b) ==
    /\ b \in Branched /\ b \in u[r]
    /\ \A z \in u[r] : z \in u[left[b]] \/ \A y \in u[left[b]] : key[z] > key[y]

LEMMA TurnedLeads ==
  ASSUME NEW u, Now(u), NEW r \in allocated, NEW b, Leads(u, r, b), left[left[b]] # Nil
  PROVE  /\ Leads(u, r, left[b])
         /\ u[left[left[b]]] \subseteq u[left[b]] \ {left[b]}
<1> DEFINE c == left[b]
<1>1. c \in allocated /\ b \in allocated /\ c # Nil
  BY TurnedIsBranched DEF Leads, Branched
<1>2. Branches(u, b) /\ Branches(u, c) /\ c \in Branched /\ \A z \in allocated : key[z] \in Int
  BY <1>1, BranchesAre, NowIs DEF Branched
<1>3. u[left[c]] = {z \in u[c] : key[z] < key[c]} /\ u[c] = {z \in u[b] : key[z] < key[b]}
  BY <1>1, <1>2 DEF Branches, Part
<1>4. c \in u[b] /\ c \in u[c] /\ u[b] \subseteq u[r] /\ u[r] \subseteq allocated /\ u[c] \subseteq allocated
  BY <1>2, <1>3 DEF Branches, Leads, Now, Sorted, Within
<1> HIDE DEF c
<1>5. ASSUME NEW z \in u[r] PROVE z \in u[left[c]] \/ \A y \in u[left[c]] : key[z] > key[y]
  <2>1. z \in u[c] \/ \A y \in u[c] : key[z] > key[y]
    BY DEF Leads, c
  <2> QED
    BY <1>1, <1>2, <1>3, <1>4, <2>1
<1>6. Leads(u, r, c)
  BY <1>2, <1>4, <1>5 DEF Leads
<1> QED
  BY <1>1, <1>2, <1>3, <1>6 DEF c

\* Its left branch is the first in the order of what is at n and below.
LEMMA FirstIs ==
  ASSUME NEW u, Now(u), NEW r \in Branched
  PROVE  LET b == LastBranch(r)
         IN  /\ b \in Branched /\ b \in u[r] /\ left[b] \in u[r] /\ left[left[b]] = Nil
             /\ \A z \in u[r] : z = left[b] \/ key[z] > key[left[b]]
<1> DEFINE Done(b) == left[left[b]] = Nil
<1>1. PICK w : LeftOf(w, r) /\ LastBranch(r) = w[N]
  BY LastBranchIsLeft
<1> DEFINE Rest(b) == u[left[b]]
           S == {i \in 0 .. N : Leads(u, r, w[i]) /\ (Done(w[i]) \/ Cardinality(Rest(w[i])) <= N - i)}
<1>2. N \in Nat /\ r \in allocated
  BY NodesCount DEF Branched
<1>3. \A b \in Branched : /\ IsFiniteSet(Rest(b)) /\ Cardinality(Rest(b)) \in Nat /\ Cardinality(Rest(b)) <= N
                          /\ left[b] \in Rest(b) /\ left[b] \in allocated /\ b \in allocated
  <2> SUFFICES ASSUME NEW b \in Branched
               PROVE  /\ IsFiniteSet(Rest(b)) /\ Cardinality(Rest(b)) \in Nat /\ Cardinality(Rest(b)) <= N
                      /\ left[b] \in Rest(b) /\ left[b] \in allocated /\ b \in allocated
    OBVIOUS
  <2>1. left[b] \in allocated /\ b \in allocated
    BY TurnedIsBranched DEF Branched
  <2>2. Branches(u, left[b]) /\ allocated \subseteq Nodes
    BY <2>1, BranchesAre, NowIs
  <2> QED
    BY <2>1, <2>2, NodesCount DEF Branches
<1>4. 0 \in S
  <2>1. Branches(u, r) /\ left[r] \in allocated /\ left[r] # Nil /\ \A z \in allocated : key[z] \in Int
    BY <1>2, BranchesAre, TurnedIsBranched, NowIs DEF Branched
  <2>2. u[left[r]] = {z \in u[r] : key[z] < key[r]} /\ r \in u[r] /\ u[r] \subseteq allocated
    BY <2>1 DEF Branches, Part
  <2>3. \A z \in u[r] : z \in u[left[r]] \/ \A y \in u[left[r]] : key[z] > key[y]
    BY <1>2, <2>1, <2>2
  <2>4. Leads(u, r, r)
    BY <2>2, <2>3 DEF Leads
  <2> QED
    BY <1>1, <1>2, <1>3, <2>4 DEF LeftOf
<1>5. ASSUME NEW i \in 1 .. N, i - 1 \in S PROVE i \in S
  <2> DEFINE b == w[i - 1]
             b2 == w[i]
  <2>1. i \in 0 .. N /\ Leads(u, r, b) /\ (Done(b) \/ Cardinality(Rest(b)) <= N - (i - 1))
        /\ b2 = Turned(b)
    BY <1>1, <1>2, <1>5 DEF LeftOf
  <2> HIDE DEF b, b2
  <2>2. CASE Done(b)
    <3>1. b2 = b
      BY <2>1, <2>2 DEF Turned
    <3> QED
      BY <2>1, <2>2, <3>1 DEF b2
  <2>3. CASE ~ Done(b)
    <3>1. b2 = left[b] /\ Leads(u, r, b2) /\ Rest(b2) \subseteq Rest(b) \ {left[b]}
      BY <1>2, <2>1, <2>3, TurnedLeads DEF Turned
    <3>2. /\ IsFiniteSet(Rest(b)) /\ Cardinality(Rest(b)) \in Nat /\ left[b] \in Rest(b)
          /\ Cardinality(Rest(b2)) \in Nat
      BY <1>3, <2>1, <3>1 DEF Leads
    <3>3. Cardinality(Rest(b2)) <= Cardinality(Rest(b))
          /\ Cardinality(Rest(b2)) # Cardinality(Rest(b))
      BY <3>1, <3>2, FS_Subset
    <3>4. Cardinality(Rest(b2)) <= N - i
      BY <1>2, <2>1, <2>3, <3>2, <3>3
    <3> QED
      BY <2>1, <3>1, <3>4 DEF b2
  <2> QED
    BY <2>2, <2>3
<1>6. N \in S
  <2> HIDE DEF S
  <2>1. \A i \in 0 .. N : i \in S
    BY <1>2, <1>4, <1>5, UpTo
  <2> QED
    BY <1>2, <2>1
<1> DEFINE b == w[N]
           s == left[b]
<1>7. Leads(u, r, b) /\ Done(b)
  <2>1. CASE ~ Done(b)
    <3>1. s \in Rest(b) /\ Cardinality(Rest(b)) = 0 /\ IsFiniteSet(Rest(b))
      BY <1>2, <1>3, <1>6, <2>1 DEF Leads
    <3> QED
      BY <3>1, FS_EmptySet
  <2> QED
    BY <1>6, <2>1
<1> HIDE DEF b
<1>8. b \in Branched /\ b \in u[r] /\ left[s] = Nil
      /\ \A z \in u[r] : z \in u[s] \/ \A y \in u[s] : key[z] > key[y]
  BY <1>7 DEF Leads
<1>9. s \in allocated /\ s \in u[s] /\ Branches(u, s) /\ Branches(u, b) /\ s # Nil
  BY <1>8, BranchesAre, TurnedIsBranched DEF Branched, Branches
<1>10. s \in u[r]
  <2>1. s \in u[b]
    BY <1>9 DEF Branches, Part
  <2> QED
    BY <1>2, <1>8, <2>1 DEF Now, Sorted, Within
<1>11. ASSUME NEW z \in u[r] PROVE z = s \/ key[z] > key[s]
  <2>1. CASE z \in u[s]
    <3>1. {y \in u[s] : key[y] < key[s]} = {}
      BY <1>8, <1>9 DEF Branches, Part
    <3>2. key[z] \in Int /\ key[s] \in Int /\ (key[z] = key[s] => z = s)
      BY <1>9, <2>1, NowIs DEF Branches, Now, Sorted
    <3> QED
      BY <2>1, <3>1, <3>2
  <2> QED
    BY <1>8, <1>9, <2>1
<1> QED
  BY <1>1, <1>8, <1>10, <1>11 DEF b

\* tdelete leaves a search tree of the nodes but the one it frees.
LEMMA WithoutIsSorted ==
  ASSUME NEW u, Now(u), NEW k \in Int, NEW p, FitsAt(u, p, k), NEW x, x = At(tree, p), x # Nil
  PROVE  \E g : Sorted(Cleared(Without(p, x), x), Forgot(x), allocated \ {x}, g)
<1>1. x \in allocated /\ p \in Places /\ (p[1] # "root" => p[2] \in allocated)
  BY DEF FitsAt
<1>2. Branches(u, x) /\ left \in Kids /\ right \in Kids /\ tree = [root |-> root, left |-> left, right |-> right]
  BY <1>1, BranchesAre, NowIs DEF Kids, tree
<1>3. ASSUME NEW y, (y = left[x] /\ right[x] = Nil) \/ (y = right[x] /\ left[x] = Nil),
             Without(p, x) = Put(tree, p, y)
      PROVE  \E g : Sorted(Cleared(Without(p, x), x), Forgot(x), allocated \ {x}, g)
  <2>1. y \in Nodes \cup {Nil}
    BY <1>2, <1>3, NowIs DEF Branches
  <2>2. Stands(Cleared(Put(tree, p, y), x), left, right, x, y)
    BY <1>1, <1>2, <2>1, PutStands
  <2> QED
    BY <1>1, <1>3, <2>2, ReplacedKeeps
<1>4. ASSUME NEW s, NEW l \in Kids, NEW r \in Kids, Spliced(u, x, s, l, r),
             Without(p, x) = Put([root |-> root, left |-> l, right |-> r], p, s)
      PROVE  \E g : Sorted(Cleared(Without(p, x), x), Forgot(x), allocated \ {x}, g)
  <2>1. s \in Nodes
    <3>1. Around(u, x, s)
      BY <1>1, <1>4, AroundIs DEF Spliced
    <3> QED
      BY <3>1, NowIs DEF Around
  <2>2. Stands(Cleared(Put([root |-> root, left |-> l, right |-> r], p, s), x), l, r, x, s)
    BY <1>1, <1>4, <2>1, PutStands
  <2> QED
    BY <1>1, <1>4, <2>2, Succeeded
<1>5. CASE left[x] = Nil
  <2>1. Without(p, x) = Put(tree, p, right[x])
    BY <1>5 DEF Without
  <2> QED
    BY <1>3, <1>5, <2>1
<1>6. CASE left[x] # Nil /\ right[x] = Nil
  <2>1. Without(p, x) = Put(tree, p, left[x])
    BY <1>6 DEF Without
  <2> QED
    BY <1>3, <1>6, <2>1
<1>7. CASE left[x] # Nil /\ right[x] # Nil /\ left[right[x]] = Nil
  <2> DEFINE s == right[x]
             l == [left EXCEPT ![s] = left[x]]
  <2>1. s \in allocated /\ s \in Nodes /\ s \in u[s] /\ s # x /\ x \in Nodes
    BY <1>1, <1>2, <1>7, BranchesAre, NowIs DEF Branches, Part
  <2>2. Without(p, x) = Put([root |-> root, left |-> l, right |-> right], p, s)
    BY <1>2, <1>7 DEF Without, Short
  <2>3. l \in Kids
    BY <1>2, <2>1 DEF Kids
  <2>4. \A z \in u[s] : z = s \/ key[z] > key[s]
    <3>1. Branches(u, s) /\ \A z \in allocated : key[z] \in Int /\ (key[z] = key[s] => z = s)
      BY <2>1, BranchesAre, NowIs DEF Now, Sorted
    <3>2. {z \in u[s] : key[z] < key[s]} = {}
      BY <1>7, <3>1 DEF Branches, Part
    <3> QED
      BY <2>1, <3>1, <3>2 DEF Branches
  <2>5. \A m \in allocated : left[m] # s
    <3>1. At(tree, Right(x)) = s /\ Right(x) \in Places /\ Right(x)[2] = x
      BY <1>1, <2>1, AtIs, NowIs, PlacesAre DEF Right
    <3>2. \A m \in allocated : left[m] = s <=> Right(x) = Left(m)
      BY <1>1, <2>1, <3>1, OnlyPlace
    <3> QED
      BY <3>2 DEF Left, Right
  <2>6. Spliced(u, x, s, l, right)
    <3>1. /\ l[s] = left[x] /\ \A m \in Nodes \ {s} : l[m] = left[m]
      BY <1>2, <2>1 DEF Kids
    <3> QED
      BY <1>7, <2>1, <2>4, <2>5, <3>1, NowIs DEF Spliced
  <2> HIDE DEF l, s
  <2> QED
    BY <1>2, <1>4, <2>2, <2>3, <2>6
<1>8. CASE left[x] # Nil /\ right[x] # Nil /\ left[right[x]] # Nil
  <2> DEFINE b == LastBranch(right[x])
             s == left[b]
             l == [left EXCEPT ![b] = right[s], ![s] = left[x]]
             r == [right EXCEPT ![s] = right[x]]
  <2>1. right[x] \in Branched /\ right[x] \in allocated
    BY <1>2, <1>8 DEF Branched, Branches
  <2>2. /\ b \in Branched /\ b \in u[right[x]] /\ s \in u[right[x]] /\ left[s] = Nil
        /\ \A z \in u[right[x]] : z = s \/ key[z] > key[s]
    BY <2>1, FirstIs
  <2>3. Without(p, x) = Put([root |-> root, left |-> l, right |-> r], p, s)
    BY <1>8 DEF Without, Splice
  <2> HIDE DEF b
  <2>4. /\ b \in allocated /\ s \in allocated /\ Branches(u, b) /\ Branches(u, s) /\ s # b
        /\ allocated \subseteq Nodes /\ right[s] \in Nodes \cup {Nil}
    <3>1. b \in allocated /\ s \in allocated
      BY <2>2, TurnedIsBranched DEF Branched
    <3>2. left[b] # Nil
      BY <2>2 DEF Branched
    <3> QED
      BY <2>2, <3>1, <3>2, BranchesAre, NowIs
  <2>5. l \in Kids /\ r \in Kids
    BY <1>2, <2>4 DEF Kids, Branches
  <2>6. s # right[x] /\ b # x /\ s # x
    <3>1. Around(u, x, s)
      BY <1>1, <1>8, <2>2, AroundIs
    <3> QED
      BY <1>8, <2>2, <3>1 DEF Around
  <2>7. \A m \in allocated : left[m] = s <=> m = b
    <3>1. At(tree, Left(b)) = s /\ Left(b) \in Places /\ Left(b)[2] = b
      BY <2>4, AtIs, NowIs, PlacesAre DEF Left
    <3>2. \A m \in allocated : left[m] = s <=> Left(b) = Left(m)
      BY <2>4, <3>1, OnlyPlace
    <3> QED
      BY <3>2 DEF Left
  <2>8. Spliced(u, x, s, l, r)
    <3>1. /\ l[s] = left[x] /\ l[b] = right[s] /\ \A m \in Nodes \ {s, b} : l[m] = left[m]
          /\ r[s] = right[x] /\ \A m \in Nodes \ {s} : r[m] = right[m]
      BY <1>2, <2>4 DEF Kids
    <3> HIDE DEF l, r
    <3> QED
      BY <1>8, <2>2, <2>4, <2>6, <2>7, <3>1 DEF Spliced
  <2> HIDE DEF l, r, s
  <2> QED
    BY <1>4, <2>3, <2>5, <2>8
<1> QED
  BY <1>5, <1>6, <1>7, <1>8

-----------------------------------------------------------------------------
(* The invariant                                                            *)

TreeInv == found \in BOOLEAN /\ \E u : Now(u)

LEMMA TreeInitOK == TreeInit => TreeInv
<1> SUFFICES ASSUME TreeInit PROVE TreeInv
  OBVIOUS
<1> DEFINE u == [n \in {} |-> {}]
<1>1. Now(u)
  BY NilIsNone DEF TreeInit, Now, Sorted, Hangs, Within, Part, tree
<1> QED
  BY <1>1 DEF TreeInv, TreeInit

LEMMA BecomeIs ==
  ASSUME NEW t, NEW ks, NEW a, NEW g, Sorted(t, ks, a, g), Become(t), key' = ks, allocated' = a
  PROVE  (\E u : Now(u))'
<1>1. tree' = t
  BY DEF Become, tree, Sorted
<1>2. Now(g)'
  BY <1>1 DEF Now
<1> QED
  BY <1>2

\* tsearch finds the key, adds it, or finds no memory for it.
Searched(k) ==
    \/ /\ \E m \in allocated : key[m] = k
       /\ found' = TRUE /\ UNCHANGED <<root, key, left, right, allocated>>
    \/ \E n \in Nodes \ allocated :
         key' = Keyed(n, k) /\ allocated' = allocated \cup {n} /\ found' = TRUE
    \/ /\ Scarce /\ \A m \in allocated : key[m] # k
       /\ found' = FALSE /\ UNCHANGED <<root, key, left, right, allocated>>

LEMMA SearchKeeps ==
  ASSUME NEW k \in Keys, TreeInv, tsearch(k)
  PROVE  TreeInv' /\ Searched(k)
<1> DEFINE p == PlaceOf(k)
<1>1. PICK u : Now(u)
  BY DEF TreeInv
<1>2. k \in Int /\ FitsAt(u, p, k) /\ (At(tree, p) = Nil \/ key[At(tree, p)] = k)
  BY <1>1, NilIsNone, PlaceIs
<1> HIDE DEF p
<1>3. /\ At(tree, p) # Nil => \E m \in allocated : key[m] = k
      /\ At(tree, p) = Nil => \A m \in allocated : key[m] # k
  BY <1>2 DEF FitsAt, Part
<1>4. ASSUME UNCHANGED <<root, key, left, right, allocated>> PROVE (\E v : Now(v))'
  <2>1. Now(u)'
    BY <1>1, <1>4 DEF Now, tree
  <2> QED
    BY <2>1
<1>5. CASE At(tree, p) # Nil /\ found' = TRUE /\ UNCHANGED <<root, key, left, right, allocated>>
  BY <1>3, <1>4, <1>5 DEF TreeInv, Searched
<1>6. CASE At(tree, p) = Nil /\ Scarce /\ found' = FALSE /\ UNCHANGED <<root, key, left, right, allocated>>
  BY <1>3, <1>4, <1>6 DEF TreeInv, Searched
<1>7. ASSUME NEW n \in Nodes \ allocated, At(tree, p) = Nil, Become(Put(tree, p, n)), key' = Keyed(n, k),
             allocated' = allocated \cup {n}, found' = TRUE
      PROVE  TreeInv' /\ Searched(k)
  <2>1. PICK g : Sorted(Put(tree, p, n), Keyed(n, k), allocated \cup {n}, g)
    BY <1>1, <1>2, <1>7, GrownIsSorted
  <2>2. (\E v : Now(v))'
    BY <1>7, <2>1, BecomeIs
  <2> QED
    BY <1>7, <2>2 DEF TreeInv, Searched
<1>8. \/ At(tree, p) # Nil /\ found' = TRUE /\ UNCHANGED <<root, key, left, right, allocated>>
      \/ At(tree, p) = Nil /\ \E n \in Nodes \ allocated :
            Become(Put(tree, p, n)) /\ key' = Keyed(n, k) /\ allocated' = allocated \cup {n} /\ found' = TRUE
      \/ At(tree, p) = Nil /\ Scarce /\ found' = FALSE /\ UNCHANGED <<root, key, left, right, allocated>>
  BY DEF tsearch, p
<1> QED
  BY <1>5, <1>6, <1>7, <1>8

\* tfind says whether the key is there.
LEMMA FindKeeps ==
  ASSUME NEW k \in Keys, TreeInv, tfind(k)
  PROVE  /\ TreeInv' /\ UNCHANGED <<root, key, left, right, allocated>>
         /\ found' <=> \E m \in allocated : key[m] = k
<1> DEFINE p == PlaceOf(k)
<1>1. PICK u : Now(u)
  BY DEF TreeInv
<1>2. k \in Int /\ FitsAt(u, p, k) /\ (At(tree, p) = Nil \/ key[At(tree, p)] = k)
  BY <1>1, NilIsNone, PlaceIs
<1>3. found' = (At(tree, p) # Nil) /\ UNCHANGED <<root, key, left, right, allocated>>
  BY DEF tfind
<1> HIDE DEF p
<1>4. At(tree, p) # Nil <=> \E m \in allocated : key[m] = k
  BY <1>2 DEF FitsAt, Part
<1>5. Now(u)'
  BY <1>1, <1>3 DEF Now, tree
<1> QED
  BY <1>3, <1>4, <1>5 DEF TreeInv

\* tdelete frees the node with the key, if there is one.
Deleted(k) ==
    \/ /\ \A m \in allocated : key[m] # k
       /\ found' = FALSE /\ UNCHANGED <<root, key, left, right, allocated>>
    \/ \E x \in allocated : /\ key[x] = k /\ found' = TRUE
                            /\ key' = Forgot(x) /\ allocated' = allocated \ {x}

LEMMA DeleteKeeps ==
  ASSUME NEW k \in Keys, TreeInv, tdelete(k)
  PROVE  TreeInv' /\ Deleted(k)
<1> DEFINE p == PlaceOf(k)
           x == At(tree, p)
<1>1. PICK u : Now(u)
  BY DEF TreeInv
<1>2. k \in Int /\ FitsAt(u, p, k) /\ (At(tree, p) = Nil \/ key[At(tree, p)] = k)
  BY <1>1, NilIsNone, PlaceIs
<1>3. /\ found' = (x # Nil)
      /\ x = Nil => UNCHANGED <<root, key, left, right, allocated>>
      /\ x # Nil => /\ Become(Cleared(Without(p, x), x)) /\ key' = Forgot(x)
                    /\ allocated' = allocated \ {x}
  BY DEF tdelete, Released, Forgot
<1> HIDE DEF p
<1>4. CASE x = Nil
  <2>1. Now(u)'
    BY <1>1, <1>3, <1>4 DEF Now, tree
  <2>2. \A m \in allocated : key[m] # k
    BY <1>2, <1>4 DEF FitsAt, Part
  <2> QED
    BY <1>3, <1>4, <2>1, <2>2 DEF TreeInv, Deleted
<1>5. CASE x # Nil
  <2>1. PICK g : Sorted(Cleared(Without(p, x), x), Forgot(x), allocated \ {x}, g)
    BY <1>1, <1>2, <1>5, WithoutIsSorted
  <2>2. (\E v : Now(v))'
    BY <1>3, <1>5, <2>1, BecomeIs
  <2>3. x \in allocated /\ key[x] = k
    BY <1>2, <1>5 DEF FitsAt
  <2> QED
    BY <1>3, <1>5, <2>2, <2>3 DEF TreeInv, Deleted
<1> QED
  BY <1>4, <1>5

LEMMA TreeStepOK == TreeInv /\ [TreeNext]_treeVars => TreeInv'
<1>1. ASSUME TreeInv, UNCHANGED treeVars PROVE TreeInv'
  BY <1>1 DEF treeVars, TreeInv, Now, tree
<1>2. ASSUME TreeInv, TreeNext PROVE TreeInv'
  BY <1>2, SearchKeeps, FindKeeps, DeleteKeeps DEF TreeNext
<1> QED
  BY <1>1, <1>2

LEMMA TreeInvariant == TreeSpec => []TreeInv
BY TreeInitOK, TreeStepOK, PTL DEF TreeSpec

-----------------------------------------------------------------------------
(* What is below the root                                                   *)

Kin == Nodes \cup {Nil}

\* The nodes d levels down, from one level to the next.
Lower(D) == D \cup UNION {{left[m], right[m]} : m \in D \ {Nil}}

Levels(w, n) ==
    /\ w \in [0 .. N -> SUBSET Kin] /\ w[0] = {n}
    /\ \A i \in 1 .. N : w[i] = Lower(w[i - 1])

LEMMA LowerIsKin ==
  ASSUME NEW u, Now(u), NEW D \in SUBSET Kin
  PROVE  Lower(D) \in SUBSET Kin
BY NowIs DEF Lower, Kin

LEMMA BelowIs ==
  ASSUME NEW u, Now(u), NEW n \in Kin
  PROVE  \E w : Levels(w, n) /\ Below(n) = w[N] \ {Nil}
<1> DEFINE IsLoop(g) == g = [d \in 0 .. N |-> IF d = 0 THEN {n}
                  ELSE g[d - 1] \cup UNION {{left[m], right[m]} : m \in g[d - 1] \ {Nil}}]
           w == CHOOSE g : IsLoop(g)
           turn == [D \in SUBSET Kin |-> Lower(D)]
           step == [i \in 1 .. N |-> turn]
<1>1. N \in Nat /\ 0 \in 0 .. N /\ N \in 0 .. N /\ {n} \in SUBSET Kin
  BY NodesCount
<1>2. step \in StepsFrom(0, N, SUBSET Kin)
  BY LowerIsKin DEF StepsFrom
<1>3. PICK f \in [0 .. N -> SUBSET Kin] : f[0] = {n} /\ \A i \in 1 .. N : f[i] = step[i][f[i - 1]]
  <2> DEFINE V == SUBSET Kin
             c == {n}
  <2>1. c \in V /\ step \in StepsFrom(0, N, V) /\ N \in Int /\ 0 \in Int /\ 0 <= N
    BY <1>1, <1>2
  <2> HIDE DEF step, V, c
  <2>2. \E f : IsRun(f, 0, N, V, c, step)
    BY <2>1, RecursionFrom
  <2>3. \E f : f \in [0 .. N -> V] /\ f[0] = c /\ \A i \in 1 .. N : f[i] = step[i][f[i - 1]]
    BY <1>1, <2>2 DEF IsRun
  <2> QED
    BY <2>3 DEF V, c
<1>4. \A i \in 1 .. N : i \in 0 .. N /\ i - 1 \in 0 .. N /\ i # 0 /\ f[i] = Lower(f[i - 1])
  <2>1. \A i \in 1 .. N : i \in 0 .. N /\ i - 1 \in 0 .. N /\ i # 0
    BY <1>1
  <2>2. \A i \in 1 .. N : step[i] = turn /\ f[i - 1] \in SUBSET Kin
    BY <1>3, <2>1
  <2> QED
    BY <1>3, <2>1, <2>2
<1>5. \A i \in 0 .. N : i = 0 \/ i \in 1 .. N
  BY <1>1
<1>6. IsLoop(f)
  <2> HIDE DEF step
  <2>1. \A d \in 0 .. N : f[d] = IF d = 0 THEN {n}
                  ELSE f[d - 1] \cup UNION {{left[m], right[m]} : m \in f[d - 1] \ {Nil}}
    BY <1>3, <1>4, <1>5 DEF Lower
  <2> QED
    BY <1>3, <2>1
<1>7. IsLoop(w)
  <2> HIDE DEF IsLoop
  <2> QED
    BY <1>6
<1>8. w[0] = {n} /\ \A i \in 1 .. N : w[i] = Lower(w[i - 1])
  <2> HIDE DEF w
  <2>1. \A d \in 0 .. N : w[d] = IF d = 0 THEN {n}
                  ELSE w[d - 1] \cup UNION {{left[m], right[m]} : m \in w[d - 1] \ {Nil}}
    BY <1>7
  <2> QED
    BY <1>1, <1>4, <2>1 DEF Lower
<1>9. w = [d \in 0 .. N |-> w[d]]
  <2> HIDE DEF w
  <2> QED
    BY <1>7
<1>10. \A i \in 0 .. N : w[i] \in SUBSET Kin
  <2> DEFINE S == {i \in 0 .. N : w[i] \in SUBSET Kin}
  <2> HIDE DEF w
  <2>1. 0 \in S
    BY <1>1, <1>8
  <2>2. \A i \in 1 .. N : i - 1 \in S => i \in S
    BY <1>4, <1>8, LowerIsKin
  <2>3. \A i \in 0 .. N : i \in S
    <3> HIDE DEF S
    <3> QED
      BY <1>1, <2>1, <2>2, UpTo
  <2> QED
    BY <2>3
<1>11. Below(n) = w[N] \ {Nil}
  BY DEF Below, N
<1>12. Levels(w, n)
  <2> HIDE DEF w
  <2> QED
    BY <1>8, <1>9, <1>10 DEF Levels
<1> HIDE DEF w
<1> QED
  BY <1>11, <1>12

\* Every allocated node is in D, or below one of D that has at most j nodes.
Reached(u, D, j) ==
    /\ D \subseteq allocated \cup {Nil}
    /\ \A m \in allocated : m \in D \/ \E x \in D \ {Nil} : m \in u[x] /\ Cardinality(u[x]) <= j

LEMMA LowerReaches ==
  ASSUME NEW u, Now(u), NEW D, NEW j \in Int, Reached(u, D, j)
  PROVE  Reached(u, Lower(D), j - 1)
<1>1. D \subseteq allocated \cup {Nil} /\ allocated \subseteq Nodes
  BY NowIs DEF Reached
<1>2. D \subseteq Lower(D) /\ \A x \in D \ {Nil} : left[x] \in Lower(D) /\ right[x] \in Lower(D)
  BY DEF Lower
<1>3. Lower(D) \subseteq allocated \cup {Nil}
  <2>1. \A x \in D \ {Nil} : {left[x], right[x]} \subseteq allocated \cup {Nil}
    BY <1>1, BranchesAre DEF Branches
  <2> QED
    BY <1>1, <2>1 DEF Lower
<1>4. ASSUME NEW m \in allocated, NEW x \in D \ {Nil}, m \in u[x], Cardinality(u[x]) <= j, m # x
      PROVE  \E c \in Lower(D) \ {Nil} : m \in u[c] /\ Cardinality(u[c]) <= j - 1
  <2>1. x \in allocated /\ Branches(u, x) /\ u[x] = Part(u, left[x]) \cup {x} \cup Part(u, right[x])
    BY <1>1, BranchesAre, Sides
  <2>2. ASSUME NEW c \in {left[x], right[x]}, m \in Part(u, c)
        PROVE  c \in Lower(D) \ {Nil} /\ m \in u[c] /\ Cardinality(u[c]) <= j - 1
    <3>1. c # Nil /\ m \in u[c] /\ c \in allocated /\ u[c] \subseteq u[x] /\ x \notin u[c] /\ x \in u[x]
      <4>1. c # Nil
        BY <2>2 DEF Part
      <4>2. Part(u, c) = u[c]
        BY <4>1 DEF Part
      <4>3. key[x] \in Int
        BY <2>1, NowIs DEF Branches
      <4> QED
        BY <2>1, <2>2, <4>1, <4>2, <4>3 DEF Branches
    <3>2. IsFiniteSet(u[x]) /\ Cardinality(u[x]) \in Nat /\ Cardinality(u[c]) \in Nat
      BY <1>1, <2>1, <3>1, NodesCount DEF Branches
    <3>3. Cardinality(u[c]) <= Cardinality(u[x]) /\ Cardinality(u[c]) # Cardinality(u[x])
      BY <3>1, <3>2, FS_Subset
    <3>4. Cardinality(u[c]) <= j - 1
      BY <1>4, <3>2, <3>3
    <3> QED
      BY <1>2, <3>1, <3>4
  <2>3. m \in Part(u, left[x]) \/ m \in Part(u, right[x])
    BY <1>4, <2>1
  <2> QED
    BY <2>2, <2>3
<1>5. ASSUME NEW m \in allocated
      PROVE  m \in Lower(D) \/ \E x \in Lower(D) \ {Nil} : m \in u[x] /\ Cardinality(u[x]) <= j - 1
  <2>1. CASE m \in D
    BY <1>2, <2>1
  <2>2. CASE m \notin D
    <3>1. PICK x \in D \ {Nil} : m \in u[x] /\ Cardinality(u[x]) <= j
      BY <1>5, <2>2 DEF Reached
    <3>2. m # x
      BY <2>2, <3>1
    <3> QED
      BY <1>4, <3>1, <3>2
  <2> QED
    BY <2>1, <2>2
<1> QED
  BY <1>3, <1>5 DEF Reached

LEMMA BelowRoot ==
  ASSUME NEW u, Now(u)
  PROVE  Below(root) = allocated
<1>1. root \in allocated \cup {Nil} /\ Part(u, root) = allocated /\ root \in Kin /\ allocated \subseteq Nodes
  BY NowIs DEF Now, Sorted, Kin
<1>2. PICK w : Levels(w, root) /\ Below(root) = w[N] \ {Nil}
  BY <1>1, BelowIs
<1>3. N \in Nat
  BY NodesCount
<1> DEFINE S == {i \in 0 .. N : Reached(u, w[i], N - i)}
<1>4. 0 \in S
  <2>1. w[0] = {root} /\ N - 0 = N /\ 0 \in 0 .. N
    BY <1>2, <1>3 DEF Levels
  <2>2. ASSUME NEW m \in allocated PROVE root \in {root} \ {Nil} /\ m \in u[root] /\ Cardinality(u[root]) <= N
    BY <1>1, <2>2, NodesCount DEF Part
  <2>3. Reached(u, {root}, N)
    BY <1>1, <2>2 DEF Reached
  <2> QED
    BY <2>1, <2>3
<1>5. ASSUME NEW i \in 1 .. N, i - 1 \in S PROVE i \in S
  <2>1. Reached(u, w[i - 1], N - (i - 1)) /\ N - (i - 1) \in Int
    BY <1>3, <1>5
  <2>2. Reached(u, Lower(w[i - 1]), (N - (i - 1)) - 1)
    BY <2>1, LowerReaches
  <2>3. (N - (i - 1)) - 1 = N - i /\ w[i] = Lower(w[i - 1]) /\ i \in 0 .. N
    BY <1>2, <1>3 DEF Levels
  <2> QED
    BY <2>2, <2>3
<1>6. N \in S
  <2> HIDE DEF S
  <2>1. \A i \in 0 .. N : i \in S
    BY <1>3, <1>4, <1>5, UpTo
  <2> QED
    BY <1>3, <2>1
<1>7. Reached(u, w[N], 0)
  BY <1>3, <1>6
<1>8. ASSUME NEW m \in allocated PROVE m \in w[N]
  <2> SUFFICES ASSUME m \notin w[N] PROVE FALSE
    OBVIOUS
  <2>1. PICK x \in w[N] \ {Nil} : m \in u[x] /\ Cardinality(u[x]) <= 0
    BY <1>7 DEF Reached
  <2>2. x \in allocated
    BY <1>7, <2>1 DEF Reached
  <2>3. u[x] \subseteq Nodes
    BY <1>1, <2>2, BranchesAre DEF Branches
  <2>4. IsFiniteSet(u[x]) /\ Cardinality(u[x]) = 0
    BY <2>1, <2>3, NodesCount
  <2> QED
    BY <2>1, <2>4, FS_EmptySet
<1> QED
  BY <1>1, <1>2, <1>7, <1>8, NilIsNone DEF Reached

\* The tree has every node that is allocated, and no other.
THEOREM HoldsItsNodesHolds == TreeSpec => []HoldsItsNodes
<1>1. TreeInv => HoldsItsNodes
  BY BelowRoot DEF TreeInv, HoldsItsNodes
<1> QED
  BY <1>1, TreeInvariant, PTL

\* For its user the tree is a set of keys, and each call does to it what its name says.
THEOREM IsAnOrderedSetHolds == TreeSpec => IsAnOrderedSet
<1> DEFINE CallsAsNamed == \A k \in Keys : /\ tsearch(k) => Ordered!Search(k)
                                           /\ tfind(k) => Ordered!Find(k)
                                           /\ tdelete(k) => Ordered!Delete(k)
           Held == {key[n] : n \in Below(root)}
           Kept == {key[n] : n \in allocated}
<1>1. TreeInit /\ HoldsItsNodes => Ordered!SetInit
  BY DEF TreeInit, HoldsItsNodes, Ordered!SetInit
<1>2. ASSUME TreeInv, HoldsItsNodes, HoldsItsNodes', NEW k \in Keys, tsearch(k) PROVE Ordered!Search(k)
  <2>1. Searched(k) /\ Held = Kept /\ Held' = Kept'
    BY <1>2, SearchKeeps DEF HoldsItsNodes
  <2>2. PICK u : Now(u)
    BY <1>2 DEF TreeInv
  <2>3. allocated \subseteq Nodes /\ key \in [Nodes -> Int]
    BY <2>2, NowIs
  <2>4. CASE \E m \in allocated : key[m] = k /\ found' = TRUE /\ UNCHANGED <<root, key, left, right, allocated>>
    <3>1. Kept' = Kept \cup {k} /\ found' = TRUE
      BY <2>4
    <3> QED
      BY <2>1, <3>1 DEF Ordered!Search
  <2>5. ASSUME NEW n \in Nodes \ allocated, key' = Keyed(n, k), allocated' = allocated \cup {n}, found' = TRUE
        PROVE  Ordered!Search(k)
    <3>1. key'[n] = k /\ \A m \in allocated : key'[m] = key[m]
      BY <2>3, <2>5 DEF Keyed
    <3>2. Kept' = Kept \cup {k}
      BY <2>5, <3>1
    <3> QED
      BY <2>1, <2>5, <3>2 DEF Ordered!Search
  <2>6. CASE Scarce /\ (\A m \in allocated : key[m] # k) /\ found' = FALSE
             /\ UNCHANGED <<root, key, left, right, allocated>>
    <3>1. Kept' = Kept /\ k \notin Kept /\ Scarce /\ found' = FALSE
      BY <2>6
    <3> QED
      BY <2>1, <3>1 DEF Ordered!Search
  <2> QED
    BY <2>1, <2>4, <2>5, <2>6 DEF Searched
<1>3. ASSUME TreeInv, HoldsItsNodes, HoldsItsNodes', NEW k \in Keys, tfind(k) PROVE Ordered!Find(k)
  <2>1. Held = Kept /\ Held' = Kept'
    BY <1>3 DEF HoldsItsNodes
  <2>2. Kept' = Kept
    BY <1>3, FindKeeps
  <2>3. found' \in BOOLEAN /\ (found' <=> k \in Kept)
    BY <1>3, FindKeeps DEF TreeInv
  <2>4. found' = (k \in Kept)
    <3> HIDE DEF Kept
    <3> QED
      BY <2>3
  <2> QED
    BY <2>1, <2>2, <2>4 DEF Ordered!Find
<1>4. ASSUME TreeInv, HoldsItsNodes, HoldsItsNodes', NEW k \in Keys, tdelete(k) PROVE Ordered!Delete(k)
  <2>1. Deleted(k) /\ Held = Kept /\ Held' = Kept'
    BY <1>4, DeleteKeeps DEF HoldsItsNodes
  <2>2. PICK u : Now(u)
    BY <1>4 DEF TreeInv
  <2>3. CASE (\A m \in allocated : key[m] # k) /\ found' = FALSE
             /\ UNCHANGED <<root, key, left, right, allocated>>
    <3>1. Kept' = Kept /\ found' = FALSE
      BY <2>3
    <3>2. k \notin Kept
      BY <2>3
    <3>3. Kept' = Kept \ {k}
      BY <3>1, <3>2
    <3>4. found' \in BOOLEAN /\ (found' <=> k \in Kept)
      BY <3>1, <3>2
    <3>5. found' = (k \in Kept)
      <4> HIDE DEF Kept
      <4> QED
        BY <3>4
    <3> QED
      BY <2>1, <3>3, <3>5 DEF Ordered!Delete
  <2>4. ASSUME NEW x \in allocated, key[x] = k, found' = TRUE, key' = Forgot(x), allocated' = allocated \ {x}
        PROVE  Ordered!Delete(k)
    <3>1. /\ \A m \in allocated \ {x} : key'[m] = key[m]
          /\ \A m \in allocated : key[m] = k => m = x
      BY <2>2, <2>4, ForgotIs DEF Now, Sorted
    <3>2. Kept' = Kept \ {k} /\ k \in Kept
      BY <2>4, <3>1
    <3> QED
      BY <2>1, <2>4, <3>2 DEF Ordered!Delete
  <2> QED
    BY <2>1, <2>3, <2>4 DEF Deleted
<1>5. TreeInv /\ HoldsItsNodes /\ HoldsItsNodes' => [CallsAsNamed]_treeVars
  BY <1>2, <1>3, <1>4
<1> QED
  BY <1>1, <1>5, TreeInvariant, HoldsItsNodesHolds, PTL DEF TreeSpec, IsAnOrderedSet

-----------------------------------------------------------------------------
(* The walk                                                                 *)

Visit == [node : Kin, which : {"leaf", "preorder", "postorder", "endorder"}]

\* The visits of v at which a key is taken.
MetIn(v) == {i \in DOMAIN v : v[i].which \in Met}

\* The visits v meet the nodes a in the order of their keys.
Meets(v, a) ==
    /\ v \in Seq(Visit)
    /\ {v[i].node : i \in MetIn(v)} = a
    /\ \A i, j \in MetIn(v) : i < j => key[v[i].node] < key[v[j].node]

LEMMA OneMeets ==
  ASSUME NEW n \in Nodes
  PROVE  /\ Meets(<<>>, {})
         /\ Meets(<<[node |-> n, which |-> "leaf"]>>, {n})
         /\ Meets(<<[node |-> n, which |-> "preorder"]>>, {})
         /\ Meets(<<[node |-> n, which |-> "postorder"]>>, {n})
         /\ Meets(<<[node |-> n, which |-> "endorder"]>>, {})
<1>1. Meets(<<>>, {})
  BY DEF Meets, MetIn
<1>2. ASSUME NEW r \in Visit, r.node = n
      PROVE  Meets(<<r>>, IF r.which \in Met THEN {n} ELSE {})
  <2> DEFINE v == <<r>>
  <2>1. v \in Seq(Visit) /\ DOMAIN v = {1} /\ v[1] = r
    OBVIOUS
  <2> HIDE DEF v
  <2>2. MetIn(v) = IF r.which \in Met THEN {1} ELSE {}
    BY <2>1 DEF MetIn
  <2> QED
    BY <1>2, <2>1, <2>2 DEF Meets, v
<1>3. ASSUME NEW h \in {"leaf", "preorder", "postorder", "endorder"}
      PROVE  [node |-> n, which |-> h] \in Visit
  BY DEF Visit, Kin
<1> QED
  BY <1>1, <1>2, <1>3 DEF Met

\* What is met in one walk after another.
LEMMA MeetsBoth ==
  ASSUME NEW v, NEW a, Meets(v, a), NEW w, NEW b, Meets(w, b),
         \A m \in a : \A n \in b : key[m] < key[n]
  PROVE  Meets(v \o w, a \cup b)
<1> DEFINE z == v \o w
           n == Len(v)
<1>1. /\ v \in Seq(Visit) /\ w \in Seq(Visit) /\ n \in Nat /\ Len(w) \in Nat
      /\ DOMAIN v = 1 .. n /\ DOMAIN w = 1 .. Len(w)
  BY DEF Meets
<1>2. /\ z \in Seq(Visit) /\ DOMAIN z = 1 .. n + Len(w)
      /\ \A i \in 1 .. n + Len(w) : z[i] = IF i <= n THEN v[i] ELSE w[i - n]
  BY <1>1, ConcatProperties, LenProperties
<1> HIDE DEF z, n
<1>3. \A i \in DOMAIN z : \/ i \in DOMAIN v /\ z[i] = v[i]
                          \/ i > n /\ i - n \in DOMAIN w /\ z[i] = w[i - n]
  BY <1>1, <1>2
<1>4. \A i \in DOMAIN v : i \in DOMAIN z /\ z[i] = v[i]
  BY <1>1, <1>2
<1>5. \A i \in DOMAIN w : i + n \in DOMAIN z /\ z[i + n] = w[i]
  BY <1>1, <1>2
<1>6. \A i \in MetIn(z) : \/ i \in MetIn(v) /\ z[i] = v[i]
                          \/ i > n /\ i - n \in MetIn(w) /\ z[i] = w[i - n]
  BY <1>3 DEF MetIn
<1>7. {z[i].node : i \in MetIn(z)} = a \cup b
  <2>1. \A i \in MetIn(z) : z[i].node \in a \cup b
    BY <1>6 DEF Meets
  <2>2. \A m \in a : \E i \in MetIn(z) : m = z[i].node
    <3> SUFFICES ASSUME NEW m \in a PROVE \E i \in MetIn(z) : m = z[i].node
      OBVIOUS
    <3>1. PICK i \in MetIn(v) : m = v[i].node
      BY DEF Meets
    <3> QED
      BY <1>4, <3>1 DEF MetIn
  <2>3. \A m \in b : \E i \in MetIn(z) : m = z[i].node
    <3> SUFFICES ASSUME NEW m \in b PROVE \E i \in MetIn(z) : m = z[i].node
      OBVIOUS
    <3>1. PICK i \in MetIn(w) : m = w[i].node
      BY DEF Meets
    <3> QED
      BY <1>5, <3>1 DEF MetIn
  <2> QED
    BY <2>1, <2>2, <2>3
<1>8. ASSUME NEW i \in MetIn(z), NEW j \in MetIn(z), i < j PROVE key[z[i].node] < key[z[j].node]
  <2>1. i \in Int /\ j \in Int /\ i \in DOMAIN z /\ j \in DOMAIN z
    BY <1>2 DEF MetIn
  <2>2. CASE i \in MetIn(v) /\ z[i] = v[i] /\ j \in MetIn(v) /\ z[j] = v[j]
    BY <1>8, <2>2 DEF Meets
  <2>3. CASE i > n /\ i - n \in MetIn(w) /\ z[i] = w[i - n] /\ j > n /\ j - n \in MetIn(w) /\ z[j] = w[j - n]
    <3>1. i - n < j - n
      BY <1>1, <1>8, <2>1
    <3> QED
      BY <2>3, <3>1 DEF Meets
  <2>4. CASE i \in MetIn(v) /\ z[i] = v[i] /\ j > n /\ j - n \in MetIn(w) /\ z[j] = w[j - n]
    <3>1. v[i].node \in a /\ w[j - n].node \in b
      BY <2>4 DEF Meets
    <3> QED
      BY <2>4, <3>1
  <2>5. ~ (i > n /\ j \in MetIn(v))
    BY <1>1, <1>8, <2>1 DEF MetIn
  <2> QED
    BY <1>6, <2>2, <2>3, <2>4, <2>5
<1> QED
  BY <1>2, <1>7, <1>8 DEF Meets, z

Walks == [Kin -> Seq(Visit)]

\* The visits, one level of the tree more from turn to turn.
Higher(f) == [n \in Kin |-> trecurse(n, f)]

LEMMA HigherWalks ==
  ASSUME NEW u, Now(u), NEW f \in Walks
  PROVE  Higher(f) \in Walks
<1> SUFFICES ASSUME NEW n \in Kin PROVE trecurse(n, f) \in Seq(Visit)
  BY DEF Higher, Walks
<1>1. n # Nil => n \in Nodes /\ f[left[n]] \in Seq(Visit) /\ f[right[n]] \in Seq(Visit)
  BY NowIs DEF Walks, Kin
<1>2. n # Nil => /\ <<[node |-> n, which |-> "leaf"]>> \in Seq(Visit)
                 /\ <<[node |-> n, which |-> "preorder"]>> \in Seq(Visit)
                 /\ <<[node |-> n, which |-> "postorder"]>> \in Seq(Visit)
                 /\ <<[node |-> n, which |-> "endorder"]>> \in Seq(Visit)
  BY <1>1, OneMeets DEF Meets
<1>3. <<>> \in Seq(Visit)
  OBVIOUS
<1> QED
  BY <1>1, <1>2, <1>3, ConcatProperties DEF trecurse

Climbs(w) ==
    /\ w \in [0 .. N -> Walks] /\ w[0] = [n \in Kin |-> <<>>]
    /\ \A i \in 1 .. N : w[i] = Higher(w[i - 1])

LEMMA WalkIs ==
  ASSUME NEW u, Now(u)
  PROVE  \E w : Climbs(w) /\ twalk = w[N][root]
<1> DEFINE none == [n \in Kin |-> <<>>]
           IsLoop(g) == g = [d \in 0 .. N |->
               [n \in Kin |-> IF d = 0 THEN <<>> ELSE trecurse(n, g[d - 1])]]
           w == CHOOSE g : IsLoop(g)
           turn == [f \in Walks |-> Higher(f)]
           step == [i \in 1 .. N |-> turn]
<1>1. N \in Nat /\ 0 \in 0 .. N /\ N \in 0 .. N
  BY NodesCount
<1>2. step \in Steps(N, Walks) /\ none \in Walks
  <2>1. none \in Walks
    BY DEF Walks
  <2>2. turn \in [Walks -> Walks]
    BY HigherWalks
  <2> HIDE DEF turn
  <2> QED
    BY <2>1, <2>2 DEF Steps
<1>3. PICK f \in [0 .. N -> Walks] : f[0] = none /\ \A i \in 1 .. N : f[i] = step[i][f[i - 1]]
  <2> HIDE DEF step, none
  <2> QED
    BY <1>1, <1>2, Recursion
<1>4. \A i \in 1 .. N : i \in 0 .. N /\ i - 1 \in 0 .. N /\ i # 0 /\ f[i] = Higher(f[i - 1])
  <2>1. \A i \in 1 .. N : i \in 0 .. N /\ i - 1 \in 0 .. N /\ i # 0
    BY <1>1
  <2>2. \A i \in 1 .. N : step[i] = turn /\ f[i - 1] \in Walks
    BY <1>3, <2>1
  <2> QED
    BY <1>3, <2>1, <2>2
<1>5. \A i \in 0 .. N : i = 0 \/ i \in 1 .. N
  BY <1>1
<1>6. IsLoop(f)
  <2> HIDE DEF step
  <2>1. ASSUME NEW d \in 0 .. N
        PROVE  f[d] = [n \in Kin |-> IF d = 0 THEN <<>> ELSE trecurse(n, f[d - 1])]
    <3>1. CASE d = 0
      BY <1>3, <3>1
    <3>2. CASE d \in 1 .. N
      <4>1. f[d] = Higher(f[d - 1]) /\ d # 0
        BY <1>4, <3>2
      <4> QED
        BY <4>1 DEF Higher
    <3> QED
      BY <1>5, <3>1, <3>2
  <2> QED
    BY <1>3, <2>1
<1>7. IsLoop(w)
  <2> HIDE DEF IsLoop
  <2> QED
    BY <1>6
<1>8. w[0] = none /\ \A i \in 1 .. N : w[i] = Higher(w[i - 1])
  <2> HIDE DEF w
  <2>1. \A d \in 0 .. N : w[d] = [n \in Kin |-> IF d = 0 THEN <<>> ELSE trecurse(n, w[d - 1])]
    BY <1>7
  <2>2. w[0] = none
    BY <1>1, <2>1
  <2>3. ASSUME NEW i \in 1 .. N PROVE w[i] = Higher(w[i - 1])
    <3>1. i # 0 /\ i \in 0 .. N
      BY <1>4
    <3>2. w[i] = [n \in Kin |-> trecurse(n, w[i - 1])]
      BY <2>1, <3>1
    <3> QED
      BY <3>2 DEF Higher
  <2> QED
    BY <2>2, <2>3
<1>9. w = [d \in 0 .. N |-> w[d]]
  <2> HIDE DEF w
  <2>1. w = [d \in 0 .. N |-> [n \in Kin |-> IF d = 0 THEN <<>> ELSE trecurse(n, w[d - 1])]]
    BY <1>7
  <2>2. DOMAIN w = 0 .. N /\ \A d \in 0 .. N : w[d] = [n \in Kin |-> IF d = 0 THEN <<>> ELSE trecurse(n, w[d - 1])]
    BY <2>1
  <2> QED
    BY <2>1, <2>2
<1>10. \A i \in 0 .. N : w[i] \in Walks
  <2> DEFINE S == {i \in 0 .. N : w[i] \in Walks}
  <2> HIDE DEF w
  <2>1. 0 \in S
    BY <1>1, <1>2, <1>8
  <2>2. \A i \in 1 .. N : i - 1 \in S => i \in S
    BY <1>4, <1>8, HigherWalks
  <2>3. \A i \in 0 .. N : i \in S
    <3> HIDE DEF S
    <3> QED
      BY <1>1, <2>1, <2>2, UpTo
  <2> QED
    BY <2>3
<1>11. twalk = w[N][root]
  BY DEF twalk, N, Kin
<1>12. Climbs(w)
  <2> HIDE DEF w
  <2> QED
    BY <1>8, <1>9, <1>10 DEF Climbs
<1> HIDE DEF w
<1> QED
  BY <1>11, <1>12

\* The visits f are right for the trees of up to d nodes.
Correct(u, f, d) == \A c \in allocated \cup {Nil} :
    Cardinality(Part(u, c)) <= d => Meets(f[c], Part(u, c))

LEMMA HigherMeets ==
  ASSUME NEW u, Now(u), NEW f \in Walks, NEW d \in Nat, Correct(u, f, d)
  PROVE  Correct(u, Higher(f), d + 1)
<1> SUFFICES ASSUME NEW c \in allocated \cup {Nil}, Cardinality(Part(u, c)) <= d + 1
             PROVE  Meets(trecurse(c, f), Part(u, c))
  <2>1. allocated \cup {Nil} \subseteq Kin
    BY NowIs DEF Kin
  <2> QED
    BY <2>1 DEF Correct, Higher
<1>1. CASE c = Nil
  <2>1. trecurse(c, f) = <<>> /\ Part(u, c) = {}
    BY <1>1 DEF trecurse, Part
  <2>2. Meets(<<>>, {})
    BY DEF Meets, MetIn
  <2> QED
    BY <2>1, <2>2
<1>2. CASE c # Nil
  <2> DEFINE L == Part(u, left[c])
             R == Part(u, right[c])
             one(h) == <<[node |-> c, which |-> h]>>
  <2>1. /\ c \in allocated /\ c \in Nodes /\ Branches(u, c) /\ u[c] = L \cup {c} \cup R /\ Part(u, c) = u[c]
        /\ \A m \in allocated : key[m] \in Int
    BY <1>2, BranchesAre, Sides, NowIs DEF Branches, Part
  <2>2. L = {z \in u[c] : key[z] < key[c]} /\ R = {z \in u[c] : key[z] > key[c]} /\ c \in u[c] /\ u[c] \subseteq allocated
    BY <2>1 DEF Branches
  <2> HIDE DEF L, R
  <2>3. Cardinality(L) <= d /\ Cardinality(R) <= d
    <3>1. IsFiniteSet(u[c]) /\ Cardinality(u[c]) \in Nat /\ Cardinality(L) \in Nat /\ Cardinality(R) \in Nat
      BY <2>1, <2>2, NodesCount, NowIs
    <3>2. L \subseteq u[c] /\ R \subseteq u[c] /\ L # u[c] /\ R # u[c]
      BY <2>1, <2>2
    <3>3. /\ Cardinality(L) <= Cardinality(u[c]) /\ Cardinality(L) # Cardinality(u[c])
          /\ Cardinality(R) <= Cardinality(u[c]) /\ Cardinality(R) # Cardinality(u[c])
      BY <3>1, <3>2, FS_Subset
    <3> QED
      BY <2>1, <3>1, <3>3
  <2>4. Meets(f[left[c]], L) /\ Meets(f[right[c]], R)
    BY <2>1, <2>3 DEF Correct, Branches, L, R
  <2>5. /\ Meets(one("leaf"), {c}) /\ Meets(one("preorder"), {})
        /\ Meets(one("postorder"), {c}) /\ Meets(one("endorder"), {})
    BY <2>1, OneMeets
  <2> HIDE DEF one
  <2>6. CASE left[c] = Nil /\ right[c] = Nil
    <3>1. trecurse(c, f) = one("leaf") /\ L = {} /\ R = {}
      BY <1>2, <2>6 DEF trecurse, one, L, R, Part
    <3> QED
      BY <2>1, <2>5, <3>1
  <2>7. CASE ~ (left[c] = Nil /\ right[c] = Nil)
    <3>1. trecurse(c, f) = one("preorder") \o f[left[c]] \o one("postorder") \o f[right[c]] \o one("endorder")
      BY <1>2, <2>7 DEF trecurse, one
    <3>2. Meets(one("preorder") \o f[left[c]], {} \cup L)
      BY <2>4, <2>5, MeetsBoth
    <3>3. Meets(one("preorder") \o f[left[c]] \o one("postorder"), ({} \cup L) \cup {c})
      <4>1. \A m \in {} \cup L : \A n \in {c} : key[m] < key[n]
        BY <2>2
      <4> QED
        BY <2>5, <3>2, <4>1, MeetsBoth
    <3>4. Meets(one("preorder") \o f[left[c]] \o one("postorder") \o f[right[c]], (({} \cup L) \cup {c}) \cup R)
      <4>1. \A m \in ({} \cup L) \cup {c} : \A n \in R : key[m] < key[n]
        BY <2>1, <2>2
      <4> QED
        BY <2>4, <3>3, <4>1, MeetsBoth
    <3>5. Meets(one("preorder") \o f[left[c]] \o one("postorder") \o f[right[c]] \o one("endorder"),
                ((({} \cup L) \cup {c}) \cup R) \cup {})
      BY <2>5, <3>4, MeetsBoth
    <3>6. ((({} \cup L) \cup {c}) \cup R) \cup {} = Part(u, c)
      BY <2>1
    <3> QED
      BY <3>1, <3>5, <3>6
  <2> QED
    BY <2>6, <2>7
<1> QED
  BY <1>1, <1>2

LEMMA WalkMeets ==
  ASSUME NEW u, Now(u)
  PROVE  Meets(twalk, allocated)
<1>1. PICK w : Climbs(w) /\ twalk = w[N][root]
  BY WalkIs
<1>2. N \in Nat
  BY NodesCount
<1> DEFINE S == {i \in 0 .. N : Correct(u, w[i], i)}
<1>3. 0 \in S
  <2> SUFFICES ASSUME NEW c \in allocated \cup {Nil}, Cardinality(Part(u, c)) <= 0 PROVE Meets(w[0][c], Part(u, c))
    BY <1>2 DEF Correct
  <2>1. Part(u, c) \in SUBSET Nodes
    BY BranchesAre, NowIs DEF Branches, Part
  <2>2. Cardinality(Part(u, c)) = 0 /\ IsFiniteSet(Part(u, c))
    BY <2>1, NodesCount
  <2>3. Part(u, c) = {}
    BY <2>2, FS_EmptySet
  <2>4. w[0][c] = <<>>
    BY <1>1, NowIs DEF Climbs, Kin
  <2>5. Meets(<<>>, {})
    BY DEF Meets, MetIn
  <2> QED
    BY <2>3, <2>4, <2>5
<1>4. ASSUME NEW i \in 1 .. N, i - 1 \in S PROVE i \in S
  <2>1. w[i - 1] \in Walks /\ i - 1 \in Nat /\ w[i] = Higher(w[i - 1]) /\ i \in 0 .. N
    BY <1>1, <1>2, <1>4 DEF Climbs
  <2>2. Correct(u, w[i], (i - 1) + 1)
    BY <1>4, <2>1, HigherMeets
  <2>3. (i - 1) + 1 = i
    OBVIOUS
  <2> QED
    BY <2>1, <2>2, <2>3
<1>5. N \in S
  <2> HIDE DEF S
  <2>1. \A i \in 0 .. N : i \in S
    BY <1>2, <1>3, <1>4, UpTo
  <2> QED
    BY <1>2, <2>1
<1>6. root \in allocated \cup {Nil} /\ Part(u, root) = allocated /\ Cardinality(allocated) <= N
  BY NowIs, NodesCount DEF Now, Sorted
<1> QED
  BY <1>1, <1>5, <1>6 DEF Correct

\* The walk meets every key once and in order.
THEOREM WalksInOrderHolds == TreeSpec => []WalksInOrder
<1>1. ASSUME TreeInv PROVE WalksInOrder
  <2>1. PICK u : Now(u)
    BY <1>1 DEF TreeInv
  <2>2. Meets(twalk, allocated)
    BY <2>1, WalkMeets
  <2> QED
    BY <2>2 DEF Meets, MetIn, WalksInOrder
<1> QED
  BY <1>1, TreeInvariant, PTL
===============================================================================
