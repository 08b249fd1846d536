---------------------------- MODULE MallocProofs ----------------------------
(***************************************************************************)
(* The allocator's invariants, for every word size, heap, request and      *)
(* order of calls.  Inv is inductive: the order of the ring and the gaps   *)
(* between holes are what make the arithmetic of free's merge and of       *)
(* malloc's split stay inside one block.                                   *)
(***************************************************************************)
EXTENDS Malloc, TLAPS

\* The one thing the callers must not do: ask realloc for a size whose sum
\* with the header overflows a size_t.  malloc tests for it, realloc does not.
ASSUME ReallocFits == \A s \in ReallocSizes : s + 2 * Unit - 1 < Word

\* The segment: the root below the BSS, the BSS below the break.
Segment == Root + Unit <= initbrk /\ initbrk <= curbrk /\ size[Root] = 0

Shape == Segment /\ BlocksDisjoint /\ RingOrdered /\ HolesApart

\* What the variables of an active call mean.
CallOK ==
    /\ pc = "scan" => p \in holes /\ prev \in holes /\ p = next[prev]
    /\ pc \in {"free", "growfree"} => p \in holes /\ mh # Root /\ size[mh] >= 1
    /\ pc \in {"scan", "growfree"} =>
          /\ nblocks >= 1 /\ Unit * nblocks < Word
          /\ want + Unit <= Unit * nblocks
          /\ op = "realloc" => old \in Live /\ size[old] < nblocks
    /\ pc = "return" =>
          /\ op = "realloc" => old \in Live
          /\ ret # NULL => /\ ret - Unit \in Live
                           /\ req[ret - Unit] = want
                           /\ op = "realloc" => size[old] < size[ret - Unit]

Inv == TypeOK /\ Shape /\ CapacityHeld /\ CallOK

-----------------------------------------------------------------------------
(* Arithmetic                                                               *)

\* A sum that passes malloc's overflow test has not wrapped, and the units it
\* makes hold the header and the bytes asked for.
LEMMA RoundedHolds ==
  ASSUME NEW s \in Words, Rounded(s) >= s
  PROVE  /\ Rounded(s) = s + 2 * Unit - 1
         /\ Rounded(s) \div Unit \in Words
         /\ Rounded(s) \div Unit >= 1
         /\ Unit * (Rounded(s) \div Unit) < Word
         /\ s + Unit <= Unit * (Rounded(s) \div Unit)
<1> USE WordAssumption, MallocAssumption DEF Unit, Words
<1>1. s + 7 < 2 * Word
  OBVIOUS
<1>2. CASE s + 7 >= Word
  <2>1. s + 7 - Word \in 0 .. Word - 1 /\ s + 7 - Word < s
    BY <1>1, <1>2
  <2>2. (s + 7) % Word = s + 7 - Word
    BY <2>1
  <2> QED
    BY <2>1, <2>2 DEF Rounded
<1>3. CASE s + 7 < Word
  <2>1. Rounded(s) = s + 7
    BY <1>3 DEF Rounded
  <2> QED
    BY <2>1, <1>3
<1> QED
  BY <1>2, <1>3

\* An address that does not wrap below itself has not wrapped (brkmore).
LEMMA WrapTest ==
  ASSUME NEW x \in Words, NEW d \in Nat, d < Word, (x + d) % Word >= x
  PROVE  (x + d) % Word = x + d
<1> USE WordAssumption DEF Words
<1>1. CASE x + d >= Word
  <2>1. x + d - Word \in 0 .. Word - 1 /\ x + d - Word < x
    BY <1>1
  <2>2. (x + d) % Word = x + d - Word
    BY <2>1
  <2> QED
    BY <2>1, <2>2
<1>2. CASE x + d < Word
  BY <1>2
<1> QED
  BY <1>1, <1>2

-----------------------------------------------------------------------------
(* Rings                                                                    *)

\* A hole that is not above a is no successor's business: what follows r in H
\* follows its predecessor q once r is gone.
LEMMA SuccessorSkips ==
  ASSUME NEW H, H \subseteq Nat, NEW q \in H, NEW r \in H, NEW n \in H, Root \in H,
         IsSuccessor(H, q, r), IsSuccessor(H, r, n), r # Root
  PROVE  /\ n # r /\ IsSuccessor(H \ {r}, q, n)
         /\ \A a \in H \ {q} : ~ IsSuccessor(H, a, r)
<1>1. r > q /\ \A c \in H : c <= q \/ c >= r
  BY DEF IsSuccessor
<1>2. n # r
  BY DEF IsSuccessor
<1>3. CASE n > r /\ \A c \in H : c <= r \/ c >= n
  <2>1. \A c \in H \ {r} : c <= q \/ c >= n
    BY <1>1, <1>3
  <2> QED
    BY <1>1, <1>3, <2>1 DEF IsSuccessor
<1>4. CASE n = Root /\ \A c \in H : c <= r
  <2>1. \A c \in H \ {r} : c <= q
    BY <1>1, <1>4
  <2> QED
    BY <1>4, <2>1 DEF IsSuccessor
<1>5. IsSuccessor(H \ {r}, q, n)
  BY <1>3, <1>4 DEF IsSuccessor
<1>6. ASSUME NEW a \in H \ {q}, IsSuccessor(H, a, r) PROVE FALSE
  <2>1. r > a /\ \A c \in H : c <= a \/ c >= r
    BY <1>6 DEF IsSuccessor
  <2>2. a <= q /\ q <= a
    BY <1>1, <2>1
  <2> QED
    BY <2>2
<1> QED
  BY <1>2, <1>5, <1>6

\* The next hole leaves the ring.
LEMMA RingRemove ==
  ASSUME NEW H, H \subseteq Nat, NEW f, NEW g,
         IsRing(H, f), NEW q \in H, f[q] # Root,
         g[q] = f[f[q]], \A a \in H : a # q /\ a # f[q] => g[a] = f[a],
         NEW K, K = H \ {f[q]}
  PROVE  IsRing(K, g)
<1> DEFINE r == f[q]
           n == f[r]
<1>1. r \in H /\ n \in H /\ Root \in H /\ IsSuccessor(H, q, r) /\ IsSuccessor(H, r, n)
  BY DEF IsRing
<1>2. /\ n # r /\ IsSuccessor(H \ {r}, q, n) /\ q # r
      /\ \A a \in H \ {q} : ~ IsSuccessor(H, a, r)
  <2> HIDE DEF r, n
  <2>1. /\ n # r /\ IsSuccessor(H \ {r}, q, n)
        /\ \A a \in H \ {q} : ~ IsSuccessor(H, a, r)
    BY <1>1, SuccessorSkips DEF r
  <2>2. q # r
    BY <1>1 DEF IsSuccessor, r
  <2> QED
    BY <2>1, <2>2
<1>3. ASSUME NEW a \in H \ {r}, a # q
      PROVE  g[a] \in H \ {r} /\ IsSuccessor(H \ {r}, a, g[a])
  <2>1. g[a] = f[a] /\ f[a] \in H /\ IsSuccessor(H, a, f[a])
    BY <1>3 DEF IsRing
  <2>2. f[a] # r
    BY <1>2, <1>3, <2>1
  <2> QED
    BY <2>1, <2>2 DEF IsSuccessor
<1>4. g[q] \in H \ {r} /\ IsSuccessor(H \ {r}, q, g[q])
  BY <1>1, <1>2
<1>5. Root \in H \ {r}
  BY <1>1
<1> QED
  BY <1>3, <1>4, <1>5 DEF IsRing

\* Where a new member m of H goes: between q and q's successor n.
LEMMA SuccessorSplits ==
  ASSUME NEW H, H \subseteq Nat, Root \in H, NEW q \in H, NEW n \in H, NEW m \in Nat,
         m \notin H, q < m, Root < m,
         \A c \in H : c <= q \/ c > m,
         IsSuccessor(H, q, n)
  PROVE  /\ IsSuccessor(H \cup {m}, q, m) /\ IsSuccessor(H \cup {m}, m, n)
         /\ \A a, b \in H : a # q /\ IsSuccessor(H, a, b) => IsSuccessor(H \cup {m}, a, b)
<1>1. IsSuccessor(H \cup {m}, q, m)
  <2>1. \A c \in H \cup {m} : c <= q \/ c >= m
    OBVIOUS
  <2> QED
    BY <2>1 DEF IsSuccessor
<1>2. CASE n > q /\ \A c \in H : c <= q \/ c >= n
  <2>1. n > m /\ \A c \in H \cup {m} : c <= m \/ c >= n
    BY <1>2
  <2> QED
    BY <2>1 DEF IsSuccessor
<1>3. CASE n = Root /\ \A c \in H : c <= q
  <2>1. \A c \in H \cup {m} : c <= m
    BY <1>3
  <2> QED
    BY <1>3, <2>1 DEF IsSuccessor
<1>4. IsSuccessor(H \cup {m}, m, n)
  BY <1>2, <1>3 DEF IsSuccessor
<1>5. ASSUME NEW a \in H, NEW b \in H, a # q, IsSuccessor(H, a, b)
      PROVE  IsSuccessor(H \cup {m}, a, b)
  <2>1. CASE b > a /\ \A c \in H : c <= a \/ c >= b
    <3>1. m <= a \/ m >= b
      <4>1. CASE a > m
        BY <4>1
      <4>2. CASE a < q
        BY <2>1, <4>2
      <4> QED
        BY <1>5, <4>1, <4>2
    <3> QED
      BY <2>1, <3>1 DEF IsSuccessor
  <2>2. CASE b = Root /\ \A c \in H : c <= a
    <3>1. q < a
      BY <1>5, <2>2
    <3>2. m <= a
      BY <3>1
    <3> QED
      BY <2>2, <3>2 DEF IsSuccessor
  <2> QED
    BY <1>5, <2>1, <2>2 DEF IsSuccessor
<1> QED
  BY <1>1, <1>4, <1>5

\* A block above the root joins the ring after the highest hole below it.
LEMMA RingInsert ==
  ASSUME NEW H, H \subseteq Nat, NEW f, NEW g,
         IsRing(H, f), NEW q \in H, NEW m \in Nat, m \notin H, q < m, Root < m,
         \A c \in H : c <= q \/ c > m,
         g[q] = m, g[m] = f[q], \A a \in H : a # q => g[a] = f[a],
         NEW K, K = H \cup {m}
  PROVE  IsRing(K, g)
<1> DEFINE n == f[q]
<1>1. n \in H /\ Root \in H /\ IsSuccessor(H, q, n)
  BY DEF IsRing
<1>2. /\ IsSuccessor(H \cup {m}, q, m) /\ IsSuccessor(H \cup {m}, m, n)
      /\ \A a, b \in H : a # q /\ IsSuccessor(H, a, b) => IsSuccessor(H \cup {m}, a, b)
  <2> HIDE DEF n
  <2> QED
    BY <1>1, SuccessorSplits
<1>3. ASSUME NEW a \in H, a # q
      PROVE  g[a] \in H /\ IsSuccessor(H \cup {m}, a, g[a])
  <2>1. g[a] = f[a] /\ f[a] \in H /\ IsSuccessor(H, a, f[a])
    BY <1>3 DEF IsRing
  <2> QED
    BY <1>2, <1>3, <2>1
<1> QED
  BY <1>1, <1>2, <1>3 DEF IsRing

\* Only the links of the holes make the ring.
LEMMA RingFrame ==
  ASSUME NEW H, NEW f, NEW g, IsRing(H, f), \A a \in H : g[a] = f[a]
  PROVE  IsRing(H, g)
BY DEF IsRing

-----------------------------------------------------------------------------
(* Layouts                                                                  *)

\* A block of the layout is cut in two.
LEMMA LayoutSplit ==
  ASSUME NEW B, B \subseteq Nat, NEW sz, NEW tz, NEW lo \in Nat, NEW hi \in Nat,
         \A b \in B : sz[b] \in Nat, LaidOut(B, sz, lo, hi),
         NEW b \in B, NEW k \in Nat, 1 <= k, k < sz[b],
         tz[b] = k, tz[b + Unit * k] = sz[b] - k,
         \A c \in B : c # b => tz[c] = sz[c],
         NEW C, C = B \cup {b + Unit * k}
  PROVE  LaidOut(C, tz, lo, hi) /\ b + Unit * k \notin B
<1> USE DEF Unit
<1> DEFINE h == b + 4 * k
<1>1. h \in Nat /\ h > b /\ h + 4 * tz[h] = b + 4 * sz[b] /\ tz[h] >= 1 /\ tz[h] \in Nat
  OBVIOUS
<1>2. \A c \in B : c <= b \/ c >= b + 4 * sz[b]
  BY DEF LaidOut
<1>3. h \notin B
  BY <1>1, <1>2
<1>4. \A c \in B \cup {h} : lo <= c /\ tz[c] >= 1 /\ c + 4 * tz[c] <= hi
  BY <1>1 DEF LaidOut
<1>5. \A c, d \in B : c < d => c + 4 * tz[c] <= d
  BY <1>1 DEF LaidOut
<1>6. \A c \in B : (c < h => c + 4 * tz[c] <= h) /\ (h < c => h + 4 * tz[h] <= c)
  BY <1>1, <1>2 DEF LaidOut
<1> QED
  BY <1>1, <1>3, <1>4, <1>5, <1>6 DEF LaidOut

\* Two blocks of the layout that touch, b and c, become one: the sizes are tz then.
Merges(B, sz, tz, lo, hi, b, c) ==
    /\ B \subseteq Nat /\ lo \in Nat /\ hi \in Nat
    /\ \A d \in B : sz[d] \in Nat
    /\ LaidOut(B, sz, lo, hi)
    /\ b \in B /\ c \in B /\ b + Unit * sz[b] = c
    /\ tz[b] = sz[b] + sz[c]
    /\ \A d \in B : d # b /\ d # c => tz[d] = sz[d]

LEMMA LayoutMerge ==
  ASSUME NEW B, NEW sz, NEW tz, NEW lo, NEW hi, NEW b, NEW c, Merges(B, sz, tz, lo, hi, b, c)
  PROVE  /\ LaidOut(B \ {c}, tz, lo, hi)
         /\ b < c /\ tz[b] \in Nat /\ b + Unit * tz[b] <= hi
<1> USE DEF Unit, Merges
<1>1. b < c /\ tz[b] \in Nat /\ b + 4 * tz[b] = c + 4 * sz[c]
  BY DEF LaidOut
<1>2. \A d \in B : d <= b \/ d >= c
  BY <1>1 DEF LaidOut
<1>3. \A d \in B \ {c} : lo <= d /\ tz[d] >= 1 /\ d + 4 * tz[d] <= hi
  BY <1>1 DEF LaidOut
<1>4. \A d, e \in B \ {c} : d < e => d + 4 * tz[d] <= e
  BY <1>1, <1>2 DEF LaidOut
<1> QED
  BY <1>1, <1>3, <1>4 DEF LaidOut

\* A block is added at the top.
LEMMA LayoutGrow ==
  ASSUME NEW B, B \subseteq Nat, NEW sz, NEW tz, NEW lo \in Nat, NEW hi \in Nat, lo <= hi,
         \A b \in B : sz[b] \in Nat, LaidOut(B, sz, lo, hi),
         NEW k \in Nat, 1 <= k, tz[hi] = k, \A b \in B : tz[b] = sz[b],
         NEW C, C = B \cup {hi}, NEW top, top = hi + Unit * k
  PROVE  LaidOut(C, tz, lo, top) /\ hi \notin B
<1> USE DEF Unit
<1>1. \A b \in B : b < hi /\ b + 4 * sz[b] <= hi
  BY DEF LaidOut
<1> QED
  BY <1>1 DEF LaidOut

-----------------------------------------------------------------------------
(* The bytes of a layout                                                    *)

\* The bytes in the blocks of B.
Cover(B, sz) == UNION {b .. b + Unit * sz[b] - 1 : b \in B}

Sizes(B, sz) == B \subseteq Nat /\ \A b \in B : sz[b] \in Nat

\* Block b of B is cut after k units.
Cut(B, sz, b, k, C, tz) ==
    /\ Sizes(B, sz)
    /\ b \in B /\ k \in Nat /\ k < sz[b] /\ b + Unit * k \notin B
    /\ C = B \cup {b + Unit * k}
    /\ tz[b] = k /\ tz[b + Unit * k] = sz[b] - k
    /\ \A c \in B : c # b => tz[c] = sz[c]

\* Blocks b and c of B, which touch, become one.
Merge(B, sz, b, c, C, tz) ==
    /\ Sizes(B, sz)
    /\ b \in B /\ c \in B /\ b # c /\ b + Unit * sz[b] = c
    /\ C = B \ {c}
    /\ tz[b] = sz[b] + sz[c]
    /\ \A d \in B : d # b /\ d # c => tz[d] = sz[d]

\* Block h is added to B, and ends at top.
Add(B, sz, h, top, C, tz) ==
    /\ Sizes(B, sz)
    /\ h \in Nat /\ tz[h] \in Nat /\ top = h + Unit * tz[h] /\ C = B \cup {h}
    /\ \A b \in B : tz[b] = sz[b]

LEMMA CoverIs ==
  ASSUME NEW B, NEW sz, Sizes(B, sz), NEW x
  PROVE  x \in Cover(B, sz) <=> x \in Int /\ \E b \in B : b <= x /\ x < b + Unit * sz[b]
<1>1. \A b \in B : x \in b .. b + Unit * sz[b] - 1 <=> x \in Int /\ b <= x /\ x < b + Unit * sz[b]
  <2> TAKE b \in B
  <2>1. b \in Int /\ Unit * sz[b] \in Int
    BY DEF Unit, Sizes
  <2>2. CASE x \in Int
    BY <2>1, <2>2
  <2>3. CASE x \notin Int
    BY <2>1, <2>3
  <2> QED
    BY <2>2, <2>3
<1>2. x \in Cover(B, sz) <=> \E b \in B : x \in b .. b + Unit * sz[b] - 1
  BY DEF Cover
<1> QED
  BY <1>1, <1>2

LEMMA CoverFrame ==
  ASSUME NEW B, NEW sz, NEW tz, \A b \in B : tz[b] = sz[b]
  PROVE  Cover(B, tz) = Cover(B, sz)
<1>1. ASSUME NEW x
      PROVE  x \in Cover(B, tz) <=> x \in Cover(B, sz)
  BY DEF Cover
<1> QED
  BY <1>1

\* A cut loses nothing,
LEMMA CoverCut ==
  ASSUME NEW B, NEW sz, NEW b, NEW k, NEW C, NEW tz, Cut(B, sz, b, k, C, tz)
  PROVE  Cover(C, tz) = Cover(B, sz)
<1> DEFINE h == b + Unit * k
<1>1. /\ b \in B /\ b \in Nat /\ sz[b] \in Nat /\ h \in Nat /\ b <= h
      /\ h <= b + Unit * sz[b] /\ h + Unit * tz[h] = b + Unit * sz[b]
      /\ b + Unit * tz[b] = h /\ tz[b] \in Nat /\ tz[h] \in Nat
      /\ \A c \in B : c \in Nat /\ sz[c] \in Nat
      /\ C = B \cup {h} /\ h \notin B /\ \A c \in B : c # b => tz[c] = sz[c]
  BY DEF Cut, Unit, Sizes
<1> HIDE DEF h
<1>2. Sizes(C, tz) /\ Sizes(B, sz)
  BY <1>1 DEF Cut, Add, Sizes
<1>3. ASSUME NEW x
      PROVE  x \in Cover(C, tz) <=> x \in Cover(B, sz)
  <2>1. x \in Cover(C, tz) <=> x \in Int /\ \E c \in C : c <= x /\ x < c + Unit * tz[c]
    BY <1>2, CoverIs
  <2>2. x \in Cover(B, sz) <=> x \in Int /\ \E c \in B : c <= x /\ x < c + Unit * sz[c]
    BY <1>2, CoverIs
  <2>3. ASSUME x \in Int
        PROVE  b <= x /\ x < b + Unit * sz[b] <=>
                 (b <= x /\ x < b + Unit * tz[b]) \/ (h <= x /\ x < h + Unit * tz[h])
    BY <1>1, <2>3 DEF Unit
  <2>4. ASSUME x \in Int, NEW c \in C, c <= x, x < c + Unit * tz[c]
        PROVE  \E d \in B : d <= x /\ x < d + Unit * sz[d]
    <3>1. CASE c = b \/ c = h
      <4>1. b <= x /\ x < b + Unit * sz[b]
        BY <2>3, <2>4, <3>1, Zenon
      <4> QED
        BY <1>1, <4>1
    <3>2. CASE c # b /\ c # h
      BY <1>1, <2>4, <3>2
    <3> QED
      BY <3>1, <3>2
  <2>5. ASSUME x \in Int, NEW c \in B, c <= x, x < c + Unit * sz[c]
        PROVE  \E d \in C : d <= x /\ x < d + Unit * tz[d]
    <3>1. CASE c = b
      BY <1>1, <2>3, <2>5, <3>1
    <3>2. CASE c # b
      BY <1>1, <2>5, <3>2
    <3> QED
      BY <3>1, <3>2
  <2> QED
    BY <2>1, <2>2, <2>4, <2>5
<1> QED
  BY <1>3

\* a merge loses nothing,
LEMMA CoverMerge ==
  ASSUME NEW B, NEW sz, NEW b, NEW c, NEW C, NEW tz, Merge(B, sz, b, c, C, tz)
  PROVE  Cover(C, tz) = Cover(B, sz)
<1>1. /\ b \in B /\ c \in B /\ b # c /\ b \in Nat /\ c \in Nat /\ sz[b] \in Nat /\ sz[c] \in Nat
      /\ b <= c /\ b + Unit * tz[b] = c + Unit * sz[c] /\ b + Unit * sz[b] = c
      /\ tz[b] \in Nat /\ c <= c + Unit * sz[c]
      /\ \A d \in B : d \in Nat /\ sz[d] \in Nat
      /\ C = B \ {c} /\ \A d \in B : d # b /\ d # c => tz[d] = sz[d]
  BY DEF Merge, Unit, Sizes
<1>2. Sizes(C, tz) /\ Sizes(B, sz)
  BY <1>1 DEF Merge, Sizes
<1>3. ASSUME NEW x
      PROVE  x \in Cover(C, tz) <=> x \in Cover(B, sz)
  <2>1. x \in Cover(C, tz) <=> x \in Int /\ \E d \in C : d <= x /\ x < d + Unit * tz[d]
    BY <1>2, CoverIs
  <2>2. x \in Cover(B, sz) <=> x \in Int /\ \E d \in B : d <= x /\ x < d + Unit * sz[d]
    BY <1>2, CoverIs
  <2>3. ASSUME x \in Int
        PROVE  b <= x /\ x < b + Unit * tz[b] <=>
                 (b <= x /\ x < b + Unit * sz[b]) \/ (c <= x /\ x < c + Unit * sz[c])
    BY <1>1, <2>3 DEF Unit
  <2>4. ASSUME x \in Int, NEW d \in C, d <= x, x < d + Unit * tz[d]
        PROVE  \E e \in B : e <= x /\ x < e + Unit * sz[e]
    <3>1. CASE d = b
      BY <1>1, <2>3, <2>4, <3>1
    <3>2. CASE d # b
      BY <1>1, <2>4, <3>2
    <3> QED
      BY <3>1, <3>2
  <2>5. ASSUME x \in Int, NEW d \in B, d <= x, x < d + Unit * sz[d]
        PROVE  \E e \in C : e <= x /\ x < e + Unit * tz[e]
    <3>1. CASE d = b \/ d = c
      <4>1. b <= x /\ x < b + Unit * tz[b]
        BY <2>3, <2>5, <3>1, Zenon
      <4> QED
        BY <1>1, <4>1
    <3>2. CASE d # b /\ d # c
      BY <1>1, <2>5, <3>2
    <3> QED
      BY <3>1, <3>2
  <2> QED
    BY <2>1, <2>2, <2>4, <2>5
<1> QED
  BY <1>3

\* and a block that is added adds its bytes.
LEMMA CoverAdd ==
  ASSUME NEW B, NEW sz, NEW h, NEW top, NEW C, NEW tz, Add(B, sz, h, top, C, tz)
  PROVE  Cover(C, tz) = Cover(B, sz) \cup (h .. top - 1)
<1>1. /\ h \in Nat /\ tz[h] \in Nat /\ top = h + Unit * tz[h] /\ C = B \cup {h}
      /\ \A b \in B : tz[b] = sz[b] /\ b \in Nat /\ sz[b] \in Nat
  BY DEF Add, Sizes
<1>2. Sizes(C, tz) /\ Sizes(B, sz)
  BY <1>1 DEF Cut, Add, Sizes
<1>3. ASSUME NEW x
      PROVE  x \in Cover(C, tz) <=> x \in Cover(B, sz) \/ x \in h .. top - 1
  <2>1. x \in Cover(C, tz) <=> x \in Int /\ \E c \in C : c <= x /\ x < c + Unit * tz[c]
    BY <1>2, CoverIs
  <2>2. x \in Cover(B, sz) <=> x \in Int /\ \E c \in B : c <= x /\ x < c + Unit * sz[c]
    BY <1>2, CoverIs
  <2>3. x \in h .. top - 1 <=> x \in Int /\ h <= x /\ x < h + Unit * tz[h]
    BY <1>1 DEF Unit
  <2> QED
    BY <1>1, <2>1, <2>2, <2>3
<1> QED
  BY <1>3

-----------------------------------------------------------------------------
(* Steps that move no block                                                 *)

LEMMA Basics ==
  ASSUME TypeOK
  PROVE  /\ Word \in Nat /\ Words \subseteq Nat /\ Root \in Words
         /\ Blocks \subseteq Words /\ holes \subseteq Words /\ Live \subseteq Words
         /\ \A b \in Words : size[b] \in Words /\ next[b] \in Words
         /\ \A b \in Words : b \in Nat /\ size[b] \in Nat /\ b < Word
         /\ initbrk \in Nat /\ curbrk \in Nat /\ curbrk < Word /\ initbrk \in Words
        /\ curbrk \in Words /\ 0 \in Words /\ Failed \in Words
<1> USE WordAssumption, MallocAssumption DEF TypeOK, MemTypeOK
<1>1. Words \subseteq Nat /\ \A b \in Words : b < Word
  BY DEF Words
<1>2. Blocks \subseteq Words /\ holes \subseteq Words /\ Live \subseteq Words
  BY DEF Blocks, Loose
<1>3. \A b \in Words : size[b] \in Words /\ next[b] \in Words
  OBVIOUS
<1>4. 0 \in Words /\ Failed \in Words
  BY DEF Words, Failed
<1> QED
  BY <1>1, <1>2, <1>3, <1>4

\* The shape survives a step that moves no block: the blocks may change
\* hands, and the bytes inside them may change.
LEMMA ShapeFrame ==
  ASSUME Shape, TypeOK,
         initbrk' = initbrk, curbrk' \in Words, curbrk' >= curbrk,
         holes' = holes, freep' \in holes,
         Blocks' = Blocks,
         Loose' \cap (holes \cup Live') = {}, holes \cap Live' = {}, Root \notin Live',
         \A b \in Blocks \cup {Root} : size'[b] = size[b],
         \A a \in holes : next'[a] = next[a]
  PROVE  Shape'
<1>1. Segment'
  BY Basics, MallocAssumption DEF Shape, Segment, Unit
<1>2. LaidOut(Blocks, size', initbrk, curbrk')
  <2>1. /\ curbrk' \in Nat /\ curbrk \in Nat /\ initbrk \in Nat /\ curbrk <= curbrk'
        /\ Blocks \subseteq Nat /\ \A b \in Blocks : size[b] \in Nat
    BY Basics
  <2>2. LaidOut(Blocks, size, initbrk, curbrk) /\ \A b \in Blocks : size'[b] = size[b]
    BY DEF Shape, BlocksDisjoint
  <2> QED
    BY <2>1, <2>2 DEF LaidOut, Unit
<1>3. BlocksDisjoint'
  BY <1>2 DEF BlocksDisjoint
<1>4. RingOrdered'
  BY RingFrame DEF Shape, RingOrdered
<1>5. HolesApart'
  BY DEF Shape, HolesApart, Blocks
<1> QED
  BY <1>1, <1>3, <1>4, <1>5 DEF Shape

\* Bytes written inside a block that is held touch no header.
LEMMA HeadersOutside ==
  ASSUME Shape, TypeOK, NEW h \in Live,
         NEW n \in Nat, n <= Capacity(h),
         NEW b \in Blocks \cup {Root}
  PROVE  b \notin Bytes(h, n)
<1>1. h \in Blocks /\ h \in Nat /\ size[h] \in Nat /\ b \in Nat /\ initbrk \in Nat
  BY Basics DEF Shape, BlocksDisjoint, Blocks
<1>2. LaidOut(Blocks, size, initbrk, curbrk)
  BY DEF Shape, BlocksDisjoint
<1>3. CASE b = Root
  <2>1. Root < initbrk /\ initbrk <= h
    BY <1>1, <1>2, <1>3 DEF Shape, Segment, Unit, LaidOut
  <2> QED
    BY <1>1, <1>3, <2>1 DEF Bytes, Unit
<1>4. CASE b \in Blocks /\ b <= h
  BY <1>1, <1>4 DEF Bytes, Unit
<1>5. CASE b \in Blocks /\ b > h
  <2>1. h + Unit * size[h] <= b
    BY <1>1, <1>2, <1>5 DEF LaidOut
  <2> QED
    BY <1>1, <2>1 DEF Bytes, Capacity, Unit
<1> QED
  BY <1>1, <1>3, <1>4, <1>5

\* The common case: nothing of the heap changes, and no block changes hands.
LEMMA StillShape ==
  ASSUME TypeOK, Shape, UNCHANGED <<next, size, freep, holes, req, initbrk>>,
         curbrk' \in Words, curbrk' >= curbrk, Loose' = Loose
  PROVE  Shape'
<1>1. Live' = Live /\ Blocks' = Blocks
  BY DEF Live, Blocks
<1>2. freep \in holes
  BY DEF Shape, RingOrdered
<1>3. /\ Loose \cap (holes \cup Live) = {} /\ holes \cap Live = {} /\ Root \notin Live
  BY DEF Shape, BlocksDisjoint
<1> QED
  BY <1>1, <1>2, <1>3, ShapeFrame

\* A block that is held becomes the one being freed.
LEMMA ForgetShape ==
  ASSUME TypeOK, Shape, NEW h \in Live,
         initbrk' = initbrk, curbrk' = curbrk, holes' = holes, freep' = freep,
         Live' = Live \ {h}, Loose = {}, Loose' = {h},
         \A b \in Blocks \cup {Root} : size'[b] = size[b],
         \A a \in holes : next'[a] = next[a]
  PROVE  Shape'
<1>1. /\ holes \cap Live = {} /\ Root \notin Live /\ freep \in holes
  BY DEF Shape, BlocksDisjoint, RingOrdered
<1>2. Blocks' = Blocks
  BY <1>1 DEF Blocks
<1>3. curbrk' \in Words /\ curbrk' >= curbrk
  BY Basics DEF TypeOK, MemTypeOK
<1> QED
  BY <1>1, <1>2, <1>3, ShapeFrame

-----------------------------------------------------------------------------
(* malloc                                                                   *)

\* The hole that fits is a real one.
LEMMA FoundHole ==
  ASSUME TypeOK, Shape, CallOK, pc = "scan", size[p] >= nblocks
  PROVE  /\ p \in holes /\ prev \in holes /\ p # Root /\ p \in Blocks
         /\ next[prev] = p /\ prev # p /\ nblocks >= 1
         /\ Loose = {} /\ p \notin Live
<1>1. p \in holes /\ prev \in holes /\ next[prev] = p /\ nblocks >= 1
  BY DEF CallOK
<1>2. p # Root /\ p \in Blocks
  <2>1. size[Root] = 0 /\ nblocks \in Nat
    BY Basics DEF Shape, Segment, TypeOK
  <2> QED
    BY <1>1, <2>1 DEF Blocks
<1>3. IsSuccessor(holes, prev, p)
  BY <1>1 DEF Shape, RingOrdered, IsRing
<1>4. prev # p
  BY <1>1, <1>2, <1>3, Basics DEF IsSuccessor
<1> QED
  BY <1>1, <1>2, <1>4 DEF Loose, Shape, BlocksDisjoint

LEMMA ExactKeepsInv ==
  ASSUME Inv, ScanExact
  PROVE  Inv'
<1> USE DEF Inv
<1>1. /\ p \in holes /\ prev \in holes /\ p # Root /\ p \in Blocks
      /\ next[prev] = p /\ prev # p /\ nblocks >= 1 /\ size[p] = nblocks
      /\ Loose = {} /\ p \notin Live /\ pc = "scan"
  <2>1. pc = "scan" /\ size[p] = nblocks /\ size[p] >= nblocks
    BY Basics DEF ScanExact, TypeOK
  <2> QED
    BY <2>1, FoundHole
<1>2. /\ holes' = holes \ {p} /\ freep' = prev /\ size' = size
      /\ next' = [next EXCEPT ![prev] = next[p]]
      /\ initbrk' = initbrk /\ curbrk' = curbrk /\ sp' = sp /\ result' = result
      /\ Live' = Live \cup {p} /\ Loose' = {}
      /\ req' = [b \in Live \cup {p} |-> IF b = p THEN want ELSE req[b]]
      /\ pc' = "return" /\ ret' = p + Unit
      /\ UNCHANGED <<op, p, prev, nblocks, mh, old, want, owned>>
  BY DEF ScanExact, Take, memVars, Live, Loose
<1>3. Blocks' = Blocks
  BY <1>1, <1>2 DEF Blocks
<1>4. LaidOut(Blocks, size, initbrk, curbrk)
  BY DEF Shape, BlocksDisjoint
<1>5. Capacity(p)' = Unit * (nblocks - 1) /\ want <= Unit * (nblocks - 1)
      /\ ret' \in Words /\ ret' - Unit = p
  <2>1. p \in Nat /\ size[p] \in Nat /\ p + Unit * size[p] <= curbrk /\ curbrk < Word
        /\ curbrk \in Nat /\ Word \in Nat /\ want \in Nat /\ nblocks \in Nat
    BY <1>1, <1>4, Basics DEF LaidOut, TypeOK
  <2>2. want + Unit <= Unit * nblocks
    BY <1>1 DEF CallOK
  <2> QED
    BY <1>1, <1>2, <2>1, <2>2 DEF Capacity, Unit, Words
<1>6. TypeOK'
  <2>1. next' \in [Words -> Words]
    BY <1>1, <1>2, Basics DEF TypeOK
  <2>2. Live' \subseteq Words /\ req' \in [Live' -> Words]
    BY <1>1, <1>2, Basics DEF TypeOK
  <2> QED
    BY <1>1, <1>2, <1>5, <2>1, <2>2, Basics DEF TypeOK, MemTypeOK, PCs
<1>7. Shape'
  <2>1. Segment' /\ HolesApart' /\ BlocksDisjoint'
    BY <1>1, <1>2, <1>3, <1>4 DEF Shape, Segment, HolesApart, BlocksDisjoint
  <2>2. IsRing(holes', next')
    <3>1. /\ holes \subseteq Nat /\ IsRing(holes, next) /\ next[prev] # Root
          /\ next'[prev] = next[next[prev]]
          /\ \A a \in holes : a # prev /\ a # next[prev] => next'[a] = next[a]
          /\ holes' = holes \ {next[prev]}
      BY <1>1, <1>2, Basics DEF Shape, RingOrdered, TypeOK
    <3> QED
      BY <1>1, <3>1, RingRemove
  <2> QED
    BY <1>1, <1>2, <2>1, <2>2 DEF Shape, RingOrdered
<1>8. CapacityHeld'
  BY <1>1, <1>2, <1>5 DEF CapacityHeld, Capacity
<1>9. CallOK'
  <2>1. op = "realloc" => old \in Live /\ size[old] < nblocks
    BY <1>1 DEF CallOK
  <2> QED
    BY <1>1, <1>2, <1>5, <2>1 DEF CallOK
<1> QED
  BY <1>6, <1>7, <1>8, <1>9

LEMMA SplitKeepsInv ==
  ASSUME Inv, ScanSplit
  PROVE  Inv' /\ Cover(Blocks', size') = Cover(Blocks, size)
<1> USE DEF Inv
<1>1. /\ p \in holes /\ prev \in holes /\ p # Root /\ p \in Blocks
      /\ nblocks >= 1 /\ size[p] > nblocks /\ Loose = {} /\ p \notin Live /\ pc = "scan"
  <2>1. pc = "scan" /\ size[p] > nblocks /\ size[p] >= nblocks
    <3>1. size[p] \in Nat /\ nblocks \in Nat
      BY Basics DEF TypeOK
    <3> QED
      BY <3>1 DEF ScanSplit
  <2> QED
    BY <2>1, FoundHole
<1>2. LaidOut(Blocks, size, initbrk, curbrk)
  BY DEF Shape, BlocksDisjoint
<1>3. /\ p \in Nat /\ size[p] \in Nat /\ nblocks \in Nat /\ curbrk \in Nat /\ initbrk \in Nat
      /\ Word \in Nat /\ curbrk < Word /\ p + Unit * size[p] <= curbrk /\ want \in Nat
      /\ Root < p
  BY <1>1, <1>2, Basics, MallocAssumption DEF LaidOut, TypeOK, Shape, Segment, Unit
<1>4. PICK left \in Nat : left = size[p] - nblocks
  BY <1>1, <1>3
<1>5. PICK h \in Nat : h = p + Unit * left
  BY <1>3, <1>4 DEF Unit
<1>51. /\ 1 <= left /\ left < size[p] /\ size[p] - left = nblocks
       /\ h > p /\ h # Root /\ h + Unit * nblocks <= curbrk
       /\ h \in Words /\ left \in Words /\ h + Unit \in Words /\ h + Unit - Unit = h
       /\ h + Unit # NULL
  BY <1>1, <1>3, <1>4, <1>5, Basics DEF Unit, Words, NULL
<1>52. /\ holes' = holes /\ freep' = prev /\ next' = next
       /\ size' = [size EXCEPT ![p] = left, ![h] = nblocks]
       /\ initbrk' = initbrk /\ curbrk' = curbrk /\ sp' = sp /\ result' = result
       /\ Live' = Live \cup {h} /\ Loose' = {}
       /\ req' = [b \in Live \cup {h} |-> IF b = h THEN want ELSE req[b]]
       /\ pc' = "return" /\ ret' = h + Unit /\ p' = h
       /\ UNCHANGED <<op, prev, nblocks, mh, old, want, owned>>
  BY <1>4, <1>5 DEF ScanSplit, Left, Take, memVars, Live, Loose
<1>6. /\ size' \in [Words -> Words] /\ size'[p] = left /\ size'[h] = nblocks
      /\ \A b \in Words : b # p /\ b # h => size'[b] = size[b]
  BY <1>1, <1>51, <1>52, Basics DEF TypeOK
<1>7. Blocks \subseteq Nat /\ \A b \in Blocks : size[b] \in Nat
  BY Basics
<1>8. h \notin Blocks
  <2>1. \A c \in Blocks : c <= p \/ c >= p + Unit * size[p]
    BY <1>1, <1>2, <1>3, <1>7 DEF LaidOut
  <2> QED
    BY <1>1, <1>3, <1>4, <1>5, <1>51, <1>7, <2>1 DEF Unit
<1>81. Blocks' = Blocks \cup {h} /\ h \notin holes /\ h \notin Live
  BY <1>1, <1>52, <1>51, <1>8 DEF Blocks, Shape, BlocksDisjoint
<1>82. LaidOut(Blocks', size', initbrk, curbrk)
  <2>1. \A c \in Blocks : c # p => size'[c] = size[c]
    BY <1>6, <1>8, Basics
  <2>2. size'[p + Unit * left] = size[p] - left /\ Blocks' = Blocks \cup {p + Unit * left}
    BY <1>5, <1>51, <1>6, <1>81
  <2> QED
    <3>1. p \in Blocks /\ size'[p] = left
      BY <1>1, <1>6
    <3>2. 1 <= left /\ left < size[p]
      BY <1>51
    <3> QED
      BY ONLY <1>2, <1>3, <1>4, <1>7, <2>1, <2>2, <3>1, <3>2, LayoutSplit
<1>9. TypeOK'
  <2>1. Live' \subseteq Words /\ req' \in [Live' -> Words]
    BY <1>52, <1>51, Basics DEF TypeOK
  <2> QED
    BY <1>1, <1>52, <1>51, <1>6, <2>1, Basics DEF TypeOK, MemTypeOK, PCs
<1>10. Shape'
  <2>1. Segment'
    BY <1>1, <1>52, <1>51, <1>6, Basics DEF Shape, Segment
  <2>2. BlocksDisjoint'
    BY <1>52, <1>51, <1>82, <1>81 DEF Shape, BlocksDisjoint
  <2>3. RingOrdered'
    BY <1>1, <1>52 DEF Shape, RingOrdered
  <2>4. HolesApart'
    <3>1. \A b \in holes \ {Root} :
             b \in Nat /\ size[b] \in Nat /\ (b # p => size'[b] = size[b])
      BY <1>6, <1>81, Basics
    <3>2. p + Unit * size'[p] < p + Unit * size[p]
      BY <1>3, <1>51, <1>6 DEF Unit
    <3>3. \A b, c \in holes \ {Root} : b < c => b + Unit * size'[b] < c
      <4> SUFFICES ASSUME NEW b \in holes \ {Root}, NEW c \in holes \ {Root}, b < c
                   PROVE  b + Unit * size'[b] < c
        OBVIOUS
      <4>1. b + Unit * size[b] < c
        BY DEF Shape, HolesApart
      <4>2. size'[b] \in Nat /\ size'[b] <= size[b]
        BY <1>3, <1>51, <1>6, <3>1
      <4>3. b \in Nat /\ c \in Nat /\ size[b] \in Nat
        BY <3>1
      <4> QED
        BY <4>1, <4>2, <4>3 DEF Unit
    <3> QED
      BY <1>52, <3>3 DEF HolesApart
  <2> QED
    BY <2>1, <2>2, <2>3, <2>4 DEF Shape
<1>11. Capacity(h)' = Unit * (nblocks - 1) /\ want <= Unit * (nblocks - 1)
  <2>1. want + Unit <= Unit * nblocks
    BY <1>1 DEF CallOK
  <2> QED
    BY <1>3, <1>6, <2>1 DEF Capacity, Unit
<1>12. \A b \in Live : b # p /\ b # h /\ size'[b] = size[b]
  BY <1>1, <1>6, <1>81, Basics
<1>13. CapacityHeld'
  BY <1>52, <1>11, <1>12 DEF CapacityHeld, Capacity
<1>14. CallOK'
  <2>1. op = "realloc" => old \in Live /\ size[old] < nblocks
    BY <1>1 DEF CallOK
  <2>2. op = "realloc" => old' \in Live' /\ size'[old'] < size'[h]
    <3>1. op' = op /\ old' = old /\ Live' = Live \cup {h}
      BY <1>52
    <3> QED
      BY <1>6, <1>12, <2>1, <3>1
  <2>3. ret' - Unit = h /\ h \in Live' /\ op' = op
    BY <1>52 DEF Unit
  <2>4. req'[h] = want'
    BY <1>52
  <2> QED
    BY <1>52, <2>2, <2>3, <2>4 DEF CallOK
<1>15. Cover(Blocks', size') = Cover(Blocks, size)
  <2>1. \A c \in Blocks : c # p => size'[c] = size[c]
    BY <1>6, <1>8, Basics
  <2>2. h = p + Unit * left /\ size'[h] = size[p] - left /\ Blocks' = Blocks \cup {h}
    BY <1>5, <1>51, <1>6, <1>81
  <2>3. Cut(Blocks, size, p, left, Blocks', size')
    BY <1>1, <1>4, <1>51, <1>6, <1>7, <1>8, <2>1, <2>2 DEF Cut, Sizes
  <2> QED
    BY <2>3, CoverCut
<1> QED
  BY <1>9, <1>10, <1>13, <1>14, <1>15

LEMMA ScanOnKeepsInv ==
  ASSUME Inv, ScanOn
  PROVE  Inv'
<1> USE DEF Inv
<1>1. /\ pc = "scan" /\ UNCHANGED <<memVars, heapVars, ghostVars>>
      /\ UNCHANGED <<pc, op, nblocks, mh, old, want, ret>>
      /\ prev' = p /\ p' = next[p]
  BY DEF ScanOn
<1>2. p \in holes /\ next[p] \in holes
  BY <1>1 DEF CallOK, Shape, RingOrdered, IsRing
<1>3. TypeOK'
  BY <1>1, <1>2, Basics DEF TypeOK, MemTypeOK, memVars, heapVars, ghostVars, Live
<1>4. Shape'
  BY <1>1, <1>3, Basics, StillShape DEF TypeOK, MemTypeOK, memVars, heapVars, ghostVars, Loose
<1>5. CapacityHeld'
  BY <1>1 DEF CapacityHeld, Capacity, Live, heapVars, ghostVars
<1>6. CallOK'
  BY <1>1, <1>2 DEF CallOK, Live, heapVars, ghostVars
<1> QED
  BY <1>3, <1>4, <1>5, <1>6

LEMMA GrowKeepsInv ==
  ASSUME Inv, ScanGrow
  PROVE  Inv' /\ (NothingLost => NothingLost')
<1> USE DEF Inv
<1>1. PICK nb \in Nat : nb = IF nblocks < BrkSize THEN BrkSize ELSE nblocks
  BY MallocAssumption, Basics DEF TypeOK
<1>2. PICK top \in Words : top = (curbrk + Unit * nb) % Word
  BY <1>1, WordAssumption, Basics DEF Words, Unit
<1>3. /\ pc = "scan" /\ nblocks \in Nat /\ nblocks >= 1 /\ nb >= 1 /\ Unit * nb < Word
      /\ nb \in Words /\ Loose = {}
  <2>1. pc = "scan" /\ nblocks >= 1 /\ Unit * nblocks < Word
    BY DEF ScanGrow, CallOK
  <2>2. nblocks \in Nat /\ BrkSize \in Nat /\ BrkSize >= 1 /\ Unit * BrkSize < Word
    BY Basics, MallocAssumption DEF TypeOK
  <2>3. nb >= 1 /\ Unit * nb < Word
    BY <1>1, <2>1, <2>2 DEF Unit
  <2>4. nb \in Words
    BY <2>3, WordAssumption DEF Unit, Words
  <2> QED
    BY <2>1, <2>2, <2>3, <2>4 DEF Loose
<1>4. /\ UNCHANGED <<initbrk, sp, next, freep, req, holes, op, prev, nblocks, old, want>>
      /\ Live' = Live
  BY DEF ScanGrow, Live
<1>5. freep \in holes /\ LaidOut(Blocks, size, initbrk, curbrk) /\ initbrk <= curbrk
      /\ Root < initbrk /\ size[Root] = 0
  BY Basics, MallocAssumption DEF Shape, RingOrdered, BlocksDisjoint, Segment, Unit
<1>6. ASSUME pc' = "return", ret' = NULL, UNCHANGED <<curbrk, owned, size, mh, p>>,
             result' \in Words
      PROVE  Inv' /\ (NothingLost => NothingLost')
  <2>1. TypeOK'
    BY <1>4, <1>6, Basics DEF TypeOK, MemTypeOK, PCs, NULL
  <2>2. Shape'
    BY <1>3, <1>4, <1>6, <2>1, Basics, StillShape DEF TypeOK, MemTypeOK, Loose
  <2>3. CapacityHeld'
    BY <1>4, <1>6 DEF CapacityHeld, Capacity
  <2>4. CallOK'
    BY <1>3, <1>4, <1>6 DEF CallOK
  <2>5. NothingLost => NothingLost'
    BY <1>3, <1>4, <1>6 DEF NothingLost, Blocks, Loose
  <2> QED
    BY <2>1, <2>2, <2>3, <2>4, <2>5
<1>7. ASSUME curbrk' = top, top >= curbrk, owned' = owned \cup (curbrk .. top - 1),
             size' = [size EXCEPT ![curbrk] = nb], result' = 0,
             mh' = curbrk, p' = freep, pc' = "growfree", ret' = ret
      PROVE  Inv' /\ (NothingLost => NothingLost')
  <2>1. top = curbrk + Unit * nb /\ curbrk \in Words
    BY <1>2, <1>3, <1>7, WrapTest, Basics DEF Unit, TypeOK, MemTypeOK
  <2>2. /\ size' \in [Words -> Words] /\ size'[curbrk] = nb
        /\ \A b \in Words : b # curbrk => size'[b] = size[b]
    BY <1>3, <1>7, <2>1, Basics DEF TypeOK
  <2>3. Blocks \subseteq Nat /\ \A b \in Blocks : size[b] \in Nat
    BY Basics
  <2>4. \A b \in Blocks : b < curbrk
    BY <1>5, <2>3, Basics DEF LaidOut, Unit
  <2>5. /\ curbrk \notin Blocks /\ curbrk # Root /\ Loose' = {curbrk}
        /\ Blocks' = Blocks \cup {curbrk}
        /\ curbrk \notin holes /\ curbrk \notin Live
    <3>1. curbrk \notin Blocks /\ curbrk # Root
      BY <1>5, <2>3, <2>4, Basics
    <3> QED
      BY <1>3, <1>4, <1>7, <3>1 DEF Loose, Blocks
  <2>6. LaidOut(Blocks', size', initbrk, top)
    <3>1. \A b \in Blocks : size'[b] = size[b]
      BY <2>2, <2>5, Basics
    <3>2. /\ initbrk \in Nat /\ curbrk \in Nat /\ top \in Nat /\ 1 <= nb
          /\ Blocks' = Blocks \cup {curbrk} /\ top = curbrk + Unit * nb
      BY <1>3, <2>1, <2>5, Basics
    <3> QED
      BY <1>5, <2>2, <2>3, <3>1, <3>2, LayoutGrow
  <2>7. TypeOK'
    <3>1. owned' \subseteq Words
      <4>1. top \in Nat /\ top < Word /\ curbrk \in Nat
        BY <1>2, Basics
      <4>2. curbrk .. top - 1 \subseteq Words
        BY <4>1, Basics DEF Words
      <4> QED
        BY <1>7, <4>2 DEF TypeOK
    <3> QED
      BY <1>2, <1>4, <1>5, <1>7, <2>1, <2>2, <3>1, Basics DEF TypeOK, MemTypeOK, PCs
  <2>8. Shape'
    <3>1. Segment'
      BY <1>2, <1>4, <1>5, <1>7, <2>2, <2>5, Basics, MallocAssumption DEF Segment, Shape
    <3>2. BlocksDisjoint'
      BY <1>4, <1>7, <2>5, <2>6 DEF Shape, BlocksDisjoint
    <3>3. RingOrdered'
      BY <1>4 DEF Shape, RingOrdered
    <3>4. HolesApart'
      <4>1. \A b \in holes : size'[b] = size[b]
        BY <2>2, <2>5, Basics
      <4> QED
        BY <1>4, <4>1 DEF Shape, HolesApart
    <3> QED
      BY <3>1, <3>2, <3>3, <3>4 DEF Shape
  <2>9. \A h \in Live : size'[h] = size[h]
    BY <2>2, <2>5, Basics
  <2>10. CapacityHeld'
    BY <1>4, <2>9 DEF CapacityHeld, Capacity
  <2>11. CallOK'
    <3>1. op' = "realloc" => old' \in Live' /\ size'[old'] < nblocks'
      BY <1>3, <1>4, <2>9 DEF CallOK
    <3>2. nblocks' >= 1 /\ Unit * nblocks' < Word /\ want' + Unit <= Unit * nblocks'
      BY <1>3, <1>4 DEF CallOK
    <3>3. p' \in holes' /\ mh' # Root /\ size'[mh'] >= 1
      BY <1>3, <1>4, <1>5, <1>7, <2>2, <2>5
    <3> QED
      BY <1>7, <3>1, <3>2, <3>3 DEF CallOK
  <2>12. NothingLost => NothingLost'
    <3>1. \A b \in Blocks : size'[b] = size[b]
      BY <2>2, <2>5, Basics
    <3>2. Add(Blocks, size, curbrk, top, Blocks', size')
      BY <2>1, <2>2, <2>3, <2>5, <3>1, Basics DEF Add, Sizes
    <3>3. Cover(Blocks', size') = Cover(Blocks, size) \cup (curbrk .. top - 1)
      BY <3>2, CoverAdd
    <3>4. owned' = owned \cup (curbrk .. top - 1)
      BY <1>7
    <3> QED
      BY <3>3, <3>4 DEF NothingLost, Cover
  <2> QED
    BY <2>7, <2>8, <2>10, <2>11, <2>12
<1>8. CASE Refused(curbrk) \/ top < curbrk \/ Refused(top)
  <2>1. Failed \in Words /\ curbrk \in Words
    BY WordAssumption, Basics DEF Failed, Words, TypeOK, MemTypeOK
  <2> QED
    BY <1>1, <1>2, <1>6, <1>8, <2>1 DEF ScanGrow
<1>9. CASE ~ (Refused(curbrk) \/ top < curbrk \/ Refused(top))
  <2>1. top >= curbrk
    BY <1>2, <1>9, Basics
  <2> QED
    BY <1>1, <1>2, <1>7, <1>9, <2>1 DEF ScanGrow
<1> QED
  BY <1>8, <1>9

-----------------------------------------------------------------------------
(* free                                                                     *)

LEMMA FreeOnKeepsInv ==
  ASSUME Inv, FreeOn
  PROVE  Inv'
<1> USE DEF Inv
<1>1. /\ pc \in {"free", "growfree"} /\ UNCHANGED <<memVars, heapVars, ghostVars>>
      /\ UNCHANGED <<pc, op, prev, nblocks, mh, old, want, ret>>
      /\ p' = next[p]
  BY DEF FreeOn
<1>2. p \in holes /\ next[p] \in holes
  BY <1>1 DEF CallOK, Shape, RingOrdered, IsRing
<1>3. TypeOK'
  BY <1>1, <1>2, Basics DEF TypeOK, MemTypeOK, memVars, heapVars, ghostVars, Live
<1>4. Shape'
  BY <1>1, <1>3, Basics, StillShape DEF TypeOK, MemTypeOK, memVars, heapVars, ghostVars, Loose
<1>5. CapacityHeld'
  BY <1>1 DEF CapacityHeld, Capacity, Live, heapVars, ghostVars
<1>6. CallOK'
  BY <1>1, <1>2 DEF CallOK, Live, heapVars, ghostVars
<1> QED
  BY <1>3, <1>4, <1>5, <1>6

\* Where free's search ends, the block lies between p and p's successor and
\* between no other holes.
LEMMA SearchEnds ==
  ASSUME TypeOK, Shape, CallOK, pc \in {"free", "growfree"}, Between
  PROVE  /\ p \in holes /\ next[p] \in holes /\ p < mh /\ Root < mh /\ mh \in Blocks
         /\ mh \notin holes /\ mh \notin Live /\ Loose = {mh}
         /\ \A c \in holes : c <= p \/ c > mh
         /\ \A c \in holes : c <= p \/ c >= next[p] \/ next[p] = Root
<1>1. p \in holes /\ mh # Root /\ Loose = {mh}
  BY DEF CallOK, Loose
<1>2. mh \in Blocks /\ mh \notin holes /\ mh \notin Live
  BY <1>1 DEF Blocks, Shape, BlocksDisjoint
<1>3. next[p] \in holes /\ IsSuccessor(holes, p, next[p]) /\ Root \in holes
  BY <1>1 DEF Shape, RingOrdered, IsRing
<1>4. p \in Nat /\ mh \in Nat /\ next[p] \in Nat /\ \A c \in holes : c \in Nat
  BY <1>1, <1>2, <1>3, Basics
<1>5. Root < mh
  <2>1. initbrk <= mh /\ initbrk \in Nat /\ Root + Unit <= initbrk
    BY <1>2, Basics DEF Shape, BlocksDisjoint, LaidOut, Segment
  <2> QED
    BY <1>3, <1>4, <2>1 DEF Unit
<1>6. CASE next[p] > p /\ \A c \in holes : c <= p \/ c >= next[p]
  <2>1. p < mh /\ mh < next[p]
    BY <1>4, <1>6 DEF Between
  <2> QED
    BY <1>1, <1>2, <1>3, <1>4, <1>5, <1>6, <2>1
<1>7. CASE next[p] = Root /\ \A c \in holes : c <= p
  <2>1. p < mh
    BY <1>4, <1>5, <1>7 DEF Between
  <2> QED
    BY <1>1, <1>2, <1>3, <1>4, <1>5, <1>7, <2>1
<1> QED
  BY <1>3, <1>6, <1>7 DEF IsSuccessor

LEMMA LinkKeepsInv ==
  ASSUME Inv, FreeLink
  PROVE  Inv' /\ Cover(Blocks', size') = Cover(Blocks, size)
<1> USE DEF Inv
<1>1. PICK m \in Words, q \in Words, s \in Words, u \in Nat :
         /\ m = mh /\ q = p /\ s = next[q] /\ u = MergedSize
         /\ Forward <=> m + Unit * size[m] = s
         /\ Backward <=> q + Unit * size[q] = m
  <2>1. mh \in Words /\ p \in Words /\ next[p] \in Words /\ MergedSize \in Nat
    BY Basics DEF TypeOK, MergedSize
  <2> QED
    BY <2>1 DEF Forward, Backward
<1>2. /\ q \in holes /\ s \in holes /\ q < m /\ Root < m /\ m \in Blocks
      /\ m \notin holes /\ m \notin Live /\ Loose = {m}
      /\ \A c \in holes : c <= q \/ c > m
      /\ \A c \in holes : c <= q \/ c >= s \/ s = Root
  <2>1. pc \in {"free", "growfree"} /\ Between
    BY DEF FreeLink
  <2> QED
    BY <1>1, <2>1, SearchEnds
<1>3. /\ LaidOut(Blocks, size, initbrk, curbrk) /\ Root \notin Live /\ holes \cap Live = {}
      /\ \A b \in Blocks : b \in Nat /\ size[b] \in Nat /\ size[b] >= 1
      /\ \A c \in holes : c \in Nat /\ size[c] \in Nat
      /\ Blocks \subseteq Nat /\ holes \subseteq Nat
      /\ initbrk \in Nat /\ curbrk \in Nat /\ Word \in Nat /\ curbrk < Word
      /\ Root \in holes /\ Root \in Nat /\ Root < initbrk
  <2>1. LaidOut(Blocks, size, initbrk, curbrk) /\ Root \notin Live /\ holes \cap Live = {}
        /\ Root \in holes /\ Root + Unit <= initbrk
    BY DEF Shape, BlocksDisjoint, RingOrdered, IsRing, Segment
  <2>2. \A b \in Blocks : size[b] >= 1
    BY <2>1 DEF LaidOut
  <2> QED
    BY <2>1, <2>2, Basics DEF Unit
<1>4. /\ next' = LET n == IF Forward THEN next[s] ELSE s
                 IN  IF Backward THEN [next EXCEPT ![m] = n, ![q] = n]
                                 ELSE [next EXCEPT ![m] = n, ![q] = m]
      /\ size' = IF Backward THEN [size EXCEPT ![m] = u, ![q] = @ + u]
                             ELSE [size EXCEPT ![m] = u]
      /\ holes' = (IF Forward THEN holes \ {s} ELSE holes) \cup (IF Backward THEN {} ELSE {m})
      /\ freep' = q
      /\ UNCHANGED <<memVars, req, owned>> /\ Live' = Live
      /\ u = IF Forward THEN size[m] + size[s] ELSE size[m]
  BY <1>1 DEF FreeLink, MergedSize, Live
<1>5. /\ pc' \in {"scan", "idle"} /\ Loose' = {}
      /\ pc' = "scan" => /\ pc = "growfree" /\ prev' = q /\ p' = next'[q]
                         /\ UNCHANGED <<op, nblocks, mh, old, want, ret>>
      /\ pc' = "idle" => /\ op' = "none" /\ p' = Root /\ prev' = Root /\ nblocks' = 0
                         /\ mh' = Root /\ old' = Root /\ want' = 0 /\ ret' = NULL
  BY <1>1 DEF FreeLink, Back, Loose
<1>6. Forward => s # Root /\ s \in Blocks /\ s > m /\ s # q /\ s \notin Live
  BY <1>1, <1>2, <1>3 DEF Blocks, Unit
<1>7. Backward => q # Root /\ q \in Blocks /\ q \notin Live
  <2>1. size[Root] = 0
    BY DEF Shape, Segment
  <2> QED
    BY <1>1, <1>2, <1>3, <2>1 DEF Blocks, Unit
(* The layout: first the merge with the next hole, then the one with p. *)
<1>8. PICK B : B = IF Forward THEN Blocks \ {s} ELSE Blocks
  OBVIOUS
<1>9. PICK sz : sz = [size EXCEPT ![m] = u]
  OBVIOUS
<1>10. /\ sz \in [Words -> Nat] /\ sz[m] = u /\ \A b \in Words : b # m => sz[b] = size[b]
  BY <1>1, <1>9, Basics DEF TypeOK
<1>11. LaidOut(B, sz, initbrk, curbrk) /\ m + Unit * u <= curbrk
  <2>1. CASE Forward
    <3>1. \A b \in Blocks : b # m /\ b # s => sz[b] = size[b]
      BY <1>10, Basics
    <3>2. m + Unit * size[m] = s /\ sz[m] = size[m] + size[s] /\ B = Blocks \ {s}
      BY <1>1, <1>4, <1>8, <1>10, <2>1
    <3>3. LaidOut(B, sz, initbrk, curbrk) /\ m + Unit * sz[m] <= curbrk
      <4>1. /\ LaidOut(Blocks, size, initbrk, curbrk) /\ Blocks \subseteq Nat
            /\ \A b \in Blocks : size[b] \in Nat
            /\ initbrk \in Nat /\ curbrk \in Nat
        BY <1>3
      <4>2. m \in Blocks /\ s \in Blocks
        BY <1>2, <1>6, <2>1
      <4> QED
        <5>1. Merges(Blocks, size, sz, initbrk, curbrk, m, s)
          BY ONLY <3>1, <3>2, <4>1, <4>2 DEF Merges
        <5> QED
          BY ONLY <3>2, <5>1, LayoutMerge
    <3> QED
      BY <1>10, <3>3
  <2>2. CASE ~ Forward
    <3>1. \A b \in Blocks : sz[b] = size[b]
      BY <1>4, <1>10, <2>2, Basics
    <3>2. B = Blocks
      BY <1>8, <2>2
    <3> QED
      BY <1>2, <1>3, <1>10, <3>1, <3>2 DEF LaidOut
  <2> QED
    BY <2>1, <2>2
<1>12. B \subseteq Nat /\ B \subseteq Words /\ m \in B /\ \A b \in B : sz[b] \in Nat
  BY <1>2, <1>3, <1>6, <1>8, <1>10, Basics
<1>13. /\ LaidOut(Blocks', size', initbrk, curbrk)
       /\ size' \in [Words -> Words]
       /\ \A b \in Words : b # m /\ b # q => size'[b] = size[b]
       /\ ~ Backward => size'[m] = u /\ size'[q] = size[q]
       /\ Backward => size'[q] = size[q] + u
  <2>1. u \in Words
    BY <1>1, <1>3, <1>11 DEF Words, Unit
  <2>2. CASE Backward
    <3>1. q \in B /\ sz[q] = size[q] /\ q # m
      BY <1>2, <1>3, <1>6, <1>7, <1>8, <1>10, <2>2
    <3>2. /\ size' = [size EXCEPT ![m] = u, ![q] = @ + u]
          /\ size'[q] = size[q] + u
          /\ \A b \in Words : b # m /\ b # q => size'[b] = size[b]
      BY <1>1, <1>4, <2>2, <3>1 DEF TypeOK
    <3>3. Blocks' = B \ {m}
      BY <1>2, <1>3, <1>4, <1>5, <1>6, <1>8, <2>2 DEF Blocks
    <3>4. q + Unit * sz[q] = m /\ size'[q] = sz[q] + sz[m]
      BY <1>1, <1>10, <2>2, <3>1, <3>2
    <3>5. \A b \in B : b # q /\ b # m => size'[b] = sz[b]
      BY <1>10, <1>12, <3>2
    <3>6. LaidOut(Blocks', size', initbrk, curbrk) /\ size'[q] \in Nat
          /\ q + Unit * size'[q] <= curbrk
      <4>1. initbrk \in Nat /\ curbrk \in Nat /\ B \subseteq Nat /\ \A b \in B : sz[b] \in Nat
        BY <1>3, <1>12
      <4>2. q \in B /\ m \in B /\ LaidOut(B, sz, initbrk, curbrk)
        BY <1>11, <1>12, <3>1
      <4>3. LaidOut(Blocks', size', initbrk, curbrk)
        <5>1. Merges(B, sz, size', initbrk, curbrk, q, m)
          BY <3>3, <3>4, <3>5, <4>1, <4>2 DEF Merges
        <5> QED
          BY <3>3, <5>1, LayoutMerge
      <4>4. size'[q] \in Nat /\ q \in Blocks'
        BY <1>1, <3>1, <3>3, <3>4, <1>10, <4>1, <4>2
      <4> QED
        BY <4>3, <4>4 DEF LaidOut
    <3>7. size'[q] \in Words
      BY <1>1, <1>3, <3>6 DEF Words, Unit
    <3> QED
      BY <1>1, <2>1, <2>2, <3>2, <3>6, <3>7 DEF TypeOK
  <2>3. CASE ~ Backward
    <3>1. size' = sz
      BY <1>4, <1>9, <2>3
    <3>2. Blocks' = B
      BY <1>2, <1>3, <1>4, <1>5, <1>6, <1>8, <2>3 DEF Blocks
    <3>3. size' \in [Words -> Words]
      BY <1>1, <1>9, <2>1, <3>1 DEF TypeOK
    <3> QED
      BY <1>1, <1>2, <1>3, <1>10, <1>11, <2>3, <3>1, <3>2, <3>3
  <2> QED
    BY <2>2, <2>3
(* The ring. *)
<1>14. IsRing(holes', next') /\ freep' \in holes' /\ next' \in [Words -> Words]
  <2>1. next \in [Words -> Words] /\ next[s] \in Words /\ IsRing(holes, next) /\ q # m
    BY <1>1, <1>2, <1>3, Basics DEF TypeOK, Shape, RingOrdered
  <2>2. CASE ~ Backward
    <3>1. PICK g : g = [next EXCEPT ![q] = m, ![m] = s]
      OBVIOUS
    <3>2. g[q] = m /\ g[m] = s /\ \A a \in holes : a # q => g[a] = next[a]
      BY <1>1, <1>2, <2>1, <3>1, Basics
    <3>3. PICK K : K = holes \cup {m}
      OBVIOUS
    <3>4. IsRing(K, g)
      <4>1. m \in Nat /\ holes \subseteq Nat /\ g[m] = next[q]
        BY <1>1, <1>2, <1>3, <3>2
      <4> QED
        BY <1>2, <2>1, <3>2, <3>3, <4>1, RingInsert
    <3>5. CASE Forward
      <4>1. next' = [next EXCEPT ![m] = next[s], ![q] = m]
        BY <1>4, <2>2, <3>5
      <4>2. next'[m] = g[s] /\ \A a \in K : a # m /\ a # s => next'[a] = g[a]
        BY <1>1, <1>2, <1>6, <2>1, <3>1, <3>3, <3>5, <4>1, Basics
      <4>3. holes' = K \ {g[m]}
        BY <1>2, <1>4, <2>2, <3>2, <3>3, <3>5, <1>6
      <4>4. K \subseteq Nat /\ m \in K /\ g[m] = s /\ s # Root
        BY <1>2, <1>3, <1>6, <3>2, <3>3, <3>5
      <4>5. IsRing(holes', next')
        BY <3>4, <4>2, <4>3, <4>4, RingRemove
      <4>6. freep' \in holes'
        BY <1>2, <1>4, <1>6, <3>5
      <4>7. next' \in [Words -> Words]
        BY <1>1, <2>1, <4>1
      <4> QED
        BY <4>5, <4>6, <4>7
    <3>6. CASE ~ Forward
      <4>1. next' = [next EXCEPT ![m] = s, ![q] = m] /\ holes' = K
        BY <1>4, <2>2, <3>3, <3>6
      <4>2. next' \in [Words -> Words] /\ \A a \in K : next'[a] = g[a]
        BY <1>1, <1>2, <2>1, <3>1, <3>3, <4>1, Basics
      <4>3. IsRing(K, next')
        BY <3>4, <4>2, RingFrame
      <4> QED
        BY <1>2, <1>4, <3>3, <4>1, <4>2, <4>3
    <3> QED
      BY <3>5, <3>6
  <2>3. CASE Backward
    <3>1. CASE Forward
      <4>1. next' = [next EXCEPT ![m] = next[s], ![q] = next[s]]
        BY <1>4, <2>3, <3>1
      <4>2. /\ next' \in [Words -> Words] /\ next'[q] = next[next[q]]
            /\ \A a \in holes : a # q /\ a # next[q] => next'[a] = next[a]
        BY <1>1, <1>2, <2>1, <4>1, Basics
      <4>3. holes' = holes \ {next[q]} /\ next[q] # Root /\ q # next[q]
        BY <1>1, <1>4, <1>6, <2>3, <3>1
      <4>4. IsRing(holes', next')
        BY <1>2, <1>3, <2>1, <4>2, <4>3, RingRemove
      <4> QED
        BY <1>2, <1>4, <4>2, <4>3, <4>4
    <3>2. CASE ~ Forward
      <4>1. next' = [next EXCEPT ![m] = s, ![q] = s] /\ holes' = holes
        BY <1>4, <2>3, <3>2
      <4>2. next' \in [Words -> Words] /\ \A a \in holes : next'[a] = next[a]
        BY <1>1, <1>2, <2>1, <4>1, Basics
      <4>3. IsRing(holes, next')
        BY <2>1, <4>2, RingFrame
      <4> QED
        BY <1>2, <1>4, <4>1, <4>2, <4>3
    <3> QED
      BY <3>1, <3>2
  <2> QED
    BY <2>2, <2>3
(* The gaps. *)
<1>15. HolesApart'
  <2>1. \A b, c \in holes \ {Root} : b < c => b + Unit * size[b] < c
    BY DEF Shape, HolesApart
  <2>2. \A b \in holes \ {Root} : b \in Blocks
    BY DEF Blocks
  <2>3. \A b \in holes \ {Root} : b < m /\ (b = q => ~ Backward) => b + Unit * size[b] < m
    <3> SUFFICES ASSUME NEW b \in holes \ {Root}, b < m, b = q => ~ Backward
                 PROVE  b + Unit * size[b] < m
      OBVIOUS
    <3>1. b + Unit * size[b] <= m /\ b \in Nat /\ size[b] \in Nat
      BY <1>2, <1>3, <2>2 DEF LaidOut
    <3>2. CASE b = q
      BY <1>1, <1>2, <1>3, <3>1, <3>2 DEF Unit
    <3>3. CASE b # q
      <4>1. b < q /\ q \in Nat /\ q < m /\ m \in Nat
        BY <1>2, <1>3, <3>1, <3>3
      <4>2. q # Root
        BY <1>3, <2>2, <4>1 DEF LaidOut
      <4>3. b + Unit * size[b] < q
        BY <1>2, <2>1, <4>1, <4>2
      <4> QED
        BY <3>1, <4>1, <4>3 DEF Unit
    <3> QED
      BY <3>2, <3>3
  <2>4. \A c \in holes \ {Root} : c > m /\ (Forward => c # s) => m + Unit * u < c
    <3> SUFFICES ASSUME NEW c \in holes \ {Root}, c > m, Forward => c # s
                 PROVE  m + Unit * u < c
      OBVIOUS
    <3>1. /\ c \in Nat /\ m \in Nat /\ s \in Nat /\ size[m] \in Nat /\ size[s] \in Nat
          /\ q \in Nat /\ q < m
      BY <1>2, <1>3
    <3>2. CASE Forward
      <4>1. c > s
        BY <1>2, <1>6, <3>1, <3>2
      <4>2. s + Unit * size[s] < c
        BY <1>2, <1>6, <2>1, <3>2, <4>1
      <4> QED
        BY <1>1, <1>4, <3>1, <3>2, <4>2 DEF Unit
    <3>3. CASE ~ Forward
      <4>1. u = size[m] /\ m + Unit * size[m] # s
        BY <1>1, <1>4, <3>3
      <4>2. m + Unit * size[m] <= c
        BY <1>2, <1>3, <2>2, <3>1 DEF LaidOut
      <4>3. CASE s = Root
        <5>1. IsSuccessor(holes, q, s)
          BY <1>1, <1>2 DEF Shape, RingOrdered, IsRing
        <5>2. \A d \in holes : d <= q
          BY <1>2, <1>3, <3>1, <4>3, <5>1 DEF IsSuccessor
        <5> QED
          BY <3>1, <5>2
      <4>4. CASE s # Root
        <5>1. c >= s
          BY <1>2, <3>1, <4>4
        <5>2. s > m
          <6>1. IsSuccessor(holes, q, s)
            BY <1>1, <1>2 DEF Shape, RingOrdered, IsRing
          <6>2. s > q
            BY <4>4, <6>1 DEF IsSuccessor
          <6> QED
            BY <1>2, <3>1, <6>2
        <5>3. m + Unit * size[m] <= s
          BY <1>2, <1>3, <2>2, <3>1, <4>4, <5>2 DEF LaidOut
        <5> QED
          BY <3>1, <4>1, <5>1, <5>3 DEF Unit
      <4> QED
        BY <4>3, <4>4
    <3> QED
      BY <3>2, <3>3
  <2>5. \A b \in holes' \ {Root} : b = m \/ (b \in holes \ {Root} /\ (Forward => b # s))
    BY <1>4
  <2>6. \A c \in holes \ {Root} : c < m => size'[c] = IF c = q /\ Backward THEN size[q] + u ELSE size[c]
    BY <1>1, <1>2, <1>3, <1>13, Basics
  <2>7. \A c \in holes \ {Root} : c > m => size'[c] = size[c]
    BY <1>1, <1>2, <1>3, <1>13, Basics
  <2>8. ASSUME NEW b \in holes' \ {Root}, NEW c \in holes' \ {Root}, b < c
        PROVE  b + Unit * size'[b] < c
    <3>1. /\ m \in Nat /\ u \in Nat /\ q \in Nat /\ size[q] \in Nat /\ b \in Nat /\ c \in Nat
          /\ q < m
      BY <1>2, <1>3, <1>1, <2>5
    <3>2. CASE b = m
      <4>1. ~ Backward /\ size'[b] = u
        BY <1>2, <1>4, <1>13, <3>2
      <4>2. c \in holes \ {Root} /\ (Forward => c # s)
        BY <2>5, <2>8, <3>1, <3>2
      <4> QED
        BY <2>4, <2>8, <3>1, <3>2, <4>1, <4>2
    <3>3. CASE c = m
      <4>1. ~ Backward /\ b \in holes \ {Root}
        BY <1>2, <1>4, <2>5, <2>8, <3>1, <3>3
      <4>2. size'[b] = size[b]
        BY <2>6, <2>8, <3>3, <4>1
      <4> QED
        BY <2>3, <2>8, <3>3, <4>1, <4>2
    <3>4. CASE b # m /\ c # m /\ b = q /\ Backward
      <4>1. /\ c \in holes \ {Root} /\ (Forward => c # s) /\ c > m
        BY <1>2, <2>5, <2>8, <3>1, <3>4
      <4>2. m + Unit * u < c
        BY <2>4, <4>1
      <4>3. size'[b] = size[q] + u /\ q + Unit * size[q] = m
        BY <1>1, <1>13, <3>4
      <4> QED
        BY <3>1, <3>4, <4>2, <4>3 DEF Unit
    <3>5. CASE b # m /\ c # m /\ ~ (b = q /\ Backward)
      <4>1. b \in holes \ {Root} /\ c \in holes \ {Root}
        BY <2>5, <3>5
      <4>2. size'[b] = size[b]
        BY <2>6, <2>7, <3>1, <3>5, <4>1
      <4> QED
        BY <2>1, <2>8, <4>1, <4>2
    <3> QED
      BY <3>2, <3>3, <3>4, <3>5
  <2> QED
    BY <2>8 DEF HolesApart
<1>16. initbrk' = initbrk /\ curbrk' = curbrk /\ sp' = sp /\ result' = result
       /\ holes' \subseteq Words
  BY <1>1, <1>4, Basics DEF memVars
<1>17. Shape'
  <2>1. Segment'
    <3>1. size'[Root] = size[Root]
      BY <1>1, <1>2, <1>3, <1>7, <1>13, Basics
    <3> QED
      BY <1>16, <3>1 DEF Shape, Segment
  <2>2. BlocksDisjoint'
    BY <1>2, <1>3, <1>4, <1>5, <1>13, <1>16 DEF BlocksDisjoint
  <2> QED
    BY <1>14, <1>15, <2>1, <2>2 DEF Shape, RingOrdered
<1>18. TypeOK'
  <2>1. Root \in Words /\ 0 \in Words
    BY Basics
  <2>2. /\ p' \in Words /\ prev' \in Words /\ mh' \in Words /\ old' \in Words /\ want' \in Words
        /\ ret' \in Words /\ nblocks' \in Words /\ pc' \in PCs
        /\ op' \in {"none", "malloc", "free", "calloc", "realloc"}
    BY <1>1, <1>5, <1>14, <2>1 DEF TypeOK, PCs, NULL
  <2> QED
    BY <1>1, <1>4, <1>13, <1>14, <1>16, <2>2 DEF TypeOK, MemTypeOK
<1>19. \A h \in Live : size'[h] = size[h]
  BY <1>1, <1>2, <1>3, <1>13, Basics
<1>20. CapacityHeld'
  BY <1>4, <1>19 DEF CapacityHeld, Capacity
<1>21. CallOK'
  <2>1. CASE pc' = "scan"
    <3>1. /\ pc = "growfree" /\ prev' = q /\ p' = next'[q]
          /\ UNCHANGED <<op, nblocks, mh, old, want, ret>>
      BY <1>5, <2>1
    <3>2. p' \in holes' /\ prev' \in holes' /\ p' = next'[prev']
      BY <1>4, <1>14, <3>1 DEF IsRing
    <3>3. op' = "realloc" => old' \in Live' /\ size'[old'] < nblocks'
      BY <1>4, <1>19, <3>1 DEF CallOK
    <3> QED
      BY <2>1, <3>1, <3>2, <3>3 DEF CallOK
  <2>2. CASE pc' = "idle"
    BY <2>2 DEF CallOK
  <2> QED
    BY <1>5, <2>1, <2>2
<1>22. Cover(B, sz) = Cover(Blocks, size)
  <2>1. CASE Forward
    <3>1. \A b \in Blocks : b # m /\ b # s => sz[b] = size[b]
      BY <1>10, Basics
    <3>2. m + Unit * size[m] = s /\ sz[m] = size[m] + size[s] /\ B = Blocks \ {s} /\ m # s
      BY <1>1, <1>2, <1>3, <1>4, <1>6, <1>8, <1>10, <2>1
    <3>3. Merge(Blocks, size, m, s, B, sz)
      BY <1>2, <1>3, <1>6, <2>1, <3>1, <3>2 DEF Merge, Sizes
    <3> QED
      BY <3>3, CoverMerge
  <2>2. CASE ~ Forward
    <3>1. B = Blocks /\ \A b \in Blocks : sz[b] = size[b]
      BY <1>4, <1>8, <1>10, <2>2, Basics
    <3> QED
      BY <3>1, CoverFrame
  <2> QED
    BY <2>1, <2>2
<1>23. Cover(Blocks', size') = Cover(B, sz)
  <2>1. CASE Backward
    <3>1. q \in B /\ sz[q] = size[q] /\ q # m
      BY <1>2, <1>3, <1>6, <1>7, <1>8, <1>10, <2>1
    <3>2. Blocks' = B \ {m}
      BY <1>2, <1>3, <1>4, <1>5, <1>6, <1>8, <2>1 DEF Blocks
    <3>3. q + Unit * sz[q] = m /\ size'[q] = sz[q] + sz[m]
      BY <1>1, <1>10, <1>13, <2>1, <3>1
    <3>4. \A b \in B : b # q /\ b # m => size'[b] = sz[b]
      BY <1>10, <1>12, <1>13
    <3>5. Merge(B, sz, q, m, Blocks', size')
      BY <1>12, <3>1, <3>2, <3>3, <3>4 DEF Merge, Sizes
    <3> QED
      BY <3>5, CoverMerge
  <2>2. CASE ~ Backward
    <3>1. size' = sz
      BY <1>4, <1>9, <2>2
    <3>2. Blocks' = B
      BY <1>2, <1>3, <1>4, <1>5, <1>6, <1>8, <2>2 DEF Blocks
    <3> QED
      BY <3>1, <3>2
  <2> QED
    BY <2>1, <2>2
<1> QED
  BY <1>17, <1>18, <1>20, <1>21, <1>22, <1>23

-----------------------------------------------------------------------------
(* Calls and returns                                                        *)

\* Entering malloc for s bytes gives the loop a request it can meet.
LEMMA EnterMallocOK ==
  ASSUME TypeOK, NEW s \in Words, EnterMalloc(s)
  PROVE  \/ /\ ret' = NULL /\ pc' = "return"
            /\ UNCHANGED <<p, prev, nblocks>>
         \/ /\ nblocks' \in Words /\ nblocks' >= 1 /\ Unit * nblocks' < Word
            /\ s + Unit <= Unit * nblocks' /\ nblocks' = Rounded(s) \div Unit
            /\ prev' = freep /\ p' = next[freep] /\ pc' = "scan" /\ ret' = ret
<1>1. CASE Rounded(s) < s
  BY <1>1 DEF EnterMalloc
<1>2. CASE ~ Rounded(s) < s
  <2>1. Rounded(s) >= s
    BY <1>2, Basics DEF Rounded, Unit, Words
  <2> QED
    BY <1>2, <2>1, RoundedHolds DEF EnterMalloc
<1> QED
  BY <1>1, <1>2

\* A call that enters malloc and changes nothing else keeps Inv.
LEMMA EnterKeepsInv ==
  ASSUME Inv, pc = "idle", NEW s \in Words, EnterMalloc(s),
         UNCHANGED <<memVars, heapVars, ghostVars, mh>>,
         want' = s, op' \in {"malloc", "calloc", "realloc"}, old' \in Words,
         op' = "realloc" => old' \in Live /\ Rounded(s) \div Unit > size[old']
  PROVE  Inv'
<1> USE DEF Inv
<1>1. /\ UNCHANGED <<initbrk, curbrk, sp, result, next, size, freep, req, holes, owned, mh>>
      /\ Live' = Live /\ Loose' = {} /\ Loose = {}
  BY EnterMallocOK DEF memVars, heapVars, ghostVars, Live, Loose
<1>2. freep \in holes /\ next[freep] \in holes
  BY DEF Shape, RingOrdered, IsRing
<1>3. TypeOK'
  BY <1>1, <1>2, EnterMallocOK, Basics DEF TypeOK, MemTypeOK, PCs, NULL
<1>4. Shape'
  BY <1>1, <1>3, Basics, StillShape DEF TypeOK, MemTypeOK
<1>5. CapacityHeld'
  BY <1>1 DEF CapacityHeld, Capacity
<1>6. op' = "realloc" => size[old'] \in Nat
  BY Basics
<1>7. CallOK'
  BY <1>1, <1>2, <1>6, EnterMallocOK, Basics DEF CallOK
<1> QED
  BY <1>3, <1>4, <1>5, <1>7

\* A call that ends and changes nothing in the heap keeps Inv.
LEMMA BackKeepsInv ==
  ASSUME Inv, Loose = {}, Back, UNCHANGED <<memVars, heapVars, ghostVars>>
  PROVE  Inv'
<1> USE DEF Inv
<1>1. /\ UNCHANGED <<initbrk, curbrk, sp, result, next, size, freep, req, holes, owned>>
      /\ Live' = Live /\ Loose' = {}
  BY DEF memVars, heapVars, ghostVars, Live, Loose, Back
<1>2. TypeOK'
  BY <1>1, Basics DEF TypeOK, MemTypeOK, PCs, NULL, Back
<1>3. Shape'
  BY <1>1, <1>2, Basics, StillShape DEF TypeOK, MemTypeOK
<1>4. CapacityHeld'
  BY <1>1 DEF CapacityHeld, Capacity
<1>5. CallOK'
  BY DEF CallOK, Back
<1> QED
  BY <1>2, <1>3, <1>4, <1>5

\* Entering free for a block that is held keeps Inv: the bytes of another
\* block may have been written in the same step (realloc's memcpy).
LEMMA FreeingKeepsInv ==
  ASSUME Inv, NEW h \in Live, Loose = {}, EnterFree(h), Forget(h),
         UNCHANGED <<memVars, freep>>,
         next' \in [Words -> Words], size' \in [Words -> Words],
         \A b \in Blocks \cup {Root} : size'[b] = size[b],
         \A a \in holes : next'[a] = next[a],
         op' \in {"free", "realloc"}, old' \in Words, want' \in Words,
         prev' \in Words, nblocks' \in Words, ret' \in Words
  PROVE  Inv'
<1> USE DEF Inv
<1>1. /\ UNCHANGED <<initbrk, curbrk, sp, result, freep, holes, owned>>
      /\ Live' = Live \ {h} /\ Loose' = {h} /\ pc' = "free" /\ mh' = h /\ p' = freep
      /\ req' = [b \in Live \ {h} |-> req[b]]
  BY DEF EnterFree, Forget, memVars, Live, Loose
<1>2. freep \in holes /\ h \in Blocks /\ Live \subseteq Blocks /\ h # Root
  BY DEF Shape, RingOrdered, BlocksDisjoint, Blocks
<1>3. size[h] >= 1
  BY <1>2 DEF Shape, BlocksDisjoint, LaidOut
<1>4. TypeOK'
  <2>1. Live' \subseteq Words /\ req' \in [Live' -> Words]
    BY <1>1 DEF TypeOK
  <2> QED
    BY <1>1, <1>2, <2>1, Basics DEF TypeOK, MemTypeOK, PCs
<1>5. Shape'
  BY <1>1, ForgetShape
<1>6. CapacityHeld'
  BY <1>1, <1>2 DEF CapacityHeld, Capacity
<1>7. CallOK'
  BY <1>1, <1>2, <1>3 DEF CallOK
<1> QED
  BY <1>4, <1>5, <1>6, <1>7

\* The bytes of a block that is held may be overwritten.
LEMMA OverwriteKeeps ==
  ASSUME Inv, NEW h \in Live, NEW n \in Nat, n <= Capacity(h), NEW v \in Words,
         Overwrite(Bytes(h, n), v)
  PROVE  /\ next' \in [Words -> Words] /\ size' \in [Words -> Words]
         /\ \A b \in Blocks \cup {Root} : size'[b] = size[b] /\ next'[b] = next[b]
<1>1. next' \in [Words -> Words] /\ size' \in [Words -> Words]
  BY Basics DEF Overwrite, Inv
<1>2. \A b \in Blocks \cup {Root} : b \notin Bytes(h, n) /\ b \in Words
  BY HeadersOutside, Basics DEF Inv
<1> QED
  BY <1>1, <1>2 DEF Overwrite

LEMMA HolesAreBlocks == holes \subseteq Blocks \cup {Root}
BY DEF Blocks

LEMMA ReturnKeepsInv ==
  ASSUME Inv, ReturnMalloc \/ ReturnReallocFailed
  PROVE  Inv'
<1>1. /\ pc = "return" /\ Back /\ UNCHANGED <<memVars, heapVars, ghostVars>>
  BY DEF ReturnMalloc, ReturnReallocFailed
<1> QED
  BY <1>1, BackKeepsInv DEF Loose

\* What malloc's return leaves: the block for calloc or realloc to fill.
LEMMA NewBlock ==
  ASSUME Inv, pc = "return", ret # NULL
  PROVE  /\ ret - Unit \in Live /\ req[ret - Unit] = want /\ want <= Capacity(ret - Unit)
         /\ Loose = {} /\ want \in Nat
         /\ op = "realloc" => old \in Live /\ size[old] < size[ret - Unit]
BY Basics DEF Inv, CallOK, CapacityHeld, Loose, TypeOK

LEMMA CallocKeepsInv ==
  ASSUME Inv, ReturnCalloc
  PROVE  Inv'
<1> USE DEF Inv
<1>1. /\ pc = "return" /\ ret # NULL /\ Back /\ Overwrite(Bytes(ret - Unit, want), 0)
      /\ UNCHANGED <<initbrk, curbrk, sp, result, freep, req, holes, owned>>
  BY DEF ReturnCalloc, memVars, ghostVars
<1>2. PICK h \in Live : h = ret - Unit /\ want <= Capacity(h) /\ want \in Nat /\ Loose = {}
  BY <1>1, NewBlock
<1>3. /\ next' \in [Words -> Words] /\ size' \in [Words -> Words]
      /\ \A b \in Blocks \cup {Root} : size'[b] = size[b] /\ next'[b] = next[b]
  BY <1>1, <1>2, OverwriteKeeps, Basics
<1>4. Live' = Live /\ Loose' = {} /\ Blocks' = Blocks
  BY <1>1, <1>2 DEF Live, Loose, Blocks, Back
<1>5. TypeOK'
  BY <1>1, <1>3, <1>4, Basics DEF TypeOK, MemTypeOK, PCs, NULL, Back
<1>6. Shape'
  <2>1. freep \in holes /\ holes \cap Live = {} /\ Root \notin Live
    BY DEF Shape, RingOrdered, BlocksDisjoint
  <2>2. curbrk' \in Words /\ curbrk' >= curbrk
    BY <1>1, Basics
  <2> QED
    BY <1>1, <1>3, <1>4, <2>1, <2>2, ShapeFrame, HolesAreBlocks
<1>7. CapacityHeld'
  BY <1>1, <1>3, <1>4 DEF CapacityHeld, Capacity, Shape, BlocksDisjoint, Blocks
<1>8. CallOK'
  BY <1>1 DEF CallOK, Back
<1> QED
  BY <1>5, <1>6, <1>7, <1>8

LEMMA ReallocKeepsInv ==
  ASSUME Inv, ReturnRealloc
  PROVE  Inv'
<1> USE DEF Inv
<1>1. /\ pc = "return" /\ ret # NULL /\ op = "realloc" /\ EnterFree(old) /\ Forget(old)
      /\ UNCHANGED <<memVars, freep, op, prev, nblocks, old, want, ret>>
      /\ next' = [a \in Words |-> IF a \in Bytes(ret - Unit, Moved)
                                  THEN next[(a - (ret - Unit) + old) % Word] ELSE next[a]]
      /\ size' = [a \in Words |-> IF a \in Bytes(ret - Unit, Moved)
                                  THEN size[(a - (ret - Unit) + old) % Word] ELSE size[a]]
  BY DEF ReturnRealloc
<1>2. PICK h \in Live : h = ret - Unit /\ Loose = {} /\ old \in Live /\ size[old] < size[h]
  BY <1>1, NewBlock
<1>3. h \in Nat /\ old \in Nat /\ size[h] \in Nat /\ size[old] \in Nat
  BY <1>2, Basics
<1>4. Moved \in Nat /\ Moved <= Capacity(h)
  BY <1>2, <1>3 DEF Moved, Capacity, Unit
<1>5. \A a \in Words : (a - h + old) % Word \in Words
  BY <1>3, WordAssumption, Basics DEF Words
<1>6. next' \in [Words -> Words] /\ size' \in [Words -> Words]
  BY <1>1, <1>2, <1>5, Basics
<1>7. \A b \in Blocks \cup {Root} : b \notin Bytes(h, Moved) /\ b \in Words
  BY <1>4, HeadersOutside, Basics
<1>8. \A b \in Blocks \cup {Root} : size'[b] = size[b] /\ next'[b] = next[b]
  BY <1>1, <1>2, <1>7
<1> QED
  BY <1>1, <1>2, <1>6, <1>8, FreeingKeepsInv, HolesAreBlocks DEF TypeOK

LEMMA CallMallocKeepsInv ==
  ASSUME Inv, NEW s \in MallocSizes, CallMalloc(s)
  PROVE  Inv'
BY EnterKeepsInv, MallocAssumption DEF CallMalloc, Inv, TypeOK

LEMMA CallCallocKeepsInv ==
  ASSUME Inv, NEW c \in CallocSizes, CallCalloc(c[1], c[2])
  PROVE  Inv'
<1>1. (c[1] * c[2]) % Word \in Words
  <2>1. c \in Words \X Words
    BY MallocAssumption
  <2>2. c[1] \in Nat /\ c[2] \in Nat
    BY <2>1 DEF Words
  <2>3. c[1] * c[2] \in Int
    BY <2>2
  <2> HIDE <2>1
  <2> QED
    BY <2>3, WordAssumption DEF Words
<1> QED
  BY <1>1, EnterKeepsInv DEF CallCalloc, Inv, TypeOK

LEMMA CallFreeKeepsInv ==
  ASSUME Inv, NEW h \in Live, CallFree(h)
  PROVE  Inv'
<1>1. /\ pc = "idle" /\ op' = "free" /\ EnterFree(h) /\ Forget(h)
      /\ UNCHANGED <<memVars, heapVars, prev, nblocks, old, want, ret>>
  BY DEF CallFree
<1> QED
  BY <1>1, FreeingKeepsInv DEF Inv, TypeOK, Loose, heapVars

LEMMA CallReallocKeepsInv ==
  ASSUME Inv, NEW h \in Live, NEW s \in ReallocSizes, CallRealloc(h, s)
  PROVE  Inv'
<1> USE DEF Inv
<1>1. pc = "idle" /\ UNCHANGED <<memVars, heapVars>> /\ Loose = {} /\ s \in Words /\ h \in Words
  BY MallocAssumption, Basics DEF CallRealloc, Loose
<1>2. CASE /\ EnterFree(h) /\ Forget(h)
           /\ op' = "realloc" /\ want' = 0 /\ old' = h
           /\ UNCHANGED <<prev, nblocks, ret>>
  BY <1>1, <1>2, FreeingKeepsInv, Basics DEF TypeOK, heapVars
<1>3. CASE /\ s # 0 /\ Rounded(s) \div Unit <= size[h]
           /\ req' = [req EXCEPT ![h] = s]
           /\ UNCHANGED <<holes, owned, callVars>>
  <2>1. /\ UNCHANGED <<initbrk, curbrk, sp, result, next, size, freep, holes, owned>>
        /\ UNCHANGED <<pc, op, p, prev, nblocks, mh, old, want, ret>>
        /\ Live' = Live /\ Loose' = Loose /\ Blocks' = Blocks
        /\ req' \in [Live -> Words] /\ req'[h] = s
        /\ \A b \in Live : b # h => req'[b] = req[b]
    BY <1>1, <1>3 DEF memVars, heapVars, callVars, Live, Loose, Blocks, TypeOK
  <2>2. TypeOK'
    BY <2>1 DEF TypeOK, MemTypeOK
  <2>3. Shape'
    <3>1. freep \in holes /\ holes \cap Live = {} /\ Root \notin Live
      BY DEF Shape, RingOrdered, BlocksDisjoint
    <3>2. curbrk' \in Words /\ curbrk' >= curbrk
      BY <2>1, Basics
    <3> QED
      BY <1>1, <2>1, <3>1, <3>2, ShapeFrame
  <2>4. s <= Capacity(h)
    <3>1. Rounded(s) = s + 2 * Unit - 1 /\ Rounded(s) >= s /\ s \in Nat
      <4>1. s \in Nat /\ Word \in Nat /\ s + 2 * Unit - 1 < Word
        BY <1>1, ReallocFits, Basics
      <4> QED
        BY <4>1 DEF Rounded, Unit
    <3>2. s + Unit <= Unit * (Rounded(s) \div Unit) /\ Rounded(s) \div Unit \in Nat
      BY <1>1, <3>1, RoundedHolds, Basics
    <3>3. size[h] \in Nat
      BY Basics
    <3> QED
      BY <1>3, <3>1, <3>2, <3>3 DEF Capacity, Unit
  <2>5. CapacityHeld'
    BY <2>1, <2>4 DEF CapacityHeld, Capacity
  <2>6. CallOK'
    BY <1>1, <2>1 DEF CallOK
  <2> QED
    BY <2>2, <2>3, <2>5, <2>6
<1>4. CASE /\ s # 0 /\ Rounded(s) \div Unit > size[h]
           /\ EnterMalloc(s)
           /\ op' = "realloc" /\ want' = s /\ old' = h
           /\ UNCHANGED <<ghostVars, mh>>
  BY <1>1, <1>4, EnterKeepsInv
<1> QED
  BY <1>2, <1>3, <1>4 DEF CallRealloc

-----------------------------------------------------------------------------
(* The program                                                              *)

LEMMA FillKeepsInv ==
  ASSUME Inv, NEW h \in Live, NEW v \in UserValues, Fill(h, v)
  PROVE  Inv'
<1> USE DEF Inv
<1>1. /\ pc = "idle" /\ Overwrite(Bytes(h, req[h]), v)
      /\ UNCHANGED <<initbrk, curbrk, sp, result, freep, req, holes, owned>>
      /\ UNCHANGED <<pc, op, p, prev, nblocks, mh, old, want, ret>>
      /\ Live' = Live /\ Loose' = {} /\ Loose = {} /\ Blocks' = Blocks
  BY DEF Fill, memVars, ghostVars, callVars, Live, Loose, Blocks
<1>2. v \in Words /\ req[h] \in Nat /\ req[h] <= Capacity(h)
  BY MallocAssumption, Basics DEF TypeOK, CapacityHeld
<1>3. /\ next' \in [Words -> Words] /\ size' \in [Words -> Words]
      /\ \A b \in Blocks \cup {Root} : size'[b] = size[b] /\ next'[b] = next[b]
  BY <1>1, <1>2, OverwriteKeeps
<1>4. TypeOK'
  BY <1>1, <1>3 DEF TypeOK, MemTypeOK
<1>5. Shape'
  <2>1. freep \in holes /\ holes \cap Live = {} /\ Root \notin Live
    BY DEF Shape, RingOrdered, BlocksDisjoint
  <2>2. curbrk' \in Words /\ curbrk' >= curbrk
    BY <1>1, Basics
  <2> QED
    BY <1>1, <1>3, <2>1, <2>2, ShapeFrame, HolesAreBlocks
<1>6. CapacityHeld'
  BY <1>1, <1>3 DEF CapacityHeld, Capacity, Shape, BlocksDisjoint, Blocks
<1>7. CallOK'
  BY <1>1 DEF CallOK
<1> QED
  BY <1>4, <1>5, <1>6, <1>7

\* A step of the program that touches the data segment and leaves the heap
\* alone keeps Inv, as long as the break does not come down.
LEMMA SegmentStepKeepsInv ==
  ASSUME Inv, pc = "idle", UNCHANGED <<heapVars, callVars, ghostVars>>,
         MemTypeOK', initbrk' = initbrk, curbrk' >= curbrk
  PROVE  Inv'
<1> USE DEF Inv
<1>1. /\ UNCHANGED <<next, size, freep, req, holes, owned>>
      /\ UNCHANGED <<pc, op, p, prev, nblocks, mh, old, want, ret>>
      /\ Live' = Live /\ Loose' = Loose
  BY DEF heapVars, ghostVars, callVars, Live, Loose
<1>2. TypeOK'
  BY <1>1 DEF TypeOK
<1>3. Shape'
  BY <1>1, StillShape DEF MemTypeOK
<1>4. CapacityHeld'
  BY <1>1 DEF CapacityHeld, Capacity
<1>5. CallOK'
  BY <1>1 DEF CallOK
<1> QED
  BY <1>2, <1>3, <1>4, <1>5

LEMMA OtherSbrkKeepsInv ==
  ASSUME Inv, NEW w \in SbrkSizes, OtherSbrk(w)
  PROVE  Inv'
<1>1. pc = "idle" /\ UNCHANGED <<heapVars, callVars, ghostVars>> /\ Sbrk(w) /\ curbrk + w < Word
  BY DEF OtherSbrk
<1>2. /\ curbrk \in Words /\ curbrk \in Nat /\ Word \in Nat /\ MemTypeOK /\ Failed \in Words
  BY Basics DEF Inv, TypeOK
<1>3. w \in Nat /\ Signed(w) = w
  <2>1. w \in 1 .. Word \div 2 - 1 /\ Word \div 2 \in Int
    BY <1>2, MallocAssumption
  <2> QED
    BY <2>1 DEF Signed
<1>4. (curbrk + Signed(w)) % Word = curbrk + w /\ curbrk + w \in Words
  BY <1>1, <1>2, <1>3 DEF Words
<1>5. MemTypeOK' /\ initbrk' = initbrk /\ curbrk' >= curbrk
  BY <1>1, <1>2, <1>3, <1>4 DEF Sbrk, MemTypeOK
<1> QED
  BY <1>1, <1>5, SegmentStepKeepsInv

LEMMA PushKeepsInv ==
  ASSUME Inv, NEW s \in StackPointers, Push(s)
  PROVE  Inv'
<1>1. /\ pc = "idle" /\ UNCHANGED <<heapVars, callVars, ghostVars>>
      /\ sp' = s /\ UNCHANGED <<initbrk, curbrk, result>>
  BY DEF Push, MoveStack
<1>2. MemTypeOK' /\ curbrk' >= curbrk
  BY <1>1, ValuesAssumption, Basics DEF Inv, TypeOK, MemTypeOK
<1> QED
  BY <1>1, <1>2, SegmentStepKeepsInv

-----------------------------------------------------------------------------
(* The theorems                                                             *)

LEMMA InitInv == Init => Inv
<1> SUFFICES ASSUME Init PROVE Inv
  OBVIOUS
<1> USE DEF Init, MemInit
<1>1. Live = {} /\ Loose = {} /\ Blocks = {}
  BY DEF Live, Loose, Blocks
<1>2. Root \in Words /\ 0 \in Words /\ Words \subseteq Nat /\ initbrk \in Words /\ sp \in Words
  BY WordAssumption, ValuesAssumption, MallocAssumption DEF Words
<1>3. size \in [Words -> Words] /\ next \in [Words -> Words] /\ size[Root] = 0 /\ next[Root] = Root
  BY <1>2
<1>4. TypeOK
  <2>1. req \in [Live -> Words]
    BY <1>1
  <2> QED
    BY <1>1, <1>2, <1>3, <2>1 DEF TypeOK, MemTypeOK, PCs, NULL
<1>5. Segment
  BY <1>2, <1>3, MallocAssumption DEF Segment
<1>6. BlocksDisjoint /\ HolesApart /\ CapacityHeld
  BY <1>1 DEF BlocksDisjoint, HolesApart, CapacityHeld, LaidOut
<1>7. RingOrdered
  BY <1>2, <1>3 DEF RingOrdered, IsRing, IsSuccessor
<1>8. CallOK
  BY DEF CallOK
<1> QED
  BY <1>4, <1>5, <1>6, <1>7, <1>8 DEF Inv, Shape

LEMMA StepInv == Inv /\ [Next]_vars => Inv'
<1> SUFFICES ASSUME Inv, [Next]_vars PROVE Inv'
  OBVIOUS
<1>1. CASE Library
  <2>1. CASE ReturnMalloc \/ ReturnReallocFailed
    BY <2>1, ReturnKeepsInv
  <2> QED
    BY <1>1, <2>1, ExactKeepsInv, SplitKeepsInv, ScanOnKeepsInv, GrowKeepsInv, FreeOnKeepsInv,
       LinkKeepsInv, CallocKeepsInv, ReallocKeepsInv DEF Library
<1>2. CASE Program
  BY <1>2, CallMallocKeepsInv, CallCallocKeepsInv, CallFreeKeepsInv, CallReallocKeepsInv,
     FillKeepsInv, OtherSbrkKeepsInv, PushKeepsInv DEF Program
<1>3. CASE UNCHANGED vars
  <2>1. /\ UNCHANGED <<initbrk, curbrk, sp, result, next, size, freep, req, holes, owned>>
        /\ UNCHANGED <<pc, op, p, prev, nblocks, mh, old, want, ret>>
        /\ Live' = Live /\ Loose' = Loose /\ Blocks' = Blocks
    BY <1>3 DEF vars, memVars, heapVars, ghostVars, callVars, Live, Loose, Blocks
  <2>2. TypeOK'
    BY <2>1 DEF Inv, TypeOK, MemTypeOK
  <2>3. Shape'
    BY <2>1, <2>2, Basics, StillShape DEF Inv, TypeOK, MemTypeOK
  <2>4. CapacityHeld'
    BY <2>1 DEF Inv, CapacityHeld, Capacity
  <2>5. CallOK'
    BY <2>1 DEF Inv, CallOK
  <2> QED
    BY <2>2, <2>3, <2>4, <2>5 DEF Inv
<1> QED
  BY <1>1, <1>2, <1>3 DEF Next

\* Inv holds of malloc, free, realloc and calloc in every reachable state.
THEOREM Invariance == Spec => []Inv
BY InitInv, StepInv, PTL DEF Spec

\* The variables keep their types: no size or address that the allocator
\* computes leaves the 16-bit word, so none of its unchecked sums wraps.
THEOREM MallocTypes == Spec => []TypeOK
BY Invariance, PTL DEF Inv

\* No memory is handed out twice, and none is at once free and held.
THEOREM Disjointness == Spec => []BlocksDisjoint
BY Invariance, PTL DEF Inv, Shape

\* The free list of malloc.c is one ring in address order.
THEOREM FreeListOrder == Spec => []RingOrdered
BY Invariance, PTL DEF Inv, Shape

\* free leaves no two holes that touch.
THEOREM Coalescing == Spec => []HolesApart
BY Invariance, PTL DEF Inv, Shape

-----------------------------------------------------------------------------
(* What the callers see                                                     *)

\* Area by area, what the mapping to Allocator gives.
LEMMA AreaIs ==
  ASSUME TypeOK
  PROVE  /\ DOMAIN Areas = {h + Unit : h \in Live} /\ DOMAIN Contents = DOMAIN Areas
         /\ \A h \in Live : /\ Areas[h + Unit] = req[h]
                            /\ Contents[h + Unit] =
                                 [i \in 0 .. req[h] - 1 |->
                                    <<next[h + Unit + i], size[h + Unit + i]>>]
<1>1. ASSUME NEW h \in Live
      PROVE  /\ Areas[h + Unit] = req[h]
             /\ Contents[h + Unit] =
                  [i \in 0 .. req[h] - 1 |-> <<next[h + Unit + i], size[h + Unit + i]>>]
  <2> DEFINE q == h + Unit
  <2>1. q - Unit = h
    BY Basics DEF Unit
  <2>2. q \in {g + Unit : g \in Live}
    OBVIOUS
  <2> HIDE DEF q
  <2>3. /\ Areas[q] = req[q - Unit]
        /\ Contents[q] = [i \in 0 .. req[q - Unit] - 1 |-> <<next[q + i], size[q + i]>>]
    BY <2>2 DEF Areas, Contents
  <2>4. Areas[q] = req[h]
    BY <2>1, <2>3
  <2>5. Contents[q] = [i \in 0 .. req[h] - 1 |-> <<next[q + i], size[q + i]>>]
    BY <2>1, <2>3
  <2> QED
    BY <2>4, <2>5 DEF q
<1>2. DOMAIN Areas = {h + Unit : h \in Live} /\ DOMAIN Contents = {h + Unit : h \in Live}
  BY DEF Areas, Contents
<1> QED
  BY <1>1, <1>2

LEMMA AreaIsNext ==
  ASSUME TypeOK'
  PROVE  /\ DOMAIN Areas' = {h + Unit : h \in Live'} /\ DOMAIN Contents' = DOMAIN Areas'
         /\ \A h \in Live' : /\ Areas'[h + Unit] = req'[h]
                             /\ Contents'[h + Unit] =
                                  [i \in 0 .. req'[h] - 1 |->
                                     <<next'[h + Unit + i], size'[h + Unit + i]>>]
<1>1. ASSUME NEW h \in Live'
      PROVE  /\ Areas'[h + Unit] = req'[h]
             /\ Contents'[h + Unit] =
                  [i \in 0 .. req'[h] - 1 |-> <<next'[h + Unit + i], size'[h + Unit + i]>>]
  <2> DEFINE q == h + Unit
  <2>1. q - Unit = h
    BY WordAssumption DEF Unit, TypeOK, Words
  <2>2. q \in {g + Unit : g \in Live'}
    OBVIOUS
  <2> HIDE DEF q
  <2>3. /\ Areas'[q] = req'[q - Unit]
        /\ Contents'[q] = [i \in 0 .. req'[q - Unit] - 1 |-> <<next'[q + i], size'[q + i]>>]
    BY <2>2 DEF Areas, Contents
  <2>4. Areas'[q] = req'[h]
    BY <2>1, <2>3
  <2>5. Contents'[q] = [i \in 0 .. req'[h] - 1 |-> <<next'[q + i], size'[q + i]>>]
    BY <2>1, <2>3
  <2> QED
    BY <2>4, <2>5 DEF q
<1>2. DOMAIN Areas' = {h + Unit : h \in Live'} /\ DOMAIN Contents' = {h + Unit : h \in Live'}
  BY DEF Areas, Contents
<1> QED
  BY <1>1, <1>2

\* A block that keeps its length and its bytes is an area that is kept.
LEMMA KeptIf ==
  ASSUME TypeOK, TypeOK', NEW K, K \subseteq Live, K \subseteq Live',
         \A h \in K : /\ req'[h] = req[h]
                      /\ \A a \in Bytes(h, req[h]) : next'[a] = next[a] /\ size'[a] = size[a]
  PROVE  A!Kept({h + Unit : h \in K})
<1>1. ASSUME NEW h \in K
      PROVE  Areas'[h + Unit] = Areas[h + Unit] /\ Contents'[h + Unit] = Contents[h + Unit]
  <2>1. h \in Live /\ h \in Live' /\ req'[h] = req[h] /\ h \in Nat /\ req[h] \in Nat
    BY Basics DEF TypeOK
  <2>2. \A i \in 0 .. req[h] - 1 : h + Unit + i \in Bytes(h, req[h])
    BY <2>1 DEF Bytes, Unit
  <2>3. [i \in 0 .. req'[h] - 1 |-> <<next'[h + Unit + i], size'[h + Unit + i]>>]
          = [i \in 0 .. req[h] - 1 |-> <<next[h + Unit + i], size[h + Unit + i]>>]
    BY <2>1, <2>2
  <2>4. /\ Areas[h + Unit] = req[h]
        /\ Contents[h + Unit] =
             [i \in 0 .. req[h] - 1 |-> <<next[h + Unit + i], size[h + Unit + i]>>]
    BY <2>1, AreaIs
  <2>5. /\ Areas'[h + Unit] = req'[h]
        /\ Contents'[h + Unit] =
             [i \in 0 .. req'[h] - 1 |-> <<next'[h + Unit + i], size'[h + Unit + i]>>]
    BY <2>1, AreaIsNext
  <2> HIDE <2>2
  <2> QED
    BY <2>1, <2>3, <2>4, <2>5, Zenon
<1> QED
  BY <1>1 DEF A!Kept

\* Two blocks that are held share no byte that their callers may use.
LEMMA ApartNext ==
  ASSUME Inv', NEW h \in Live', NEW g \in Live', h # g
  PROVE  A!Apart(h + Unit, req'[h], g + Unit, req'[g])
<1>1. /\ h \in Nat /\ g \in Nat /\ req'[h] \in Nat /\ req'[g] \in Nat
      /\ size'[h] \in Nat /\ size'[g] \in Nat
  BY WordAssumption DEF Inv, TypeOK, Words
<1>2. h \in Blocks' /\ g \in Blocks' /\ LaidOut(Blocks', size', initbrk', curbrk')
  BY DEF Inv, Shape, BlocksDisjoint, Blocks
<1>3. req'[h] <= Unit * (size'[h] - 1) /\ req'[g] <= Unit * (size'[g] - 1)
  BY DEF Inv, CapacityHeld, Capacity
<1>4. h + Unit * size'[h] <= g \/ g + Unit * size'[g] <= h
  BY <1>1, <1>2 DEF LaidOut
<1> QED
  BY <1>1, <1>3, <1>4 DEF A!Apart, Unit

\* No header lies among the bytes that a caller may use.
LEMMA HeaderIsSafe ==
  ASSUME Inv, NEW g \in Live, NEW b \in Blocks \cup {Root}
  PROVE  b \notin Bytes(g, req[g])
BY HeadersOutside, Basics DEF Inv, CapacityHeld, TypeOK

\* They are in memory.
LEMMA BytesAreWords ==
  ASSUME Inv, NEW g \in Live, NEW a \in Bytes(g, req[g])
  PROVE  a \in Words /\ a < curbrk
<1>1. g \in Nat /\ size[g] \in Nat /\ req[g] \in Nat /\ curbrk \in Nat /\ curbrk < Word
  BY Basics DEF Inv, TypeOK
<1>2. g \in Blocks /\ LaidOut(Blocks, size, initbrk, curbrk)
  BY DEF Inv, Shape, BlocksDisjoint, Blocks
<1>3. req[g] <= Unit * (size[g] - 1) /\ g + Unit * size[g] <= curbrk
  BY <1>2 DEF Inv, CapacityHeld, Capacity, LaidOut
<1>4. a \in Nat /\ a < curbrk
  BY <1>1, <1>3 DEF Bytes, Unit
<1> QED
  BY <1>1, <1>4, WordAssumption DEF Words

\* What is written in one block's bytes touches no other block's.
LEMMA BytesApart ==
  ASSUME Inv, NEW h \in Live, NEW g \in Live, h # g, NEW n \in Nat, n <= Capacity(h),
         NEW a \in Bytes(g, req[g])
  PROVE  a \notin Bytes(h, n)
<1>1. h \in Nat /\ g \in Nat /\ size[h] \in Nat /\ size[g] \in Nat /\ req[g] \in Nat
  BY Basics DEF Inv, TypeOK
<1>2. h \in Blocks /\ g \in Blocks /\ LaidOut(Blocks, size, initbrk, curbrk)
  BY DEF Inv, Shape, BlocksDisjoint, Blocks
<1>3. req[g] <= Unit * (size[g] - 1) /\ n <= Unit * (size[h] - 1)
  BY DEF Inv, CapacityHeld, Capacity
<1>4. h + Unit * size[h] <= g \/ g + Unit * size[g] <= h
  BY <1>1, <1>2 DEF LaidOut
<1> QED
  BY <1>1, <1>3, <1>4 DEF Bytes, Unit

\* A step that changes no request and none of the callers' bytes is not seen.
LEMMA NotSeen ==
  ASSUME TypeOK, TypeOK', req' = req,
         \A h \in Live : \A a \in Bytes(h, req[h]) : next'[a] = next[a] /\ size'[a] = size[a]
  PROVE  Areas' = Areas /\ Contents' = Contents
<1>1. Live' = Live
  BY DEF Live
<1>2. Areas' = Areas
  BY DEF Areas, Live
<1>3. A!Kept({h + Unit : h \in Live})
  BY <1>1, KeptIf
<1>4. \A q \in {h + Unit : h \in Live} : Contents'[q] = Contents[q]
  BY <1>3 DEF A!Kept
<1>5. /\ Contents = [q \in {h + Unit : h \in Live} |-> Contents[q]]
      /\ Contents' = [q \in {h + Unit : h \in Live'} |-> Contents'[q]]
  BY DEF Contents
<1>6. Contents' = [q \in {h + Unit : h \in Live} |-> Contents'[q]]
  BY <1>1, <1>5
<1>7. [q \in {h + Unit : h \in Live} |-> Contents'[q]] = [q \in {h + Unit : h \in Live} |-> Contents[q]]
  BY <1>4
<1> QED
  BY <1>2, <1>5, <1>6, <1>7, Zenon

\* In particular one that touches nothing but headers.
LEMMA HeadersNotSeen ==
  ASSUME Inv, Inv', req' = req, NEW D, D \subseteq Blocks \cup {Root},
         \A a \in Words \ D : next'[a] = next[a] /\ size'[a] = size[a]
  PROVE  Areas' = Areas /\ Contents' = Contents
<1>1. ASSUME NEW h \in Live, NEW a \in Bytes(h, req[h])
      PROVE  next'[a] = next[a] /\ size'[a] = size[a]
  <2>1. a \notin D
    BY HeaderIsSafe
  <2>2. a \in Words
    BY BytesAreWords
  <2> QED
    BY <2>1, <2>2
<1> QED
  BY <1>1, NotSeen DEF Inv

LEMMA AllocateIs ==
  ASSUME Inv, Inv', NEW h \in Words \ Live, Live' = Live \cup {h},
         \A g \in Live : req'[g] = req[g],
         \A g \in Live : \A a \in Bytes(g, req[g]) : next'[a] = next[a] /\ size'[a] = size[a]
  PROVE  A!AllocNext
<1> DEFINE q == h + Unit
<1>1. /\ A!Held = {g + Unit : g \in Live} /\ DOMAIN Areas' = {g + Unit : g \in Live'}
      /\ \A g \in Live : Areas[g + Unit] = req[g]
      /\ \A g \in Live' : Areas'[g + Unit] = req'[g]
  BY AreaIs, AreaIsNext DEF A!Held, Inv
<1>2. q \notin A!Held
  <2>1. h \in Nat /\ \A g \in Live : g \in Nat /\ g # h
    BY Basics DEF Inv
  <2> QED
    BY <1>1, <2>1 DEF Unit
<1>3. DOMAIN Areas' = A!Held \cup {q} /\ q \in DOMAIN Areas'
  BY <1>1
<1>4. A!Kept(A!Held)
  BY <1>1, KeptIf DEF Inv
<1>5. ASSUME NEW r \in A!Held
      PROVE  A!Apart(q, Areas'[q], r, Areas[r])
  <2>1. PICK g \in Live : r = g + Unit
    BY <1>1
  <2>2. A!Apart(h + Unit, req'[h], g + Unit, req'[g])
    BY ApartNext
  <2>3. Areas'[q] = req'[h] /\ Areas[r] = req'[g]
    BY <1>1, <2>1
  <2> QED
    BY <2>1, <2>2, <2>3
<1> QED
  BY <1>2, <1>3, <1>4, <1>5 DEF A!AllocNext, A!Allocate

LEMMA ReleaseIs ==
  ASSUME Inv, Inv', NEW h \in Live, Live' = Live \ {h},
         \A g \in Live' : req'[g] = req[g], UNCHANGED <<next, size>>
  PROVE  A!AllocNext
<1> DEFINE q == h + Unit
<1>1. A!Held = {g + Unit : g \in Live} /\ DOMAIN Areas' = {g + Unit : g \in Live'}
  BY AreaIs, AreaIsNext DEF A!Held, Inv
<1>2. {g + Unit : g \in Live'} = {g + Unit : g \in Live} \ {q}
  <2>1. h \in Nat /\ \A g \in Live : g \in Nat
    BY Basics DEF Inv
  <2> QED
    BY <2>1 DEF Unit
<1>3. q \in A!Held /\ DOMAIN Areas' = A!Held \ {q}
  BY <1>1, <1>2
<1>4. A!Kept({g + Unit : g \in Live'})
  BY KeptIf DEF Inv
<1> QED
  BY <1>1, <1>2, <1>3, <1>4 DEF A!AllocNext, A!Release

LEMMA ResizeIs ==
  ASSUME Inv, Inv', NEW h \in Live, Live' = Live,
         \A g \in Live \ {h} : req'[g] = req[g], UNCHANGED <<next, size>>
  PROVE  A!AllocNext
<1> DEFINE q == h + Unit
<1>1. /\ A!Held = {g + Unit : g \in Live} /\ DOMAIN Areas' = {g + Unit : g \in Live}
      /\ \A g \in Live : /\ Areas[g + Unit] = req[g] /\ Areas'[g + Unit] = req'[g]
                         /\ req[g] \in Nat /\ req'[g] \in Nat
  <2>1. A!Held = {g + Unit : g \in Live} /\ \A g \in Live : Areas[g + Unit] = req[g]
    BY AreaIs DEF A!Held, Inv
  <2>2. /\ DOMAIN Areas' = {g + Unit : g \in Live}
        /\ \A g \in Live : Areas'[g + Unit] = req'[g]
    BY AreaIsNext DEF Inv
  <2>3. \A g \in Live : req[g] \in Nat /\ req'[g] \in Nat
    BY WordAssumption DEF Inv, TypeOK, Words
  <2> QED
    BY <2>1, <2>2, <2>3
<1>2. {g + Unit : g \in Live \ {h}} = A!Held \ {q}
  <2>1. h \in Nat /\ \A g \in Live : g \in Nat
    BY Basics DEF Inv
  <2> QED
    BY <1>1, <2>1 DEF Unit
<1>3. A!Kept(A!Held \ {q})
  <2>1. A!Kept({g + Unit : g \in Live \ {h}})
    BY KeptIf DEF Inv
  <2> QED
    BY <1>2, <2>1
<1>4. ASSUME NEW r \in A!Held \ {q}
      PROVE  A!Apart(q, Areas'[q], r, Areas[r])
  <2>1. PICK g \in Live \ {h} : r = g + Unit
    BY <1>2
  <2>2. A!Apart(h + Unit, req'[h], g + Unit, req'[g])
    BY ApartNext
  <2>3. Areas'[q] = req'[h] /\ Areas[r] = req'[g]
    BY <1>1, <2>1
  <2> QED
    BY <2>1, <2>2, <2>3
<1>5. ASSUME NEW i \in 0 .. A!Min2(Areas[q], Areas'[q]) - 1
      PROVE  Contents'[q][i] = Contents[q][i]
  <2>1. i \in 0 .. req[h] - 1 /\ i \in 0 .. req'[h] - 1
    BY <1>1 DEF A!Min2
  <2>2. Contents[q] = [j \in 0 .. req[h] - 1 |-> <<next[q + j], size[q + j]>>]
    BY AreaIs DEF Inv
  <2>3. Contents'[q] = [j \in 0 .. req'[h] - 1 |-> <<next'[q + j], size'[q + j]>>]
    BY AreaIsNext DEF Inv
  <2>4. Contents[q][i] = <<next[q + i], size[q + i]>>
    BY <2>1, <2>2
  <2>5. Contents'[q][i] = <<next'[q + i], size'[q + i]>>
    BY <2>1, <2>3
  <2> QED
    BY <2>4, <2>5
<1>6. q \in A!Held /\ DOMAIN Areas' = A!Held
  BY <1>1
<1>7. A!Resize(q)
  BY <1>3, <1>4, <1>5, <1>6 DEF A!Resize
<1> QED
  BY <1>6, <1>7 DEF A!AllocNext

LEMMA WriteIs ==
  ASSUME Inv, Inv', NEW h \in Live, req' = req, NEW n \in Nat, n <= Capacity(h),
         \A a \in Words \ Bytes(h, n) : next'[a] = next[a] /\ size'[a] = size[a]
  PROVE  A!AllocNext
<1> DEFINE q == h + Unit
<1>1. A!Held = {g + Unit : g \in Live}
  BY AreaIs DEF A!Held, Inv
<1>2. {g + Unit : g \in Live \ {h}} = A!Held \ {q} /\ q \in A!Held
  <2>1. h \in Nat /\ \A g \in Live : g \in Nat
    BY Basics DEF Inv
  <2> QED
    BY <1>1, <2>1 DEF Unit
<1>3. A!Kept({g + Unit : g \in Live \ {h}})
  <2>1. Live' = Live
    BY DEF Live
  <2>2. ASSUME NEW g \in Live \ {h}, NEW a \in Bytes(g, req[g])
        PROVE  next'[a] = next[a] /\ size'[a] = size[a]
    BY BytesAreWords, BytesApart
  <2> QED
    BY <2>1, <2>2, KeptIf DEF Inv
<1>4. Areas' = Areas
  BY DEF Areas, Live
<1> QED
  BY <1>2, <1>3, <1>4 DEF A!AllocNext, A!Write

LEMMA MoveIs ==
  ASSUME Inv, Inv', ReturnRealloc
  PROVE  A!AllocNext
<1>1. PICK h \in Live : h = ret - Unit /\ old \in Live /\ size[old] < size[h]
  BY NewBlock DEF ReturnRealloc
<1>2. /\ Live' = Live \ {old} /\ \A g \in Live' : req'[g] = req[g]
      /\ next' = [a \in Words |-> IF a \in Bytes(h, Moved)
                                  THEN next[(a - h + old) % Word] ELSE next[a]]
      /\ size' = [a \in Words |-> IF a \in Bytes(h, Moved)
                                  THEN size[(a - h + old) % Word] ELSE size[a]]
  BY <1>1 DEF ReturnRealloc, Forget, Live
<1>3. /\ h \in Nat /\ old \in Nat /\ size[h] \in Nat /\ size[old] \in Nat /\ h # old
      /\ req[h] \in Nat /\ req[old] \in Nat /\ \A g \in Live : g \in Nat
      /\ req[old] <= Capacity(old)
  <2>1. \A g \in Live : g \in Nat /\ size[g] \in Nat /\ req[g] \in Nat
    BY Basics DEF Inv, TypeOK
  <2>2. h # old
    BY <1>1, <2>1
  <2> QED
    BY <1>1, <2>1, <2>2 DEF Inv, CapacityHeld
<1>4. Moved \in Nat /\ Moved <= Capacity(h) /\ req[old] <= Moved
  BY <1>1, <1>3 DEF Moved, Capacity, Unit
<1> DEFINE q == old + Unit
           r == h + Unit
<1>5. /\ A!Held = {g + Unit : g \in Live} /\ DOMAIN Areas' = {g + Unit : g \in Live'}
      /\ q \in A!Held /\ r \in A!Held /\ q # r
      /\ {g + Unit : g \in Live'} = A!Held \ {q}
      /\ {g + Unit : g \in Live \ {old, h}} = A!Held \ {q, r}
  <2>1. A!Held = {g + Unit : g \in Live} /\ DOMAIN Areas' = {g + Unit : g \in Live'}
    BY AreaIs, AreaIsNext DEF A!Held, Inv
  <2>2. {g + Unit : g \in Live \ {old}} = {g + Unit : g \in Live} \ {q}
    BY <1>3 DEF Unit
  <2>3. {g + Unit : g \in Live \ {old, h}} = {g + Unit : g \in Live} \ {q, r}
    BY <1>3 DEF Unit
  <2>4. q # r
    BY <1>3 DEF Unit
  <2> QED
    BY <1>1, <1>2, <2>1, <2>2, <2>3, <2>4
<1>6. /\ Areas[q] = req[old] /\ Areas[r] = req[h] /\ Areas'[r] = req[h]
      /\ Contents[q] = [j \in 0 .. req[old] - 1 |-> <<next[q + j], size[q + j]>>]
      /\ Contents'[r] = [j \in 0 .. req[h] - 1 |-> <<next'[r + j], size'[r + j]>>]
  <2>1. h \in Live' /\ req'[h] = req[h]
    BY <1>1, <1>2, <1>3
  <2>2. Areas[q] = req[old] /\ Areas[r] = req[h]
    BY <1>1, AreaIs DEF Inv
  <2>3. Contents[q] = [j \in 0 .. req[old] - 1 |-> <<next[q + j], size[q + j]>>]
    BY <1>1, AreaIs DEF Inv
  <2>4. Areas'[r] = req'[h]
    BY <2>1, AreaIsNext DEF Inv
  <2>5. Contents'[r] = [j \in 0 .. req'[h] - 1 |-> <<next'[r + j], size'[r + j]>>]
    BY <2>1, AreaIsNext DEF Inv
  <2> HIDE DEF q, r
  <2>6. Contents'[r] = [j \in 0 .. req[h] - 1 |-> <<next'[r + j], size'[r + j]>>]
    BY <2>1, <2>5
  <2> QED
    BY <2>1, <2>2, <2>3, <2>4, <2>6
<1>7. A!Kept(A!Held \ {q, r})
  <2>1. ASSUME NEW g \in Live \ {old, h}, NEW a \in Bytes(g, req[g])
        PROVE  next'[a] = next[a] /\ size'[a] = size[a]
    <3>1. a \in Words /\ a \notin Bytes(h, Moved)
      BY <1>4, BytesAreWords, BytesApart
    <3> QED
      BY <1>2, <3>1
  <2>2. A!Kept({g + Unit : g \in Live \ {old, h}})
    BY <1>2, <2>1, KeptIf DEF Inv
  <2> QED
    BY <1>5, <2>2
<1>8. ASSUME NEW i \in 0 .. A!Min2(Areas[q], Areas[r]) - 1
      PROVE  Contents'[r][i] = Contents[q][i]
  <2>1. i \in 0 .. req[old] - 1 /\ i \in 0 .. req[h] - 1
    BY <1>3, <1>6 DEF A!Min2
  <2>2. r + i \in Bytes(h, Moved) /\ r + i \in Bytes(h, req[h]) /\ q + i \in Bytes(old, req[old])
    BY <1>3, <1>4, <2>1 DEF Bytes, Unit
  <2>3. r + i \in Words /\ q + i \in Words
    BY <1>1, <2>2, BytesAreWords
  <2>4. ((r + i) - h + old) % Word = q + i
    <3>1. (r + i) - h + old = q + i
      BY <1>3, <2>1 DEF Unit
    <3>2. (q + i) % Word = q + i
      BY <2>3, WordAssumption DEF Words
    <3> QED
      BY <3>1, <3>2
  <2> HIDE DEF q, r
  <2>5. next'[r + i] = next[q + i] /\ size'[r + i] = size[q + i]
    <3>1. PICK a \in Words : a = r + i
      BY <2>3
    <3>2. a \in Bytes(h, Moved) /\ (a - h + old) % Word = q + i
      <4>1. a \in Bytes(h, Moved)
        BY <2>2, <3>1, Zenon
      <4>2. (a - h + old) % Word = q + i
        BY <2>4, <3>1, Zenon
      <4> QED
        BY <4>1, <4>2
    <3>3. next'[a] = next[q + i] /\ size'[a] = size[q + i]
      BY <1>2, <3>2
    <3> QED
      BY <3>1, <3>3
  <2>6. Contents[q][i] = <<next[q + i], size[q + i]>>
    BY <1>6, <2>1
  <2>7. Contents'[r][i] = <<next'[r + i], size'[r + i]>>
    BY <1>6, <2>1
  <2> QED
    BY <2>5, <2>6, <2>7
<1>9. A!Move(q, r)
  <2> HIDE DEF q, r
  <2> QED
    BY <1>5, <1>6, <1>7, <1>8 DEF A!Move
<1> QED
  BY <1>5, <1>9 DEF A!AllocNext

\* malloc's two answers are areas that nobody else holds.
LEMMA TakeIs ==
  ASSUME Inv, Inv', ScanExact \/ ScanSplit
  PROVE  A!AllocNext
<1>1. p \in holes /\ prev \in holes /\ p \in Words /\ prev \in Words
  BY Basics DEF Inv, CallOK, ScanExact, ScanSplit
<1>2. p \notin Live
  BY <1>1 DEF Inv, Shape, BlocksDisjoint
<1>3. CASE ScanExact
  <2>1. /\ next' = [next EXCEPT ![prev] = next[p]] /\ size' = size
        /\ req' = [b \in Live \cup {p} |-> IF b = p THEN want ELSE req[b]]
    BY <1>3 DEF ScanExact, Take
  <2>2. Live' = Live \cup {p} /\ \A g \in Live : req'[g] = req[g]
    BY <1>2, <2>1 DEF Live
  <2>3. ASSUME NEW g \in Live, NEW a \in Bytes(g, req[g])
        PROVE  next'[a] = next[a] /\ size'[a] = size[a]
    <3>1. a # prev /\ a \in Words
      BY <1>1, HeaderIsSafe, HolesAreBlocks, BytesAreWords
    <3> QED
      BY <2>1, <3>1 DEF Inv, TypeOK
  <2> QED
    BY <1>1, <1>2, <2>2, <2>3, AllocateIs
<1>4. CASE ScanSplit
  <2>1. PICK h \in Int : /\ h = p + Unit * (size[p] - nblocks)
                         /\ next' = next
                         /\ size' = [size EXCEPT ![p] = Left, ![h] = nblocks]
                         /\ req' = [b \in Live \cup {h} |-> IF b = h THEN want ELSE req[b]]
    <3>1. p + Unit * (size[p] - nblocks) \in Int
      BY <1>1, Basics DEF Inv, TypeOK, Unit
    <3> QED
      BY <1>4, <3>1 DEF ScanSplit, Left, Take
  <2>2. /\ size[p] > nblocks /\ nblocks \in Nat /\ nblocks >= 1 /\ size[p] \in Nat /\ p \in Nat
    BY <1>1, <1>4, Basics DEF ScanSplit, Inv, CallOK, TypeOK
  <2>3. p < h /\ h + Unit * nblocks = p + Unit * size[p]
    BY <2>1, <2>2 DEF Unit
  <2>4. p \in Blocks /\ LaidOut(Blocks, size, initbrk, curbrk)
    <3>1. p # Root
      BY <2>2 DEF Inv, Shape, Segment
    <3> QED
      BY <1>1, <3>1 DEF Inv, Shape, BlocksDisjoint, Blocks
  <2>5. h \in Words
    <3>1. p + Unit * size[p] <= curbrk /\ curbrk \in Nat /\ curbrk < Word /\ Word \in Nat
      BY <2>4, Basics DEF LaidOut, Inv
    <3> QED
      BY <2>2, <2>3, <3>1 DEF Unit, Words
  <2>6. ASSUME NEW g \in Live
        PROVE  h \notin Bytes(g, req[g]) /\ h # g
    <3>1. g \in Blocks /\ g \in Nat /\ size[g] \in Nat /\ req[g] \in Nat /\ g # p
      BY <1>2, Basics DEF Inv, Shape, BlocksDisjoint, Blocks, TypeOK
    <3>2. p + Unit * size[p] <= g \/ g + Unit * size[g] <= p
      BY <2>2, <2>4, <3>1 DEF LaidOut
    <3>3. req[g] <= Unit * (size[g] - 1) /\ size[g] >= 1
      BY <2>4, <3>1 DEF Inv, CapacityHeld, Capacity, LaidOut
    <3> QED
      BY <2>2, <2>3, <3>1, <3>2, <3>3 DEF Bytes, Unit
  <2>7. h \notin Live
    BY <2>6
  <2>8. Live' = Live \cup {h} /\ \A g \in Live : req'[g] = req[g]
    BY <2>1, <2>7 DEF Live
  <2>9. ASSUME NEW g \in Live, NEW a \in Bytes(g, req[g])
        PROVE  next'[a] = next[a] /\ size'[a] = size[a]
    <3>1. a # p /\ a # h /\ a \in Words
      BY <1>1, <2>6, HeaderIsSafe, HolesAreBlocks, BytesAreWords
    <3> QED
      BY <2>1, <3>1 DEF Inv, TypeOK
  <2> QED
    BY <2>5, <2>7, <2>8, <2>9, AllocateIs
<1> QED
  BY <1>3, <1>4

\* The rest of the library moves headers only.
LEMMA LibraryIs ==
  ASSUME Inv, Inv', Library
  PROVE  [A!AllocNext]_<<Areas, Contents>>
<1>1. CASE ScanExact \/ ScanSplit
  BY <1>1, TakeIs
<1>2. CASE ScanOn \/ FreeOn \/ ReturnMalloc \/ ReturnReallocFailed
  <2>1. UNCHANGED <<next, size, req>>
    BY <1>2 DEF ScanOn, FreeOn, ReturnMalloc, ReturnReallocFailed, heapVars, ghostVars
  <2> QED
    BY <2>1, HeadersNotSeen
<1>3. CASE ScanGrow
  <2>1. next' = next /\ req' = req
    BY <1>3 DEF ScanGrow
  <2>2. \A a \in Words : a # curbrk => size'[a] = size[a]
    BY <1>3 DEF ScanGrow, Inv, TypeOK
  <2>3. ASSUME NEW g \in Live, NEW a \in Bytes(g, req[g])
        PROVE  next'[a] = next[a] /\ size'[a] = size[a]
    <3>1. a \in Words /\ a < curbrk /\ curbrk \in Nat /\ a \in Nat
      BY BytesAreWords, Basics DEF Inv
    <3> QED
      BY <2>1, <2>2, <3>1
  <2> QED
    BY <2>1, <2>3, NotSeen DEF Inv
<1>4. CASE FreeLink
  <2>1. p \in Blocks \cup {Root} /\ mh \in Blocks \cup {Root}
    BY <1>4, HolesAreBlocks DEF FreeLink, Inv, CallOK, Blocks, Loose
  <2>2. req' = req
    BY <1>4 DEF FreeLink
  <2>3. \A a \in Words \ {p, mh} : next'[a] = next[a] /\ size'[a] = size[a]
    BY <1>4 DEF FreeLink, Inv, TypeOK
  <2> QED
    BY <2>1, <2>2, <2>3, HeadersNotSeen
<1>5. CASE ReturnCalloc
  <2>1. PICK h \in Live : h = ret - Unit /\ want \in Nat /\ want <= Capacity(h)
    BY <1>5, NewBlock DEF ReturnCalloc
  <2>2. req' = req /\ Overwrite(Bytes(h, want), 0)
    BY <1>5, <2>1 DEF ReturnCalloc, ghostVars
  <2>3. \A a \in Words \ Bytes(h, want) : next'[a] = next[a] /\ size'[a] = size[a]
    BY <2>2 DEF Overwrite
  <2> QED
    BY <2>1, <2>2, <2>3, WriteIs
<1>6. CASE ReturnRealloc
  BY <1>6, MoveIs
<1> QED
  BY <1>1, <1>2, <1>3, <1>4, <1>5, <1>6 DEF Library

LEMMA ProgramIs ==
  ASSUME Inv, Inv', Program
  PROVE  [A!AllocNext]_<<Areas, Contents>>
<1>1. CASE \/ \E s \in MallocSizes : CallMalloc(s)
           \/ \E c \in CallocSizes : CallCalloc(c[1], c[2])
           \/ \E w \in SbrkSizes : OtherSbrk(w)
           \/ \E s \in StackPointers : Push(s)
  <2>1. UNCHANGED <<next, size, req>>
    BY <1>1 DEF CallMalloc, CallCalloc, OtherSbrk, Push, heapVars, ghostVars
  <2> QED
    BY <2>1, HeadersNotSeen
<1>2. ASSUME NEW h \in Live, CallFree(h)
      PROVE  A!AllocNext
  <2>1. UNCHANGED <<next, size>> /\ Live' = Live \ {h} /\ \A g \in Live' : req'[g] = req[g]
    BY <1>2 DEF CallFree, Forget, heapVars, Live
  <2> QED
    BY <2>1, ReleaseIs
<1>3. ASSUME NEW h \in Live, NEW s \in ReallocSizes, CallRealloc(h, s)
      PROVE  [A!AllocNext]_<<Areas, Contents>>
  <2>1. UNCHANGED <<next, size>>
    BY <1>3 DEF CallRealloc, heapVars
  <2>2. CASE Forget(h)
    <3>1. Live' = Live \ {h} /\ \A g \in Live' : req'[g] = req[g]
      BY <2>2 DEF Forget, Live
    <3> QED
      BY <2>1, <3>1, ReleaseIs
  <2>3. CASE req' = [req EXCEPT ![h] = s]
    <3>1. Live' = Live /\ \A g \in Live \ {h} : req'[g] = req[g]
      BY <2>3 DEF Live
    <3> QED
      BY <2>1, <3>1, ResizeIs
  <2>4. CASE req' = req
    BY <2>1, <2>4, HeadersNotSeen
  <2> QED
    BY <1>3, <2>2, <2>3, <2>4 DEF CallRealloc, ghostVars
<1>4. ASSUME NEW h \in Live, NEW v \in UserValues, Fill(h, v)
      PROVE  A!AllocNext
  <2>1. req' = req /\ Overwrite(Bytes(h, req[h]), v) /\ req[h] \in Nat /\ req[h] <= Capacity(h)
    BY <1>4, Basics DEF Fill, ghostVars, Inv, TypeOK, CapacityHeld
  <2>2. \A a \in Words \ Bytes(h, req[h]) : next'[a] = next[a] /\ size'[a] = size[a]
    BY <2>1 DEF Overwrite
  <2> QED
    BY <2>1, <2>2, WriteIs
<1> QED
  BY <1>1, <1>2, <1>3, <1>4 DEF Program

\* The callers of malloc, free, realloc and calloc see an allocator: areas that
\* never overlap, whose bytes change only when their holder writes them or asks
\* for another size, and which realloc carries over when it moves an area.
THEOREM IsAnAllocatorHolds == Spec => IsAnAllocator
<1>1. Init => A!AllocInit
  <2> SUFFICES ASSUME Init PROVE A!AllocInit
    OBVIOUS
  <2>1. Live = {}
    BY DEF Init, Live
  <2> QED
    BY <2>1 DEF A!AllocInit, A!Held, Areas
<1>2. Inv /\ Inv' /\ [Next]_vars => [A!AllocNext]_<<Areas, Contents>>
  <2> SUFFICES ASSUME Inv, Inv', [Next]_vars PROVE [A!AllocNext]_<<Areas, Contents>>
    OBVIOUS
  <2>1. CASE UNCHANGED vars
    <3>1. UNCHANGED <<next, size, req>>
      BY <2>1 DEF vars, heapVars, ghostVars
    <3> QED
      BY <3>1, HeadersNotSeen
  <2> QED
    BY <2>1, LibraryIs, ProgramIs DEF Next
<1> QED
  BY <1>1, <1>2, Invariance, PTL DEF Spec, IsAnAllocator, A!AllocSpec

-----------------------------------------------------------------------------
(* The orbit of malloc                                                      *)

\* The holes that the orbit has passed, from the free pointer round to prev.
Passed == {h \in holes : \/ freep < h /\ h <= prev
                         \/ prev < freep /\ (h > freep \/ h <= prev)}

\* malloc has found each of them too small.
Searched == pc = "scan" => \A h \in Passed : size[h] < nblocks

\* The root lies below every other hole.
LEMMA RootIsLowest ==
  ASSUME Inv, NEW h \in holes
  PROVE  h = Root \/ Root < h
<1>1. CASE h # Root
  <2>1. h \in Blocks /\ LaidOut(Blocks, size, initbrk, curbrk) /\ Root + Unit <= initbrk
    BY <1>1 DEF Inv, Shape, BlocksDisjoint, Blocks, Segment
  <2> QED
    BY <2>1, Basics DEF Inv, LaidOut, Unit
<1> QED
  BY <1>1

LEMMA ScanFacts ==
  ASSUME Inv, pc = "scan"
  PROVE  /\ p \in holes /\ prev \in holes /\ freep \in holes /\ IsSuccessor(holes, prev, p)
         /\ \A h \in holes : h \in Nat /\ (h = Root \/ Root < h)
         /\ Root \in holes
<1>1. p \in holes /\ prev \in holes /\ freep \in holes /\ IsSuccessor(holes, prev, p)
  BY DEF Inv, CallOK, Shape, RingOrdered, IsRing
<1>2. \A h \in holes : h \in Nat
  BY Basics DEF Inv
<1>3. Root \in holes
  BY DEF Inv, Shape, RingOrdered, IsRing
<1> QED
  BY <1>1, <1>2, <1>3, RootIsLowest

\* The next hole of the orbit is the only one that a step of it adds.
LEMMA OrbitAdds ==
  ASSUME Inv, ScanOn
  PROVE  Passed' \subseteq Passed \cup {p}
<1>1. /\ pc = "scan" /\ holes' = holes /\ freep' = freep /\ prev' = p /\ p # freep
  BY DEF ScanOn, heapVars, ghostVars, OrbitOver
<1>2. /\ p \in holes /\ prev \in holes /\ freep \in holes /\ IsSuccessor(holes, prev, p)
      /\ \A h \in holes : h \in Nat /\ (h = Root \/ Root < h)
      /\ Root \in holes
  BY <1>1, ScanFacts
<1>3. ASSUME NEW h \in Passed', h # p
      PROVE  h \in Passed
  <2>1. /\ h \in holes
        /\ \/ freep < h /\ h <= p
           \/ p < freep /\ (h > freep \/ h <= p)
    BY <1>1, <1>3 DEF Passed
  <2>2. CASE p > prev /\ \A c \in holes : c <= prev \/ c >= p
    BY <1>1, <1>2, <1>3, <2>1, <2>2 DEF Passed
  <2>3. CASE p = Root /\ \A c \in holes : c <= prev
    BY <1>1, <1>2, <1>3, <2>1, <2>3 DEF Passed
  <2> QED
    BY <1>2, <2>2, <2>3 DEF IsSuccessor
<1> QED
  BY <1>3

\* Back at the free pointer it has passed all the others.
LEMMA OrbitCovers ==
  ASSUME Inv, pc = "scan", p = freep
  PROVE  holes \subseteq Passed \cup {p}
<1>1. /\ p \in holes /\ prev \in holes /\ freep \in holes /\ IsSuccessor(holes, prev, p)
      /\ \A h \in holes : h \in Nat /\ (h = Root \/ Root < h)
      /\ Root \in holes
  BY ScanFacts
<1>2. ASSUME NEW h \in holes, h # p
      PROVE  h \in Passed
  BY <1>1, <1>2 DEF Passed, IsSuccessor
<1> QED
  BY <1>2

\* A search that starts has passed no hole.
LEMMA OrbitStarts ==
  ASSUME TypeOK', prev' = freep'
  PROVE  Passed' = {}
<1>1. freep' \in Int /\ \A h \in holes' : h \in Int
  BY WordAssumption DEF TypeOK, Words
<1> QED
  BY <1>1 DEF Passed

LEMMA StepSearched ==
  ASSUME Inv, Inv', Searched, [Next]_vars
  PROVE  Searched'
<1>1. CASE ScanOn
  <2>1. pc = "scan" /\ size[p] < nblocks /\ UNCHANGED <<pc, size, nblocks>>
    BY <1>1 DEF ScanOn, heapVars
  <2> QED
    BY <1>1, <2>1, OrbitAdds DEF Searched
<1>2. CASE FreeLink
  <2>1. pc' = "scan" => prev' = freep'
    BY <1>2 DEF FreeLink, Back
  <2> QED
    BY <2>1, OrbitStarts DEF Searched, Inv
<1>3. CASE Library /\ ~ ScanOn /\ ~ FreeLink
  <2>1. pc' # "scan"
    BY <1>3 DEF Library, ScanExact, ScanSplit, ScanGrow, FreeOn, Take, ReturnMalloc,
       ReturnCalloc, ReturnReallocFailed, ReturnRealloc, Back, EnterFree
  <2> QED
    BY <2>1 DEF Searched
<1>4. ASSUME NEW s, EnterMalloc(s), freep' = freep
      PROVE  Searched'
  <2>1. pc' = "scan" => prev' = freep'
    BY <1>4 DEF EnterMalloc
  <2> QED
    BY <2>1, OrbitStarts DEF Searched, Inv
<1>5. CASE Program
  <2>1. CASE \E s \in MallocSizes : CallMalloc(s)
    BY <1>4, <2>1 DEF CallMalloc, heapVars
  <2>2. CASE \E c \in CallocSizes : CallCalloc(c[1], c[2])
    BY <1>4, <2>2 DEF CallCalloc, heapVars
  <2>3. CASE \E h \in Live : CallFree(h)
    <3>1. pc' # "scan"
      BY <2>3 DEF CallFree, EnterFree
    <3> QED
      BY <3>1 DEF Searched
  <2>4. ASSUME NEW h \in Live, NEW s \in ReallocSizes, CallRealloc(h, s)
        PROVE  Searched'
    <3>1. CASE EnterFree(h)
      BY <3>1 DEF EnterFree, Searched
    <3>2. CASE UNCHANGED callVars
      <4>1. pc' # "scan"
        BY <2>4, <3>2 DEF CallRealloc, callVars
      <4> QED
        BY <4>1 DEF Searched
    <3>3. CASE EnterMalloc(s)
      BY <1>4, <2>4, <3>3 DEF CallRealloc, heapVars
    <3> QED
      BY <2>4, <3>1, <3>2, <3>3 DEF CallRealloc
  <2>5. CASE \/ \E h \in Live, v \in UserValues : Fill(h, v)
             \/ \E w \in SbrkSizes : OtherSbrk(w)
             \/ \E s \in StackPointers : Push(s)
    <3>1. pc' # "scan"
      BY <2>5 DEF Fill, OtherSbrk, Push, callVars
    <3> QED
      BY <3>1 DEF Searched
  <2> QED
    BY <1>5, <2>1, <2>2, <2>3, <2>4, <2>5 DEF Program
<1>6. CASE UNCHANGED vars
  BY <1>6 DEF vars, heapVars, callVars, ghostVars, Searched, Passed
<1> QED
  BY <1>1, <1>2, <1>3, <1>5, <1>6 DEF Next

\* malloc asks brk for memory only when no hole on the whole free list is as
\* large as the request, wherever the rotating free pointer made it start.
THEOREM GrowsOnlyWhenFullHolds == Spec => GrowsOnlyWhenFull
<1>1. Init => Searched
  BY DEF Init, Searched
<1>2. Inv /\ Searched /\ [Next]_vars => [ScanGrow => \A h \in holes : size[h] < nblocks]_vars
  <2> SUFFICES ASSUME Inv, Searched, ScanGrow, NEW h \in holes
               PROVE  size[h] < nblocks
    OBVIOUS
  <2>1. pc = "scan" /\ size[p] < nblocks /\ p = freep
    BY DEF ScanGrow, OrbitOver
  <2> QED
    BY <2>1, OrbitCovers DEF Searched
<1> QED
  BY <1>1, <1>2, Invariance, StepSearched, PTL DEF Spec, GrowsOnlyWhenFull

-----------------------------------------------------------------------------
(* Nothing lost                                                             *)

\* A step that moves no block and gets no memory loses none.
LEMMA NothingMoves ==
  ASSUME NothingLost, owned' = owned, Blocks' = Blocks,
         \A b \in Blocks : size'[b] = size[b]
  PROVE  NothingLost'
<1>1. Cover(Blocks', size') = Cover(Blocks, size)
  BY CoverFrame
<1> QED
  BY <1>1 DEF NothingLost, Cover

LEMMA StepNothingLost ==
  ASSUME Inv, NothingLost, [Next]_vars
  PROVE  NothingLost'
<1>1. CASE ScanSplit \/ FreeLink
  <2>1. Cover(Blocks', size') = Cover(Blocks, size)
    BY <1>1, SplitKeepsInv, LinkKeepsInv
  <2>2. owned' = owned
    BY <1>1 DEF ScanSplit, FreeLink
  <2> QED
    BY <2>1, <2>2 DEF NothingLost, Cover
<1>2. CASE ScanGrow
  BY <1>2, GrowKeepsInv
<1>3. CASE ScanExact
  <2>1. p \in holes /\ p # Root /\ Loose = {} /\ Loose' = {}
    <3>1. pc = "scan" /\ size[p] >= nblocks
      BY <1>3, Basics DEF ScanExact, Inv, TypeOK
    <3> QED
      BY <1>3, <3>1, FoundHole DEF ScanExact, Take, Loose, Inv
  <2>2. Blocks' = Blocks /\ size' = size /\ owned' = owned
    BY <1>3, <2>1 DEF ScanExact, Take, Blocks, Live
  <2> QED
    BY <2>2, NothingMoves
<1>4. ASSUME UNCHANGED <<size, holes, owned>>, Live' \cup Loose' = Live \cup Loose
      PROVE  NothingLost'
  BY <1>4, NothingMoves DEF Blocks
<1>5. ASSUME NEW h \in Live, Loose = {}, EnterFree(h), Forget(h)
      PROVE  Live' \cup Loose' = Live \cup Loose /\ UNCHANGED <<holes, owned>>
  BY <1>5 DEF EnterFree, Forget, Live, Loose
<1>6. CASE ScanOn \/ FreeOn \/ ReturnMalloc \/ ReturnReallocFailed
  BY <1>4, <1>6 DEF ScanOn, FreeOn, ReturnMalloc, ReturnReallocFailed, Back, heapVars, ghostVars,
     Live, Loose
<1>7. CASE ReturnCalloc
  <2>1. PICK h \in Live : h = ret - Unit /\ want \in Nat /\ want <= Capacity(h) /\ Loose = {}
    BY <1>7, NewBlock DEF ReturnCalloc
  <2>2. /\ UNCHANGED <<req, holes, owned>> /\ Overwrite(Bytes(h, want), 0)
        /\ Live' = Live /\ Loose' = {}
    BY <1>7, <2>1 DEF ReturnCalloc, ghostVars, Back, Live, Loose
  <2>3. \A b \in Blocks : size'[b] = size[b]
    BY <2>1, <2>2, HeadersOutside, Basics DEF Overwrite, Inv
  <2> QED
    BY <2>1, <2>2, <2>3, NothingMoves DEF Blocks
<1>8. CASE ReturnRealloc
  <2>1. PICK h \in Live : h = ret - Unit /\ old \in Live /\ size[old] < size[h] /\ Loose = {}
    BY <1>8, NewBlock DEF ReturnRealloc
  <2>2. Moved \in Nat /\ Moved <= Capacity(h)
    BY <2>1, Basics DEF Moved, Capacity, Unit, Inv
  <2>3. /\ Live' \cup Loose' = Live \cup Loose /\ UNCHANGED <<holes, owned>>
        /\ size' = [a \in Words |-> IF a \in Bytes(h, Moved)
                                    THEN size[(a - h + old) % Word] ELSE size[a]]
    BY <1>5, <1>8, <2>1 DEF ReturnRealloc
  <2>4. \A b \in Blocks : size'[b] = size[b]
    BY <2>1, <2>2, <2>3, HeadersOutside, Basics DEF Inv
  <2> QED
    BY <2>3, <2>4, NothingMoves DEF Blocks
<1>9. ASSUME NEW s, EnterMalloc(s), pc = "idle", UNCHANGED <<size, req, holes, owned>>
      PROVE  NothingLost'
  BY <1>4, <1>9 DEF EnterMalloc, Live, Loose
<1>10. CASE Program
  <2>1. CASE \/ \E s \in MallocSizes : CallMalloc(s)
             \/ \E c \in CallocSizes : CallCalloc(c[1], c[2])
    BY <1>9, <2>1 DEF CallMalloc, CallCalloc, heapVars, ghostVars
  <2>2. ASSUME NEW h \in Live, CallFree(h)
        PROVE  NothingLost'
    <3>1. Loose = {} /\ EnterFree(h) /\ Forget(h) /\ size' = size
      BY <2>2 DEF CallFree, Loose, heapVars
    <3> QED
      BY <1>4, <1>5, <3>1
  <2>3. ASSUME NEW h \in Live, NEW s \in ReallocSizes, CallRealloc(h, s)
        PROVE  NothingLost'
    <3>1. pc = "idle" /\ Loose = {} /\ size' = size
      BY <2>3 DEF CallRealloc, Loose, heapVars
    <3>2. CASE EnterFree(h) /\ Forget(h)
      BY <1>4, <1>5, <3>1, <3>2
    <3>3. CASE req' = [req EXCEPT ![h] = s] /\ UNCHANGED <<holes, owned, callVars>>
      BY <1>4, <3>1, <3>3 DEF callVars, Live, Loose
    <3>4. CASE EnterMalloc(s) /\ UNCHANGED ghostVars
      BY <1>9, <3>1, <3>4 DEF ghostVars
    <3> QED
      BY <2>3, <3>2, <3>3, <3>4 DEF CallRealloc
  <2>4. ASSUME NEW h \in Live, NEW v \in UserValues, Fill(h, v)
        PROVE  NothingLost'
    <3>1. /\ UNCHANGED <<req, holes, owned, pc>> /\ Overwrite(Bytes(h, req[h]), v)
          /\ Live' = Live /\ Loose' = Loose
      BY <2>4 DEF Fill, ghostVars, callVars, Live, Loose
    <3>2. \A b \in Blocks : size'[b] = size[b]
      BY <3>1, HeaderIsSafe, Basics DEF Overwrite, Inv
    <3> QED
      BY <3>1, <3>2, NothingMoves DEF Blocks
  <2>5. CASE \/ \E w \in SbrkSizes : OtherSbrk(w)
             \/ \E s \in StackPointers : Push(s)
    BY <1>4, <2>5 DEF OtherSbrk, Push, heapVars, callVars, ghostVars, Live, Loose
  <2> QED
    BY <1>10, <2>1, <2>2, <2>3, <2>4, <2>5 DEF Program
<1>11. CASE UNCHANGED vars
  BY <1>4, <1>11 DEF vars, heapVars, callVars, ghostVars, Live, Loose
<1> QED
  BY <1>1, <1>2, <1>3, <1>6, <1>7, <1>8, <1>10, <1>11 DEF Next, Library

\* Every byte that brkmore has had from the system lies in a block, free or
\* held, whatever splits, merges and failed calls came before.
THEOREM NothingLostHolds == Spec => []NothingLost
<1>1. Init => NothingLost
  <2> SUFFICES ASSUME Init PROVE NothingLost
    OBVIOUS
  <2>1. Blocks = {} /\ owned = {}
    BY DEF Init, Blocks, Live, Loose
  <2> QED
    BY <2>1 DEF NothingLost
<1> QED
  BY <1>1, Invariance, StepNothingLost, PTL DEF Spec

=============================================================================
