------------------------------ MODULE ExitProofs ------------------------------
(***************************************************************************)
(* The list of FILEs and the end of a program, for every heap, table of    *)
(* handlers and failure.  The list is what head leads to: the least set of *)
(* FILEs that holds the head and, with a FILE, the next one.               *)
(***************************************************************************)
EXTENDS Exit, Induction, FiniteSetTheorems, SequenceTheorems

Places == FILEs \cup {Null}

\* Listed, for any next fields.
Chain(nx, h) ==
    LET walk[n \in 0 .. Cardinality(FILEs)] ==
          IF n = 0 THEN {h}
          ELSE walk[n - 1] \cup {nx[f] : f \in walk[n - 1] \ {Null}}
    IN  walk[Cardinality(FILEs)] \ {Null}

\* With a FILE of S, the next one is in S.
NextToo(nx, S) == \A f \in S : f # Null => nx[f] = Null \/ nx[f] \in S

LEMMA ListedIs ==
  /\ \A h : Listed(h) = Chain(next, h)
  /\ \A h : Listed(h)' = Chain(next', h)
BY DEF Listed, Chain

-----------------------------------------------------------------------------
(* Walks                                                                    *)

N == Cardinality(FILEs)

LEMMA HowMany == N \in Nat /\ IsFiniteSet(Places) /\ Cardinality(Places) = N + 1 /\ Null \notin FILEs
<1>1. IsFiniteSet(Heap) /\ Null \notin FILEs
  BY ListAssumption DEF FILEs
<1>2. IsFiniteSet(FILEs)
  BY <1>1, FS_AddElement DEF FILEs
<1>3. N \in Nat
  BY <1>2, FS_CardinalityType DEF N
<1>4. IsFiniteSet(Places) /\ Cardinality(Places) = N + 1
  BY <1>1, <1>2, FS_AddElement DEF Places, N
<1> QED
  BY <1>1, <1>3, <1>4

\* One step further from the places X.
Further(nx, X) == X \cup {nx[f] : f \in X \ {Null}}

\* w walks from h along nx.
Walk(w, nx, h) ==
    /\ w \in [0 .. N -> SUBSET Places] /\ w[0] = {h}
    /\ \A i \in 1 .. N : w[i] = Further(nx, w[i - 1])

LEMMA ChainIsWalk ==
  ASSUME NEW nx \in [FILEs -> Places], NEW h \in Places
  PROVE  \E w : Walk(w, nx, h) /\ Chain(nx, h) = w[N] \ {Null}
<1> DEFINE V == SUBSET Places
           step == [i \in 1 .. N |-> [X \in V |-> Further(nx, X)]]
           IsLoop(f) == f = [n \in 0 .. N |-> IF n = 0 THEN {h} ELSE Further(nx, f[n - 1])]
           walk == CHOOSE f : IsLoop(f)
<1>1. N \in Nat
  BY HowMany
<1>2. \A X \in V : Further(nx, X) \in V
  BY DEF Further, Places
<1>3. PICK f \in [0 .. N -> V] : f[0] = {h} /\ \A i \in 1 .. N : f[i] = step[i][f[i - 1]]
  <2>1. {h} \in V /\ step \in Steps(N, V)
    BY <1>2 DEF Steps
  <2> HIDE DEF V, step
  <2> QED
    BY <1>1, <2>1, Recursion
<1>4. \A i \in 1 .. N : f[i] = Further(nx, f[i - 1])
  <2>1. \A i \in 1 .. N : i - 1 \in 0 .. N
    BY <1>1
  <2> QED
    BY <1>3, <2>1
<1>5. IsLoop(f)
  BY <1>3, <1>4
<1>6. IsLoop(walk)
  BY <1>5
<1>7. walk = f
  <2> DEFINE S == {i \in 0 .. N : walk[i] = f[i]}
  <2>1. walk[0] = {h} /\ \A i \in 1 .. N : walk[i] = Further(nx, walk[i - 1])
    <3> HIDE DEF walk
    <3>1. \A i \in 0 .. N : walk[i] = IF i = 0 THEN {h} ELSE Further(nx, walk[i - 1])
      BY <1>6
    <3>2. 0 \in 0 .. N /\ \A i \in 1 .. N : i \in 0 .. N /\ i # 0
      BY <1>1
    <3> QED
      BY <3>1, <3>2
  <2>2. 0 \in S
    <3> HIDE DEF walk, step, V
    <3>1. walk[0] = f[0] /\ 0 \in 0 .. N
      BY <1>1, <1>3, <2>1
    <3> QED
      BY <3>1
  <2>3. \A i \in 1 .. N : i - 1 \in S => i \in S
    <3> HIDE DEF walk
    <3> QED
      BY <1>1, <1>4, <2>1
  <2>4. \A i \in 0 .. N : walk[i] = f[i]
    <3>1. \A i \in 0 .. N : i \in S
      <4> HIDE DEF S
      <4> QED
        BY <1>1, <2>2, <2>3, UpTo
    <3> QED
      BY <3>1
  <2>5. walk = [i \in 0 .. N |-> walk[i]]
    <3> HIDE DEF walk
    <3> QED
      BY <1>6
  <2> HIDE DEF walk
  <2> QED
    BY <1>3, <2>4, <2>5
<1>8. Chain(nx, h) = walk[N] \ {Null}
  BY DEF Chain, Further, N
<1>9. Walk(f, nx, h)
  BY <1>3, <1>4 DEF Walk
<1> HIDE DEF walk
<1> QED
  BY <1>7, <1>8, <1>9

\* A walk of N steps has come everywhere it leads.
LEMMA WalkEnds ==
  ASSUME NEW nx \in [FILEs -> Places], NEW h \in Places, NEW w, Walk(w, nx, h)
  PROVE  NextToo(nx, w[N]) /\ h \in w[N]
<1> DEFINE S == {i \in 0 .. N : h \in w[i] /\ (Further(nx, w[i]) = w[i] \/ Cardinality(w[i]) >= i + 1)}
<1>1. N \in Nat /\ \A i \in 0 .. N : w[i] \in SUBSET Places /\ IsFiniteSet(w[i]) /\ Cardinality(w[i]) \in Nat
  <2>1. \A X \in SUBSET Places : IsFiniteSet(X) /\ Cardinality(X) \in Nat
    BY HowMany, FS_Subset, FS_CardinalityType
  <2> QED
    BY <2>1, HowMany DEF Walk
<1>2. 0 \in S
  BY <1>1, FS_Singleton DEF Walk
<1>3. ASSUME NEW i \in 1 .. N, i - 1 \in S PROVE i \in S
  <2> DEFINE X == w[i - 1]
             Y == w[i]
  <2>1. /\ i \in Nat /\ i - 1 \in Nat /\ i - 1 \in 0 .. N /\ i \in 0 .. N /\ (i - 1) + 1 = i
        /\ Y = Further(nx, X)
    BY <1>1 DEF Walk
  <2>2. IsFiniteSet(X) /\ IsFiniteSet(Y) /\ Cardinality(X) \in Nat /\ Cardinality(Y) \in Nat /\ X \subseteq Y
    BY <1>1, <2>1 DEF Further
  <2>3. h \in X /\ (Further(nx, X) = X \/ Cardinality(X) >= i)
    BY <1>3, <2>1
  <2> HIDE DEF X, Y
  <2>4. CASE Y = X
    BY <2>1, <2>3, <2>4 DEF X, Y
  <2>5. CASE Y # X
    <3>1. Cardinality(X) <= Cardinality(Y) /\ Cardinality(X) # Cardinality(Y)
      BY <2>2, <2>5, FS_Subset
    <3>2. Cardinality(X) >= i
      BY <2>1, <2>3, <2>5
    <3>3. Cardinality(Y) >= i + 1
      BY <2>1, <2>2, <3>1, <3>2
    <3> QED
      BY <2>1, <2>2, <2>3, <3>3 DEF Y
  <2> QED
    BY <2>4, <2>5
<1>4. N \in S
  <2> HIDE DEF S
  <2>1. \A i \in 0 .. N : i \in S
    BY <1>1, <1>2, <1>3, UpTo
  <2> QED
    BY <1>1, <2>1
<1>5. CASE Further(nx, w[N]) = w[N]
  BY <1>4, <1>5 DEF Further, NextToo
<1>6. CASE Cardinality(w[N]) >= N + 1
  <2>1. w[N] \in SUBSET Places /\ Cardinality(w[N]) \in Nat
    BY <1>1
  <2>2. Cardinality(w[N]) <= N + 1
    BY <2>1, HowMany, FS_Subset
  <2>3. Cardinality(w[N]) = N + 1
    BY <1>1, <1>6, <2>1, <2>2
  <2>4. w[N] = Places
    BY <2>1, <2>3, HowMany, FS_Subset
  <2> QED
    BY <1>4, <2>4 DEF NextToo, Places
<1> QED
  BY <1>4, <1>5, <1>6

\* The chain from h: FILEs, h among them, and the next of each.
LEMMA ChainIs ==
  ASSUME NEW nx \in [FILEs -> Places], NEW h \in Places
  PROVE  /\ Chain(nx, h) \subseteq FILEs
         /\ h # Null => h \in Chain(nx, h)
         /\ NextToo(nx, Chain(nx, h))
<1>1. PICK w : Walk(w, nx, h) /\ Chain(nx, h) = w[N] \ {Null}
  BY ChainIsWalk
<1>2. NextToo(nx, w[N]) /\ h \in w[N]
  BY <1>1, WalkEnds
<1>3. w[N] \in SUBSET Places
  BY <1>1, HowMany DEF Walk
<1> QED
  BY <1>1, <1>2, <1>3 DEF NextToo, Places

\* There is no smaller set of that kind.
LEMMA ChainIsLeast ==
  ASSUME NEW nx \in [FILEs -> Places], NEW h \in Places, NEW T, NextToo(nx, T), h = Null \/ h \in T
  PROVE  Chain(nx, h) \subseteq T
<1>1. PICK w : Walk(w, nx, h) /\ Chain(nx, h) = w[N] \ {Null}
  BY ChainIsWalk
<1> DEFINE S == {i \in 0 .. N : w[i] \subseteq T \cup {Null}}
<1>2. N \in Nat
  BY HowMany
<1>3. 0 \in S
  BY <1>1, <1>2 DEF Walk
<1>4. ASSUME NEW i \in 1 .. N, i - 1 \in S PROVE i \in S
  <2>1. w[i] = Further(nx, w[i - 1]) /\ i \in 0 .. N /\ w[i - 1] \subseteq T \cup {Null}
    BY <1>1, <1>2, <1>4 DEF Walk
  <2>2. Further(nx, w[i - 1]) \subseteq T \cup {Null}
    BY <2>1 DEF Further, NextToo
  <2> QED
    BY <2>1, <2>2
<1>5. N \in S
  <2> HIDE DEF S
  <2>1. \A i \in 0 .. N : i \in S
    BY <1>2, <1>3, <1>4, UpTo
  <2> QED
    BY <1>2, <2>1
<1> QED
  BY <1>1, <1>5

-----------------------------------------------------------------------------
(* The list                                                                 *)

Flags == {"open", "freefil", "pending", "err"}

Types ==
    /\ head \in Places /\ next \in [FILEs -> Places] /\ alloc \subseteq Heap
    /\ mode \in [FILEs -> SUBSET Flags]
    /\ fd \in [FILEs -> Nat \cup {NoFd}] /\ fds \subseteq Nat
    /\ done \in {"running", "exiting", "exited"}

\* The chain from h stays in A and does not come back.
SoundFrom(nx, h, A) ==
    /\ Chain(nx, h) \subseteq A
    /\ \A f \in Chain(nx, h) : f \notin Chain(nx, nx[f])

Sound == SoundFrom(next, head, alloc)

LEMMA SoundIs == Sound <=> ListSound
BY ListedIs DEF Sound, SoundFrom, ListSound

\* A FILE that is not on a sound list may be put before it.
LEMMA Pushed ==
  ASSUME NEW nx \in [FILEs -> Places], NEW h \in Places, NEW A, SoundFrom(nx, h, A),
         NEW f \in FILEs, f \notin A
  PROVE  SoundFrom([nx EXCEPT ![f] = h], f, A \cup {f})
<1> DEFINE ny == [nx EXCEPT ![f] = h]
           C == Chain(nx, h)
           S == C \cup {f}
<1>1. ny \in [FILEs -> Places] /\ ny[f] = h /\ \A g \in FILEs : g # f => ny[g] = nx[g]
  OBVIOUS
<1>2. f \in Places /\ FILEs \subseteq Places /\ Null \notin FILEs
  BY HowMany DEF Places
<1>3. C \subseteq FILEs /\ (h # Null => h \in C) /\ NextToo(nx, C) /\ C \subseteq A
  BY ChainIs DEF SoundFrom
<1> HIDE DEF ny
<1>4. ASSUME NEW D, D \subseteq C, NextToo(nx, D) PROVE NextToo(ny, D)
  BY <1>1, <1>3, <1>4 DEF NextToo
<1>5. NextToo(ny, S)
  <2> HIDE DEF C
  <2>1. NextToo(ny, C)
    BY <1>4, <1>3
  <2> QED
    BY <1>1, <1>3, <2>1 DEF NextToo
<1>6. Chain(ny, f) \subseteq S
  <2> HIDE DEF S
  <2>1. f \in S
    BY DEF S
  <2> QED
    BY <1>1, <1>2, <1>5, <2>1, ChainIsLeast
<1>7. Chain(ny, h) \subseteq C
  <2> HIDE DEF C
  <2>1. NextToo(ny, C)
    BY <1>4, <1>3
  <2> QED
    BY <1>1, <1>3, <2>1, ChainIsLeast
<1>8. ASSUME NEW g \in Chain(ny, f) PROVE g \notin Chain(ny, ny[g])
  <2>1. CASE g = f
    BY <1>1, <1>3, <1>7, <2>1
  <2>2. CASE g # f
    <3>1. g \in C /\ g \in FILEs /\ ny[g] = nx[g] /\ nx[g] \in Places
      BY <1>1, <1>3, <1>6, <1>8, <2>2
    <3> DEFINE D == Chain(nx, nx[g])
    <3>2. g \notin D
      BY <3>1 DEF SoundFrom
    <3>3. nx[g] = Null \/ nx[g] \in C
      BY <1>2, <1>3, <3>1 DEF NextToo
    <3>4. D \subseteq C
      <4> HIDE DEF C
      <4> QED
        BY <1>3, <3>1, <3>3, ChainIsLeast
    <3>5. NextToo(nx, D) /\ (nx[g] # Null => nx[g] \in D)
      BY <3>1, ChainIs
    <3> HIDE DEF C, D
    <3>6. NextToo(ny, D)
      BY <1>4, <3>4, <3>5
    <3>7. Chain(ny, nx[g]) \subseteq D
      BY <1>1, <3>1, <3>5, <3>6, ChainIsLeast
    <3> QED
      BY <3>1, <3>2, <3>7
  <2> QED
    BY <2>1, <2>2
<1> QED
  BY <1>3, <1>6, <1>8 DEF SoundFrom, ny

\* What follows a FILE of a sound list is a sound list without it.
LEMMA Popped ==
  ASSUME NEW nx \in [FILEs -> Places], NEW h \in Places, NEW A, SoundFrom(nx, h, A),
         NEW f \in Chain(nx, h)
  PROVE  nx[f] \in Places /\ SoundFrom(nx, nx[f], A \ {f})
<1> DEFINE C == Chain(nx, h)
           D == Chain(nx, nx[f])
<1>1. C \subseteq FILEs /\ NextToo(nx, C) /\ C \subseteq A /\ Null \notin FILEs
  BY ChainIs, HowMany DEF SoundFrom
<1>2. nx[f] \in Places /\ (nx[f] = Null \/ nx[f] \in C)
  BY <1>1 DEF NextToo
<1>3. D \subseteq C
  <2> HIDE DEF C
  <2> QED
    BY <1>1, <1>2, ChainIsLeast
<1>4. f \notin D
  BY DEF SoundFrom
<1> QED
  BY <1>1, <1>2, <1>3, <1>4 DEF SoundFrom

-----------------------------------------------------------------------------
(* Calls on the list                                                        *)

\* While the program runs, an open FILE is allocated and is the only one with its
\* descriptor, which is open, as is every descriptor's FILE.
Owned ==
    done = "running" =>
      /\ \A f \in FILEs : "open" \in mode[f] => f \in alloc \cup {Stdout} /\ fd[f] \in fds
      /\ \A f, g \in FILEs :
           "open" \in mode[f] /\ "open" \in mode[g] /\ fd[f] = fd[g] => f = g
      /\ \A n \in fds \ leaked : \E f \in FILEs : "open" \in mode[f] /\ fd[f] = n

ListInv == Types /\ Sound /\ Owned

LEMMA LowestIs ==
  ASSUME NEW S, S \subseteq Nat, S # {}
  PROVE  Lowest(S) \in S
<1>1. \E n \in S : \A m \in S : n <= m
  BY LeastOf
<1> QED
  BY <1>1 DEF Lowest

\* The lowest free descriptor, or none.
LEMMA FreeIs ==
  ASSUME NEW free, free \subseteq Descriptors,
         NEW n \in (IF free = {} THEN {NoFd} ELSE {Lowest(free)})
                     \cup (IF Failures THEN {NoFd} ELSE {})
  PROVE  n = NoFd \/ (n \in free /\ n \in Nat /\ n # NoFd)
<1>1. free # {} => Lowest(free) \in free
  BY ListAssumption, LowestIs
<1>2. n = NoFd \/ n \in free
  BY <1>1
<1> QED
  BY <1>2, ListAssumption DEF NoFd

LEMMA FlushedIs ==
  ASSUME Types, NEW f \in FILEs, NEW m \in Flushed(f)
  PROVE  m \subseteq Flags /\ ("open" \in m <=> "open" \in mode[f])
BY DEF Types, Flags, Flushed

\* The modes change, but for what is open.
SameFiles ==
    /\ mode' \in [FILEs -> SUBSET Flags]
    /\ \A f \in FILEs : "open" \in mode'[f] <=> "open" \in mode[f]
    /\ UNCHANGED <<head, next, alloc, fd, fds, leaked>>
    /\ done' = done

LEMMA SameFilesKeep == ListInv /\ SameFiles => ListInv'
<1> SUFFICES ASSUME ListInv, SameFiles PROVE ListInv'
  OBVIOUS
<1>1. Types'
  BY DEF ListInv, SameFiles, Types
<1>2. Sound'
  BY DEF ListInv, SameFiles, Sound
<1>3. Owned'
  BY DEF ListInv, SameFiles, Owned
<1> QED
  BY <1>1, <1>2, <1>3 DEF ListInv

LEMMA fopenKeeps ==
  ASSUME ListInv, NEW f \in FILEs, fopen(f)
  PROVE  ListInv'
<1>1. PICK n \in Opened : IF Grrrr(n) THEN UNCHANGED vars
         ELSE /\ alloc' = alloc \cup {f}
              /\ next' = [next EXCEPT ![f] = head]
              /\ head' = f
              /\ mode' = [mode EXCEPT ![f] = {"open", "freefil"}]
              /\ fd' = [fd EXCEPT ![f] = n]
              /\ fds' = fds \cup {n}
              /\ UNCHANGED <<leaked, done>>
  BY DEF fopen
<1>2. CASE Grrrr(n)
  <2>1. UNCHANGED vars
    BY <1>1, <1>2
  <2> QED
    BY <2>1 DEF vars, ListInv, Types, Sound, Owned
<1>3. CASE ~ Grrrr(n)
  <2>1. /\ alloc' = alloc \cup {f} /\ next' = [next EXCEPT ![f] = head] /\ head' = f
        /\ mode' = [mode EXCEPT ![f] = {"open", "freefil"}]
        /\ fd' = [fd EXCEPT ![f] = n] /\ fds' = fds \cup {n} /\ leaked' = leaked /\ done' = done
    BY <1>1, <1>3
  <2>2. n \in Descriptors \ fds /\ n \in Nat /\ n # NoFd
    BY <1>3, FreeIs DEF Opened, Grrrr
  <2>3. f \in Heap \ alloc /\ f # Stdout
    BY ListAssumption DEF fopen
  <2>4. Types'
    BY <2>1, <2>2, <2>3 DEF ListInv, Types, Places, Flags
  <2>5. Sound'
    <3>1. SoundFrom(next', head', alloc')
      BY <2>1, <2>3, Pushed DEF ListInv, Types, Sound
    <3> QED
      BY <3>1 DEF Sound
  <2>6. Owned'
    <3> SUFFICES ASSUME done = "running" PROVE Owned'
      BY <2>1 DEF Owned
    <3>1. /\ \A g \in FILEs : "open" \in mode[g] => g # f /\ fd[g] \in fds /\ g \in alloc \cup {Stdout}
          /\ \A g, h \in FILEs : "open" \in mode[g] /\ "open" \in mode[h] /\ fd[g] = fd[h] => g = h
          /\ \A d \in fds \ leaked : \E g \in FILEs : "open" \in mode[g] /\ fd[g] = d
      BY <2>3 DEF ListInv, Owned
    <3>2. /\ mode'[f] = {"open", "freefil"} /\ fd'[f] = n
          /\ \A g \in FILEs : g # f => mode'[g] = mode[g] /\ fd'[g] = fd[g]
      BY <2>1 DEF ListInv, Types
    <3>3. \A g \in FILEs : "open" \in mode'[g] => g \in alloc' \cup {Stdout} /\ fd'[g] \in fds'
      BY <2>1, <3>1, <3>2
    <3>4. \A g, h \in FILEs : "open" \in mode'[g] /\ "open" \in mode'[h] /\ fd'[g] = fd'[h] => g = h
      BY <2>2, <3>1, <3>2
    <3>5. \A d \in fds' \ leaked' : \E g \in FILEs : "open" \in mode'[g] /\ fd'[g] = d
      BY <2>1, <2>2, <3>1, <3>2
    <3> QED
      BY <3>3, <3>4, <3>5 DEF Owned
  <2> QED
    BY <2>4, <2>5, <2>6 DEF ListInv
<1> QED
  BY <1>2, <1>3

LEMMA fcloseKeeps ==
  ASSUME ListInv, NEW f \in FILEs, fclose(f)
  PROVE  ListInv'
<1>1. PICK m \in Flushed(f) :
         IF FlushFailed(f, m)
         THEN mode' = [mode EXCEPT ![f] = m] /\ UNCHANGED <<head, alloc, fd, fds>>
         ELSE /\ fds' = Closed(f)
              /\ fd' = [fd EXCEPT ![f] = NoFd]
              /\ mode' = [mode EXCEPT ![f] = {}]
              /\ IF "freefil" \in m
                 THEN head' = Unlinked(f) /\ alloc' = alloc \ {f}
                 ELSE UNCHANGED <<head, alloc>>
  BY DEF fclose
<1>2. "open" \in mode[f] /\ UNCHANGED <<next, leaked, done>>
  BY DEF fclose, IsOpen
<1>3. m \subseteq Flags /\ ("open" \in m <=> "open" \in mode[f])
  BY FlushedIs DEF ListInv
<1>4. CASE FlushFailed(f, m)
  <2>1. SameFiles
    BY <1>1, <1>2, <1>3, <1>4 DEF SameFiles, ListInv, Types
  <2> QED
    BY <2>1, SameFilesKeep
<1>5. CASE ~ FlushFailed(f, m)
  <2>1. /\ fds' = fds \ {fd[f]} /\ fd' = [fd EXCEPT ![f] = NoFd] /\ mode' = [mode EXCEPT ![f] = {}]
        /\ IF "freefil" \in m THEN head' = Unlinked(f) /\ alloc' = alloc \ {f}
           ELSE UNCHANGED <<head, alloc>>
    BY <1>1, <1>5 DEF Closed
  <2>2. head' \in Places /\ SoundFrom(next, head', alloc')
    <3>1. head \in Places /\ next \in [FILEs -> Places] /\ SoundFrom(next, head, alloc)
      BY DEF ListInv, Types, Sound
    <3>2. CASE "freefil" \notin m
      BY <2>1, <3>1, <3>2
    <3>3. CASE "freefil" \in m /\ f \in Chain(next, head)
      <4>1. head' = next[f] /\ alloc' = alloc \ {f}
        BY <2>1, <3>3, ListedIs DEF Unlinked
      <4> QED
        BY <3>1, <3>3, <4>1, Popped
    <3>4. CASE "freefil" \in m /\ f \notin Chain(next, head)
      <4>1. head' = head /\ alloc' = alloc \ {f}
        BY <2>1, <3>4, ListedIs DEF Unlinked
      <4> QED
        BY <3>1, <3>4, <4>1 DEF SoundFrom
    <3> QED
      BY <3>2, <3>3, <3>4
  <2>3. Sound'
    BY <1>2, <2>2 DEF Sound
  <2>4. Types'
    <3>1. alloc' \subseteq Heap
      BY <2>1 DEF ListInv, Types
    <3>2. /\ mode' \in [FILEs -> SUBSET Flags] /\ fd' \in [FILEs -> Nat \cup {NoFd}]
          /\ fds' \subseteq Nat
      BY <2>1 DEF ListInv, Types
    <3> QED
      BY <1>2, <2>2, <3>1, <3>2 DEF ListInv, Types
  <2>5. Owned'
    <3> SUFFICES ASSUME done = "running" PROVE Owned'
      BY <1>2 DEF Owned
    <3>1. /\ \A g \in FILEs : "open" \in mode[g] => fd[g] \in fds /\ g \in alloc \cup {Stdout}
          /\ \A g, h \in FILEs : "open" \in mode[g] /\ "open" \in mode[h] /\ fd[g] = fd[h] => g = h
          /\ \A d \in fds \ leaked : \E g \in FILEs : "open" \in mode[g] /\ fd[g] = d
      BY DEF ListInv, Owned
    <3>2. /\ mode'[f] = {}
          /\ \A g \in FILEs : g # f => mode'[g] = mode[g] /\ fd'[g] = fd[g]
      BY <2>1 DEF ListInv, Types
    <3>3. alloc \subseteq alloc' \cup {f}
      BY <2>1
    <3>4. \A g \in FILEs : "open" \in mode'[g] => g \in alloc' \cup {Stdout} /\ fd'[g] \in fds'
      <4> SUFFICES ASSUME NEW g \in FILEs, "open" \in mode'[g]
                   PROVE  g \in alloc' \cup {Stdout} /\ fd'[g] \in fds'
        OBVIOUS
      <4>1. g # f /\ "open" \in mode[g] /\ fd'[g] = fd[g]
        BY <3>2
      <4>2. fd[g] # fd[f]
        BY <1>2, <3>1, <4>1
      <4> QED
        BY <2>1, <3>1, <3>3, <4>1, <4>2
    <3>5. \A g, h \in FILEs : "open" \in mode'[g] /\ "open" \in mode'[h] /\ fd'[g] = fd'[h] => g = h
      BY <3>1, <3>2
    <3>6. \A d \in fds' \ leaked' : \E g \in FILEs : "open" \in mode'[g] /\ fd'[g] = d
      BY <1>2, <2>1, <3>1, <3>2
    <3> QED
      BY <3>4, <3>5, <3>6 DEF Owned
  <2> QED
    BY <2>3, <2>4, <2>5 DEF ListInv
<1> QED
  BY <1>4, <1>5

LEMMA freopenKeeps ==
  ASSUME ListInv, NEW f \in FILEs, freopen(f)
  PROVE  ListInv'
<1> DEFINE kept == mode[f] \cap {"freefil"}
<1>1. PICK m \in Flushed(f) :
         LET failed == FlushFailed(f, m)
             left_ == IF failed THEN m \ {"freefil"} ELSE {}
             free == Descriptors \ (IF failed THEN fds ELSE Closed(f))
         IN  \E n \in (IF free = {} THEN {NoFd} ELSE {Lowest(free)})
                        \cup (IF Failures THEN {NoFd} ELSE {}) :
               /\ mode' = [mode EXCEPT ![f] = IF n = NoFd THEN left_ ELSE left_ \cup kept \cup {"open"}]
               /\ fd' = [fd EXCEPT ![f] = IF n = NoFd /\ failed THEN fd[f] ELSE n]
               /\ fds' = (IF failed THEN fds ELSE Closed(f)) \cup ({n} \ {NoFd})
               /\ leaked' = leaked \cup (IF failed THEN {fd[f]} ELSE {})
  BY DEF freopen
<1> DEFINE failed == FlushFailed(f, m)
           closed == IF failed THEN fds ELSE fds \ {fd[f]}
           over == IF failed THEN m \ {"freefil"} ELSE {}
<1>2. "open" \in mode[f] /\ UNCHANGED <<head, next, alloc, done>>
  BY DEF freopen, IsOpen
<1>3. m \subseteq Flags /\ "open" \in m
  BY <1>2, FlushedIs DEF ListInv
<1>4. PICK n \in (IF Descriptors \ closed = {} THEN {NoFd} ELSE {Lowest(Descriptors \ closed)})
                   \cup (IF Failures THEN {NoFd} ELSE {}) :
         /\ mode' = [mode EXCEPT ![f] = IF n = NoFd THEN over ELSE over \cup kept \cup {"open"}]
         /\ fd' = [fd EXCEPT ![f] = IF n = NoFd /\ failed THEN fd[f] ELSE n]
         /\ fds' = closed \cup ({n} \ {NoFd})
         /\ leaked' = leaked \cup (IF failed THEN {fd[f]} ELSE {})
  BY <1>1 DEF Closed
<1>5. n = NoFd \/ (n \in Descriptors \ closed /\ n \in Nat /\ n # NoFd)
  BY FreeIs
<1>6. over \subseteq Flags /\ kept \subseteq Flags /\ (failed => "open" \in over)
      /\ (~ failed => over = {}) /\ (failed => closed = fds) /\ (~ failed => closed = fds \ {fd[f]})
  BY <1>3 DEF Flags
<1> HIDE DEF kept, failed, closed, over
<1>7. mode'[f] = (IF n = NoFd THEN over ELSE over \cup kept \cup {"open"})
      /\ fd'[f] = (IF n = NoFd /\ failed THEN fd[f] ELSE n)
      /\ \A g \in FILEs : g # f => mode'[g] = mode[g] /\ fd'[g] = fd[g]
  BY <1>4 DEF ListInv, Types
<1>8. Types'
  <2>1. fd' \in [FILEs -> Nat \cup {NoFd}]
    BY <1>4, <1>5 DEF ListInv, Types
  <2>2. mode' \in [FILEs -> SUBSET Flags]
    BY <1>4, <1>6 DEF ListInv, Types, Flags
  <2>3. fds' \subseteq Nat
    BY <1>4, <1>5, <1>6 DEF ListInv, Types
  <2> QED
    BY <1>2, <2>1, <2>2, <2>3 DEF ListInv, Types
<1>9. Sound'
  BY <1>2 DEF ListInv, Sound
<1>10. Owned'
  <2> SUFFICES ASSUME done = "running" PROVE Owned'
    BY <1>2 DEF Owned
  <2>1. /\ \A g \in FILEs : "open" \in mode[g] => fd[g] \in fds /\ g \in alloc \cup {Stdout}
        /\ \A g, h \in FILEs : "open" \in mode[g] /\ "open" \in mode[h] /\ fd[g] = fd[h] => g = h
        /\ \A d \in fds \ leaked : \E g \in FILEs : "open" \in mode[g] /\ fd[g] = d
    BY DEF ListInv, Owned
  <2>2. ASSUME NEW g \in FILEs, "open" \in mode[g], g # f PROVE fd[g] \in closed
    BY <1>2, <1>6, <2>1, <2>2
  <2>3. "open" \in mode'[f] => fd'[f] \in fds' /\ (n = NoFd => fd'[f] = fd[f])
    BY <1>2, <1>4, <1>5, <1>6, <1>7, <2>1
  <2>4. \A g \in FILEs : "open" \in mode'[g] => g \in alloc' \cup {Stdout} /\ fd'[g] \in fds'
    BY <1>2, <1>4, <1>7, <2>1, <2>2, <2>3
  <2>5. ASSUME NEW g \in FILEs, "open" \in mode'[g], "open" \in mode'[f], g # f
        PROVE  fd'[g] # fd'[f]
    <3>1. "open" \in mode[g] /\ fd'[g] = fd[g] /\ fd[g] # fd[f] /\ fd[g] \in closed
      BY <1>2, <1>7, <2>1, <2>2, <2>5
    <3> QED
      BY <1>5, <1>7, <2>3, <2>5, <3>1
  <2>6. \A g, h \in FILEs : "open" \in mode'[g] /\ "open" \in mode'[h] /\ fd'[g] = fd'[h] => g = h
    BY <1>7, <2>1, <2>5
  <2>7. ASSUME NEW d \in fds' \ leaked' PROVE \E g \in FILEs : "open" \in mode'[g] /\ fd'[g] = d
    <3>1. CASE d = n /\ n # NoFd
      BY <1>7, <3>1
    <3>2. CASE ~ (d = n /\ n # NoFd)
      <4>1. d \in closed /\ d \in fds \ leaked /\ d # fd[f]
        BY <1>4, <1>6, <2>7, <3>2
      <4>2. PICK g \in FILEs : "open" \in mode[g] /\ fd[g] = d
        BY <2>1, <4>1
      <4> QED
        BY <1>7, <4>1, <4>2
    <3> QED
      BY <3>1, <3>2
  <2> QED
    BY <2>4, <2>6, <2>7 DEF Owned
<1> QED
  BY <1>8, <1>9, <1>10 DEF ListInv

LEMMA ListCallKeeps ==
  ASSUME ListInv, ListCall
  PROVE  ListInv'
<1>0. mode \in [FILEs -> SUBSET Flags]
  BY DEF ListInv, Types
<1>1. ASSUME NEW f \in FILEs, fputc(f) PROVE ListInv'
  <2>1. SameFiles
    BY <1>0, <1>1 DEF fputc, SameFiles, Flags
  <2> QED
    BY <2>1, SameFilesKeep
<1>2. ASSUME NEW f \in FILEs, fflush(f) PROVE ListInv'
  <2>1. PICK m \in Flushed(f) : mode' = [mode EXCEPT ![f] = m]
    BY <1>2 DEF fflush
  <2>2. m \subseteq Flags /\ ("open" \in m <=> "open" \in mode[f])
    BY FlushedIs DEF ListInv
  <2>3. SameFiles
    BY <1>0, <1>2, <2>1, <2>2 DEF fflush, SameFiles
  <2> QED
    BY <2>3, SameFilesKeep
<1>3. CASE fflushAll
  <2>1. PICK bad : mode' = [f \in FILEs |->
                        IF f \notin {Stdout} \cup Listed(head) \/ (bad # Null /\ Before(bad, f)) THEN mode[f]
                        ELSE (mode[f] \ {"pending"}) \cup (IF f = bad THEN {"err"} ELSE {})]
    BY <1>3 DEF fflushAll
  <2>2. \A f \in FILEs : mode'[f] = mode[f]
          \/ mode'[f] = (mode[f] \ {"pending"}) \cup (IF f = bad THEN {"err"} ELSE {})
    BY <2>1
  <2>3. \A f \in FILEs : mode'[f] \in SUBSET Flags /\ ("open" \in mode'[f] <=> "open" \in mode[f])
    BY <1>0, <2>2 DEF Flags
  <2>4. mode' = [f \in FILEs |-> mode'[f]]
    BY <2>1
  <2>5. mode' \in [FILEs -> SUBSET Flags]
    BY <2>3, <2>4
  <2>6. SameFiles
    BY <1>3, <2>3, <2>5 DEF fflushAll, SameFiles
  <2> QED
    BY <2>6, SameFilesKeep
<1> QED
  BY <1>1, <1>2, <1>3, fopenKeeps, fcloseKeeps, freopenKeeps DEF ListCall

-----------------------------------------------------------------------------
(* The end of the program                                                   *)

\* What closes the streams leaves the list and the types alone.
LEMMA CloseAllKeeps ==
  ASSUME ListInv, __stdio_close_all, done' \in {"exiting", "exited"}
  PROVE  ListInv' /\ \A f \in {Stdout} \cup Listed(head)' : "pending" \notin mode'[f]
<1>1. /\ mode' = [f \in FILEs |-> IF f = Stdout \/ f \in Listed(head)
                                  THEN mode[f] \ {"pending"} ELSE mode[f]]
      /\ fd' = [f \in FILEs |-> IF f \in Listed(head) THEN NoFd ELSE fd[f]]
      /\ fds' = fds \ {fd[f] : f \in Listed(head)}
      /\ UNCHANGED <<head, next, alloc, leaked>>
  BY DEF __stdio_close_all
<1>2. mode \in [FILEs -> SUBSET Flags] /\ fd \in [FILEs -> Nat \cup {NoFd}] /\ fds \subseteq Nat
  BY DEF ListInv, Types
<1>3. \A f \in FILEs : mode'[f] \in SUBSET Flags /\ fd'[f] \in Nat \cup {NoFd}
  BY <1>1, <1>2
<1>4. mode' \in [FILEs -> SUBSET Flags]
  <2>1. mode' = [f \in FILEs |-> mode'[f]]
    BY <1>1
  <2> QED
    BY <1>3, <2>1
<1>5. fd' \in [FILEs -> Nat \cup {NoFd}]
  <2>1. fd' = [f \in FILEs |-> fd'[f]]
    BY <1>1
  <2> QED
    BY <1>3, <2>1
<1>6. Types'
  BY <1>1, <1>2, <1>4, <1>5 DEF ListInv, Types
<1>7. Sound' /\ Owned'
  BY <1>1 DEF ListInv, Sound, Owned
<1>8. Listed(head)' = Listed(head) /\ Listed(head) \subseteq FILEs /\ Stdout \in FILEs
  <2>1. head \in Places /\ next \in [FILEs -> Places]
    BY DEF ListInv, Types
  <2>2. Chain(next, head) \subseteq FILEs
    BY <2>1, ChainIs
  <2> QED
    BY <1>1, <2>2, ListedIs DEF FILEs
<1>9. \A f \in {Stdout} \cup Listed(head) : "pending" \notin mode'[f]
  BY <1>1, <1>8
<1> QED
  BY <1>6, <1>7, <1>8, <1>9 DEF ListInv

\* The last n handlers of the table were called, from the last one on.
Called(n) == Len(ran) = n /\ \A i \in 1 .. n : ran[i] = table[(Len(table) - i) + 1]

EndTypes ==
    /\ table \in Seq(Handlers \cup {CloseAll}) /\ Len(table) >= 1 /\ table[1] = CloseAll
    /\ ran \in Seq(Handlers \cup {CloseAll})

Running == done = "running" => count = Len(table) /\ ran = <<>> /\ ~ cut

Exiting ==
    done = "exiting" => /\ count = -1 /\ left \in 1 .. Len(table) /\ ~ cut
                        /\ Called((Len(table) - left) + 1)

Exited ==
    done = "exited" =>
      /\ \E n \in 0 .. Len(table) : Called(n)
      /\ ~ cut => /\ Called(Len(table))
                  /\ \A f \in {Stdout} \cup Listed(head) : "pending" \notin mode[f]

EndInv == ListInv /\ EndTypes /\ Running /\ Exiting /\ Exited

\* Calling the n-th handler of the table after those above it.
LEMMA LoopCalls ==
  ASSUME EndTypes, NEW n \in 1 .. Len(table), Called(Len(table) - n),
         ran' = Append(ran, table[n]), table' = table
  PROVE  ran' \in Seq(Handlers \cup {CloseAll}) /\ Called((Len(table) - n) + 1)'
<1> DEFINE L == Len(table)
           H == Handlers \cup {CloseAll}
<1>1. L \in Nat /\ \A i \in 1 .. L : table[i] \in H
  BY ElementOfSeq, LenProperties DEF EndTypes
<1>2. PICK k \in Nat : k = L - n /\ (L - n) + 1 = k + 1 /\ (L - (k + 1)) + 1 = n
  <2>1. n \in 1 .. L
    OBVIOUS
  <2> HIDE DEF L
  <2>2. L - n \in Nat /\ (L - ((L - n) + 1)) + 1 = n
    BY <1>1, <2>1
  <2> QED
    BY <2>2
<1>3. Len(ran) = k /\ \A i \in 1 .. k : ran[i] = table[(L - i) + 1]
  BY <1>2 DEF Called
<1>4. /\ ran' \in Seq(H) /\ Len(ran') = k + 1 /\ ran'[k + 1] = table[n]
      /\ \A i \in 1 .. k : ran'[i] = ran[i]
  BY <1>1, <1>3, AppendProperties DEF EndTypes
<1>5. ASSUME NEW i \in 1 .. k + 1 PROVE ran'[i] = table[(L - i) + 1]
  <2>1. CASE i = k + 1
    BY <1>2, <1>4, <2>1
  <2>2. CASE i \in 1 .. k
    BY <1>3, <1>4, <2>2
  <2>3. i = k + 1 \/ i \in 1 .. k
    OBVIOUS
  <2> QED
    BY <2>1, <2>2, <2>3
<1>6. Len(ran') = (L - n) + 1 /\ \A i \in 1 .. (L - n) + 1 : ran'[i] = table[(L - i) + 1]
  BY <1>2, <1>4, <1>5
<1> QED
  BY <1>4, <1>6 DEF Called

\* exit, from the program or from a handler.
LEMMA exitKeeps ==
  ASSUME EndInv, exit, done \in {"running", "exiting"}
  PROVE  EndInv'
<1>1. /\ Loop(count) /\ count' = -1 /\ (cut' <=> done = "exiting")
      /\ UNCHANGED <<head, next, alloc, mode, fd, fds, leaked, table>>
  BY DEF exit
<1>2. Len(table) \in Nat /\ Len(table) >= 1
  BY LenProperties DEF EndInv, EndTypes
<1>3. CASE done = "running"
  <2>1. count = Len(table) /\ ran = <<>> /\ ~ cut'
    BY <1>1, <1>3 DEF EndInv, Running
  <2>2. done' = "exiting" /\ left' = Len(table) /\ ran' = Append(ran, table[Len(table)])
    BY <1>1, <1>2, <2>1 DEF Loop
  <2>3. Called(Len(table) - Len(table))
    <3>1. Len(ran) = 0 /\ Len(table) - Len(table) = 0
      BY <1>2, <2>1
    <3> QED
      BY <3>1 DEF Called
  <2>4. ran' \in Seq(Handlers \cup {CloseAll}) /\ Called((Len(table) - Len(table)) + 1)'
    BY <1>1, <1>2, <2>2, <2>3, LoopCalls DEF EndInv
  <2>5. Exiting'
    BY <1>1, <1>2, <2>1, <2>2, <2>4 DEF Exiting
  <2>6. EndTypes' /\ Running' /\ Exited'
    BY <1>1, <2>2, <2>4 DEF EndInv, EndTypes, Running, Exited
  <2>7. ListInv'
    BY <1>1, <2>2 DEF EndInv, ListInv, Types, Sound, Owned
  <2> QED
    BY <2>5, <2>6, <2>7 DEF EndInv
<1>4. CASE done = "exiting"
  <2>1. count = -1 /\ cut' /\ left \in 1 .. Len(table) /\ Called((Len(table) - left) + 1)
    BY <1>1, <1>4 DEF EndInv, Exiting
  <2>2. done' = "exited" /\ ran' = ran
    BY <1>1, <2>1 DEF Loop
  <2>3. \E n \in 0 .. Len(table) : Called(n)
    <3>1. (Len(table) - left) + 1 \in 0 .. Len(table)
      BY <1>2, <2>1
    <3> QED
      BY <2>1, <3>1
  <2>4. Exited'
    BY <1>1, <2>1, <2>2, <2>3 DEF Exited, Called
  <2>5. EndTypes' /\ Running' /\ Exiting'
    BY <1>1, <2>2 DEF EndInv, EndTypes, Running, Exiting
  <2>6. ListInv'
    BY <1>1, <2>2 DEF EndInv, ListInv, Types, Sound, Owned
  <2> QED
    BY <2>4, <2>5, <2>6 DEF EndInv
<1> QED
  BY <1>3, <1>4

\* main() returns.
LEMMA mainKeeps ==
  ASSUME EndInv, main
  PROVE  EndInv'
<1>1. CASE MainExits
  BY <1>1, exitKeeps DEF main
<1>2. CASE ~ MainExits
  <2>1. /\ done = "running" /\ done' = "exited" /\ cut' = TRUE
        /\ UNCHANGED <<head, next, alloc, mode, fd, fds, leaked, table, count, left, ran>>
    BY <1>2 DEF main
  <2>2. Called(0)
    BY <2>1 DEF EndInv, Running, Called
  <2>3. 0 \in 0 .. Len(table)
    BY LenProperties DEF EndInv, EndTypes
  <2>4. Exited'
    BY <2>1, <2>2, <2>3 DEF Exited, Called
  <2>5. EndTypes' /\ Running' /\ Exiting'
    BY <2>1 DEF EndInv, EndTypes, Running, Exiting
  <2>6. ListInv'
    BY <2>1 DEF EndInv, ListInv, Types, Sound, Owned
  <2> QED
    BY <2>4, <2>5, <2>6 DEF EndInv
<1> QED
  BY <1>1, <1>2

\* A handler returns, and the next one down the table is called.
LEMMA handlerKeeps ==
  ASSUME EndInv, handler
  PROVE  EndInv'
<1>1. /\ done = "exiting" /\ Loop(left - 1) /\ UNCHANGED <<table, count, cut>>
      /\ IF table[left] = CloseAll THEN __stdio_close_all
         ELSE UNCHANGED <<head, next, alloc, mode, fd, fds, leaked>>
  BY DEF handler
<1>2. /\ Len(table) \in Nat /\ Len(table) >= 1 /\ table[1] = CloseAll
      /\ count = -1 /\ left \in 1 .. Len(table) /\ ~ cut
      /\ Called((Len(table) - left) + 1)
  BY <1>1, LenProperties DEF EndInv, EndTypes, Exiting
<1>3. done' \in {"exiting", "exited"}
  BY <1>1 DEF Loop
<1>4. ListInv'
  <2>1. CASE table[left] = CloseAll
    BY <1>1, <1>3, <2>1, CloseAllKeeps DEF EndInv
  <2>2. CASE table[left] # CloseAll
    <3>1. UNCHANGED <<head, next, alloc, mode, fd, fds, leaked>>
      BY <1>1, <2>2
    <3> QED
      BY <1>3, <3>1 DEF EndInv, ListInv, Types, Sound, Owned
  <2> QED
    BY <2>1, <2>2
<1>5. CASE left > 1
  <2>1. PICK n \in 1 .. Len(table) : n = left - 1 /\ n > 0 /\ Len(table) - n = (Len(table) - left) + 1
    BY <1>2, <1>5
  <2>2. done' = "exiting" /\ left' = n /\ ran' = Append(ran, table[n])
    BY <1>1, <2>1 DEF Loop
  <2>3. Called(Len(table) - n)
    BY <1>2, <2>1
  <2>4. ran' \in Seq(Handlers \cup {CloseAll}) /\ Called((Len(table) - n) + 1)'
    BY <1>1, <2>1, <2>2, <2>3, LoopCalls DEF EndInv
  <2>5. Exiting'
    BY <1>1, <1>2, <2>1, <2>2, <2>4 DEF Exiting
  <2>6. EndTypes' /\ Running' /\ Exited'
    BY <1>1, <2>2, <2>4 DEF EndInv, EndTypes, Running, Exited
  <2> QED
    BY <1>4, <2>5, <2>6 DEF EndInv
<1>6. CASE left = 1
  <2>1. done' = "exited" /\ ran' = ran
    BY <1>1, <1>6 DEF Loop
  <2>2. \A f \in {Stdout} \cup Listed(head)' : "pending" \notin mode'[f]
    BY <1>1, <1>2, <1>3, <1>6, CloseAllKeeps DEF EndInv
  <2>3. Called(Len(table))
    <3>1. (Len(table) - left) + 1 = Len(table)
      BY <1>2, <1>6
    <3> QED
      BY <1>2, <3>1
  <2>4. Called(Len(table))'
    BY <1>1, <2>1, <2>3 DEF Called
  <2>5. Exited'
    <3>1. Len(table') \in 0 .. Len(table')
      BY <1>1, <1>2
    <3> QED
      BY <2>2, <2>4, <3>1 DEF Exited
  <2>6. EndTypes' /\ Running' /\ Exiting'
    BY <1>1, <2>1 DEF EndInv, EndTypes, Running, Exiting
  <2> QED
    BY <1>4, <2>5, <2>6 DEF EndInv
<1> QED
  BY <1>2, <1>5, <1>6

\* The program or a handler calls the library.
LEMMA callKeeps ==
  ASSUME EndInv, call
  PROVE  EndInv'
<1>1. /\ done \in {"running", "exiting"}
      /\ (ListCall /\ UNCHANGED exitOnly) \/ (\E h \in Handlers : atexit(h)) \/ exit
  BY DEF call
<1>2. CASE ListCall /\ UNCHANGED exitOnly
  <2>1. ListInv'
    BY <1>2, ListCallKeeps DEF EndInv
  <2>2. done' = done
    BY <1>2 DEF ListCall, fopen, fclose, freopen, fputc, fflush, fflushAll, vars
  <2> QED
    BY <1>1, <1>2, <2>1, <2>2 DEF exitOnly, EndInv, EndTypes, Running, Exiting, Exited, Called
<1>3. ASSUME NEW h \in Handlers, atexit(h) PROVE EndInv'
  <2>1. UNCHANGED <<head, next, alloc, mode, fd, fds, leaked, done, left, ran, cut>>
    BY <1>3 DEF atexit, vars
  <2>2. ListInv'
    BY <2>1 DEF EndInv, ListInv, Types, Sound, Owned
  <2>3. CASE Refused
    <3>1. UNCHANGED <<table, count>>
      BY <1>3, <2>3 DEF atexit
    <3> QED
      BY <1>1, <2>1, <2>2, <3>1 DEF EndInv, EndTypes, Running, Exiting, Exited, Called
  <2>4. CASE ~ Refused
    <3>1. table' = Append(table, h) /\ count' = count + 1
      BY <1>3, <2>4 DEF atexit
    <3>2. /\ table' \in Seq(Handlers \cup {CloseAll}) /\ Len(table) \in Nat
          /\ Len(table') = Len(table) + 1 /\ table'[1] = CloseAll /\ Len(table') >= 1
      BY <3>1, AppendProperties, LenProperties DEF EndInv, EndTypes
    <3>3. done = "running"
      BY <1>1, <2>4 DEF Refused, EndInv, Exiting
    <3> QED
      BY <2>1, <2>2, <3>1, <3>2, <3>3 DEF EndInv, EndTypes, Running, Exiting, Exited
  <2> QED
    BY <2>3, <2>4
<1> QED
  BY <1>1, <1>2, <1>3, exitKeeps

LEMMA EndInvHolds == ExitSpec => []EndInv
<1>1. ExitInit => EndInv
  <2> SUFFICES ASSUME ExitInit PROVE EndInv
    OBVIOUS
  <2>1. /\ head = Null /\ next = [f \in FILEs |-> Null] /\ alloc = {}
        /\ mode = [f \in FILEs |-> IF f = Stdout THEN {"open"} ELSE {}]
        /\ fd = [f \in FILEs |-> IF f = Stdout THEN 1 ELSE NoFd]
        /\ fds = {1} /\ leaked = {} /\ done = "running"
    BY DEF ExitInit, ListInit
  <2>2. Types
    BY <2>1 DEF Types, Places, Flags
  <2>3. Sound
    <3>1. next \in [FILEs -> Places] /\ head \in Places /\ NextToo(next, {})
      BY <2>2 DEF Types, NextToo
    <3>2. Chain(next, head) \subseteq {}
      BY <2>1, <3>1, ChainIsLeast
    <3> QED
      BY <3>2 DEF Sound, SoundFrom
  <2>4. Owned
    BY <2>1 DEF Owned, FILEs
  <2>5. EndTypes /\ Running /\ Exiting /\ Exited
    <3>1. table = <<CloseAll>> /\ count = 1 /\ ran = <<>> /\ ~ cut
      BY DEF ExitInit
    <3> QED
      BY <2>1, <3>1 DEF EndTypes, Running, Exiting, Exited
  <2> QED
    BY <2>2, <2>3, <2>4, <2>5 DEF EndInv, ListInv
<1>2. EndInv /\ [ExitNext]_exitVars => EndInv'
  <2> SUFFICES ASSUME EndInv, [ExitNext]_exitVars PROVE EndInv'
    OBVIOUS
  <2>1. CASE UNCHANGED exitVars
    <3>1. /\ UNCHANGED <<head, next, alloc, mode, fd, fds, leaked, done>>
          /\ UNCHANGED <<table, count, left, ran, cut>>
      BY <2>1 DEF exitVars, exitOnly, vars
    <3>2. ListInv'
      BY <3>1 DEF EndInv, ListInv, Types, Sound, Owned
    <3>3. EndTypes' /\ Running' /\ Exiting'
      BY <3>1 DEF EndInv, EndTypes, Running, Exiting, Called
    <3>4. Exited'
      BY <3>1, ListedIs DEF EndInv, Exited, Called
    <3> QED
      BY <3>2, <3>3, <3>4 DEF EndInv
  <2> QED
    BY <2>1, callKeeps, mainKeeps, handlerKeeps DEF ExitNext
<1> QED
  BY <1>1, <1>2, PTL DEF ExitSpec

-----------------------------------------------------------------------------
(* Theorems                                                                 *)

\* The list always leads through allocated FILEs to its end, although fclose takes
\* more off it than the FILE it frees.
THEOREM ListSoundHolds == ExitSpec => []ListSound
<1>1. EndInv => ListSound
  BY SoundIs DEF EndInv, ListInv
<1> QED
  BY <1>1, EndInvHolds, PTL

\* While the program runs no two FILEs have one descriptor, and none is open that no
\* FILE has, but for those that freopen lost.
THEOREM OneOwnerHolds == ExitSpec => []OneOwner
<1>1. EndInv => OneOwner
  BY DEF EndInv, ListInv, Owned, OneOwner, IsOpen
<1> QED
  BY <1>1, EndInvHolds, PTL

\* The handlers are called once each, the last registered first, and the streams are
\* closed last, unless a handler calls exit.
THEOREM EndsInOrderHolds == ExitSpec => []EndsInOrder
<1>1. EndInv => EndsInOrder
  <2> SUFFICES ASSUME EndInv PROVE EndsInOrder
    OBVIOUS
  <2> DEFINE L == Len(table)
             R == Reverse(table)
  <2>1. /\ table \in Seq(Handlers \cup {CloseAll}) /\ ran \in Seq(Handlers \cup {CloseAll})
        /\ L \in Nat
    BY LenProperties DEF EndInv, EndTypes
  <2>2. R \in Seq(Handlers \cup {CloseAll}) /\ Len(R) = L /\ \A i \in 1 .. L : R[i] = table[(L - i) + 1]
    <3>1. R = [i \in 1 .. L |-> table[(L - i) + 1]]
      BY DEF Reverse
    <3>2. \A i \in 1 .. L : table[(L - i) + 1] \in Handlers \cup {CloseAll}
      BY <2>1
    <3> QED
      BY <2>1, <3>1, <3>2
  <2> HIDE DEF L, R
  <2>3. ASSUME NEW n \in 0 .. L, Called(n) PROVE IsPrefix(ran, R)
    <3>1. Len(ran) = n /\ \A i \in 1 .. n : ran[i] = R[i]
      BY <2>1, <2>2, <2>3 DEF Called, L
    <3>2. SubSeq(ran, 1, Len(ran)) = SubSeq(R, 1, Len(ran))
      BY <2>1, <2>2, <3>1
    <3> QED
      BY <2>1, <2>2, <3>1, <3>2 DEF IsPrefix
  <2>4. ASSUME Called(L) PROVE ran = R
    <3>1. Len(ran) = L /\ \A i \in 1 .. L : ran[i] = R[i]
      BY <2>1, <2>2, <2>4 DEF Called, L
    <3> QED
      BY <2>1, <2>2, <3>1, SeqEqual
  <2>5. CASE done = "running"
    BY <2>5 DEF EndsInOrder
  <2>6. CASE done = "exiting"
    <3>1. (L - left) + 1 \in 0 .. L /\ Called((L - left) + 1)
      BY <2>1, <2>6 DEF EndInv, Exiting, L
    <3> QED
      BY <2>3, <2>6, <3>1 DEF EndsInOrder, R
  <2>7. CASE done = "exited"
    BY <2>3, <2>4, <2>7 DEF EndInv, Exited, EndsInOrder, L, R
  <2> QED
    BY <2>5, <2>6, <2>7 DEF EndInv, ListInv, Types
<1> QED
  BY <1>1, EndInvHolds, PTL
=============================================================================
