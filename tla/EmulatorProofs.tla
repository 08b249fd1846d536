---------------------------- MODULE EmulatorProofs ----------------------------
(***************************************************************************)
(* What an emulator promises a program: its data segment, the arguments    *)
(* and the environment on its stack, the program that execve starts, and   *)
(* the symbols that a tracer is told, for every size of memory, set of     *)
(* images, map files and order of calls; and what its monitor promises the *)
(* user, for every number of breakpoints and calls of monitor() nested to  *)
(* any depth.                                                              *)
(***************************************************************************)
EXTENDS Exec, Monitor, Induction, SequenceTheorems

-----------------------------------------------------------------------------
(* The data segment by itself                                               *)

MemInv == MemTypeOK /\ BreakAboveBss

LEMMA MemInitOK == MemInit => MemInv
BY WordAssumption, ValuesAssumption
DEF MemInit, MemInv, MemTypeOK, BreakAboveBss, Words

LEMMA MemStepOK == MemInv /\ [MemNext]_memVars => MemInv'
<1> SUFFICES ASSUME MemInv, [MemNext]_memVars PROVE MemInv'
  OBVIOUS
<1> USE WordAssumption, ValuesAssumption DEF MemInv, MemTypeOK, BreakAboveBss, Words
<1>1. ASSUME NEW a \in LoadAddrs, NEW s \in StackPointers, Load(a, s) PROVE MemInv'
  BY <1>1 DEF Load
<1>2. ASSUME NEW w \in Requests, Brk(w) PROVE MemInv'
  BY <1>2 DEF Brk, Refused, Failed
<1>3. ASSUME NEW w \in Requests, Sbrk(w) PROVE MemInv'
  <2>1. Signed(w) \in Int
    BY DEF Signed
  <2>2. (curbrk + Signed(w)) % Word \in Words
    BY <2>1
  <2> QED
    BY <1>3, <2>2 DEF Sbrk, Refused, Failed
<1>4. ASSUME NEW s \in StackPointers, MoveStack(s) PROVE MemInv'
  BY <1>4 DEF MoveStack
<1>5. CASE UNCHANGED memVars
  BY <1>5 DEF memVars
<1> QED
  BY <1>1, <1>2, <1>3, <1>4, <1>5 DEF MemNext

\* Types and the lower limit hold in every reachable state.
THEOREM MemTypes == MemSpec => []MemInv
BY MemInitOK, MemStepOK, PTL DEF MemSpec

\* The break never goes below the end of the BSS (the "brkval < initbrk" test
\* of brk and sbrk, and the wrapping sum before it).
THEOREM BreakStaysAboveBss == MemSpec => []BreakAboveBss
BY MemTypes, PTL DEF MemInv

-----------------------------------------------------------------------------
(* The symbol table                                                         *)

\* What the array may hold.
Cells == {Junk, End} \cup UNION {{file[k] : k \in DOMAIN file} : file \in MapFiles}

Ascending(s) == \A i, j \in DOMAIN s : i < j => s[i].addr <= s[j].addr

TableInv ==
    /\ mapcnt \in Nat /\ mapidx \in 0 .. mapcnt
    /\ maparray \in Seq(Cells)
    /\ mapcnt # 0 => /\ Len(maparray) = mapcnt + 1 /\ maparray[mapcnt + 1] = End
                     /\ Ascending(maparray)

LEMMA CellAddrs == \A e \in Cells : e.addr \in -1 .. Top
<1> SUFFICES ASSUME NEW e \in Cells PROVE e.addr \in -1 .. Top
  OBVIOUS
<1>1. Top \in Nat
  BY MapfileAssumption
<1>2. ASSUME NEW file \in MapFiles, NEW k \in DOMAIN file PROVE file[k].addr \in 0 .. Top
  <2>1. file \in Seq(Entry)
    BY MapfileAssumption
  <2>2. file[k] \in Entry
    BY <2>1
  <2> QED
    BY <2>2 DEF Entry
<1> QED
  BY <1>1, <1>2 DEF Cells, Junk, End

\* Min, where C code searches for the first.
LEMMA FirstOf ==
  ASSUME NEW S, S \subseteq Nat, S # {}
  PROVE  Min(S) \in S /\ \A y \in S : Min(S) <= y
<1>1. \E m \in S : \A k \in S : m <= k
  BY LeastOf
<1> QED
  BY <1>1 DEF Min

\* The array that a map file is read into.
LEMMA ReadArray ==
  ASSUME NEW file \in MapFiles, NEW start \in Nat, NEW s \in Sorted(Written(file, start))
  PROVE  /\ Append(s, End) \in Seq(Cells) /\ Len(Append(s, End)) = Len(file) + 1
         /\ Append(s, End)[Len(file) + 1] = End /\ Ascending(Append(s, End))
<1>1. file \in Seq(Entry) /\ Len(file) \in Nat
  BY MapfileAssumption
<1> DEFINE n == Len(file)
           w == Written(file, start)
<1>2. \A k \in 1 .. n : file[k] \in Cells
  BY <1>1 DEF Cells
<1>3. w \in [1 .. n -> Cells]
  <2>1. ASSUME NEW k \in 1 .. n PROVE w[k] \in Cells
    <3>1. CASE k > start
      <4>1. k - start \in 1 .. n \/ start = 0
        BY <1>1, <3>1
      <4>2. file[k - start] \in Cells
        BY <1>1, <1>2, <3>1, <4>1
      <4> QED
        BY <3>1, <4>2 DEF Written
    <3>2. CASE ~ k > start
      BY <3>2 DEF Written, Cells
    <3> QED
      BY <3>1, <3>2
  <2> QED
    BY <2>1 DEF Written
<1> HIDE DEF w
<1>4. PICK p \in Bijection(1 .. n, 1 .. n) :
        /\ s = [i \in 1 .. n |-> w[p[i]]]
        /\ \A i, j \in 1 .. n : i < j => w[p[i]].addr <= w[p[j]].addr
  BY <1>3 DEF Sorted, w
<1>5. p \in [1 .. n -> 1 .. n]
  BY DEF Bijection, Injection, Surjection
<1>6. s \in Seq(Cells) /\ Len(s) = n
  BY <1>1, <1>3, <1>4, <1>5
<1>7. End \in Cells
  BY DEF Cells
<1>8. /\ Append(s, End) \in Seq(Cells) /\ Len(Append(s, End)) = n + 1
      /\ Append(s, End)[n + 1] = End /\ \A i \in 1 .. n : Append(s, End)[i] = s[i]
  BY <1>6, <1>7
<1>9. \A i, j \in 1 .. n : i < j => s[i].addr <= s[j].addr
  BY <1>4, <1>5
<1>10. \A i \in 1 .. n : s[i].addr <= End.addr
  BY <1>6, CellAddrs, MapfileAssumption DEF End
<1>11. Ascending(Append(s, End))
  BY <1>1, <1>8, <1>9, <1>10 DEF Ascending
<1> QED
  BY <1>8, <1>11

LEMMA ReadKeepsTable ==
  ASSUME TableInv, NEW file \in MapFiles, read_mapfile(file)
  PROVE  TableInv'
<1>1. StartAt \in Nat
  BY DEF StartAt, TableInv
<1>2. PICK s \in Sorted(Written(file, StartAt)) : maparray' = Append(s, End)
  BY DEF read_mapfile
<1>3. Len(file) \in Nat
  BY MapfileAssumption
<1>4. mapidx' = 0
  BY DEF read_mapfile, TableInv
<1> QED
  BY <1>1, <1>2, <1>3, <1>4, ReadArray DEF read_mapfile, TableInv

LEMMA FailureKeepsTable ==
  ASSUME TableInv, readFails
  PROVE  TableInv'
BY DEF readFails, TableInv

\* The array as the questions see it, where there are symbols.
LEMMA InTable ==
  ASSUME TableInv, mapcnt # 0
  PROVE  /\ mapcnt \in Nat \ {0} /\ DOMAIN maparray = 1 .. mapcnt + 1
         /\ \A k \in 1 .. mapcnt + 1 : maparray[k].addr \in -1 .. Top
         /\ \A i, j \in 1 .. mapcnt + 1 : i < j => maparray[i].addr <= maparray[j].addr
         /\ maparray[mapcnt + 1].addr = Top /\ Top \in Nat
         /\ \A i \in 0 .. mapcnt : Elements(i) = {maparray[i + 1].addr}
<1>1. Len(maparray) = mapcnt + 1 /\ maparray \in Seq(Cells) /\ mapcnt \in Nat \ {0}
  BY DEF TableInv
<1>2. DOMAIN maparray = 1 .. mapcnt + 1
  BY <1>1
<1>3. \A k \in 1 .. mapcnt + 1 : maparray[k] \in Cells
  BY <1>1
<1> QED
  BY <1>1, <1>2, <1>3, CellAddrs, MapfileAssumption DEF TableInv, Ascending, End, Elements

\* The index that a question stops at, below the top: the entry at or below the
\* address and followed by a higher one, or none.
LEMMA FoundIs ==
  ASSUME TableInv, mapcnt # 0, NEW a \in 0 .. Top - 1, NEW i \in Found(a)
  PROVE  /\ i \in 0 .. mapcnt
         /\ i < mapcnt => maparray[i + 1].addr <= a /\ a < maparray[i + 2].addr
         /\ i = mapcnt => a < maparray[1].addr
<1> DEFINE addr(k) == maparray[k].addr
           S == {k \in 0 .. mapcnt - 1 : Between(k, a)} \cup {mapcnt}
<1>1. mapcnt \in Nat \ {0} /\ mapidx \in 0 .. mapcnt /\ Top \in Nat
  BY InTable DEF TableInv
<1>2. \A k \in 0 .. mapcnt - 1 : Between(k, a) <=> addr(k + 1) <= a /\ a < addr(k + 2)
  <2> SUFFICES ASSUME NEW k \in 0 .. mapcnt - 1
               PROVE  Between(k, a) <=> addr(k + 1) <= a /\ a < addr(k + 2)
    OBVIOUS
  <2>1. k \in 0 .. mapcnt /\ k + 1 \in 0 .. mapcnt /\ (k + 1) + 1 = k + 2
    BY <1>1
  <2>2. Elements(k) = {addr(k + 1)} /\ Elements(k + 1) = {addr(k + 2)}
    BY <2>1, InTable
  <2>3. addr(k + 2) \in Int
    BY <2>1, InTable
  <2> QED
    BY <2>2, <2>3 DEF Between
<1>3. ~ Between(mapcnt, a)
  <2>1. Elements(mapcnt) = {Top}
    BY <1>1, InTable
  <2> QED
    BY <1>1, <2>1 DEF Between
<1>4. Min(S) \in S /\ \A y \in S : Min(S) <= y
  <2>1. S \subseteq Nat /\ S # {}
    BY <1>1
  <2> HIDE DEF S
  <2> QED
    BY <2>1, FirstOf
<1>5. i \in 0 .. mapcnt /\ (i < mapcnt => Between(i, a))
  <2>1. CASE Between(mapidx, a) /\ i = mapidx
    BY <1>1, <2>1
  <2>2. CASE i = Min(S)
    BY <1>1, <1>4, <2>2
  <2> QED
    BY <2>1, <2>2 DEF Found
<1>6. i = mapcnt => i = Min(S)
  BY <1>3 DEF Found
<1>7. ASSUME i = mapcnt PROVE a < addr(1)
  <2> SUFFICES ASSUME addr(1) <= a PROVE FALSE
    BY <1>1, InTable
  <2> DEFINE H == {k \in 1 .. mapcnt + 1 : a < addr(k)}
  <2>1. mapcnt + 1 \in H
    BY <1>1, InTable
  <2>2. PICK h \in H : \A k \in H : h <= k
    <3>1. H \subseteq Nat /\ H # {}
      BY <2>1
    <3> HIDE DEF H
    <3> QED
      BY <3>1, LeastOf
  <2>3. h \in 2 .. mapcnt + 1
    <3>1. addr(1) \in Int /\ 1 \in 1 .. mapcnt + 1
      BY <1>1, InTable
    <3>2. h # 1
      BY <1>1, <2>2, <3>1
    <3> QED
      BY <1>1, <3>2
  <2>4. h - 1 \notin H /\ h - 1 \in 1 .. mapcnt + 1
    BY <1>1, <2>2, <2>3
  <2>5. addr(h - 1) <= a
    BY <2>4, InTable
  <2>6. h - 2 \in 0 .. mapcnt - 1 /\ (h - 2) + 1 = h - 1 /\ (h - 2) + 2 = h
    BY <1>1, <2>3
  <2>7. Between(h - 2, a)
    BY <1>2, <2>2, <2>5, <2>6
  <2>8. h - 2 \in S
    BY <2>6, <2>7
  <2> QED
    BY <1>1, <1>4, <1>6, <1>7, <2>6, <2>8
<1>8. i < mapcnt => i \in 0 .. mapcnt - 1
  BY <1>1, <1>5
<1> QED
  BY <1>2, <1>5, <1>7, <1>8

LEMMA AskKeepsTable ==
  ASSUME TableInv, NEW a \in Addresses, get_symbol_and_offset(a)
  PROVE  TableInv'
<1>1. mapcnt # 0 => mapidx' \in 0 .. mapcnt
  <2> SUFFICES ASSUME mapcnt # 0 PROVE mapidx' \in 0 .. mapcnt
    OBVIOUS
  <2> DEFINE S == {k \in 0 .. mapcnt - 1 : Between(k, a)} \cup {mapcnt}
  <2>1. Min(S) \in S
    <3>1. S \subseteq Nat /\ S # {}
      BY DEF TableInv
    <3> HIDE DEF S
    <3> QED
      BY <3>1, FirstOf
  <2>2. Found(a) \subseteq {mapidx, Min(S)}
    BY DEF Found
  <2>3. mapidx' \in Found(a)
    BY DEF get_symbol_and_offset
  <2> QED
    BY <2>1, <2>2, <2>3 DEF TableInv
<1> QED
  BY <1>1 DEF get_symbol_and_offset, TableInv

\* Max, of the addresses at or below one.
LEMMA NearestIs ==
  ASSUME TableInv, NEW a \in Int, NEW m \in Int,
         m = -1 \/ \E e \in Entries : e.addr = m,
         -1 <= m, m <= a \/ m = -1,
         \A e \in Entries : e.addr <= a => e.addr <= m
  PROVE  Nearest(a) = m
<1> DEFINE S == {e.addr : e \in {x \in Entries : x.addr <= a}} \cup {-1}
<1>1. \A e \in Entries : e.addr \in Int
  <2>1. ASSUME NEW k \in 1 .. mapcnt PROVE maparray[k].addr \in Int
    BY <2>1, InTable DEF TableInv
  <2> QED
    BY <2>1 DEF Entries
<1>2. m \in S /\ \A y \in S : m >= y
  BY <1>1
<1>3. \A x \in S : (\A y \in S : x >= y) => x = m
  BY <1>1, <1>2
<1> HIDE DEF S
<1>4. Max(S) = m
  BY <1>2, <1>3 DEF Max
<1> QED
  BY <1>4 DEF Nearest, S

LEMMA AnswersRight ==
  ASSUME TableInv, NEW a \in 0 .. Top - 1, get_symbol_and_offset(a)
  PROVE  \/ Nearest(a) < 0 /\ answer' = Nothing
         \/ \E e \in Entries : /\ e.addr = Nearest(a)
                              /\ answer' = [sym |-> e.sym, offset |-> a - e.addr]
<1>1. Top \in Nat /\ a \in Nat
  BY MapfileAssumption
<1>2. CASE mapcnt = 0
  <2>1. Entries = {}
    BY <1>2 DEF Entries
  <2>2. Nearest(a) = -1
    BY <1>1, <2>1, NearestIs
  <2> QED
    BY <1>2, <2>2 DEF get_symbol_and_offset
<1>3. CASE mapcnt # 0
  <2>1. PICK i \in Found(a) : answer' = SymbolAt(i, a)
    BY <1>3 DEF get_symbol_and_offset
  <2>2. mapcnt \in Nat \ {0} /\ i \in 0 .. mapcnt
    BY <1>3, FoundIs, InTable
  <2>3. CASE i = mapcnt
    <3>1. \A k \in 1 .. mapcnt : maparray[k].addr > a
      <4> SUFFICES ASSUME NEW k \in 1 .. mapcnt PROVE maparray[k].addr > a
        OBVIOUS
      <4>1. k \in 1 .. mapcnt + 1 /\ 1 \in 1 .. mapcnt + 1
        BY <2>2
      <4>2. maparray[1].addr <= maparray[k].addr /\ maparray[k].addr \in Int /\ maparray[1].addr \in Int
        BY <1>3, <4>1, InTable
      <4>3. a < maparray[1].addr
        BY <1>3, <2>3, FoundIs
      <4> QED
        BY <1>1, <4>2, <4>3
    <3>2. \A e \in Entries : e.addr > a
      BY <3>1 DEF Entries
    <3>3. Nearest(a) = -1
      <4>1. \A e \in Entries : ~ e.addr <= a
        <5>1. ASSUME NEW k \in 1 .. mapcnt PROVE maparray[k].addr \in Int
          BY <1>3, <2>2, InTable
        <5> QED
          BY <1>1, <3>1, <5>1 DEF Entries
      <4> QED
        BY <1>1, <4>1, NearestIs
    <3>4. answer' = Nothing
      BY <2>1, <2>2, <2>3 DEF SymbolAt
    <3> QED
      BY <3>3, <3>4
  <2>4. CASE i < mapcnt
    <3> DEFINE e == maparray[i + 1]
    <3>1. e.addr <= a /\ a < maparray[i + 2].addr
      BY <1>3, <2>4, FoundIs
    <3>2. i + 1 \in 1 .. mapcnt /\ i + 2 \in 1 .. mapcnt + 1 /\ i + 1 \in 1 .. mapcnt + 1
      BY <2>2, <2>4
    <3>3. e \in Entries /\ e.addr \in -1 .. Top /\ maparray[i + 2].addr \in Int
      BY <1>3, <3>2, InTable DEF Entries
    <3>4. ASSUME NEW k \in 1 .. mapcnt, maparray[k].addr <= a PROVE maparray[k].addr <= e.addr
      <4>1. k \in 1 .. mapcnt + 1 /\ maparray[k].addr \in Int
        BY <1>3, <2>2, InTable
      <4>2. ~ i + 2 < k /\ k # i + 2
        <5>1. i + 2 < k => maparray[i + 2].addr <= maparray[k].addr
          BY <1>3, <3>2, <4>1, InTable
        <5> QED
          BY <1>1, <3>1, <3>3, <3>4, <4>1, <5>1
      <4>3. k < i + 1 \/ k = i + 1
        BY <2>2, <4>2
      <4>4. k < i + 1 => maparray[k].addr <= e.addr
        BY <1>3, <3>2, <4>1, InTable
      <4> QED
        BY <4>3, <4>4, <3>3
    <3>5. Nearest(a) = e.addr
      <4>1. \A x \in Entries : x.addr <= a => x.addr <= e.addr
        BY <3>4 DEF Entries
      <4> QED
        BY <1>1, <3>1, <3>3, <4>1, NearestIs
    <3>6. answer' = [sym |-> e.sym, offset |-> a - e.addr]
      BY <2>1, <2>2, <2>4 DEF SymbolAt
    <3> QED
      BY <3>3, <3>5, <3>6
  <2> QED
    BY <2>2, <2>3, <2>4
<1> QED
  BY <1>2, <1>3

LEMMA EndsRight ==
  ASSUME TableInv
  PROVE  EndIsNextSymbol
<1> SUFFICES ASSUME NEW s \in Syms, get_sym_end_address(s) # -1
             PROVE  LET range == get_sym_address(s) .. get_sym_end_address(s)
                    IN  range # {} /\ \A a \in range : Nearest(a) = get_sym_address(s)
  BY DEF EndIsNextSymbol
<1> DEFINE i == IndexOf(s)
           named == {k \in 0 .. mapcnt - 1 : maparray[k + 1].sym = s} \cup {mapcnt}
           j == Min(Higher(i))
           addr(k) == maparray[k].addr
<1>1. mapcnt \in Nat
  BY DEF TableInv
<1>2. i \in 0 .. mapcnt
  <2>1. named \subseteq Nat /\ named # {}
    BY <1>1
  <2>2. named \subseteq 0 .. mapcnt
    BY <1>1
  <2> HIDE DEF named
  <2>3. Min(named) \in named
    BY <2>1, FirstOf
  <2> QED
    BY <2>2, <2>3 DEF IndexOf, named
<1>3. /\ i # mapcnt /\ Higher(i) # {}
      /\ get_sym_end_address(s) = addr(j + 1) - 1
      /\ get_sym_address(s) = addr(i + 1)
  BY DEF get_sym_end_address, get_sym_address
<1>4. i + 1 \in 1 .. mapcnt /\ i + 1 \in 1 .. mapcnt + 1 /\ mapcnt # 0
  BY <1>1, <1>2, <1>3
<1> HIDE DEF i
<1>5. j \in Higher(i) /\ \A k \in Higher(i) : j <= k
  <2>1. Higher(i) \subseteq Nat
    BY <1>1, <1>2 DEF Higher
  <2> QED
    BY <1>3, <2>1, FirstOf
<1> HIDE DEF j
<1>6. j \in i + 1 .. mapcnt /\ addr(j + 1) > addr(i + 1) /\ j + 1 \in 1 .. mapcnt + 1
  BY <1>1, <1>2, <1>5 DEF Higher
<1>7. addr(i + 1) \in -1 .. Top /\ addr(j + 1) \in -1 .. Top /\ Top \in Nat
  BY <1>4, <1>6, InTable
<1>8. addr(i + 1) \in addr(i + 1) .. addr(j + 1) - 1
  BY <1>6, <1>7
<1>9. ASSUME NEW a \in addr(i + 1) .. addr(j + 1) - 1 PROVE Nearest(a) = addr(i + 1)
  <2>1. ASSUME NEW k \in 1 .. mapcnt, addr(k) <= a PROVE addr(k) <= addr(i + 1)
    <3>1. k \in 1 .. mapcnt + 1 /\ addr(k) \in Int
      BY <1>1, <1>4, InTable
    <3> SUFFICES ASSUME addr(i + 1) < addr(k) PROVE FALSE
      BY <1>7, <3>1
    <3>2. ~ k < i + 1
      <4>1. k < i + 1 => addr(k) <= addr(i + 1)
        BY <1>4, <3>1, InTable
      <4> QED
        BY <1>7, <3>1, <4>1
    <3>3. k # i + 1
      BY <1>7
    <3>4. k - 1 \in i + 1 .. mapcnt /\ (k - 1) + 1 = k
      BY <1>1, <1>2, <3>2, <3>3
    <3>5. k - 1 \in Higher(i)
      BY <3>4 DEF Higher
    <3>6. j + 1 < k \/ j + 1 = k
      BY <1>1, <1>2, <1>5, <1>6, <3>4, <3>5
    <3>7. j + 1 < k => addr(j + 1) <= addr(k)
      BY <1>4, <1>6, <3>1, InTable
    <3> QED
      BY <1>7, <2>1, <3>1, <3>6, <3>7
  <2>2. \A e \in Entries : e.addr <= a => e.addr <= addr(i + 1)
    BY <2>1 DEF Entries
  <2>3. maparray[i + 1] \in Entries
    BY <1>4 DEF Entries
  <2> QED
    BY <1>7, <2>2, <2>3, NearestIs
<1> QED
  BY <1>3, <1>8, <1>9

-----------------------------------------------------------------------------
(* Where the strings are                                                    *)

LEMMA SumOf ==
  ASSUME NEW n \in Nat, NEW g \in [1 .. n -> Nat]
  PROVE  \E t \in [0 .. n -> Nat] :
           /\ t[0] = 0 /\ \A k \in 1 .. n : t[k] = t[k - 1] + g[k]
           /\ Sum(g) = t[n]
<1> DEFINE turn == [i \in 1 .. n |-> [v \in Nat |-> v + g[i]]]
           IsSum(f) == f = [k \in 0 .. n |-> IF k = 0 THEN 0 ELSE f[k - 1] + g[k]]
           sum == CHOOSE f : IsSum(f)
<1>1. PICK t \in [0 .. n -> Nat] : t[0] = 0 /\ \A i \in 1 .. n : t[i] = turn[i][t[i - 1]]
  <2>1. turn \in Steps(n, Nat)
    BY DEF Steps
  <2>2. 0 \in Nat
    OBVIOUS
  <2> DEFINE V == Nat
  <2> HIDE DEF turn, V
  <2>3. turn \in Steps(n, V) /\ 0 \in V
    BY <2>1, <2>2 DEF V
  <2>4. \E t \in [0 .. n -> V] : t[0] = 0 /\ \A i \in 1 .. n : t[i] = turn[i][t[i - 1]]
    BY <2>3, Recursion
  <2> QED
    BY <2>4 DEF V
<1>2. \A i \in 1 .. n : t[i] = t[i - 1] + g[i]
  <2>1. \A i \in 1 .. n : i - 1 \in 0 .. n
    OBVIOUS
  <2> QED
    BY <1>1, <2>1
<1>3. IsSum(t)
  BY <1>1, <1>2
<1>4. IsSum(sum)
  BY <1>3, Zenon
<1>5. sum[n] = t[n]
  <2> DEFINE S == {k \in 0 .. n : sum[k] = t[k]}
  <2> HIDE DEF sum
  <2>1. 0 \in S
    BY <1>1, <1>4
  <2>2. ASSUME NEW k \in 1 .. n, k - 1 \in S PROVE k \in S
    BY <1>2, <1>4, <2>2
  <2> HIDE DEF S
  <2>3. \A k \in 0 .. n : k \in S
    BY <2>1, <2>2, UpTo
  <2> QED
    BY <2>3 DEF S
<1>6. Len(g) = n
  BY DEF Sum
<1>7. Sum(g) = sum[n]
  BY <1>6, Zenon DEF Sum
<1> QED
  BY <1>1, <1>2, <1>5, <1>7

\* The first taken off.
LEMMA SumFirst ==
  ASSUME NEW n \in Nat \ {0}, NEW m \in Nat, m = n - 1,
         NEW g \in [1 .. n -> Nat], NEW h \in [1 .. m -> Nat],
         \A k \in 1 .. m : h[k] = g[k + 1]
  PROVE  Sum(g) = g[1] + Sum(h)
<1>1. PICK t \in [0 .. n -> Nat] :
        t[0] = 0 /\ (\A k \in 1 .. n : t[k] = t[k - 1] + g[k]) /\ Sum(g) = t[n]
  BY SumOf
<1>2. PICK u \in [0 .. m -> Nat] :
        u[0] = 0 /\ (\A k \in 1 .. m : u[k] = u[k - 1] + h[k]) /\ Sum(h) = u[m]
  BY SumOf
<1> DEFINE S == {k \in 0 .. m : t[k + 1] = g[1] + u[k]}
<1>3. 0 \in S
  <2>1. t[1] = t[1 - 1] + g[1]
    BY <1>1
  <2> QED
    BY <1>1, <1>2, <2>1
<1>4. ASSUME NEW k \in 1 .. m, k - 1 \in S PROVE k \in S
  <2>1. t[k] = g[1] + u[k - 1]
    BY <1>4
  <2>2. t[k + 1] = t[k] + g[k + 1]
    <3>1. k + 1 \in 1 .. n /\ (k + 1) - 1 = k
      OBVIOUS
    <3> QED
      BY <1>1, <3>1
  <2>3. u[k] = u[k - 1] + g[k + 1]
    BY <1>2
  <2>4. u[k - 1] \in Nat /\ g[1] \in Nat /\ g[k + 1] \in Nat
    <3>1. k - 1 \in 0 .. m /\ 1 \in 1 .. n /\ k + 1 \in 1 .. n
      OBVIOUS
    <3> QED
      BY <3>1
  <2>5. PICK x \in Nat, y \in Nat, z \in Nat : x = g[1] /\ y = u[k - 1] /\ z = g[k + 1]
    BY <2>4, Zenon
  <2>8. t[k + 1] = (x + y) + z /\ u[k] = y + z
    BY <2>1, <2>2, <2>3, <2>5, Zenon
  <2>9. (x + y) + z = x + (y + z)
    OBVIOUS
  <2>6. t[k + 1] = g[1] + u[k]
    BY <2>5, <2>8, <2>9, Zenon
  <2>7. k \in 0 .. m
    OBVIOUS
  <2> QED
    BY <2>6, <2>7, Zenon
<1>5. m \in S
  <2> HIDE DEF S
  <2>1. \A k \in 0 .. m : k \in S
    BY <1>3, <1>4, UpTo
  <2> QED
    BY <2>1
<1> QED
  BY <1>1, <1>2, <1>5

\* The bytes of string i and of those above it.
Above(strings, i) ==
    Sum([k \in 1 .. Len(strings) - i + 1 |-> Room(strings[i + k - 1])])

LEMMA AboveIs ==
  ASSUME NEW strings \in Seq(Names)
  PROVE  /\ \A i \in 1 .. Len(strings) + 1 : Above(strings, i) \in Nat
         /\ \A i \in 1 .. Len(strings) :
              Above(strings, i) = Bytes[strings[i]] + Above(strings, i + 1)
         /\ Above(strings, Len(strings) + 1) = 0
<1> DEFINE n == Len(strings)
           size(i) == [k \in 1 .. n - i + 1 |-> Room(strings[i + k - 1])]
<1>1. n \in Nat /\ \A i \in 1 .. n : Room(strings[i]) \in Nat
  BY ExecAssumption DEF Room
<1>2. ASSUME NEW i \in 1 .. n + 1 PROVE size(i) \in [1 .. n - i + 1 -> Nat]
  <2>1. \A k \in 1 .. n - i + 1 : i + k - 1 \in 1 .. n
    BY <1>1
  <2> QED
    BY <1>1, <2>1
<1>3. ASSUME NEW i \in 1 .. n + 1 PROVE Above(strings, i) \in Nat
  <2>1. n - i + 1 \in Nat
    BY <1>1
  <2> HIDE DEF n
  <2>2. PICK m \in Nat : m = n - i + 1
    BY <2>1
  <2>3. size(i) \in [1 .. m -> Nat]
    BY <1>2, <2>2
  <2> DEFINE g == size(i)
  <2>4. g \in [1 .. m -> Nat]
    BY <2>3
  <2>5. Above(strings, i) = Sum(g)
    BY DEF Above, n
  <2> HIDE DEF g
  <2>6. Sum(g) \in Nat
    <3>1. PICK t \in [0 .. m -> Nat] : Sum(g) = t[m]
      BY <2>4, SumOf
    <3> QED
      BY <3>1
  <2> QED
    BY <2>5, <2>6
<1>4. ASSUME NEW i \in 1 .. n
      PROVE  Above(strings, i) = Bytes[strings[i]] + Above(strings, i + 1)
  <2> DEFINE g == size(i)
             h == size(i + 1)
             m == n - i + 1
             l == n - i
  <2>1. /\ m \in Nat \ {0} /\ l \in Nat /\ l = m - 1 /\ n - (i + 1) + 1 = l
        /\ i + 1 \in 1 .. n + 1
    BY <1>1
  <2>2. g \in [1 .. m -> Nat]
    BY <1>1, <1>2
  <2>3. h \in [1 .. l -> Nat]
    <3>1. size(i + 1) \in [1 .. n - (i + 1) + 1 -> Nat]
      BY <1>2, <2>1, Zenon
    <3> QED
      BY <2>1, <3>1
  <2>4. \A k \in 1 .. l : h[k] = g[k + 1]
    <3> SUFFICES ASSUME NEW k \in 1 .. l PROVE h[k] = g[k + 1]
      OBVIOUS
    <3>1. k \in 1 .. n - (i + 1) + 1 /\ k + 1 \in 1 .. n - i + 1
      BY <1>1
    <3>2. i + 1 + k - 1 = i + (k + 1) - 1
      BY <1>1
    <3> QED
      BY <3>1, <3>2
  <2>5. g[1] = Bytes[strings[i]]
    BY <1>1 DEF Room
  <2>6. Above(strings, i) = Sum(g) /\ Above(strings, i + 1) = Sum(h)
    BY DEF Above
  <2> HIDE DEF g, h, m, l
  <2>7. Sum(g) = g[1] + Sum(h)
    BY <2>1, <2>2, <2>3, <2>4, SumFirst
  <2> QED
    BY <2>5, <2>6, <2>7
<1>5. Above(strings, n + 1) = 0
  <2> DEFINE g == size(n + 1)
  <2>1. g \in [1 .. 0 -> Nat]
    <3>1. n - (n + 1) + 1 = 0 /\ n + 1 \in 1 .. n + 1
      BY <1>1
    <3>2. size(n + 1) \in [1 .. n - (n + 1) + 1 -> Nat]
      BY <1>2, <3>1, Zenon
    <3> QED
      BY <3>1, <3>2
  <2>2. Above(strings, n + 1) = Sum(g)
    BY DEF Above
  <2> HIDE DEF g
  <2>3. Sum(g) = 0
    BY <2>1, SumOf
  <2> QED
    BY <2>2, <2>3
<1> QED
  BY <1>3, <1>4, <1>5

LEMMA AboveFalls ==
  ASSUME NEW strings \in Seq(Names), NEW i \in 1 .. Len(strings) + 1,
         NEW j \in i .. Len(strings) + 1
  PROVE  Above(strings, j) <= Above(strings, i)
<1> DEFINE n == Len(strings)
           A(k) == Above(strings, k)
           S == {k \in 0 .. n : i + k <= n + 1 => A(i + k) <= A(i)}
<1>1. n \in Nat /\ \A k \in 1 .. n : Bytes[strings[k]] \in Nat
  BY ExecAssumption
<1>2. /\ \A k \in 1 .. n + 1 : A(k) \in Nat
      /\ \A k \in 1 .. n : A(k) = Bytes[strings[k]] + A(k + 1)
  BY AboveIs
<1> HIDE DEF n, A
<1>3. 0 \in S
  <2>1. A(i) <= A(i) /\ i + 0 = i
    BY <1>1, <1>2 DEF n
  <2> QED
    BY <1>1, <2>1
<1>4. ASSUME NEW k \in 1 .. n, k - 1 \in S PROVE k \in S
  <2> SUFFICES ASSUME i + k <= n + 1 PROVE A(i + k) <= A(i)
    BY <1>1
  <2>1. PICK l \in 1 .. n : l = i + (k - 1) /\ l + 1 = i + k /\ l + 1 \in 1 .. n + 1
    BY <1>1 DEF n
  <2>2. A(l) <= A(i)
    BY <1>1, <1>4, <2>1
  <2>3. A(l) = Bytes[strings[l]] + A(l + 1) /\ A(l) \in Nat /\ A(l + 1) \in Nat /\ Bytes[strings[l]] \in Nat
    BY <1>1, <1>2, <2>1
  <2>4. A(i) \in Nat
    BY <1>2 DEF n
  <2>5. A(l + 1) <= A(i)
    BY <2>2, <2>3, <2>4
  <2> QED
    BY <2>1, <2>5
<1>5. \A k \in 0 .. n : k \in S
  <2> HIDE DEF S
  <2> QED
    BY <1>1, <1>3, <1>4, UpTo
<1>6. j - i \in 0 .. n /\ i + (j - i) = j /\ j <= n + 1
  BY <1>1 DEF n
<1>7. A(j) <= A(i)
  BY <1>5, <1>6
<1> QED
  BY <1>7 DEF A

\* All strings fit below the NULL on top.
LEMMA StringsAt ==
  ASSUME NEW strings \in Seq(Names), Above(strings, 1) + 2 <= StackTop
  PROVE  /\ \A i \in 1 .. Len(strings) + 1 :
              /\ StringAt(strings, i) = (StackTop - 2) - Above(strings, i)
              /\ StringAt(strings, i) \in 0 .. StackTop - 2
         /\ \A i \in 1 .. Len(strings) :
              StringAt(strings, i + 1) = StringAt(strings, i) + Bytes[strings[i]]
         /\ \A i, j \in 1 .. Len(strings) + 1 :
              i <= j => StringAt(strings, i) <= StringAt(strings, j)
<1> DEFINE n == Len(strings)
           A(k) == Above(strings, k)
           at(k) == StringAt(strings, k)
<1>1. n \in Nat /\ \A k \in 1 .. n : Bytes[strings[k]] \in Nat
  BY ExecAssumption
<1>2. /\ \A k \in 1 .. n + 1 : A(k) \in Nat
      /\ \A k \in 1 .. n : A(k) = Bytes[strings[k]] + A(k + 1)
  BY AboveIs
<1>3. StackTop \in 0 .. Word - 1 /\ Word \in Nat \ {0}
  BY ExecAssumption, WordAssumption DEF Words
<1>4. \A i, j \in 1 .. n + 1 : i <= j => A(j) <= A(i)
  BY <1>1, AboveFalls
<1>5. ASSUME NEW i \in 1 .. n + 1 PROVE at(i) = (StackTop - 2) - A(i) /\ at(i) \in 0 .. StackTop - 2
  <2>1. 1 \in 1 .. n + 1 /\ A(i) <= A(1)
    BY <1>1, <1>4
  <2>2. A(i) \in Nat /\ A(1) \in Nat /\ A(1) + 2 <= StackTop
    BY <1>2, <2>1
  <2> HIDE DEF A
  <2>3. StackTop - 2 - A(i) \in 0 .. StackTop - 2
    BY <1>3, <2>1, <2>2
  <2>4. at(i) = (StackTop - 2 - A(i)) % Word
    BY DEF StringAt, A, Above
  <2>5. \A x \in 0 .. Word - 1 : x % Word = x
    BY <1>3
  <2>6. StackTop - 2 - A(i) \in 0 .. Word - 1
    BY <1>3, <2>2, <2>3
  <2> QED
    BY <2>3, <2>4, <2>5, <2>6
<1> HIDE DEF n, A, at
<1>6. ASSUME NEW i \in 1 .. n PROVE at(i + 1) = at(i) + Bytes[strings[i]]
  <2>1. i \in 1 .. n + 1 /\ i + 1 \in 1 .. n + 1
    BY <1>1
  <2>2. at(i) = (StackTop - 2) - A(i) /\ at(i + 1) = (StackTop - 2) - A(i + 1)
    BY <1>5, <2>1
  <2>3. A(i) = Bytes[strings[i]] + A(i + 1) /\ Bytes[strings[i]] \in Nat /\ A(i + 1) \in Nat
    BY <1>1, <1>2, <2>1
  <2> QED
    BY <1>3, <2>2, <2>3
<1>7. ASSUME NEW i \in 1 .. n + 1, NEW j \in 1 .. n + 1, i <= j PROVE at(i) <= at(j)
  <2>1. A(j) <= A(i) /\ A(i) \in Nat /\ A(j) \in Nat
    BY <1>2, <1>4, <1>7
  <2> QED
    BY <1>3, <1>5, <2>1
<1> QED
  BY <1>5, <1>6, <1>7 DEF n, A, at

\* The arguments, the environment and the pointers to them fit below StackTop.
FitsBelow(args) == Above(args \o Envp, 1) + 2 * (Len(args) + Len(Envp)) + 12 <= StackTop

LEMMA TableIs ==
  ASSUME NEW a \in Seq(Nat), NEW b \in Seq(Nat)
  PROVE  /\ Table(a, b) \in Seq(Nat) /\ Len(Table(a, b)) = Len(a) + Len(b) + 2
         /\ \A i \in 1 .. Len(a) : Table(a, b)[i] = a[i]
         /\ Table(a, b)[Len(a) + 1] = 0
         /\ \A i \in 1 .. Len(b) : Table(a, b)[i + Len(a) + 1] = b[i]
         /\ Table(a, b)[Len(a) + Len(b) + 2] = 0
<1> DEFINE n == Len(a)
           m == Len(b)
           first == a \o <<0>>
           more == first \o b
<1>1. n \in Nat /\ m \in Nat /\ Len(a) = n /\ Len(b) = m
  OBVIOUS
<1> HIDE DEF n, m
<1>2. /\ first \in Seq(Nat) /\ Len(first) = n + 1
      /\ \A i \in 1 .. n : first[i] = a[i]
      /\ first[n + 1] = 0
  BY <1>1
<1> HIDE DEF first
<1>3. /\ more \in Seq(Nat) /\ Len(more) = n + m + 1
      /\ \A i \in 1 .. n + 1 : more[i] = first[i]
      /\ \A i \in 1 .. m : more[i + n + 1] = b[i]
  <2> HIDE DEF more
  <2>0. /\ more \in Seq(Nat) /\ Len(more) = (n + 1) + m
        /\ \A i \in 1 .. (n + 1) + m : more[i] = IF i <= n + 1 THEN first[i] ELSE b[i - (n + 1)]
    <3>1. /\ more \in Seq(Nat) /\ Len(more) = Len(first) + Len(b)
          /\ \A i \in 1 .. Len(first) + Len(b) :
               more[i] = IF i <= Len(first) THEN first[i] ELSE b[i - Len(first)]
      <4>1. first \in Seq(Nat)
        BY <1>2
      <4> QED
        BY <4>1, ConcatProperties, Zenon DEF more
    <3> QED
      BY <1>1, <1>2, <3>1
  <2>1. more \in Seq(Nat) /\ Len(more) = n + m + 1
    BY <1>1, <2>0
  <2>2. \A i \in 1 .. n + 1 : more[i] = first[i]
    BY <1>1, <2>0
  <2>3. ASSUME NEW i \in 1 .. m PROVE more[i + n + 1] = b[i]
    <3>1. PICK k \in 1 .. (n + 1) + m : k = i + n + 1 /\ ~ k <= n + 1 /\ k - (n + 1) = i
      BY <1>1
    <3>2. more[k] = b[k - (n + 1)]
      BY <2>0, <3>1
    <3> QED
      BY <3>1, <3>2
  <2> QED
    BY <2>1, <2>2, <2>3
<1> HIDE DEF more
<1>4. Table(a, b) = more \o <<0>>
  BY DEF Table, more, first
<1>5. /\ more \o <<0>> \in Seq(Nat) /\ Len(more \o <<0>>) = n + m + 2
      /\ \A i \in 1 .. n + m + 1 : (more \o <<0>>)[i] = more[i]
      /\ (more \o <<0>>)[n + m + 2] = 0
  <2> DEFINE nil == <<0>>
  <2>1. nil \in Seq(Nat) /\ Len(nil) = 1 /\ nil[1] = 0
    OBVIOUS
  <2> HIDE DEF nil
  <2>2. /\ more \o nil \in Seq(Nat) /\ Len(more \o nil) = Len(more) + Len(nil)
        /\ \A i \in 1 .. Len(more) + Len(nil) :
             (more \o nil)[i] = IF i <= Len(more) THEN more[i] ELSE nil[i - Len(more)]
    BY <1>3, <2>1, ConcatProperties
  <2> DEFINE all == more \o nil
  <2> HIDE DEF all
  <2>3. /\ all \in Seq(Nat) /\ Len(all) = n + m + 2
        /\ \A i \in 1 .. n + m + 2 :
             all[i] = IF i <= n + m + 1 THEN more[i] ELSE nil[i - (n + m + 1)]
    BY <1>1, <1>3, <2>1, <2>2 DEF all
  <2>4. \A i \in 1 .. n + m + 1 : i \in 1 .. n + m + 2 /\ all[i] = more[i]
    BY <1>1, <2>3
  <2>5. all[n + m + 2] = 0
    <3>1. n + m + 2 \in 1 .. n + m + 2 /\ ~ n + m + 2 <= n + m + 1
          /\ (n + m + 2) - (n + m + 1) = 1
      BY <1>1
    <3> QED
      BY <2>1, <2>3, <3>1
  <2> QED
    BY <2>3, <2>4, <2>5 DEF all, nil
<1>6. ASSUME NEW i \in 1 .. n PROVE Table(a, b)[i] = a[i]
  <2>1. i \in 1 .. n + m + 1 /\ i \in 1 .. n + 1
    BY <1>1
  <2> QED
    BY <1>2, <1>3, <1>4, <1>5, <2>1
<1>7. Table(a, b)[n + 1] = 0
  <2>1. n + 1 \in 1 .. n + m + 1 /\ n + 1 \in 1 .. n + 1
    BY <1>1
  <2> QED
    BY <1>2, <1>3, <1>4, <1>5, <2>1
<1>8. ASSUME NEW i \in 1 .. m PROVE Table(a, b)[i + n + 1] = b[i]
  <2>1. i + n + 1 \in 1 .. n + m + 1
    BY <1>1
  <2> QED
    BY <1>3, <1>4, <1>5, <2>1
<1> QED
  BY <1>4, <1>5, <1>6, <1>7, <1>8 DEF n, m

LEMMA FrameIs ==
  ASSUME NEW args \in Seq(Names), FitsBelow(args)
  PROVE  LET strings == args \o Envp
             n == Len(args)
             m == Len(Envp)
             bottom == Frame(args, Envp).posn
             words == Frame(args, Envp).words
         IN  /\ bottom \in Nat /\ bottom + 2 * (n + m) + 10 = StringAt(strings, 1)
             /\ Len(words) = n + m + 5
             /\ words[1] = n /\ words[2] = bottom + 6 /\ words[3] = bottom + 6 + 2 * (n + 1)
             /\ \A i \in 1 .. n : words[i + 3] = StringAt(strings, i)
             /\ words[n + 4] = 0
             /\ \A i \in 1 .. m : words[i + n + 4] = StringAt(strings, n + i)
             /\ words[n + m + 5] = 0
<1> DEFINE strings == args \o Envp
           n == Len(args)
           m == Len(Envp)
           at(i) == StringAt(strings, i)
           a == [i \in 1 .. n |-> at(i)]
           e == [i \in 1 .. m |-> at(n + i)]
           table == Table(a, e)
           argvposn == (at(1) - 2 * Len(table)) % Word
           envpposn == (argvposn + 2 * (n + 1)) % Word
           bottom == (argvposn - 6) % Word
           words == <<n, argvposn, envpposn>> \o table
<1>1. Frame(args, Envp).posn = bottom /\ Frame(args, Envp).words = words
  BY DEF Frame
<1>2. n \in Nat /\ m \in Nat /\ strings \in Seq(Names) /\ Len(strings) = n + m
  BY ExecAssumption
<1>3. StackTop \in 0 .. Word - 1 /\ Word \in Nat \ {0}
  BY ExecAssumption, WordAssumption DEF Words
<1>4. Above(strings, 1) \in Nat /\ Above(strings, 1) + 2 * (n + m) + 12 <= StackTop
  <2>1. 1 \in 1 .. Len(strings) + 1
    BY <1>2
  <2>2. Above(strings, 1) \in Nat
    BY <1>2, <2>1, AboveIs
  <2>3. Above(strings, 1) + 2 * (n + m) + 12 <= StackTop
    BY Zenon DEF FitsBelow
  <2> QED
    BY <2>2, <2>3
<1> HIDE DEF strings
<1>5. at(1) = (StackTop - 2) - Above(strings, 1) /\ \A i \in 1 .. n + m : at(i) \in Nat
  <2>1. Above(strings, 1) + 2 <= StackTop
    BY <1>2, <1>3, <1>4
  <2> QED
    BY <1>2, <2>1, StringsAt
<1> HIDE DEF at
<1>6. a \in [1 .. n -> Nat] /\ e \in [1 .. m -> Nat]
  BY <1>2, <1>5
<1>7. /\ Len(table) = n + m + 2
      /\ \A i \in 1 .. n : table[i] = at(i)
      /\ table[n + 1] = 0
      /\ \A i \in 1 .. m : table[i + n + 1] = at(n + i)
      /\ table[n + m + 2] = 0
      /\ table \in Seq(Nat)
  <2>1. a \in Seq(Nat) /\ e \in Seq(Nat) /\ Len(a) = n /\ Len(e) = m
    BY <1>2, <1>6
  <2>2. /\ \A i \in 1 .. n : a[i] = at(i)
        /\ \A i \in 1 .. m : e[i] = at(n + i)
    OBVIOUS
  <2> HIDE DEF a, e, n, m
  <2>3. table \in Seq(Nat) /\ Len(table) = n + m + 2
    BY <2>1, TableIs
  <2>4. ASSUME NEW i \in 1 .. n PROVE table[i] = at(i)
    BY <2>1, <2>2, TableIs
  <2>5. table[n + 1] = 0 /\ table[n + m + 2] = 0
    BY <2>1, TableIs
  <2>6. ASSUME NEW i \in 1 .. m PROVE table[i + n + 1] = at(n + i)
    BY <2>1, <2>2, TableIs
  <2> HIDE DEF table
  <2> QED
    BY <2>3, <2>4, <2>5, <2>6
<1> HIDE DEF a, e, table, n, m
<1>8. PICK t \in 0 .. Word - 1 : t = at(1) /\ 2 * (n + m) + 10 <= t
  BY <1>2, <1>3, <1>4, <1>5
<1>20. t - 2 * (n + m + 2) \in 0 .. Word - 1
  BY <1>2, <1>3, <1>8
<1>9. \A x \in 0 .. Word - 1 : x % Word = x
  BY <1>3
<1>10. argvposn = t - 2 * (n + m + 2) /\ argvposn \in Nat
  BY <1>7, <1>8, <1>9, <1>20
<1> HIDE DEF argvposn
<1>11. argvposn - 6 \in 0 .. Word - 1 /\ argvposn + 2 * (n + 1) \in 0 .. Word - 1
  BY <1>2, <1>3, <1>8, <1>10
<1>12. bottom = argvposn - 6 /\ envpposn = argvposn + 2 * (n + 1) /\ bottom \in Nat
  BY <1>9, <1>11
<1> HIDE DEF bottom, envpposn
<1>13. bottom + 2 * (n + m) + 10 = at(1)
  <2>1. PICK k \in Nat : k = n + m
    BY <1>2
  <2>2. bottom = (t - 2 * (k + 2)) - 6
    BY <1>2, <1>10, <1>12, <2>1
  <2>3. bottom + 2 * k + 10 = t
    BY <1>3, <1>8, <2>2
  <2> QED
    BY <1>8, <2>1, <2>3
<1>14. /\ Len(words) = n + m + 5
       /\ words[1] = n /\ words[2] = argvposn /\ words[3] = envpposn
       /\ \A i \in 1 .. n + m + 2 : words[i + 3] = table[i]
  <2>1. <<n, argvposn, envpposn>> \in Seq(Nat) /\ Len(<<n, argvposn, envpposn>>) = 3
    BY <1>2, <1>10, <1>12
  <2>2. Len(words) = 3 + Len(table)
    BY <1>7, <2>1
  <2>3. words[1] = n /\ words[2] = argvposn /\ words[3] = envpposn
    BY <1>2, <1>7, <2>1
  <2>4. \A i \in 1 .. n + m + 2 : words[i + 3] = table[i]
    BY <1>2, <1>7, <2>1
  <2> QED
    BY <1>2, <1>7, <2>2, <2>3, <2>4
<1> HIDE DEF words
<1>15. \A i \in 1 .. n : words[i + 3] = at(i)
  BY <1>2, <1>7, <1>14
<1>16. words[n + 4] = 0
  <2>1. n + 1 \in 1 .. n + m + 2 /\ (n + 1) + 3 = n + 4
    BY <1>2
  <2> QED
    BY <1>7, <1>14, <2>1
<1>17. \A i \in 1 .. m : words[i + n + 4] = at(n + i)
  <2> SUFFICES ASSUME NEW i \in 1 .. m PROVE words[i + n + 4] = at(n + i)
    OBVIOUS
  <2>1. i + n + 1 \in 1 .. n + m + 2 /\ (i + n + 1) + 3 = i + n + 4
    BY <1>2
  <2> QED
    BY <1>7, <1>14, <2>1
<1>18. words[n + m + 5] = 0
  <2>1. n + m + 2 \in 1 .. n + m + 2 /\ (n + m + 2) + 3 = n + m + 5
    BY <1>2
  <2> QED
    BY <1>7, <1>14, <2>1
<1>19. argvposn = bottom + 6 /\ envpposn = bottom + 6 + 2 * (n + 1)
  BY <1>2, <1>10, <1>12
<1> QED
  BY <1>1, <1>12, <1>13, <1>14, <1>15, <1>16, <1>17, <1>18, <1>19 DEF n, m, at, strings

\* What set_arg_env leaves behind.
Laid(args, p, m) ==
    /\ p = Frame(args, Envp).posn
    /\ m = [a \in Words |-> Byte(a, args \o Envp, Frame(args, Envp))]

LEMMA WordAt ==
  ASSUME NEW args \in Seq(Names), FitsBelow(args), Laid(args, posn, mem),
         NEW k \in 1 .. Len(args) + Len(Envp) + 5,
         Frame(args, Envp).words[k] \in Words
  PROVE  WordIn(posn + 2 * (k - 1)) = {Frame(args, Envp).words[k]}
<1> DEFINE strings == args \o Envp
           frame == Frame(args, Envp)
           w == frame.words[k]
<1>1. Word \in Nat \ {0} /\ StackTop \in 0 .. Word - 1
  BY ExecAssumption, WordAssumption DEF Words
<1>2. PICK N \in Nat : N = Len(args) + Len(Envp) /\ k \in 1 .. N + 5
  BY ExecAssumption
<1>3. posn = frame.posn /\ posn \in Nat /\ Len(frame.words) = N + 5 /\ posn + 2 * N + 10 <= StackTop
  <2>1. frame.posn \in Nat /\ frame.posn + 2 * N + 10 = StringAt(strings, 1) /\ Len(frame.words) = N + 5
    BY <1>2, FrameIs
  <2>2. StringAt(strings, 1) <= StackTop
    <3>1. strings \in Seq(Names) /\ 1 \in 1 .. Len(strings) + 1 /\ Above(strings, 1) + 2 <= StackTop
      <4>1. strings \in Seq(Names) /\ Len(strings) = N
        BY <1>2, ExecAssumption
      <4>2. 1 \in 1 .. Len(strings) + 1
        BY <4>1
      <4> HIDE DEF strings
      <4>3. Above(strings, 1) \in Nat
        BY <4>1, <4>2, AboveIs
      <4>4. Above(strings, 1) + 2 * N + 12 <= StackTop
        BY <1>2 DEF FitsBelow, strings
      <4> QED
        BY <1>1, <1>2, <4>1, <4>2, <4>3, <4>4
    <3> HIDE DEF strings
    <3>2. StringAt(strings, 1) \in 0 .. StackTop - 2
      BY <3>1, StringsAt
    <3> QED
      BY <1>1, <3>2
  <2> QED
    BY <2>1, <2>2 DEF Laid
<1> HIDE DEF frame, strings
<1>4. \A x \in 0 .. Word - 1 : x % Word = x
  BY <1>1
<1>15. PICK l \in 0 .. N + 4 : l = k - 1
  BY <1>2
<1>16. PICK p \in Nat : p = posn /\ p + 2 * N + 10 <= StackTop
  BY <1>3
<1>5. PICK a \in Nat : a = p + 2 * l /\ a = posn + 2 * (k - 1)
  BY <1>15, <1>16
<1>17. /\ a \in 0 .. Word - 1 /\ a + 1 \in 0 .. Word - 1
       /\ a - p \in 0 .. Word - 1 /\ (a + 1) - p \in 0 .. Word - 1
       /\ a - p = 2 * l /\ (a + 1) - p = 2 * l + 1
  BY <1>1, <1>5, <1>15, <1>16
<1>18. /\ (2 * l) \div 2 = l /\ (2 * l) % 2 = 0
       /\ (2 * l + 1) \div 2 = l /\ (2 * l + 1) % 2 = 1 /\ l + 1 = k
  BY <1>2, <1>15
<1>6. /\ a \in 0 .. Word - 1 /\ a + 1 \in 0 .. Word - 1
      /\ a - posn \in 0 .. Word - 1 /\ (a + 1) - posn \in 0 .. Word - 1
  BY <1>16, <1>17
<1>7. ((a - posn) \div 2) + 1 = k /\ (a - posn) % 2 = 0
  BY <1>16, <1>17, <1>18
<1>8. (((a + 1) - posn) \div 2) + 1 = k /\ ((a + 1) - posn) % 2 = 1
  BY <1>16, <1>17, <1>18
<1>9. k <= Len(frame.words)
  BY <1>2, <1>3
<1>10. Byte(a, strings, frame) = <<"lo", w>>
  <2>1. ((a - frame.posn) % Word) \div 2 + 1 = k /\ (a - frame.posn) % 2 = 0
    BY <1>3, <1>4, <1>6, <1>7
  <2> QED
    BY <1>9, <2>1 DEF Byte
<1>11. Byte(a + 1, strings, frame) = <<"hi", w>>
  <2>1. (((a + 1) - frame.posn) % Word) \div 2 + 1 = k /\ ((a + 1) - frame.posn) % 2 # 0
    BY <1>3, <1>4, <1>6, <1>8
  <2> QED
    BY <1>9, <2>1 DEF Byte
<1>12. mem[a % Word] = <<"lo", w>> /\ mem[(a + 1) % Word] = <<"hi", w>>
  <2>1. mem = [x \in Words |-> Byte(x, strings, frame)]
    BY DEF Laid, strings, frame
  <2>2. a \in Words /\ a + 1 \in Words
    BY <1>6 DEF Words
  <2>3. mem[a] = Byte(a, strings, frame) /\ mem[a + 1] = Byte(a + 1, strings, frame)
    BY <2>1, <2>2
  <2> QED
    BY <1>4, <1>6, <1>10, <1>11, <2>3
<1>13. w \in Words
  BY DEF frame
<1>14. WordIn(a) = {w}
  <2> HIDE DEF w
  <2> QED
    BY <1>12, <1>13 DEF WordIn
<1> QED
  BY <1>5, <1>14 DEF frame

LEMMA StringThere ==
  ASSUME NEW args \in Seq(Names), FitsBelow(args), Laid(args, posn, mem),
         NEW i \in 1 .. Len(args \o Envp)
  PROVE  (args \o Envp)[i] \in StringIn(StringAt(args \o Envp, i))
<1> DEFINE strings == args \o Envp
           frame == Frame(args, Envp)
           at(j) == StringAt(strings, j)
           n == Len(strings)
<1>1. Word \in Nat \ {0} /\ StackTop \in 0 .. Word - 1
  BY ExecAssumption, WordAssumption DEF Words
<1>2. strings \in Seq(Names) /\ n \in Nat /\ n = Len(args) + Len(Envp)
  BY ExecAssumption
<1>3. Above(strings, 1) + 2 <= StackTop
  <2>1. 1 \in 1 .. Len(strings) + 1
    BY <1>2
  <2> HIDE DEF strings
  <2>2. Above(strings, 1) \in Nat
    BY <1>2, <2>1, AboveIs
  <2>3. Above(strings, 1) + 2 * (Len(args) + Len(Envp)) + 12 <= StackTop
    BY DEF FitsBelow, strings
  <2> QED
    BY <1>1, <1>2, <2>2, <2>3
<1>4. posn = frame.posn /\ posn \in Nat /\ Len(frame.words) = n + 5 /\ posn + 2 * n + 10 = at(1)
  <2>1. frame.posn \in Nat /\ frame.posn + 2 * n + 10 = at(1) /\ Len(frame.words) = n + 5
    BY <1>2, FrameIs
  <2> QED
    BY <2>1 DEF Laid
<1>5. mem = [x \in Words |-> Byte(x, strings, frame)]
  BY DEF Laid
<1> HIDE DEF frame, strings
<1>6. /\ \A j \in 1 .. n + 1 : at(j) \in 0 .. StackTop - 2
      /\ \A j \in 1 .. n : at(j + 1) = at(j) + Bytes[strings[j]]
      /\ \A j, k \in 1 .. n + 1 : j <= k => at(j) <= at(k)
  BY <1>2, <1>3, StringsAt
<1>7. \A j \in 1 .. n : Bytes[strings[j]] \in Nat /\ strings[j] \in Names
  BY <1>2, ExecAssumption
<1>8. i \in 1 .. n
  BY DEF strings
<1> HIDE DEF at, n
<1>9. \A x \in 0 .. Word - 1 : x % Word = x
  BY <1>1
<1>10. ASSUME NEW k \in 0 .. Bytes[strings[i]] - 1
       PROVE  mem[(at(i) + k) % Word] = <<strings[i], k>>
  <2>1. PICK a \in Nat : a = at(i) + k
    BY <1>2, <1>6, <1>8
  <2>2. i \in 1 .. n + 1 /\ i + 1 \in 1 .. n + 1 /\ 1 \in 1 .. n + 1 /\ 1 <= i
    BY <1>2, <1>8
  <2>3. at(1) <= a /\ a < at(i + 1) /\ a \in 0 .. Word - 1
    <3>1. at(1) <= at(i) /\ at(i + 1) = at(i) + Bytes[strings[i]]
      BY <1>6, <1>8, <2>2
    <3>2. at(1) \in Nat /\ at(i) \in Nat /\ at(i + 1) \in 0 .. StackTop - 2 /\ Bytes[strings[i]] \in Nat
      BY <1>1, <1>6, <1>7, <1>8, <2>2
    <3>3. PICK p, q, b : p = at(i) /\ q = at(i + 1) /\ b = Bytes[strings[i]]
      OBVIOUS
    <3>4. p \in Nat /\ q \in 0 .. StackTop - 2 /\ b \in Nat /\ q = p + b /\ a = p + k /\ k \in 0 .. b - 1
      BY <2>1, <3>1, <3>2, <3>3
    <3>5. p <= a /\ a < q /\ a \in 0 .. Word - 1
      BY ONLY <1>1, <3>4
    <3> QED
      BY <1>1, <3>1, <3>2, <3>3, <3>5
  <2>4. (a - at(i)) % Word = k
    <3>1. a - at(i) = k /\ k \in 0 .. Word - 1
      <4>1. at(i) \in Nat /\ Bytes[strings[i]] \in Nat
        BY <1>1, <1>6, <1>7, <1>8, <2>2
      <4> QED
        BY <1>1, <2>1, <2>3, <4>1
    <3> QED
      BY <1>9, <3>1
  <2>5. ASSUME NEW j \in 1 .. n, j # i PROVE ~ (a - at(j)) % Word < Bytes[strings[j]]
    <3>1. /\ j \in 1 .. n + 1 /\ j + 1 \in 1 .. n + 1
          /\ at(j + 1) = at(j) + Bytes[strings[j]] /\ Bytes[strings[j]] \in Nat
      BY <1>2, <1>6, <1>7
    <3>2. at(j) \in 0 .. StackTop - 2 /\ at(j + 1) \in 0 .. StackTop - 2 /\ at(i) \in Nat
      BY <1>1, <1>6, <2>2, <3>1
    <3>5. PICK y \in 0 .. StackTop - 2 : y = at(j)
      BY <3>2
    <3>6. PICK b \in Nat : b = Bytes[strings[j]] /\ y + b <= StackTop - 2
      BY <1>1, <3>1, <3>2, <3>5
    <3>3. CASE j < i
      <4>1. at(j + 1) <= at(i)
        <5>1. j + 1 <= i
          BY <1>8, <3>3
        <5> QED
          BY <1>6, <2>2, <3>1, <5>1
      <4>4. y + b <= a
        BY <1>1, <2>1, <3>1, <3>2, <3>5, <3>6, <4>1
      <4>2. a - at(j) \in 0 .. Word - 1 /\ Bytes[strings[j]] <= a - at(j)
        <5>1. a - y \in 0 .. Word - 1 /\ b <= a - y
          <6>1. a \in Nat /\ a <= Word - 1 /\ y \in Nat /\ b \in Nat /\ y + b <= a /\ Word \in Nat
            BY <1>1, <2>3, <4>4
          <6> QED
            BY ONLY <6>1
        <5> QED
          BY <3>5, <3>6, <5>1
      <4>3. (a - at(j)) % Word = a - at(j)
        BY <1>9, <4>2
      <4> QED
        BY <3>1, <4>2, <4>3
    <3>4. CASE i < j
      <4>1. at(i + 1) <= at(j)
        <5>1. i + 1 <= j
          BY <1>8, <3>4
        <5> QED
          BY <1>6, <2>2, <3>1, <5>1
      <4>2. PICK d \in Nat : d = (a - at(j)) + Word /\ d < Word /\ Bytes[strings[j]] <= d
        <5>1. at(i + 1) \in Nat
          BY <1>1, <1>6, <2>2
        <5>2. a < y
          BY <1>1, <2>3, <3>5, <4>1, <5>1
        <5>3. (a - y) + Word \in Nat /\ (a - y) + Word < Word /\ b <= (a - y) + Word
          BY <1>1, <3>6, <5>2
        <5> QED
          BY <3>5, <3>6, <5>3
      <4>3. (a - at(j)) % Word = d
        <5>1. PICK x \in Int : x = a - at(j)
          BY <2>1, <3>5
        <5>2. x = d - Word /\ d \in 0 .. Word - 1
          <6>1. x \in Int /\ d \in Nat /\ d = x + Word /\ d < Word /\ Word \in Nat
            BY <1>1, <4>2, <5>1
          <6> QED
            BY ONLY <6>1
        <5>3. x % Word = d
          BY <1>1, <5>2
        <5> QED
          BY <5>1, <5>3
      <4> QED
        BY <3>1, <4>2, <4>3
    <3> QED
      BY <1>8, <2>5, <3>3, <3>4
  <2> DEFINE covers == {j \in DOMAIN strings : (a - at(j)) % Word < Bytes[strings[j]]}
  <2>6. covers = {i}
    <3>1. DOMAIN strings = 1 .. n
      BY <1>2 DEF n
    <3>2. (a - at(i)) % Word < Bytes[strings[i]]
      <4>1. k < Bytes[strings[i]]
        BY <1>7, <1>8
      <4> QED
        BY <2>4, <4>1
    <3>3. i \in covers
      BY <1>8, <3>1, <3>2, Zenon
    <3>4. \A j \in covers : j = i
      BY <2>5, <3>1, Zenon
    <3> QED
      BY <3>3, <3>4, Zenon
  <2>7. Min({i}) = i
    BY <1>8 DEF Min
  <2>8. ~ ((a - frame.posn) % Word) \div 2 + 1 <= Len(frame.words)
    <3>1. (a - posn) % Word = a - posn /\ a - posn \in Nat /\ 2 * n + 10 <= a - posn
      <4>1. PICK q \in Nat : q = posn /\ q + 2 * n + 10 <= a
        BY <1>4, <2>3
      <4>2. n \in Nat
        BY <1>2
      <4>3. a - q \in 0 .. Word - 1 /\ 2 * n + 10 <= a - q
        BY <1>1, <2>3, <4>1, <4>2
      <4>4. (a - q) % Word = a - q /\ a - q \in Nat
        BY <1>1, <1>9, <4>3
      <4> QED
        BY <4>1, <4>3, <4>4, Zenon
    <3>2. PICK x \in Nat : x = a - posn
      BY <3>1
    <3>3. n + 5 <= x \div 2
      BY <1>2, <3>1, <3>2
    <3>4. x \div 2 \in Nat
      BY <3>2
    <3> QED
      BY <1>2, <1>4, <3>1, <3>2, <3>3, <3>4
  <2>9. Byte(a, strings, frame) = <<strings[i], k>>
    <3>1. covers # {} /\ Min(covers) = i
      BY <2>6, <2>7
    <3>2. (a - StringAt(strings, i)) % Word = k
      BY <2>4 DEF at
    <3>3. covers = {j \in DOMAIN strings : (a - StringAt(strings, j)) % Word < Bytes[strings[j]]}
      BY DEF at
    <3> HIDE DEF covers
    <3> QED
      BY <2>8, <3>1, <3>2, <3>3, Zenon DEF Byte
  <2>10. mem[a] = Byte(a, strings, frame) /\ a % Word = a
    BY <1>5, <1>9, <2>3 DEF Words
  <2> QED
    BY <2>1, <2>9, <2>10
<1>11. strings[i] \in StringIn(at(i))
  BY <1>7, <1>8, <1>10 DEF StringIn
<1> QED
  BY <1>11 DEF strings, at

LEMMA ReadableIfLaid ==
  ASSUME NEW args \in Seq(Names), FitsBelow(args), Laid(args, posn, mem)
  PROVE  /\ WordIn(posn) = {Len(args)}
         /\ \E a \in WordIn(posn + 2) : ReadsAs(a, args)
         /\ \E a \in WordIn(posn + 4) : ReadsAs(a, Envp)
<1> DEFINE strings == args \o Envp
           words == Frame(args, Envp).words
           at(j) == StringAt(strings, j)
           n == Len(args)
           m == Len(Envp)
<1>1. Word \in Nat \ {0} /\ StackTop \in 0 .. Word - 1
  BY ExecAssumption, WordAssumption DEF Words
<1>2. n \in Nat /\ m \in Nat /\ strings \in Seq(Names) /\ Len(strings) = n + m
  BY ExecAssumption
<1>3. /\ \A i \in 1 .. n : strings[i] = args[i]
      /\ \A i \in 1 .. m : strings[n + i] = Envp[i]
  <2>1. Envp \in Seq(Names)
    BY ExecAssumption
  <2>2. \A i \in 1 .. n + m : strings[i] = IF i <= n THEN args[i] ELSE Envp[i - n]
    BY <2>1, ConcatProperties
  <2>3. ASSUME NEW i \in 1 .. n PROVE strings[i] = args[i]
    BY <1>2, <2>2
  <2>4. ASSUME NEW i \in 1 .. m PROVE strings[n + i] = Envp[i]
    <3>1. n + i \in 1 .. n + m /\ ~ n + i <= n /\ (n + i) - n = i
      BY <1>2
    <3> HIDE DEF strings
    <3> QED
      BY <2>2, <3>1
  <2> QED
    BY <2>3, <2>4
<1>4. /\ posn \in Nat /\ posn + 2 * (n + m) + 10 = at(1) /\ Len(words) = n + m + 5
      /\ words[1] = n /\ words[2] = posn + 6 /\ words[3] = posn + 6 + 2 * (n + 1)
      /\ \A i \in 1 .. n : words[i + 3] = at(i)
      /\ words[n + 4] = 0
      /\ \A i \in 1 .. m : words[i + n + 4] = at(n + i)
      /\ words[n + m + 5] = 0
  <2>1. posn = Frame(args, Envp).posn
    BY DEF Laid
  <2> QED
    BY <2>1, FrameIs
<1>5. \A i \in 1 .. n + m : strings[i] \in StringIn(at(i))
  BY <1>2, StringThere
<1>6. \A k \in 1 .. n + m + 5 : words[k] \in Words =>
        \A a : a = posn + 2 * (k - 1) => WordIn(a) = {words[k]}
  BY WordAt
<1>7. \A i \in 1 .. n + m + 1 : at(i) \in 0 .. StackTop - 2
  <2>1. 1 \in 1 .. Len(strings) + 1
    BY <1>2
  <2> HIDE DEF strings
  <2>2. Above(strings, 1) \in Nat
    BY <1>2, <2>1, AboveIs
  <2>3. Above(strings, 1) + 2 * (n + m) + 12 <= StackTop
    BY DEF FitsBelow, strings
  <2>4. Above(strings, 1) + 2 <= StackTop
    BY <1>1, <1>2, <2>2, <2>3
  <2> QED
    BY <1>2, <2>4, StringsAt
<1> HIDE DEF strings, words, at, n, m
<1>8. posn + 2 * (n + m) + 10 <= StackTop
  <2>1. at(1) \in 0 .. StackTop - 2
    BY <1>2, <1>7
  <2> QED
    BY <1>1, <1>4, <2>1
<1>9. /\ n \in Words /\ 0 \in Words
      /\ posn + 6 \in Words /\ posn + 6 + 2 * (n + 1) \in Words
      /\ \A i \in 1 .. n + m : at(i) \in Words
  <2>1. n \in 0 .. Word - 1 /\ 0 \in 0 .. Word - 1 /\ posn + 6 \in 0 .. Word - 1
    BY <1>1, <1>2, <1>4, <1>8
  <2>2. posn + 6 + 2 * (n + 1) \in 0 .. Word - 1
    BY <1>1, <1>2, <1>4, <1>8
  <2>3. \A i \in 1 .. n + m : at(i) \in 0 .. Word - 1
    BY <1>1, <1>2, <1>7
  <2> QED
    BY <2>1, <2>2, <2>3 DEF Words
<1>10. /\ 1 \in 1 .. n + m + 5 /\ 2 \in 1 .. n + m + 5 /\ 3 \in 1 .. n + m + 5
       /\ posn = posn + 2 * (1 - 1) /\ posn + 2 = posn + 2 * (2 - 1)
       /\ posn + 4 = posn + 2 * (3 - 1)
  BY <1>2, <1>4
<1>11. /\ WordIn(posn) = {n} /\ WordIn(posn + 2) = {posn + 6}
       /\ WordIn(posn + 4) = {posn + 6 + 2 * (n + 1)}
  BY <1>4, <1>6, <1>9, <1>10
<1>12. ReadsAs(posn + 6, args)
  <2>1. ASSUME NEW i \in 1 .. n
        PROVE  \E p \in WordIn(posn + 6 + 2 * (i - 1)) : args[i] \in StringIn(p)
    <3>1. i + 3 \in 1 .. n + m + 5 /\ posn + 6 + 2 * (i - 1) = posn + 2 * ((i + 3) - 1)
          /\ i \in 1 .. n + m
      BY <1>2, <1>4
    <3>2. WordIn(posn + 6 + 2 * (i - 1)) = {at(i)}
      BY <1>4, <1>6, <1>9, <3>1
    <3>3. args[i] \in StringIn(at(i))
      BY <1>3, <1>5, <3>1
    <3> QED
      BY <3>2, <3>3
  <2>2. WordIn(posn + 6 + 2 * n) = {0}
    <3>1. n + 4 \in 1 .. n + m + 5 /\ posn + 6 + 2 * n = posn + 2 * ((n + 4) - 1)
      BY <1>2, <1>4
    <3> QED
      BY <1>4, <1>6, <1>9, <3>1
  <2> QED
    BY <2>1, <2>2 DEF ReadsAs, n
<1>13. ReadsAs(posn + 6 + 2 * (n + 1), Envp)
  <2> DEFINE b == posn + 6 + 2 * (n + 1)
  <2>1. ASSUME NEW i \in 1 .. m
        PROVE  \E p \in WordIn(b + 2 * (i - 1)) : Envp[i] \in StringIn(p)
    <3>1. i + n + 4 \in 1 .. n + m + 5 /\ b + 2 * (i - 1) = posn + 2 * ((i + n + 4) - 1)
          /\ n + i \in 1 .. n + m
      BY <1>2, <1>4
    <3>2. WordIn(b + 2 * (i - 1)) = {at(n + i)}
      BY <1>4, <1>6, <1>9, <3>1
    <3>3. Envp[i] \in StringIn(at(n + i))
      BY <1>3, <1>5, <3>1
    <3> QED
      BY <3>2, <3>3
  <2>2. WordIn(b + 2 * m) = {0}
    <3>1. n + m + 5 \in 1 .. n + m + 5 /\ b + 2 * m = posn + 2 * ((n + m + 5) - 1)
      BY <1>2, <1>4
    <3> QED
      BY <1>4, <1>6, <1>9, <3>1
  <2> HIDE DEF b
  <2>3. ReadsAs(b, Envp)
    BY <2>1, <2>2 DEF ReadsAs, m
  <2> QED
    BY <2>3 DEF b
<1>14. /\ WordIn(posn) = {n}
       /\ \E a \in WordIn(posn + 2) : ReadsAs(a, args)
       /\ \E a \in WordIn(posn + 4) : ReadsAs(a, Envp)
  BY <1>11, <1>12, <1>13
<1> QED
  BY <1>14 DEF n

-----------------------------------------------------------------------------
(* The emulator                                                             *)

\* A word of an argument vector: a name, or the NULL behind the last.
Args == Names \cup {NULL}

ExecTypes ==
    /\ pc \in {"getopt", "load", "map", "args", "run", "native", "exited"}
    /\ optind \in Nat \ {0} /\ argc \in Nat
    /\ argv \in Seq(Args) /\ arglist \in [1 .. MaxArgs -> Args]

\* What was found when the executable was looked for is still what optind names.
Loaded ==
    /\ pc \in {"map", "args", "run"} => Arg(optind) \in DOMAIN Images
    /\ pc = "native" => Arg(optind) \in Natives

\* The vector of main() is the one that the last execve built, up to its NULL.
Asked ==
    asked_of.path # NULL =>
      \E call \in Calls :
        /\ asked_of = [path |-> HostName(call.path), argv |-> call.argv]
        /\ Len(argv) = MaxArgs
        /\ argv[2] = HostName(call.path)
        /\ \A i \in 2 .. Len(call.argv) : argv[i + 1] = call.argv[i]
        /\ argv[Len(call.argv) + 2] = NULL

\* The executable and its arguments end before element e.
EndsAt(e) ==
    /\ e \in optind .. Len(argv) /\ Arg(e) = NULL
    /\ \A i \in optind .. e - 1 : Arg(i) # NULL

\* The stack holds the arguments of the program that runs.
Placed ==
    pc = "run" =>
      \E e \in Nat : \E args \in Seq(Names) :
        /\ EndsAt(e)
        /\ Len(args) = e - optind
        /\ \A k \in 1 .. Len(args) : args[k] = argv[optind + k]
        /\ posn = Frame(args, Envp).posn
        /\ mem = [a \in Words |-> Byte(a, args \o Envp, Frame(args, Envp))]

ExecInv == ExecTypes /\ MemInv /\ TableInv /\ Loaded /\ Asked /\ Placed

\* The arguments are found, where there is an executable.
LEMMA ArgvIs ==
  ASSUME ExecTypes, Arg(optind) \in Names
  PROVE  \E e \in Nat :
           /\ EndsAt(e) /\ Argv = SubSeq(argv, optind + 1, e)
           /\ Argv \in Seq(Names) /\ Len(Argv) = e - optind
           /\ \A k \in 1 .. Len(Argv) : Argv[k] = argv[optind + k]
<1> DEFINE ends == {i \in optind .. Len(argv) : Arg(i) = NULL}
           e == Min(ends)
<1>1. optind \in Nat \ {0} /\ argv \in Seq(Args) /\ Len(argv) \in Nat /\ NULL \notin Names
  BY ExecAssumption DEF ExecTypes
<1>2. optind < Len(argv)
  BY <1>1 DEF Arg
<1>3. Len(argv) \in ends
  BY <1>1, <1>2 DEF Arg
<1>4. e \in ends /\ \A y \in ends : e <= y
  <2>1. ends \subseteq Nat /\ ends # {}
    BY <1>1, <1>3
  <2> HIDE DEF ends
  <2> QED
    BY <2>1, FirstOf
<1>5. Argv = SubSeq(argv, optind + 1, e)
  BY DEF Argv
<1> HIDE DEF e
<1>6. EndsAt(e) /\ e \in Nat /\ e \in optind .. Len(argv)
  <2>1. e \in Nat /\ e \in optind .. Len(argv) /\ Arg(e) = NULL
    BY <1>1, <1>4
  <2>2. ASSUME NEW i \in optind .. e - 1 PROVE Arg(i) # NULL
    <3>1. i \in optind .. Len(argv) /\ ~ e <= i
      BY <1>1, <2>1
    <3> QED
      BY <1>4, <3>1
  <2> QED
    BY <2>1, <2>2 DEF EndsAt
<1> HIDE DEF ends
<1>7. \A k \in 1 .. e - optind : argv[optind + k] \in Names
  <2> SUFFICES ASSUME NEW k \in 1 .. e - optind PROVE argv[optind + k] \in Names
    OBVIOUS
  <2>1. (optind + k) - 1 \in optind .. e - 1 /\ ((optind + k) - 1) + 1 = optind + k
        /\ optind + k \in 1 .. Len(argv) /\ (optind + k) - 1 < Len(argv)
    BY <1>1, <1>6
  <2>2. Arg((optind + k) - 1) # NULL
    BY <1>6, <2>1 DEF EndsAt
  <2>3. argv[optind + k] # NULL
    BY <2>1, <2>2 DEF Arg
  <2> QED
    BY <1>1, <2>1, <2>3 DEF Args
<1>8. /\ SubSeq(argv, optind + 1, e) \in Seq(Args)
      /\ Len(SubSeq(argv, optind + 1, e)) = e - optind
      /\ \A k \in 1 .. e - optind : SubSeq(argv, optind + 1, e)[k] = argv[optind + k]
  BY <1>1, <1>6
<1>9. Argv \in Seq(Names) /\ Len(Argv) = e - optind
      /\ \A k \in 1 .. Len(Argv) : Argv[k] = argv[optind + k]
  <2>1. Argv \in Seq(Args) /\ Len(Argv) = e - optind
        /\ \A k \in 1 .. e - optind : Argv[k] = argv[optind + k]
    BY <1>5, <1>8
  <2>2. \A k \in 1 .. Len(Argv) : Argv[k] \in Names
    BY <1>7, <2>1
  <2> HIDE DEF Argv
  <2>3. Argv \in Seq(Names)
    BY <2>1, <2>2
  <2> QED
    BY <2>1, <2>3
<1> QED
  BY <1>5, <1>6, <1>9

\* set_arg_env leaves a word as the stack pointer, whatever the arguments need.
LEMMA FrameWord ==
  ASSUME NEW args \in Seq(Names)
  PROVE  Frame(args, Envp).posn \in Words
<1> DEFINE strings == args \o Envp
<1>1. Word \in Nat \ {0} /\ StackTop \in Int
  BY ExecAssumption, WordAssumption DEF Words
<1>2. \A x \in Int : x % Word \in Words
  BY <1>1 DEF Words
<1>3. strings \in Seq(Names) /\ Len(args) \in Nat /\ Len(Envp) \in Nat /\ 1 \in 1 .. Len(strings) + 1
  BY ExecAssumption
<1> HIDE DEF strings
<1>4. Above(strings, 1) \in Nat
  BY <1>3, AboveIs
<1>5. StringAt(strings, 1) = ((StackTop - 2) - Above(strings, 1)) % Word
  BY DEF StringAt, Above
<1>6. StringAt(strings, 1) \in Int
  <2>1. (StackTop - 2) - Above(strings, 1) \in Int
    BY <1>1, <1>4
  <2> QED
    BY <1>2, <1>5, <2>1 DEF Words
<1> DEFINE table == Table([i \in 1 .. Len(args) |-> StringAt(strings, i)],
                          [i \in 1 .. Len(Envp) |-> StringAt(strings, Len(args) + i)])
           argvposn == (StringAt(strings, 1) - 2 * Len(table)) % Word
<1>7. Len(table) \in Int
  <2>1. table \in Seq({StringAt(strings, i) : i \in Nat} \cup {0})
    <3> DEFINE V == {StringAt(strings, i) : i \in Nat} \cup {0}
               a == [i \in 1 .. Len(args) |-> StringAt(strings, i)]
               b == [i \in 1 .. Len(Envp) |-> StringAt(strings, Len(args) + i)]
    <3>1. a \in Seq(V) /\ b \in Seq(V) /\ <<0>> \in Seq(V)
      <4>1. a \in [1 .. Len(args) -> V] /\ b \in [1 .. Len(Envp) -> V] /\ 0 \in V
        BY <1>3
      <4> HIDE DEF V, a, b
      <4> QED
        BY <1>3, <4>1
    <3> HIDE DEF V, a, b
    <3>2. a \o <<0>> \o b \o <<0>> \in Seq(V)
      BY <3>1
    <3> QED
      BY <3>2 DEF Table, V, a, b
  <2> HIDE DEF table
  <2> QED
    BY <2>1
<1>8. argvposn \in Int
  <2> HIDE DEF table
  <2>1. StringAt(strings, 1) - 2 * Len(table) \in Int
    BY <1>6, <1>7
  <2> QED
    BY <1>2, <2>1 DEF Words
<1>9. Frame(args, Envp).posn = (argvposn - 6) % Word
  BY DEF Frame, strings
<1> HIDE DEF argvposn
<1> QED
  BY <1>2, <1>8, <1>9

LEMMA MemStays ==
  ASSUME MemInv, UNCHANGED memVars
  PROVE  MemInv'
BY MemStepOK

LEMMA TableStays ==
  ASSUME TableInv, UNCHANGED vars
  PROVE  TableInv'
BY DEF TableInv, vars

LEMMA ArgStays ==
  ASSUME UNCHANGED <<argv, optind>>, NEW i
  PROVE  Arg(i)' = Arg(i)
BY DEF Arg

LEMMA AskedStays ==
  ASSUME Asked, UNCHANGED <<argv, asked_of>>
  PROVE  Asked'
BY DEF Asked

LEMMA PlacedStays ==
  ASSUME Placed, pc = "run", UNCHANGED <<argv, optind, mem, posn>>
  PROVE  Placed'
<1>1. PICK e \in Nat, args \in Seq(Names) :
        /\ EndsAt(e)
        /\ Len(args) = e - optind
        /\ \A k \in 1 .. Len(args) : args[k] = argv[optind + k]
        /\ posn = Frame(args, Envp).posn
        /\ mem = [a \in Words |-> Byte(a, args \o Envp, Frame(args, Envp))]
  BY DEF Placed
<1>2. EndsAt(e)'
  BY <1>1 DEF EndsAt, Arg
<1> QED
  BY <1>1, <1>2 DEF Placed

LEMMA ExecInitOK == ExecInit => ExecInv
<1> SUFFICES ASSUME ExecInit PROVE ExecInv
  OBVIOUS
<1>1. /\ pc = "getopt" /\ optind = 1 /\ argv \in CommandLines /\ argc = Len(argv)
      /\ arglist = [i \in 1 .. MaxArgs |-> NULL] /\ asked_of.path = NULL
  BY DEF ExecInit
<1>2. ExecTypes
  <2>1. argv \in Seq(Names)
    BY <1>1, ExecAssumption
  <2>2. argv \in Seq(Args) /\ Len(argv) \in Nat
    BY <2>1 DEF Args
  <2> QED
    BY <1>1, <2>2 DEF ExecTypes, Args
<1>3. MemInv
  BY WordAssumption DEF ExecInit, MemInv, MemTypeOK, BreakAboveBss, Words
<1>4. TableInv
  BY DEF ExecInit, Init, TableInv
<1>5. Loaded /\ Asked /\ Placed
  BY <1>1 DEF Loaded, Asked, Placed
<1> QED
  BY <1>2, <1>3, <1>4, <1>5 DEF ExecInv

LEMMA ReadTable ==
  ASSUME TableInv, NEW map, map = <<>> \/ map[1] \in MapFiles, Read(map)
  PROVE  TableInv'
<1>1. CASE map = <<>>
  BY <1>1, FailureKeepsTable DEF Read
<1>2. CASE map # <<>>
  BY <1>2, ReadKeepsTable DEF Read
<1> QED
  BY <1>1, <1>2

LEMMA GetoptOK ==
  ASSUME ExecInv, getopt
  PROVE  ExecInv'
<1>1. /\ pc = "getopt" /\ pc' \in {"getopt", "load"}
      /\ optind' = optind \/ optind' = optind + 1
      /\ UNCHANGED <<memVars, argc, argv, arglist, asked_of>>
  BY DEF getopt
<1>2. TableInv'
  <2>1. CASE optind < argc /\ Arg(optind) \in DOMAIN Options
    <3>1. PICK map : map = Options[Arg(optind)]
      OBVIOUS
    <3>2. map = <<>> \/ map[1] \in MapFiles
      BY <2>1, <3>1, ExecAssumption
    <3>3. Read(map)
      BY <2>1, <3>1 DEF getopt
    <3> QED
      BY <3>2, <3>3, ReadTable DEF ExecInv
  <2>2. CASE ~ (optind < argc /\ Arg(optind) \in DOMAIN Options)
    BY <2>2, TableStays DEF getopt, ExecInv
  <2> QED
    BY <2>1, <2>2
<1>3. ExecTypes'
  BY <1>1 DEF ExecInv, ExecTypes
<1>4. MemInv' /\ Asked'
  BY <1>1, MemStays, AskedStays DEF ExecInv
<1>5. Loaded' /\ Placed'
  BY <1>1 DEF Loaded, Placed
<1> QED
  BY <1>2, <1>3, <1>4, <1>5 DEF ExecInv

LEMMA LoadOK ==
  ASSUME ExecInv, load_executable
  PROVE  ExecInv'
<1>1. /\ pc' \in {"map", "native", "exited"}
      /\ pc' = "map" => Arg(optind) \in DOMAIN Images
      /\ pc' = "native" => Arg(optind) \in Natives
      /\ UNCHANGED <<memVars, vars, optind, argc, argv, arglist, asked_of>>
  BY DEF load_executable
<1>2. TableInv' /\ MemInv' /\ Asked'
  BY <1>1, TableStays, MemStays, AskedStays DEF ExecInv
<1>3. ExecTypes' /\ Loaded' /\ Placed'
  BY <1>1 DEF ExecInv, ExecTypes, Loaded, Placed, Arg
<1> QED
  BY <1>2, <1>3 DEF ExecInv

LEMMA ReadOwnMapOK ==
  ASSUME ExecInv, readOwnMap
  PROVE  ExecInv'
<1>1. /\ pc = "map" /\ pc' = "args"
      /\ UNCHANGED <<memVars, optind, argc, argv, arglist, asked_of>>
  BY DEF readOwnMap
<1>2. TableInv'
  <2>1. PICK map : map = Images[Arg(optind)].map
    OBVIOUS
  <2>2. map = <<>> \/ map[1] \in MapFiles
    BY <1>1, <2>1, ExecAssumption DEF ExecInv, Loaded
  <2>3. CASE Read(map)
    BY <2>2, <2>3, ReadTable DEF ExecInv
  <2>4. CASE UNCHANGED vars
    BY <2>4, TableStays DEF ExecInv
  <2> QED
    BY <2>1, <2>3, <2>4 DEF readOwnMap
<1>3. MemInv' /\ Asked'
  BY <1>1, MemStays, AskedStays DEF ExecInv
<1>4. ExecTypes' /\ Loaded' /\ Placed'
  BY <1>1 DEF ExecInv, ExecTypes, Loaded, Placed, Arg
<1> QED
  BY <1>2, <1>3, <1>4 DEF ExecInv

LEMMA StartProgramOK ==
  ASSUME ExecInv, startProgram
  PROVE  ExecInv'
<1>1. /\ pc = "args" /\ pc' = "run" /\ Arg(optind) \in DOMAIN Images
      /\ UNCHANGED <<vars, optind, argc, argv, arglist, asked_of>>
  BY DEF startProgram, ExecInv, Loaded
<1>2. PICK e \in Nat, args \in Seq(Names) :
        /\ args = Argv /\ EndsAt(e) /\ Len(args) = e - optind
        /\ \A k \in 1 .. Len(args) : args[k] = argv[optind + k]
  <2>1. Arg(optind) \in Names
    BY <1>1, ExecAssumption
  <2>2. \E e \in Nat :
          /\ EndsAt(e) /\ Argv \in Seq(Names) /\ Len(Argv) = e - optind
          /\ \A k \in 1 .. Len(Argv) : Argv[k] = argv[optind + k]
    BY <2>1, ArgvIs DEF ExecInv
  <2> QED
    BY <2>2
<1>3. PICK bss \in Words : bss = Images[Arg(optind)].bssend
  BY <1>1, ExecAssumption
<1>4. /\ Load(bss, Frame(args, Envp).posn)
      /\ mem' = [a \in Words |-> Byte(a, args \o Envp, Frame(args, Envp))]
      /\ posn' = Frame(args, Envp).posn
  BY <1>2, <1>3 DEF startProgram
<1>5. MemInv'
  BY <1>4, FrameWord, WordAssumption
  DEF Load, MemInv, MemTypeOK, BreakAboveBss, Words
<1>6. EndsAt(e)'
  BY <1>1, <1>2 DEF EndsAt, Arg
<1>7. Placed'
  BY <1>1, <1>2, <1>4, <1>6 DEF Placed
<1>8. TableInv' /\ Asked'
  BY <1>1, TableStays, AskedStays DEF ExecInv
<1>9. ExecTypes' /\ Loaded'
  BY <1>1 DEF ExecInv, ExecTypes, Loaded, Arg
<1> QED
  BY <1>5, <1>7, <1>8, <1>9 DEF ExecInv

LEMMA HostIsName ==
  ASSUME NEW s \in Names
  PROVE  HostName(s) \in Names /\ HostName(s) # NULL
BY ExecAssumption DEF HostName

\* The vector that execve builds for main().
LEMMA VectorIs ==
  ASSUME ExecTypes, NEW call \in Calls
  PROVE  /\ Vector(call) \in [1 .. MaxArgs -> Args]
         /\ Vector(call)[2] = HostName(call.path)
         /\ \A i \in 2 .. Len(call.argv) : Vector(call)[i + 1] = call.argv[i]
         /\ Vector(call)[Len(call.argv) + 2] = NULL
<1> DEFINE head == <<Emuname, HostName(call.path)>>
           rest == Tail(call.argv)
           body == head \o rest
           new == body \o <<NULL>>
           n == Len(call.argv)
<1>1. /\ call.path \in Names /\ call.argv \in Seq(Names) /\ call.argv # <<>>
      /\ n \in Nat \ {0} /\ n + 2 <= MaxArgs /\ MaxArgs \in Nat
  <2>1. call \in [path : Names, argv : Seq(Names) \ {<<>>}]
    BY ExecAssumption
  <2> QED
    BY <2>1, ExecAssumption
<1>2. arglist \in [1 .. MaxArgs -> Args] /\ Len(arglist) = MaxArgs
  BY <1>1 DEF ExecTypes
<1>3. /\ head \in Seq(Args) /\ Len(head) = 2 /\ head[2] = HostName(call.path)
  BY <1>1, HostIsName, ExecAssumption DEF Args
<1>4. /\ rest \in Seq(Args) /\ Len(rest) = n - 1
      /\ \A i \in 1 .. n - 1 : rest[i] = call.argv[i + 1]
  <2>1. call.argv \in Seq(Args)
    BY <1>1 DEF Args
  <2> QED
    BY <1>1, <2>1
<1> HIDE DEF head, rest, n
<1>5. /\ body \in Seq(Args) /\ Len(body) = n + 1 /\ body[2] = HostName(call.path)
      /\ \A i \in 2 .. n : body[i + 1] = call.argv[i]
  <2>1. /\ body \in Seq(Args) /\ Len(body) = Len(head) + Len(rest)
        /\ \A i \in 1 .. Len(head) + Len(rest) :
             body[i] = IF i <= Len(head) THEN head[i] ELSE rest[i - Len(head)]
    BY <1>3, <1>4, ConcatProperties
  <2> HIDE DEF body
  <2>2. /\ body \in Seq(Args) /\ Len(body) = n + 1
        /\ \A i \in 1 .. n + 1 : body[i] = IF i <= 2 THEN head[i] ELSE rest[i - 2]
    BY <1>1, <1>3, <1>4, <2>1
  <2>3. ASSUME NEW i \in 2 .. n PROVE body[i + 1] = call.argv[i]
    <3>1. i + 1 \in 1 .. n + 1 /\ ~ i + 1 <= 2 /\ (i + 1) - 2 = i - 1 /\ i - 1 \in 1 .. n - 1
          /\ (i - 1) + 1 = i
      BY <1>1
    <3> QED
      BY <1>4, <2>2, <3>1
  <2>4. 2 \in 1 .. n + 1
    BY <1>1
  <2> QED
    BY <1>3, <2>2, <2>3, <2>4
<1> HIDE DEF body
<1>6. /\ new \in Seq(Args) /\ Len(new) = n + 2 /\ new[n + 2] = NULL
      /\ \A i \in 1 .. n + 1 : new[i] = body[i]
  <2>1. NULL \in Args /\ n \in Nat
    BY <1>1 DEF Args
  <2> QED
    BY <1>5, <2>1
<1>7. Vector(call) = [i \in 1 .. MaxArgs |-> IF i <= Len(new) THEN new[i] ELSE arglist[i]]
  BY <1>2 DEF Vector, body, head, rest
<1> HIDE DEF new
<1>8. \A i \in 1 .. MaxArgs : Vector(call)[i] \in Args
  BY <1>1, <1>2, <1>6, <1>7
<1>9. \A i \in 1 .. n + 2 : Vector(call)[i] = new[i]
  BY <1>1, <1>6, <1>7
<1>10. Vector(call) \in [1 .. MaxArgs -> Args]
  BY <1>7, <1>8
<1>11. Vector(call)[2] = HostName(call.path)
  BY <1>1, <1>5, <1>6, <1>9
<1>12. ASSUME NEW i \in 2 .. n PROVE Vector(call)[i + 1] = call.argv[i]
  <2>1. i + 1 \in 1 .. n + 1 /\ i + 1 \in 1 .. n + 2
    BY <1>1
  <2> QED
    BY <1>5, <1>6, <1>9, <2>1
<1>13. Vector(call)[n + 2] = NULL
  BY <1>1, <1>6, <1>9
<1> QED
  BY <1>10, <1>11, <1>12, <1>13 DEF n

LEMMA ExecveOK ==
  ASSUME ExecInv, pc = "run", NEW call \in Calls, execve(call)
  PROVE  ExecInv'
<1>1. UNCHANGED <<initbrk, curbrk, sp, vars, optind, mem, posn>>
  BY DEF execve
<1>2. TableInv'
  BY <1>1, TableStays DEF ExecInv
<1>3. call.path \in Names /\ call.argv \in Seq(Names) /\ Len(call.argv) \in Nat /\ MaxArgs \in Nat
  <2>1. call \in [path : Names, argv : Seq(Names) \ {<<>>}]
    BY ExecAssumption
  <2> QED
    BY <2>1, ExecAssumption
<1>4. CASE Exists(HostName(call.path))
  <2>1. /\ arglist' = Vector(call) /\ argv' = arglist' /\ argc' = Len(call.argv) + 1
        /\ asked_of' = [path |-> HostName(call.path), argv |-> call.argv]
        /\ pc' = "getopt" /\ UNCHANGED result
    BY <1>4 DEF execve
  <2>2. MemInv'
    BY <1>1, <2>1, MemStays DEF memVars, ExecInv
  <2>3. arglist' \in [1 .. MaxArgs -> Args]
    BY <2>1, VectorIs DEF ExecInv
  <2>4. argv' \in Seq(Args) /\ Len(argv') = MaxArgs
    BY <1>3, <2>1, <2>3
  <2>5. ExecTypes'
    BY <1>1, <1>3, <2>1, <2>3, <2>4 DEF ExecInv, ExecTypes
  <2>6. Asked'
    BY <2>1, <2>4, VectorIs DEF Asked, ExecInv
  <2>7. Loaded' /\ Placed'
    BY <2>1 DEF Loaded, Placed
  <2> QED
    BY <1>2, <2>2, <2>5, <2>6, <2>7 DEF ExecInv
<1>5. CASE ~ Exists(HostName(call.path))
  <2>1. /\ arglist' = [arglist EXCEPT ![1] = Emuname, ![2] = HostName(call.path)]
        /\ result' = Failed
        /\ UNCHANGED <<argv, argc, asked_of, pc>>
    BY <1>5 DEF execve
  <2>2. MemInv'
    BY <1>1, <2>1, WordAssumption DEF ExecInv, MemInv, MemTypeOK, BreakAboveBss, Words, Failed
  <2>3. arglist' \in [1 .. MaxArgs -> Args]
    <3>1. Emuname \in Args /\ HostName(call.path) \in Args
      BY <1>3, HostIsName, ExecAssumption DEF Args
    <3> QED
      BY <2>1, <3>1 DEF ExecInv, ExecTypes
  <2>4. ExecTypes' /\ Loaded'
    BY <1>1, <2>1, <2>3 DEF ExecInv, ExecTypes, Loaded, Arg
  <2>5. Asked' /\ Placed'
    BY <1>1, <2>1, AskedStays, PlacedStays DEF ExecInv
  <2> QED
    BY <1>2, <2>2, <2>4, <2>5 DEF ExecInv
<1> QED
  BY <1>4, <1>5

LEMMA ProgramOK ==
  ASSUME ExecInv, program
  PROVE  ExecInv'
<1>1. pc = "run"
  BY DEF program
<1>2. ASSUME [MemNext]_memVars, UNCHANGED <<vars, execOnly>> PROVE ExecInv'
  <2>1. MemInv'
    BY <1>2, MemStepOK DEF ExecInv
  <2>2. UNCHANGED <<pc, optind, argc, argv, arglist, mem, posn, asked_of>>
    BY <1>2 DEF execOnly
  <2>3. TableInv' /\ Asked' /\ Placed'
    BY <1>1, <1>2, <2>2, TableStays, AskedStays, PlacedStays DEF ExecInv
  <2>4. ExecTypes' /\ Loaded'
    BY <2>2 DEF ExecInv, ExecTypes, Loaded, Arg
  <2> QED
    BY <2>1, <2>3, <2>4 DEF ExecInv
<1>3. ASSUME NEW w \in Requests, Brk(w) \/ Sbrk(w), UNCHANGED <<vars, execOnly>>
      PROVE  ExecInv'
  BY <1>2, <1>3 DEF MemNext
<1>4. ASSUME NEW s \in StackPointers, MoveStack(s), UNCHANGED <<vars, execOnly>>
      PROVE  ExecInv'
  BY <1>2, <1>4 DEF MemNext
<1>5. ASSUME NEW a \in Addresses, get_symbol_and_offset(a), UNCHANGED <<memVars, execOnly>>
      PROVE  ExecInv'
  <2>1. UNCHANGED <<pc, optind, argc, argv, arglist, mem, posn, asked_of>>
    BY <1>5 DEF execOnly
  <2>2. TableInv' /\ MemInv' /\ Asked' /\ Placed'
    BY <1>1, <1>5, <2>1, AskKeepsTable, MemStays, AskedStays, PlacedStays DEF ExecInv
  <2>3. ExecTypes' /\ Loaded'
    BY <2>1 DEF ExecInv, ExecTypes, Loaded, Arg
  <2> QED
    BY <2>2, <2>3 DEF ExecInv
<1> QED
  BY <1>1, <1>3, <1>4, <1>5, ExecveOK DEF program

LEMMA ExecStepOK == ExecInv /\ [ExecNext]_execVars => ExecInv'
<1> SUFFICES ASSUME ExecInv, [ExecNext]_execVars PROVE ExecInv'
  OBVIOUS
<1>1. CASE UNCHANGED execVars
  <2>1. UNCHANGED <<memVars, vars, pc, optind, argc, argv, arglist, mem, posn, asked_of>>
    BY <1>1 DEF execVars, execOnly
  <2>2. TableInv' /\ MemInv' /\ Asked'
    BY <2>1, TableStays, MemStays, AskedStays DEF ExecInv
  <2>3. Placed'
    <3>1. CASE pc = "run"
      BY <2>1, <3>1, PlacedStays DEF ExecInv
    <3>2. CASE pc # "run"
      BY <2>1, <3>2 DEF Placed
    <3> QED
      BY <3>1, <3>2
  <2>4. ExecTypes' /\ Loaded'
    BY <2>1 DEF ExecInv, ExecTypes, Loaded, Arg
  <2> QED
    BY <2>2, <2>3, <2>4 DEF ExecInv
<1> QED
  BY <1>1, GetoptOK, LoadOK, ReadOwnMapOK, StartProgramOK, ProgramOK DEF ExecNext

\* Every reachable state of an emulator has the types, the limits of the data
\* segment, a table of symbols in order, and the arguments where they belong.
THEOREM EmulatorInvariant == ExecSpec => []ExecInv
BY ExecInitOK, ExecStepOK, PTL DEF ExecSpec

\* The break stays above the BSS through loading, execve and every brk and sbrk
\* of the emulated program (set_initial_brk, do_syscall).
THEOREM ProgramBreakAboveBss == ExecSpec => []BreakAboveBss
<1>1. ExecInv => BreakAboveBss
  BY DEF ExecInv, MemInv
<1> QED
  BY <1>1, EmulatorInvariant, PTL

\* get_symbol_and_offset gives the symbol whose address is nearest, whatever map
\* files were read and wherever the cached index points.
THEOREM TracerIsToldTheNearest == ExecSpec => AnswerIsNearest
<1> DEFINE IsNearest ==
      \A a \in 0 .. Top - 1 :
        get_symbol_and_offset(a) =>
          \/ Nearest(a) < 0 /\ answer' = Nothing
          \/ \E e \in Entries : /\ e.addr = Nearest(a)
                               /\ answer' = [sym |-> e.sym, offset |-> a - e.addr]
<1>1. ExecInv => [IsNearest]_vars
  BY AnswersRight DEF ExecInv
<1> QED
  BY <1>1, EmulatorInvariant, PTL DEF AnswerIsNearest

\* The end address of a symbol is the last that is answered with its address
\* (get_sym_end_address against get_symbol_and_offset).
THEOREM RoutinesEndAtTheNext == ExecSpec => []EndIsNextSymbol
<1>1. ExecInv => EndIsNextSymbol
  BY EndsRight DEF ExecInv
<1> QED
  BY <1>1, EmulatorInvariant, PTL

\* The arguments that a program sees are determined by the vector of main().
LEMMA PlacedIsLaid ==
  ASSUME ExecInv, pc = "run"
  PROVE  \E args \in Seq(Names) : args = Argv /\ Laid(args, posn, mem)
<1>1. PICK e \in Nat, args \in Seq(Names) :
        /\ EndsAt(e)
        /\ Len(args) = e - optind
        /\ \A k \in 1 .. Len(args) : args[k] = argv[optind + k]
        /\ posn = Frame(args, Envp).posn
        /\ mem = [a \in Words |-> Byte(a, args \o Envp, Frame(args, Envp))]
  BY DEF ExecInv, Placed
<1>2. Arg(optind) \in Names
  BY ExecAssumption DEF ExecInv, Loaded
<1>3. PICK f \in Nat :
        /\ EndsAt(f) /\ Argv \in Seq(Names) /\ Len(Argv) = f - optind
        /\ \A k \in 1 .. Len(Argv) : Argv[k] = argv[optind + k]
  BY <1>2, ArgvIs DEF ExecInv
<1>4. e = f
  <2>1. /\ e \in optind .. Len(argv) /\ Arg(e) = NULL /\ \A i \in optind .. e - 1 : Arg(i) # NULL
        /\ f \in optind .. Len(argv) /\ Arg(f) = NULL /\ \A i \in optind .. f - 1 : Arg(i) # NULL
    BY <1>1, <1>3 DEF EndsAt
  <2>2. ~ e < f /\ ~ f < e /\ optind \in Nat
    BY <2>1 DEF ExecInv, ExecTypes
  <2> QED
    BY <2>2
<1>5. args = Argv
  <2>1. Len(args) = Len(Argv) /\ \A k \in 1 .. Len(args) : args[k] = Argv[k]
    BY <1>1, <1>3, <1>4
  <2> HIDE DEF Argv
  <2>2. PICK v \in Seq(Names) : v = Argv
    BY <1>3
  <2> QED
    BY <2>1, <2>2, SeqEqual
<1> QED
  BY <1>1, <1>5 DEF Laid

\* The program finds its arguments and environment whole and in order on its
\* stack (set_arg_env), if they fit: for every number and length of strings.
THEOREM ArgumentsReachTheProgram == ExecSpec => []ArgsReadable
<1>1. ExecInv => ArgsReadable
  <2> SUFFICES ASSUME ExecInv, pc = "run",
                      Sum([i \in DOMAIN (Argv \o Envp) |-> Bytes[(Argv \o Envp)[i]]])
                        + 2 * (Len(Argv) + Len(Envp)) + 12 <= StackTop
               PROVE  /\ WordIn(posn) = {Len(Argv)}
                      /\ \E a \in WordIn(posn + 2) : ReadsAs(a, Argv)
                      /\ \E e \in WordIn(posn + 4) : ReadsAs(e, Envp)
    BY DEF ArgsReadable
  <2>1. PICK args \in Seq(Names) : args = Argv /\ Laid(args, posn, mem)
    BY PlacedIsLaid
  <2>2. FitsBelow(args)
    <3> DEFINE S == args \o Envp
    <3>1. S \in Seq(Names) /\ Len(S) \in Nat /\ DOMAIN S = 1 .. Len(S)
      BY ExecAssumption
    <3>2. Above(S, 1) = Sum([i \in DOMAIN S |-> Bytes[S[i]]])
      <4> HIDE DEF S
      <4>1. [k \in 1 .. (Len(S) - 1) + 1 |-> Room(S[(1 + k) - 1])] = [i \in DOMAIN S |-> Bytes[S[i]]]
        <5>1. (Len(S) - 1) + 1 = Len(S) /\ \A k \in 1 .. Len(S) : (1 + k) - 1 = k
          BY <3>1
        <5> QED
          BY <3>1, <5>1 DEF Room
      <4> QED
        BY <4>1 DEF Above
    <3> QED
      BY <2>1, <3>2 DEF FitsBelow
  <2> QED
    BY <2>1, <2>2, ReadableIfLaid
<1> QED
  BY <1>1, EmulatorInvariant, PTL

\* execve runs what it was asked for, with the caller's arguments, while the
\* emulator was started without options (execve, main).
THEOREM ExecveRunsWhatWasAsked == ExecSpec => []RunsWhatWasAsked
<1>1. ExecInv => RunsWhatWasAsked
  <2> SUFFICES ASSUME ExecInv, pc \in {"run", "native"}, asked_of.path # NULL, optind = 1
               PROVE  /\ Argv = <<asked_of.path>> \o Tail(asked_of.argv)
                      /\ pc = "native" <=> asked_of.path \in Natives
    BY DEF RunsWhatWasAsked, Plain
  <2>1. PICK call \in Calls :
          /\ asked_of = [path |-> HostName(call.path), argv |-> call.argv]
          /\ Len(argv) = MaxArgs
          /\ argv[2] = HostName(call.path)
          /\ \A i \in 2 .. Len(call.argv) : argv[i + 1] = call.argv[i]
          /\ argv[Len(call.argv) + 2] = NULL
    BY DEF ExecInv, Asked
  <2>2. PICK n \in Nat \ {0} :
          /\ n = Len(call.argv) /\ call.argv \in Seq(Names) /\ call.path \in Names
          /\ n + 2 <= MaxArgs /\ MaxArgs \in Nat
    <3>1. call \in [path : Names, argv : Seq(Names) \ {<<>>}]
      BY ExecAssumption
    <3> QED
      BY <3>1, ExecAssumption
  <2>3. Arg(1) = asked_of.path /\ Arg(1) \in Names /\ asked_of.path = HostName(call.path)
    BY <2>1, <2>2, HostIsName DEF Arg
  <2>4. PICK e \in Nat :
          /\ EndsAt(e) /\ Argv \in Seq(Names) /\ Len(Argv) = e - 1
          /\ \A k \in 1 .. Len(Argv) : Argv[k] = argv[1 + k]
    BY <2>3, ArgvIs DEF ExecInv
  <2>5. e = n + 1
    <3>1. Arg(n + 1) = NULL
      <4>1. n + 2 = (n + 1) + 1
        BY <2>2
      <4> QED
        BY <2>1, <2>2, <4>1 DEF Arg
    <3>2. ASSUME NEW i \in 1 .. n PROVE Arg(i) # NULL
      <4>1. CASE i = 1
        BY <2>3, <4>1, ExecAssumption
      <4>2. CASE i \in 2 .. n
        <5>1. Arg(i) = call.argv[i]
          BY <2>1, <2>2, <4>2 DEF Arg
        <5>2. call.argv[i] \in Names
          BY <2>2, <4>2
        <5> QED
          BY <5>1, <5>2, ExecAssumption
      <4> QED
        BY <4>1, <4>2
    <3>3. e \in Nat /\ 1 <= e /\ Arg(e) = NULL /\ \A i \in 1 .. e - 1 : Arg(i) # NULL
      BY <2>4 DEF EndsAt
    <3>4. ~ e <= n /\ ~ n + 1 < e
      BY <3>1, <3>2, <3>3
    <3> QED
      BY <3>3, <3>4
  <2>6. Argv = <<asked_of.path>> \o Tail(asked_of.argv)
    <3>1. PICK v \in Seq(Names) : v = Argv
      BY <2>4
    <3>2. Len(v) = n /\ \A k \in 1 .. n : v[k] = argv[1 + k]
      BY <2>4, <2>5, <3>1
    <3> DEFINE path == <<asked_of.path>>
               rest == Tail(call.argv)
    <3>3. /\ rest \in Seq(Names) /\ Len(rest) = n - 1
          /\ \A i \in 1 .. n - 1 : rest[i] = call.argv[i + 1]
      BY <2>2
    <3>4. path \in Seq(Names) /\ Len(path) = 1 /\ path[1] = argv[2]
      BY <2>1, <2>3
    <3> HIDE DEF path, rest
    <3>5. /\ path \o rest \in Seq(Names) /\ Len(path \o rest) = Len(path) + Len(rest)
          /\ \A i \in 1 .. Len(path) + Len(rest) :
               (path \o rest)[i] = IF i <= Len(path) THEN path[i] ELSE rest[i - Len(path)]
      BY <3>3, <3>4, ConcatProperties
    <3>6. /\ Len(path \o rest) = n
          /\ \A i \in 1 .. n : (path \o rest)[i] = IF i <= 1 THEN path[i] ELSE rest[i - 1]
      BY <2>2, <3>3, <3>4, <3>5
    <3>7. ASSUME NEW k \in 1 .. n PROVE v[k] = (path \o rest)[k]
      <4>1. CASE k = 1
        BY <3>2, <3>4, <3>6, <4>1
      <4>2. CASE k \in 2 .. n
        <5>1. k - 1 \in 1 .. n - 1 /\ (k - 1) + 1 = k /\ ~ k <= 1 /\ 1 + k = k + 1
          BY <2>2, <4>2
        <5>2. (path \o rest)[k] = call.argv[k]
          BY <3>3, <3>6, <3>7, <5>1
        <5>3. v[k] = call.argv[k]
          BY <2>1, <2>2, <3>2, <4>2, <5>1
        <5> QED
          BY <5>2, <5>3
      <4>3. k = 1 \/ k \in 2 .. n
        BY <2>2
      <4> QED
        BY <4>1, <4>2, <4>3, Zenon
    <3>8. v = path \o rest
      BY <3>2, <3>5, <3>6, <3>7, SeqEqual
    <3> QED
      BY <2>1, <3>1, <3>8 DEF path, rest
  <2>7. pc = "native" <=> asked_of.path \in Natives
    BY <2>3, ExecAssumption DEF ExecInv, Loaded
  <2> QED
    BY <2>6, <2>7
<1> QED
  BY <1>1, EmulatorInvariant, PTL

-----------------------------------------------------------------------------
(* The monitor                                                              *)

MonitorCall == [curpc : Nat, left : Nat, insstep : BOOLEAN]

MonitorTypes ==
    /\ reg_pc \in AddressSpace /\ waiting \in BOOLEAN /\ write_brkpt \in BOOLEAN
    /\ ignored_addr \in Nat \cup {None}
    /\ calls \in Seq(MonitorCall)

\* Only main() calls monitor() from outside the CPU loop, so that such a call
\* is the outermost; and each call but the innermost is executing a step command.
Nested(cs) ==
    /\ \A i \in 2 .. Len(cs) : cs[i].insstep
    /\ \A i \in 1 .. Len(cs) - 1 : cs[i].left > 0

\* A CPU that runs has no address ignored between two instructions.
NothingIgnored == ~ waiting => ignored_addr = None

MonitorInv == MonitorTypes /\ Nested(calls) /\ NothingIgnored /\ FollowingInstruction

-----------------------------------------------------------------------------

\* The call that ends is the last, and those below it stay.
LEMMA FrontIs ==
  ASSUME NEW S, NEW s \in Seq(S), s # <<>>
  PROVE  /\ Front(s) \in Seq(S) /\ Len(Front(s)) = Len(s) - 1
         /\ \A i \in 1 .. Len(s) - 1 : Front(s)[i] = s[i]
         /\ Len(s) \in Nat \ {0} /\ Last(s) = s[Len(s)] /\ Last(s) \in S
<1>1. Len(s) \in Nat \ {0} /\ s = [i \in 1 .. Len(s) |-> s[i]]
      /\ \A i \in 1 .. Len(s) : s[i] \in S
  BY EmptySeq, LenProperties
<1>2. /\ SubSeq(s, 1, Len(s) - 1) \in Seq(S) /\ Len(SubSeq(s, 1, Len(s) - 1)) = Len(s) - 1
      /\ \A i \in 1 .. Len(s) - 1 : SubSeq(s, 1, Len(s) - 1)[i] = s[i]
  BY <1>1, SubSeqProperties
<1> QED
  BY <1>1, <1>2 DEF Front, Last

\* & 0xffff gives an address.
LEMMA CutIs == \A a \in Nat : Cut(a) \in AddressSpace
BY MonitorAssumption DEF Cut, AddressSpace

\* What the monitor learns of an instruction that was stepped.
LEMMA SteppedIs ==
  ASSUME NEW cs \in Seq(MonitorCall), NEW a \in Nat,
         cs # <<>> => Last(cs).left > 0,
         Nested(cs)
  PROVE  /\ Stepped(cs, a) \in Seq(MonitorCall)
         /\ Nested(Stepped(cs, a))
         /\ Stepped(cs, a) # <<>> => Last(Stepped(cs, a)).curpc = a
<1>1. CASE cs = <<>>
  BY <1>1 DEF Stepped, Nested
<1>2. CASE cs # <<>>
  <2> DEFINE last == cs[Len(cs)]
             new == [last EXCEPT !.curpc = a, !.left = @ - 1]
  <2>1. Len(cs) \in Nat \ {0} /\ last \in MonitorCall /\ last.left > 0
    BY <1>2, FrontIs
  <2>2. new \in MonitorCall /\ new.curpc = a /\ new.insstep = last.insstep
    <3> HIDE DEF last
    <3>1. last.left - 1 \in Nat
      BY <2>1 DEF MonitorCall
    <3> QED
      BY <2>1, <3>1 DEF MonitorCall
  <2>3. Stepped(cs, a) = [cs EXCEPT ![Len(cs)] = new]
    BY <1>2 DEF Stepped
  <2> HIDE DEF new
  <2>4. /\ Stepped(cs, a) \in Seq(MonitorCall) /\ Len(Stepped(cs, a)) = Len(cs)
        /\ \A i \in 1 .. Len(cs) :
             Stepped(cs, a)[i] = IF i = Len(cs) THEN new ELSE cs[i]
    BY <2>1, <2>2, <2>3
  <2>5. Last(Stepped(cs, a)) = new
    BY <2>1, <2>4 DEF Last
  <2> QED
    BY <2>1, <2>2, <2>4, <2>5 DEF Nested
<1> QED
  BY <1>1, <1>2

-----------------------------------------------------------------------------
(* One instruction                                                          *)

\* The outcome of an instruction, and that a CPU that waits goes on waiting.
LEMMA InstructionIs ==
  ASSUME MonitorTypes, NEW a \in AddressSpace, NEW ign \in Nat \cup {None},
         NEW wb \in BOOLEAN, NEW o \in Instruction(a, ign, wb)
  PROVE  /\ o.pc \in AddressSpace /\ o.waiting \in BOOLEAN /\ o.wb \in BOOLEAN
         /\ o.ign \in Nat \cup {None} /\ o.ret \in Nat
         /\ ~ o.waiting => ~ waiting /\ o.ret = o.pc
         /\ ign = None => o.ign = None
<1> DEFINE Gone(e) == [pc |-> e.pc, waiting |-> e.waiting,
                       ign |-> IF ign \in e.written THEN IgnoredAfter(ign, ign) ELSE ign,
                       wb |-> wb \/ \E b \in e.written : is_breakpoint(b, "write", ign),
                       ret |-> e.pc]
           Idle == [pc |-> a, waiting |-> TRUE, ign |-> ign, wb |-> wb, ret |-> 1]
<1>1. \/ waiting /\ o = Idle
      \/ ~ waiting /\ \E e \in Effects(a) : o = Gone(e)
  BY DEF Instruction
<1>2. CASE waiting /\ o = Idle
  BY <1>2
<1>3. ASSUME ~ waiting, NEW e \in Effects(a), o = Gone(e)
      PROVE  /\ o.pc \in AddressSpace /\ o.waiting \in BOOLEAN /\ o.wb \in BOOLEAN
             /\ o.ign \in Nat \cup {None} /\ o.ret \in Nat
             /\ ~ o.waiting => ~ waiting /\ o.ret = o.pc
             /\ ign = None => o.ign = None
  <2>1. Cut(a + 1) \in AddressSpace /\ Cut(a + 2) \in AddressSpace
    BY CutIs, MonitorAssumption DEF AddressSpace
  <2>2. e.pc \in AddressSpace /\ e.waiting \in BOOLEAN
    BY <2>1 DEF Effects
  <2>3. IgnoredAfter(ign, ign) = None
    BY DEF IgnoredAfter
  <2>4. (wb \/ \E b \in e.written : is_breakpoint(b, "write", ign)) \in BOOLEAN
    BY Zenon
  <2>5. e.pc \in Nat
    BY <2>2, MonitorAssumption DEF AddressSpace
  <2> QED
    BY <1>3, <2>2, <2>3, <2>4, <2>5
<1> QED
  BY <1>1, <1>2, <1>3

\* An instruction below the calls cs, with nothing ignored while the CPU runs, keeps
\* the invariant: the monitor that stepped learns where the CPU is.
LEMMA ExecuteKeepsInv ==
  ASSUME MonitorTypes, NEW a \in AddressSpace, NEW ign \in Nat \cup {None},
         NEW wb \in BOOLEAN, NEW cs \in Seq(MonitorCall),
         cs # <<>> => Last(cs).left > 0,
         Nested(cs),
         ~ waiting => ign = None,
         Execute(a, ign, wb, cs)
  PROVE  MonitorInv'
<1>1. PICK o \in Instruction(a, ign, wb) :
        /\ reg_pc' = o.pc /\ waiting' = o.waiting
        /\ ignored_addr' = o.ign /\ write_brkpt' = o.wb
        /\ calls' = Stepped(cs, o.ret)
  BY DEF Execute
<1>2. /\ o.pc \in AddressSpace /\ o.waiting \in BOOLEAN /\ o.wb \in BOOLEAN
      /\ o.ign \in Nat \cup {None} /\ o.ret \in Nat
      /\ ~ o.waiting => ~ waiting /\ o.ret = o.pc
      /\ ign = None => o.ign = None
  BY InstructionIs
<1>3. /\ Stepped(cs, o.ret) \in Seq(MonitorCall)
      /\ Nested(Stepped(cs, o.ret))
      /\ Stepped(cs, o.ret) # <<>> => Last(Stepped(cs, o.ret)).curpc = o.ret
  BY <1>2, SteppedIs
<1>4. MonitorTypes'
  BY <1>1, <1>2, <1>3 DEF MonitorTypes
<1>5. Nested(calls)'
  BY <1>1, <1>3
<1>6. NothingIgnored'
  BY <1>1, <1>2 DEF NothingIgnored
<1>7. FollowingInstruction'
  BY <1>1, <1>2, <1>3 DEF FollowingInstruction
<1> QED
  BY <1>4, <1>5, <1>6, <1>7 DEF MonitorInv

-----------------------------------------------------------------------------
(* The steps                                                                *)

\* The address is_breakpoint() is asked to ignore, for each of its calls.
LEMMA IgnoredAfterIs ==
  \A a, ign \in Nat \cup {None} :
    /\ IgnoredAfter(a, ign) \in Nat \cup {None}
    /\ ign \in {a, None} => IgnoredAfter(a, ign) = None
BY DEF IgnoredAfter

\* An instruction, or the entry into the monitor before it.
LEMMA SstepKeepsInv == ASSUME MonitorInv, sstep PROVE MonitorInv'
<1> DEFINE ign == IF Stepping THEN Last(calls).curpc ELSE ignored_addr
           rest == IF write_brkpt THEN ign ELSE IgnoredAfter(reg_pc, ign)
<1>1. /\ MonitorTypes /\ Nested(calls) /\ reg_pc \in AddressSpace /\ write_brkpt \in BOOLEAN
      /\ waiting \in BOOLEAN /\ calls \in Seq(MonitorCall) /\ reg_pc \in Nat
      /\ ignored_addr \in Nat \cup {None}
  BY DEF MonitorInv, MonitorTypes, AddressSpace
<1>2. calls # <<>> => Last(calls) \in MonitorCall /\ Last(calls).left > 0
  <2>1. calls # <<>> => Last(calls) \in MonitorCall
    BY <1>1, FrontIs
  <2> QED
    BY <2>1 DEF sstep, AtPrompt, MonitorCall
<1>3. ~ waiting => ign \in {reg_pc, None}
  BY DEF MonitorInv, NothingIgnored, FollowingInstruction, Stepping
<1>4. ign \in Nat \cup {None}
  BY <1>1, <1>2 DEF Stepping, MonitorCall
<1>5. rest \in Nat \cup {None} /\ (~ waiting => write_brkpt \/ rest = None)
  BY <1>1, <1>3, <1>4, IgnoredAfterIs DEF None
<1>6. CASE Enters(ign)
  <2> DEFINE entry == [curpc |-> reg_pc, left |-> 0, insstep |-> TRUE]
  <2>1. /\ calls' = Append(calls, entry) /\ write_brkpt' = FALSE
        /\ ignored_addr' = IgnoredAfter(reg_pc, rest) /\ UNCHANGED <<reg_pc, waiting>>
    BY <1>6 DEF sstep
  <2>2. IgnoredAfter(reg_pc, rest) \in Nat \cup {None} /\ (~ waiting => IgnoredAfter(reg_pc, rest) = None)
    BY <1>1, <1>3, <1>4, <1>5, IgnoredAfterIs
  <2>3. entry \in MonitorCall
    BY <1>1 DEF MonitorCall
  <2> HIDE DEF ign, rest
  <2>4. /\ calls' \in Seq(MonitorCall) /\ Len(calls') = Len(calls) + 1
        /\ \A i \in 1 .. Len(calls) : calls'[i] = calls[i]
        /\ calls'[Len(calls) + 1] = entry
    BY <1>1, <2>1, <2>3, AppendProperties
  <2>5. MonitorTypes'
    BY <1>1, <2>1, <2>2, <2>4 DEF MonitorTypes
  <2>6. Nested(calls)'
    <3>1. Len(calls) \in Nat /\ (Len(calls) > 0 => calls[Len(calls)].left > 0)
      BY <1>1, <1>2, LenProperties, EmptySeq DEF Last
    <3>2. ASSUME NEW i \in 2 .. Len(calls') PROVE calls'[i].insstep
      <4>1. CASE i = Len(calls) + 1
        BY <2>4, <4>1
      <4>2. CASE i # Len(calls) + 1
        BY <1>1, <2>4, <3>1, <4>2 DEF Nested
      <4> QED
        BY <4>1, <4>2
    <3>3. ASSUME NEW i \in 1 .. Len(calls') - 1 PROVE calls'[i].left > 0
      <4>1. CASE i = Len(calls)
        BY <2>4, <3>1, <4>1
      <4>2. CASE i # Len(calls)
        BY <1>1, <2>4, <3>1, <4>2 DEF Nested
      <4> QED
        BY <4>1, <4>2
    <3> QED
      BY <3>2, <3>3 DEF Nested
  <2>7. NothingIgnored' /\ FollowingInstruction'
    BY <2>1, <2>2, <2>4 DEF NothingIgnored, FollowingInstruction, Last
  <2> QED
    BY <2>5, <2>6, <2>7 DEF MonitorInv
<1>7. CASE ~ Enters(ign)
  <2>1. Execute(reg_pc, rest, write_brkpt, calls)
    BY <1>7 DEF sstep
  <2>2. ~ waiting => rest = None
    BY <1>5, <1>7 DEF Enters
  <2> HIDE DEF ign, rest
  <2> QED
    BY <1>1, <1>2, <1>5, <2>1, <2>2, ExecuteKeepsInv
<1> QED
  BY <1>6, <1>7

\* monitor() returns, to the CPU loop or to main().
LEMMA ReturnKeepsInv ==
  ASSUME MonitorInv, AtPrompt, NEW a \in AddressSpace, Return(a) PROVE MonitorInv'
<1>1. /\ MonitorTypes /\ Nested(calls) /\ calls \in Seq(MonitorCall) /\ calls # <<>>
      /\ write_brkpt \in BOOLEAN /\ ignored_addr \in Nat \cup {None}
      /\ ~ waiting => ignored_addr = None
  BY DEF MonitorInv, MonitorTypes, AtPrompt, NothingIgnored
<1>2. /\ Front(calls) \in Seq(MonitorCall) /\ Len(Front(calls)) = Len(calls) - 1
      /\ \A i \in 1 .. Len(calls) - 1 : Front(calls)[i] = calls[i]
      /\ Len(calls) \in Nat \ {0} /\ Last(calls) = calls[Len(calls)]
  BY <1>1, FrontIs
<1>3. Nested(Front(calls))
  BY <1>1, <1>2 DEF Nested
<1>4. CASE Last(calls).insstep
  <2>1. Execute(a, ignored_addr, write_brkpt, Front(calls))
    BY <1>4 DEF Return
  <2>2. Front(calls) # <<>> => Last(Front(calls)).left > 0
    <3>1. Front(calls) # <<>> => Len(calls) - 1 \in 1 .. Len(calls) - 1
      BY <1>2, EmptySeq
    <3> QED
      BY <1>1, <1>2, <3>1 DEF Nested, Last
  <2> QED
    BY <1>1, <1>2, <1>3, <2>1, <2>2, ExecuteKeepsInv
<1>5. CASE ~ Last(calls).insstep
  <2>1. reg_pc' = a /\ calls' = Front(calls) /\ UNCHANGED <<ignored_addr, write_brkpt, waiting>>
    BY <1>5 DEF Return
  <2>2. calls' = <<>>
    <3>1. Len(calls) = 1
      BY <1>1, <1>2, <1>5 DEF Nested
    <3> QED
      BY <1>2, <2>1, <3>1, EmptySeq
  <2> QED
    BY <1>1, <1>2, <1>3, <2>1, <2>2
    DEF MonitorInv, MonitorTypes, NothingIgnored, FollowingInstruction
<1> QED
  BY <1>4, <1>5

\* The commands that change the breakpoints or start to step.
LEMMA CommandKeepsInv ==
  ASSUME MonitorInv, AtPrompt,
         UNCHANGED <<ignored_addr, write_brkpt, reg_pc, waiting>>,
         \/ UNCHANGED calls
         \/ \E n \in 1 .. MaxSteps : calls' = [calls EXCEPT ![Len(calls)].left = n]
  PROVE  MonitorInv'
<1>1. /\ MonitorTypes /\ Nested(calls) /\ calls \in Seq(MonitorCall) /\ calls # <<>>
  BY DEF MonitorInv, MonitorTypes, AtPrompt
<1>2. Len(calls) \in Nat \ {0} /\ Last(calls) = calls[Len(calls)] /\ calls[Len(calls)] \in MonitorCall
  BY ONLY <1>1, FrontIs
<1>3. CASE UNCHANGED calls
  BY <1>3 DEF MonitorInv, MonitorTypes, Nested, NothingIgnored, FollowingInstruction
<1>4. ASSUME NEW n \in 1 .. MaxSteps, calls' = [calls EXCEPT ![Len(calls)].left = n]
      PROVE  MonitorInv'
  <2> DEFINE last == calls[Len(calls)]
             new == [last EXCEPT !.left = n]
  <2>1. new \in MonitorCall /\ new.curpc = last.curpc /\ new.insstep = last.insstep
    <3> HIDE DEF last
    <3>1. last \in MonitorCall
      BY <1>2 DEF last
    <3>2. n \in Nat
      BY MonitorAssumption
    <3> QED
      BY <3>1, <3>2 DEF MonitorCall
  <2>2. calls' = [calls EXCEPT ![Len(calls)] = new]
    BY <1>4
  <2> HIDE DEF new
  <2>3. /\ calls' \in Seq(MonitorCall) /\ Len(calls') = Len(calls)
        /\ \A i \in 1 .. Len(calls) : calls'[i] = IF i = Len(calls) THEN new ELSE calls[i]
    BY <1>1, <1>2, <2>1, <2>2
  <2>4. MonitorTypes' /\ Nested(calls)'
    BY <1>1, <1>2, <2>1, <2>3 DEF MonitorTypes, Nested
  <2>5. NothingIgnored' /\ FollowingInstruction'
    BY <1>1, <1>2, <2>1, <2>3 DEF MonitorInv, NothingIgnored, FollowingInstruction, Last
  <2> QED
    BY <2>4, <2>5 DEF MonitorInv
<1> QED
  BY <1>3, <1>4

-----------------------------------------------------------------------------
(* The theorems                                                             *)

LEMMA MonitorInitOK == MonitorInit => MonitorInv
<1> SUFFICES ASSUME MonitorInit PROVE MonitorInv
  OBVIOUS
<1> DEFINE first == [curpc |-> reg_pc, left |-> 0, insstep |-> FALSE]
<1>1. reg_pc = 0 /\ reg_pc \in AddressSpace /\ waiting = FALSE /\ write_brkpt = FALSE /\ ignored_addr = None
  BY MonitorAssumption DEF MonitorInit, AddressSpace
<1>2. first \in MonitorCall
  BY <1>1 DEF MonitorCall
<1>0. ASSUME calls \in Seq(MonitorCall) PROVE MonitorTypes
  BY <1>0, <1>1 DEF MonitorTypes
<1>3. CASE calls = <<>>
  <2>1. Len(calls) = 0 /\ calls \in Seq(MonitorCall)
    BY <1>3, EmptySeq
  <2>2. MonitorTypes /\ Nested(calls)
    BY <1>0, <2>1 DEF Nested
  <2> QED
    BY <1>1, <1>3, <2>2 DEF MonitorInv, NothingIgnored, FollowingInstruction
<1>4. CASE calls = <<first>>
  <2>1. calls \in Seq(MonitorCall) /\ Len(calls) = 1 /\ calls[1] = first
    BY <1>2, <1>4
  <2> HIDE DEF first
  <2>2. Last(calls).curpc = reg_pc
    BY <2>1 DEF Last, first
  <2>3. MonitorTypes /\ Nested(calls)
    BY <1>0, <2>1 DEF Nested
  <2> QED
    BY <1>1, <2>2, <2>3 DEF MonitorInv, NothingIgnored, FollowingInstruction
<1> QED
  BY <1>3, <1>4 DEF MonitorInit

LEMMA MonitorStepOK == MonitorInv /\ [MonitorNext]_monitorVars => MonitorInv'
<1> SUFFICES ASSUME MonitorInv, [MonitorNext]_monitorVars PROVE MonitorInv'
  OBVIOUS
<1>1. CASE sstep
  BY <1>1, SstepKeepsInv
<1>2. CASE exit
  BY <1>2, ReturnKeepsInv DEF exit, MonitorInv, MonitorTypes
<1>3. ASSUME NEW a \in Typed, go(a) PROVE MonitorInv'
  <2>1. Cut(a) \in AddressSpace
    BY CutIs, MonitorAssumption
  <2> QED
    BY <1>3, <2>1, ReturnKeepsInv DEF go
<1>4. ASSUME NEW n \in 1 .. MaxSteps, step(n) PROVE MonitorInv'
  BY <1>4, CommandKeepsInv DEF step
<1>5. ASSUME NEW a, NEW t, set_breakpoint(a, t) PROVE MonitorInv'
  BY <1>5, CommandKeepsInv DEF set_breakpoint
<1>6. ASSUME NEW S, remove_breakpoint(S) PROVE MonitorInv'
  BY <1>6, CommandKeepsInv DEF remove_breakpoint
<1>7. CASE UNCHANGED monitorVars
  BY <1>7 DEF monitorVars, MonitorInv, MonitorTypes, Nested, NothingIgnored, FollowingInstruction
<1> QED
  BY <1>1, <1>2, <1>3, <1>4, <1>5, <1>6, <1>7 DEF MonitorNext

LEMMA MonitorInvariant == MonitorSpec => []MonitorInv
BY MonitorInitOK, MonitorStepOK, PTL DEF MonitorSpec

\* A breakpoint is ignored for one call of is_breakpoint() (emumon.c), in
\* whatever monitor a step command that ignores it runs.
THEOREM IgnoredOnceHolds == MonitorSpec => []IgnoredOnce
<1>1. MonitorInv => IgnoredOnce
  BY DEF MonitorInv, NothingIgnored, IgnoredOnce
<1> QED
  BY <1>1, MonitorInvariant, PTL

\* Every monitor that is active knows where the CPU is once it is asked again,
\* also when other monitors ran below it (curpc of run_instructions).
THEOREM FollowsInstructions == MonitorSpec => []FollowingInstruction
<1>1. MonitorInv => FollowingInstruction
  BY DEF MonitorInv
<1> QED
  BY <1>1, MonitorInvariant, PTL

\* The main loop's next step at a breakpoint, or after a write to a watched
\* address, is into the monitor, before the program has moved (e6809_sstep).
THEOREM StopsInTimeHolds == MonitorSpec => StopsInTime
<1> DEFINE Stops == calls = <<>> /\ (write_brkpt \/ (~ waiting /\ Set(reg_pc, "inst"))) =>
                      calls' # <<>> /\ reg_pc' = reg_pc
<1>1. MonitorInv /\ [MonitorNext]_monitorVars => [Stops]_monitorVars
  <2> SUFFICES ASSUME MonitorInv, MonitorNext, calls = <<>>,
                      write_brkpt \/ (~ waiting /\ Set(reg_pc, "inst"))
               PROVE  calls' # <<>> /\ reg_pc' = reg_pc
    BY DEF Stops
  <2>1. ~ AtPrompt /\ ~ Stepping
    BY DEF AtPrompt, Stepping
  <2>2. sstep
    BY <2>1 DEF MonitorNext, exit, go, step, set_breakpoint, remove_breakpoint
  <2>3. write_brkpt \/ reg_pc # ignored_addr
    BY MonitorAssumption DEF MonitorInv, MonitorTypes, NothingIgnored, AddressSpace, None
  <2>4. Enters(ignored_addr)
    BY <2>3 DEF Enters, is_breakpoint
  <2>5. calls' = Append(calls, [curpc |-> reg_pc, left |-> 0, insstep |-> TRUE]) /\ reg_pc' = reg_pc
    BY <2>1, <2>2, <2>4 DEF sstep
  <2>6. [curpc |-> reg_pc, left |-> 0, insstep |-> TRUE] \in MonitorCall /\ calls \in Seq(MonitorCall)
    BY DEF MonitorInv, MonitorTypes, MonitorCall, AddressSpace
  <2> QED
    BY <2>5, <2>6, AppendProperties
<1> QED
  BY <1>1, MonitorInvariant, PTL DEF MonitorSpec, StopsInTime
=============================================================================
