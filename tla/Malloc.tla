------------------------------- MODULE Malloc -------------------------------
(***************************************************************************)
(* The C library's malloc, free, realloc and calloc (libs/malloc.c,        *)
(* realloc.c, calloc.c), running over the data segment of MemBreak.        *)
(*                                                                         *)
(* A block is a header at some address followed by the caller's bytes; it  *)
(* is named by the address of its header.  next and size are the memory    *)
(* itself, read as a header at each address: the two fields lie under the  *)
(* user's bytes of a block too, so Fill, the memcpy of realloc and the     *)
(* memset of calloc write them, and what a caller leaves there is what     *)
(* the allocator would read if it ever looked.                             *)
(*                                                                         *)
(* The library is sequential: its loops are steps under the program        *)
(* counter pc, and the program runs (Fill, MoveStack, another user of      *)
(* sbrk) only when no call is active.                                      *)
(***************************************************************************)
EXTENDS MemBreak

CONSTANTS
    Root,           \* address of __mroot, in the data segment
    BrkSize,        \* BRKSIZE: the least number of blocks asked of brk
    MallocSizes,    \* sizes passed to malloc
    ReallocSizes,   \* sizes passed to realloc
    CallocSizes,    \* <<elm, sz>> pairs passed to calloc
    SbrkSizes,      \* bytes that other users of sbrk take
    UserValues      \* what the program writes in its blocks

Unit == 4           \* sizeof(struct memh): a 16-bit pointer, a 16-bit size_t

ASSUME MallocAssumption ==
    /\ Word >= 2 * Unit
    /\ Root \in Words \ {0}
    /\ \A a \in LoadAddrs : Root + Unit <= a
    /\ BrkSize \in Nat \ {0} /\ Unit * BrkSize < Word
    /\ MallocSizes \subseteq Words
    /\ ReallocSizes \subseteq Words
    /\ CallocSizes \subseteq Words \X Words
    /\ SbrkSizes \subseteq 1 .. Word \div 2 - 1
    /\ UserValues \subseteq Words

VARIABLES
    next, size,     \* the memory, read as a struct memh at each address
    freep,          \* __mfreeptr
    pc,             \* where the library is; "idle" when the program runs
    op,             \* the function the program called
    p, prev,        \* malloc's and free's cursor, and malloc's predecessor
    nblocks,        \* malloc's request, in units
    mh,             \* the block being freed
    old,            \* realloc's old block
    want,           \* the bytes malloc is asked for, a size_t
    ret,            \* the pointer returned, 0 for NULL
    req,            \* ghost: live blocks, each with the size_t it was made for
    holes,          \* ghost: the blocks on the free list, __mroot among them
    owned           \* ghost: the addresses brkmore has got from the system

heapVars == <<next, size, freep>>
callVars == <<pc, op, p, prev, nblocks, mh, old, want, ret>>
ghostVars == <<req, holes, owned>>
vars == <<memVars, heapVars, callVars, ghostVars>>

NULL == 0
Live == DOMAIN req

\* The cells of a block's first n bytes.
Bytes(h, n) == h + Unit .. h + Unit + n - 1

\* What malloc's caller may use of block h.
Capacity(h) == Unit * (size[h] - 1)

\* The outermost call returns, and its variables are gone.
Back ==
    /\ pc' = "idle" /\ op' = "none"
    /\ p' = Root /\ prev' = Root /\ nblocks' = 0 /\ mh' = Root
    /\ old' = Root /\ want' = 0 /\ ret' = NULL

-----------------------------------------------------------------------------
(* malloc                                                                   *)

\* size + 2 * sizeof(struct memh) - 1, in a size_t.
Rounded(s) == (s + 2 * Unit - 1) % Word

\* malloc(s), and realloc(NULL, s): the overflow test, then the cursor at the head of the orbit.
EnterMalloc(s) ==
    IF Rounded(s) < s
    THEN /\ ret' = NULL /\ pc' = "return"
         /\ UNCHANGED <<p, prev, nblocks>>
    ELSE /\ nblocks' = Rounded(s) \div Unit
         /\ prev' = freep
         /\ p' = next[freep]
         /\ pc' = "scan"
         /\ UNCHANGED ret

\* Block h is handed to the caller.
Take(h) ==
    /\ ret' = h + Unit
    /\ req' = [b \in Live \cup {h} |-> IF b = h THEN want ELSE req[b]]
    /\ freep' = prev
    /\ pc' = "return"

\* Variant for mutation: the orbit never ends.
OrbitEndless == FALSE

\* Variant for mutation: the orbit ends one hole early.
OrbitShort == next[p] = freep

\* The cursor is back where the free pointer is.
OrbitOver == p = freep

\* Variant for mutation: one unit too many stays in the hole.
LeftOneMore == size[p] - nblocks + 1

\* What a split leaves in the hole.
Left == size[p] - nblocks

\* A hole of the right size is unlinked.
ScanExact ==
    /\ pc = "scan" /\ size[p] = nblocks
    /\ next' = [next EXCEPT ![prev] = next[p]]
    /\ Take(p)
    /\ holes' = holes \ {p}
    /\ UNCHANGED <<memVars, owned, size, op, p, prev, nblocks, mh, old, want>>

\* A larger hole is split, and its upper end handed out.
ScanSplit ==
    /\ pc = "scan" /\ size[p] > nblocks
    /\ LET h == p + Unit * Left
       IN  /\ size' = [size EXCEPT ![p] = Left, ![h] = nblocks]
           /\ p' = h
           /\ Take(h)
    /\ UNCHANGED <<memVars, holes, owned, next, op, prev, nblocks, mh, old, want>>

\* Too small: on to the next hole while the orbit lasts.
ScanOn ==
    /\ pc = "scan" /\ size[p] < nblocks /\ ~ OrbitOver
    /\ prev' = p
    /\ p' = next[p]
    /\ UNCHANGED <<memVars, heapVars, ghostVars, pc, op, nblocks, mh, old, want, ret>>

\* The orbit is over: brkmore asks sbrk(0) where memory ends and brk for
\* more, and frees what it gets.
ScanGrow ==
    /\ pc = "scan" /\ size[p] < nblocks /\ OrbitOver
    /\ LET nb == IF nblocks < BrkSize THEN BrkSize ELSE nblocks
           top == (curbrk + Unit * nb) % Word
       IN  IF Refused(curbrk) \/ top < curbrk \/ Refused(top)
           THEN /\ ret' = NULL /\ pc' = "return"
                /\ result' = IF Refused(curbrk) \/ ~ top < curbrk THEN Failed ELSE curbrk
                /\ UNCHANGED <<curbrk, owned, size, mh, p>>
           ELSE /\ curbrk' = top /\ result' = 0
                /\ owned' = owned \cup (curbrk .. top - 1)
                /\ size' = [size EXCEPT ![curbrk] = nb]
                /\ mh' = curbrk
                /\ p' = freep
                /\ pc' = "growfree"
                /\ UNCHANGED ret
    /\ UNCHANGED <<initbrk, sp, next, freep, req, holes, op, prev, nblocks, old, want>>

-----------------------------------------------------------------------------
(* free                                                                     *)

\* free() of block h: the search starts at the free pointer.
EnterFree(h) == mh' = h /\ p' = freep /\ pc' = "free"

\* Variant for mutation: at the end of the list any block fits.
BetweenAtEnd == \/ p < mh /\ mh < next[p]
                \/ p >= next[p]

\* The block lies between p and its successor, or beyond either end of the
\* list where it wraps round.
Between == \/ p < mh /\ mh < next[p]
           \/ p >= next[p] /\ (p < mh \/ mh < next[p])

\* Variant for mutation: units added to an address as though they were bytes.
ForwardUnscaled == mh + size[mh] = next[p]

\* The block ends where the next hole starts.
Forward == mh + Unit * size[mh] = next[p]

\* The hole before ends where the block starts.
Backward == p + Unit * size[p] = mh

\* Variant for mutation: the size of the next hole forgotten in the merge.
MergedSizeAlone == size[mh]

\* The block's size, with the next hole if they merge.
MergedSize == IF Forward THEN size[mh] + size[next[p]] ELSE size[mh]

\* for(...) of free.
FreeOn ==
    /\ pc \in {"free", "growfree"} /\ ~ Between
    /\ p' = next[p]
    /\ UNCHANGED <<memVars, heapVars, ghostVars, pc, op, prev, nblocks, mh, old, want, ret>>

\* The block is linked after p and merged with either neighbour; then free
\* returns, to its caller or to malloc's loop.
FreeLink ==
    /\ pc \in {"free", "growfree"} /\ Between
    /\ LET n == IF Forward THEN next[next[p]] ELSE next[p]
       IN  next' = IF Backward THEN [next EXCEPT ![mh] = n, ![p] = n]
                               ELSE [next EXCEPT ![mh] = n, ![p] = mh]
    /\ size' = IF Backward THEN [size EXCEPT ![mh] = MergedSize, ![p] = @ + MergedSize]
                           ELSE [size EXCEPT ![mh] = MergedSize]
    /\ holes' = (IF Forward THEN holes \ {next[p]} ELSE holes)
                  \cup (IF Backward THEN {} ELSE {mh})
    /\ freep' = p
    /\ IF pc = "growfree"
       THEN /\ pc' = "scan" /\ prev' = p /\ p' = next'[p]
            /\ UNCHANGED <<op, nblocks, mh, old, want, ret>>
       ELSE Back
    /\ UNCHANGED <<memVars, req, owned>>

\* Block h, whose free is starting, is no longer the program's.
Forget(h) == req' = [b \in Live \ {h} |-> req[b]] /\ UNCHANGED <<holes, owned>>

-----------------------------------------------------------------------------
(* The calls of the program                                                 *)

CallMalloc(s) ==
    /\ pc = "idle"
    /\ op' = "malloc" /\ want' = s
    /\ EnterMalloc(s)
    /\ UNCHANGED <<memVars, heapVars, ghostVars, mh, old>>

CallFree(h) ==
    /\ pc = "idle"
    /\ op' = "free"
    /\ EnterFree(h)
    /\ Forget(h)
    /\ UNCHANGED <<memVars, heapVars, prev, nblocks, old, want, ret>>

\* calloc: elm * sz in a size_t.
CallCalloc(elm, sz) ==
    /\ pc = "idle"
    /\ op' = "calloc" /\ want' = (elm * sz) % Word
    /\ EnterMalloc((elm * sz) % Word)
    /\ UNCHANGED <<memVars, heapVars, ghostVars, mh, old>>

\* realloc(h + 1, s): a size of zero frees; a block that is large enough
\* already is returned as it is; otherwise malloc runs first.
CallRealloc(h, s) ==
    /\ pc = "idle"
    /\ \/ /\ s = 0
          /\ EnterFree(h) /\ Forget(h)
          /\ op' = "realloc" /\ want' = 0 /\ old' = h
          /\ UNCHANGED <<prev, nblocks, ret>>
       \/ /\ s # 0 /\ Rounded(s) \div Unit <= size[h]
          /\ req' = [req EXCEPT ![h] = s]
          /\ UNCHANGED <<holes, owned, callVars>>
       \/ /\ s # 0 /\ Rounded(s) \div Unit > size[h]
          /\ EnterMalloc(s)
          /\ op' = "realloc" /\ want' = s /\ old' = h
          /\ UNCHANGED <<ghostVars, mh>>
    /\ UNCHANGED <<memVars, heapVars>>

\* malloc's return to the function that called it.
ReturnMalloc ==
    /\ pc = "return"
    /\ \/ op = "malloc"
       \/ op = "calloc" /\ ret = NULL
    /\ Back
    /\ UNCHANGED <<memVars, heapVars, ghostVars>>

\* The cells of set C all take value v.
Overwrite(C, v) ==
    /\ next' = [a \in Words |-> IF a \in C THEN v ELSE next[a]]
    /\ size' = [a \in Words |-> IF a \in C THEN v ELSE size[a]]

ReturnCalloc ==
    /\ pc = "return" /\ op = "calloc" /\ ret # NULL
    /\ Overwrite(Bytes(ret - Unit, want), 0)
    /\ Back
    /\ UNCHANGED <<memVars, freep, ghostVars>>

\* The pointer realloc gives its caller when malloc has been tried.
ReallocResult == IF ret = NULL THEN old + Unit ELSE ret

\* realloc when malloc found nothing: the old pointer is returned, and no one
\* is told that it is no larger than it was.
ReturnReallocFailed ==
    /\ pc = "return" /\ op = "realloc" /\ ret = NULL
    /\ Back
    /\ UNCHANGED <<memVars, heapVars, ghostVars>>

\* Variant for mutation: units copied as though they were bytes.
MovedUnscaled == size[old]

\* The bytes realloc's memcpy moves.
Moved == Unit * size[old]

\* realloc when it did: the old contents move, mh->size units of them (one
\* header more than the block holds), and the old block is freed.
ReturnRealloc ==
    /\ pc = "return" /\ op = "realloc" /\ ret # NULL
    /\ LET new == ret - Unit
           moved == Bytes(new, Moved)
           from(a) == (a - new + old) % Word
       IN  /\ next' = [a \in Words |-> IF a \in moved THEN next[from(a)] ELSE next[a]]
           /\ size' = [a \in Words |-> IF a \in moved THEN size[from(a)] ELSE size[a]]
    /\ EnterFree(old) /\ Forget(old)
    /\ UNCHANGED <<memVars, freep, op, prev, nblocks, old, want, ret>>

-----------------------------------------------------------------------------
(* The program between calls                                                *)

\* It fills a block it holds, to the last byte the library made it for,
\* which may be fewer than it asked for.
Fill(h, v) ==
    /\ pc = "idle"
    /\ Overwrite(Bytes(h, req[h]), v)
    /\ UNCHANGED <<memVars, freep, ghostVars, callVars>>

\* Another user of sbrk takes w bytes, at any alignment.
OtherSbrk(w) ==
    /\ pc = "idle"
    /\ curbrk + w < Word
    /\ Sbrk(w)
    /\ UNCHANGED <<heapVars, callVars, ghostVars>>

Push(s) ==
    /\ pc = "idle"
    /\ MoveStack(s)
    /\ UNCHANGED <<heapVars, callVars, ghostVars>>

-----------------------------------------------------------------------------

Init ==
    /\ MemInit
    /\ next = [a \in Words |-> IF a = Root THEN Root ELSE 0]
    /\ size = [a \in Words |-> 0]
    /\ freep = Root
    /\ pc = "idle" /\ op = "none"
    /\ p = Root /\ prev = Root /\ nblocks = 0 /\ mh = Root
    /\ old = Root /\ want = 0 /\ ret = NULL
    /\ req = [b \in {} |-> 0]
    /\ holes = {Root}
    /\ owned = {}

\* The steps of a call that is active.
Library ==
    \/ ScanExact \/ ScanSplit \/ ScanOn \/ ScanGrow
    \/ FreeOn \/ FreeLink
    \/ ReturnMalloc \/ ReturnCalloc \/ ReturnReallocFailed \/ ReturnRealloc

\* What the program may do when none is.
Program ==
    \/ \E s \in MallocSizes : CallMalloc(s)
    \/ \E c \in CallocSizes : CallCalloc(c[1], c[2])
    \/ \E h \in Live : CallFree(h)
    \/ \E h \in Live, s \in ReallocSizes : CallRealloc(h, s)
    \/ \E h \in Live, v \in UserValues : Fill(h, v)
    \/ \E w \in SbrkSizes : OtherSbrk(w)
    \/ \E s \in StackPointers : Push(s)

Next == Library \/ Program

Spec == Init /\ [][Next]_vars

\* A call that is active runs on: the process has the CPU.
FairSpec == Spec /\ WF_vars(Library)

-----------------------------------------------------------------------------

PCs == {"idle", "scan", "free", "growfree", "return"}

TypeOK ==
    /\ MemTypeOK
    /\ next \in [Words -> Words] /\ size \in [Words -> Words]
    /\ freep \in Words /\ p \in Words /\ prev \in Words /\ mh \in Words
    /\ old \in Words /\ want \in Words /\ ret \in Words /\ nblocks \in Words
    /\ pc \in PCs
    /\ op \in {"none", "malloc", "free", "calloc", "realloc"}
    /\ Live \subseteq Words /\ req \in [Live -> Words]
    /\ holes \subseteq Words /\ owned \subseteq Words

\* The block that free has been given and not linked yet.
Loose == IF pc \in {"free", "growfree"} THEN {mh} ELSE {}

Blocks == (holes \cup Live \cup Loose) \ {Root}

\* The blocks B, of sizes sz, lie within lo .. hi - 1 and do not overlap.
LaidOut(B, sz, lo, hi) ==
    /\ \A b \in B : lo <= b /\ sz[b] >= 1 /\ b + Unit * sz[b] <= hi
    /\ \A b, c \in B : b < c => b + Unit * sz[b] <= c

\* b is what next must hold for hole a of H: the next hole up, or the root,
\* which is the lowest, for the highest.
IsSuccessor(H, a, b) ==
    \/ b > a /\ \A c \in H : c <= a \/ c >= b
    \/ b = Root /\ \A c \in H : c <= a

\* nx makes of H one ring, in the order of addresses.
IsRing(H, nx) ==
    Root \in H /\ \A a \in H : nx[a] \in H /\ IsSuccessor(H, a, nx[a])

\* Every block lies between the end of the BSS and the break, no two blocks
\* overlap, and none is at once free and held: malloc never hands out memory
\* that somebody has, whatever sequence of splits and merges came before.
BlocksDisjoint ==
    /\ LaidOut(Blocks, size, initbrk, curbrk)
    /\ holes \cap Live = {} /\ Loose \cap (holes \cup Live) = {} /\ Root \notin Live

\* The free list is one ring through every hole in address order, and the
\* free pointer is on it: the loops of malloc and free visit them all.
RingOrdered == IsRing(holes, next) /\ freep \in holes

\* No two holes touch: free merges on both sides.
HolesApart ==
    \A b, c \in holes \ {Root} : b < c => b + Unit * size[b] < c

\* A part of the invariant of the proofs: a block has the bytes it was made for.
CapacityHeld == \A h \in Live : req[h] <= Capacity(h)

\* Every byte got from the system is in one of the blocks: nothing leaks in
\* a split, a merge or a failed call.
NothingLost == owned = UNION {b .. b + Unit * size[b] - 1 : b \in Blocks}

\* malloc asks the system for memory only when no hole would have done,
\* wherever the rotating free pointer made it start.
GrowsOnlyWhenFull ==
    [][ScanGrow => \A h \in holes : size[h] < nblocks]_vars

\* Every call returns.
CallsReturn == pc # "idle" ~> pc = "idle"

\* The areas that the callers hold, by the pointers they have.
Areas == [q \in {h + Unit : h \in Live} |-> req[q - Unit]]

\* What is in each of them, byte by byte.
Contents ==
    [q \in {h + Unit : h \in Live} |->
        [i \in 0 .. req[q - Unit] - 1 |-> <<next[q + i], size[q + i]>>]]

\* What the callers see.
A == INSTANCE Allocator WITH len <- Areas, data <- Contents

IsAnAllocator == A!AllocSpec

=============================================================================
