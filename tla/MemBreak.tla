------------------------------ MODULE MemBreak ------------------------------
(***************************************************************************)
(* The data segment of an emulated FUZIX process, as the system-call layer *)
(* of the emulators keeps it: initbrk and curbrk, and the guard that the   *)
(* brk and sbrk calls apply with the CPU's stack pointer.  All values are  *)
(* 16-bit in the program; Word is the number of values of such a word.     *)
(***************************************************************************)
EXTENDS Integers

CONSTANTS
    Word,           \* 2^16 in the emulators
    LoadAddrs,      \* the first address after the BSS, of the images loaded
    StackPointers,  \* values the CPU's stack pointer takes
    Requests        \* words passed to brk and sbrk

Words == 0 .. Word - 1

ASSUME WordAssumption == Word \in Nat \ {0, 1} /\ Word % 2 = 0

ASSUME ValuesAssumption == /\ LoadAddrs \subseteq Words
                           /\ StackPointers \subseteq Words
                           /\ Requests \subseteq Words

VARIABLES
    initbrk,        \* the lowest break the process may ask for
    curbrk,         \* the break
    sp,             \* the CPU's stack pointer
    result          \* what the last system call returned, as a 16-bit word

memVars == <<initbrk, curbrk, sp, result>>

-----------------------------------------------------------------------------

\* Variant for mutation: do_syscall without its final "result & 0xffff".
FailedUncut == -1

\* The word that -1 becomes in do_syscall's final "result & 0xffff".
Failed == Word - 1

\* siarg(): a word taken as a signed argument.
Signed(w) == IF w > Word \div 2 THEN w - Word ELSE w

\* Variant for mutation: the test against initbrk forgotten.
RefusedInStackOnly(brkval) == brkval >= sp

\* The limits brk and sbrk share; brkval is a uint16_t, so it has wrapped.
Refused(brkval) == brkval < initbrk \/ brkval >= sp

\* execve: the loader sets both breaks to the end of the BSS, and the
\* arguments built by set_arg_env decide the stack pointer.  Nothing compares
\* the two.
Load(bssend, top) ==
    /\ initbrk' = bssend
    /\ curbrk' = bssend
    /\ sp' = top
    /\ result' = 0

\* brk(brkval).
Brk(brkval) ==
    /\ IF Refused(brkval)
       THEN curbrk' = curbrk /\ result' = Failed
       ELSE curbrk' = brkval /\ result' = 0
    /\ UNCHANGED <<initbrk, sp>>

\* sbrk(w): the sum is cut to 16 bits before it is compared.
Sbrk(w) ==
    /\ LET brkval == (curbrk + Signed(w)) % Word
       IN  IF Refused(brkval)
           THEN curbrk' = curbrk /\ result' = Failed
           ELSE curbrk' = brkval /\ result' = curbrk
    /\ UNCHANGED <<initbrk, sp>>

\* Between system calls the program pushes and pops; nothing keeps the stack
\* above the break.
MoveStack(s) ==
    /\ sp' = s
    /\ UNCHANGED <<initbrk, curbrk, result>>

-----------------------------------------------------------------------------

MemInit ==
    /\ initbrk \in LoadAddrs
    /\ curbrk = initbrk
    /\ sp \in StackPointers
    /\ result = 0

MemNext ==
    \/ \E a \in LoadAddrs, s \in StackPointers : Load(a, s)
    \/ \E w \in Requests : Brk(w) \/ Sbrk(w)
    \/ \E s \in StackPointers : MoveStack(s)

MemSpec == MemInit /\ [][MemNext]_memVars

-----------------------------------------------------------------------------

MemTypeOK ==
    /\ initbrk \in Words
    /\ curbrk \in Words
    /\ sp \in Words
    /\ result \in Words

\* The break is never below the end of the BSS, whatever is requested in
\* whatever order: the wrapping sum of sbrk cannot slip under initbrk.
BreakAboveBss == initbrk <= curbrk

=============================================================================
