-------------------------------- MODULE Exit --------------------------------
(***************************************************************************)
(* How a program ends (libs/atexit.c, exit.c, and crt0.s, which calls      *)
(* main()): the table of handlers, of which the one that closes the        *)
(* streams is the first, and exit, which runs them.  A handler calls what  *)
(* any part of the program calls, atexit and exit included.                *)
(***************************************************************************)
EXTENDS StdioList, Sequences, SequencesExt

CONSTANTS
    Handlers,       \* functions that programs register
    CloseAll,       \* __stdio_close_all
    MAXATEXIT,      \* 10
    MainExits,      \* crt0.s calls exit when main() returns: TRUE on the Z80,
                    \* FALSE on the 6809, where it ends the process
    MaxHeld         \* bound on the FILEs and handlers a program has at a time

ASSUME ExitAssumption ==
    /\ CloseAll \notin Handlers /\ MAXATEXIT \in Nat \ {0} /\ MaxHeld \in Nat
    /\ MainExits \in BOOLEAN

VARIABLES
    table,          \* __atexit_table, as far as it is filled
    count,          \* __atexit_count, -1 while the program ends
    left,           \* handlers that are still to return, the one that runs included
    ran,            \* ghost: the handlers that were called
    cut             \* ghost: the process ended without its handlers

exitOnly == <<table, count, left, ran, cut>>
exitVars == <<vars, exitOnly>>

-----------------------------------------------------------------------------

\* Variant for mutation: the mark that the program ends is not looked at.
OnlyFull == count >= MAXATEXIT

\* atexit refuses.
Refused == count < 0 \/ count >= MAXATEXIT

atexit(h) ==
    /\ IF Refused THEN UNCHANGED <<table, count>>
       ELSE table' = Append(table, h) /\ count' = count + 1
    /\ UNCHANGED <<vars, left, ran, cut>>

\* The loop of __do_exit with n handlers to go, and _exit after it.
Loop(n) ==
    IF n > 0
    THEN done' = "exiting" /\ left' = n /\ ran' = Append(ran, table[n])
    ELSE done' = "exited" /\ left' = 0 /\ UNCHANGED ran

\* exit: from a handler it finds the count at -1 and runs no more of them.
exit ==
    /\ Loop(count) /\ count' = -1
    /\ cut' = (done = "exiting")
    /\ UNCHANGED <<head, next, alloc, mode, fd, fds, leaked, table>>

\* main() returns.
main ==
    /\ done = "running"
    /\ IF MainExits THEN exit
       ELSE /\ done' = "exited" /\ cut' = TRUE
            /\ UNCHANGED <<head, next, alloc, mode, fd, fds, leaked, table, count, left, ran>>

\* The handler that runs returns; CloseAll does its work first.
handler ==
    /\ done = "exiting"
    /\ IF table[left] = CloseAll THEN __stdio_close_all
       ELSE UNCHANGED <<head, next, alloc, mode, fd, fds, leaked>>
    /\ Loop(left - 1)
    /\ UNCHANGED <<table, count, cut>>

ExitInit ==
    /\ ListInit
    /\ table = <<CloseAll>> /\ count = 1 /\ left = 0 /\ ran = <<>> /\ cut = FALSE

\* The program, or a handler of it, calls the library.
call ==
    /\ done = "running" \/ (done = "exiting" /\ table[left] # CloseAll)
    /\ \/ ListCall /\ UNCHANGED exitOnly
       \/ \E h \in Handlers : atexit(h)
       \/ exit
    /\ Cardinality(alloc') + Len(table') <= MaxHeld + 1

ExitNext == call \/ main \/ handler

ExitSpec == ExitInit /\ [][ExitNext]_exitVars

-----------------------------------------------------------------------------

\* Handlers are called once each, the last registered first (atexit.c:35), none is
\* registered that never runs, and what they write is flushed, because the streams are
\* closed after all of them; unless a handler calls exit.
EndsInOrder ==
    /\ done # "running" => IsPrefix(ran, Reverse(table))
    /\ done = "exited" /\ ~ cut =>
         /\ ran = Reverse(table)
         /\ \A f \in {Stdout} \cup Listed(head) : "pending" \notin mode[f]

\* "FILE *__IO_list; /* For fflush at exit */": nothing is pending in an open
\* FILE once exit is through.
FlushedAtExit == done = "exited" /\ ~ cut => \A f \in FILEs : "pending" \notin mode[f]

=============================================================================
