----------------------------- MODULE StdioList -----------------------------
(***************************************************************************)
(* The FILEs of a process: fopen, freopen and fclose (libs/fopen.c,        *)
(* fclose.c), fflush of one FILE and of all, and the closing of all at     *)
(* exit (libs/stdio0.c).  A FILE's buffer is only empty or pending here;   *)
(* Stdio has the rest, and Exit says when a program calls what.            *)
(***************************************************************************)
EXTENDS Integers, FiniteSets

CONSTANTS
    Heap,           \* addresses that calloc may give a FILE
    Stdout,         \* the static FILE
    Descriptors,    \* file descriptors; open() takes the lowest free one
    Null,           \* the end of the list
    Failures        \* whether calloc, open and write may fail

ASSUME ListAssumption ==
    /\ IsFiniteSet(Heap) /\ Stdout \notin Heap /\ Null \notin Heap \cup {Stdout}
    /\ Descriptors \subseteq Nat /\ 1 \in Descriptors
    /\ Failures \in BOOLEAN

FILEs == Heap \cup {Stdout}
NoFd == -1

VARIABLES
    head,           \* __IO_list
    next,           \* the next field, which a FILE keeps when it is freed
    alloc,          \* the FILEs that calloc gave out
    mode,           \* FILE -> subset of {"open", "freefil", "pending", "err"}
    fd,             \* FILE -> its descriptor
    fds,            \* the descriptors that are open
    leaked,         \* ghost: descriptors that freopen lost
    done            \* "running", "exiting" while handlers run, then "exited"

vars == <<head, next, alloc, mode, fd, fds, leaked, done>>

-----------------------------------------------------------------------------

Lowest(S) == CHOOSE n \in S : \A m \in S : n <= m

\* open(): the descriptor, or NoFd.
Opened ==
    (IF Descriptors \ fds = {} THEN {NoFd} ELSE {Lowest(Descriptors \ fds)})
      \cup (IF Failures THEN {NoFd} ELSE {})

\* fflush of f: the modes it may leave, in which a failed write shows as "err".
Flushed(f) ==
    {mode[f] \ {"pending"}}
      \cup (IF "pending" \in mode[f] /\ Failures
            THEN {(mode[f] \ {"pending"}) \cup {"err"}} ELSE {})

\* fflush returned EOF.
FlushFailed(f, m) == "pending" \in mode[f] /\ "err" \in m

\* Variant for mutation: the result of open() is not tested.
NeverGrrrr(n) == FALSE

\* open() has failed.
Grrrr(n) == n = NoFd

\* The FILEs on the list that starts at h, by as many steps as there are FILEs.
Listed(h) ==
    LET walk[n \in 0 .. Cardinality(FILEs)] ==
          IF n = 0 THEN {h}
          ELSE walk[n - 1] \cup {next[f] : f \in walk[n - 1] \ {Null}}
    IN  walk[Cardinality(FILEs)] \ {Null}

IsOpen(f) == "open" \in mode[f]

\* fopen: the FILE first, then the file.  FILEs that calloc does not return,
\* or that free takes back at once, leave everything as it was.
fopen(f) ==
    /\ f \in Heap \ alloc
    /\ \E n \in Opened :
         IF Grrrr(n)
         THEN UNCHANGED vars
         ELSE /\ alloc' = alloc \cup {f}
              /\ next' = [next EXCEPT ![f] = head]
              /\ head' = f
              /\ mode' = [mode EXCEPT ![f] = {"open", "freefil"}]
              /\ fd' = [fd EXCEPT ![f] = n]
              /\ fds' = fds \cup {n}
              /\ UNCHANGED <<leaked, done>>

\* Variant for mutation: fclose takes the FILE off no list.
NeverUnlinked(f) == head

\* What fclose leaves as the head of the list: prev stays 0 in its loop, so
\* the head itself is set when f is found anywhere.
Unlinked(f) == IF f \in Listed(head) THEN next[f] ELSE head

\* Variant for mutation: the descriptor stays open.
ClosedNot(f) == fds

\* close(fp->fd).
Closed(f) == fds \ {fd[f]}

\* A flush that fails ends fclose with the file open and the FILE in place.
fclose(f) ==
    /\ IsOpen(f)
    /\ \E m \in Flushed(f) :
         IF FlushFailed(f, m)
         THEN mode' = [mode EXCEPT ![f] = m] /\ UNCHANGED <<head, alloc, fd, fds>>
         ELSE /\ fds' = Closed(f)
              /\ fd' = [fd EXCEPT ![f] = NoFd]
              /\ mode' = [mode EXCEPT ![f] = {}]
              /\ IF "freefil" \in m
                 THEN head' = Unlinked(f) /\ alloc' = alloc \ {f}
                 ELSE UNCHANGED <<head, alloc>>
    /\ UNCHANGED <<next, leaked, done>>

\* freopen: fclose, which must not free the FILE, and whose result is not
\* looked at; then open.  If that fails the FILE is left as fclose left it.
freopen(f) ==
    /\ IsOpen(f)
    /\ \E m \in Flushed(f) :
         LET kept == mode[f] \cap {"freefil"}
             failed == FlushFailed(f, m)
             left == IF failed THEN m \ {"freefil"} ELSE {}
             free == Descriptors \ (IF failed THEN fds ELSE Closed(f))
         IN  \E n \in (IF free = {} THEN {NoFd} ELSE {Lowest(free)})
                        \cup (IF Failures THEN {NoFd} ELSE {}) :
               /\ mode' = [mode EXCEPT ![f] = IF n = NoFd THEN left
                                              ELSE left \cup kept \cup {"open"}]
               /\ fd' = [fd EXCEPT ![f] = IF n = NoFd /\ failed THEN fd[f] ELSE n]
               /\ fds' = (IF failed THEN fds ELSE Closed(f)) \cup ({n} \ {NoFd})
               /\ leaked' = leaked \cup (IF failed THEN {fd[f]} ELSE {})
    /\ UNCHANGED <<head, next, alloc, done>>

fputc(f) ==
    /\ IsOpen(f) /\ "err" \notin mode[f]
    /\ mode' = [mode EXCEPT ![f] = @ \cup {"pending"}]
    /\ UNCHANGED <<head, next, alloc, fd, fds, leaked, done>>

fflush(f) ==
    /\ IsOpen(f)
    /\ \E m \in Flushed(f) : mode' = [mode EXCEPT ![f] = m]
    /\ UNCHANGED <<head, next, alloc, fd, fds, leaked, done>>

\* g comes before f when all are flushed: the static FILEs, then the list.
Before(g, f) == g # f /\ (g = Stdout \/ (f # Stdout /\ f \in Listed(g)))

\* fflush(NULL): the flushes stop at the first that fails, which is bad.
fflushAll ==
    LET all == {Stdout} \cup Listed(head)
    IN  /\ \E bad \in {Null} \cup {f \in all : Failures /\ "pending" \in mode[f]} :
             mode' = [f \in FILEs |->
                        IF f \notin all \/ (bad # Null /\ Before(bad, f)) THEN mode[f]
                        ELSE (mode[f] \ {"pending"}) \cup (IF f = bad THEN {"err"} ELSE {})]
        /\ UNCHANGED <<head, next, alloc, fd, fds, leaked, done>>

\* stdout is flushed, the FILEs on the list are flushed and closed, whatever fails.
__stdio_close_all ==
    /\ mode' = [f \in FILEs |-> IF f = Stdout \/ f \in Listed(head)
                                THEN mode[f] \ {"pending"} ELSE mode[f]]
    /\ fd' = [f \in FILEs |-> IF f \in Listed(head) THEN NoFd ELSE fd[f]]
    /\ fds' = fds \ {fd[f] : f \in Listed(head)}
    /\ UNCHANGED <<head, next, alloc, leaked>>

ListInit ==
    /\ head = Null
    /\ next = [f \in FILEs |-> Null]
    /\ alloc = {}
    /\ mode = [f \in FILEs |-> IF f = Stdout THEN {"open"} ELSE {}]
    /\ fd = [f \in FILEs |-> IF f = Stdout THEN 1 ELSE NoFd]
    /\ fds = {1} /\ leaked = {}
    /\ done = "running"

ListCall ==
    \/ \E f \in FILEs : fopen(f) \/ fclose(f) \/ freopen(f) \/ fputc(f) \/ fflush(f)
    \/ fflushAll

-----------------------------------------------------------------------------

\* The list leads to FILEs that are allocated and it ends, although next fields
\* keep pointing at freed FILEs and calloc gives the same addresses out again.
ListSound ==
    Listed(head) \subseteq alloc /\ \A f \in Listed(head) : f \notin Listed(next[f])

\* Every descriptor is held by one FILE that is open, so no two FILEs close
\* each other's file and nothing leaks, but where freopen could not flush.
OneOwner ==
    done = "running" =>
      /\ \A n \in fds \ leaked : \E f \in FILEs : IsOpen(f) /\ fd[f] = n
      /\ \A f, g \in FILEs :
           IsOpen(f) /\ IsOpen(g) /\ fd[f] = fd[g] => f = g /\ fd[f] \in fds

=============================================================================
