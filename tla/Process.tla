------------------------------ MODULE Process ------------------------------
(***************************************************************************)
(* popen, pclose and system (libs/popen.c, libs/system.c): a program, the  *)
(* shells it starts, and the pipes between them.  The kernel's part, fork, *)
(* pipe, close, dup2 and wait, is that of any Unix: a pipe's reader sees   *)
(* the end of file when no process holds an end to write to it, a writer   *)
(* without a reader dies, and wait() takes any child that has ended.       *)
(*                                                                         *)
(* Child c uses pipe c.  The program's commands are of two kinds: one      *)
(* reads its input to the end, one writes some output; both then exit.     *)
(***************************************************************************)
EXTENDS Integers, FiniteSets

CONSTANTS
    Parent,         \* the program
    Children,       \* the processes it may start
    MaxFd,          \* descriptors are 0 .. MaxFd
    Initial,        \* the descriptors the program starts with
    Kinds,          \* subset of {"r", "w"}: the second argument of popen
    MaxStreams,     \* how many streams the program has open at once
    Capacity,       \* of a pipe, in writes
    Output,         \* how many writes a command makes at most
    UsesSystem,     \* whether it calls system()
    FdopenFails     \* whether fdopen may find no memory for a FILE

ASSUME ProcessAssumption ==
    /\ Parent \notin Children /\ IsFiniteSet(Children)
    /\ MaxFd \in Nat /\ Initial \subseteq 0 .. MaxFd
    /\ Kinds \subseteq {"r", "w"} /\ UsesSystem \in BOOLEAN /\ FdopenFails \in BOOLEAN
    /\ MaxStreams \in Nat /\ Capacity \in Nat \ {0} /\ Output \in Nat

Processes == Children \cup {Parent}
Fds == 0 .. MaxFd

\* What a descriptor may refer to: nothing, a terminal, an end of a pipe.
Free == <<"free">>
Tty == <<"tty">>
ReadEnd(c) == <<"read", c>>
WriteEnd(c) == <<"write", c>>

VARIABLES
    fdt,            \* process -> descriptor -> what it refers to
    stage,          \* child -> "none", "forked", "runs", "zombie" or "gone"
    kind,           \* child -> "r", "w" or "s", for system()
    made,           \* child -> the writes it has made
    filled,         \* pipe -> the writes that nobody has read
    orphans,        \* ghost: children whose FILE popen could not allocate
    stream,         \* streams open: child -> the FILE's descriptor
    pc,             \* "idle", "popen", "pclose" or "system"
    current         \* the child the call is about; the last one when idle

vars == <<fdt, stage, kind, made, filled, orphans, stream, pc, current>>

-----------------------------------------------------------------------------

Fresh == {c \in Children : stage[c] = "none"}
Alive(c) == stage[c] \in {"forked", "runs"}
Unreaped == {c \in Children : Alive(c) \/ stage[c] = "zombie"}

\* Some process holds end e.
Held(e) == \E q \in Processes, n \in Fds : fdt[q][n] = e

LowestFree(t) == CHOOSE n \in Fds : t[n] = Free /\ \A m \in Fds : t[m] = Free => n <= m

\* pipe(): the two lowest descriptors that are free, the reading end first.
Piped(t, c) ==
    LET one == [t EXCEPT ![LowestFree(t)] = ReadEnd(c)]
    IN  [one EXCEPT ![LowestFree(one)] = WriteEnd(c)]

\* The descriptor in table t that refers to e.
FdOf(t, e) == CHOOSE n \in Fds : t[n] = e

\* Variant for mutation: both sides given the same end.
TheirEndSame(c, k) == WriteEnd(c)

\* pipe_fd[reading], which the child keeps, and pipe_fd[!reading].
TheirEnd(c, k) == IF k = "r" THEN WriteEnd(c) ELSE ReadEnd(c)
OurEnd(c, k) == IF k = "r" THEN ReadEnd(c) ELSE WriteEnd(c)

\* reading: the descriptor a command of kind k has to find it at.
Standard(k) == IF k = "r" THEN 1 ELSE 0

\* popen up to fork(): the child has a copy of every descriptor, those of the
\* streams that are open among them.
popen(c, k) ==
    /\ pc = "idle" /\ Cardinality(DOMAIN stream) < MaxStreams
    /\ Cardinality({n \in Fds : fdt[Parent][n] = Free}) >= 2
    /\ fdt' = [fdt EXCEPT ![Parent] = Piped(fdt[Parent], c),
                          ![c] = Piped(fdt[Parent], c)]
    /\ stage' = [stage EXCEPT ![c] = "forked"]
    /\ kind' = [kind EXCEPT ![c] = k]
    /\ pc' = "popen" /\ current' = c
    /\ UNCHANGED <<made, filled, orphans, stream>>

\* The program's descriptors after close(pipe_fd[reading]).
ParentSide(t, c, k) == [t EXCEPT ![FdOf(t, TheirEnd(c, k))] = Free]

NULL == -1          \* no FILE

\* The streams when fdopen for c gave a FILE for descriptor fd, or NULL.
Fdopened(s, c, fd) ==
    IF fd = NULL THEN s ELSE [d \in DOMAIN s \cup {c} |-> IF d = c THEN fd ELSE s[d]]

\* The rest of popen in the program: fdopen of the other end.  When it fails
\* the end stays open and the child is left to itself.
popenParent ==
    /\ pc = "popen"
    /\ LET k == kind[current]
           ours == FdOf(fdt[Parent], OurEnd(current, k))
       IN  /\ fdt' = [fdt EXCEPT ![Parent] = ParentSide(fdt[Parent], current, k)]
           /\ \E fd \in {ours} \cup (IF FdopenFails THEN {NULL} ELSE {}) :
                 /\ stream' = Fdopened(stream, current, fd)
                 /\ orphans' = orphans \cup (IF fd = NULL THEN {current} ELSE {})
    /\ pc' = "idle"
    /\ UNCHANGED <<stage, kind, made, filled, current>>

\* Variant for mutation: the child keeps both ends.
ChildKept(t, c, k) ==
    LET theirs == FdOf(t, TheirEnd(c, k))
        closed == [t EXCEPT ![Standard(k)] = Free]
    IN  IF theirs # Standard(k)
        THEN [closed EXCEPT ![Standard(k)] = t[theirs], ![theirs] = Free]
        ELSE closed

\* The child's descriptors when it calls execl: the other side of the pipe is
\* closed, then the standard descriptor, and its own side moved there; one
\* that was there from the start is lost.
ChildSide(t, c, k) ==
    LET theirs == FdOf(t, TheirEnd(c, k))
        closed == [t EXCEPT ![FdOf(t, OurEnd(c, k))] = Free, ![Standard(k)] = Free]
    IN  IF theirs # Standard(k)
        THEN [closed EXCEPT ![Standard(k)] = t[theirs], ![theirs] = Free]
        ELSE closed

childExec(c) ==
    /\ stage[c] = "forked"
    /\ stage' = [stage EXCEPT ![c] = "runs"]
    /\ fdt' = IF kind[c] = "s" THEN fdt
              ELSE [fdt EXCEPT ![c] = ChildSide(fdt[c], c, kind[c])]
    /\ UNCHANGED <<kind, made, filled, orphans, stream, pc, current>>

-----------------------------------------------------------------------------
(* The commands                                                             *)

\* A child ends, and its descriptors are closed.
Ends(c) ==
    /\ stage' = [stage EXCEPT ![c] = "zombie"]
    /\ fdt' = [fdt EXCEPT ![c] = [n \in Fds |-> Free]]
    /\ UNCHANGED <<kind, made, filled, orphans, stream, pc, current>>

\* One read from the standard input: bytes, or the end of file.
childReads(c) ==
    /\ stage[c] = "runs" /\ kind[c] = "w"
    /\ LET e == fdt[c][0]
       IN  \/ /\ e = ReadEnd(c) /\ filled[c] > 0
              /\ filled' = [filled EXCEPT ![c] = @ - 1]
              /\ UNCHANGED <<fdt, stage, kind, made, orphans, stream, pc, current>>
           \/ /\ e # ReadEnd(c) \/ (filled[c] = 0 /\ ~ Held(WriteEnd(c)))
              /\ Ends(c)

\* One write to the standard output, or none and it is through.  Without a
\* reader SIGPIPE ends it.
childWrites(c) ==
    /\ stage[c] = "runs" /\ kind[c] = "r"
    /\ \/ /\ fdt[c][1] = WriteEnd(c) /\ Held(ReadEnd(c))
          /\ made[c] < Output /\ filled[c] < Capacity
          /\ made' = [made EXCEPT ![c] = @ + 1]
          /\ filled' = [filled EXCEPT ![c] = @ + 1]
          /\ UNCHANGED <<fdt, stage, kind, orphans, stream, pc, current>>
       \/ /\ fdt[c][1] # WriteEnd(c) \/ ~ Held(ReadEnd(c)) \/ made[c] = Output
          /\ Ends(c)

\* A command of system() uses neither.
childEnds(c) == stage[c] = "runs" /\ kind[c] = "s" /\ Ends(c)

Child(c) == childExec(c) \/ childReads(c) \/ childWrites(c) \/ childEnds(c)

-----------------------------------------------------------------------------
(* The program                                                              *)

\* It writes to a stream that has room, or reads from one that has something.
use(c) ==
    /\ pc = "idle" /\ c \in DOMAIN stream
    /\ \/ kind[c] = "w" /\ made[c] < Output /\ filled[c] < Capacity /\ Held(ReadEnd(c))
          /\ filled' = [filled EXCEPT ![c] = @ + 1]
          /\ made' = [made EXCEPT ![c] = @ + 1]
       \/ kind[c] = "r" /\ filled[c] > 0
          /\ filled' = [filled EXCEPT ![c] = @ - 1]
          /\ UNCHANGED made
    /\ UNCHANGED <<fdt, stage, kind, orphans, stream, pc, current>>

\* Variant for mutation: pclose that does not wait.
pcloseNoWait(c) ==
    /\ pc = "idle" /\ c \in DOMAIN stream
    /\ fdt' = [fdt EXCEPT ![Parent][stream[c]] = Free]
    /\ stream' = [d \in DOMAIN stream \ {c} |-> stream[d]]
    /\ UNCHANGED <<stage, kind, made, filled, orphans, pc, current>>

\* pclose up to wait(): fclose.
pclose(c) ==
    /\ pc = "idle" /\ c \in DOMAIN stream
    /\ fdt' = [fdt EXCEPT ![Parent][stream[c]] = Free]
    /\ stream' = [d \in DOMAIN stream \ {c} |-> stream[d]]
    /\ pc' = "pclose" /\ current' = c
    /\ UNCHANGED <<stage, kind, made, filled, orphans>>

system(c) ==
    /\ pc = "idle"
    /\ stage' = [stage EXCEPT ![c] = "forked"]
    /\ kind' = [kind EXCEPT ![c] = "s"]
    /\ fdt' = [fdt EXCEPT ![c] = fdt[Parent]]
    /\ pc' = "system" /\ current' = c
    /\ UNCHANGED <<made, filled, orphans, stream>>

\* Variant for mutation: system() takes the first child that comes.
AnyEnds(c) == TRUE

\* Variant for mutation: == for != in the loop's condition.
OtherEnds(c) == pc = "pclose" \/ c # current

\* The child whose end makes the caller of wait() go on: any for pclose, its
\* own for system.
WaitEnds(c) == pc = "pclose" \/ c = current

\* wait() takes a child that has ended; without children it fails, which ends
\* both calls.
wait ==
    /\ pc \in {"pclose", "system"}
    /\ \/ \E c \in Children :
            /\ stage[c] = "zombie"
            /\ stage' = [stage EXCEPT ![c] = "gone"]
            /\ pc' = IF WaitEnds(c) THEN "idle" ELSE pc
       \/ Unreaped = {} /\ pc' = "idle" /\ UNCHANGED stage
    /\ UNCHANGED <<fdt, kind, made, filled, orphans, stream, current>>

Init ==
    /\ fdt = [q \in Processes |->
                [n \in Fds |-> IF q = Parent /\ n \in Initial THEN Tty ELSE Free]]
    /\ stage = [c \in Children |-> "none"]
    /\ kind = [c \in Children |-> "s"]
    /\ made = [c \in Children |-> 0]
    /\ filled = [c \in Children |-> 0]
    /\ orphans = {}
    /\ stream = [c \in {} |-> 0]
    /\ pc = "idle" /\ current \in Children

Next ==
    \/ \E c \in Fresh, k \in Kinds : popen(c, k)
    \/ popenParent
    \/ \E c \in Fresh : UsesSystem /\ system(c)
    \/ \E c \in Children : use(c) \/ pclose(c)
    \/ wait
    \/ \E c \in Children : Child(c)

Spec == Init /\ [][Next]_vars

\* The kernel runs every process that can run, the program inside a call and
\* the commands alike.
FairSpec ==
    /\ Spec
    /\ WF_vars(wait) /\ WF_vars(popenParent)
    /\ \A c \in Children : WF_vars(Child(c))

-----------------------------------------------------------------------------

\* A command has its end of the pipe where it looks for it, and no other
\* descriptor of its own for either end; each stream has the other end.
PipeInPlace ==
    /\ \A c \in Children : stage[c] = "runs" /\ kind[c] # "s" =>
         \A n \in Fds : /\ n = Standard(kind[c]) <=> fdt[c][n] = TheirEnd(c, kind[c])
                        /\ fdt[c][n] # OurEnd(c, kind[c])
    /\ \A c \in DOMAIN stream : fdt[Parent][stream[c]] = OurEnd(c, kind[c])

\* Between calls the program has no more children than streams, but for those
\* that popen itself abandoned: every pclose takes one, and system leaves
\* none behind, so no zombies pile up.
NoOrphans ==
    pc = "idle" =>
      Cardinality(Unreaped) <= Cardinality(DOMAIN stream) + Cardinality(orphans)

\* system() does not return before its own command has ended and was waited
\* for, whatever other children end in the meantime.
SystemWaitsForItsOwn ==
    [][pc = "system" /\ pc' = "idle" => stage'[current] = "gone"]_vars

\* system() returns, also with streams open that its command inherits; and so does
\* pclose of the only stream if popen never failed half-way: its command sees the
\* end of its input, or has nobody to write to, and ends.
CallsReturn ==
    /\ pc = "system" ~> pc = "idle"
    /\ pc = "pclose" /\ DOMAIN stream = {} /\ orphans = {} ~> pc = "idle"

=============================================================================
