------------------------------ MODULE Monitor ------------------------------
(***************************************************************************)
(* The emulators' monitor (emulators/emumon.c) and the place in the CPU    *)
(* loops that enters it (e6809_sstep in e6809.c, Z80Execute in             *)
(* libz80/z80.c).  An instruction at a breakpoint, or after a write to a   *)
(* watched address, calls monitor(); its step command executes             *)
(* instructions itself, which may call monitor() again.                    *)
(*                                                                         *)
(* The emulated program is any: each instruction goes to some address and  *)
(* writes some bytes, each once, so that their order does not matter.      *)
(***************************************************************************)
EXTENDS Integers, Sequences, SequencesExt

CONSTANTS
    MaxAddress,     \* the highest address, 0xFFFF
    Typed,          \* addresses the user may type, beyond MaxAddress some of them
    Slots,          \* the indices of brkpointlist
    MaxSteps,       \* bound on the argument of step
    MaxDepth,       \* bound on the depth of nested calls of monitor()
    Waits           \* whether the program has SYNC or CWAI instructions

ASSUME MonitorAssumption ==
    /\ MaxAddress \in Nat /\ Typed \subseteq Nat
    /\ MaxSteps \in Nat \ {0} /\ MaxDepth \in Nat \ {0} /\ Waits \in BOOLEAN

AddressSpace == 0 .. MaxAddress
None == -1

VARIABLES
    brkpointlist,   \* slot -> [addr, brktype]
    ignored_addr,
    write_brkpt,
    reg_pc,         \* or ctx->PC
    waiting,        \* irq_status: an instruction has stopped the CPU
    calls           \* the calls of monitor(), the innermost last: its curpc, the
                    \* steps run_instructions has left, and whether the caller
                    \* is the CPU loop

monitorVars == <<brkpointlist, ignored_addr, write_brkpt, reg_pc, waiting, calls>>

-----------------------------------------------------------------------------

\* Variant for mutation: the address stays ignored.
IgnoredForGood(a, ign) == ign

\* ignored_addr after is_breakpoint(a, ...).
IgnoredAfter(a, ign) == IF a = ign THEN None ELSE ign

\* Some slot has a breakpoint of type t at a.
Set(a, t) == \E i \in Slots : brkpointlist[i] = [addr |-> a, brktype |-> t]

is_breakpoint(a, t, ign) == a # ign /\ Set(a, t)

\* addr & 0xffff
Cut(a) == a % (MaxAddress + 1)

\* What the instruction at p may do: SYNC and CWAI stop the CPU, and CWAI
\* pushes the registers first.
Effects(p) ==
    [pc : AddressSpace, waiting : {FALSE}, written : SUBSET AddressSpace]
      \cup (IF Waits
            THEN [pc : {Cut(p + 1)}, waiting : {TRUE}, written : {{}}]
                   \cup [pc : {Cut(p + 2)}, waiting : {TRUE}, written : SUBSET AddressSpace]
            ELSE {})

\* The outcomes of one instruction at p: the PC, whether the CPU waits, what is
\* left of the ignored address, whether a watched byte was written, and the
\* value the function returns.
Instruction(p, ign, wb) ==
    IF waiting
    THEN {[pc |-> p, waiting |-> TRUE, ign |-> ign, wb |-> wb, ret |-> 1]}
    ELSE {[pc |-> e.pc, waiting |-> e.waiting,
           ign |-> IF ign \in e.written THEN IgnoredAfter(ign, ign) ELSE ign,
           wb |-> wb \/ \E a \in e.written : is_breakpoint(a, "write", ign),
           ret |-> e.pc] : e \in Effects(p)}

\* Variant for mutation: the address the instruction returned is dropped.
SteppedInPlace(cs, a) ==
    IF cs = <<>> THEN cs ELSE [cs EXCEPT ![Len(cs)].left = @ - 1]

\* The calls when an instruction that the innermost of cs stepped, if there is
\* one, has returned address a.
Stepped(cs, a) ==
    IF cs = <<>> THEN cs
    ELSE [cs EXCEPT ![Len(cs)].curpc = a, ![Len(cs)].left = @ - 1]

\* The instruction at p is executed below the calls cs.
Execute(p, ign, wb, cs) ==
    \E o \in Instruction(p, ign, wb) :
      /\ reg_pc' = o.pc /\ waiting' = o.waiting
      /\ ignored_addr' = o.ign /\ write_brkpt' = o.wb
      /\ calls' = Stepped(cs, o.ret)

AtPrompt == calls # <<>> /\ Last(calls).left = 0
Stepping == calls # <<>> /\ Last(calls).left > 0

\* Variant for mutation: write_brkpt is not tested.
EntersAtInst(ign) == is_breakpoint(reg_pc, "inst", ign)

\* The CPU loop falls into the monitor.
Enters(ign) == write_brkpt \/ is_breakpoint(reg_pc, "inst", ign)

\* One instruction for the main loop or for run_instructions, which first
\* ignores the breakpoint at its address: the monitor is entered, which looks
\* for the breakpoint once more to say so, or the instruction is executed.
sstep ==
    /\ ~ AtPrompt
    /\ LET ign == IF Stepping THEN Last(calls).curpc ELSE ignored_addr
           rest == IF write_brkpt THEN ign ELSE IgnoredAfter(reg_pc, ign)
       IN  IF Enters(ign)
           THEN /\ Len(calls) < MaxDepth
                /\ calls' = Append(calls, [curpc |-> reg_pc, left |-> 0, insstep |-> TRUE])
                /\ write_brkpt' = FALSE
                /\ ignored_addr' = IgnoredAfter(reg_pc, rest)
                /\ UNCHANGED <<reg_pc, waiting>>
           ELSE Execute(reg_pc, rest, write_brkpt, calls)
    /\ UNCHANGED brkpointlist

\* monitor() returns with the program to go on at p.  Called from the CPU loop
\* it is followed by the instruction there, without another test.
Return(p) ==
    IF Last(calls).insstep
    THEN Execute(p, ignored_addr, write_brkpt, Front(calls))
    ELSE /\ reg_pc' = p /\ calls' = Front(calls)
         /\ UNCHANGED <<ignored_addr, write_brkpt, waiting>>

exit == AtPrompt /\ Return(reg_pc) /\ UNCHANGED brkpointlist

go(a) == AtPrompt /\ Return(Cut(a)) /\ UNCHANGED brkpointlist

step(n) ==
    /\ AtPrompt
    /\ calls' = [calls EXCEPT ![Len(calls)].left = n]
    /\ UNCHANGED <<brkpointlist, ignored_addr, write_brkpt, reg_pc, waiting>>

EmptySlots == {i \in Slots : brkpointlist[i].brktype = "empty"}

\* brk and wbrk, in the first slot that is empty; without one nothing is set.
set_breakpoint(a, t) ==
    /\ AtPrompt /\ EmptySlots # {}
    /\ LET i == CHOOSE j \in EmptySlots : \A k \in EmptySlots : j <= k
       IN  brkpointlist' = [brkpointlist EXCEPT ![i] = [addr |-> a, brktype |-> t]]
    /\ UNCHANGED <<ignored_addr, write_brkpt, reg_pc, waiting, calls>>

\* The slots nbrk empties.
RemovedAt(a) == {i \in Slots : brkpointlist[i].addr = a}

\* nbrk: those at a, of either type, or all.
remove_breakpoint(S) ==
    /\ AtPrompt
    /\ brkpointlist' = [i \in Slots |-> IF i \in S THEN [brkpointlist[i] EXCEPT !.brktype = "empty"]
                                                 ELSE brkpointlist[i]]
    /\ UNCHANGED <<ignored_addr, write_brkpt, reg_pc, waiting, calls>>

\* main: with option -b a breakpoint, with -M the monitor first.
MonitorInit ==
    /\ \E i \in Slots, a \in AddressSpace \cup {None} :
         /\ \A j \in Slots : i <= j
         /\ brkpointlist = [j \in Slots |->
              IF j = i /\ a # None THEN [addr |-> a, brktype |-> "inst"]
                                   ELSE [addr |-> 0, brktype |-> "empty"]]
    /\ ignored_addr = None /\ write_brkpt = FALSE
    /\ reg_pc = 0 /\ waiting = FALSE
    /\ calls \in {<<>>, <<[curpc |-> reg_pc, left |-> 0, insstep |-> FALSE]>>}

MonitorNext ==
    \/ sstep
    \/ exit
    \/ \E a \in Typed : go(a)
    \/ \E n \in 1 .. MaxSteps : step(n)
    \/ \E a \in Typed, t \in {"inst", "write"} : set_breakpoint(a, t)
    \/ \E a \in Typed : remove_breakpoint(RemovedAt(a))
    \/ remove_breakpoint(Slots)

MonitorSpec == MonitorInit /\ [][MonitorNext]_monitorVars

-----------------------------------------------------------------------------

\* "It gets ignored for one is_breakpoint() call.": while the user is asked or
\* the program runs freely no breakpoint is ignored, whatever was stepped in
\* nested monitors before.  A CPU that SYNC or CWAI has stopped asks for no
\* breakpoint, and uses the address up no more.
IgnoredOnce == ~ Stepping /\ ~ waiting => ignored_addr = None

\* The program never runs through a breakpoint on its own, nor on after a write to
\* a watched address: the next step of the main loop is into the monitor, with
\* the program where it was.
StopsInTime ==
    [][calls = <<>> /\ (write_brkpt \/ (~ waiting /\ Set(reg_pc, "inst"))) =>
         calls' # <<>> /\ reg_pc' = reg_pc]_monitorVars

\* "Execute one instruction and get the address of the following instruction":
\* the address that the monitor steps from is where the CPU is, unless SYNC or
\* CWAI has stopped it.
FollowingInstruction == calls # <<>> /\ ~ waiting => Last(calls).curpc = reg_pc

=============================================================================
