# A verification project for Fuzemsys

Fuzemsys is an environment for small computers: a C library and a set of
commands derived from FUZIX, and emulators for the 6809 and the Z80 that run
the resulting executables on a Unix host by turning the FUZIX system calls of
the emulated program into calls of the host. This directory holds TLA+ models
of the parts of it whose correctness depends on sequences of calls, on shared
state or on several processes, the TLC runs that check them, and proofs about
the allocator, the emulators' start-up, break and symbols, the monitor, the
environment, the search trees, the processes, the resolver, the life of streams
up to exit, and the way of a character from a window to the terminal.

* `tlc -config <Run>.cfg <module>` repeats a run,
* `tlapm <Module>Proofs.tla` repeats the proofs of a module (section 4),
* `PROJECT.json` lists components, runs, the lines of the source each
  definition stands for, hazards, mutants and theorems.

Paths below are relative to `src/`.

## 1. Inventory

### The emulators (`emulators/`)

| Part | State | Operations | Hard behaviour | Correct when |
|---|---|---|---|---|
| Program break (`syscalls.c`, loaders) | `initbrk`, `curbrk`, the CPU's stack pointer | `brk`, `sbrk`, load of an executable | 16-bit sums that wrap; a stack that moves after the check | the break stays above the BSS, and is below the stack as of the call; a sum outside is refused |
| Loading and start-up (`emu6809.c`, `emuz80.c`) | `optind`, `mapfile_loaded`, `Argv`, the emulated memory | `main()`: options, map files, the executable, the first stack frame | `main()` runs again in the same process for every `execve` | the program that runs is the one asked for, with its arguments |
| Other system calls (`syscalls.c`) | two name buffers, signal tables, open directories | ~70 calls translated to the host | `execve` re-enters `main()`; buffers handed out in turn; errno | the program sees FUZIX's results |
| Arguments (`set_arg_env`) | top of the emulated memory | strings and pointers laid out downwards | collision with the BSS | `argv` and `envp` are readable |
| CPU cores (`e6809.c`, `libz80`) | registers, memory, `irq_status` | one instruction | - | the instruction set's definition |
| Monitor (`emumon.c`) | `brkpointlist`, `ignored_addr`, `write_brkpt` | break, watch, step, go, exit | is called from inside an instruction that it steps itself | no breakpoint is lost or reported twice |
| Symbols (`mapfile.c`) | sorted `maparray`, `mapidx` cache | read a map, nearest symbol, symbol's address and end | a cache used across questions; ties; both ends of memory | an answer does not depend on earlier questions |
| Disassemblers (`d6809.c`, `z80dis.c`) | none | bytes to text | - | - |

### The C library (`libs/`)

| Part | State | Operations | Hard behaviour | Correct when |
|---|---|---|---|---|
| Allocator (`malloc.c`, `calloc.c`, `realloc.c`) | the ring of holes, `__mfreeptr`, block headers | malloc, free, calloc, realloc | splits and merges in every order; 16-bit sizes; a system that refuses | blocks never overlap, nothing leaks, contents are kept |
| Small allocator (`tinymalloc.c`) | one list | malloc, free | as above | as above |
| Streams (`stdio0.c`, `fgetc.c`, `ungetc.c`, `fputc.c`, `fread.c`, `fwrite.c`, `rewind.c`, ...) | buffer, `bufpos`, `bufread`, mode bits; the descriptor's offset | the stdio calls | one buffer and one offset for both directions; pushed-back bytes; short reads; failed writes | the stream is one position in one file |
| List of streams (`fopen.c`, `fclose.c`, `stdio0.c`) | `__IO_list`, the FILEs, descriptors | fopen, freopen, fclose, fflush(NULL), closing at exit | reuse of addresses, calls that fail half-way | the list holds allocated FILEs; every descriptor has one owner |
| Processes (`popen.c`, `system.c`) | descriptors, children, pipes | popen, pclose, system | three processes at once; inherited pipe ends; `wait` takes any child | calls return; children and ends are not mixed up |
| Environment (`setenv.c`, `putenv.c`, `getenv.c`) | `environ`, `last_environ`, `mall_env`, `extras` | setenv, unsetenv, putenv, getenv | two functions that each reallocate one array | the environment is a map; arrays are not freed in use |
| Search trees (`tsearch.c`, `tfind.c`) | the nodes | tsearch, tfind, tdelete, twalk | deletion of inner nodes | an ordered set |
| exit and atexit (`atexit.c`, `exit.c`, `crt0.s`) | a table of ten handlers, its count, -1 while the program ends | atexit, exit, `main()`'s return | handlers call the library, atexit and exit themselves; the stream handler runs last | each handler runs once, in reverse, and what it writes is flushed |
| Resolver (`resolv.c`) | the name server's answers, `errno`, the tries of a query, sockets | res_nsearch over a search list, res_nsend by datagram or stream | datagrams lost, late or duplicated; ten ways out of a query | the answer belongs to the question; sockets are closed; a search ends |
| curses (`libs/curses/`) | windows with a range of changes per line, `tmpwin`, `curscr`, the terminal | ~30 functions on windows, wnoutrefresh, doupdate, wgetch | three copies of the screen that must agree; row pointers passed around; echo and other writers on the terminal | no change is lost between a window and the terminal |
| exec family, directories, time, sorting, strings, numbers, regexp, passwords, mathematics | little or none | library functions | numeric edges | C's definitions |

### Commands (`cmds/`)

The Bourne shell (`cmds/sh`) is the only one with state of its own that lives
longer than a loop over the input: an allocator on `sbrk` (`blok.c`), job
control and traps. The compiler, the binary tools, the levee editor and the
simple commands are batch programs.

### How they interact

```
 program --calls--> malloc --brk/sbrk--> emulator's break      (MemBreak below Malloc)
    |                 ^
    |                 +---- FILEs, tree nodes, environment arrays
    +--> stdio calls --> buffer of a FILE --read/write/lseek--> descriptor  (Stdio)
    |        |
    |        +--> list of FILEs --fclose--> flush of each                   (StdioList)
    +--> atexit, exit --handlers, the last of them--> close all FILEs       (Exit over StdioList)
    +--> res_search --datagrams, streams--> name server                     (Resolver)
    +--> windows --wnoutrefresh--> tmpwin --doupdate--> curscr, terminal    (Screen)
    +--> popen/system --fork/pipe/wait--> shells and commands               (Process)

 emulator's main loop --> one instruction --> breakpoint? --> monitor()
                                ^                               |  step
                                +-------------------------------+           (Monitor)
        |
        +--> system call execve --> main() again: options, map files,
             break, arguments on the stack          (Exec over MemBreak and Mapfile)
 monitor, tracer, disassembler --addresses--> map file's table              (Mapfile)
```

The library is sequential: only signals and other processes run between its
steps, and it takes no locks. Where a call is not interrupted by anything the
model knows, it is one action; malloc's and free's loops are stepped, because
that they end is a property; popen, pclose and system are split where other
processes run, res_nsend where the network acts, and `main()` where it reads
state that an earlier `main()` may have left.

## 2. Modules

| Module | Models | State against the code | Actions against the code |
|---|---|---|---|
| `MemBreak` | `do_syscall`'s brk and sbrk, `load_executable` | `initbrk`, `curbrk`; `sp` is the CPU's stack pointer; `result` is the 16-bit result | `Load`, `Brk`, `Sbrk`, and `MoveStack` for the program |
| `Malloc` | malloc.c, realloc.c, calloc.c over `MemBreak` | memory is `next` and `size`, a header read at each address, so user bytes and headers overlap as they do; `freep` is `__mfreeptr`; `req`, `holes`, `owned` are ghosts | `EnterMalloc`, `ScanExact`, `ScanSplit`, `ScanOn`, `ScanGrow` (with brkmore) are malloc's loop; `EnterFree`, `FreeOn`, `FreeLink` free's; `Call...`/`Return...` the callers and what realloc and calloc add; `Fill`, `Push`, `OtherSbrk` the program |
| `Allocator` | what a caller relies on | areas with contents | allocate, release, resize, move, write |
| `Stdio` | the calls on one FILE | `fp` is the FILE with pointers as offsets from `bufstart`, `disk` the file and the descriptor's offset | one action per call, composed of `Flush` as the calls compose fflush |
| `ByteStream` | what a user of a stream relies on | a file, a position, the bytes ahead | get, unget, put, seek, move, tell, sync, refuse |
| `StdioList` | `__IO_list` and the life of FILEs | `next` fields survive free; `leaked` is a ghost | `fopen`, `fclose`, `freopen`, `fputc`, `fflush`, `fflushAll`; `__stdio_close_all` for `Exit` |
| `Exit` | atexit.c, exit.c, what crt0.s does after `main()` | `table`, `count` are `__atexit_table`, `__atexit_count`; `left` is the loop's count in `__do_exit`; `ran`, `cut` are ghosts | `atexit`, `exit`, `main` (its return), `handler` (one returns), `call` (the program or a handler calls the library) |
| `Process` | popen.c and system.c | descriptor tables, the stage of each child, pipes as counters; `orphans` is a ghost | `popen` up to fork, `popenParent`, `childExec`, `pclose`, `system`, `wait`; `use` is the program, `childReads`, `childWrites`, `childEnds` the commands |
| `Environ` | setenv.c, putenv.c, getenv.c | the array as a sequence with the `room` it was allocated with | `setenvNew`, `setenvOld`, `setenvNot`, `unsetenv`, `putenvName`, `putenv` |
| `SearchTree` | tsearch.c, tfind.c | nodes with `key`, `left`, `right`; a place is the pointer to a pointer | `tsearch`, `tfind`, `tdelete` by its cases `Put`, `Short` and `Splice`; `twalk` as the sequence of visits |
| `OrderedSet` | what search.h declares | a set of keys | search, find, delete |
| `Mapfile` | mapfile.c | `maparray` with the extra element, `mapidx`, `mapcnt` | `read_mapfile`, `readFails`, `get_symbol_and_offset`; the two other questions are operators |
| `Exec` | `main()`, `load_executable`, `set_arg_env`, `execve` | `optind`, `argc`, `argv`, `arglist` (execve's static array), `mapfile_loaded`; `mem` is the memory set_arg_env writes, byte by byte as parts of words and strings; `asked_of` is a ghost | `getopt`, `load_executable`, `readOwnMap`, `startProgram`; `program` is the emulated program (brk, sbrk, its stack, execve) or the tracer that asks for symbols |
| `Resolver` | res_nsearch, res_nquery, res_nsend, send_dg, send_vc of resolv.c, and the network | `cand` is the place in the search list; `try`, `v_circuit`, `gotsomewhere`, `terrno` as in res_nsend; `net` the datagrams under way; `lost`, `asked`, `sends` are ghosts | `res_nsearch`, `res_nquery`, `send_dg`, `recvfrom`, `recvfails`, `send_vc`; `server` and `lose` are the network |
| `Screen` | libs/curses | a window is its C structure, `line` the row pointers; `tmpwin`, `curscr`, `lastattr` as in doupdt.c; `shown` is the terminal; `intact`, `echoed` are ghosts | `Write`, `Erase`, `Arrange` are the functions of one window, one operator each; `newwin`, `delwin`, `wnoutrefresh`, `update` (doupdate), `wrefresh`, `redraw`, `wgetch`; `garble` is another writer |
| `Display` | what curses promises | what each window shows, what of it is still to be sent, the desired screen, its image, the terminal | draw, open, close, send, update, redraw, refresh, type, garble |
| `Monitor` | emumon.c and its place in both CPU loops | `calls` is the stack of nested `monitor()` calls with `curpc` and the steps left | `sstep` (one instruction or the entry to the monitor), `exit`, `go`, `step`, `set_breakpoint`, `remove_breakpoint` |
| `...Proofs` | theorems about the module they are named after; `EmulatorProofs` is about `MemBreak`, `Mapfile`, `Exec` and `Monitor`, `TableProofs` about `Environ` and `SearchTree`, `ExitProofs` also about `StdioList`, `ProcessProofs` also about `Stdio` | | |
| `Induction` | lemmas on numbers and recursion that the proofs share | | |
| `MC...` | values of constants for TLC | | |

`Malloc` extends `MemBreak`, `Exec` extends `MemBreak` and `Mapfile`, `Exit`
extends `StdioList`; `Allocator`, `ByteStream`, `OrderedSet` and `Display` are
abstract specifications that `Malloc`, `Stdio`, `SearchTree` and `Screen` are
shown to implement, by `INSTANCE ... WITH` a refinement mapping that the run
checks as a property (`IsAnAllocator`, `IsAByteStream`, `IsAnOrderedSet`,
`IsADisplay`).

What is abstracted: a byte is a model value and never a character; names, values
and symbols likewise; a `FILE`'s buffer has one to two bytes; a value of the
environment is its length; an instruction of the emulated program is any that
goes somewhere and writes any set of bytes, each of them once.

## 3. Runs

| Run | Checks | Bounds, and why they do |
|---|---|---|
| `exec_main` | `BreakAboveBss`, `EndIsNextSymbol`, `AnswerIsNearest`, `ArgsReadable`, `RunsWhatWasAsked` | words of 6 bits, so that strings and pointer tables of up to three arguments fill most of memory and sbrk wraps; images with the BSS below, and where the arguments are; map files out of order, empty, with ties, with a symbol at 0; two execves after the first start, to a longer and to a shorter vector, to a file that is missing and to one for the host; command lines with no, one and two options |
| `malloc_calls` | `BlocksDisjoint`, `RingOrdered`, `HolesApart`, `NothingLost`, `GrowsOnlyWhenFull`, `IsAnAllocator`, `CallsReturn` | words of 32 values and a heap of five units of four bytes: room for a hole between two blocks, with a merge on each side; a request that wraps, a product that wraps, a foreign sbrk that leaves an odd break, and a stack pointer that makes brk refuse |
| `stdio_stream` | `EofAtEnd`, `IsAByteStream`, `LossIsFlagged` | buffers of one and two bytes against files of up to four: every boundary of the buffer is crossed in both directions, and writes of three bytes exceed it. `MCPrograms` are the programs: the mixtures outside it are those of section 6. In the last two each read may fail and each write stop after any number of bytes, and `LossIsFlagged` is about them: one mixes all calls but rewind (which clears the error flag after its own flush) on a file of a byte or two, the other has space for the block pushed back, read and written that leaves `bufpos` behind the buffer |
| `stdio_fread` | `EnoughBuffered`, violated | section 6 |
| `files_calls` | `OneOwner`, `ListSound`, `EndsInOrder` | three FILEs on the heap, so that one lies between two others in the list; three descriptors, so that they run out; a table of three handlers, which can be full; `MaxHeld` bounds FILEs and handlers together |
| `files_exit` | `FlushedAtExit`, violated | section 6 |
| `process_calls` | `PipeInPlace`, `NoOrphans`, `SystemWaitsForItsOwn`, `CallsReturn` | three children, two streams at once, pipes of one write and outputs of two: a writer meets a full pipe; the program starts with 0, 1 and 2 open |
| `environ_calls` | `ArraysKept`, `StaysInside`, `IsAnEnvironment` | three names, two lengths of values, an array enlarged by two; `MaxExtras` bounds only how far free pointers pile up |
| `search_tree` | `WalksInOrder`, `IsAnOrderedSet` | six keys: a successor with a subtree of its own needs five, finding it in two steps needs six |
| `monitor_stops` | `IgnoredOnce`, `FollowingInstruction`, `StopsInTime` | three addresses and one beyond, two slots, so that the table fills up; monitors three deep, so that one is entered from one that was entered from a step |
| `resolver_search` | `AnswerBelongs`, `AsksSparingly`, `SocketsClosed`, `SearchEnds` | two domains and four kinds of names, so that a search asks up to three questions; two tries, one duplicate, answers of every kind; query numbers do not come back within a search |
| `curses_screen` | `RowsOwnedOnce`, `CurscrIsShown`, `IsADisplay` | a terminal of three lines and two columns: a scrolling region can be smaller than the screen, and a line has a middle range; seven programs of seven calls each, which together use all the functions |

`malloc_calls` also checks `TypeOK`, whose proof is the base of the others.
Each property of a passing
run has a mutant in `PROJECT.json`: a definition of the model changed as a slip
in the code would, with which TLC finds the property violated. The mutated forms
stand in the modules as "Variant for mutation" and are used nowhere else.

Deadlock is checked for the components that always have another call to make.
It is not for those that may stop for good: a process that has exited, a program
that has used all its children, a program that the emulator cannot load, an environment
with no memory left, a monitor as deep as the bound, a resolver that waits for a
datagram that was lost, and where the calls of a program are bounded.

### Fairness

* `Malloc!FairSpec` has weak fairness of `Library`, the next step of a call that
  is active: the process has the CPU and nothing inside the loops waits.
* `Process!FairSpec` has weak fairness of `wait`, `popenParent` and of each
  child's next step: the kernel runs every process that can run. The program
  itself is never obliged to make a call or to read a stream.
* `Resolver!Fairness` has weak fairness of the resolver's own steps, of `recvfrom`
  while a datagram for it is there, and of the server. Nothing obliges the
  network to lose or to keep a datagram: one that is lost is an exception in
  `SearchEnds`, because the code has no timer.

## 4. Proofs

Each theorem is about a specification as it stands, for every value of its
constants that satisfies the module's named assumption, and for every order of
calls. Where an invariant was strengthened, TLC checked the strengthened one on
the run's instance first.

| Module | Properties proved | Inductive invariant |
|---|---|---|
| `EmulatorProofs` | `BreakAboveBss` (of `MemBreak` alone and of `Exec`), `AnswerIsNearest`, `EndIsNextSymbol`, `ArgsReadable`, `RunsWhatWasAsked` | `ExecInv`: `MemInv`, `TableInv`, `Loaded`, `Asked`, `Placed` |
| `MallocProofs` | `TypeOK`, `BlocksDisjoint`, `RingOrdered`, `HolesApart`, `NothingLost`, `GrowsOnlyWhenFull`, `IsAnAllocator` | `Inv`: `TypeOK`, `Shape`, `CapacityHeld`, `CallOK`; `Searched` |
| `EmulatorProofs`, of `Monitor` | `IgnoredOnce`, `FollowingInstruction`, `StopsInTime` | `MonitorInv`: `Nested`, `NothingIgnored`, `FollowingInstruction` |
| `TableProofs`, of `SearchTree` | `HoldsItsNodes`, `WalksInOrder`, `IsAnOrderedSet` | `TreeInv`: some `u` with `Sorted` of the tree, the keys, the nodes and `u` |
| `TableProofs`, of `Environ` | `ArraysKept`, `StaysInside`, `IsAnEnvironment` | `Inv`: `OwnArrays`, `Distinct`, `Sized`, `Counted` |
| `ScreenProofs` | `RowsOwnedOnce`, `CurscrIsShown`, `IsADisplay` | `ScreenInv`: `Sound` and `OnScreen` of each window, `Flat`, `Curscr`, `Pending`, `CurscrIsShown` |
| `ProcessProofs` | `NoOrphans`, `SystemWaitsForItsOwn`, `PipeInPlace` | `Inv`: `Counted`, `Few`; `Placed` |
| `ProcessProofs`, of `Stdio` | `LossIsFlagged`, `EofAtEnd` | `StreamInv`: `InTune` of the FILE, the file and what was lost |
| `ResolverProofs` | `SocketsClosed`, `AsksSparingly`, `AnswerBelongs` | `Types`; `Asking`, `Counts`; `Budgeted`, `OwnIds` |
| `ExitProofs` | `ListSound`, `OneOwner`, `EndsInOrder` | `EndInv`: `Sound`, `Owned`, `Running`, `Exiting`, `Exited` |

Every invariant also has its types. The arguments:

**Break, start-up and symbols** (`EmulatorProofs`). The type invariant with
`BreakAboveBss` is inductive by itself, since `Refused` compares the wrapped sum
and not the exact one. `TableInv` says that the array of
symbols is in order and ends with the extra element, whatever order `qsort`
leaves ties in; below the top an entry found is then the only place between an
address at or below the question and one above it (`FoundIs`), wherever the
cached index points. For the stack, `Above` sums the strings from the i-th on:
where all of it fits, no position wraps, strings follow one another without a
gap (`StringsAt`), the words end where the strings begin (`FrameIs`), and so
each byte of memory is of the one thing it was written for (`WordAt`,
`StringThere`). `Placed` carries this from `startProgram` on while the program
runs, and `Asked` relates the vector of `main()` to the last execve, NULL
included, so that nothing of an older vector counts.

**Allocator** (`MallocProofs`). None of `BlocksDisjoint`, `RingOrdered`,
`HolesApart` and `CapacityHeld` is inductive. `Inv` joins them with `Segment` (the
root lies below the BSS and never has a size of its own, so that the ring has a
lowest member which no merge touches) and `CallOK`: what the variables of an
active call mean, above all that malloc's cursor and its predecessor are
neighbours on the ring, that `nblocks` holds the request, and that realloc's old
block is still held and smaller. The argument goes by what a step does to the set
of holes. Lemmas about a ring say what removing, splitting and inserting a member
does to the successors (`RingRemove`, `SuccessorSplits`, `RingInsert`), lemmas about
the layout what splitting, merging and growing does to the blocks (`LayoutSplit`,
`LayoutMerge`, `LayoutGrow`). `FreeLink` is the hard step: free's search ends at
the one gap around the block (`SearchEnds`), and then the two merges are four
cases. `NothingLost` follows from what cutting, merging and adding blocks does to
the bytes they cover (`Cut`, `Merge`, `Add`); `GrowsOnlyWhenFull` from `Searched`:
the holes that the orbit has passed are too small, and it has passed all when it
is back at the free pointer. That every step is one of `Allocator` or a stutter is
proved action by action, with the areas and contents of the refinement mapping.

**Monitor**. Monitors nest: each but the innermost is executing a step, and only
the outermost can have been called from outside the CPU loop. Then the number of
the instruction that a monitor believes in can only be out of date in a monitor
that is executing, which is what `FollowingInstruction` says of the others.

**Search trees**. Paths in a tree would need induction over data; the invariant says
instead that there are sets `u[n]`, the nodes at and below each node n, which fit
together (`Sorted`): what is in `u[n]` has its smaller keys in the set of n's left
branch and its larger ones in that of the right (`Hangs`), and two sets are apart or
one is within the other (`Within`). Everything else follows from these sets and the
numbers of their members: a node hangs at one place only (`OnlyPlace`); the search
goes to a smaller set with each turn and so ends at the key or where it belongs
(`PlaceIs`); the loop that looks for the successor ends at the least key of the right
subtree (`FirstIs`). A new node joins the sets along its path (`GrownIsSorted`). A node that
is taken out leaves them: it is replaced by its only branch (`Replaced`, D1 in
tsearch.c), or its successor s takes over its set, while s leaves the sets of the
right subtree (`Succeeded`, D2 and D3). `BelowRoot` computes the nodes that can be
reached, `WalkMeets` the walk, both by the size of the sets; and with `HoldsItsNodes` in
the states before and after a step each call is one of `OrderedSet`'s. (`HoldsItsNodes` has
no run of its own: `WalksInOrder`, whose walk visits what is reached, says it too.)

**Environment**. The array in use is setenv's, putenv's or the one the program
started with, and what is allocated is exactly what the two functions remember
(`OwnArrays`). Names are distinct, so that the first string found is the only one,
and removing it or adding another is an update of one value of `Environment`.

**Processes**. Children that have not been taken by `wait` are no more than the
streams, the orphans and the one of the call in progress (`Few`), which with the
loop in `pclose` and `system` gives `NoOrphans`. `Placed` says where each
end of each pipe is in every table of descriptors at every stage: both ends once and
above 1 before the child has moved its own, none where the pipe is not yet made.
The theorem assumes `{0, 1} \subseteq Initial`: section 6 has what popen does in a
program that has closed its standard input.

**Resolver**. `Asking` compares the questions asked with the candidates the search is
past, and needs that the search list names no domain twice (`NoDomainTwice`);
`Counts` bounds tries and datagrams. For `AnswerBelongs` every datagram under way
has the question of its number (`OwnIds`), which needs that numbers do not come
back: `NoIdTwice` says that all queries of a run are fewer than the numbers. With 16-bit
numbers that is the code's own reliance, and late answers of a wrapped number are
its limit.

**Screen** (`ScreenProofs`). `Draws(w, v)` is what a function of one window
promises: v is sound, has the place and the size of w, and each cell in which they
differ is in the range of changes of its line in v, as is every cell that was in a
range of w. It is transitive, so that a function which works line by line or column
by column (`wclrtobot`, `wbox`, `overlay`, a tab) draws because each turn does:
`Induction`'s `UpFrom` and `RecursionFrom` are about such runs. `Sound` says that
the lines point to rows of their own (`Lined`, which is `RowsOwnedOnce`), that each
range of changes is empty or within its line, and that the cursor is in the scrolling
region, which is what keeps `winsertln` and `wdeleteln` from losing a row. `HasSent` says what tmpwin and its ranges have
after `wnoutrefresh`, cell by cell, and `Paints` what terminal and curscr have after
`doupdate`. Between the two stands `Pending`, the heart of `ScreenInv`: a cell in
which tmpwin and curscr differ is in a range of tmpwin, or an echoed key stands there. With it `doupdate`, which looks at nothing
outside the ranges, leaves nothing out, and each call is a step of `Display`.

**Streams and exit**. `__IO_list` is a set closed under `next` and the least one
from the head (`Chain`), which is what `Listed` computes in as many rounds as there are
FILEs (`Walk` and `Induction`'s `Recursion`). `Sound` says it stays among allocated FILEs and
never comes back to a member, also after fclose has cut off more than its
FILE. `Exiting` counts handlers: those that ran are the table's last, in reverse.

**One FILE** (`Stdio`, in `ProcessProofs`). `InTune` is about a FILE, a
file and a record of loss rather than about the variables, because a call goes
through several such states: it holds before and after each flush (`StartIs`), and
each call is followed from one to the next. For the end-of-file flag it
says more than `EofAtEnd` does: the offset is at the end of the file and nothing
unread is in the buffer, and a FILE that fseek may move within its buffer has
nothing there to go back to. That is where fread's comparison of unsigned
numbers matters: a negative number of bytes buffered is a large one, and a
buffer of less than 65536 bytes makes a positive one exact (`TakenIs`). The theorems
exclude what the code does get wrong: rewind where writes fail, which drops the
result of its flush and clears the flag, and fgetc with fread and fseek in one
program (section 6).

**`Induction`** has the facts that take the place of induction rules: a set of
numbers has a least one; a function with a first value and a step exists, also from
another number than 0 on, which makes the recursive functions of `Listed`, `Sum` and
the loops of curses known by their equations; and what every step keeps the run keeps.

Assumptions beyond the types of the constants: word sizes are even and hold two
headers, the root lies below every image, another user of sbrk takes a positive
amount, callers never ask realloc for a size whose sum with the header overflows
(`ReallocFits`; malloc tests for that and realloc does not, section 6); an argument
vector given to execve has at least its first element and fits into `arglist`
(`MAX_ARGS`, which the code does not test), no name is NULL, no file is
a binary for both machines; the sets of names, children and FILEs are finite;
putenv enlarges by at least one pointer (`ADD_NUM`); the letters a program writes are
none of the control characters that `waddch` acts on, and the windows it asks for lie on
the screen, which `newwin` does not test (`ProgramAssumption`); the buffer of a FILE is smaller
than the 65536 values of an unsigned int; those of `PipeInPlace`, `AsksSparingly`,
`AnswerBelongs`, `LossIsFlagged` and `EofAtEnd` above.

Model-checked only: the refinement `IsAByteStream` of `Stdio`, which has no proof
yet; and the liveness properties `CallsReturn` and `SearchEnds`, which are outside
what the prover does, as are `ENABLED` and modules with `RECURSIVE` operators.

## 5. Hazards

`PROJECT.json` lists what is hard to test in this code, each at its line. The
themes: two directions and one offset in a stream; a ring of holes that free
must hit in the right place; numbers that wrap at 16 bits; calls that fail
half-way; state that outlives the object it describes (`extras`, `mapidx`,
`ignored_addr`, `next` fields of freed FILEs, `optind` and `arglist` across
execve); copies that must agree (a window, `tmpwin`, `curscr`, the terminal);
answers that come late or twice; and processes that hold the ends of each
other's pipes.

## 6. Where the code does something else

Two are kept as runs that TLC finds violated:

* `stdio_fread`: fread advances `bufpos` by the whole request when it takes only
  the buffered part (libs/fread.c:43), so that the next fread finds a negative
  number of buffered bytes, compares it as unsigned and takes the branch "Enough
  buffered".
* `files_exit`: fclose searches the list without moving `prev` (libs/fclose.c:30-40)
  and so cuts every FILE opened after it off `__IO_list`; exit does not flush
  them.

The others follow. Each was seen as a counterexample of the formula given, with
the constants given, and each explains a guard or a condition in a property.

| Where | What happens | Seen with |
|---|---|---|
| `emulators/syscalls.c:962` | an sbrk below zero wraps to the top of memory and is granted when the stack is above it, against the comment of lines 948-949, "If below the initial brk or in the stack, return an error" | `MemBreak` with `Word = 64`, `LoadAddrs = {5}`, `StackPointers = {60}`, `Requests = {50}`: `[][\A w \in Requests : Sbrk(w) /\ (curbrk + Signed(w) < initbrk \/ curbrk + Signed(w) >= sp) => result' = Failed]_memVars` |
| `libs/realloc.c:37` | the number of blocks is computed as in malloc, but without the test for an overflow that the header (7-8) announces; a huge request gets the old block back | `Malloc` with `ReallocSizes = {27}`: `CapacityHeld` |
| `libs/realloc.c:48` | without memory realloc returns the old block, where `cmds/simple/ls.c:304` expects NULL and takes the block for a larger one | `Malloc` with `ReallocSizes = {20}`: at a return from realloc, `want <= Capacity(ReallocResult - Unit)` |
| `libs/calloc.c:15` | the product wraps, as the FIXME above it says: the caller gets a block of the wrapped size | `Malloc` with `CallocSizes = {<<9, 8>>}`: at a return from calloc to a caller, 72 is at most the block's `Capacity` |
| `libs/fwrite.c:43` | "But first we check to see if there's space in the buffer" (15): after an ungetc and a longer fread `bufpos` lies behind the buffer, the negative number of free bytes is compared as unsigned (40, 43), and the bytes are copied behind the buffer | `Stdio` with ungetc, fread of two bytes and fwrite on a buffer of one: `fp.writing => fp.bufpos <= Len(fp.buf)` |
| `libs/fread.c:46` | a direct read leaves older bytes in the buffer that fseek's short cut then trusts | `Stdio` with fgetc, fread, fseek: `IsAByteStream` |
| `libs/fputc.c:9` | a byte pushed back on a fresh update stream and read is written to the file by the next fputc, as ungetc does not set `__MODE_READING` | `Stdio` with fgetc, ungetc, fputc on an update stream: only `PutBytes` in `Pending(fp)` while writing |
| `libs/ungetc.c:4` | a byte pushed back at the end of the file is not read, as the flag stays | `EofAtEnd` without `fp.ungot` |
| `libs/stdio0.c:18` | fflush(NULL), "flush the lot", stops at the first FILE that fails | `StdioList`: after `fflushAll` nothing on the list is pending |
| `libs/fopen.c:28` | freopen goes on when its fclose failed, and forgets that descriptor | `OneOwner` without `leaked` |
| `libs/popen.c:17` | in a program that has closed its standard input, the reading end of popen's pipe is descriptor 0: the child closes it as the old standard input, finds the end in place and execs without it, although line 18 provides for the case; likewise with 0 and 1 closed and a command that writes | `Process` with `Initial = {1, 2}`: `PipeInPlace` |
| `libs/popen.c:29` | when fdopen fails the pipe's end stays open and the child is never waited for | `NoOrphans` and `CallsReturn` without `orphans` |
| `libs/putenv.c:34` | `extras` counts the free pointers of an array that setenv has replaced by one of exactly the size it needs; putenv then writes behind it | `Environ` with four names: `Fits` |
| `emulators/mapfile.c:43` | the loop that frees the old entries leaves `i` at their number, from where a second file is stored | `Exec` with a command line that has two options `-m`: `Readable` |
| `emulators/mapfile.c:52` | a file that cannot be opened leaves `maparray` dangling, and the next call frees it again | `Exec` with `-mlast -mgone -mlast`: `[][freed => freed']_vars`, the array is freed once more |
| `emulators/mapfile.c:157` | address 0xFFFF is answered with NULL whatever symbols there are | `AnswerIsNearest` for all of `Addresses` |
| `emulators/e6809.c:1243` | while SYNC or CWAI has stopped the CPU `e6809_sstep` returns a number of cycles, which the monitor takes for an address | `FollowingInstruction` without `~ waiting` |
| `emulators/e6809.c:1190` | a step after an instruction that wrote to a watched address enters a second monitor instead of executing, against emumon.c:324-326 | `Monitor`: no call of monitor() is added by the first step of a step command |
| `emulators/emu6809.c:183` | execve's `main()` starts getopt at the `optind` of the first one: an emulator that was started with options skips as many words of the new command line, among them the executable's name | `RunsWhatWasAsked` without `Plain` |
| `emulators/emu6809.c:218` | `mapfile_loaded` survives execve: the second program is traced with the symbols of the first | `Exec`: at the start of a program with a map, the table is that map |
| `emulators/syscalls.c:844` | the new program's `argv[0]` is the name on the host, and its environment the emulator's own: execve's `envp` is not looked at | `RunsWhatWasAsked` with `Argv = asked_of.argv` |
| `libs/6809/crt0.s:29` | on the 6809 `main()`'s return ends the process without exit: no handler runs and stdout is not flushed; the Z80's crt0.s calls exit | `Exit` with `MainExits = FALSE`: `EndsInOrder` without `~ cut` |
| `libs/atexit.c:33` | exit from a handler ends the process without the handlers that are left, the closing of the streams among them | `EndsInOrder` without `~ cut` |
| `libs/resolv.c:1055` | a negative answer sets no errno, and what dn_find left there ends the search: of the search list only the first domain is ever asked | `Resolver`: `pc = "done" /\ name.dots = 0 /\ errno = "EIO" => Len(asked) = Len(dnsrch) + 1` |
| `libs/resolv.c:801` | recvfrom waits without a timer, so that a lost datagram stops the program | `SearchEnds` without `lost` |
| `libs/curses/wgetch.c:18` | an echoed key gets the terminal's current attributes and curscr those of the last window: the difference stays on the screen | `CurscrIsShown` with attributes for programs that use wgetch |

Seen while reading and not part of a model: in `emulators/syscalls.c` signal()
indexes its table by the caller's number before it is translated (982), `_pause`
falls into `kill` (990-1003), getgid leaves its case before the result is set
(1014-1016) and waitpid takes its first argument as unsigned (1064). In
`libs/resolv.c` a failure leaves the loop over the name servers, so that only the
first is asked (907, 919), and send_vc does not compare numbers.
In `libs/curses` werase, wclear and wclrtobot only reach the scrolling region,
doupdate always writes the lower right corner although its test means not to
(doupdt.c:48-63), and subwindows share rows whose pointers go stale when the
parent scrolls (newwin.c:121-128).

Two more, outside the models: main allocates one byte too few for the name of
the map file (`emulators/emu6809.c:219`), and opendir does not free its buffer
when the directory cannot be opened (`libs/opendir.c:16`).

## 7. Not modelled

* CPU cores, disassemblers and the Z80 generator: a model would be a second
  interpreter, and TLC could not run a program on it.
* Formatted input and output, strings, mathematics, regular expressions,
  encryption: pure functions of their input, most of them imported; the
  repository tests them in `tests/`.
* Compiler, binary tools, editor and simple commands: batch programs.
* The shell: the richest program of the repository, with an allocator of its own,
  jobs and traps.  It would be the next component.
* Within what is modelled: the emulators' options but for `-m`; the other
  system calls, which keep no state of their own; subwindows, attributes of
  blanks on the terminal, keys without echo, `^X` for control characters; the
  resolver's rotation of servers and its parsing of answers; streams on terminals and pipes, text translation
  (`__MODE_IOTRAN`), append mode, elements larger than a byte;
  `system`'s signal dispositions; parsing of the monitor's commands; a second
  map file's entries behind the array; other arrays of the environment than
  those of section 2.

## 8. Plan

Done, in this order: `MemBreak`, `Malloc` with `Allocator`, the proofs about
both, `Stdio` with `ByteStream`, `StdioList`, `Process`, `Mapfile`, `Monitor`,
`SearchTree` with `OrderedSet`, `Environ`, `Exec` over `MemBreak` and `Mapfile`,
`Screen` with `Display`, `Resolver`, `Exit` over `StdioList`; then the proofs about
all of them.

Next:

1. The shell: `blok.c`'s allocator on sbrk, then jobs, wait and traps.
2. The monitor composed with `Exec`: breakpoints and `ignored_addr` that outlive
   a program.
3. `Signals`: the emulators' signal table and system()'s dispositions.
4. Pure algorithms against reference definitions: qsort, calendar conversions,
   strtol's overflow.

Theorem worth proving next: `Stdio`'s refinement of `ByteStream`, from an invariant
like `InTune` which also says that the buffer holds the bytes of the file before the
offset.
