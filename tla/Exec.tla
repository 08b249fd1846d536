-------------------------------- MODULE Exec --------------------------------
(***************************************************************************)
(* How a program gets into an emulator: main() (emulators/emu6809.c, the   *)
(* same in emuz80.c) parses the command line, reads map files, loads the   *)
(* executable and lays out arguments and environment below the top of      *)
(* memory; execve (emulators/syscalls.c) calls main() again in the same    *)
(* process.  MemBreak is what the program then does with its break,        *)
(* Mapfile the symbol table that outlives the program.                     *)
(***************************************************************************)
EXTENDS MemBreak, Mapfile

CONSTANTS
    Bytes,          \* name, or other argument -> its length with the final NUL
    Rooted,         \* name -> the name under FUZIXROOT; relative ones stay
    Images,         \* host name -> [bssend, map]: FUZIX binaries; map holds at most one file
    Natives,        \* host names of binaries for the host
    Envp,           \* default_envp
    Options,        \* "-mfile" -> the map file, as in Images
    CommandLines,   \* argument vectors of the first main()
    Calls,          \* [path, argv] passed to execve
    StackTop,       \* 0xFDFF (6809), 0xFFFF (Z80)
    MaxArgs,        \* MAX_ARGS, the length of arglist
    MaxExecs        \* bound on the calls of execve

Names == DOMAIN Bytes
Emuname == "emulator"

ASSUME ExecAssumption ==
    /\ \A s \in Names : Bytes[s] \in Nat \ {0}
    /\ NULL \notin Names /\ Emuname \in Names /\ Rooted \in [Names -> Names]
    /\ DOMAIN Images \subseteq Names /\ DOMAIN Images \cap Natives = {}
    /\ \A s \in DOMAIN Images : Images[s].bssend \in Words
    /\ \A s \in DOMAIN Images : Images[s].map = <<>> \/ Images[s].map[1] \in MapFiles
    /\ \A s \in DOMAIN Options : Options[s] = <<>> \/ Options[s][1] \in MapFiles
    /\ Envp \in Seq(Names) /\ CommandLines \subseteq Seq(Names)
    /\ Calls \subseteq [path : Names, argv : Seq(Names) \ {<<>>}]
    /\ MaxArgs \in Nat /\ \A call \in Calls : Len(call.argv) + 2 <= MaxArgs
    /\ StackTop \in Words /\ MaxExecs \in Nat

VARIABLES
    pc,             \* where main() is; "run" is the emulated program
    optind,         \* getopt's, which nothing resets
    argc, argv,     \* of the main() that runs; argv[i + 1] is argv[i] in C
    arglist,        \* the static array that execve fills
    mapfile_loaded,
    mem,            \* the bytes set_arg_env wrote
    posn,           \* the stack pointer it returned
    asked_of,       \* ghost: the [path, argv] last asked for
    execs           \* calls of execve

execOnly == <<pc, optind, argc, argv, arglist, mapfile_loaded, mem, posn, asked_of, execs>>
execVars == <<memVars, vars, execOnly>>

-----------------------------------------------------------------------------
(* main                                                                     *)

Arg(i) == IF i < Len(argv) THEN argv[i + 1] ELSE NULL

\* Argv: the executable and its arguments, up to a NULL and not up to argc.
Argv ==
    LET ends == {i \in optind .. Len(argv) : Arg(i) = NULL}
    IN  SubSeq(argv, optind + 1, Min(ends))

\* read_mapfile as main() calls it.
Read(map) ==
    IF map = <<>> THEN readFails /\ UNCHANGED mapfile_loaded
    ELSE read_mapfile(map[1]) /\ mapfile_loaded' = TRUE

\* The loop over getopt, which starts where the last call of main() ended.
getopt ==
    /\ pc = "getopt"
    /\ IF optind < argc /\ Arg(optind) \in DOMAIN Options
       THEN /\ Read(Options[Arg(optind)])
            /\ optind' = optind + 1 /\ UNCHANGED pc
       ELSE pc' = "load" /\ UNCHANGED <<vars, optind, mapfile_loaded>>
    /\ UNCHANGED <<memVars, argc, argv, arglist, mem, posn, asked_of, execs>>

\* load_executable up to its decision: a FUZIX binary, one for the host, or exit(1).
load_executable ==
    /\ pc = "load"
    /\ pc' = CASE Arg(optind) \in DOMAIN Images -> "map"
               [] Arg(optind) \in Natives -> "native"
               [] OTHER -> "exited"
    /\ UNCHANGED <<memVars, vars, optind, argc, argv, arglist, mapfile_loaded, mem,
                   posn, asked_of, execs>>

\* The map file next to the executable, unless one was loaded before.
readOwnMap ==
    /\ pc = "map" /\ pc' = "args"
    /\ LET map == Images[Arg(optind)].map
       IN  IF ~ mapfile_loaded /\ map # <<>>
           THEN Read(map)
           ELSE UNCHANGED <<vars, mapfile_loaded>>
    /\ UNCHANGED <<memVars, optind, argc, argv, arglist, mem, posn, asked_of, execs>>

-----------------------------------------------------------------------------
(* set_arg_env                                                              *)

Sum(s) ==
    LET sum[n \in 0 .. Len(s)] == IF n = 0 THEN 0 ELSE sum[n - 1] + s[n]
    IN  sum[Len(s)]

\* Variant for mutation: the string without its NUL.
Unterminated(s) == Bytes[s] - 1

\* len in set_arg_env.
Room(s) == Bytes[s]

\* Below the NULL on top lie the strings, the first lowest: where string i is.
StringAt(strings, i) ==
    (StackTop - 2 - Sum([k \in 1 .. Len(strings) - i + 1 |-> Room(strings[i + k - 1])])) % Word

\* The arrays of pointers, upwards from argvposn.
Table(aposn, eposn) == aposn \o <<0>> \o eposn \o <<0>>

\* The words that set_arg_env leaves at the stack pointer, upwards.
Frame(args, envp) ==
    LET strings == args \o envp
        at(i) == StringAt(strings, i)
        table == Table([i \in 1 .. Len(args) |-> at(i)],
                       [i \in 1 .. Len(envp) |-> at(Len(args) + i)])
        argvposn == (StringAt(strings, 1) - 2 * Len(table)) % Word
        envpposn == (argvposn + 2 * (Len(args) + 1)) % Word
    IN  [posn |-> (argvposn - 6) % Word,
         words |-> <<Len(args), argvposn, envpposn>> \o table]

Empty == <<"", 0>>

\* Byte a of memory: of a word of the frame, else of a string.
Byte(a, strings, frame) ==
    LET w == ((a - frame.posn) % Word) \div 2 + 1
        covers == {i \in DOMAIN strings :
                     (a - StringAt(strings, i)) % Word < Bytes[strings[i]]}
    IN  IF w <= Len(frame.words)
        THEN <<IF (a - frame.posn) % 2 = 0 THEN "lo" ELSE "hi", frame.words[w]>>
        ELSE IF covers = {} THEN Empty
        ELSE LET i == Min(covers)
             IN  <<strings[i], (a - StringAt(strings, i)) % Word>>

\* set_initial_brk, set_arg_env and the reset of the CPU.
startProgram ==
    /\ pc = "args" /\ pc' = "run"
    /\ LET frame == Frame(Argv, Envp)
       IN  /\ Load(Images[Arg(optind)].bssend, frame.posn)
           /\ mem' = [a \in Words |-> Byte(a, Argv \o Envp, frame)]
           /\ posn' = frame.posn
    /\ UNCHANGED <<vars, optind, argc, argv, arglist, mapfile_loaded, asked_of, execs>>

-----------------------------------------------------------------------------
(* execve, and the program                                                  *)

Exists(s) == s \in DOMAIN Images \cup Natives

\* The translated name if there is such a file, else the name itself.
HostName(s) == IF Exists(Rooted[s]) THEN Rooted[s] ELSE s

\* Variant for mutation: the vector keeps what an earlier call left behind it.
VectorUnended(call) ==
    LET new == <<Emuname, HostName(call.path)>> \o Tail(call.argv)
    IN  [i \in 1 .. Len(arglist) |-> IF i <= Len(new) THEN new[i] ELSE arglist[i]]

\* arglist for main(): the emulator's name, the executable instead of the
\* caller's argv[0], the other arguments, a NULL, and what was there before.
Vector(call) ==
    LET new == <<Emuname, HostName(call.path)>> \o Tail(call.argv) \o <<NULL>>
    IN  [i \in 1 .. Len(arglist) |-> IF i <= Len(new) THEN new[i] ELSE arglist[i]]

execve(call) ==
    /\ execs < MaxExecs /\ execs' = execs + 1
    /\ IF Exists(HostName(call.path))
       THEN /\ arglist' = Vector(call)
            /\ argv' = arglist' /\ argc' = Len(call.argv) + 1
            /\ asked_of' = [path |-> HostName(call.path), argv |-> call.argv]
            /\ pc' = "getopt" /\ UNCHANGED result
       ELSE /\ arglist' = [arglist EXCEPT ![1] = Emuname, ![2] = HostName(call.path)]
            /\ result' = Failed
            /\ UNCHANGED <<argv, argc, asked_of, pc>>
    /\ UNCHANGED <<initbrk, curbrk, sp, vars, optind, mapfile_loaded, mem, posn>>

-----------------------------------------------------------------------------

ExecInit ==
    /\ initbrk = 0 /\ curbrk = 0 /\ sp = 0 /\ result = 0
    /\ Init
    /\ pc = "getopt" /\ optind = 1
    /\ argv \in CommandLines /\ argc = Len(argv)
    /\ arglist = [i \in 1 .. MaxArgs |-> NULL]
    /\ mapfile_loaded = FALSE
    /\ mem = [a \in Words |-> Empty] /\ posn = 0
    /\ asked_of = [path |-> NULL, argv |-> <<>>] /\ execs = 0

\* What the emulated program does, or the tracer that asks for symbols.  The
\* two share no state: a behaviour has one or the other.
program ==
    /\ pc = "run"
    /\ \/ /\ answer = Nothing
          /\ \/ \E w \in Requests : Brk(w) \/ Sbrk(w)
             \/ \E s \in StackPointers : MoveStack(s)
          /\ UNCHANGED <<vars, execOnly>>
       \/ /\ mapfile_loaded /\ sp = posn /\ curbrk = initbrk /\ result = 0
          /\ Readable /\ \E a \in Addresses : get_symbol_and_offset(a)
          /\ UNCHANGED <<memVars, execOnly>>
       \/ \E call \in Calls : execve(call)

ExecNext == getopt \/ load_executable \/ readOwnMap \/ startProgram \/ program

ExecSpec == ExecInit /\ [][ExecNext]_execVars

-----------------------------------------------------------------------------

\* execve without a surviving option index: the emulator was started without
\* options of its own.
Plain == optind = 1

\* "Call ourselves so that either the emulated binary is loaded, or we exec()
\* the native binary": the program that runs, or the host's, is the one that
\* execve was asked for and it gets the caller's arguments after its name,
\* none from an earlier call.
RunsWhatWasAsked ==
    pc \in {"run", "native"} /\ asked_of.path # NULL /\ Plain =>
        /\ Argv = <<asked_of.path>> \o Tail(asked_of.argv)
        /\ pc = "native" <=> asked_of.path \in Natives

WordIn(a) ==
    {w \in Words : mem[a % Word] = <<"lo", w>> /\ mem[(a + 1) % Word] = <<"hi", w>>}

StringIn(a) ==
    {s \in Names : \A k \in 0 .. Bytes[s] - 1 : mem[(a + k) % Word] = <<s, k>>}

\* The strings of an array of pointers that ends with a NULL.
ReadsAs(a, strings) ==
    /\ \A i \in 1 .. Len(strings) :
         \E p \in WordIn(a + 2 * (i - 1)) : strings[i] \in StringIn(p)
    /\ WordIn(a + 2 * Len(strings)) = {0}

\* The program finds argc, its arguments and its environment through the
\* words at its stack pointer, whole and in order, whatever their number and
\* lengths, as long as all of it fits below StackTop.
ArgsReadable ==
    LET size == Sum([i \in DOMAIN (Argv \o Envp) |-> Bytes[(Argv \o Envp)[i]]])
                  + 2 * (Len(Argv) + Len(Envp)) + 12
    IN  pc = "run" /\ size <= StackTop =>
          /\ WordIn(posn) = {Len(Argv)}
          /\ \E a \in WordIn(posn + 2) : ReadsAs(a, Argv)
          /\ \E e \in WordIn(posn + 4) : ReadsAs(e, Envp)

=============================================================================
