------------------------------ MODULE Mapfile ------------------------------
(***************************************************************************)
(* The emulators' table of symbols (emulators/mapfile.c): a map file is    *)
(* read into an array sorted by address, and the disassembler, the tracer  *)
(* and the monitor ask it for the symbol next to an address.  A cached     *)
(* index makes most questions cheap.                                       *)
(***************************************************************************)
EXTENDS Integers, Sequences, SequencesExt, FiniteSetsExt

CONSTANTS
    MapFiles,       \* files: sequences of entries [addr, sym], in the file's order
    Top             \* the highest address, 0xFFFF

Entry == [addr : 0 .. Top, sym : STRING]

ASSUME MapfileAssumption ==
    /\ Top \in Nat
    /\ \A file \in MapFiles : file \in Seq(Entry)

\* Not the name of a symbol; and an element that was never written.
NULL == "NULL"
Junk == [addr |-> -1, sym |-> "junk"]

VARIABLES
    maparray,       \* the array: entry i of the C array is maparray[i + 1]
    mapidx, mapcnt,
    freed,          \* the array has been given to free
    asked, answer   \* the last question and its answer: [sym, offset]

vars == <<maparray, mapidx, mapcnt, freed, asked, answer>>

Nothing == [sym |-> NULL, offset |-> 0]
Addresses == 0 .. Top

-----------------------------------------------------------------------------
(* read_mapfile                                                             *)

\* Element i, as C counts.  One that lies behind the array may be anything.
Elements(i) ==
    IF i < Len(maparray) THEN {maparray[i + 1].addr} ELSE {-1, Top, Top + 1}

\* Where the loop that fills the array starts: i still counts the entries
\* that were freed.
StartAt == IF maparray = <<>> THEN 0 ELSE mapcnt

\* Variant for mutation: the file's order is kept.
Unsorted(s) == {s}

\* qsort with mapcompare, which leaves the order of entries at one address open.
Sorted(s) ==
    LET InOrder(p) ==
          \A i, j \in DOMAIN s : i < j => s[p[i]].addr <= s[p[j]].addr
    IN  {[i \in DOMAIN s |-> s[p[i]]] : p \in {q \in Bijection(DOMAIN s, DOMAIN s) : InOrder(q)}}

\* The element one past the end.
End == [addr |-> Top, sym |-> NULL]

\* The file's entries in an array of their number, written from start.
Written(file, start) ==
    [k \in 1 .. Len(file) |-> IF k > start THEN file[k - start] ELSE Junk]

\* A second file goes where the first would have: entries it writes behind
\* the array are not modelled.
read_mapfile(file) ==
    /\ \E s \in Sorted(Written(file, StartAt)) : maparray' = Append(s, End)
    /\ mapcnt' = Len(file)
    /\ mapidx' = IF maparray = <<>> THEN mapidx ELSE 0
    /\ freed' = FALSE
    /\ UNCHANGED <<asked, answer>>

\* The file cannot be opened: the old array is gone all the same, and the
\* pointer to it stays.
readFails ==
    /\ freed' = (maparray # <<>>)
    /\ mapcnt' = 0
    /\ mapidx' = IF maparray = <<>> THEN mapidx ELSE 0
    /\ UNCHANGED <<maparray, asked, answer>>

-----------------------------------------------------------------------------
(* The questions                                                            *)

\* Address a is at or above entry i and below the one after it.
Between(i, a) ==
    (\E lo \in Elements(i) : lo <= a) /\ (\E hi \in Elements(i + 1) : hi > a)

\* The entry found for a: the cached one, or the first that fits; mapcnt if
\* there is none.
Found(a) ==
    {i \in {mapidx} : Between(i, a)}
      \cup (IF mapidx < mapcnt /\ Between(mapidx, a) THEN {}
            ELSE {Min({i \in 0 .. mapcnt - 1 : Between(i, a)} \cup {mapcnt})})

SymbolAt(i, a) ==
    IF i >= mapcnt THEN Nothing
    ELSE [sym |-> maparray[i + 1].sym, offset |-> a - maparray[i + 1].addr]

get_symbol_and_offset(a) ==
    /\ asked' = a
    /\ IF mapcnt = 0 THEN answer' = Nothing /\ UNCHANGED mapidx
       ELSE \E i \in Found(a) : answer' = SymbolAt(i, a) /\ mapidx' = i
    /\ UNCHANGED <<maparray, mapcnt, freed>>

\* get_sym_address, then get_sym_end_address: neither changes anything.  They
\* give -1 for an unknown symbol.
IndexOf(s) == Min({i \in 0 .. mapcnt - 1 : maparray[i + 1].sym = s} \cup {mapcnt})

get_sym_address(s) == IF IndexOf(s) = mapcnt THEN -1 ELSE maparray[IndexOf(s) + 1].addr

\* Variant for mutation: the entry that follows, at whatever address.
NextEntry(i) == {i + 1}

\* The entries with a higher address than entry i.
Higher(i) == {j \in i + 1 .. mapcnt : maparray[j + 1].addr > maparray[i + 1].addr}

get_sym_end_address(s) ==
    LET i == IndexOf(s)
    IN  IF i = mapcnt \/ Higher(i) = {} THEN -1
        ELSE maparray[Min(Higher(i)) + 1].addr - 1

-----------------------------------------------------------------------------

Init ==
    /\ maparray = <<>> /\ mapidx = 0 /\ mapcnt = 0
    /\ freed = FALSE
    /\ asked = 0 /\ answer = Nothing

\* No question is asked of entries that were never written.
Readable == \A k \in 1 .. mapcnt : maparray[k] # Junk

-----------------------------------------------------------------------------

Entries == {maparray[k] : k \in 1 .. mapcnt}
Syms == UNION {{file[k].sym : k \in DOMAIN file} : file \in MapFiles}

TypeOK ==
    /\ mapcnt \in Nat /\ mapidx \in 0 .. mapcnt
    /\ maparray \in Seq([addr : Addresses, sym : Syms \cup {NULL}])
    /\ mapcnt # 0 => Len(maparray) = mapcnt + 1
    /\ freed \in BOOLEAN /\ asked \in Addresses
    /\ answer \in [sym : Syms \cup {NULL}, offset : Addresses]

\* The symbol at or below a whose address is nearest.
Nearest(a) == Max({e.addr : e \in {x \in Entries : x.addr <= a}} \cup {-1})

\* "the nearest symbol below the address", for an address below the top: the
\* cached index, wherever earlier questions left it, changes no answer, and
\* there is one whenever a symbol lies at the address or below.
AnswerIsNearest ==
    [][\A a \in 0 .. Top - 1 :
         get_symbol_and_offset(a) =>
           \/ Nearest(a) < 0 /\ answer' = Nothing
           \/ \E e \in Entries : /\ e.addr = Nearest(a)
                                /\ answer' = [sym |-> e.sym, offset |-> a - e.addr]]_vars

\* A symbol that names a routine ends where the next one begins: every
\* address up to its end is answered with a symbol at the same address.
EndIsNextSymbol ==
    \A s \in Syms : get_sym_end_address(s) # -1 =>
      LET range == get_sym_address(s) .. get_sym_end_address(s)
      IN  range # {} /\ \A a \in range : Nearest(a) = get_sym_address(s)

=============================================================================
