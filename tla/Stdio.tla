------------------------------- MODULE Stdio -------------------------------
(***************************************************************************)
(* One FILE of the C library over a regular file: fgetc, ungetc, fputc,    *)
(* fread, fwrite, fflush, fseek, ftell, clearerr and setvbuf (libs/stdio0.c*)
(* and the files named after the functions).                               *)
(*                                                                         *)
(* The library is sequential, so a call is one step.  Its helpers are      *)
(* operators from a stream state st = [fp, disk], the FILE and the file    *)
(* with the descriptor's offset, to the set of the outcomes that read()    *)
(* and write() may bring about: a read may be short, and for a program  *)
(* that meets failures a write may stop early and a read may fail.         *)
(***************************************************************************)
EXTENDS Integers, Sequences

CONSTANTS
    BufSizes,       \* sizes of the buffer
    Bufferings,     \* subset of {"full", "line", "none"}
    PutBytes,       \* bytes the program writes
    NewLine,        \* the one of them that ends a line
    UngetBytes,     \* bytes the program pushes back
    Junk,           \* a byte that nobody read or wrote, such as a new buffer holds
    Programs        \* records of: access, what the FILE is open for, a subset of
                    \* {"read", "write"}; calls, the functions the program uses;
                    \* fails, whether read and write may fail; counts, the sizes
                    \* passed to fread and fwrite; files, what the file contains
                    \* at first; room, a bound on the length of the file, and on
                    \* bufpos before an fread

Word == 65536       \* values of an unsigned int

ASSUME StdioAssumption ==
    /\ BufSizes \subseteq 1 .. Word - 1
    /\ Bufferings \subseteq {"full", "line", "none"}
    /\ \A u \in Programs :
         /\ u.access \subseteq {"read", "write"} /\ u.fails \in BOOLEAN
         /\ u.counts \subseteq 1 .. Word - 1 /\ u.room \in Nat
         /\ \A d \in u.files : d \in Seq({d[i] : i \in DOMAIN d})
         /\ u.calls \subseteq {"fgetc", "ungetc", "fputc", "fread", "fwrite", "fflush",
                               "fseek", "ftell", "clearerr", "rewind", "setvbuf"}

VARIABLES
    program,        \* the program that uses the FILE
    fp,             \* the FILE; bufpos and bufread count from bufstart
    disk,           \* the file's bytes and the descriptor's offset
    call, got,      \* the last call and the bytes it returned
    lost            \* ghost: accepted bytes have not reached the file

stdioVars == <<program, fp, disk, call, got, lost>>

-----------------------------------------------------------------------------
(* The file                                                                 *)

Size(d) == Len(d.data)
Avail(d) == IF d.at < Size(d) THEN Size(d) - d.at ELSE 0

\* write() of the bytes s.
WriteAt(d, s) ==
    [data |-> SubSeq(d.data, 1, d.at) \o s
                 \o SubSeq(d.data, d.at + Len(s) + 1, Size(d)),
     at |-> d.at + Len(s)]

\* How many of n bytes a loop of write() calls gets out.
Accepted(n) == IF program.fails THEN 0 .. n ELSE {n}

\* What read() of at most n bytes may return: the bytes, or -1.
Readable(d, n) ==
    (IF Avail(d) = 0 THEN {0} ELSE {m \in 1 .. Avail(d) : m <= n})
      \cup (IF program.fails THEN {-1} ELSE {})

\* The m bytes at the descriptor's offset.
Here(d, m) == SubSeq(d.data, d.at + 1, d.at + m)

-----------------------------------------------------------------------------
(* The buffer                                                               *)

\* The n bytes at bufpos, and what lies past the buffer.
FromBuf(f, n) ==
    [i \in 1 .. n |-> IF f.bufpos + i <= Len(f.buf) THEN f.buf[f.bufpos + i]
                                                    ELSE Junk]

Full(f) == f.bufpos >= Len(f.buf)

\* Variant for mutation: off by one.
RoomOneMore(f) == Len(f.buf) - f.bufpos + 1

\* The bytes that still fit, negative when fread has left bufpos past the buffer.
Room(f) == Len(f.buf) - f.bufpos

\* "bytes <= len", where the unsigned int makes len one.
Fits(n, f) == n <= Room(f) % Word

\* The bytes waiting to be written.
Pending(f) == [i \in 1 .. f.bufpos |-> IF i <= Len(f.buf) THEN f.buf[i] ELSE Junk]

\* The bytes s are stored at offset k of the buffer.
Store(f, k, s) ==
    [i \in 1 .. Len(f.buf) |-> IF i \in k + 1 .. k + Len(s) THEN s[i - k]
                                                             ELSE f.buf[i]]

CanRead(f) == "read" \in program.access /\ ~ f.eof /\ ~ f.err
CanWrite(f) == "write" \in program.access /\ ~ f.eof /\ ~ f.err

\* Variant for mutation: the end-of-file flag survives fflush.
ClearedButEof(f) ==
    [f EXCEPT !.reading = FALSE, !.writing = FALSE, !.ungot = FALSE, !.bufpos = 0, !.bufread = 0]

\* The buffer after fflush.
Cleared(f) ==
    [f EXCEPT !.reading = FALSE, !.writing = FALSE, !.eof = FALSE,
              !.ungot = FALSE, !.bufpos = 0, !.bufread = 0]

\* Variant for mutation: the offset left where the last read ended.
UnreadForgotten(f) == 0

\* The bytes read and not used, which fflush gives back.
Unread(f) == f.bufread - f.bufpos

\* Variant for mutation: a write that stopped early and is not recorded.
ErrKept(f, k) == f.err

\* The error flag when only k of the pending bytes could be written.
ErrAfter(f, k) == f.err \/ k < f.bufpos

\* fflush: outcomes [fp, disk, lost].
Flush(f, d) ==
    IF f.writing
    THEN {[fp |-> Cleared([f EXCEPT !.err = ErrAfter(f, k)]),
           disk |-> WriteAt(d, SubSeq(Pending(f), 1, k)),
           lost |-> k < f.bufpos] : k \in Accepted(f.bufpos)}
    ELSE {[fp |-> Cleared(f),
           disk |-> IF f.reading /\ Unread(f) > 0 /\ Unread(f) <= d.at
                    THEN [d EXCEPT !.at = @ - Unread(f)] ELSE d,
           lost |-> FALSE]}

\* The state a call starts from when it flushes on condition c.
FlushIf(c, f, d) ==
    IF c THEN Flush(f, d) ELSE {[fp |-> f, disk |-> d, lost |-> FALSE]}

-----------------------------------------------------------------------------
(* The calls                                                                *)

\* Where the stream is, for its user.
Position == IF fp.writing THEN disk.at + fp.bufpos
                          ELSE disk.at - (fp.bufread - fp.bufpos)

\* The file, for its user.
Content == IF fp.writing THEN WriteAt(disk, Pending(fp)).data ELSE disk.data

Done(f, d, c, g, l) ==
    fp' = f /\ disk' = d /\ call' = c /\ got' = g /\ lost' = (lost \/ l)

\* A call that ends in state o and returned no bytes.
End(o, c) == Done(o.fp, o.disk, c, <<>>, o.lost)

\* FILE f and file d after a read() that returned m.
AfterRead(f, m) == [f EXCEPT !.err = @ \/ m < 0, !.eof = @ \/ m = 0]
Advanced(d, m) == [d EXCEPT !.at = @ + (IF m > 0 THEN m ELSE 0)]

fgetc ==
    \E o \in FlushIf(fp.writing, fp, disk) :
      LET f == o.fp
          c == <<"get", 1>>
      IN  \/ ~ CanRead(f) /\ End(o, c)
          \/ /\ CanRead(f) /\ f.bufpos < f.bufread
             /\ Done([f EXCEPT !.bufpos = @ + 1], o.disk, c, FromBuf(f, 1), o.lost)
          \/ /\ CanRead(f) /\ f.bufpos >= f.bufread
             /\ \E m \in Readable(o.disk, Len(f.buf)) :
                  IF m <= 0
                  THEN Done(AfterRead([f EXCEPT !.bufpos = 0, !.bufread = 0], m),
                            o.disk, c, <<>>, o.lost)
                  ELSE Done([f EXCEPT !.buf = Store(f, 0, Here(o.disk, m)),
                                      !.bufpos = 1, !.bufread = m,
                                      !.reading = TRUE, !.ungot = FALSE],
                            Advanced(o.disk, m), c, Here(o.disk, 1), o.lost)

\* The byte pushed back takes the place of the one before it, or starts an
\* empty buffer.
ungetc(b) ==
    \E o \in FlushIf(fp.writing, fp, disk) :
      LET f == [o.fp EXCEPT !.ungot = TRUE]
          room == f.bufpos > 0 \/ f.bufread = 0
      IN  IF ~ ("read" \in program.access /\ ~ f.err)
          THEN End(o, <<"unget", b>>)
          ELSE /\ call' = <<"unget", b>> /\ got' = <<>>
               /\ disk' = o.disk /\ lost' = (lost \/ o.lost)
               /\ \/ /\ f.bufpos > 0
                     /\ fp' = [f EXCEPT !.bufpos = @ - 1, !.buf = Store(f, f.bufpos - 1, <<b>>)]
                  \/ /\ f.bufpos = 0 /\ f.bufread = 0
                     /\ fp' = [f EXCEPT !.bufread = 1, !.buf = Store(f, 0, <<b>>)]
                  \/ ~ room /\ fp' = f

\* The tests on the mode are made on a copy taken before the flush.
fputc(b) ==
    \E o \in FlushIf(fp.reading, fp, disk) :
      LET c == <<"put", <<b>>>>
      IN  IF o.lost \/ ~ CanWrite(fp)
          THEN End(o, c)
          ELSE \E o2 \in FlushIf(Full(o.fp), o.fp, o.disk) :
                 IF o2.lost
                 THEN End(o2, c)
                 ELSE \E o3 \in FlushIf(\/ fp.buffering = "none"
                                        \/ fp.buffering = "line" /\ b = NewLine,
                                        [o2.fp EXCEPT !.buf = Store(o2.fp, o2.fp.bufpos, <<b>>),
                                                      !.bufpos = @ + 1, !.writing = TRUE],
                                        o2.disk) :
                        End(o3, c)

\* n bytes.  The number of bytes buffered is compared as an unsigned int.
fread(n) ==
    \E o \in FlushIf(fp.writing, fp, disk) :
      LET f == o.fp
          len == f.bufread - f.bufpos
          taken == IF len > 0 THEN len ELSE 0
          c == <<"get", n>>
      IN  \/ ~ CanRead(fp) /\ End(o, c)
          \/ /\ CanRead(fp) /\ len % Word >= n
             /\ Done([f EXCEPT !.bufpos = @ + n], o.disk, c, FromBuf(f, n), o.lost)
          \/ /\ CanRead(fp) /\ len % Word < n
             /\ \E m \in Readable(o.disk, n - taken) :
                  Done(AfterRead([f EXCEPT !.bufpos = IF len > 0 THEN @ + n ELSE @], m),
                       Advanced(o.disk, m), c,
                       FromBuf(f, taken) \o Here(o.disk, m), o.lost)

\* n times the byte b; what does not fit in the buffer is written directly, and
\* the caller told how much of it was: it is flagged when the last write() failed,
\* not when it wrote nothing, and what is left was not accepted.
fwrite(b, n) ==
    LET s == [i \in 1 .. n |-> b]
        c == <<"put", s>>
    IN  \E o \in FlushIf(fp.reading, fp, disk) :
          IF o.lost \/ ~ CanWrite(fp)
          THEN End(o, c)
          ELSE \E o2 \in FlushIf(~ Fits(n, o.fp), o.fp, o.disk) :
                 LET f == o2.fp
                 IN  \/ o2.lost /\ End(o2, c)
                     \/ /\ ~ o2.lost /\ Fits(n, f)
                        /\ \E o3 \in FlushIf(f.buffering # "full",
                                             [f EXCEPT !.buf = Store(f, f.bufpos, s),
                                                       !.bufpos = @ + n, !.writing = TRUE],
                                             o2.disk) :
                             End(o3, c)
                     \/ /\ ~ o2.lost /\ ~ Fits(n, f)
                        /\ \E k \in Accepted(n), failed \in BOOLEAN :
                             /\ failed => program.fails
                             /\ Done([f EXCEPT !.err = @ \/ failed],
                                     WriteAt(o2.disk, SubSeq(s, 1, k)), c, <<>>, FALSE)

fflush == \E o \in Flush(fp, disk) : End(o, <<"sync", 0>>)

ftell == \E o \in Flush(fp, disk) :
           End(o, IF o.lost THEN <<"sync", 0>> ELSE <<"tell", o.disk.at>>)

\* Variant for mutation: the fast way taken with pushed-back bytes about.
FastUngot(f) == f.reading

\* The buffer holds what was read and nothing else.
Fast(f) == f.reading /\ ~ f.ungot

\* fseek to offset off from ref: within the buffer when Fast and near,
\* through fflush and lseek otherwise.
SeekOutcomes(f, d, off, ref) ==
    LET goal == IF ref = "cur" THEN off + d.at + (f.bufpos - f.bufread) ELSE off
    IN  IF Fast(f) /\ ref # "end" /\ goal < d.at /\ goal >= d.at - f.bufread
        THEN {[fp |-> [f EXCEPT !.bufpos = goal - d.at + f.bufread], disk |-> d,
               lost |-> FALSE]}
        ELSE {LET at == CASE ref = "set" \/ (ref = "cur" /\ Fast(f)) -> goal
                          [] ref = "cur" /\ ~ Fast(f) -> o.disk.at + off
                          [] ref = "end" -> Size(o.disk) + off
              IN  IF o.lost \/ at < 0 THEN o
                  ELSE [o EXCEPT !.disk.at = at] : o \in Flush(f, d)}

\* Seeks within the file: past its end lie gaps, which no property is about.
fseek(off, ref) ==
    LET c == CASE ref = "set" -> <<"seek", off>>
               [] ref = "cur" -> <<"move", off>>
               [] ref = "end" -> <<"seek", Len(Content) + off>>
    IN  \E o \in SeekOutcomes(fp, disk, off, ref) :
          /\ (IF ref = "cur" THEN Position + off ELSE c[2]) \in 0 .. Len(Content)
          /\ o.disk.at <= Size(o.disk)
          /\ End(o, c)

\* The program is told of the error, and goes on.
clearerr ==
    /\ fp' = [fp EXCEPT !.eof = FALSE, !.err = FALSE]
    /\ lost' = FALSE
    /\ call' = <<"sync", 0>> /\ got' = <<>>
    /\ UNCHANGED disk

\* fseek to the start, whatever comes of it, and clearerr.
rewind ==
    \E o \in SeekOutcomes(fp, disk, 0, "set") :
      End([o EXCEPT !.fp.eof = FALSE, !.fp.err = FALSE], <<"seek", 0>>)

\* Another buffer, of z bytes, and another way to use it; the result of the
\* flush is dropped.
setvbuf(how, z) ==
    \E o \in Flush(fp, disk) :
      End([o EXCEPT !.fp.buf = [i \in 1 .. z |-> Junk], !.fp.buffering = how],
          <<"sync", 0>>)

-----------------------------------------------------------------------------

\* __fopen: the buffer is clear and the descriptor at the start.
StdioInit ==
    /\ program \in Programs
    /\ \E d \in program.files, h \in Bufferings, z \in BufSizes :
         /\ disk = [data |-> d, at |-> 0]
         /\ fp = [buf |-> [i \in 1 .. z |-> Junk], bufpos |-> 0, bufread |-> 0,
                  buffering |-> h, reading |-> FALSE,
                  writing |-> FALSE, eof |-> FALSE, err |-> FALSE, ungot |-> FALSE]
    /\ call = <<"sync", 0>> /\ got = <<>> /\ lost = FALSE

Uses(f) == f \in program.calls

StdioNext ==
    /\ program' = program
    /\ \/ Uses("fgetc") /\ fgetc
       \/ Uses("ungetc") /\ \E b \in UngetBytes : ungetc(b)
       \/ Uses("fputc") /\ Position < program.room /\ \E b \in PutBytes : fputc(b)
       \/ Uses("fread") /\ fp.bufpos <= program.room /\ \E n \in program.counts : fread(n)
       \/ Uses("fwrite") /\ \E b \in PutBytes, n \in program.counts :
             Position + n <= program.room /\ fwrite(b, n)
       \/ Uses("fflush") /\ fflush
       \/ Uses("ftell") /\ ftell
       \/ Uses("fseek") /\ \E off \in -2 .. program.room, ref \in {"set", "cur", "end"} :
             fseek(off, ref)
       \/ Uses("clearerr") /\ clearerr
       \/ Uses("rewind") /\ rewind
       \/ Uses("setvbuf") /\ \E h \in Bufferings, z \in BufSizes : setvbuf(h, z)

StdioSpec == StdioInit /\ [][StdioNext]_stdioVars

-----------------------------------------------------------------------------

\* Bytes that a call accepted and that never reached the file have set the
\* error flag, also when the flush that failed was made by fgetc, ungetc,
\* fwrite, fseek or setvbuf, some of which drop its result.  rewind is the
\* one call that clears the flag after a flush of its own, as it is meant to.
LossIsFlagged == lost => fp.err

\* The end-of-file flag, which stops all reading, never stands while there
\* are bytes of the file to read.  It does stand before a byte pushed back
\* at the end of the file, which ungetc does not clear it for.
EofAtEnd == fp.eof /\ ~ program.fails => fp.ungot \/ Position >= Len(Content)

\* The user's view: every sequence of calls reads and writes the file at one
\* position, whatever is in the buffer.
B == INSTANCE ByteStream WITH
       content <- Content,
       pos <- Position,
       ahead <- IF fp.writing
                THEN SubSeq(Content, Position + 1, Len(Content))
                ELSE FromBuf(fp, fp.bufread - fp.bufpos)
                       \o SubSeq(disk.data, disk.at + 1, Size(disk))

\* The programs that meet failures lose bytes.
IsAByteStream == B!StreamInit /\ [][program.fails \/ B!StreamNext]_(B!streamVars)

\* fread's comment "Enough buffered" on the branch that copies from the
\* buffer: no byte it returns is one that was never read.
EnoughBuffered == \A i \in DOMAIN got : got[i] # Junk

=============================================================================
