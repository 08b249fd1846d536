------------------------------ MODULE MCStdio ------------------------------
(* Buffers of one and two bytes over files of up to four, so that every      *)
(* boundary of the buffer is crossed in both directions, and the programs    *)
(* that the library serves: README.md says which mixtures of calls it does   *)
(* not.                                                                      *)
EXTENDS Stdio

Update == {"read", "write"}
Always == {"fseek", "ftell", "clearerr", "rewind"}

MCFiles == {<<>>, <<"x", "y", "z">>}

\* Reads and writes byte by byte, and writes blocks; reads and writes blocks;
\* reads bytes and pushes some back.  The last two meet failures: one mixes all,
\* but for rewind, which clears the error flag after a flush whose result it
\* drops; the other has space for a block pushed back, read and written, which
\* leaves the buffer with a negative room.
MCPrograms ==
    {[access |-> Update,
      calls |-> Always \cup {"fgetc", "fputc", "fwrite", "fflush", "setvbuf"},
      fails |-> FALSE, counts |-> {1, 3}, files |-> MCFiles, room |-> 4],
     [access |-> Update, calls |-> Always \cup {"fread", "fwrite", "fflush"},
      fails |-> FALSE, counts |-> {1, 3}, files |-> MCFiles, room |-> 4],
     [access |-> {"read"}, calls |-> Always \cup {"fgetc", "ungetc"},
      fails |-> FALSE, counts |-> {1, 3}, files |-> MCFiles, room |-> 4],
     [access |-> Update,
      calls |-> {"fgetc", "ungetc", "fputc", "fread", "fwrite", "fflush", "fseek",
                 "ftell", "clearerr", "setvbuf"},
      fails |-> TRUE, counts |-> {2}, files |-> {<<"x">>}, room |-> 2],
     [access |-> Update, calls |-> {"ungetc", "fread", "fwrite", "fflush", "clearerr"},
      fails |-> TRUE, counts |-> {2}, files |-> {<<"x">>}, room |-> 4]}

\* Reads bytes, then blocks.
MCReadsBoth ==
    {[access |-> {"read"}, calls |-> {"fgetc", "fread"},
      fails |-> FALSE, counts |-> {1, 3}, files |-> MCFiles, room |-> 4]}
=============================================================================
