----------------------------- MODULE ByteStream -----------------------------
(***************************************************************************)
(* What the users of a stdio FILE over a regular file may rely on: a file, *)
(* a position in it, and the bytes that the next reads will return, which  *)
(* are those from the position on unless some were pushed back.            *)
(***************************************************************************)
EXTENDS Integers, Sequences

VARIABLES
    content,    \* the bytes of the file
    pos,        \* the stream's position in it
    ahead,      \* the bytes the next reads return
    call,       \* the last call, <<operation, argument>>
    got         \* the bytes it returned

\* The bytes of file c from position k on.
Rest(c, k) == SubSeq(c, k + 1, Len(c))

\* File c with the bytes s written over it at position k.
Written(c, k, s) == SubSeq(c, 1, k) \o s \o Rest(c, k + Len(s))

\* A position to go on from: the stream's own or, when bytes were pushed
\* back, one that is not defined.
Synced(k) == pos < 0 \/ k = pos \/ ahead # Rest(content, pos)

\* The stream goes on from position k of the file.
Resume(k) ==
    /\ pos' = k
    /\ ahead' = Rest(content, k)
    /\ got' = <<>>
    /\ UNCHANGED content

\* A read returns the bytes that are next, at most as many as asked for.
Get(n) ==
    /\ call' = <<"get", n>>
    /\ Len(got') <= n
    /\ ahead = got' \o ahead'
    /\ pos' = pos + Len(got')
    /\ UNCHANGED content

Unget(c) ==
    /\ call' = <<"unget", c>>
    /\ ahead' = <<c>> \o ahead
    /\ pos' = pos - 1
    /\ got' = <<>>
    /\ UNCHANGED content

\* The bytes s are written at the position.
Put(s) ==
    /\ call' = <<"put", s>>
    /\ \E k \in 0 .. Len(content) :
         /\ Synced(k)
         /\ pos' = k + Len(s)
         /\ content' = Written(content, k, s)
    /\ ahead' = Rest(content', pos')
    /\ got' = <<>>

Seek(k) == call' = <<"seek", k>> /\ Resume(k)

Move(n) ==
    /\ call' = <<"move", n>>
    /\ \E k \in 0 .. Len(content) : Synced(k) /\ Resume(k + n)

\* The position is told.
Tell(k) == call' = <<"tell", k>> /\ Synced(k) /\ Resume(k)

\* A call that has to do with the buffer only.
Sync ==
    /\ call'[1] # "tell"
    /\ \E k \in 0 .. Len(content) : Synced(k) /\ Resume(k)

\* A call that fails.
Refuse == got' = <<>> /\ UNCHANGED <<content, pos, ahead>>

StreamInit == pos = 0 /\ ahead = content /\ got = <<>>

StreamNext ==
    \/ Get(call'[2])
    \/ Unget(call'[2])
    \/ Put(call'[2])
    \/ Seek(call'[2])
    \/ Move(call'[2])
    \/ Tell(call'[2])
    \/ Sync
    \/ Refuse

streamVars == <<content, pos, ahead, call, got>>

StreamSpec == StreamInit /\ [][StreamNext]_streamVars

=============================================================================
