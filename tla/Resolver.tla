------------------------------ MODULE Resolver ------------------------------
(***************************************************************************)
(* The DNS resolver (libs/resolv.c): res_search asks a name server for a   *)
(* name as it is and with the domains of the search list, by datagrams     *)
(* that may be lost, delayed or duplicated, and by a stream where an answer *)
(* did not fit a datagram.                                                 *)
(*                                                                         *)
(* Every failure leaves the loop over the name servers too ("break"), so   *)
(* that a query only ever asks the first; ns is always 0.                  *)
(***************************************************************************)
EXTENDS Integers, Sequences

CONSTANTS
    Names,          \* [text, dots, trailing_dot, legal]: what programs search for
    dnsrch,         \* the search list: domains
    ndots, retry,   \* of res_state
    UseVC,          \* option RES_USEVC
    Kinds,          \* what a server answers, {"ok", "tc", "negative", "short"};
                    \* "tc" is a good answer that does not fit a datagram
    Ids,            \* values of an unsigned short
    MaxSearches,    \* bound on the searches of a program
    MaxDups         \* bound on duplicated datagrams

ASSUME ResolverAssumption ==
    /\ \A n \in Names : n.dots \in Nat /\ n.trailing_dot \in BOOLEAN /\ n.legal \in BOOLEAN
    /\ dnsrch \in Seq(STRING) /\ dnsrch # <<>>
    /\ ndots \in Nat /\ retry \in Nat \ {0} /\ Ids \in Nat \ {0} /\ UseVC \in BOOLEAN
    /\ Kinds \subseteq {"ok", "tc", "negative", "short"}
    /\ MaxSearches \in Nat

AsIs == "as is"

VARIABLES
    net,            \* datagrams under way: [to, id, question, kind]
    lost,           \* ghost: one that the resolver waits for was lost
    dups,           \* datagrams duplicated
    pc,             \* what the resolver does next
    name,           \* what it searches for
    cand,           \* 0: as is, first; i: with dnsrch[i]; Len(dnsrch) + 1: as is, last
    tried_as_is, saved_rc, got_nodata,  \* of res_nsearch
    try, v_circuit, gotsomewhere, terrno,   \* of res_nsend
    id, errno,
    answer,         \* the caller's buffer: [id, question, kind]
    rc,             \* the result of the search
    open,           \* sockets that are open
    asked,          \* ghost: the questions this search asked
    sends,          \* ghost: datagrams and streams of this query, up to one too many
    searches

search_vars == <<name, cand, tried_as_is, saved_rc, got_nodata, rc, asked, searches>>
nsend_vars == <<try, v_circuit, gotsomewhere, terrno, sends>>
net_vars == <<net, lost, dups>>
vars == <<search_vars, nsend_vars, net_vars, pc, id, errno, answer, open>>

Question == <<name.text, IF cand \in DOMAIN dnsrch THEN dnsrch[cand] ELSE AsIs>>

Last == Len(dnsrch) + 1
CountTo(n, most) == IF n < most THEN n + 1 ELSE n
Message(to, q, kind) == [to |-> to, id |-> id, question |-> q, kind |-> kind]

-----------------------------------------------------------------------------
(* res_nsearch                                                              *)

\* Variant for mutation: a query as is, whatever was tried before.
Retried == ndots > 0

\* Whether to try the name as it is in the end.
LastResort == ndots > 0 /\ ~ tried_as_is

Return(result, error) ==
    /\ pc' = "done" /\ rc' = result /\ errno' = error
    /\ UNCHANGED <<cand, tried_as_is, saved_rc, got_nodata>>

\* The end of res_nsearch, and the error it makes up.
GiveUp(error, nodata) ==
    /\ pc' = "done" /\ rc' = -1 /\ got_nodata' = nodata
    /\ errno' = IF saved_rc # 0 THEN error ELSE IF nodata THEN "ETIMEDOUT" ELSE "EIO"
    /\ UNCHANGED <<cand, tried_as_is, saved_rc>>

\* To the query as is, or to the end.
AfterDomains(error, nodata) ==
    IF LastResort
    THEN /\ cand' = Last /\ pc' = "query" /\ got_nodata' = nodata /\ errno' = error
         /\ UNCHANGED <<tried_as_is, saved_rc, rc>>
    ELSE GiveUp(error, nodata)

KeepTrying == {"ETIMEDOUT", "EHOSTUNREACH", "ENETUNREACH"}

\* Whether a query of this search has timed out.
TimedOut(error) == got_nodata \/ error = "ETIMEDOUT"

\* To the next domain, or past the last one.
NextDomain(error) ==
    IF cand < Len(dnsrch)
    THEN /\ cand' = cand + 1 /\ pc' = "query"
         /\ got_nodata' = TimedOut(error) /\ errno' = error
         /\ UNCHANGED <<tried_as_is, saved_rc, rc>>
    ELSE AfterDomains(error, TimedOut(error))

\* A query ends with the result and errno.  Nothing leaves EAGAIN in errno, so that
\* the case for DNS_ERR_SERVFAIL never applies.
Ended(result, error) ==
    \/ result > 0 /\ Return(result, error)
    \/ /\ result <= 0 /\ cand = 0
       /\ IF name.trailing_dot
          THEN Return(result, error)
          ELSE /\ saved_rc' = result /\ tried_as_is' = TRUE /\ errno' = error
               /\ cand' = 1 /\ pc' = "query" /\ UNCHANGED <<rc, got_nodata>>
    \/ /\ result <= 0 /\ cand \in DOMAIN dnsrch
       /\ \/ error = "ECONNREFUSED" /\ Return(-1, error)
          \/ error \in KeepTrying /\ NextDomain(error)
          \/ error \notin KeepTrying \cup {"ECONNREFUSED"} /\ AfterDomains(error, got_nodata)
    \/ result <= 0 /\ cand = Last /\ GiveUp(error, got_nodata)

res_nsearch ==
    /\ pc \in {"idle", "done"} /\ searches < MaxSearches
    /\ searches' = searches + 1
    /\ name' \in Names
    /\ cand' = IF name'.dots >= ndots \/ name'.trailing_dot THEN 0 ELSE 1
    /\ tried_as_is' = FALSE /\ saved_rc' = 0 /\ got_nodata' = FALSE
    /\ asked' = <<>> /\ rc' = 0 /\ pc' = "query"
    /\ UNCHANGED <<nsend_vars, net_vars, id, errno, answer, open>>

-----------------------------------------------------------------------------
(* res_nquery and res_nsend                                                 *)

\* ++statp->id
NextId == (id + 1) % Ids

\* res_nmkquery, where dn_find leaves ENOENT in errno, and the start of res_nsend.
res_nquery ==
    /\ pc = "query"
    /\ id' = NextId
    /\ asked' = Append(asked, Question)
    /\ try' = 0 /\ v_circuit' = UseVC /\ gotsomewhere' = FALSE /\ terrno' = "ETIMEDOUT"
    /\ sends' = [datagrams |-> 0, streams |-> 0]
    /\ IF name.legal
       THEN /\ pc' = "send" /\ errno' = "ENOENT"
            /\ UNCHANGED <<cand, tried_as_is, saved_rc, got_nodata, rc>>
       ELSE Ended(-1, "EMSGSIZE")
    /\ UNCHANGED <<net_vars, name, searches, answer, open>>

\* The answer's header, which decides on the result of the query.
Answered(a) ==
    /\ answer' = a
    /\ Ended(IF a.kind = "negative" THEN -1 ELSE 1, errno)

\* Variant for mutation: the tries are not counted.
SameTry(tries) == tries

\* try++
NextTry(tries) == tries + 1

\* A send failed, with n = 0: the next try or the end of res_nsend.
Failed(tries, somewhere) ==
    /\ try' = NextTry(tries)
    /\ IF NextTry(tries) < retry
       THEN /\ pc' = "send" /\ UNCHANGED <<cand, tried_as_is, saved_rc, got_nodata, rc, errno>>
       ELSE Ended(-1, CASE v_circuit -> terrno'
                        [] ~ v_circuit /\ somewhere -> "ETIMEDOUT"
                        [] OTHER -> "ECONNREFUSED")

\* send_dg up to recvfrom: it may fail at socket, which sets errno to 1, or after it.
send_dg ==
    /\ pc = "send" /\ ~ v_circuit
    /\ \/ /\ Ended(-1, "EPERM")
          /\ UNCHANGED <<nsend_vars, net, open>>
       \/ /\ Failed(try, gotsomewhere)
          /\ UNCHANGED <<v_circuit, gotsomewhere, terrno, sends, net, open>>
       \/ /\ net' = net \cup {Message("server", Question, "query")}
          /\ open' = open + 1 /\ pc' = "recvfrom"
          /\ sends' = [sends EXCEPT !.datagrams = CountTo(@, retry + 1)]
          /\ UNCHANGED <<cand, tried_as_is, saved_rc, got_nodata, rc, errno,
                         try, v_circuit, gotsomewhere, terrno>>
    /\ UNCHANGED <<lost, dups, name, asked, searches, id, answer>>

\* Variant for mutation: any answer is taken for the one that is waited for.
AnyAnswer(m) == TRUE

\* hp->id == anhp->id
Expected(m) == m.id = id

\* Variant for mutation: the socket stays open when a stream is to follow.
LeftOpen == open

\* close(s)
Closed == open - 1

\* An answer arrives: too short, old, truncated or whole.
receive(m) ==
    LET a == [id |-> m.id, question |-> m.question, kind |-> m.kind]
    IN  CASE a.kind = "short" ->
               /\ terrno' = "EMSGSIZE" /\ gotsomewhere' = TRUE /\ open' = open - 1
               /\ Failed(try, TRUE)
               /\ UNCHANGED <<answer, v_circuit, sends>>
          [] a.kind # "short" /\ ~ Expected(m) ->
               /\ answer' = a /\ gotsomewhere' = TRUE
               /\ UNCHANGED <<cand, tried_as_is, saved_rc, got_nodata, rc, errno, pc,
                              try, v_circuit, terrno, sends, open>>
          [] a.kind = "tc" /\ Expected(m) ->
               /\ answer' = a /\ gotsomewhere' = TRUE
               /\ v_circuit' = TRUE /\ open' = Closed /\ pc' = "send"
               /\ UNCHANGED <<cand, tried_as_is, saved_rc, got_nodata, rc, errno,
                              try, terrno, sends>>
          [] a.kind \in {"ok", "negative"} /\ Expected(m) ->
               /\ Answered(a) /\ gotsomewhere' = TRUE /\ open' = open - 1
               /\ UNCHANGED <<try, v_circuit, terrno, sends>>

recvfrom ==
    /\ pc = "recvfrom"
    /\ \E m \in net :
         /\ m.to = "client" /\ receive(m)
         /\ \/ net' = net \ {m} /\ UNCHANGED dups
            \/ dups < MaxDups /\ dups' = dups + 1 /\ UNCHANGED net
    /\ UNCHANGED <<lost, name, asked, searches, id>>

\* recvfrom brings nothing: a signal, or the server's host refuses; or ETIMEDOUT
\* or an answer of no bytes, which count as having got somewhere.
recvfails ==
    /\ pc = "recvfrom"
    /\ \E somewhere \in {gotsomewhere, TRUE} :
         gotsomewhere' = somewhere /\ Failed(try, somewhere)
    /\ open' = open - 1
    /\ UNCHANGED <<net_vars, name, asked, searches, id, answer, v_circuit, terrno, sends>>

\* try = statp->retry
NoMoreTries == retry

\* send_vc: it may fail at socket, or later, with what was assigned to terrno; else
\* the server's answer to this question comes, which is not compared with id.
send_vc ==
    /\ pc = "send" /\ v_circuit
    /\ sends' = [sends EXCEPT !.streams = CountTo(@, 2)]
    /\ \/ /\ Ended(-1, "EPERM")
          /\ try' = NoMoreTries /\ UNCHANGED <<terrno, answer>>
       \/ /\ terrno' \in {"EPERM", "0", "EMSGSIZE"}
          /\ Failed(NoMoreTries, gotsomewhere)
          /\ UNCHANGED answer
       \/ /\ \E kind \in Kinds \ {"short", "tc"} :
               Answered([id |-> id, question |-> Question, kind |-> kind])
          /\ try' = NoMoreTries /\ UNCHANGED terrno
    /\ UNCHANGED <<net_vars, name, asked, searches, id, v_circuit, gotsomewhere, open>>

-----------------------------------------------------------------------------
(* The server and the network                                               *)

server == \E m \in net, kind \in Kinds :
    /\ m.to = "server"
    /\ net' = (net \ {m}) \cup {[m EXCEPT !.to = "client", !.kind = kind]}
    /\ UNCHANGED <<lost, dups, search_vars, nsend_vars, pc, id, errno, answer, open>>

lose == \E m \in net :
    /\ net' = net \ {m}
    /\ lost' = (lost \/ (m.id = id /\ pc = "recvfrom"))
    /\ UNCHANGED <<dups, search_vars, nsend_vars, pc, id, errno, answer, open>>

Init ==
    /\ net = {} /\ lost = FALSE /\ dups = 0
    /\ pc = "idle" /\ name \in Names /\ cand = 0
    /\ tried_as_is = FALSE /\ saved_rc = 0 /\ got_nodata = FALSE
    /\ try = 0 /\ v_circuit = FALSE /\ gotsomewhere = FALSE /\ terrno = "ETIMEDOUT"
    /\ id = 0 /\ errno = "0" /\ rc = 0 /\ open = 0 /\ searches = 0
    /\ answer = [id |-> Ids, question |-> <<>>, kind |-> "none"]
    /\ asked = <<>> /\ sends = [datagrams |-> 0, streams |-> 0]

resolver == res_nsearch \/ res_nquery \/ send_dg \/ recvfrom \/ recvfails \/ send_vc

Next == resolver \/ server \/ lose

Fairness == WF_vars(res_nquery) /\ WF_vars(send_dg \/ send_vc) /\ WF_vars(recvfrom) /\ WF_vars(server)

Spec == Init /\ [][Next]_vars /\ Fairness

-----------------------------------------------------------------------------
(* Properties                                                               *)

\* An answer that res_search returns is the answer to the question it asked last,
\* whatever late or duplicated answers to earlier ones arrive (resolv.c:838).
AnswerBelongs ==
    pc = "done" /\ rc > 0 => answer.question = Question /\ answer.kind # "negative"

\* A search asks each question once, by as many datagrams as there are tries and at
\* most one stream, also where a truncated answer leads from one to the other.
AsksSparingly ==
    /\ \A i, j \in DOMAIN asked : asked[i] = asked[j] => i = j
    /\ sends.datagrams <= retry /\ sends.streams <= 1

\* Whichever way a query ends or goes over to a stream, no socket is left behind.
SocketsClosed == open = IF pc = "recvfrom" THEN 1 ELSE 0

\* A search returns, unless a datagram that it waits for is lost: recvfrom has no
\* timer (resolv.c:801).
SearchEnds == (pc = "query") ~> (pc = "done" \/ lost)

=============================================================================
