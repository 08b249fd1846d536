---------------------------- MODULE ResolverProofs ----------------------------
(***************************************************************************)
(* What a search of the resolver may ask, take for an answer and leave     *)
(* behind, for every search list, number of tries and behaviour of the     *)
(* server and the network.  A search moves through its candidates in one   *)
(* direction, and as is only once; the ids of its queries rise, and every  *)
(* datagram under way has the id of the query that it was sent for.        *)
(***************************************************************************)
EXTENDS Resolver, SequenceTheorems, TLAPS

Questions == {<<n.text, d>> : n \in Names, d \in STRING \cup {AsIs}}

Datagrams == [to : {"client", "server"}, id : Nat, question : Questions, kind : Kinds \cup {"query"}]

Types ==
    /\ pc \in {"idle", "query", "send", "recvfrom", "done"}
    /\ name \in Names /\ cand \in 0 .. Last /\ tried_as_is \in BOOLEAN
    /\ asked \in Seq(Questions) /\ id \in Nat
    /\ try \in Nat /\ v_circuit \in BOOLEAN
    /\ sends \in [{"datagrams", "streams"} -> Nat]
    /\ net \subseteq Datagrams /\ \A m \in net : m.to = "client" => m.kind \in Kinds
    /\ pc = "recvfrom" => ~ v_circuit

Sending == pc \in {"send", "recvfrom"}

\* As is comes last only where it has not been tried.
InOrder == pc = "query" \/ Sending =>
    /\ cand = 0 => ~ tried_as_is
    /\ cand = Last => ~ tried_as_is

-----------------------------------------------------------------------------
(* The end of a query                                                       *)

\* The search goes on to a later candidate.
Advance ==
    /\ pc' = "query"
    /\ cand' \in cand + 1 .. Last
    /\ IF cand = 0 THEN tried_as_is' = TRUE ELSE tried_as_is' = tried_as_is
    /\ cand' = Last => ~ tried_as_is'

\* It returns r.
Over(r) == pc' = "done" /\ rc' = r /\ UNCHANGED <<cand, tried_as_is>>

LEMMA LastIs == Last \in Nat /\ Last >= 2 /\ DOMAIN dnsrch = 1 .. Last - 1 /\ Len(dnsrch) = Last - 1
<1>1. dnsrch \in Seq(STRING) /\ dnsrch # <<>>
  BY ResolverAssumption
<1>2. Len(dnsrch) \in Nat /\ DOMAIN dnsrch = 1 .. Len(dnsrch) /\ Len(dnsrch) # 0
  BY <1>1, EmptySeq, LenProperties
<1> QED
  BY <1>2 DEF Last

\* Each way a query ends.
LEMMA EndedIs ==
  ASSUME Types, NEW result \in {-1, 1}, NEW error, Ended(result, error)
  PROVE  /\ result = 1 => Over(1)
         /\ result = -1 => Over(-1) \/ Advance
<1>1. cand \in 0 .. Last /\ Last \in Nat /\ Last >= 2 /\ DOMAIN dnsrch = 1 .. Last - 1
      /\ Len(dnsrch) = Last - 1
  BY LastIs DEF Types
<1>2. ASSUME NEW n, AfterDomains(error, n), cand \in DOMAIN dnsrch
      PROVE  Over(-1) \/ Advance
  <2>1. CASE LastResort
    BY <1>1, <1>2, <2>1 DEF AfterDomains, LastResort, Advance
  <2>2. CASE ~ LastResort
    BY <1>2, <2>2 DEF AfterDomains, GiveUp, Over
  <2> QED
    BY <2>1, <2>2
<1>3. CASE result > 0 /\ Return(result, error)
  BY <1>3 DEF Return, Over
<1>4. CASE /\ result <= 0 /\ cand = 0
           /\ IF name.trailing_dot
              THEN Return(result, error)
              ELSE /\ saved_rc' = result /\ tried_as_is' = TRUE /\ errno' = error
                   /\ cand' = 1 /\ pc' = "query" /\ UNCHANGED <<rc, got_nodata>>
  <2>1. CASE name.trailing_dot
    BY <1>4, <2>1 DEF Return, Over
  <2>2. CASE ~ name.trailing_dot
    BY <1>1, <1>4, <2>2 DEF Advance
  <2> QED
    BY <2>1, <2>2
<1>5. CASE /\ result <= 0 /\ cand \in DOMAIN dnsrch
           /\ \/ error = "ECONNREFUSED" /\ Return(-1, error)
              \/ error \in KeepTrying /\ NextDomain(error)
              \/ error \notin KeepTrying \cup {"ECONNREFUSED"} /\ AfterDomains(error, got_nodata)
  <2>1. CASE Return(-1, error)
    BY <1>5, <2>1 DEF Return, Over
  <2>2. CASE NextDomain(error) /\ cand < Len(dnsrch)
    BY <1>1, <1>5, <2>2 DEF NextDomain, Advance
  <2>3. CASE NextDomain(error) /\ ~ cand < Len(dnsrch)
    <3>1. AfterDomains(error, TimedOut(error))
      BY <2>3 DEF NextDomain
    <3> QED
      BY <1>2, <1>5, <3>1
  <2>4. CASE AfterDomains(error, got_nodata)
    BY <1>2, <1>5, <2>4
  <2> QED
    BY <1>5, <2>1, <2>2, <2>3, <2>4
<1>6. CASE result <= 0 /\ cand = Last /\ GiveUp(error, got_nodata)
  BY <1>6 DEF GiveUp, Over
<1> QED
  BY <1>3, <1>4, <1>5, <1>6 DEF Ended

-----------------------------------------------------------------------------
(* What each step may do, in the terms of the proofs below                  *)

Stays == UNCHANGED <<name, cand, tried_as_is, id, asked>>

Asks ==
    /\ pc = "query" /\ id' = NextId /\ asked' = Append(asked, Question)
    /\ try' = 0 /\ v_circuit' = UseVC /\ sends' = [datagrams |-> 0, streams |-> 0]
    /\ UNCHANGED <<name, net>>
    /\ (pc' = "send" /\ UNCHANGED <<cand, tried_as_is>>) \/ Over(-1) \/ Advance

Sends ==
    /\ pc = "send" /\ ~ v_circuit /\ pc' = "recvfrom" /\ Stays
    /\ net' = net \cup {Message("server", Question, "query")}
    /\ sends' = [sends EXCEPT !.datagrams = CountTo(@, retry + 1)]
    /\ UNCHANGED <<try, v_circuit>>

Retries ==
    /\ Sending /\ ~ v_circuit /\ pc' = "send" /\ Stays
    /\ try' = try + 1 /\ try + 1 < retry
    /\ net' \subseteq net /\ UNCHANGED <<v_circuit, sends>>

GoesToStream ==
    /\ pc = "recvfrom" /\ pc' = "send" /\ Stays
    /\ v_circuit' = TRUE /\ net' \subseteq net /\ UNCHANGED <<try, sends>>

\* The answer is the stream's, or came with the id of the query.
Belonging ==
    /\ answer'.kind \in Kinds \ {"negative"}
    /\ \/ answer'.question = Question
       \/ \E m \in net : m.id = id /\ m.question = answer'.question

Ends ==
    /\ Sending /\ try' \in Nat /\ net' \subseteq net
    /\ \/ sends' = sends
       \/ pc = "send" /\ v_circuit /\ sends' = [sends EXCEPT !.streams = CountTo(@, 2)]
    /\ (Over(1) /\ Belonging) \/ Over(-1) \/ Advance
    /\ UNCHANGED <<name, id, asked, v_circuit>>

Keeps ==
    /\ Stays /\ UNCHANGED <<pc, try, v_circuit, sends, rc>>
    /\ pc # "recvfrom" => UNCHANGED answer
    /\ net' \subseteq net

Serves ==
    /\ Stays /\ UNCHANGED <<pc, try, v_circuit, sends, rc, answer>>
    /\ \E m \in net, kind \in Kinds : net' = (net \ {m}) \cup {[m EXCEPT !.to = "client", !.kind = kind]}

-----------------------------------------------------------------------------
(* Steps                                                                    *)

\* A failed try is followed by another one, or by the end of the query.
LEMMA FailedIs ==
  ASSUME Types, NEW tries \in Nat, NEW somewhere, Failed(tries, somewhere)
  PROVE  /\ try' = tries + 1
         /\ \/ tries + 1 < retry /\ pc' = "send" /\ UNCHANGED <<cand, tried_as_is>>
            \/ Over(-1) \/ Advance
<1>1. try' = tries + 1
  BY DEF Failed, NextTry
<1>2. CASE tries + 1 < retry
  BY <1>1, <1>2 DEF Failed, NextTry
<1>3. CASE ~ (tries + 1 < retry)
  <2>1. \E error : Ended(-1, error)
    BY <1>3 DEF Failed, NextTry
  <2> QED
    BY <1>1, <2>1, EndedIs
<1> QED
  BY <1>1, <1>2, <1>3

\* An answer that is taken ends the query.
LEMMA AnsweredIs ==
  ASSUME Types, NEW a, Answered(a), a.kind \in Kinds
  PROVE  (Over(1) /\ answer' = a /\ a.kind # "negative") \/ Over(-1) \/ Advance
<1>1. CASE a.kind = "negative"
  <2>1. Ended(-1, errno)
    BY <1>1 DEF Answered
  <2> QED
    BY <2>1, EndedIs
<1>2. CASE a.kind # "negative"
  <2>1. Ended(1, errno) /\ answer' = a
    BY <1>2 DEF Answered
  <2> QED
    BY <1>2, <2>1, EndedIs
<1> QED
  BY <1>1, <1>2

\* Receiving a datagram is a step of one of these kinds.
LEMMA ReceiveIs ==
  ASSUME Types, recvfrom
  PROVE  Retries \/ GoesToStream \/ Ends \/ Keeps
<1>1. PICK m \in net : m.to = "client" /\ receive(m)
  BY DEF recvfrom
<1>2. /\ pc = "recvfrom" /\ net' \subseteq net /\ UNCHANGED <<name, asked, id>>
      /\ ~ v_circuit /\ Sending /\ try \in Nat /\ m.kind \in Kinds
      /\ Kinds \subseteq {"ok", "tc", "negative", "short"}
  BY <1>1, ResolverAssumption DEF recvfrom, Types, Sending
<1>3. CASE m.kind = "short"
  <2>1. (\E somewhere : Failed(try, somewhere)) /\ UNCHANGED <<v_circuit, sends>>
    BY <1>1, <1>3 DEF receive
  <2>2. /\ try' = try + 1
        /\ \/ try + 1 < retry /\ pc' = "send" /\ UNCHANGED <<cand, tried_as_is>>
           \/ Over(-1) \/ Advance
    BY <1>2, <2>1, FailedIs
  <2> QED
    BY <1>2, <2>1, <2>2 DEF Retries, Ends, Stays
<1>4. CASE m.kind # "short" /\ ~ Expected(m)
  <2>1. UNCHANGED <<cand, tried_as_is, rc, pc, try, v_circuit, sends>>
    BY <1>1, <1>4 DEF receive
  <2> QED
    BY <1>2, <2>1 DEF Keeps, Stays
<1>5. CASE m.kind = "tc" /\ Expected(m)
  <2>1. v_circuit' = TRUE /\ pc' = "send" /\ UNCHANGED <<cand, tried_as_is, try, sends>>
    BY <1>1, <1>5 DEF receive
  <2> QED
    BY <1>2, <2>1 DEF GoesToStream, Stays
<1>6. CASE m.kind \in {"ok", "negative"} /\ Expected(m)
  <2> DEFINE a == [id |-> m.id, question |-> m.question, kind |-> m.kind]
  <2>1. Answered(a) /\ UNCHANGED <<try, v_circuit, sends>>
    BY <1>1, <1>6 DEF receive
  <2>2. a.kind = m.kind /\ a.question = m.question /\ m.id = id
    BY <1>6 DEF Expected
  <2> HIDE DEF a
  <2>3. (Over(1) /\ answer' = a /\ a.kind # "negative") \/ Over(-1) \/ Advance
    BY <1>2, <2>1, <2>2, AnsweredIs
  <2>4. answer' = a /\ a.kind # "negative" => Belonging
    BY <1>2, <2>2 DEF Belonging
  <2> QED
    BY <1>2, <2>1, <2>3, <2>4 DEF Ends
<1> QED
  BY <1>2, <1>3, <1>4, <1>5, <1>6

\* So is every step but the start of a search.
LEMMA StepIs ==
  ASSUME Types, [Next]_vars
  PROVE  res_nsearch \/ Asks \/ Sends \/ Retries \/ GoesToStream \/ Ends \/ Keeps \/ Serves
<1>1. CASE res_nquery
  <2>1. CASE name.legal
    BY <1>1, <2>1 DEF res_nquery, Asks, net_vars
  <2>2. CASE ~ name.legal
    <3>1. Ended(-1, "EMSGSIZE")
      BY <1>1, <2>2 DEF res_nquery
    <3> QED
      BY <1>1, <3>1, EndedIs DEF res_nquery, Asks, net_vars
  <2> QED
    BY <2>1, <2>2
<1>2. CASE send_dg
  <2>1. pc = "send" /\ ~ v_circuit /\ UNCHANGED <<name, asked, id>> /\ try \in Nat /\ Sending
    BY <1>2 DEF send_dg, Types, Sending
  <2>2. CASE Ended(-1, "EPERM") /\ UNCHANGED <<nsend_vars, net, open>>
    <3>1. Over(-1) \/ Advance
      BY <2>2, EndedIs
    <3> QED
      BY <2>1, <2>2, <3>1 DEF Ends, nsend_vars
  <2>3. CASE Failed(try, gotsomewhere) /\ UNCHANGED <<v_circuit, sends, net>>
    <3>1. /\ try' = try + 1
          /\ \/ try + 1 < retry /\ pc' = "send" /\ UNCHANGED <<cand, tried_as_is>>
             \/ Over(-1) \/ Advance
      BY <2>1, <2>3, FailedIs
    <3> QED
      BY <2>1, <2>3, <3>1 DEF Retries, Ends, Stays
  <2> QED
    BY <1>2, <2>1, <2>2, <2>3 DEF send_dg, Sends, Stays
<1>3. CASE recvfails
  <2>1. /\ pc = "recvfrom" /\ ~ v_circuit /\ UNCHANGED <<name, asked, id, net, v_circuit, sends>>
        /\ try \in Nat /\ Sending
    BY <1>3 DEF recvfails, Types, Sending, net_vars
  <2>2. PICK somewhere \in {gotsomewhere, TRUE} : Failed(try, somewhere)
    BY <1>3 DEF recvfails
  <2>3. /\ try' = try + 1
        /\ \/ try + 1 < retry /\ pc' = "send" /\ UNCHANGED <<cand, tried_as_is>>
           \/ Over(-1) \/ Advance
    BY <2>1, <2>2, FailedIs
  <2> QED
    BY <2>1, <2>3 DEF Retries, Ends, Stays
<1>4. CASE send_vc
  <2>1. /\ pc = "send" /\ v_circuit /\ UNCHANGED <<name, asked, id, net, v_circuit>>
        /\ sends' = [sends EXCEPT !.streams = CountTo(@, 2)] /\ Sending
        /\ retry \in Nat /\ Kinds \subseteq {"ok", "tc", "negative", "short"}
    BY <1>4, ResolverAssumption DEF send_vc, Sending, net_vars
  <2>2. CASE Ended(-1, "EPERM") /\ try' = NoMoreTries
    <3>1. Over(-1) \/ Advance
      BY <2>2, EndedIs
    <3> QED
      BY <2>1, <2>2, <3>1 DEF Ends, NoMoreTries
  <2>3. CASE Failed(NoMoreTries, gotsomewhere)
    <3>1. Failed(retry, gotsomewhere)
      BY <2>3 DEF NoMoreTries
    <3>2. try' = retry + 1 /\ (retry + 1 < retry \/ Over(-1) \/ Advance)
      BY <2>1, <3>1, FailedIs
    <3> QED
      BY <2>1, <3>2 DEF Ends
  <2>4. ASSUME NEW kind \in Kinds \ {"short", "tc"},
               Answered([id |-> id, question |-> Question, kind |-> kind]), try' = NoMoreTries
        PROVE  Ends
    <3> DEFINE a == [id |-> id, question |-> Question, kind |-> kind]
    <3>1. Answered(a) /\ a.kind = kind /\ a.question = Question
      BY <2>4
    <3> HIDE DEF a
    <3>2. (Over(1) /\ answer' = a /\ a.kind # "negative") \/ Over(-1) \/ Advance
      BY <3>1, AnsweredIs
    <3>3. answer' = a /\ a.kind # "negative" => Belonging
      BY <3>1 DEF Belonging
    <3> QED
      BY <2>1, <2>4, <3>2, <3>3 DEF Ends, NoMoreTries
  <2> QED
    BY <1>4, <2>2, <2>3, <2>4 DEF send_vc
<1>5. CASE server
  BY <1>5 DEF server, Serves, Stays, search_vars, nsend_vars
<1>6. CASE lose \/ UNCHANGED vars
  BY <1>6 DEF lose, Keeps, Stays, search_vars, nsend_vars, net_vars, vars
<1> QED
  BY <1>1, <1>2, <1>3, <1>4, <1>5, <1>6, ReceiveIs DEF Next, resolver

LEMMA QuestionIs == Types => Question \in Questions
<1> DEFINE d == IF cand \in DOMAIN dnsrch THEN dnsrch[cand] ELSE AsIs
<1>1. d \in STRING \cup {AsIs}
  <2>1. dnsrch \in Seq(STRING)
    BY ResolverAssumption
  <2>2. DOMAIN dnsrch = 1 .. Len(dnsrch) /\ \A i \in 1 .. Len(dnsrch) : dnsrch[i] \in STRING
    BY <2>1, ElementOfSeq, LenProperties
  <2> QED
    BY <2>2
<1>2. Question = <<name.text, d>>
  BY DEF Question
<1> HIDE DEF d
<1> QED
  BY <1>1, <1>2 DEF Types, Questions

LEMMA TypesHold == Spec => []Types
<1>1. Init => Types
  <2> SUFFICES ASSUME Init PROVE Types
    OBVIOUS
  <2>1. 0 \in 0 .. Last /\ <<>> \in Seq(Questions)
    BY LastIs
  <2>2. sends \in [{"datagrams", "streams"} -> Nat] /\ try \in Nat /\ id \in Nat
    BY DEF Init
  <2>3. name \in Names /\ cand = 0 /\ asked = <<>> /\ net = {} /\ pc = "idle"
    BY DEF Init
  <2>4. tried_as_is \in BOOLEAN /\ v_circuit \in BOOLEAN
    BY DEF Init
  <2> QED
    BY <2>1, <2>2, <2>3, <2>4 DEF Types
<1>2. Types /\ [Next]_vars => Types'
  <2> SUFFICES ASSUME Types, [Next]_vars PROVE Types'
    OBVIOUS
  <2> USE DEF Types
  <2>0. Last \in Nat /\ Last >= 2 /\ Question \in Questions /\ retry \in Nat /\ UseVC \in BOOLEAN
    BY LastIs, QuestionIs, ResolverAssumption
  <2>1. CASE res_nsearch
    <3>1. cand' \in 0 .. Last
      BY <2>0, <2>1 DEF res_nsearch
    <3>2. asked' \in Seq(Questions) /\ name' \in Names /\ pc' = "query"
      BY <2>1 DEF res_nsearch
    <3>3. tried_as_is' \in BOOLEAN
      BY <2>1 DEF res_nsearch
    <3>4. UNCHANGED <<id, try, v_circuit, sends, net>>
      BY <2>1 DEF res_nsearch, nsend_vars, net_vars
    <3> QED
      BY <3>1, <3>2, <3>3, <3>4
  <2>2. ASSUME Over(1) \/ Over(-1) \/ Advance
        PROVE  pc' \in {"query", "done"} /\ cand' \in 0 .. Last /\ tried_as_is' \in BOOLEAN
    <3>1. pc' \in {"query", "done"} /\ cand' \in 0 .. Last
      BY <2>0, <2>2 DEF Over, Advance
    <3>2. tried_as_is' = TRUE \/ tried_as_is' = tried_as_is
      BY <2>2, Zenon DEF Over, Advance
    <3> QED
      BY <3>1, <3>2
  <2>3. CASE Asks
    <3>1. id' \in Nat
      BY <2>3, ResolverAssumption DEF Asks, NextId
    <3>2. asked' \in Seq(Questions)
      BY <2>0, <2>3 DEF Asks
    <3> QED
      BY <2>0, <2>2, <2>3, <3>1, <3>2 DEF Asks
  <2>4. CASE Sends
    <3> DEFINE m == Message("server", Question, "query")
    <3>1. m \in Datagrams /\ m.to = "server"
      BY <2>0 DEF Message, Datagrams
    <3>2. net' = net \cup {m}
      BY <2>4 DEF Sends
    <3> HIDE DEF m
    <3>3. net' \subseteq Datagrams /\ \A n \in net' : n.to = "client" => n.kind \in Kinds
      BY <3>1, <3>2
    <3>4. sends' \in [{"datagrams", "streams"} -> Nat]
      BY <2>0, <2>4 DEF Sends, CountTo
    <3> QED
      BY <2>4, <3>3, <3>4 DEF Sends, Stays
  <2>5. CASE Retries
    BY <2>5 DEF Retries, Stays
  <2>6. CASE GoesToStream
    BY <2>6 DEF GoesToStream, Stays
  <2>7. CASE Ends
    <3>1. sends' \in [{"datagrams", "streams"} -> Nat]
      BY <2>7 DEF Ends, CountTo
    <3> QED
      BY <2>2, <2>7, <3>1 DEF Ends
  <2>8. CASE Keeps
    BY <2>8 DEF Keeps, Stays
  <2>9. CASE Serves
    <3>1. PICK m \in net, kind \in Kinds :
            net' = (net \ {m}) \cup {[m EXCEPT !.to = "client", !.kind = kind]}
      BY <2>9 DEF Serves
    <3> DEFINE r == [m EXCEPT !.to = "client", !.kind = kind]
    <3>2. r \in Datagrams /\ r.kind \in Kinds
      BY DEF Datagrams
    <3> HIDE DEF r
    <3>3. net' \subseteq Datagrams /\ \A n \in net' : n.to = "client" => n.kind \in Kinds
      BY <3>1, <3>2 DEF r
    <3> QED
      BY <2>9, <3>3 DEF Serves, Stays
  <2> QED
    BY <2>1, <2>3, <2>4, <2>5, <2>6, <2>7, <2>8, <2>9, StepIs
<1> QED
  BY <1>1, <1>2, PTL DEF Spec

-----------------------------------------------------------------------------
(* Sockets                                                                  *)

\* No end of a query leads back to recvfrom.
LEMMA EndedNotWaiting ==
  ASSUME NEW result, NEW error, Ended(result, error)
  PROVE  pc' \in {"query", "done"}
BY DEF Ended, Return, NextDomain, AfterDomains, GiveUp

\* Nor does a failed try.
LEMMA FailedNotWaiting ==
  ASSUME NEW tries, NEW somewhere, Failed(tries, somewhere)
  PROVE  pc' \in {"send", "query", "done"}
<1>1. pc' = "send" \/ \E error : Ended(-1, error)
  BY DEF Failed
<1> QED
  BY <1>1, EndedNotWaiting

\* A socket is open while the resolver waits for a datagram, and at no other time.
THEOREM SocketsClosedHolds == Spec => []SocketsClosed
<1>1. Init => SocketsClosed
  BY DEF Init, SocketsClosed
<1>2. SocketsClosed /\ Types /\ [Next]_vars => SocketsClosed'
  <2> SUFFICES ASSUME SocketsClosed, Types, [Next]_vars PROVE SocketsClosed'
    OBVIOUS
  <2>1. CASE recvfrom
    <3>1. pc = "recvfrom" /\ open = 1 /\ \E m \in net : m.to = "client" /\ receive(m)
      BY <2>1 DEF recvfrom, SocketsClosed
    <3>2. PICK m \in net : m.to = "client" /\ receive(m)
      BY <3>1
    <3>3. CASE m.kind = "short"
      <4>1. open' = open - 1 /\ \E somewhere : Failed(try, somewhere)
        BY <3>2, <3>3 DEF receive
      <4> QED
        BY <3>1, <4>1, EndedNotWaiting, FailedNotWaiting DEF SocketsClosed
    <3>4. CASE m.kind # "short" /\ ~ Expected(m)
      <4>1. UNCHANGED <<pc, open>>
        BY <3>2, <3>4 DEF receive
      <4> QED
        BY <4>1 DEF SocketsClosed
    <3>5. CASE m.kind = "tc" /\ Expected(m)
      BY <3>1, <3>2, <3>5 DEF receive, Closed, SocketsClosed
    <3>6. CASE m.kind \in {"ok", "negative"} /\ Expected(m)
      <4>1. open' = open - 1 /\ \E result, error : Ended(result, error)
        BY <3>2, <3>6 DEF receive, Answered
      <4> QED
        BY <3>1, <4>1, EndedNotWaiting, FailedNotWaiting DEF SocketsClosed
    <3>7. m.kind \in {"ok", "tc", "negative", "short"}
      BY <3>2, ResolverAssumption DEF Types
    <3> QED
      BY <3>3, <3>4, <3>5, <3>6, <3>7
  <2>2. CASE recvfails
    <3>1. /\ pc = "recvfrom" /\ open' = open - 1
          /\ \E somewhere \in {gotsomewhere, TRUE} : Failed(try, somewhere)
      BY <2>2 DEF recvfails
    <3> QED
      BY <3>1, EndedNotWaiting, FailedNotWaiting DEF SocketsClosed
  <2>3. CASE send_dg
    <3>1. pc = "send" /\ open = 0
      BY <2>3 DEF send_dg, SocketsClosed
    <3>2. CASE Ended(-1, "EPERM") /\ open' = open
      BY <3>1, <3>2, EndedNotWaiting, FailedNotWaiting DEF SocketsClosed
    <3>3. CASE Failed(try, gotsomewhere) /\ open' = open
      BY <3>1, <3>3, EndedNotWaiting, FailedNotWaiting DEF SocketsClosed
    <3>4. CASE pc' = "recvfrom" /\ open' = open + 1
      BY <3>1, <3>4 DEF SocketsClosed
    <3> QED
      BY <2>3, <3>2, <3>3, <3>4 DEF send_dg
  <2>4. CASE send_vc
    <3>1. pc = "send" /\ open' = open
      BY <2>4 DEF send_vc
    <3>2. \/ \E result, error : Ended(result, error)
          \/ Failed(NoMoreTries, gotsomewhere)
      BY <2>4 DEF send_vc, Answered
    <3> QED
      BY <3>1, <3>2, EndedNotWaiting, FailedNotWaiting DEF SocketsClosed
  <2>5. CASE res_nsearch
    BY <2>5 DEF res_nsearch, SocketsClosed
  <2>6. CASE res_nquery
    <3>1. pc = "query" /\ open' = open
      BY <2>6 DEF res_nquery
    <3>2. pc' = "send" \/ \E result, error : Ended(result, error)
      BY <2>6 DEF res_nquery
    <3> QED
      BY <3>1, <3>2, EndedNotWaiting, FailedNotWaiting DEF SocketsClosed
  <2>7. CASE server \/ lose \/ UNCHANGED vars
    BY <2>7 DEF server, lose, vars, SocketsClosed
  <2> QED
    BY <2>1, <2>2, <2>3, <2>4, <2>5, <2>6, <2>7 DEF Next, resolver
<1> QED
  BY <1>1, <1>2, TypesHold, PTL DEF Spec

-----------------------------------------------------------------------------
(* Questions                                                                *)

\* The search list names no domain twice, nor is one of them the mark for as is.
NoDomainTwice ==
    /\ \A i, j \in DOMAIN dnsrch : dnsrch[i] = dnsrch[j] => i = j
    /\ \A i \in DOMAIN dnsrch : dnsrch[i] # AsIs

\* The questions that the search is past.
Behind == {q \in Questions :
    \/ \E k \in DOMAIN dnsrch : k < cand /\ q = <<name.text, dnsrch[k]>>
    \/ tried_as_is /\ q = <<name.text, AsIs>>}

AskedBefore ==
    /\ pc = "query" => \A i \in DOMAIN asked : asked[i] \in Behind
    /\ Sending => \A i \in DOMAIN asked : asked[i] \in Behind \/ asked[i] = Question

AskedOnce == \A i, j \in DOMAIN asked : asked[i] = asked[j] => i = j

Counts ==
    /\ sends["datagrams"] <= retry /\ sends["streams"] <= 1
    /\ Sending => try < retry
    /\ pc = "send" => sends["streams"] = 0
    /\ pc = "send" /\ ~ v_circuit => sends["datagrams"] <= try
    /\ pc = "recvfrom" => sends["datagrams"] <= try + 1 /\ sends["streams"] = 0

\* As is, and with a domain.
LEMMA QuestionForms ==
  ASSUME Types
  PROVE  /\ cand \in {0, Last} => Question = <<name.text, AsIs>>
         /\ cand \in DOMAIN dnsrch => Question = <<name.text, dnsrch[cand]>>
         /\ cand \in {0, Last} \/ cand \in DOMAIN dnsrch
<1>1. cand \in 0 .. Last /\ Last \in Nat /\ Last >= 2 /\ DOMAIN dnsrch = 1 .. Last - 1
  BY LastIs DEF Types
<1>2. cand \in {0, Last} => cand \notin DOMAIN dnsrch
  BY <1>1
<1>3. cand \in {0, Last} \/ cand \in DOMAIN dnsrch
  BY <1>1
<1> QED
  BY <1>2, <1>3 DEF Question

\* What was asked is behind the search when it advances.
LEMMA BehindOnAdvance ==
  ASSUME Types, Advance, name' = name, NEW q \in Questions, q \in Behind \/ q = Question
  PROVE  q \in Behind'
<1>1. /\ cand \in 0 .. Last /\ Last \in Nat /\ Last >= 2 /\ DOMAIN dnsrch = 1 .. Last - 1
      /\ cand' \in cand + 1 .. Last
  BY LastIs DEF Types, Advance
<1>2. (cand = 0 => tried_as_is') /\ (tried_as_is => tried_as_is')
  BY Zenon DEF Advance
<1>3. CASE q \in Behind
  <2>1. CASE tried_as_is /\ q = <<name.text, AsIs>>
    BY <1>2, <2>1 DEF Behind
  <2>2. ASSUME NEW k \in DOMAIN dnsrch, k < cand, q = <<name.text, dnsrch[k]>>
        PROVE  q \in Behind'
    <3>1. k < cand'
      BY <1>1, <2>2
    <3> QED
      BY <2>2, <3>1 DEF Behind
  <2> QED
    BY <1>3, <2>1, <2>2 DEF Behind
<1>4. CASE q = Question
  <2>1. CASE cand = 0
    BY <1>2, <1>4, <2>1, QuestionForms DEF Behind
  <2>2. CASE cand \in DOMAIN dnsrch
    <3>1. cand < cand' /\ q = <<name.text, dnsrch[cand]>>
      BY <1>1, <1>4, <2>2, QuestionForms
    <3> QED
      BY <2>2, <3>1 DEF Behind
  <2> QED
    BY <1>1, <2>1, <2>2
<1> QED
  BY <1>3, <1>4

\* A question that is asked was not asked before.
LEMMA QuestionIsNew ==
  ASSUME Types, InOrder, pc = "query", NoDomainTwice
  PROVE  Question \notin Behind
<1>1. cand \in 0 .. Last /\ Last \in Nat /\ Last >= 2 /\ DOMAIN dnsrch = 1 .. Last - 1
  BY LastIs DEF Types
<1>2. CASE cand \in {0, Last}
  <2>1. ~ tried_as_is /\ Question = <<name.text, AsIs>>
    BY <1>2, QuestionForms DEF InOrder
  <2> QED
    BY <2>1 DEF Behind, NoDomainTwice
<1>3. CASE cand \in DOMAIN dnsrch
  <2>1. Question = <<name.text, dnsrch[cand]>>
    BY <1>3, QuestionForms
  <2>2. \A k \in DOMAIN dnsrch : k < cand => dnsrch[k] # dnsrch[cand]
    BY <1>1, <1>3 DEF NoDomainTwice
  <2> QED
    BY <1>3, <2>1, <2>2 DEF Behind, NoDomainTwice
<1> QED
  BY <1>2, <1>3, QuestionForms

Asking == InOrder /\ AskedBefore /\ AskedOnce

\* The questions are new where the search moves on, and nothing is asked elsewhere.
LEMMA AskingKept ==
  ASSUME NoDomainTwice, Types, Asking, [Next]_vars
  PROVE  Asking'
<1>1. CASE res_nsearch
  <2>1. DOMAIN asked' = {} /\ pc' = "query" /\ tried_as_is' = FALSE
    BY <1>1 DEF res_nsearch
  <2> QED
    BY <2>1 DEF Asking, InOrder, AskedBefore, AskedOnce, Sending
<1>2. CASE Asks
  <2>1. /\ asked \in Seq(Questions) /\ Question \in Questions /\ name' = name
        /\ asked' = Append(asked, Question) /\ pc = "query"
    BY <1>2, QuestionIs DEF Asks, Types
  <2>2. /\ Len(asked) \in Nat /\ DOMAIN asked = 1 .. Len(asked)
        /\ DOMAIN asked' = 1 .. Len(asked) + 1
        /\ asked'[Len(asked) + 1] = Question
        /\ \A i \in 1 .. Len(asked) : asked'[i] = asked[i]
    BY <2>1
  <2>3. Question \notin Behind /\ \A i \in DOMAIN asked : asked[i] \in Behind
    BY <2>1, QuestionIsNew DEF Asking, AskedBefore
  <2>4. AskedOnce'
    <3>1. \A i \in DOMAIN asked : asked[i] # Question
      BY <2>3
    <3> QED
      BY <2>2, <3>1 DEF Asking, AskedOnce
  <2>5. \A i \in DOMAIN asked' : asked'[i] \in Questions /\ (asked'[i] \in Behind \/ asked'[i] = Question)
    BY <2>1, <2>2, <2>3
  <2>6. CASE pc' = "send" /\ UNCHANGED <<cand, tried_as_is>>
    <3>1. InOrder'
      BY <2>1, <2>6 DEF Asking, InOrder, Sending
    <3>2. Question' = Question /\ Behind' = Behind
      BY <2>1, <2>6 DEF Question, Behind
    <3>3. AskedBefore'
      BY <2>5, <2>6, <3>2 DEF AskedBefore, Sending
    <3> QED
      BY <2>4, <3>1, <3>3 DEF Asking
  <2>7. CASE Over(-1)
    BY <2>4, <2>7 DEF Asking, Over, InOrder, AskedBefore, Sending
  <2>8. CASE Advance
    <3>1. \A i \in DOMAIN asked' : asked'[i] \in Behind'
      BY <2>1, <2>5, <2>8, BehindOnAdvance
    <3>2. pc' = "query" /\ cand' # 0 /\ (cand' = Last => ~ tried_as_is') /\ Last' = Last
      BY <2>8, LastIs DEF Advance, Types, Last
    <3> QED
      BY <2>4, <3>1, <3>2 DEF Asking, InOrder, AskedBefore, Sending
  <2> QED
    BY <1>2, <2>6, <2>7, <2>8 DEF Asks
<1>3. CASE Ends
  <2>1. UNCHANGED <<name, asked>> /\ Sending /\ AskedOnce'
    BY <1>3 DEF Ends, Asking, AskedOnce
  <2>2. CASE pc' = "done"
    BY <2>1, <2>2 DEF Asking, InOrder, AskedBefore, Sending
  <2>3. CASE Advance
    <3>1. \A i \in DOMAIN asked' : asked'[i] \in Behind'
      <4>1. \A i \in DOMAIN asked : asked[i] \in Questions /\ (asked[i] \in Behind \/ asked[i] = Question)
        BY <2>1 DEF Types, Asking, AskedBefore
      <4> QED
        BY <2>1, <2>3, <4>1, BehindOnAdvance
    <3>2. pc' = "query" /\ cand' # 0 /\ (cand' = Last => ~ tried_as_is') /\ Last' = Last
      BY <2>3, LastIs DEF Advance, Types, Last
    <3> QED
      BY <2>1, <3>1, <3>2 DEF Asking, InOrder, AskedBefore, Sending
  <2> QED
    BY <1>3, <2>2, <2>3 DEF Ends, Over
<1>4. CASE Stays /\ (pc' = pc \/ (Sending /\ Sending'))
  <2>1. Question' = Question /\ Behind' = Behind
    BY <1>4 DEF Question, Behind, Stays
  <2>2. asked' = asked /\ cand' = cand /\ tried_as_is' = tried_as_is
        /\ (pc' = "query" => pc = "query") /\ (Sending' => Sending)
    BY <1>4 DEF Stays, Sending
  <2> QED
    BY <2>1, <2>2 DEF Asking, InOrder, AskedBefore, AskedOnce
<1>5. Sends \/ Retries \/ GoesToStream \/ Keeps \/ Serves
      => Stays /\ (pc' = pc \/ (Sending /\ Sending'))
  BY DEF Sends, Retries, GoesToStream, Keeps, Serves, Sending
<1> QED
  BY <1>1, <1>2, <1>3, <1>4, <1>5, StepIs

\* No try sends more than one datagram, and a stream is the last try.
LEMMA CountsKept ==
  ASSUME Types, Counts, [Next]_vars
  PROVE  Counts'
<1>0. retry \in Nat \ {0} /\ try \in Nat /\ sends["datagrams"] \in Nat /\ sends["streams"] \in Nat
  BY ResolverAssumption DEF Types
<1>1. CASE res_nsearch
  BY <1>1 DEF res_nsearch, nsend_vars, Counts, Sending
<1>2. CASE Asks
  BY <1>0, <1>2 DEF Asks, Over, Advance, Counts, Sending
<1>3. CASE Sends
  <2>1. /\ sends'["datagrams"] = CountTo(sends["datagrams"], retry + 1)
        /\ sends'["streams"] = sends["streams"]
    BY <1>3 DEF Sends, Types
  <2>2. sends'["datagrams"] \in Nat /\ sends'["datagrams"] <= try + 1
    BY <1>0, <1>3, <2>1 DEF Sends, Counts, CountTo
  <2>3. try < retry /\ sends["streams"] = 0 /\ pc' = "recvfrom" /\ try' = try
    BY <1>3 DEF Sends, Stays, Counts, Sending
  <2> QED
    BY <1>0, <2>1, <2>2, <2>3 DEF Counts, Sending
<1>4. CASE Retries
  BY <1>0, <1>4 DEF Retries, Counts, Sending
<1>5. CASE GoesToStream
  BY <1>0, <1>5 DEF GoesToStream, Counts, Sending
<1>6. CASE Ends
  <2>1. pc' \in {"query", "done"} /\ Sending
    BY <1>6 DEF Ends, Over, Advance
  <2>2. CASE sends' = sends
    BY <2>1, <2>2 DEF Counts, Sending
  <2>3. CASE pc = "send" /\ sends' = [sends EXCEPT !.streams = CountTo(@, 2)]
    <3>1. /\ sends'["datagrams"] = sends["datagrams"]
          /\ sends'["streams"] = CountTo(sends["streams"], 2)
      BY <2>3 DEF Types
    <3> QED
      BY <2>1, <2>3, <3>1 DEF Counts, Sending, CountTo
  <2> QED
    BY <1>6, <2>2, <2>3 DEF Ends
<1>7. CASE Keeps \/ Serves
  BY <1>7 DEF Keeps, Serves, Counts, Sending
<1> QED
  BY <1>1, <1>2, <1>3, <1>4, <1>5, <1>6, <1>7, StepIs

\* A search asks no question twice, and a query sends no more datagrams than there are
\* tries and no more than one stream, unless the search list names a domain twice.
THEOREM AsksSparinglyHolds ==
  ASSUME NoDomainTwice
  PROVE  Spec => []AsksSparingly
<1>1. Init => Asking /\ Counts
  <2> SUFFICES ASSUME Init PROVE Asking /\ Counts
    OBVIOUS
  <2>1. pc = "idle" /\ DOMAIN asked = {} /\ retry \in Nat
    BY ResolverAssumption DEF Init
  <2>2. sends["datagrams"] = 0 /\ sends["streams"] = 0
    BY DEF Init
  <2> QED
    BY <2>1, <2>2 DEF Asking, InOrder, AskedBefore, AskedOnce, Counts, Sending
<1>2. Types /\ Asking /\ Counts /\ [Next]_vars => (Asking /\ Counts)'
  BY AskingKept, CountsKept
<1>3. Types /\ Asking /\ Counts => AsksSparingly
  BY DEF Types, Asking, Counts, AskedOnce, AsksSparingly
<1> QED
  BY <1>1, <1>2, <1>3, TypesHold, PTL DEF Spec

-----------------------------------------------------------------------------
(* Answers                                                                  *)

\* The questions that may be left, the present one included.
Todo == IF cand = 0 THEN Last ELSE IF tried_as_is THEN Last - cand ELSE (Last - cand) + 1

\* No id is used twice.
Budgeted ==
    /\ searches \in 0 .. MaxSearches
    /\ id <= searches * Last
    /\ pc = "query" => id + Todo <= searches * Last
    /\ Sending => id + Todo <= searches * Last + 1

\* A datagram with the id of this query is about its question.
OwnIds == \A m \in net : m.id <= id /\ (m.id = id /\ Sending => m.question = Question)

LEMMA TodoIs ==
  ASSUME Types, InOrder
  PROVE  /\ Todo \in Nat /\ Todo <= Last
         /\ pc = "query" \/ Sending => Todo >= 1
<1>1. cand \in 0 .. Last /\ Last \in Nat /\ Last >= 2
  BY LastIs DEF Types
<1>2. CASE cand = 0
  BY <1>1, <1>2 DEF Todo
<1>3. CASE cand # 0 /\ tried_as_is
  <2>1. Todo = Last - cand
    BY <1>3 DEF Todo
  <2>2. pc = "query" \/ Sending => cand # Last
    BY <1>3 DEF InOrder
  <2> QED
    BY <1>1, <1>3, <2>1, <2>2
<1>4. CASE cand # 0 /\ ~ tried_as_is
  <2>1. Todo = (Last - cand) + 1
    BY <1>4 DEF Todo
  <2> QED
    BY <1>1, <1>4, <2>1
<1> QED
  BY <1>2, <1>3, <1>4

\* Advancing uses a question up.
LEMMA TodoOnAdvance ==
  ASSUME Types, Advance
  PROVE  \E t \in Int : Todo' = t /\ t < Todo
<1>1. cand \in 0 .. Last /\ Last \in Nat /\ Last >= 2 /\ cand' \in cand + 1 .. Last
  BY LastIs DEF Types, Advance
<1>2. PICK L \in Nat : L = Last
  BY <1>1
<1>3. PICK c \in Int, e \in Nat : c = cand' /\ e = cand /\ c > e
  BY <1>1
<1>4. (cand = 0 => tried_as_is') /\ (cand # 0 => (tried_as_is' <=> tried_as_is))
  BY Zenon DEF Advance
<1>5. Todo' = IF tried_as_is' THEN L - c ELSE (L - c) + 1
  BY <1>2, <1>3 DEF Todo, Last
<1>6. L - c \in Int /\ L - c < L - e /\ L - e <= L /\ (L - c) + 1 < (L - e) + 1
  <2>1. c > e
    BY <1>3
  <2> QED
    BY <2>1
<1>7. CASE e = 0
  <2>1. Todo = L /\ Todo' = L - c
    BY <1>2, <1>3, <1>4, <1>5, <1>7 DEF Todo
  <2> QED
    BY <1>6, <1>7, <2>1
<1>8. CASE e # 0 /\ tried_as_is
  <2>1. Todo = L - e /\ Todo' = L - c
    BY <1>2, <1>3, <1>4, <1>5, <1>8 DEF Todo
  <2> QED
    BY <1>6, <2>1
<1>9. CASE e # 0 /\ ~ tried_as_is
  <2>1. Todo = (L - e) + 1 /\ Todo' = (L - c) + 1
    BY <1>2, <1>3, <1>4, <1>5, <1>9 DEF Todo
  <2> QED
    BY <1>6, <2>1
<1> QED
  BY <1>7, <1>8, <1>9

\* searches changes where a search starts, and nowhere else.
LEMMA SearchesIs ==
  ASSUME [Next]_vars
  PROVE  res_nsearch \/ UNCHANGED searches
BY DEF Next, resolver, res_nquery, send_dg, recvfrom, recvfails, send_vc, server, lose, vars, search_vars

NoIdTwice == MaxSearches * Last < Ids

\* A query raises id by one.
LEMMA IdIs ==
  ASSUME NoIdTwice, Types, InOrder, Budgeted, Asks
  PROVE  id' = id + 1
<1> DEFINE S == searches * Last
           M == MaxSearches * Last
<1>1. searches \in Nat /\ MaxSearches \in Nat /\ searches <= MaxSearches /\ Last \in Nat
  BY LastIs, ResolverAssumption DEF Budgeted
<1>2. S \in Nat /\ M \in Nat /\ S <= M
  BY <1>1
<1>3. id + Todo <= S /\ M < Ids /\ Ids \in Nat /\ id \in Nat
  BY ResolverAssumption DEF Budgeted, NoIdTwice, Asks, Types
<1>4. Todo \in Nat /\ Todo >= 1
  BY TodoIs DEF Asks
<1> HIDE DEF S, M
<1>5. id + 1 < Ids
  BY <1>2, <1>3, <1>4
<1> QED
  BY <1>3, <1>5 DEF Asks, NextId

LEMMA BudgetKept ==
  ASSUME NoIdTwice, Types, InOrder, Budgeted, [Next]_vars
  PROVE  Budgeted'
<1> DEFINE S == searches * Last
<1>1. /\ searches \in Nat /\ searches <= MaxSearches /\ MaxSearches \in Nat
      /\ Last \in Nat /\ Last >= 2 /\ Last' = Last
  BY LastIs, ResolverAssumption DEF Budgeted, Last
<1>2. S \in Nat
  BY <1>1
<1>3. Todo \in Nat /\ Todo <= Last /\ (pc = "query" \/ Sending => Todo >= 1) /\ id \in Nat
  BY TodoIs DEF Types
<1>4. CASE res_nsearch
  <2>1. searches' = searches + 1 /\ searches < MaxSearches /\ id' = id /\ pc' = "query"
    BY <1>4 DEF res_nsearch
  <2>2. S' = S + Last
    <3>1. (searches + 1) * Last = searches * Last + Last
      BY <1>1
    <3> QED
      BY <1>1, <2>1, <3>1
  <2>3. Todo' = Last
    <3>1. cand' \in {0, 1} /\ tried_as_is' = FALSE
      BY <1>4 DEF res_nsearch
    <3>2. cand' = 0 => Todo' = Last'
      BY DEF Todo
    <3>3. cand' = 1 => Todo' = (Last' - 1) + 1
      BY <3>1 DEF Todo
    <3> QED
      BY <1>1, <3>1, <3>2, <3>3
  <2>4. id <= S
    BY DEF Budgeted
  <2>5. id' <= S' /\ id' + Todo' <= S'
    <3> HIDE DEF S
    <3> QED
      BY <1>1, <1>2, <1>3, <2>1, <2>2, <2>3, <2>4
  <2> QED
    BY <1>1, <2>1, <2>5 DEF Budgeted, Sending
<1>5. CASE UNCHANGED searches
  <2>0. S' = S
    BY <1>1, <1>5
  <2>1. id <= S /\ (pc = "query" => id + Todo <= S) /\ (Sending => id + Todo <= S + 1)
    BY DEF Budgeted
  <2>2. SUFFICES id' <= S /\ (pc' = "query" => id' + Todo' <= S) /\ (Sending' => id' + Todo' <= S + 1)
    BY <1>1, <1>5, <2>0 DEF Budgeted
  <2> HIDE DEF S
  <2>3. CASE Asks
    <3>1. id' = id + 1 /\ pc = "query"
      BY <2>3, IdIs DEF Asks
    <3>2. CASE pc' = "send" /\ UNCHANGED <<cand, tried_as_is>>
      <4>1. Todo' = Todo
        BY <1>1, <3>2 DEF Todo
      <4> QED
        BY <1>2, <1>3, <2>1, <3>1, <3>2, <4>1
    <3>3. CASE Over(-1)
      BY <1>2, <1>3, <2>1, <3>1, <3>3 DEF Over, Sending
    <3>4. CASE Advance
      <4>1. PICK t \in Int : Todo' = t /\ t < Todo
        BY <3>4, TodoOnAdvance
      <4>2. pc' = "query"
        BY <3>4 DEF Advance
      <4> QED
        BY <1>2, <1>3, <2>1, <3>1, <4>1, <4>2 DEF Sending
    <3> QED
      BY <2>3, <3>2, <3>3, <3>4 DEF Asks
  <2>4. CASE Ends
    <3>1. id' = id /\ Sending
      BY <2>4 DEF Ends
    <3>2. CASE pc' = "done"
      BY <2>1, <3>1, <3>2 DEF Sending
    <3>3. CASE Advance
      <4>1. PICK t \in Int : Todo' = t /\ t < Todo
        BY <3>3, TodoOnAdvance
      <4>2. pc' = "query"
        BY <3>3 DEF Advance
      <4> QED
        BY <1>2, <1>3, <2>1, <3>1, <4>1, <4>2 DEF Sending
    <3> QED
      BY <2>4, <3>2, <3>3 DEF Ends, Over
  <2>5. CASE Sends \/ Retries \/ GoesToStream \/ Keeps \/ Serves
    <3>1. Stays /\ (pc' = pc \/ (Sending /\ Sending' /\ pc' # "query"))
      BY <2>5 DEF Sends, Retries, GoesToStream, Keeps, Serves, Sending
    <3>2. id' = id /\ Todo' = Todo
      BY <1>1, <3>1 DEF Stays, Todo
    <3> QED
      BY <2>1, <3>1, <3>2 DEF Sending
  <2>6. ~ res_nsearch
    BY <1>1, <1>5 DEF res_nsearch
  <2> QED
    BY <2>3, <2>4, <2>5, <2>6, StepIs
<1> QED
  BY <1>4, <1>5, SearchesIs

LEMMA OwnIdsKept ==
  ASSUME NoIdTwice, Types, InOrder, Budgeted, OwnIds, [Next]_vars
  PROVE  OwnIds'
<1>1. id \in Nat /\ \A m \in net : m.id \in Nat
  BY DEF Types, Datagrams
<1>2. CASE res_nsearch
  BY <1>2 DEF res_nsearch, net_vars, OwnIds, Sending
<1>3. CASE Asks
  <2>1. id' = id + 1 /\ net' = net
    BY <1>3, IdIs DEF Asks
  <2> QED
    BY <1>1, <2>1 DEF OwnIds
<1>4. CASE Ends
  BY <1>4 DEF Ends, Over, Advance, OwnIds, Sending
<1>5. ASSUME Stays
      PROVE  Question' = Question /\ id' = id
  BY <1>5 DEF Stays, Question
<1>6. CASE Sends
  <2> DEFINE n == Message("server", Question, "query")
  <2>1. n.id = id /\ n.question = Question
    BY DEF Message
  <2>2. net' = net \cup {n} /\ Sending
    BY <1>6 DEF Sends, Sending
  <2> HIDE DEF n
  <2> QED
    BY <1>1, <1>5, <1>6, <2>1, <2>2 DEF Sends, OwnIds
<1>7. CASE Retries \/ GoesToStream \/ Keeps
  <2>1. Stays /\ net' \subseteq net /\ (Sending' => Sending)
    BY <1>7 DEF Retries, GoesToStream, Keeps, Sending
  <2> QED
    BY <1>5, <2>1 DEF OwnIds
<1>8. CASE Serves
  <2>1. Stays /\ (Sending' => Sending)
    BY <1>8 DEF Serves, Sending
  <2>2. PICK m \in net, kind \in Kinds :
          net' = (net \ {m}) \cup {[m EXCEPT !.to = "client", !.kind = kind]}
    BY <1>8 DEF Serves
  <2> DEFINE r == [m EXCEPT !.to = "client", !.kind = kind]
  <2>3. r.id = m.id /\ r.question = m.question
    BY DEF Types, Datagrams
  <2> HIDE DEF r
  <2> QED
    BY <1>5, <2>1, <2>2, <2>3 DEF OwnIds, r
<1> QED
  BY <1>2, <1>3, <1>4, <1>6, <1>7, <1>8, StepIs

\* The answer that a search returns is the answer to its last question, as long as the
\* program makes fewer queries than there are ids.
THEOREM AnswerBelongsHolds ==
  ASSUME NoDomainTwice, NoIdTwice
  PROVE  Spec => []AnswerBelongs
<1>1. Init => Asking /\ Budgeted /\ OwnIds /\ AnswerBelongs
  <2> SUFFICES ASSUME Init PROVE Asking /\ Budgeted /\ OwnIds /\ AnswerBelongs
    OBVIOUS
  <2>1. /\ pc = "idle" /\ DOMAIN asked = {} /\ net = {} /\ id = 0 /\ searches = 0
        /\ MaxSearches \in Nat /\ Last \in Nat
    BY ResolverAssumption, LastIs DEF Init
  <2>2. searches * Last = 0
    BY <2>1
  <2> QED
    BY <2>1, <2>2 DEF Asking, InOrder, AskedBefore, AskedOnce, Budgeted, OwnIds, AnswerBelongs, Sending
<1>2. Types /\ Asking /\ Budgeted /\ OwnIds /\ AnswerBelongs /\ [Next]_vars
      => (Asking /\ Budgeted /\ OwnIds /\ AnswerBelongs)'
  <2> SUFFICES ASSUME Types, Asking, Budgeted, OwnIds, AnswerBelongs, [Next]_vars
               PROVE  (Asking /\ Budgeted /\ OwnIds /\ AnswerBelongs)'
    OBVIOUS
  <2>1. Asking'
    BY AskingKept
  <2>2. Budgeted' /\ OwnIds'
    BY BudgetKept, OwnIdsKept DEF Asking
  <2>3. AnswerBelongs'
    <3>1. CASE Ends
      <4>1. CASE Over(1) /\ Belonging
        <5>1. Question' = Question
          BY <1>1, <3>1, <4>1 DEF Ends, Over, Question
        <5>2. answer'.question = Question
          BY <3>1, <4>1 DEF Ends, Belonging, OwnIds
        <5>3. answer'.kind # "negative"
          BY <4>1 DEF Belonging
        <5> QED
          BY <5>1, <5>2, <5>3 DEF AnswerBelongs
      <4>2. CASE Over(-1)
        BY <4>2 DEF Over, AnswerBelongs
      <4>3. CASE Advance
        BY <4>3 DEF Advance, AnswerBelongs
      <4> QED
        BY <3>1, <4>1, <4>2, <4>3 DEF Ends
    <3>2. CASE Asks
      BY <3>2 DEF Asks, Over, Advance, AnswerBelongs
    <3>3. CASE res_nsearch \/ Sends \/ Retries \/ GoesToStream
      BY <3>3 DEF res_nsearch, Sends, Retries, GoesToStream, AnswerBelongs
    <3>4. CASE Keeps \/ Serves
      <4>1. /\ Question' = Question /\ UNCHANGED <<pc, rc>>
            /\ pc # "recvfrom" => UNCHANGED answer
        BY <3>4 DEF Keeps, Serves, Stays, Question
      <4> QED
        BY <4>1 DEF AnswerBelongs
    <3> QED
      BY <3>1, <3>2, <3>3, <3>4, StepIs
  <2> QED
    BY <2>1, <2>2, <2>3
<1> QED
  BY <1>1, <1>2, TypesHold, PTL DEF Spec

=============================================================================
