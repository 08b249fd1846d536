----------------------------- MODULE MCResolver -----------------------------
(* A plain name, one with a dot, an absolute one and one that cannot be      *)
(* encoded; two domains on the search list, so that a search asks up to      *)
(* three questions and answers to one are under way during the next.         *)
EXTENDS Resolver

MCNames ==
    {[text |-> "host", dots |-> 0, trailing_dot |-> FALSE, legal |-> TRUE],
     [text |-> "host.org", dots |-> 1, trailing_dot |-> FALSE, legal |-> TRUE],
     [text |-> "host.org.", dots |-> 2, trailing_dot |-> TRUE, legal |-> TRUE],
     [text |-> "host..org", dots |-> 2, trailing_dot |-> FALSE, legal |-> FALSE]}

MCdnsrch == <<"first", "second">>
=============================================================================
