SPECIFICATION Spec
CHECK_DEADLOCK FALSE
CONSTANTS
    Names <- MCNames
    dnsrch <- MCdnsrch
    ndots = 1
    retry = 2
    UseVC = FALSE
    Kinds = {"ok", "tc", "negative", "short"}
    Ids = 16
    MaxSearches = 1
    MaxDups = 1
INVARIANTS AnswerBelongs AsksSparingly SocketsClosed
PROPERTIES SearchEnds
