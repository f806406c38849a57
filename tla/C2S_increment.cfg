SPECIFICATION FairSpec
CONSTANTS
    Conns = {c1, c2}
    Users = {alice}
    Msgs = {}
    Requested = {"home"}
    Generated = {"home", "g1"}
    Priorities = {0}
    Policy = "increment"
    Environment = {"selfclose", "linger"}
    None = None
CHECK_DEADLOCK FALSE
INVARIANT SessionsConsistent
PROPERTY DeletedIsGone
PROPERTY TimersEnd
