SPECIFICATION Spec
CONSTANTS
    Conns = {c1, c2, c3}
    Users = {alice}
    Msgs = {m1}
    Requested = {"home"}
    Generated = {"g1"}
    Priorities <- SignedPriorities
    Policy = "kick_old"
    Environment = {"linger"}
    None = None
SYMMETRY Symmetry
CHECK_DEADLOCK FALSE
INVARIANT TopFresh
INVARIANT StoredOnlyIfAway
INVARIANT NoGhost
