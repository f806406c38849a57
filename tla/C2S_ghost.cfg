SPECIFICATION Spec
CONSTANTS
    Conns = {c1, c2}
    Users = {alice}
    Msgs = {m1}
    Requested = {"home", "work"}
    Generated = {"g1"}
    Priorities <- SignedPriorities
    Policy = "kick_old"
    Environment = {"selfclose"}
    None = None
SYMMETRY Symmetry
INVARIANT NoGhost
CHECK_DEADLOCK FALSE
