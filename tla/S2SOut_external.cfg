CONSTANTS
    s1 = s1
    s2 = s2
    m1 = m1
    m2 = m2
    None = None
    Sessions = {s1, s2}
    Stanzas = {m1, m2}
    Families = {"A", "AAAA"}
    RequireEncryption = FALSE
    MaxSRV = 2
    MaxIPs = 2
SPECIFICATION Spec
CHECK_DEADLOCK FALSE
INVARIANT ReadyForStanzas
