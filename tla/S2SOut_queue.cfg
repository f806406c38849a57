CONSTANTS
    s1 = s1
    s2 = s2
    m1 = m1
    m2 = m2
    None = None
    Sessions = {s1, s2}
    Stanzas = {m1, m2}
    Families = {"A", "AAAA"}
    RequireEncryption = TRUE
    MaxSRV = 2
    MaxIPs = 2
SPECIFICATION FairSpec
CHECK_DEADLOCK FALSE
INVARIANT OneSession
INVARIANT StanzasAccounted
INVARIANT SentWhenReady
PROPERTY QueueEmpties
