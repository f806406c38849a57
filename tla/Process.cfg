CONSTANTS
    Units = {"loop", "table", "list", "instance", "creds", "syslog", "rlimit", "umask"}
    Sigs = {"TERM", "HUP"}
    SigNumber <- Numbered
    MAX_PENDING_SIGNALS = 2
    MaxArrivals = 3
    SigFeatures = {"nest", "clear", "error"}
    c1 = c1
    c2 = c2
    Server = Server
    None = None
    Conns = {c1, c2}
    Fds = {1, 2}
    FD_SETSIZE = 4
    MAX_EVENTS = 2
    LoopFeatures = {}
    LoopBackends = {"epoll", "select"}
    Procs = {"prosody", "prosodyctl"}
    Main = "prosody"
    Tables = {"t1", "t2", "empty"}
    Empty = "empty"
    MaxItems = 3
    StoreFeatures = {"crash", "denied", "close"}
    Starts = {"s1", "s2"}
    Ctl = "ctl"
    Nobody = "nobody"
    InstFeatures = {"kill", "fail"}
    Passwd <- Accounts
    GroupFile <- GroupIds
    IdArgs <- IdOptions
    NoId <- NoOption
    LimitArgs <- Numbers
    RlimWord = 16
    UmaskTexts <- Masks
    MaxKept = 3
SPECIFICATION ProcessSpec
CHECK_DEADLOCK FALSE
SYMMETRY ConnSymmetry
INVARIANT LoopSound
INVARIANT TableWhole
INVARIANT ListKept
INVARIANT OneServer
INVARIANT ServerFound
INVARIANT RootDropped
INVARIANT AsAsked
