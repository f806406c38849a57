CONSTANTS
    Alice = Alice
    Bob = Bob
    Users = {Alice, Bob}
    Link = "patient"
    Operations = {"subscribe", "subscribed", "unsubscribe", "unsubscribed", "remove"}
    SaveOutcomes = {TRUE}
    MaxNet = 3
SPECIFICATION Spec
SYMMETRY Symmetry
CHECK_DEADLOCK FALSE
INVARIANT RequestShown
INVARIANT Served
INVARIANT PresenceAccurate
