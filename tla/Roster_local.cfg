CONSTANTS
    Alice = Alice
    Bob = Bob
    Users = {Alice, Bob}
    Link = "local"
    Operations = {"subscribe", "subscribed", "unsubscribe", "unsubscribed", "get", "set", "delete"}
    SaveOutcomes = {TRUE}
    MaxNet = 2
SPECIFICATION Spec
SYMMETRY Symmetry
CHECK_DEADLOCK FALSE
INVARIANT ItemsSound
INVARIANT CopiesCurrent
INVARIANT ConsentGiven
INVARIANT Settled
