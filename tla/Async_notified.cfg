CONSTANTS
    r1 = r1
    r2 = r2
    r3 = r3
    Runners = {r1, r2}
    Features = {"error", "wait"}
    MaxItems = 2
    MaxDone = 1
SPECIFICATION Spec
CHECK_DEADLOCK FALSE
SYMMETRY Symmetry
INVARIANT ReadyIsNotified
