CONSTANTS
    r1 = r1
    r2 = r2
    r3 = r3
    Runners = {r1, r2}
    Features = {"error", "wait", "guard", "enqueue"}
    MaxItems = 3
    MaxDone = 2
SPECIFICATION FairSpec
CHECK_DEADLOCK FALSE
INVARIANT RunnersSound
INVARIANT OneInside
INVARIANT InOrderOnce
PROPERTY EverythingStarts
