SPECIFICATION Spec
CONSTANTS
    s1 = s1
    s2 = s2
    Streams = {s1}
    MaxAttempts = 1
    MaxDials = 1
    MaxCount = 2
INVARIANTS
    StopSignalHeeded
CHECK_DEADLOCK FALSE
