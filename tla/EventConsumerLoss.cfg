\* One fault: a rebalance is enough.
SPECIFICATION Spec
CONSTANTS
    Events = {e1}
    Malformed = {}
    Unmatched = {}
    Unguarded = {}
    Slow = {}
    Members = {m1}
    MaxAttempts = 2
    MaxLog = 1
    MaxFaults = 1
INVARIANTS AtLeastOnce
CHECK_DEADLOCK FALSE
