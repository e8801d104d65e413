\* A logout in one tab and a login in another, no fault.
SPECIFICATION Spec
CONSTANTS
    MaxPairs = 3
    Slots = {1, 2}
    MaxFaults = 0
    Tabs = {1, 2}
    NoAsk = NoAsk
    MaxGestures = 2
INVARIANTS NotStranded
CHECK_DEADLOCK FALSE
