\* No gestures: renewal, hydration and probes left to themselves, with one fault or
\* one operation on the account.
SPECIFICATION LiveSpec
CONSTANTS
    MaxPairs = 2
    Slots = {1, 2}
    MaxFaults = 1
    Tabs = {1, 2}
    NoAsk = NoAsk
    MaxGestures = 0
INVARIANT TypeOK
PROPERTY RenewalSettlesOrProbeHangs
CHECK_DEADLOCK FALSE
