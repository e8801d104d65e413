\* Two tabs, two exchanges at once, one gesture of the user, and one fault or one
\* operation on the account.
SPECIFICATION Spec
CONSTANTS
    MaxPairs = 4
    Slots = {s1, s2}
    MaxFaults = 1
    Tabs = {t1, t2}
    NoAsk = NoAsk
    MaxGestures = 1
SYMMETRY Symmetry
CONSTRAINT BeforeMishap
INVARIANTS ReuseExplained NoLogoutForNothing ForksExplained CookieUsable
CHECK_DEADLOCK FALSE
