\* One guarded event with a prompt handler, one whose handler may outlive its
\* lock, one without a guard, one no rule matches, one malformed; two members.
SPECIFICATION FairSpec
CONSTANTS
    Events = {e1, slow, bare, other, bad}
    Malformed = {bad}
    Unmatched = {other}
    Unguarded = {bare}
    Slow = {slow}
    Members = {m1, m2}
    MaxAttempts = 2
    MaxLog = 2
    MaxFaults = 1
INVARIANTS TypeOK LossOnlyByLock RepeatsExplained GuardExcludes
PROPERTIES EveryMessageDisposed
CHECK_DEADLOCK FALSE
