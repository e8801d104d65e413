\* Gate, action, gate; one loop, two approvers, both quorums and every
\* timeout policy; one older run may get stuck and fill the batch.
SPECIFICATION FairSpec
CONSTANTS
    Drivers = {d1}
    Users = {u1, u2}
    Runbook <- MCRunbook
    Quorums = {1, 2}
    MaxAttempts = 2
    Batch = 1
    MaxFaults = 1
INVARIANTS TypeOK NoGap AttemptsRecorded GateHolds DivergeOnlyByOverwrite
PROPERTIES OkNeverRefired EveryRunSettles
CHECK_DEADLOCK FALSE
