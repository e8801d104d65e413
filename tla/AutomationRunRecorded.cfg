\* One approver against the timeout sweeper.
SPECIFICATION Spec
CONSTANTS
    Drivers = {d1}
    Users = {u1}
    Runbook <- MCRunbook
    Quorums = {1}
    MaxAttempts = 1
    Batch = 1
    MaxFaults = 0
INVARIANT ReportedIsRecorded
CHECK_DEADLOCK FALSE
