\* Three replicas; safety and liveness, so no symmetry.
SPECIFICATION FairSpec
CONSTANTS
    Instances = {i1, i2, i3}
    MaxFaults = 3
INVARIANTS TypeOK LeaseRespected OneActive WorkersLead
PROPERTIES LedAgain
CHECK_DEADLOCK FALSE
