\* Relays may outlive ClaimTimeout; one event cannot be deserialised.  Safety
\* and liveness, so no symmetry.
SPECIFICATION FairSpec
CONSTANTS
    Events = {e1, e2}
    Relays = {r1, r2}
    Poison = {e2}
    BatchSize = 2
    MaxAttempts = 2
    MaxFaults = 3
INVARIANTS TypeOK NoEventLost ParkedOnlyWhenExhausted DuplicatesExplained SingleHolder
PROPERTIES EverySettles OutcomeIsFinal KeepsPromise
CHECK_DEADLOCK FALSE
