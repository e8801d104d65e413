\* Two workers, two automations, an attempt and its retry, two faults, one switch.
SPECIFICATION FairSpec
CONSTANTS
  twin = twin
  single = single
  Events = {twin, single}
  NoEvent = None
  Automations = {1, 2}
  Matches <- MCMatches
  Selects <- MCSelects
  Workers = {w1, w2}
  MaxAttempts = 2
  MaxToggles = 1
  MaxFaults = 2
INVARIANTS
  TypeOK
  FiredOrExplained
PROPERTIES
  EventsSettle
CHECK_DEADLOCK FALSE
