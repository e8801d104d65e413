\* A full window and one more notification, one action of the user, one fault.
SPECIFICATION Spec
CONSTANTS
  Sockets = {s1, s2}
  NoSocket = None
  MaxAttempts = 1
  MaxMounts = 2
  MaxNotes = 2
  OldNotes = 1
  Window = 1
  Fetches = {f1, f2}
  MaxActs = 1
  MaxFaults = 1
SYMMETRY Interchangeable
INVARIANTS
  TypeOK
  FeedAgrees
CHECK_DEADLOCK FALSE
