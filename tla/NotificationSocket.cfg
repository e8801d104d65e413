\* Three mounts, three attempts, and names enough for a dial beside two that end.
SPECIFICATION SocketFairSpec
CONSTANTS
  Sockets = {s1, s2, s3}
  NoSocket = None
  MaxAttempts = 3
  MaxMounts = 3
INVARIANTS
  SocketTypeOK
  OneSocketUnlessReplaced
  NeverStranded
PROPERTIES
  ConnectionSettles
CHECK_DEADLOCK FALSE
