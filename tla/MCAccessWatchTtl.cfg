SPECIFICATION Spec
CONSTANTS
  Streams = {s1}
  AllowedTtl = 2
  DeniedTtl = 1
  MaxDelay = 1
  MaxChanges = 1
  MaxGen = 0
  MaxFaults = 0
  MaxAge = 8
INVARIANTS RevokedWithinTtl
CHECK_DEADLOCK FALSE
