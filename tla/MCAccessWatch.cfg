SPECIFICATION Spec
CONSTANTS
  Streams = {s1, s2}
  AllowedTtl = 2
  DeniedTtl = 1
  MaxDelay = 1
  MaxChanges = 1
  MaxGen = 1
  MaxFaults = 1
  MaxAge = 8
INVARIANTS AllowedIsFresh RevokedStreamEnds SignedOutStreamEnds EvictAllIsFinal
SYMMETRY StreamSymmetry
CHECK_DEADLOCK FALSE
