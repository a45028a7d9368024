SPECIFICATION Spec
CONSTANTS
  Calls = {c1, c2, c3}
  MaxTokens = 3
  MaxFaults = 1
SYMMETRY CallSymmetry
INVARIANTS SingleSuccessor GrantedIsStored RefusedIsNotGranted
PROPERTIES ReplayEndsSession ImplementsSession
CHECK_DEADLOCK FALSE
