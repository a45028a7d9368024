SPECIFICATION Spec
CONSTANTS
  Tabs = {t1, t2}
  MaxAttempts = 4
  MaxFaults = 1
INVARIANTS OwnUser OneSessionPerCode SomeoneSignsIn
CHECK_DEADLOCK FALSE
