SPECIFICATION UiFairSpec
CONSTANTS
  Tabs = {t1, t2}
  Viewers = {t1}
  MaxLogins = 2
  MaxTokens = 2
  MaxFaults = 1
INVARIANTS UiTypeOK PresentsNewest
PROPERTIES DroppedWhenOver RetryIsAccepted RefreshEnds
CHECK_DEADLOCK FALSE
