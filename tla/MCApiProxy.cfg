SPECIFICATION FairSpec
CONSTANTS
  Deployments <- MCDeployments
  MaxFrames = 2
INVARIANTS DisabledStaysOut FramesInOrder
PROPERTIES EndsTogether
CHECK_DEADLOCK FALSE
