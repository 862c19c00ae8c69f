CONSTANTS
    Base = 4
    BlockBytes = 4
    Script <- MCScript
    Cases <- MCCases
    Capacity = 2
    BlockSize = 2
    MaxBreaks = 1
    shutdownRemotePeerOnFinish = TRUE
    closeRemotePeerOnFinish = TRUE
SPECIFICATION Spec
CHECK_DEADLOCK FALSE
INVARIANTS
  Safe
  UnbrokenArrives
PROPERTIES
  OwnerReturns
