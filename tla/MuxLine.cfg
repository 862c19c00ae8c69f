SPECIFICATION Spec
CONSTANTS
    L = L
    R = R
    Window = 2
    SendBuf = 1
    OneWay = 3
    BothWays = 1
    Inputs <- MCInputs
    MayBreak = TRUE
CHECK_DEADLOCK FALSE
INVARIANTS
  Safe
  InOrder
PROPERTIES
  CloseWaitEnds
