SPECIFICATION Spec
CONSTANTS
    Threads = {t1, t2, t3, t4, t5}
    Keys = {k1, k2}
    Elements = {e1, e2}
    nullptr = nullptr
    NoKey = NoKey
    EmptyWaiters = {t5}
INVARIANTS
  Safe
  NoUseAfterDelete
  NoElementLost
  NoLostWakeup
PROPERTIES
  StoppedReadersOnlyLeave
  Progress
  ImplementsReclamation
