SPECIFICATION Spec
CONSTANTS
    c1 = c1
    a1 = a1
    a2 = a2
    Clients = {c1, c2, c3, c4}
    Addrs = {a1, a2}
    RemotePair <- MCRemotePair
    Keepers = {c1}
    ConcurrentLimits = {1, 2}
    PerIPLimits = {1, 2}
    NoClient = NoClient
CHECK_DEADLOCK FALSE
INVARIANTS
  Safe
  NothingSurvives
PROPERTIES
  StartedWithinLimits
  DestructorReturns
