SPECIFICATION Spec
CONSTANTS
    SyncCallers = {s1}
    AsyncCallers = {a1}
    LoginCallers = {l1, l2}
    Together <- MCTogether
    s1 = s1
    a1 = a1
    l1 = l1
    l2 = l2
    parser = parser
    gc = gc
    owner = owner
    nullptr = nullptr
    NoKey = NoKey
    None = None
CHECK_DEADLOCK FALSE
INVARIANTS
  Safe
  DestructorWaitsForCallbacks
PROPERTIES
  MapObeyed
  Progress
