SPECIFICATION Spec
CONSTANTS
    q1 = q1
    q2 = q2
    a = a
    b = b
    c = c
    p1 = p1
    Workers = {w1, w2}
    Pushers = {p1, p2}
    Queues = {q1, q2}
    Tasks = {a, b, c}
    TasksOf <- MCTasksOf
    Timed = {c}
    CandidateQueues <- MCCandidates
    Limits = {0, 1}
    InitialLimit = 0
    SpuriousWakeups = TRUE
    NoTask = NoTask
    NoPusher = NoPusher
CHECK_DEADLOCK FALSE
INVARIANTS
  Safe
PROPERTIES
  InsertedBeforeStopIsExecuted
  BlockedPushReturns
