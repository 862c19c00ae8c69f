SPECIFICATION Spec
CONSTANTS
  Domains <- MCDomains
  AccountNames <- MCAccountNames
  GroupNames <- MCGroupNames
  AttribNames <- MCAttribNames
  Given <- MCGiven
  Passwords = {"p", "q"}
  PassIndexes = {0}
  Tokens = {1}
  Threads = {t1, t2}
  Expirations = {1, 2}
  IntLimit = 2
  MaxNow = 2
  Never = 9
  t1 = t1
  t2 = t2
SYMMETRY Symmetry
CHECK_DEADLOCK FALSE
INVARIANTS
  Safe
  LoginsDecideRight
PROPERTIES
  ImplementsStore
