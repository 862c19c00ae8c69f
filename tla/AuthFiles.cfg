SPECIFICATION Spec
CONSTANTS
  Domains <- MCDomains
  AccountNames <- MCAccountNames
  GroupNames <- MCGroupNames
  AttribNames <- MCAttribNames
  Given <- MCGiven
  Passwords = {"p", "q"}
  PassIndexes = {0}
  AskedIndexes = {0, 1}
  Expirations = {1, 4}
  UintLimit = 4
  SuperuserChoices = {FALSE}
  now = 2
  MaxCrashes = 1
CHECK_DEADLOCK FALSE
INVARIANTS
  Safe
  LoginsDecideRight
  NoHalfLogin
