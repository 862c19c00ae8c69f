SPECIFICATION Spec
CONSTANTS
  Conns = {c1}
  Workers = {w1, w2}
  None = None
  Users <- MCUsers
  Attribs <- MCAttribs
  Messages <- MCMessages
  Application <- MCApplication
  methodAttribs <- MCMethodAttribs
  attribPassIndexes <- MCAttribPassIndexes
  authPolicies <- MCPolicies
  InitialRights <- MCRights
  MaxMessages = 3
  MaxUnread = 0
  QueueLimit = 0
  MaxNow = 2
CHECK_DEADLOCK FALSE
INVARIANTS
  Safe
  PermissionsKept
  NoneIsForgotten
