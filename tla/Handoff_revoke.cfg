SPECIFICATION Spec
CONSTANTS
  Requests = {r1}
  Users = {u1}
  NoUser = NoUser
  MaxSessions = 2
  EndWaits = FALSE
PROPERTIES RevokedKeepsFence
CHECK_DEADLOCK FALSE
