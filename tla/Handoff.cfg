SPECIFICATION FairSpec
CONSTANTS
  Requests = {r1}
  Users = {u1}
  NoUser = NoUser
  MaxSessions = 2
  EndWaits = TRUE
INVARIANTS TypeOK HumanAlone OneOwner
PROPERTIES KeepsFence FreshRelease EndCompletes
CHECK_DEADLOCK FALSE
