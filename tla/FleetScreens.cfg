SPECIFICATION Spec
CONSTANTS
  Urls = {"fleet", "vehicle", "tire"}
  Askers = {1, 2, 3}
  Forms = {1}
  MaxReqs = 4
  MaxSessions = 8
  MaxScreens = 3
  MaxActs = 4
INVARIANTS
  TypeOK
  PhoneTokenIsLive
  LogoutMissesItsSession
  EmptyListIsAccountedFor
  FleetListedOncePerQuery
PROPERTY
  ClientSettles
CHECK_DEADLOCK FALSE
