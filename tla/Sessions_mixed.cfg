SPECIFICATION Spec
CONSTANTS
  u1 = u1
  u2 = u2
  e1 = e1
  e2 = e2
  e3 = e3
  Null = Null
  Users = {u1, u2}
  Emails = {e1, e2, e3}
  Requests = {1, 2, 3, 4}
  Menus <- AllMenus
  MaxFails = 2
  LockTime = 1
  TokenTime = 1
  StaleTime = 1
  GraceTime = 1
  IdleTime = 1
  MaxSessions = 1
  AccessTime = 3
  RefreshTime = 2
  CacheTime = 1
SYMMETRY Names
CHECK_DEADLOCK FALSE
INVARIANTS
  LockoutHolds
  SessionsBounded
  RevocationReaches
PROPERTIES
  LoggedOutStaysOut
  OldSaltBounded
  AnonymizedIdle
