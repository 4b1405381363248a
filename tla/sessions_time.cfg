SPECIFICATION Spec
CONSTANTS
  Requests = {r1, r2}
  Users = {u1}
  Tokens = {t1}
  NoUser = NoUser
  NoCookie = NoCookie
  UnknownToken = UnknownToken
  ReuseRowIds = FALSE
  MaxClock = 4
  ABSOLUTE_LIFETIME = 3
  IDLE_TIMEOUT = 2
INVARIANTS
  AbsoluteCap
  NoIdleGap
  RowTimesOrdered
PROPERTIES
  EveryRequestAnswered
