SPECIFICATION Spec
CONSTANTS
  Requests = {r1, r2}
  Users = {u1}
  Tokens = {t1}
  NoUser = NoUser
  NoCookie = NoCookie
  UnknownToken = UnknownToken
  ReuseRowIds = FALSE
  MaxClock = 0
  ABSOLUTE_LIFETIME = 4
  IDLE_TIMEOUT = 2
SYMMETRY Symmetry
INVARIANTS
  RevokedGetsTheSame401
