SPECIFICATION Spec
CONSTANTS
  Requests = {r1, r2}
  Users = {u1, u2}
  Tokens = {t1, t2}
  NoUser = NoUser
  NoCookie = NoCookie
  UnknownToken = UnknownToken
  ReuseRowIds = TRUE
  MaxClock = 0
  ABSOLUTE_LIFETIME = 2
  IDLE_TIMEOUT = 1
SYMMETRY Symmetry
INVARIANTS
  GrantedToOwner
