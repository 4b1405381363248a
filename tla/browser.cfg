SPECIFICATION BrowserSpec
CONSTANTS
  Requests = {r1, r2}
  Users = {u1}
  Tokens = {t1, t2}
  NoUser = NoUser
  NoCookie = NoCookie
  UnknownToken = UnknownToken
  ReuseRowIds = TRUE
  MaxClock = 3
  ABSOLUTE_LIFETIME = 3
  IDLE_TIMEOUT = 2
SYMMETRY Symmetry
INVARIANTS
  JarIsIssued
  CookieOutlivesSession
PROPERTIES
  ClearedMeansEnded
