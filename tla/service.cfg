SPECIFICATION Spec
CONSTANTS
  Requests = {r1, r2}
  Tokens = {t1, t2}
  NoUser = NoUser
  NoCookie = NoCookie
  UnknownToken = UnknownToken
  ReuseRowIds = FALSE
  MaxClock = 1
  ABSOLUTE_LIFETIME = 2
  IDLE_TIMEOUT = 1
  Lengths <- MCLengths
  MIN_LENGTH = 8
  MAX_LENGTH = 9
  PBKDF2_ITERATIONS = 1
  PBKDF2_MAX_ITERATIONS = 2
  NotANumber = NotANumber
  SeedTables <- MCSeedTables
  NoHash = NoHash
  MaxAccounts = 2
  MaxSessions = 2
  p1 = p1
  p2 = p2
  a1 = a1
  a2 = a2
  Addresses = {a1, a2}
  Common = {}
  Passwords = {p1, p2}
  Spellings = {"canonical"}
SYMMETRY Symmetry
INVARIANTS
  GrantedToCredential
  SessionsUnderCurrentHash
  OneTokenPerLogin
