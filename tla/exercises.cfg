SPECIFICATION Spec
CONSTANTS
  Passwords = {p1, p2, short, common}
  p1 = p1
  p2 = p2
  short = short
  common = common
  Lengths <- MCLengths
  Common = {common}
  MIN_LENGTH = 8
  MAX_LENGTH = 9
  PBKDF2_ITERATIONS = 1
  PBKDF2_MAX_ITERATIONS = 2
  NotANumber = NotANumber
  NoHash = NoHash
  NoSession = NoSession
  StoredHashes <- MCStoredHashes
  Words <- MCWords
  JunkCookies <- MCJunkCookies
  MaxClock = 6
  ABSOLUTE_LIFETIME = 5
  IDLE_TIMEOUT = 2
  ROTATE_EVERY = 2
INVARIANTS
  AsSolved
  RemainingIsExact
  TokenAgeBounded
PROPERTIES
  LoginKeepsPassword
