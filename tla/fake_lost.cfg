CONSTANTS
  LoginFragments = 2
  MAX_TRACKED_LOGIN_FRAGMENTS = 3
  FAKE_SESSION_IDLE_TIMEOUT = 2
  Delayed = {}
  Malformed = {}
  Hitches = {"loss"}
SPECIFICATION FairSpec
PROPERTIES
  RetriesAreAnswered
CHECK_DEADLOCK FALSE
