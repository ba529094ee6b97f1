CONSTANTS
  LoginFragments = 2
  MAX_TRACKED_LOGIN_FRAGMENTS = 3
  FAKE_SESSION_IDLE_TIMEOUT = 2
  Delayed <- MCDelayed
  Malformed <- MCMalformed
  Hitches = {"loss", "expiry", "restart", "nonsense"}
SPECIFICATION FairSpec
PROPERTIES
  KickNeedsAll GarbageHoldsNothing TellsClient
CHECK_DEADLOCK FALSE
