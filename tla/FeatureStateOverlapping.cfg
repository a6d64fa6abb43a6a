\* The user changes the account while a token is being checked.
CONSTANTS
  Urls = {"new", "old"}
  DefaultUrl = "new"
  Tokens = {"t1", "t2"}
  NoToken = "none"
  ValidTokens <- MCValidTokens
  OldInstances = {"old"}
  Switches = {"CHAT_DISABLED_BY_USER"}
  Licensed <- MCLicensed
  MaxCrossings = 1
  MaxInFlight = 3
SPECIFICATION MCSpec
INVARIANTS AuthenticationIsAlwaysReported
