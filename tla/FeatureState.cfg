\* The user changes the account, once while the API is at work with the last change.
\* A token is valid at both instances, at one or (t2 at the old one) at none.
CONSTANTS
  Urls = {"new", "old"}
  DefaultUrl = "new"
  Tokens = {"t1", "t2"}
  NoToken = "none"
  ValidTokens <- MCValidTokens
  OldInstances = {"old"}
  Switches = {"CHAT_DISABLED_BY_USER"}
  Licensed <- MCLicensed
  MaxCrossings = 1
  MaxInFlight = 3
SPECIFICATION MCSpec
INVARIANTS ToldIsEngaged AuthenticationIsReported KnowledgeIsCurrent LicensedIfOffered
PROPERTIES ConfigurationSettles
