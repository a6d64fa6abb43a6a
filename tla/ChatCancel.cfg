CONSTANTS
  Interfaces = {"a", "b"}
  Applications <- MCApplications
  Foci = {"chat"}
  Instances = {"i1", "i2"}
  WebviewOf <- MCWebviewOf
  TransportOf <- MCTransportOf
  Themes = {"dark", "light"}
  DefaultTheme = "dark"
  NoTheme = "none"
  MaxThemes = 2
  MaxControllers = 2
  MaxRequests = 1
  Prompts = {"p1", "p2"}
  ContextItems = {"c1"}
  NoRequestId = "none"
  MaxChunks = 1
  MaxClears = 1
  MaxCancels = 1
  MaxHydrations = 1
  AnswerChunks = 1
  MaxShows = 1
  MaxSocketChanges = 0
  MaxEvents = 1
  MaxReconfigurations = 2
  MaxItems = 2
  MaxEmitters = 3
  MaxVersions = 1
  MaxScans = 3
  Errors = {1, 2}
  Pages = {1, 2}
  None = 0
  Conversation <- MCConversation
  NoText = "none"
  MaxPageRequests = 6
  MaxInputs = 2
  Suggestions = {"s1", "s2"}
  Streamed = {"s2"}
  ClientActions = {"ACCEPTED"}
  MaxInFlight = 1
  MaxErrorsBeforeBreaking = 1
  Rows = {1, 2, 3}
  Columns = {2, 5}
  MinLines = 2
  MaxComments = 2
  LanguageIds = {"javascript", "css", "vue", "plaintext"}
  CertificateFiles = {"ca", "cert"}
  Completions = {"c1", "c2", "c3"}
  DirectAccounts = {"a", "b"}
  ScannedDocuments = {"d1", "d2"}
  MaxFetches = 1
  MaxAgents = 1
  MaxStreamed = 1
SPECIFICATION Spec
PROPERTIES
  CancelledStaysSilent
CHECK_DEADLOCK FALSE
