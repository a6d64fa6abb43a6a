CONSTANTS
  Folder = "w"
  Files <- MCFiles
  Dirs <- MCDirs
  Below <- MCBelow
  SamePrefix <- MCSamePrefix
  ConfigOf <- MCConfigOf
  IndexOf <- MCIndexOf
  IgnoreFiles = {"w/.gitignore"}
  Hides <- MCHides
  Shows <- MCShows
  InitialDisks <- MCInitialDisks
  MaxInputs = 3
  MaxChanges = 2
  MaxTabEdits = 3
  MaxCalls = 4
  MaxAccounts = 2
  Hosts = {"a", "b"}
  WorkspaceFolders = {"w", "v"}
  NameOf <- MCNameOf
  GitConfigs <- MCGitConfigs
  Under <- MCUnder
  DuoEnabled <- MCDuoEnabled
  Documents <- MCDocuments
  FolderBelow <- MCFolderBelow
  LanguageOf <- MCLanguageOf
  SupportedLanguages = {"ts"}
  AdditionalLanguages = {"elm"}
  Sizes = {0, 4, 7}
  LruLimit = 6
  RequestLimit = 5
  Providers = {"open_tab", "issue"}
  ItemsOf <- MCItemsOf
  Debounced = {"issue"}
  ByProjectId = {"issue"}
  ReadsFiles = {"open_tab"}
  Blocked = {"tab"}
  ProjectOf <- MCProjectOf
  Accounts = {"a", "b"}
  FeaturesOf <- MCFeaturesOf
  EnabledProjects <- MCEnabledProjects
  Size <- MCSize
  ContentLimit = 4
SPECIFICATION Spec
INVARIANTS
  SingleSourceOfTruth
  AccessIsCurrent
  ContextFits
  SearchesAnswerTheQuery
PROPERTIES
  SearchesAreAnswered
CHECK_DEADLOCK FALSE
