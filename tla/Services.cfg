CONSTANTS
  Repositories = {"r1", "r2"}
  Branches = {"main", "topic"}
  InitialCheckouts <- MCInitialCheckouts
  MaxCheckouts = 1
  MaxEdits = 1
  MaxPolicyReads = 1
  MaxSelections = 1
  SlicedTo = 2
  MaxInbox = 2
  MaxSent = 6
  MaxAccounts = 3
  Flags <- InstanceFlags
  FlagAccounts = {"a", "b"}
  Folders = {"F", "G"}
  NoFolder = "nowhere"
  ContextFiles = {"c1", "c2", "c3"}
  FolderOf <- MCFolderOf
  PathOf <- MCPathOf
  Issuables = {"m1", "m2", "i1"}
  KindOf <- MCKindOf
  PolicyContents <- MCPolicyContents
  InitialContents <- MCInitialContents
  SourceFiles = {"f1", "f2"}
  RepositoryOf <- MCRepositoryOf
  InitialFiles <- MCInitialFiles
SPECIFICATION Spec
INVARIANTS
  EveryBranchIsOffered
  DependenciesAreThoseOfTheFiles
  ItemsAreThosePermitted
  NothingIsUnheard
  KnownIsOfTheAccount
CHECK_DEADLOCK FALSE
