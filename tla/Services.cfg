SPECIFICATION ServicesSpec
CONSTANTS
  Services = {"token", "malloc", "type", "env", "lazy", "debug", "enum", "file", "scope",
              "module", "tree", "spin", "python", "calls"}
  Anyone = Anyone
  Strings = {"s", "t"}
  Addresses = {"p", "q"}
  Tokens = {"a1", "a2", "b1", "shared"}
  Users = {"a", "b"}
  UserOf <- MCUserOf
  MinInserts = 1
  Tags <- MCTags
  RootTag <- MCRootTag
  Mallocers = {"t1", "t2"}
  Blocks = {1, 2}
  BlockSizes = {1, 2}
  MatchLists <- MCMatchLists
  MaxPushed = 2
  MaxAllocs = 2
  Sites = {"a", "b"}
  RootSite = "__root"
  MaxPath = 3
  MaxPaths = 5
  MaxBilled = 2
  TypeNames = {"A", "B", "C", "D"}
  AliasNames = {"x"}
  TypeUsers = {"u", "v"}
  Programs <- MCPrograms
  Queries <- MCQueries
  Aliasings <- MCAliasings
  MaxInfos = 5
  SettingUsers = {"p", "q"}
  Settings = {"size", "fast"}
  VariableOf <- MCVariableOf
  KindOf <- MCKindOf
  DefaultOf <- MCDefaultOf
  Environments <- MCEnvironments
  SettingFiles <- MCSettingFiles
  NewTexts = {"5"}
  LazyUsers = {"p", "q"}
  MaxStacked = 2
  Preloaded = 1
  Symbols = {"A", "B"}
  DebugNodes = {"n1", "n2", "n3"}
  SymbolOf <- MCSymbolOf
  Debuggers = {"d1", "d2"}
  EnvTokens <- MCEnvTokens
  SetPatterns <- MCSetPatterns
  EnumLibraries = {"L1", "L2", "L3"}
  NamesOf <- MCNamesOf
  MaxEnumLoads = 1
  Writers = {"p", "q"}
  KindsOfOutput = {"Replace", "Stream", "Update"}
  TargetExists = {TRUE, FALSE}
  Scopers = {"p", "q"}
  Watchers = {"w", "r"}
  MaxScopes = 2
  Reporters = {"r"}
  ModuleLibraries = {"a", "b", "c", "d"}
  Predecessors <- MCPredecessors
  LoadOrder <- MCLoadOrder
  PythonThreads = {"p", "q"}
  MayRaise = {"b"}
  LoadsAll = {"a", "b", "d"}
  Makers = {"p", "q"}
  Requests <- MCRequests
  Trees <- MCTrees
  Lockers = {"p", "q"}
  Mutexes = {"m", "n"}
  NoMutex = NoMutex
  ScopedOf <- MCScopedOf
  PyThreads = {"p"}
  Interpreters = {"i"}
  Unheld = Unheld
  MaxNested = 3
  OuterToo = FALSE
  Leaks = TRUE
INVARIANTS
  TokensAccount
  BooksBalance
  HierarchiesAgree
  SettingsAreSettled
  NothingIsLost
  DebugCachesAgree
  EnumTablesAgree
  ReplacedAtOnce
  TreesAgree
  CallTreesAgree
  LockedReadsAreLive
  SpinMutexesExclude
  PyLocksNest
CHECK_DEADLOCK FALSE
