CONSTANTS
  Numbers = {1, 2}
  MaxVersions = 4
  Names = {"bucket"}
  Classes = {"plain", "model"}
  Widths <- MCWidths
  Refs <- MCRefs
  MaxConditions = 2
  MaxCalls = 2
  Entries <- MCEntries
  Streams = {"stdout", "stderr"}
  MaxOutput = 5
  MaxWrite = 3
  MaxFlushes = 2
  Codes = {"ERR_TIMEOUT", "ERR_INTERNAL"}
  Resources = {"xr"}
  Fields = {"field"}
  Values = {"a", "b"}
  MaxErrors = 4
  Packages = {"@crossplane-js/sdk", "@crossplane-js/gone", "server", "lodash"}
  Own = {"@crossplane-js/sdk", "@crossplane-js/gone"}
  Workspace = {"@crossplane-js/sdk", "server"}
  MaxCreations = 2
  Functions = {"xapp", "xdb"}
  Directories <- MCDirectories
  Server = "server"
  Missing = Missing
  Broken = Broken
  Unusable = Unusable
  Placeholder = Placeholder
  Nothing = Nothing
  MaxRuns = 2
SPECIFICATION MCSpec
CHECK_DEADLOCK FALSE
INVARIANTS
  PausedForFallback ModelsAreResolved ReportIsWhole RedactedByKey ComparisonIsOrder
  LoggedIsReceived ContextIsItsOwn SameDependencies ChildHasTheSources
PROPERTY LatestIsRunningMaximum
