SPECIFICATION AllSpec
CONSTANTS
  Units = {"sandbox", "mcp", "slack", "workspace", "github", "pull", "admin", "snapshot", "credentials", "save"}
  SandboxWorkers <- MCSandboxWorkers
  SandboxAttempts = 2
  SandboxExpired = 1
  SandboxPolicies <- MCSandboxPolicies
  SandboxTargets <- MCSandboxTargets
  SandboxPaths <- MCSandboxPaths
  ApiRequests <- MCApiRequests
  ApiConfigs <- MCApiConfigs
  ApiPrincipals = {"admin", "o"}
  ApiWeakTokens = {"change-me"}
  ApiMaxBody = 1
  ApiRateLimit = 1
  ApiWindow = 2
  ApiMaxBuckets = 0
  ApiSessionTtl = 2
  ApiMaxNow = 2
  ApiMaxRequests = 4
  CredentialTeams = {"t1", "t2"}
  CredentialVaults <- MCCredentialVaults
  CredentialRecords <- MCCredentialRecords
  CredentialScopes = {"read"}
  CredentialTtls <- MCCredentialTtls
  CredentialDefaultTtl = 1
  CredentialMaxTtl = 2
  CredentialMaxAttempts = 3
  CredentialMaxNow = 3
  CredentialMaxOps = 4
  PullWorkers <- MCPullWorkers
  PullProposals <- MCPullProposals
  PullTokenAnswers <- MCPullTokenAnswers
  PullRedacted <- MCPullRedacted
  PullMaxAttempts = 3
  PullMaxFaults = 2
  PullMaxOutside = 2
  SlackOps <- MCSlackOps
  SlackMapped = {"u"}
  SlackDisabled = {}
  SlackMaxOps = 2
  SlackMaxTries = 2
  SlackMaxFaults = 2
  WorkHome = 101
  WorkExternals = {101, 102, 103}
  WorkLowerCase <- MCWorkLowerCase
  WorkResources <- MCWorkResources
  WorkServers = {"s"}
  WorkBudgets <- MCWorkLists
  WorkPolicies <- MCWorkLists
  WorkBodies <- MCWorkBodies
  WorkKeys = {"k"}
  WorkMaxOps = 3
  SaveFlushers = {"f1", "f2", "f3"}
  SaveMaxChanges = 4
INVARIANTS
  RunsInOwnContainer
  LeftBehindOnlyByFaults
  EgressNeverWider
  SourceNeverWritten
  ReviewedSchemasOnly
  CompatibleKeepsInputs
  OneRunPerCallback
  StateExchangedOnce
  ReferencesResolve
  MemoryConfined
  BoundIsHeld
  CommitsAsApproved
  OneCommitOnePullRequest
  RateKept
  ActsWithinRole
  SavedReadsBack
  LedgerKept
  SavableSaves
  PostsCurrentToken
  LeasesEnd
  HealthMatchesBroker
  ReturnedIsSavedOrTold
CHECK_DEADLOCK FALSE
