SPECIFICATION Spec
CHECK_DEADLOCK FALSE
CONSTANTS
  Components = {"api", "queries", "schedules", "definitions", "list", "objects", "routing"}
  Clients = {"c1", "c2"}
  LocalScope = "own"
  Targets = {"t1", "t2", "t3"}
  OwnerOf <- MCOwnerOf
  ApiRequests <- MCApiRequests
  ApiHosts <- MCApiHosts
  ApiPolicies <- MCApiPolicies
  Registered <- MCRegistered
  BlockingSlots = 1
  MaxApiFaults = 1
  QueryScopes = {"own", "other"}
  WorkflowNames <- MCWorkflowNames
  DefinitionKeys <- ChildKeys
  ChildrenOf <- MCChildrenOf
  Readers = {"r1"}
  PageLimit = 1
  MaxChildren = 2
  MaxPublications = 5
  Names = {"a"}
  Releases = {"r1", "r2"}
  Appliers = {"r2"}
  Operators = {"o1"}
  RunNowKeys = {"k1"}
  Ticks = {"t1"}
  DispatchAttempts = 2
  MaxSchedules = 3
  MaxActions = 2
  MaxWindow = 4
  Every = 2
  MaxScheduleFaults = 1
  ScheduleScenarios <- MCScheduleScenarios
  Workflows = {"w1", "w2"}
  Digests = {"d1", "d2"}
  Callers = {"p1", "p2"}
  CatalogCalls <- MCCatalogCalls
  MaxCatalogFaults = 1
  ListIds <- MCListIds
  ListLimits = {1, 2}
  ListConcurrency = 2
  MaxScan = 3
  MaxListChanges = 2
  Buckets = {"in"}
  ObjectKeys <- MCObjectKeys
  KeyFilters <- MCKeyFilters
  MaxWrites = 2
  Hosts = {"old", "new"}
  RouterOf <- MCRouterOf
  Deployments = {"v1", "v2"}
  Definitions = {"d1", "d2"}
  ActiveDeployment = "v2"
  ActiveDefinition = "d2"
  PinnedAttempts = 2
  Questions <- MCQuestions
  SchedulePins <- MCSchedulePins
  PageSize = 1
  MaxExecutions = 2
  MaxRunsOfOne = 2
INVARIANT AccessIsAuthorized
 
INVARIANT ListsAreComplete
INVARIANT TriggersAreSafe
INVARIANT DefinitionsAreAvailable
PROPERTY OthersAreLeftAlone
