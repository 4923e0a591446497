SPECIFICATION ServicesSpec
CONSTANTS
  Parts = {"proxy"}
  \* StageMachine
  NumStages = 3
  PhaseOf <- AskPhase
  BoltStages = {3}
  PhaseEnds = {1}
  PlanStage = 2
  CIStage = 2
  ScopeStages <- AskScope
  NumBolts = 1
  MaxRevisions = 1
  MaxStrikes = 1
  Procs = {p1, p2}
  StartModes = {"autonomous"}
  Requests = {"run", "crash"}
  Faults = {}
  Overlap = FALSE
  Rare = {"crash"}
  MaxRare = 1
  \* HumanProxy
  Question = {q1}
  Proxies = {x1}
  \* AgentCommands
  NumAsked = 2
  Malformed = {2}
  Signals = {"failed"}
  Reviewed = {2}
  ArtifactTypes = {"a"}
  CommandFaults = {"post", "reply", "note", "save"}
  MaxFiles = 1
  MaxInterrupted = 1
  \* CommandLine
  Shells = {"x"}
  Verbs = {"run-stage", "approve", "reject", "jump"}
  ShellFaults = {"smoke", "quota", "dispatch", "kill"}
  \* AgentOutput
  Dispatches = {1, 2}
  LogRow <- SameLog
  AgentSlots = 1
  FlushBytes = 2
  ChanCap = 1
  MaxPieces = 2
  OutputFaults = {"start", "reset", "append", "client"}
  \* EventStream
  Clients = {"x", "y"}
  Senders = {"s", "t"}
  MaxEvents = 2
  Lifecycle = {1, 2}
  EventBuffer = 1
  EventChannel = 1
  \* Chat
  ChatRequests = {"r1", "r2"}
  Confirmations = {c1, c2}
  Outputs <- ChatOutputs
  TrustMode = TRUE
  ChatBuffer = 1
  \* AgentSessions
  SessionPath <- BoltWalk
  BoltPhase = "c"
  WithReview = {1, 2}
  Resumes = {"u"}
  MaxKills = 1
  \* Providers
  ProviderNames = {1, 2}
  SeedProvider = 2
  Models = {"m"}
  SeedModel = "m"
  SettingsReqs = {"s1", "s2"}
  MaxWrites = 2
  \* Defaults
  GlobalPuts = {"g1", "g2", "g3"}
  RepoPuts = {"p1"}
  RepoDeletes = {"d1"}
  BlankPuts = {}
  HeavyPuts = {"g2"}
  Creates = {"c1"}
  \* Boot
  Servers = {"v1"}
  Commands = {"k1"}
  NumVersions = 3
  YamlRepos = {"a", "b"}
  MaxKilled = 2
  \* Registry
  RegistryRepos = {"a"}
  RepoCommands = {"k1", "k2", "k3", "k4"}
  DeleteReqs = {"d1"}
  \* GitHubClient
  GitHubCallers = {"g1", "g2"}
  TokenLife = 2
  HttpTimeout = 1
  MaxTime = 5
  \* Worktrees
  ImplRepos = {"a", "b"}
  MaxCommits = 1
SYMMETRY ServicesSymmetry
CONSTRAINTS ChatBounds OutputBounds AgentBounds
CHECK_DEADLOCK FALSE
PROPERTIES ContinuesAnswered
