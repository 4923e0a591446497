SPECIFICATION Spec
CONSTANTS
  NumStages = 3
  PhaseOf <- PlainPhase
  BoltStages = {}
  PhaseEnds = {2, 3}
  PlanStage = 2
  CIStage = 3
  ScopeStages <- PlainScopes
  NumBolts = 1
  MaxRevisions = 1
  MaxStrikes = 1
  Procs = {p1, p2}
  StartModes = {"human"}
  Requests = {"run", "approve", "reject", "resume", "jump", "add", "mode", "scope", "cancel", "late_mark", "crash"}
  Faults = {"smoke", "setup", "auth"}
  Overlap = FALSE
  Rare = {"resume", "jump", "mode", "scope", "cancel", "crash"}
  MaxRare = 1
SYMMETRY Symmetry
INVARIANTS TypeOK HumanControl
CHECK_DEADLOCK FALSE
