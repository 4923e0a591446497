SPECIFICATION Spec
CONSTANTS
  NumStages = 4
  PhaseOf <- FullPhase
  BoltStages = {3}
  PhaseEnds = {2, 4}
  PlanStage = 2
  CIStage = 4
  ScopeStages <- FullScope
  NumBolts = 1
  MaxRevisions = 1
  MaxStrikes = 1
  Procs = {p1, p2}
  StartModes = {"human", "autonomous"}
  Requests = {"run", "bolt", "prepare", "approve", "reject", "crash"}
  Faults = {"smoke", "worktree"}
  Overlap = FALSE
  Rare = {"prepare", "crash"}
  MaxRare = 1
SYMMETRY Symmetry
INVARIANTS HumanControl RunningIsOwned
PROPERTIES ImplementsPipeline
CHECK_DEADLOCK FALSE
