SPECIFICATION Spec
CONSTANTS
  NumStages = 2
  PhaseOf <- ShortPhase
  BoltStages = {}
  PhaseEnds = {2}
  PlanStage = 2
  CIStage = 2
  ScopeStages <- ShortScope
  NumBolts = 1
  MaxRevisions = 1
  MaxStrikes = 1
  Procs = {p1, p2}
  StartModes = {"human"}
  Requests = {"run", "approve", "reject", "accept", "force", "cancel", "crash"}
  Faults = {"smoke", "quota"}
  Overlap = TRUE
  Rare = {"accept", "force", "cancel", "crash"}
  MaxRare = 2
SYMMETRY Symmetry
INVARIANTS StrikesBacked HumanControl ActiveBacked RunningIsOwned
CHECK_DEADLOCK FALSE
