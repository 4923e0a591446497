SPECIFICATION Spec
CONSTANTS
  NumStages = 2
  PhaseOf <- ShortPhase
  BoltStages = {}
  PhaseEnds = {2}
  PlanStage = 2
  CIStage = 2
  ScopeStages <- ShortScope
  NumBolts = 1
  MaxRevisions = 1
  MaxStrikes = 1
  Procs = {p1, p2}
  StartModes = {"human"}
  Requests = {"run"}
  Faults = {}
  Overlap = TRUE
  Rare = {}
  MaxRare = 0
INVARIANT SingleAdvancer
CHECK_DEADLOCK FALSE
