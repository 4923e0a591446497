SPECIFICATION Spec
CONSTANTS
  NumStages = 4
  PhaseOf <- FullPhase
  BoltStages = {3}
  PhaseEnds = {2, 4}
  PlanStage = 2
  CIStage = 4
  ScopeStages <- FullScope
  NumBolts = 1
  MaxRevisions = 1
  MaxStrikes = 1
  Procs = {p1, p2}
  StartModes = {"autonomous"}
  Requests = {}
  Faults = {}
  Overlap = FALSE
  Rare = {}
  MaxRare = 0
INVARIANT BoltsBeforeMerge
CHECK_DEADLOCK FALSE
