SPECIFICATION Spec
CONSTANTS
  NumStages = 4
  PhaseOf <- FullPhase
  BoltStages = {3}
  PhaseEnds = {2, 4}
  PlanStage = 2
  CIStage = 4
  ScopeStages <- FullScope
  NumBolts = 1
  MaxRevisions = 1
  MaxStrikes = 1
  Procs = {p1, p2}
  StartModes = {"autonomous"}
  Requests = {"crash"}
  Faults = {}
  Overlap = FALSE
  Rare = {"crash"}
  MaxRare = 1
INVARIANT NoSilentStall
CHECK_DEADLOCK FALSE
