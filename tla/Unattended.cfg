SPECIFICATION Spec
CONSTANTS
  NumStages = 4
  PhaseOf <- FullPhase
  BoltStages = {3}
  PhaseEnds = {2, 4}
  PlanStage = 2
  CIStage = 4
  ScopeStages <- TwoScopes
  NumBolts = 1
  MaxRevisions = 1
  MaxStrikes = 1
  Procs = {p1, p2}
  StartModes = {"guided", "autonomous"}
  Requests = {"run", "bolt", "crash"}
  Faults = {"agent", "smoke", "quota", "worktree"}
  Overlap = FALSE
  Rare = {"crash"}
  MaxRare = 2
SYMMETRY Symmetry
INVARIANTS SingleAdvancer MergeOnce DoneComplete BoltClosed
PROPERTIES InOrder ImplementsPipeline
CHECK_DEADLOCK FALSE
