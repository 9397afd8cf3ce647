SPECIFICATION Spec
CONSTANTS
  Workers = {w1, w2}
  Requests <- RoutineApprovals
  Halts <- NoHalts
  MaxApprovals = 2
  Window = 1
  MaxClock = 2
  MaxDecisions = 5
INVARIANT ApprovalsBounded
SYMMETRY Symmetric
