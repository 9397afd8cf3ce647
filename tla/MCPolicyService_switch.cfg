SPECIFICATION Spec
CONSTANTS
  Workers = {w1, w2}
  Requests <- PolicyRequests
  Halts <- PolicyHalts
  MaxApprovals = 3
  Window = 1
  MaxClock = 0
  MaxDecisions = 2
INVARIANTS
  TypeOK
  HaltRespected
  AnswerIsLogged
  AllowsMeanPolicy
SYMMETRY Symmetric
