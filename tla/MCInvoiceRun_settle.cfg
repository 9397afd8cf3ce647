SPECIFICATION Spec
CONSTANTS
  Executions = {e1, e2, e3}
  Starters = {e1, e2}
  Nobody = Nobody
  Threads = {"inv1"}
  Amounts <- MCAmounts
  Firsts = {FALSE}
  Entries <- Operators
  Silence = FALSE
  Outages = TRUE
INVARIANTS
  TypeOK
  PaidAsApproved
  OutcomeTruthful
PROPERTY HaltBlocksSettlement
SYMMETRY Symmetric
