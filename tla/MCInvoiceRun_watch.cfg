SPECIFICATION FairSpec
CONSTANTS
  Executions = {e1, e2}
  Starters = {e1}
  Nobody = Nobody
  Threads = {"inv1"}
  Amounts <- MCAmounts
  Firsts = {FALSE}
  Entries <- NoEntries
  Silence = TRUE
  Outages = FALSE
INVARIANT TerminalRunPaused
PROPERTIES
  EveryRequestReturns
  AbandonedRunHalted
