SPECIFICATION FairSpec
CONSTANTS
  Services = {s1, s2}
  Watchdog = watchdog
  MaxAppends = 2
  MaxDamage = 1
  MaxRestarts = 1
INVARIANTS
  TypeOK
  RowHasCopy
  NoFalseAlarm
  FindingsAlternate
PROPERTY BreakRecorded
