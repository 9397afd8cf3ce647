SPECIFICATION FairSpec
CONSTANTS
  Services = {s1, s2}
  Watchdog = watchdog
  MaxAppends = 2
  MaxDamage = 0
  MaxRestarts = 0
INVARIANT UntouchedVerifies
