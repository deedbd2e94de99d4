CONSTANTS
  Timers = {t1, t2}
  Intervals = {0, 2}
  MaxTime = 3
  MaxSteps = 1
SPECIFICATION FairSpec
INVARIANTS TypeOK Armed NeverLate NoDangling
PROPERTY EveryTimerRuns
