CONSTANTS
  R = 3
  MaxTime = 5
  TimeBases <- MCTimeBases
  NewTimes <- MCNewTimes
SPECIFICATION Spec
INVARIANT ElapsedIsCurrent
