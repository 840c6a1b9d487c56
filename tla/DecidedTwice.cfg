SPECIFICATION Spec
CONSTANTS
  NoRun = NoRun
  Run = {r1}
  Decider = {d1, d2}
  Cancellable = {}
  Capacity = 1
  MaxFaults = 0
CHECK_DEADLOCK FALSE
INVARIANT ResumedOnce
