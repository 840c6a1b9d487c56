SPECIFICATION MCSpec
CONSTANTS
  r1 = r1
  r2 = r2
  d1 = d1
  d2 = d2
  NoRun = NoRun
  Run <- TwoRuns
  Decider <- TwoDeciders
  Cancellable <- OneRun
  Capacity = 1
  MaxFaults = 2
CHECK_DEADLOCK FALSE
INVARIANTS
  ToolNeedsApproval
  CallsPerResumption
  AnswersPerResumption
  NoRunLeftBehind
PROPERTIES
  DecisionIsImmutable
  ImplementsToolGate
  CancelStops
  RunsSettle
