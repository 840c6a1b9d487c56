SPECIFICATION MCSpec
CONSTANTS
  w1 = w1  w2 = w2  j1 = j1  j2 = j2  media = media  report = report
  Worker = {w1, w2}
  Job = {j1, j2}
  Kind = {media, report}
  KindOf <- TwoKinds
  RegisteredKinds <- TwoRegistered
  NoJob = NoJob
  MaximumAttempts = 2
  OuterJoinLocks = TRUE
  MaximumConcurrency = 1
  MaxRetries = 1
  MaxDisruptions = 1
INVARIANTS LeaseIffRunning
  OutputOfNewestAttempt CheckpointNotBeforeWriter
PROPERTIES LeaseEndsByHolder ImplementsContract 
