SPECIFICATION MCSpec
CONSTANTS
  r1 = r1  r2 = r2  r3 = r3  r4 = r4
  Run = {r1, r2, r3, r4}
  Client = {1}
  Recent = 2
  Batch = 2
  Room = 1
  Page = 1
  MaxTurns = 3
  MaxAtOnce = 2
  MaxStreamed = 1
SYMMETRY Symmetric
CHECK_DEADLOCK FALSE
INVARIANTS SummaryIsExact ContextIsWhole EventsInOrder
