SPECIFICATION ConnectionsSpec
CONSTANTS
  mgr = mgr  mem = mem  c1 = c1  q1 = q1  q2 = q2  rd = rd  wr = wr
  Actor = {mgr, mem}
  Manager = {mgr}
  Subject <- Subjects
  SubjectsOf <- Matching
  Connection = {c1}
  Rotating = {c1}
  Tool = {rd, wr}
  ReadOnly = {rd}
  AnyTool = "*"
  Granted = {"read", "execute"}
  Call = {q1, q2}
  MaxTokens = 2
SYMMETRY Symmetric
INVARIANTS StoredTokenWorks CallsAreGranted
PROPERTIES OnlyReconnectReactivates
