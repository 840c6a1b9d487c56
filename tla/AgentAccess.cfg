SPECIFICATION Spec
CONSTANTS
  own = own  ag = ag  i1 = i1  i2 = i2  q1 = q1  q2 = q2
  User = {own}
  Subject <- Subjects
  Scenario <- Scenarios
  Agent = {ag}
  Operational = {ag}
  Assignment = {i1, i2}
  Command <- Commands
  Target <- Targets
  StoredRule <- OfficeHours
  PolicyAction = {"visible", "use"}
  Request = {q1, q2}
  MaxEntries = 2
  MaxChanges = 2
  Hour = 0
SYMMETRY Symmetry
CHECK_DEADLOCK FALSE
INVARIANTS DecisionsAreCurrent DenyPrevails
