SPECIFICATION MCSpec
CONSTANTS
  d1 = d1
  d2 = d2
  d3 = d3
  d4 = d4
  alice = alice
  bob = bob
  s1 = s1
  s2 = s2
  jira = jira
  trello = trello
  demo = demo
  MaxSteps = 1
  StepList <- Steps
  Document = {d1, d2, d3, d4}
  Owner <- Owners
  Level <- Levels
  Purpose <- Purposes
  Domain <- Domains
  Title <- Titles
  Shared = {d4}
  Suspicious = {d4}
  Space = {s1, s2}
  MaxRowChanges = 0
  Message <- Messages
  Tool <- Tools
  Mutating = {trello}
  Demo = {demo}
  ProjectTool = {jira, trello}
  ToolLists <- Lists
  MaxToolCalls = 1
  Actor = alice
  EvidenceLimit = 2
  UnknownTool = UnknownTool
  NoCall = NoCall
  NoPlan = NoPlan
CHECK_DEADLOCK FALSE
INVARIANT
  DeferredHasNoEffect
