SPECIFICATION MCSpec
CONSTANTS
  o = o  a = a  b = b  so = so  sa = sa  sb = sb
  q1 = q1  q2 = q2  l1 = l1  l2 = l2  i1 = i1  t1 = t1  t2 = t2  dep = dep  team = team  proj = proj
  NoUser = NoUser
  User <- Everyone
  Founder = o
  Session <- Sessions
  UserOf <- Subjects
  AssuranceOf <- Assurances
  Department = {dep}
  Team = {team}
  Project = {proj}
  DepartmentOf <- Children
  Request = {q1, q2}
  Lifecycle = {l1, l2}
  Grantable <- Admins
  Invitation = {i1}
  Attempt = {t1, t2}
  MaxRequests = 4
SYMMETRY Symmetry
CHECK_DEADLOCK FALSE
INVARIANTS SomeActiveOwner
