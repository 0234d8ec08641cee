SPECIFICATION Spec
CONSTANTS
  t1 = t1  t2 = t2  u1 = u1  c1 = c1  c2 = c2
  i1 = i1  i2 = i2  i3 = i3  p1 = p1  p2 = p2
  NoTeam = NoTeam  NoId = NoId  Nobody = Nobody
  Procs = {p1, p2}
  Teams = {t1, t2}
  Users = {u1}
  Citizens = {c1, c2}
  Ids = {i1, i2, i3}
  PageSize = 2
SYMMETRY Alike
CONSTRAINT Bounds
CHECK_DEADLOCK FALSE
INVARIANTS OneLeader LeaderIsNamed UserInOneTeam
PROPERTIES RemovalLeavesSomeone DeputyTakesOver
