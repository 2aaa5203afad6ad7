SPECIFICATION Spec
CONSTANTS
  t2 = t2
  v1 = v1
  s1 = s1
  s2 = s2
  Deployment = {d1}
  Stack = {s1, s2}
  Text = {t1, t2}
  Value = {v1}
  Client = {c1, c2}
  Id = {1, 2}
  Resolve <- ByVariable
  Unset = unset
  Absent = absent
  Rejected = rejected
  Nobody = nobody
CHECK_DEADLOCK FALSE
PROPERTIES ReplaceKeepsRecord
