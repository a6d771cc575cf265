SPECIFICATION Spec
CONSTANTS
  Clients = {c1, c2, c3}
  Users = {u1, u2, u3}
  f1 = f1
  Files = {f1, f2}
  NColours = 2
  Limits <- MCLimits
PROPERTY NoticesOfOpenFile
CHECK_DEADLOCK FALSE
