\* One worker; two users have different files of the same name.
CONSTANTS
  u = u
  v = v
  root = root
  sub = sub
  a = a
  b = b
  x = x
  y = y
  Worker = {w}
  Client = {c1, c2, c3}
  User = {u, v}
  Dir = {root, sub}
  Name = {a, b}
  Content = {x, y}
  Wanted <- OneName
  NBlocks = 1
  Unset = Unset
  None = None
  Absent = Absent
  MayDie = FALSE
SPECIFICATION Spec
SYMMETRY Symmetry
CHECK_DEADLOCK FALSE
INVARIANTS SendsUsersFile
