\* Two workers on the one database connection, and clients that nobody disturbs.
CONSTANTS
  u = u
  v = v
  root = root
  sub = sub
  a = a
  b = b
  x = x
  y = y
  Worker = {w1, w2}
  Client = {c1, c2}
  User = {u, v}
  Dir = {root, sub}
  Name = {a, b}
  Content = {x, y}
  Wanted <- Most
  NBlocks = 1
  Unset = Unset
  None = None
  Absent = Absent
  MayDie = FALSE
SPECIFICATION Spec
SYMMETRY Symmetry
CHECK_DEADLOCK FALSE
INVARIANTS UploadRecorded
