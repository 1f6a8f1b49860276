\* One worker and two clients with two transfers, each of which may be cut
\* short anywhere.
CONSTANTS
  u = u
  v = v
  root = root
  sub = sub
  a = a
  b = b
  x = x
  y = y
  Worker = {w}
  Client = {c1, c2}
  User = {u, v}
  Dir = {root, sub}
  Name = {a, b}
  Content = {x, y}
  Wanted <- Most
  NBlocks = 2
  Unset = Unset
  None = None
  Absent = Absent
  MayDie = TRUE
SPECIFICATION FairSpec
CHECK_DEADLOCK FALSE
INVARIANTS TypeOK UploadRecorded OwnerPutIt  SentOnce  DiesOfClients
PROPERTIES EveryTransferEnds
