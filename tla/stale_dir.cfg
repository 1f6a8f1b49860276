\* A failed cd: the client's directory number falls one cd behind.
CONSTANTS
  User = {u}
  Name = {a}
  Password = {p}
  NoAccount = NoAccount
  NoIsKey = TRUE
  Clients = 1
  None = None
  PathMax = 3
  MaxNo = 2
  MaxQueued = 1
  MaxUnread = 8
  MaxUploads = 1
  Typed = {"login", "signin", "cd", "mkdir"}
SPECIFICATION Spec
CHECK_DEADLOCK FALSE
INVARIANT ClientKnowsDir
