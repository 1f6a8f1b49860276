\* Two clients of one user, who work on the same directories at the same time.
CONSTANTS
  User = {u}
  Name = {a}
  Password = {p}
  NoAccount = NoAccount
  NoIsKey = TRUE
  Clients = 2
  None = None
  PathMax = 2
  MaxNo = 2
  MaxQueued = 1
  MaxUnread = 1
  MaxUploads = 1
  Typed = {"login", "signin", "cd..", "cd", "mkdir", "rm", "put"}
SPECIFICATION Spec
CHECK_DEADLOCK FALSE
INVARIANTS UniqueDirs  
PROPERTIES RootsStay
