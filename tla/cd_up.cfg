\* cd .. out of a directory after its parent has been removed.
CONSTANTS
  User = {u}
  Name = {a}
  Password = {p}
  NoAccount = NoAccount
  NoIsKey = TRUE
  Clients = 2
  None = None
  PathMax = 3
  MaxNo = 2
  MaxQueued = 1
  MaxUnread = 1
  MaxUploads = 1
  Typed = {"login", "signin", "cd..", "cd", "mkdir", "rm"}
SPECIFICATION Spec
CHECK_DEADLOCK FALSE
PROPERTY SurvivesCdUp
