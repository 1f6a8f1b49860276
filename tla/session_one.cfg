\* One client, two accounts and every command: the reply stream, also after a
\* failed cd.  Five unread sends are more than a failed cd leaves behind.
CONSTANTS
  User = {u, v}
  Name = {a}
  Password = {p, q}
  NoAccount = NoAccount
  NoIsKey = TRUE
  Clients = 1
  None = None
  PathMax = 2
  MaxNo = 2
  MaxQueued = 2
  MaxUnread = 5
  MaxUploads = 1
  Typed = {"login", "badLogin", "signin", "badSignin", "pwd", "ls", "cd.", "cd..", "cd", "mkdir", "rm"}
SPECIFICATION Spec
SYMMETRY Symmetry
CHECK_DEADLOCK FALSE
INVARIANTS TypeOK SameUser InStep GarbledByCd
 
