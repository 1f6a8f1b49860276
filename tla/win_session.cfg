\* A Linux and a Windows client of one user, under the fairness of the event
\* loop.  A failed cd leaves four sends unread.
CONSTANTS
  User = {u}
  Name = {a}
  Password = {p}
  NoAccount = NoAccount
  NoIsKey = TRUE
  Clients = 2
  Windows = {1}
  None = None
  PathMax = 2
  MaxNo = 2
  MaxQueued = 1
  MaxUnread = 1
  MaxUploads = 1
  Typed = {"login", "badLogin", "signin", "cd", "pwd", "put"}
SPECIFICATION WinFairSpec
CHECK_DEADLOCK FALSE
INVARIANTS WinTypeOK ResyncWhenQuiet 
 
