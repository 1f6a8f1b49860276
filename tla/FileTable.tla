------------------------------ MODULE FileTable ------------------------------
(***************************************************************************)
(* The two MySQL tables of the server, as the statements in src/ftp_server *)
(* use them.  user_info maps a user name to the hash of a password;        *)
(* files_info holds one row per directory or file:                         *)
(*   preNo     the number of the directory the entry is in (-1: a root),   *)
(*   no        the number of the entry itself,                             *)
(*   fileName, owner, and fileType (0 directory, 1 file).                  *)
(* MD5 and fileSize matter to transfers only and are left out here.        *)
(*                                                                         *)
(* The schema is not in the repository.  `no' is filled in by the database *)
(* when an INSERT leaves it out (cmd_handle_server.c:155), so it is an     *)
(* AUTO_INCREMENT column; NoIsKey says whether it is also unique.          *)
(***************************************************************************)
EXTENDS Integers, FiniteSets

CONSTANTS
  User,       \* user names
  Name,       \* the other names of files and directories
  Password,
  NoAccount,  \* what user_info says of a name that has not signed in
  NoIsKey     \* the column `no' of files_info is unique

ASSUME TableAssumption ==
  /\ NoAccount \notin Password
  /\ NoIsKey \in BOOLEAN

VARIABLES
  account,  \* user_info: the password of each user
  files,    \* files_info: the set of rows
  nextNo    \* the next AUTO_INCREMENT value

tableVars == <<account, files, nextNo>>

\* A root directory has the name of its owner.
FileName == Name \cup User

Row == [preNo : Int, no : Nat, fileName : FileName, owner : User, fileType : {0, 1}]

TableInit ==
  /\ account = [u \in User |-> NoAccount]
  /\ files = {}
  /\ nextNo = 1

(***************************************************************************)
(* The queries.  None has an ORDER BY, so which of several rows            *)
(* mysql_fetch_row returns first is up to the database.                    *)
(***************************************************************************)
\* where owner = u and fileName = n
NamedRows(u, n) == {r \in files : r.owner = u /\ r.fileName = n}

\* where preNo = p and owner = u
EntriesOf(u, p) == {r \in files : r.owner = u /\ r.preNo = p}

\* Mutants of EntryRows: only files are looked at; the directory, the owner
\* is left out of the WHERE clause.
EntryFiles(u, p, n) == {r \in EntriesOf(u, p) : r.fileName = n /\ r.fileType = 1}
EntryAnywhere(u, p, n) == NamedRows(u, n)
EntryOfAnyone(u, p, n) == {r \in files : r.preNo = p /\ r.fileName = n}

\* where preNo = p and owner = u and fileName = n
EntryRows(u, p, n) == EntriesOf(u, p) \cap NamedRows(u, n)

(***************************************************************************)
(* The INSERTs.  A statement that breaks the key fails, which mysqlCrud    *)
(* reports on stdout and its caller does not notice.                       *)
(***************************************************************************)
InsertRow(r) ==
  IF NoIsKey /\ \E q \in files : q.no = r.no
    THEN UNCHANGED <<files, nextNo>>
    ELSE /\ files' = files \cup {r}
         /\ nextNo' = IF r.no >= nextNo THEN r.no + 1 ELSE nextNo

\* mkdir and put let the database number the row.
InsertEntry(u, p, n, type) ==
  InsertRow([preNo |-> p, no |-> nextNo, fileName |-> n, owner |-> u, fileType |-> type])

\* signin numbers the root with the index c of the connection; the value 0
\* makes an AUTO_INCREMENT column take its next value.
InsertRoot(u, c) ==
  InsertRow([preNo |-> -1, no |-> IF c = 0 THEN nextNo ELSE c,
             fileName |-> u, owner |-> u, fileType |-> 0])
=============================================================================
