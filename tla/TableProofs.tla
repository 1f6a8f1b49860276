----------------------------- MODULE TableProofs -----------------------------
(***************************************************************************)
(* The tables that the sessions of FtpSession share, for any number of     *)
(* clients, users, names and directories: which rows there are, who may    *)
(* change them, when the table is a forest and what the server dies of.    *)
(*                                                                         *)
(* RowChanges says what a handler can do to the tables. On it rest         *)
(* TableInv (rows and sessions belong to users who have signed in),        *)
(* PlaceInv (StepInv of SessionProofs and where each session is), PathInv  *)
(* (until something is removed every component of a session's path has its *)
(* row) and ForestInv.                                                     *)
(***************************************************************************)
EXTENDS SessionProofs

-----------------------------------------------------------------------------
(* Rows *)

\* A command other than login and signin comes from a client that has logged
\* in, for the user that the server has.
LEMMA OfUser ==
  ASSUME EntryInv, NEW c \in Client, c2s[c] # <<>>, Head(c2s[c]).op \notin EntryOps
  PROVE  isLogin[c] /\ clientName[c] = userName[c] /\ clientName[c] \in User
<1>1. 1 \in DOMAIN c2s[c] /\ c2s[c][1].op \notin EntryOps
  BY EmptySeq, LenProperties DEF EntryInv, SessionOK, ClientsOK
<1> QED
  BY <1>1 DEF EntryInv, SessionOK, ServerOK, ClientsOK, Entry

\* The command that the main thread has read is a command.
LEMMA HeadTyped ==
  ASSUME EntryInv, NEW c \in Client, c2s[c] # <<>>
  PROVE  Head(c2s[c]) \in Commands
  BY HeadTailProperties DEF EntryInv, SessionOK, ClientsOK

\* signin adds an account and its root (cmd_handle_server.c:116-125).
RowsOfSignin(c) ==
  \E u \in User, pw \in Password :
    /\ account[u] = NoAccount
    /\ account' = [account EXCEPT ![u] = pw]
    /\ InsertRoot(u, c)

\* mkdir adds a directory unless there is an entry of the name
\* (cmd_handle_server.c:143-158).
RowsOfMkdir(c) ==
  \E n \in FileName :
    /\ isLogin[c] /\ clientName[c] = userName[c] /\ clientName[c] \in User
    /\ EntryRows(clientName[c], curNo[c], n) = {}
    /\ InsertEntry(clientName[c], curNo[c], n, 0)
    /\ c2s[c] # <<>>
    /\ UNCHANGED account

\* rm removes the entries of a name in the directory that the client names
\* (cmd_handle_server.c:248-266).
RowsOfRm(c) ==
  LET m == Head(c2s[c]) IN
    /\ isLogin[c] /\ clientName[c] = userName[c] /\ clientName[c] \in User
    /\ c2s[c] # <<>> /\ m.op = "rm"
    /\ files' = files \ EntryRows(clientName[c], m.no, m.name)
    /\ removed' = (removed \/ EntryRows(clientName[c], m.no, m.name) # {})
    /\ UNCHANGED account

\* An upload adds a file (work_factory.c:66-80).
RowsOfPut ==
  \E u \in uploads :
    /\ InsertEntry(u.owner, u.preNo, u.fileName, 1)
    /\ UNCHANGED account

\* A handler changes the tables in one of these ways, or not at all.
LEMMA RowChanges ==
  ASSUME SessionAssumption, EntryInv, NEW c \in Client, Handle(c)
  PROVE  \/ UNCHANGED <<tableVars, removed>>
         \/ RowsOfSignin(c) /\ UNCHANGED removed
         \/ RowsOfMkdir(c) /\ UNCHANGED removed
         \/ RowsOfRm(c)
<1>1. CASE SignIn(c)
  <2>1. Head(c2s[c]) \in Commands
    BY <1>1, HeadTyped DEF SignIn, Request
  <2> QED
    BY <1>1, <2>1, CommandFields DEF SignIn, Request, RowsOfSignin, isUserNameExist, auxVars
<1>2. CASE Mkdir(c)
  <2>1. Head(c2s[c]) \in Commands /\ isLogin[c] /\ clientName[c] = userName[c] /\ clientName[c] \in User
    BY <1>2, HeadTyped, OfUser DEF Mkdir, Request, EntryOps
  <2> QED
    BY <1>2, <2>1, CommandFields DEF Mkdir, Request, RowsOfMkdir, auxVars, tableVars
<1>3. CASE Rm(c)
  <2>1. isLogin[c] /\ clientName[c] = userName[c] /\ clientName[c] \in User
    BY <1>3, OfUser DEF Rm, Request, EntryOps
  <2> QED
    BY <1>3, <2>1 DEF Rm, Request, RowsOfRm
<1>4. CASE UNCHANGED <<tableVars, removed>>
  BY <1>4
<1> QED
  BY <1>1, <1>2, <1>3, <1>4
  DEF Handle, LogIn, Malformed, Pwd, Ls, Cd, CdUp, HangUp, auxVars

\* So does every step.
LEMMA RowChangesNext ==
  ASSUME SessionAssumption, EntryInv, [Next]_vars
  PROVE  \/ UNCHANGED <<tableVars, removed>>
         \/ \E c \in Client : RowsOfSignin(c) /\ UNCHANGED removed
         \/ \E c \in Client : RowsOfMkdir(c) /\ UNCHANGED removed
         \/ \E c \in Client : RowsOfRm(c)
         \/ RowsOfPut /\ UNCHANGED removed
<1>1. ASSUME NEW c \in Client, ClientStep(c) PROVE UNCHANGED <<tableVars, removed>>
  BY <1>1 DEF ClientStep, Connect, Hello, Send, Put, Read, ReadReply, TakeReply, LoseTrack, Quit, auxVars
<1>2. ASSUME NEW u \in uploads, StoreUpload(u)
      PROVE  (UNCHANGED tableVars \/ RowsOfPut) /\ UNCHANGED removed
  BY <1>2 DEF StoreUpload, RowsOfPut, tableVars, auxVars
<1>3. CASE UNCHANGED vars
  BY <1>3 DEF vars, auxVars
<1> QED
  BY <1>1, <1>2, <1>3, RowChanges DEF Next

-----------------------------------------------------------------------------
(* Rows and accounts *)

\* Rows and sessions belong to users who have signed in; an upload is of a user
\* who has logged in.
Registered ==
  /\ \A r \in files : account[r.owner] # NoAccount
  /\ \A c \in Client : clientName[c] # None => account[clientName[c]] # NoAccount
  /\ \A u \in uploads : \E c \in Client : isLogin[c] /\ userName[c] = u.owner

\* The invariant of rows and accounts.
TableInv == TypeInv /\ Registered /\ UniqueDirs

\* A client that has logged in stays logged in, as the same user.
LEMMA LoginStays ==
  ASSUME TypeInv, [Next]_vars, NEW c \in Client, isLogin[c]
  PROVE  isLogin'[c] /\ userName'[c] = userName[c]
<1>1. ASSUME NEW d \in Client, ClientStep(d)
      PROVE  isLogin'[c] /\ userName'[c] = userName[c]
  <2>1. CASE ReadReply(d)
    <3>1. CASE asked[d].op = "login"
      <4>1. ~isLogin[d]
        BY <2>1, <3>1 DEF ReadReply, TakeReply, TypeInv, EntryInv, Entry, LoginOps
      <4> QED
        BY <2>1, <4>1 DEF ReadReply, TakeReply, TypeInv, EntryInv, SessionOK, ClientsOK
    <3>2. CASE asked[d].op # "login"
      BY <2>1, <3>2 DEF ReadReply, TakeReply
    <3> QED
      BY <3>1, <3>2
  <2> QED
    BY <1>1, <2>1 DEF ClientStep, Connect, Hello, Send, Put, Read, LoseTrack, Quit, clientVars
<1>2. ASSUME NEW d \in Client, Handle(d) PROVE UNCHANGED clientVars
  BY <1>2, HandleMoves DEF TypeInv, EntryInv, SessionOK
<1>3. ASSUME NEW u \in uploads, StoreUpload(u) PROVE UNCHANGED clientVars
  BY <1>3 DEF StoreUpload
<1>4. CASE UNCHANGED clientVars
  BY <1>4 DEF clientVars
<1> QED
  BY <1>1, <1>2, <1>3, <1>4 DEF Next, vars

\* Only a user who has signed in can log in.
LEMMA NamesRegistered ==
  ASSUME TypeInv, TableAssumption, NEW d \in Client, Handle(d), NEW c \in Client,
         clientName'[c] # clientName[c]
  PROVE  account[clientName'[c]] # NoAccount /\ UNCHANGED account
<1>1. CASE LogIn(d)
  <2>1. Head(c2s[d]) \in Commands
    BY <1>1, HeadTyped DEF LogIn, Request, TypeInv
  <2>2. Head(c2s[d]).pw # NoAccount
    BY <1>1, <2>1, CommandFields, TableAssumption DEF LogIn, Request
  <2> QED
    BY <1>1, <2>2 DEF LogIn, SessionUnchanged, tableVars, TypeInv, EntryInv, SessionOK, ServerOK
<1> QED
  BY <1>1 DEF Handle, SignIn, Malformed, Pwd, Mkdir, Ls, Cd, CdUp, Rm, HangUp, SessionUnchanged, Reply

\* No account is ever removed.
LEMMA AccountsStay ==
  ASSUME SessionAssumption, TableAssumption, EntryInv, [Next]_vars,
         NEW u \in User, account[u] # NoAccount
  PROVE  account'[u] # NoAccount
  BY RowChangesNext, TableAssumption
  DEF RowsOfSignin, RowsOfMkdir, RowsOfRm, RowsOfPut, tableVars, EntryInv, SessionOK, TablesOK

\* Every step keeps rows and sessions with users who have signed in.
LEMMA RegisteredStep ==
  ASSUME SessionAssumption, TableAssumption, TypeInv, TypeInv', Registered, [Next]_vars
  PROVE  Registered'
<1> USE DEF TypeInv
<1>1. \A u \in User : account[u] # NoAccount => account'[u] # NoAccount
  BY AccountsStay
<1>2. ASSUME NEW r \in files' PROVE account'[r.owner] # NoAccount
  <2>1. r \in files => r.owner \in User /\ account[r.owner] # NoAccount
    BY DEF Registered, EntryInv, SessionOK, TablesOK, Row
  <2>2. ASSUME NEW c \in Client, RowsOfSignin(c), r \notin files PROVE account'[r.owner] # NoAccount
    BY <2>2, TableAssumption DEF RowsOfSignin, InsertRoot, InsertRow, EntryInv, SessionOK, TablesOK
  <2>3. ASSUME NEW c \in Client, RowsOfMkdir(c), r \notin files PROVE account'[r.owner] # NoAccount
    BY <2>3, SessionAssumption DEF RowsOfMkdir, InsertEntry, InsertRow, Registered
  <2>4. ASSUME NEW c \in Client, RowsOfRm(c) PROVE r \in files
    BY <2>4 DEF RowsOfRm
  <2>5. ASSUME RowsOfPut, r \notin files PROVE account'[r.owner] # NoAccount
    <3>1. PICK u \in uploads : InsertEntry(u.owner, u.preNo, u.fileName, 1) /\ UNCHANGED account
      BY <2>5 DEF RowsOfPut
    <3>2. r.owner = u.owner
      BY <2>5, <3>1 DEF InsertEntry, InsertRow
    <3>3. PICK c \in Client : isLogin[c] /\ userName[c] = u.owner
      BY DEF Registered
    <3>4. clientName[c] = u.owner /\ clientName[c] # None
      BY <3>3 DEF EntryInv, Entry
    <3> QED
      BY <3>1, <3>2, <3>4 DEF Registered
  <2>6. UNCHANGED tableVars => r \in files
    BY DEF tableVars
  <2> QED
    BY <1>1, <2>1, <2>2, <2>3, <2>4, <2>5, <2>6, RowChangesNext
<1>3. ASSUME NEW c \in Client, clientName'[c] # None PROVE account'[clientName'[c]] # NoAccount
  <2>1. CASE clientName'[c] = clientName[c]
    <3>1. clientName[c] \in User
      BY <1>3, <2>1 DEF EntryInv, SessionOK, ServerOK
    <3> QED
      BY <1>1, <1>3, <2>1, <3>1 DEF Registered
  <2>2. CASE clientName'[c] # clientName[c]
    <3>1. ASSUME NEW d \in Client, ClientStep(d) PROVE UNCHANGED clientName
      BY <3>1 DEF ClientStep, Connect, Hello, Send, Put, Read, ReadReply, TakeReply, LoseTrack, Quit, serverVars
    <3>2. ASSUME NEW u \in uploads, StoreUpload(u) PROVE UNCHANGED clientName
      BY <3>2 DEF StoreUpload, serverVars
    <3>3. PICK d \in Client : Handle(d)
      BY <2>2, <3>1, <3>2 DEF Next, vars, serverVars
    <3> QED
      BY <2>2, <3>3, NamesRegistered
  <2> QED
    BY <2>1, <2>2
<1>4. ASSUME NEW u \in uploads' PROVE \E c \in Client : isLogin'[c] /\ userName'[c] = u.owner
  <2>1. CASE u \in uploads
    BY <2>1, LoginStays DEF Registered
  <2>2. CASE u \notin uploads
    <3>1. PICK c \in Client, n \in FileName : Put(c, n)
      <4>1. ASSUME NEW c \in Client, ClientStep(c), ~\E n \in FileName : Put(c, n) PROVE UNCHANGED uploads
        BY <4>1 DEF ClientStep, Connect, Hello, Send, Read, ReadReply, TakeReply, LoseTrack, Quit
      <4>2. ASSUME NEW c \in Client, Handle(c) PROVE UNCHANGED uploads
        BY <4>2, HandleMoves DEF EntryInv, SessionOK
      <4>3. ASSUME NEW w \in uploads, StoreUpload(w) PROVE uploads' \subseteq uploads
        BY <4>3 DEF StoreUpload
      <4> QED
        BY <2>2, <4>1, <4>2, <4>3 DEF Next, vars
    <3>2. isLogin[c] /\ u.owner = userName[c] /\ UNCHANGED <<isLogin, userName>>
      BY <2>2, <3>1 DEF Put, clientVars
    <3> QED
      BY <3>2
  <2> QED
    BY <2>1, <2>2
<1> QED
  BY <1>2, <1>3, <1>4 DEF Registered

\* mkdir looks before it inserts, in the same step of the main thread; a root
\* is new because its owner is; an upload adds no directory.
LEMMA UniqueDirsStep ==
  ASSUME SessionAssumption, TypeInv, Registered, UniqueDirs, [Next]_vars
  PROVE  UniqueDirs'
<1> USE DEF TypeInv
<1>1. ASSUME files' \subseteq files PROVE UniqueDirs'
  BY <1>1 DEF UniqueDirs
<1>2. ASSUME NEW c \in Client, RowsOfSignin(c) PROVE UniqueDirs'
  <2>1. PICK u \in User : account[u] = NoAccount /\ InsertRoot(u, c)
    BY <1>2 DEF RowsOfSignin
  <2>2. \A r \in files : r.owner # u
    BY <2>1 DEF Registered
  <2>3. \A r \in files' \ files : r.owner = u /\ \A q \in files' \ files : q = r
    BY <2>1 DEF InsertRoot, InsertRow
  <2> QED
    BY <2>2, <2>3 DEF UniqueDirs
<1>3. ASSUME NEW c \in Client, RowsOfMkdir(c) PROVE UniqueDirs'
  <2>1. PICK n \in FileName : /\ EntryRows(clientName[c], curNo[c], n) = {}
                              /\ InsertEntry(clientName[c], curNo[c], n, 0)
    BY <1>3 DEF RowsOfMkdir
  <2>2. \A r \in files : ~(r.owner = clientName[c] /\ r.preNo = curNo[c] /\ r.fileName = n)
    BY <2>1 DEF EntryRows, EntriesOf, NamedRows
  <2>3. \A r \in files' \ files :
          /\ r.owner = clientName[c] /\ r.preNo = curNo[c] /\ r.fileName = n
          /\ \A q \in files' \ files : q = r
    BY <2>1 DEF InsertEntry, InsertRow
  <2> QED
    BY <2>2, <2>3 DEF UniqueDirs
<1>4. ASSUME RowsOfPut PROVE UniqueDirs'
  <2>1. \A r \in files' \ files : r.fileType = 1
    BY <1>4 DEF RowsOfPut, InsertEntry, InsertRow
  <2> QED
    BY <2>1 DEF UniqueDirs
<1> QED
  BY <1>1, <1>2, <1>3, <1>4, RowChangesNext DEF RowsOfRm, tableVars

\* Before the first connection the tables are empty.
LEMMA TableInvInit ==
  ASSUME SessionAssumption, Init
  PROVE  TableInv
<1>1. TypeInv
  BY TypeInit
<1> QED
  BY <1>1 DEF TableInv, Init, TableInit, Registered, UniqueDirs

\* Every step keeps the invariant of rows and accounts.
LEMMA TableInvStep ==
  ASSUME SessionAssumption, TableAssumption, TableInv, [Next]_vars
  PROVE  TableInv'
<1>1. TypeInv'
  BY TypeStep DEF TableInv
<1> QED
  BY <1>1, RegisteredStep, UniqueDirsStep DEF TableInv

(***************************************************************************)
(* However many sessions a user has and whatever they do at the same time, *)
(* no two of the user's directories have the same name and parent:         *)
(* mkdirCmd (cmd_handle_server.c:143) and signInCmd (line 79) look and     *)
(* insert without a constraint of the database to help them.               *)
(***************************************************************************)
THEOREM DirsUnique == Spec => []UniqueDirs
<1>1. Init => TableInv
  BY TableInvInit, SessionAssumption
<1>2. TableInv /\ [Next]_vars => TableInv'
  BY TableInvStep, SessionAssumption, TableAssumption
<1>3. TableInv => UniqueDirs
  BY DEF TableInv
<1> QED
  BY <1>1, <1>2, <1>3, PTL DEF Spec

-----------------------------------------------------------------------------
(* Isolation *)

\* A row that appears or disappears does so on behalf of its owner.
LEMMA OwnRowsStep ==
  ASSUME SessionAssumption, TableAssumption, TableInv, [Next]_vars,
         NEW r \in (files \ files') \cup (files' \ files)
  PROVE  \/ \E c \in Client : isLogin[c] /\ userName[c] = r.owner
         \/ account[r.owner] = NoAccount /\ account'[r.owner] # NoAccount
<1> USE DEF TableInv, TypeInv
<1>1. ASSUME NEW c \in Client, RowsOfSignin(c)
      PROVE  account[r.owner] = NoAccount /\ account'[r.owner] # NoAccount
  BY <1>1, TableAssumption DEF RowsOfSignin, InsertRoot, InsertRow, EntryInv, SessionOK, TablesOK
<1>2. ASSUME NEW c \in Client, RowsOfMkdir(c)
      PROVE  isLogin[c] /\ userName[c] = r.owner
  BY <1>2 DEF RowsOfMkdir, InsertEntry, InsertRow
<1>3. ASSUME NEW c \in Client, RowsOfRm(c)
      PROVE  isLogin[c] /\ userName[c] = r.owner
  BY <1>3 DEF RowsOfRm, EntryRows, EntriesOf
<1>4. ASSUME RowsOfPut
      PROVE  \E c \in Client : isLogin[c] /\ userName[c] = r.owner
  <2>1. PICK u \in uploads : r.owner = u.owner
    BY <1>4 DEF RowsOfPut, InsertEntry, InsertRow
  <2> QED
    BY <2>1 DEF Registered
<1>5. ~UNCHANGED tableVars
  BY DEF tableVars
<1> QED
  BY <1>1, <1>2, <1>3, <1>4, <1>5, RowChangesNext

(***************************************************************************)
(* A row of files_info appears or disappears only for its owner, who is    *)
(* logged in or has just signed in: no mkdir, rm (cmd_handle_server.c:143, *)
(* 248) or put (work_factory.c:66-80) of one user touches another's        *)
(* entries, although a client chooses the directory number of rm and put   *)
(* itself.                                                                 *)
(***************************************************************************)
THEOREM UsersIsolated == Spec => OwnRowsOnly
<1>1. Init => TableInv
  BY TableInvInit, SessionAssumption
<1>2. TableInv /\ [Next]_vars => TableInv'
  BY TableInvStep, SessionAssumption, TableAssumption
<1>3. TableInv /\ [Next]_vars =>
        [\A r \in (files \ files') \cup (files' \ files) :
           \/ \E c \in Client : isLogin[c] /\ userName[c] = r.owner
           \/ account[r.owner] = NoAccount /\ account'[r.owner] # NoAccount]_vars
  BY OwnRowsStep, SessionAssumption, TableAssumption
<1> QED
  BY <1>1, <1>2, <1>3, PTL DEF Spec, OwnRowsOnly

-----------------------------------------------------------------------------
(* Where sessions are *)

\* The session has a user, and the main thread may yet read a command of it.
Serving(c) == clientName[c] # None /\ (status[c] # "gone" \/ c2s[c] # <<>>)

\* Such a session is in a directory; a client that has failed no cd names
\* directories, and never -1, the parent of the roots.
Placed(c) ==
  /\ Serving(c) => curNo[c] \in Nat /\ curDir[c] # <<>>
  /\ ~missed[c] =>
       /\ preDirNo[c] \in Nat
       /\ \A i \in DOMAIN c2s[c] : c2s[c][i].op = "rm" => c2s[c][i].no \in Nat

\* The invariant of where sessions are.
PlaceInv == StepInv /\ \A c \in Client : Placed(c)

\* The path without its last component, unless it is the only one.
UpOf(dir) == IF Len(dir) > 1 THEN SubSeq(dir, 1, Len(dir) - 1) ELSE dir

\* What a handler can do to the session: log in, or go to a row of the user's,
\* with the path one component longer or shorter.
SessionMoves(c) ==
  \/ UNCHANGED <<clientName, curDir, curNo>>
  \/ HangUp(c)
  \/ \E u \in User : \E r \in NamedRows(u, u) :
       /\ clientName' = [clientName EXCEPT ![c] = u]
       /\ curDir' = [curDir EXCEPT ![c] = <<u>>]
       /\ curNo' = [curNo EXCEPT ![c] = r.no]
  \/ /\ clientName[c] \in User
     /\ \E n \in FileName : \E r \in NamedRows(clientName[c], n) :
          /\ curDir' = [curDir EXCEPT ![c] = Append(@, n)]
          /\ curNo' = [curNo EXCEPT ![c] = r.no]
          /\ UNCHANGED clientName
  \/ /\ clientName[c] \in User
     /\ curDir' = [curDir EXCEPT ![c] = UpOf(curDir[c])]
     /\ \/ UNCHANGED curNo
        \/ \E n \in FileName : \E r \in NamedRows(clientName[c], n) : curNo' = [curNo EXCEPT ![c] = r.no]
     /\ UNCHANGED clientName

\* Every handler does one of these or leaves the session alone.
LEMMA HandleSession ==
  ASSUME EntryInv, NEW c \in Client, Handle(c)
  PROVE  SessionMoves(c) /\ (HangUp(c) \/ (c2s[c] # <<>> /\ ~HangUp(c)))
<1>1. HangUp(c) \/ c2s[c] # <<>>
  BY DEF Handle, SignIn, LogIn, Malformed, Pwd, Mkdir, Ls, Cd, CdUp, Rm, Request
<1>2. CASE LogIn(c)
  <2>1. Head(c2s[c]) \in Commands /\ Head(c2s[c]).user \in User
    BY <1>2, HeadTyped, CommandFields DEF LogIn, Request
  <2> QED
    BY <1>1, <1>2, <2>1 DEF LogIn, SessionMoves, SessionUnchanged, HangUp
<1>3. CASE Cd(c)
  <2>1. clientName[c] \in User
    BY <1>3, OfUser DEF Cd, Request, EntryOps
  <2>2. Head(c2s[c]).op = "cd" => Head(c2s[c]).name \in FileName
    BY <1>3, HeadTyped, CommandFields DEF Cd, Request
  <2> QED
    BY <1>1, <1>3, <2>1, <2>2 DEF Cd, SessionMoves, SessionUnchanged, HangUp
<1>4. CASE CdUp(c)
  <2>1. clientName[c] \in User
    BY <1>4, OfUser DEF CdUp, Request, EntryOps
  <2>2. curDir' = [curDir EXCEPT ![c] = UpOf(curDir[c])]
    BY <1>4 DEF CdUp, UpOf
  <2>3. \A n : \A r \in NamedRows(clientName[c], n) : n \in FileName
    BY DEF NamedRows, EntryInv, SessionOK, TablesOK, Row
  <2> QED
    BY <1>1, <1>4, <2>1, <2>2, <2>3 DEF CdUp, ParentRows, SessionMoves, HangUp
<1> QED
  BY <1>1, <1>2, <1>3, <1>4
  DEF Handle, SessionMoves, SignIn, Malformed, Pwd, Mkdir, Ls, Rm, SessionUnchanged, HangUp

\* The path of the parent has components of the path only.
LEMMA UpDir ==
  ASSUME NEW S, NEW dir \in Seq(S), dir # <<>>,
         NEW up, up = UpOf(dir)
  PROVE  /\ up # <<>> /\ up \in Seq(S)
         /\ \A i \in DOMAIN up : i \in DOMAIN dir /\ up[i] = dir[i]
         /\ Len(up) \in DOMAIN up
<1>1. Len(dir) \in Nat /\ Len(dir) > 0 /\ DOMAIN dir = 1 .. Len(dir)
  BY EmptySeq, LenProperties
<1>2. CASE Len(dir) > 1
  <2>1. \A i \in 1 .. Len(dir) - 1 : dir[i] \in S
    BY <1>1, ElementOfSeq
  <2>2. /\ up \in Seq(S) /\ Len(up) = Len(dir) - 1
        /\ \A i \in 1 .. Len(dir) - 1 : up[i] = dir[i]
    BY <1>1, <1>2, <2>1, SubSeqProperties DEF UpOf
  <2>3. DOMAIN up = 1 .. Len(dir) - 1
    BY <2>2, LenProperties
  <2> QED
    BY <1>1, <1>2, <2>2, <2>3
<1>3. CASE ~(Len(dir) > 1)
  BY <1>1, <1>3 DEF UpOf
<1> QED
  BY <1>2, <1>3

\* The handlers keep sessions in directories.
LEMMA PlacedHandle ==
  ASSUME TypeInv, TypeInv', NEW c \in Client, Handle(c), NEW d \in Client, Placed(d)
  PROVE  Placed(d)'
<1> USE DEF TypeInv, EntryInv, SessionOK
<1>1. UNCHANGED clientVars /\ (missed[c] => missed'[c])
  BY HandleMoves
<1>2. CASE d # c
  <2>1. /\ c2s'[d] = c2s[d] /\ clientName'[d] = clientName[d] /\ curNo'[d] = curNo[d]
        /\ curDir'[d] = curDir[d] /\ missed'[d] = missed[d]
    BY <1>2, HandleMoves
  <2> QED
    BY <1>1, <2>1 DEF Placed, Serving, clientVars
<1>3. CASE d = c /\ HangUp(c)
  BY <1>3 DEF HangUp, Placed, Serving, auxVars, clientVars
<1>4. CASE d = c /\ ~HangUp(c)
  <2>1. c2s[c] # <<>> /\ SessionMoves(c)
    BY <1>4, HandleSession
  <2>2. c2s'[c] = c2s[c] \/ c2s'[c] = Tail(c2s[c])
    BY <1>4, HandleAnswers, ReplyAppends
  <2>3. \A i \in DOMAIN c2s'[c] : \E j \in DOMAIN c2s[c] : c2s'[c][i] = c2s[c][j]
    <3>1. c2s[c] \in Seq(Commands) /\ Len(c2s[c]) \in Nat \ {0}
      BY <2>1, EmptySeq DEF ClientsOK
    <3>2. \A i \in DOMAIN Tail(c2s[c]) : i + 1 \in DOMAIN c2s[c] /\ Tail(c2s[c])[i] = c2s[c][i + 1]
      BY <2>1, <3>1, HeadTailProperties, LenProperties
    <3> QED
      BY <2>2, <3>2
  <2>4. clientName'[c] # None => curNo'[c] \in Nat /\ curDir'[c] # <<>>
    <3>1. clientName[c] # None => curNo[c] \in Nat /\ curDir[c] # <<>>
      BY <1>4, <2>1 DEF Placed, Serving
    <3>2. \A u, n : \A r \in NamedRows(u, n) : r.no \in Nat
      BY DEF NamedRows, TablesOK, Row
    <3>3. CASE UNCHANGED <<clientName, curDir, curNo>>
      BY <3>1, <3>3
    <3>4. CASE \E u \in User : \E r \in NamedRows(u, u) :
                 /\ clientName' = [clientName EXCEPT ![c] = u]
                 /\ curDir' = [curDir EXCEPT ![c] = <<u>>]
                 /\ curNo' = [curNo EXCEPT ![c] = r.no]
      BY <3>2, <3>4 DEF ServerOK
    <3>5. ASSUME clientName[c] \in User, NEW n \in FileName, NEW r \in NamedRows(clientName[c], n),
                 curDir' = [curDir EXCEPT ![c] = Append(@, n)],
                 curNo' = [curNo EXCEPT ![c] = r.no]
          PROVE  curNo'[c] \in Nat /\ curDir'[c] # <<>>
      <4>1. curDir'[c] = Append(curDir[c], n) /\ curNo'[c] = r.no
        BY <3>5 DEF ServerOK
      <4>2. curDir[c] \in Seq(FileName)
        BY DEF ServerOK
      <4>3. Len(Append(curDir[c], n)) = Len(curDir[c]) + 1 /\ Len(curDir[c]) \in Nat
        BY <4>2, AppendProperties, LenProperties
      <4>4. Len(Append(curDir[c], n)) # Len(<<>>)
        BY <4>3, EmptySeq
      <4> QED
        BY <3>2, <4>1, <4>4
    <3>6. ASSUME clientName[c] \in User, UNCHANGED clientName,
                 curDir' = [curDir EXCEPT ![c] = UpOf(curDir[c])],
                 \/ UNCHANGED curNo
                 \/ \E n \in FileName : \E r \in NamedRows(clientName[c], n) : curNo' = [curNo EXCEPT ![c] = r.no]
          PROVE  clientName'[c] # None => curNo'[c] \in Nat /\ curDir'[c] # <<>>
      <4>1. clientName'[c] # None => curDir[c] # <<>> /\ curNo[c] \in Nat
        BY <3>1, <3>6
      <4>2. curDir[c] # <<>> => curDir'[c] # <<>>
        BY <3>6, UpDir DEF ServerOK
      <4>3. curNo'[c] = curNo[c] \/ curNo'[c] \in Nat
        BY <3>2, <3>6 DEF ServerOK
      <4> QED
        BY <4>1, <4>2, <4>3
    <3> QED
      BY <1>4, <2>1, <3>3, <3>4, <3>5, <3>6 DEF SessionMoves
  <2> QED
    BY <1>1, <1>4, <2>3, <2>4 DEF Placed, Serving, clientVars
<1> QED
  BY <1>2, <1>3, <1>4

\* The number that a command carries is the one that the client knows.
LEMMA PlacedSend ==
  ASSUME StepInv, NEW c \in Client, NEW m \in EntryCommand \cup FileCommand(c), Send(c, m),
         NEW d \in Client, Placed(d)
  PROVE  Placed(d)'
<1> USE DEF StepInv, TypeInv, EntryInv, SessionOK
<1>1. UNCHANGED <<status, clientName, missed, preDirNo, curNo, curDir>>
  BY DEF Send, serverVars, auxVars
<1>2. CASE d # c
  <2>1. c2s'[d] = c2s[d]
    BY <1>2 DEF Send, ClientsOK
  <2> QED
    BY <1>1, <2>1 DEF Placed, Serving
<1>3. CASE d = c
  <2>1. m \in Commands /\ c2s[c] \in Seq(Commands) /\ c2s'[c] = Append(c2s[c], m)
    BY CommandsTyped DEF Send, ClientsOK
  <2>2. \A i \in DOMAIN c2s'[c] : \/ i \in DOMAIN c2s[c] /\ c2s'[c][i] = c2s[c][i]
                                  \/ c2s'[c][i] = m
    BY <2>1, AppendProperties, LenProperties
  <2>3. status[c] # "gone"
    BY DEF Send, AtPrompt
  <2>4. ~missed[c] /\ m.op = "rm" => m.no \in Nat
    <3>1. SUFFICES ASSUME ~missed[c], m.op = "rm" PROVE m.no \in Nat
      OBVIOUS
    <3>2. status[c] # "garbled" /\ preDirNo[c] \in Nat
      BY <1>3, <3>1 DEF Steady, Placed
    <3>3. m \in [op : {"rm"}, name : FileName, no : {preDirNo[c]}]
      BY <3>1, <3>2 DEF FileCommand, EntryCommand
    <3> QED
      BY <3>2, <3>3
  <2> QED
    BY <1>1, <1>3, <2>2, <2>3, <2>4 DEF Placed, Serving
<1> QED
  BY <1>2, <1>3

\* The number that the client reads is the session's.
LEMMA PlacedRead ==
  ASSUME SessionAssumption, StepInv, NEW c \in Client, ReadReply(c), NEW d \in Client, Placed(d)
  PROVE  Placed(d)'
<1> USE DEF StepInv, TypeInv, EntryInv, SessionOK
<1>1. UNCHANGED <<c2s, status, clientName, missed, curNo, curDir>>
  BY DEF ReadReply, TakeReply, serverVars, auxVars
<1> DEFINE m == asked[c]
           s == s2c[c]
           need == Needs(m, Head(s))
<1>2. CASE d # c \/ missed[c] \/ ~(m.op \in CdOps \cup {"login"} /\ IsFlag(s[1], "1"))
  <2>1. missed[d] \/ preDirNo'[d] = preDirNo[d]
    BY <1>2 DEF ReadReply, TakeReply, ClientsOK
  <2> QED
    BY <1>1, <2>1 DEF Placed, Serving
<1>3. CASE d = c /\ ~missed[c] /\ m.op \in CdOps \cup {"login"} /\ IsFlag(s[1], "1")
  <2>1. status[c] = "up" /\ m # None /\ s # <<>> /\ m \in Commands
    BY DEF ReadReply, TakeReply, ClientsOK
  <2>2. Talking(c)
    BY <1>3, <2>1 DEF Steady
  <2>3. preDirNo'[c] = curNo[c]
    <3>1. s[Len(need)].payload = curNo[c]
      BY <1>3, <2>1, <2>2, TalkingAnswered
    <3> QED
      BY <1>3, <3>1 DEF ReadReply, TakeReply, ClientsOK
  <2>4. clientName[c] # None
    <3>1. CASE m.op = "login"
      BY <1>3, <2>1, <2>2, <3>1, LoginAnswered, CommandFields, SessionAssumption
    <3>2. CASE m.op # "login"
      <4>1. isLogin[c]
        BY <1>3, <2>1, <3>2 DEF Entry, CdOps, EntryOps
      <4> QED
        BY <4>1 DEF Entry
    <3> QED
      BY <3>1, <3>2
  <2>5. curNo[c] \in Nat
    BY <1>3, <2>1, <2>4 DEF Placed, Serving
  <2> QED
    BY <1>1, <1>3, <2>3, <2>5 DEF Placed, Serving
<1> QED
  BY <1>2, <1>3

\* The client's own steps leave the tables and the server alone; a session that
\* has ended does not start again.
LEMMA ClientKeepsSession ==
  ASSUME EntryInv, NEW c \in Client, ClientStep(c)
  PROVE  /\ UNCHANGED <<tableVars, clientName, curDir, curNo, crashed, missed, removed>>
         /\ \A d \in Client : /\ Serving(d)' => Serving(d)
                              /\ status[d] = "gone" => status'[d] = "gone"
<1> USE DEF EntryInv, SessionOK, ClientsOK, serverVars, auxVars, Serving
<1>1. CASE Connect(c)
  BY <1>1 DEF Connect
<1>2. CASE Hello(c)
  BY <1>2 DEF Hello
<1>3. CASE \E m \in EntryCommand \cup FileCommand(c) : Send(c, m)
  BY <1>3 DEF Send, AtPrompt
<1>4. CASE \E n \in FileName : Put(c, n)
  BY <1>4 DEF Put, clientVars
<1>5. CASE ReadReply(c)
  BY <1>5 DEF ReadReply, TakeReply
<1>6. CASE LoseTrack(c)
  BY <1>6 DEF LoseTrack, Misled
<1>7. CASE Quit(c)
  BY <1>7 DEF Quit
<1> QED
  BY <1>1, <1>2, <1>3, <1>4, <1>5, <1>6, <1>7 DEF ClientStep, Read

\* Every step keeps sessions in directories.
LEMMA PlaceStep ==
  ASSUME SessionAssumption, PlaceInv, [Next]_vars
  PROVE  PlaceInv'
<1> USE DEF PlaceInv
<1>0. StepInv'
  BY StepStep
<1> USE DEF StepInv, TypeInv, EntryInv, SessionOK
<1>1. ASSUME NEW c \in Client, ClientStep(c), NEW d \in Client PROVE Placed(d)'
  <2>1. CASE \E m \in EntryCommand \cup FileCommand(c) : Send(c, m)
    BY <2>1, PlacedSend
  <2>2. CASE ReadReply(c)
    BY <2>2, PlacedRead
  <2>3. CASE Connect(c) \/ Hello(c) \/ LoseTrack(c) \/ Quit(c) \/ \E n \in FileName : Put(c, n)
    <3>1. preDirNo' = preDirNo /\ (c2s'[d] = c2s[d] \/ c2s'[d] = <<>>)
      BY <2>3 DEF Connect, Hello, LoseTrack, Quit, Put, clientVars, ClientsOK
    <3>2. UNCHANGED <<clientName, curDir, curNo, missed>> /\ (Serving(d)' => Serving(d))
      BY <1>1, ClientKeepsSession
    <3>3. Serving(d)' => curNo'[d] \in Nat /\ curDir'[d] # <<>>
      BY <3>2 DEF Placed
    <3> QED
      BY <3>1, <3>2, <3>3 DEF Placed
  <2> QED
    BY <1>1, <2>1, <2>2, <2>3 DEF ClientStep, Read
<1>2. ASSUME NEW c \in Client, Handle(c), NEW d \in Client PROVE Placed(d)'
  BY <1>0, <1>2, PlacedHandle
<1>3. ASSUME NEW u \in uploads, StoreUpload(u), NEW d \in Client PROVE Placed(d)'
  BY <1>3 DEF StoreUpload, Placed, Serving, clientVars, serverVars, auxVars
<1>4. ASSUME UNCHANGED vars, NEW d \in Client PROVE Placed(d)'
  BY <1>4 DEF vars, Placed, Serving, clientVars, serverVars, auxVars
<1> QED
  BY <1>0, <1>1, <1>2, <1>3, <1>4 DEF Next

\* Before the first connection there is no session.
LEMMA PlaceInit ==
  ASSUME SessionAssumption, Init
  PROVE  PlaceInv
<1>1. StepInv
  BY StepInit
<1> QED
  BY <1>1 DEF PlaceInv, Init, Placed, Serving

-----------------------------------------------------------------------------
(* Roots *)

\* No root is removed: rm names a directory, and a root is in none.
LEMMA RootsStep ==
  ASSUME SessionAssumption, PlaceInv, [Next]_vars, \A c \in Client : ~missed[c],
         NEW r \in files, r.preNo = -1
  PROVE  r \in files'
<1> USE DEF PlaceInv, StepInv, TypeInv
<1>1. ASSUME NEW c \in Client, RowsOfRm(c) PROVE r \in files'
  <2>1. 1 \in DOMAIN c2s[c] /\ c2s[c][1] = Head(c2s[c])
    BY <1>1, EmptySeq, LenProperties DEF RowsOfRm, EntryInv, SessionOK, ClientsOK
  <2>2. Head(c2s[c]).no \in Nat
    BY <1>1, <2>1 DEF RowsOfRm, Placed
  <2>3. r \notin EntryRows(clientName[c], Head(c2s[c]).no, Head(c2s[c]).name)
    BY <2>2 DEF EntryRows, EntriesOf
  <2> QED
    BY <1>1, <2>3 DEF RowsOfRm
<1>2. ASSUME NEW c \in Client, RowsOfSignin(c) PROVE r \in files'
  BY <1>2 DEF RowsOfSignin, InsertRoot, InsertRow
<1>3. ASSUME NEW c \in Client, RowsOfMkdir(c) PROVE r \in files'
  BY <1>3 DEF RowsOfMkdir, InsertEntry, InsertRow
<1>4. ASSUME RowsOfPut PROVE r \in files'
  BY <1>4 DEF RowsOfPut, InsertEntry, InsertRow
<1> QED
  BY <1>1, <1>2, <1>3, <1>4, RowChangesNext DEF tableVars

(***************************************************************************)
(* While no cd has failed, no rm (cmd_handle_server.c:248-266) of any      *)
(* client removes the root directory of any user.                          *)
(***************************************************************************)
THEOREM RootsOutliveRm == Spec => RootsStay
<1>1. Init => PlaceInv
  BY PlaceInit, SessionAssumption
<1>2. PlaceInv /\ [Next]_vars => PlaceInv'
  BY PlaceStep, SessionAssumption
<1>3. PlaceInv /\ [Next]_vars =>
        [(\A c \in Client : ~missed[c]) => {r \in files : r.preNo = -1} \subseteq files']_vars
  BY RootsStep, SessionAssumption
<1> QED
  BY <1>1, <1>2, <1>3, PTL DEF Spec, RootsStay

-----------------------------------------------------------------------------
(* Paths *)

\* A handler that removes nothing keeps every row.
LEMMA HandleRowsStay ==
  ASSUME SessionAssumption, EntryInv, NEW c \in Client, Handle(c), ~removed'
  PROVE  ~removed /\ files \subseteq files'
<1>1. CASE RowsOfRm(c)
  BY <1>1 DEF RowsOfRm
<1>2. CASE RowsOfSignin(c) /\ UNCHANGED removed
  BY <1>2 DEF RowsOfSignin, InsertRoot, InsertRow
<1>3. CASE RowsOfMkdir(c) /\ UNCHANGED removed
  BY <1>3 DEF RowsOfMkdir, InsertEntry, InsertRow
<1> QED
  BY <1>1, <1>2, <1>3, RowChanges DEF tableVars

\* An upload keeps every row.
LEMMA StoreRowsStay ==
  ASSUME NEW u \in uploads, StoreUpload(u), ~removed'
  PROVE  ~removed /\ files \subseteq files'
  BY DEF StoreUpload, InsertEntry, InsertRow, auxVars

\* Until something is removed no row disappears.
LEMMA RowsStay ==
  ASSUME SessionAssumption, EntryInv, [Next]_vars, ~removed'
  PROVE  ~removed /\ files \subseteq files'
<1>1. ASSUME NEW c \in Client, ClientStep(c) PROVE UNCHANGED <<files, removed>>
  BY <1>1, ClientKeepsSession DEF tableVars
<1>2. CASE UNCHANGED vars
  BY <1>2 DEF vars, tableVars, auxVars
<1> QED
  BY <1>1, <1>2, HandleRowsStay, StoreRowsStay DEF Next

\* Every component of the path has a row of the user's, and the directory
\* number is one of the user's rows.
Path(c) ==
  /\ \A i \in DOMAIN curDir[c] : NamedRows(clientName[c], curDir[c][i]) # {}
  /\ Serving(c) => Stands(clientName[c], curNo[c])

\* So it is for every session, until something is removed.
PathInv == ~removed => \A c \in Client : Path(c)

\* A session that does not move keeps its path while no row disappears.
LEMMA PathUnmoved ==
  ASSUME files \subseteq files', NEW d \in Client, Path(d), Serving(d)' => Serving(d),
         clientName'[d] = clientName[d], curDir'[d] = curDir[d], curNo'[d] = curNo[d]
  PROVE  Path(d)'
  BY DEF Path, NamedRows, Stands

\* The handlers keep the rows of a path.
LEMMA PathHandle ==
  ASSUME PlaceInv, NEW c \in Client, Handle(c), files \subseteq files',
         NEW d \in Client, Path(d)
  PROVE  Path(d)'
<1> USE DEF PlaceInv, StepInv, TypeInv, EntryInv, SessionOK
<1>1. UNCHANGED clientVars
  BY HandleMoves
<1>2. CASE d # c
  <2>1. /\ c2s'[d] = c2s[d] /\ clientName'[d] = clientName[d] /\ curNo'[d] = curNo[d]
        /\ curDir'[d] = curDir[d]
    BY <1>2, HandleMoves
  <2> QED
    BY <1>1, <2>1, PathUnmoved DEF Serving, clientVars
<1>3. CASE d = c /\ HangUp(c)
  <2>1. curDir'[c] = <<>> /\ ~Serving(c)'
    BY <1>3 DEF HangUp, ServerOK, Serving, clientVars
  <2> QED
    BY <1>3, <2>1 DEF Path
<1>4. CASE d = c /\ ~HangUp(c)
  <2>1. c2s[c] # <<>> /\ SessionMoves(c)
    BY <1>4, HandleSession
  <2>2. CASE UNCHANGED <<clientName, curDir, curNo>>
    BY <1>1, <1>4, <2>1, <2>2, PathUnmoved DEF Serving, clientVars
  <2>3. ASSUME NEW u \in User, NEW r \in NamedRows(u, u),
               clientName' = [clientName EXCEPT ![c] = u],
               curDir' = [curDir EXCEPT ![c] = <<u>>],
               curNo' = [curNo EXCEPT ![c] = r.no]
        PROVE  Path(c)'
    <3>1. clientName'[c] = u /\ curDir'[c] = <<u>> /\ curNo'[c] = r.no
      BY <2>3 DEF ServerOK
    <3>2. r \in files' /\ r.owner = u /\ r.fileName = u
      BY <2>3 DEF NamedRows
    <3>3. \A i \in DOMAIN curDir'[c] : curDir'[c][i] = u
      BY <3>1
    <3> QED
      BY <3>1, <3>2, <3>3 DEF Path, NamedRows, Stands
  <2>4. ASSUME clientName[c] \in User, NEW n \in FileName, NEW r \in NamedRows(clientName[c], n),
               curDir' = [curDir EXCEPT ![c] = Append(@, n)],
               curNo' = [curNo EXCEPT ![c] = r.no], UNCHANGED clientName
        PROVE  Path(c)'
    <3>1. /\ curDir'[c] = Append(curDir[c], n) /\ curNo'[c] = r.no /\ clientName'[c] = clientName[c]
          /\ curDir[c] \in Seq(FileName)
      BY <2>4 DEF ServerOK
    <3>2. r \in files' /\ r.owner = clientName[c] /\ r.fileName = n
      BY <2>4 DEF NamedRows
    <3>3. \A i \in DOMAIN curDir'[c] : (i \in DOMAIN curDir[c] /\ curDir'[c][i] = curDir[c][i]) \/ curDir'[c][i] = n
      BY <3>1, AppendProperties, LenProperties
    <3>4. Stands(clientName[c], curNo[c])'
      BY <3>1, <3>2 DEF Stands
    <3>5. ASSUME NEW i \in DOMAIN curDir'[c] PROVE NamedRows(clientName[c], curDir[c][i])' # {}
      BY <1>4, <3>1, <3>2, <3>3 DEF Path, NamedRows
    <3> QED
      BY <3>4, <3>5 DEF Path
  <2>5. ASSUME clientName[c] \in User, UNCHANGED clientName,
               curDir' = [curDir EXCEPT ![c] = UpOf(curDir[c])],
               \/ UNCHANGED curNo
               \/ \E n \in FileName : \E r \in NamedRows(clientName[c], n) : curNo' = [curNo EXCEPT ![c] = r.no]
        PROVE  Path(c)'
    <3>1. curDir'[c] = UpOf(curDir[c]) /\ curDir[c] \in Seq(FileName) /\ clientName'[c] = clientName[c]
      BY <2>5 DEF ServerOK
    <3>2. Serving(c) /\ curDir[c] # <<>>
      BY <2>1, <2>5, SessionAssumption DEF Placed, Serving
    <3>3. \A i \in DOMAIN curDir'[c] : i \in DOMAIN curDir[c] /\ curDir'[c][i] = curDir[c][i]
      BY <3>1, <3>2, UpDir
    <3>4. \E r \in files : r.owner = clientName[c] /\ curNo'[c] = r.no
      BY <1>4, <2>5, <3>2 DEF Path, Stands, NamedRows, ServerOK
    <3> QED
      BY <1>4, <3>1, <3>3, <3>4 DEF Path, NamedRows, Stands
  <2> QED
    BY <1>4, <2>1, <2>2, <2>3, <2>4, <2>5 DEF SessionMoves
<1> QED
  BY <1>2, <1>3, <1>4

\* Every step keeps them.
LEMMA PathStep ==
  ASSUME SessionAssumption, PlaceInv, PathInv, [Next]_vars
  PROVE  PathInv'
<1> USE DEF PlaceInv, StepInv, TypeInv
<1>1. SUFFICES ASSUME ~removed', NEW d \in Client PROVE Path(d)'
  BY DEF PathInv
<1>2. ~removed /\ files \subseteq files' /\ Path(d)
  BY <1>1, RowsStay DEF PathInv
<1>3. ASSUME NEW c \in Client, ClientStep(c) PROVE Path(d)'
  BY <1>2, <1>3, ClientKeepsSession, PathUnmoved
<1>4. ASSUME NEW c \in Client, Handle(c) PROVE Path(d)'
  BY <1>2, <1>4, PathHandle
<1>5. ASSUME NEW u \in uploads, StoreUpload(u) PROVE Path(d)'
  BY <1>2, <1>5, PathUnmoved DEF StoreUpload, Serving, serverVars, clientVars
<1>6. CASE UNCHANGED vars
  BY <1>2, <1>6, PathUnmoved DEF vars, Serving, serverVars, clientVars
<1> QED
  BY <1>3, <1>4, <1>5, <1>6 DEF Next

-----------------------------------------------------------------------------
(* The server *)

\* The invariant of the server's death.
DiesInv == PlaceInv /\ PathInv /\ DiesOnlyOf

\* A handler kills the server by a second send to a client that has gone, or in
\* cd .. from a path that has lost a row (cmd_handle_server.c:205-213).
LEMMA HandleDies ==
  ASSUME SessionAssumption, PlaceInv, PathInv, NEW c \in Client, Handle(c), crashed'
  PROVE  removed \/ status[c] = "gone"
<1> USE DEF PlaceInv, StepInv, TypeInv, EntryInv, SessionOK
<1>0. ~crashed
  BY DEF Handle, SignIn, LogIn, Malformed, Pwd, Mkdir, Ls, Cd, CdUp, Rm, HangUp, Request
<1>1. SUFFICES ASSUME ~removed, status[c] # "gone" PROVE FALSE
  OBVIOUS
<1>2. CASE CdUp(c)
  <2>1. clientName[c] \in User /\ Serving(c)
    BY <1>1, <1>2, OfUser, SessionAssumption DEF CdUp, Request, EntryOps, Serving
  <2>2. curDir[c] # <<>> /\ curDir[c] \in Seq(FileName)
    BY <2>1 DEF Placed, ServerOK
  <2> DEFINE up == UpOf(curDir[c])
  <2>3. Len(up) \in DOMAIN curDir[c] /\ up[Len(up)] = curDir[c][Len(up)]
    BY <2>2, UpDir
  <2>4. ParentRows(c, up) # {}
    BY <1>1, <2>3 DEF PathInv, Path, ParentRows
  <2>5. ASSUME NEW s, Reply(c, s) PROVE UNCHANGED crashed
    BY <1>1, <2>5 DEF Reply
  <2>6. UNCHANGED crashed
    BY <1>2, <2>4, <2>5 DEF CdUp, UpOf
  <2> QED
    BY <1>0, <2>6
<1>3. CASE \E s : Reply(c, s)
  BY <1>0, <1>1, <1>3 DEF Reply
<1>4. CASE HangUp(c)
  BY <1>0, <1>4 DEF HangUp
<1> QED
  BY <1>2, <1>3, <1>4, HandleAnswers

\* Every step keeps the invariant.
LEMMA DiesStep ==
  ASSUME SessionAssumption, DiesInv, [Next]_vars
  PROVE  DiesInv'
<1>0. PlaceInv /\ PathInv /\ DiesOnlyOf /\ EntryInv
  BY DEF DiesInv, PlaceInv, StepInv, TypeInv
<1>1. PlaceInv' /\ PathInv'
  BY <1>0, PlaceStep, PathStep
<1> SUFFICES DiesOnlyOf'
  BY <1>1 DEF DiesInv
<1>2. removed => removed'
  BY <1>0, RowsStay
<1>3. ASSUME NEW c \in Client, ClientStep(c) PROVE DiesOnlyOf'
  BY <1>0, <1>2, <1>3, ClientKeepsSession DEF DiesOnlyOf
<1>4. ASSUME NEW c \in Client, Handle(c) PROVE DiesOnlyOf'
  <2>1. UNCHANGED status
    BY <1>0, <1>4, HandleMoves DEF clientVars, EntryInv, SessionOK, PlaceInv, StepInv, TypeInv
  <2> QED
    BY <1>0, <1>2, <1>4, <2>1, HandleDies DEF DiesOnlyOf
<1>5. ASSUME NEW u \in uploads, StoreUpload(u) PROVE DiesOnlyOf'
  BY <1>0, <1>5 DEF StoreUpload, DiesOnlyOf, clientVars, auxVars
<1>6. CASE UNCHANGED vars
  BY <1>0, <1>6 DEF vars, DiesOnlyOf, clientVars, auxVars
<1> QED
  BY <1>3, <1>4, <1>5, <1>6 DEF Next

\* Before the first connection the server lives.
LEMMA DiesInit ==
  ASSUME SessionAssumption, Init
  PROVE  DiesInv
<1>1. PlaceInv
  BY PlaceInit
<1> QED
  BY <1>1 DEF DiesInv, PathInv, Path, Serving, DiesOnlyOf, Init

(***************************************************************************)
(* The main thread dies only of a client that has gone in the middle of a  *)
(* reply or of something that has been removed: without either,            *)
(* atoi(row[0]) of cd .. (cmd_handle_server.c:205-213) always has a row,   *)
(* although only the name of the parent is looked up.                      *)
(***************************************************************************)
THEOREM ServerSurvives == Spec => []DiesOnlyOf
<1>1. Init => DiesInv
  BY DiesInit, SessionAssumption
<1>2. DiesInv /\ [Next]_vars => DiesInv'
  BY DiesStep, SessionAssumption
<1>3. DiesInv => DiesOnlyOf
  BY DEF DiesInv
<1> QED
  BY <1>1, <1>2, <1>3, PTL DEF Spec

-----------------------------------------------------------------------------
(* The forest *)

\* Until something is removed or a cd fails, an entry and an upload under way
\* are in an entry of the same owner.
Grounded ==
  ~removed /\ (\A c \in Client : ~missed[c]) =>
    /\ \A r \in files : r.preNo # -1 => Stands(r.owner, r.preNo)
    /\ \A u \in uploads : Stands(u.owner, u.preNo)

\* The invariant of the forest.
ForestInv == PlaceInv /\ PathInv /\ Grounded

\* A cd that has failed stays failed.
LEMMA MissedStays ==
  ASSUME EntryInv, s2c \in [Client -> Seq(Sent)], [Next]_vars, NEW c \in Client, missed[c]
  PROVE  missed'[c]
<1>1. ASSUME NEW d \in Client, ClientStep(d) PROVE missed' = missed
  BY <1>1, ClientKeepsSession
<1>2. ASSUME NEW d \in Client, Handle(d) PROVE missed'[c]
  <2>1. (missed[d] => missed'[d]) /\ (c # d => missed'[c] = missed[c])
    BY <1>2, HandleMoves DEF EntryInv, SessionOK
  <2> QED
    BY <2>1
<1>3. ASSUME NEW u \in uploads, StoreUpload(u) PROVE missed' = missed
  BY <1>3 DEF StoreUpload, auxVars
<1>4. UNCHANGED vars => missed' = missed
  BY DEF vars, auxVars
<1> QED
  BY <1>1, <1>2, <1>3, <1>4 DEF Next

\* Every step keeps entries and uploads in entries: a client that is in step
\* names the server's directory, which has a row.
LEMMA GroundedStep ==
  ASSUME SessionAssumption, ForestInv, [Next]_vars
  PROVE  Grounded'
<1>0. /\ PlaceInv /\ StepInv /\ TypeInv /\ EntryInv /\ s2c \in [Client -> Seq(Sent)]
      /\ PathInv /\ Grounded
  BY DEF ForestInv, PlaceInv, StepInv, TypeInv
<1>1. SUFFICES ASSUME ~removed', \A c \in Client : ~missed'[c]
               PROVE  /\ \A r \in files' : r.preNo # -1 => Stands(r.owner, r.preNo)'
                      /\ \A u \in uploads' : Stands(u.owner, u.preNo)'
  BY DEF Grounded, Stands
<1>2. ~removed /\ files \subseteq files' /\ \A c \in Client : ~missed[c]
  BY <1>0, <1>1, RowsStay, MissedStays
<1>3. /\ \A r \in files : r.preNo # -1 => Stands(r.owner, r.preNo)
      /\ \A u \in uploads : Stands(u.owner, u.preNo)
  BY <1>0, <1>2 DEF Grounded
<1>4. \A u, n : Stands(u, n) => Stands(u, n)'
  BY <1>2 DEF Stands
<1>5. ASSUME NEW r \in files', r.preNo # -1 PROVE Stands(r.owner, r.preNo)
  <2>1. CASE r \in files
    BY <1>3, <1>5, <2>1
  <2>2. ASSUME NEW c \in Client, RowsOfSignin(c) PROVE r \in files
    BY <1>5, <2>2 DEF RowsOfSignin, InsertRoot, InsertRow
  <2>3. ASSUME NEW c \in Client, RowsOfMkdir(c), r \notin files PROVE Stands(r.owner, r.preNo)
    <3>1. r.owner = clientName[c] /\ r.preNo = curNo[c]
      BY <2>3 DEF RowsOfMkdir, InsertEntry, InsertRow
    <3>2. Serving(c)
      BY <2>3, SessionAssumption DEF RowsOfMkdir, Serving
    <3> QED
      BY <1>0, <1>2, <3>1, <3>2 DEF PathInv, Path
  <2>4. ASSUME NEW c \in Client, RowsOfRm(c) PROVE r \in files
    BY <2>4 DEF RowsOfRm
  <2>5. ASSUME RowsOfPut, r \notin files PROVE Stands(r.owner, r.preNo)
    BY <1>3, <2>5 DEF RowsOfPut, InsertEntry, InsertRow
  <2>6. UNCHANGED tableVars => r \in files
    BY DEF tableVars
  <2> QED
    BY <1>0, <2>1, <2>2, <2>3, <2>4, <2>5, <2>6, RowChangesNext
<1>6. ASSUME NEW u \in uploads' PROVE Stands(u.owner, u.preNo)
  <2>1. CASE u \in uploads
    BY <1>3, <2>1
  <2>2. CASE u \notin uploads
    <3>1. PICK c \in Client, n \in FileName : Put(c, n)
      <4>1. ASSUME NEW c \in Client, ClientStep(c), ~\E n \in FileName : Put(c, n) PROVE UNCHANGED uploads
        BY <4>1 DEF ClientStep, Connect, Hello, Send, Read, ReadReply, TakeReply, LoseTrack, Quit
      <4>2. ASSUME NEW c \in Client, Handle(c) PROVE UNCHANGED uploads
        BY <1>0, <4>2, HandleMoves DEF EntryInv, SessionOK
      <4>3. ASSUME NEW w \in uploads, StoreUpload(w) PROVE uploads' \subseteq uploads
        BY <4>3 DEF StoreUpload
      <4> QED
        BY <2>2, <4>1, <4>2, <4>3 DEF Next, vars
    <3>2. /\ status[c] = "up" /\ isLogin[c] /\ asked[c] = None
          /\ u.owner = userName[c] /\ u.preNo = preDirNo[c]
      <4>1. status[c] # "garbled"
        BY <1>0, <1>2 DEF StepInv, Steady
      <4> QED
        BY <2>2, <3>1, <4>1 DEF Put, AtPrompt
    <3>3. preDirNo[c] = curNo[c] /\ userName[c] = clientName[c] /\ clientName[c] # None
      BY <1>0, <1>2, <3>2 DEF StepInv, Steady, Knows, EntryInv, Entry
    <3> QED
      BY <1>0, <1>2, <3>2, <3>3 DEF PathInv, Path, Serving
  <2> QED
    BY <2>1, <2>2
<1> QED
  BY <1>4, <1>5, <1>6

\* Every step keeps the forest.
LEMMA ForestStep ==
  ASSUME SessionAssumption, ForestInv, [Next]_vars
  PROVE  ForestInv'
<1>1. Grounded'
  BY GroundedStep
<1>2. PlaceInv' /\ PathInv'
  BY PlaceStep, PathStep DEF ForestInv
<1> QED
  BY <1>1, <1>2 DEF ForestInv

\* Before the first connection the table is empty.
LEMMA ForestInit ==
  ASSUME SessionAssumption, Init
  PROVE  ForestInv
<1>1. DiesInv
  BY DiesInit
<1>2. files = {} /\ uploads = {}
  BY DEF Init, TableInit
<1> QED
  BY <1>1, <1>2 DEF ForestInv, DiesInv, Grounded

\* The invariant implies Forest.
LEMMA ForestHolds ==
  ASSUME ForestInv
  PROVE  Forest
<1>1. ASSUME ~removed, NEW c \in Client, isLogin[c], status[c] # "gone"
      PROVE  Stands(userName[c], curNo[c])
  <2>1. clientName[c] = userName[c] /\ Serving(c)
    BY <1>1 DEF ForestInv, PlaceInv, StepInv, TypeInv, EntryInv, Entry, Serving
  <2> QED
    BY <1>1, <2>1 DEF ForestInv, PathInv, Path
<1> QED
  BY <1>1 DEF ForestInv, Grounded, Forest

(***************************************************************************)
(* Until something is removed or a cd fails, files_info is a forest: every *)
(* entry that mkdir (cmd_handle_server.c:154) or a put                     *)
(* (work_factory.c:66-80) inserts is in an entry of its owner, and so is   *)
(* every session, although the numbers come from the clients and no        *)
(* foreign key constrains them.                                            *)
(***************************************************************************)
THEOREM TableIsForest == Spec => []Forest
<1>1. Init => ForestInv
  BY ForestInit, SessionAssumption
<1>2. ForestInv /\ [Next]_vars => ForestInv'
  BY ForestStep, SessionAssumption
<1>3. ForestInv => Forest
  BY ForestHolds
<1> QED
  BY <1>1, <1>2, <1>3, PTL DEF Spec
=============================================================================
