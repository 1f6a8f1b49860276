------------------------------ MODULE FtpSession ------------------------------
(***************************************************************************)
(* A command session: the Linux client (src/ftp_client/ftp_client.c,       *)
(* cmd_handle.c) sends one command at a time over its own connection, the  *)
(* main thread of the server (src/ftp_server/ftp_server.c:95-122) handles  *)
(* it (cmd_handle_server.c) and sends a reply. The workers of the server   *)
(* add the rows of uploaded files in their own time.                       *)
(*                                                                         *)
(* The reply stream carries no message boundaries. Each send of the server *)
(* is one token, [kind, payload]: a "flag" (one character), a "len" (the   *)
(* length of the string after it), a "str", a "no" (a number in four       *)
(* bytes) or "rows" (the list of ls). A client that reads one kind where   *)
(* the server has sent another splits the bytes in the wrong place: it is  *)
(* then "garbled" and what it reads from there on is arbitrary.            *)
(***************************************************************************)
EXTENDS FileTable, Sequences

CONSTANTS
  Clients,   \* how many clients connect; the server has room for 100
  None,      \* no command, no user
  PathMax,   \* bound: the components of clients[c].curDir, a char[20]
  MaxNo,     \* bound: no new rows are asked for above this number
  MaxQueued, \* bound: the commands on a connection
  MaxUnread, \* bound: the sends of the server that are unread at the prompt
  MaxUploads,\* bound: the uploads under way at one time
  Typed      \* bound: the commands that users type

ASSUME SessionAssumption ==
  /\ Clients \in 0 .. 100
  /\ None \notin User

\* A client is named by the index of its connection in clients[].
Client == 0 .. Clients - 1

VARIABLES
  clientIdx,  \* the connections accepted so far
  clientName, curDir, curNo,  \* the fields of clients[c]
  c2s, s2c,   \* the two directions of each connection
  status,     \* of each client process: "new", "greet", "up", "garbled" or "gone"
  asked,      \* the command whose reply the client waits for, or None
  isLogin, userName, preDirNo,  \* the client's local variables
  uploads,    \* the rows the workers are yet to insert
  crashed,    \* the server process has been killed
  missed,     \* auxiliary: a cd of the client has failed
  removed     \* auxiliary: some rm has removed a row

serverVars == <<clientIdx, clientName, curDir, curNo>>
clientVars == <<status, asked, isLogin, userName, preDirNo>>
auxVars == <<missed, removed>>
vars == <<tableVars, serverVars, c2s, s2c, clientVars, uploads, crashed, auxVars>>

Init ==
  /\ TableInit
  /\ clientIdx = 0
  /\ clientName = [c \in Client |-> None]
  /\ curDir = [c \in Client |-> <<>>]
  /\ curNo = [c \in Client |-> -1]
  /\ c2s = [c \in Client |-> <<>>]
  /\ s2c = [c \in Client |-> <<>>]
  /\ status = [c \in Client |-> "new"]
  /\ asked = [c \in Client |-> None]
  /\ isLogin = [c \in Client |-> FALSE]
  /\ userName = [c \in Client |-> None]
  /\ preDirNo = [c \in Client |-> 0]
  /\ uploads = {}
  /\ crashed = FALSE
  /\ missed = [c \in Client |-> FALSE]
  /\ removed = FALSE

-----------------------------------------------------------------------------
(* The commands a user can type.  "badLogin" and "badSignin" have no @.    *)

CdOps == {"cd.", "cd..", "cd"}

EntryCommand ==
  [op : {"login", "signin"}, user : User, pw : Password]
    \cup [op : {"badLogin", "badSignin"}]

\* rm carries the directory number that the client believes it is in.
FileCommand(c) ==
  [op : {"pwd", "ls", "cd.", "cd.."}]
    \cup [op : {"mkdir", "cd"}, name : FileName]
    \cup [op : {"rm"}, name : FileName,
          no : IF status[c] = "garbled" THEN -1 .. MaxNo ELSE {preDirNo[c]}]

\* The inputs are cut off where a counter would outgrow its bound.
InBounds(c, m) ==
  /\ m.op \in Typed
  /\ Len(c2s[c]) < MaxQueued
  /\ Len(s2c[c]) <= MaxUnread
  /\ m.op \in {"signin", "mkdir"} => nextNo <= MaxNo
  /\ m.op = "cd" => Len(curDir[c]) + Len(c2s[c]) < PathMax

-----------------------------------------------------------------------------
(* The client. *)

\* The main thread accepts a connection and waits for its first message; it
\* does nothing else until that has come.
Greeting == \E c \in Client : status[c] = "greet"

\* Connections take the slots of clients[] in the order they are accepted.
Connect(c) ==
  /\ ~crashed /\ ~Greeting
  /\ c = clientIdx
  /\ status[c] = "new"
  /\ status' = [status EXCEPT ![c] = "greet"]
  /\ UNCHANGED <<tableVars, serverVars, c2s, s2c, asked, isLogin,
                 userName, preDirNo, uploads, crashed, auxVars>>

\* The client sends "n" and is registered, or it is killed before it has and
\* the main thread gets nothing: another client can take the slot.
Hello(c) ==
  /\ ~crashed
  /\ status[c] = "greet"
  /\ \/ /\ status' = [status EXCEPT ![c] = "up"]
        /\ clientIdx' = clientIdx + 1
     \/ /\ status' = [status EXCEPT ![c] = "new"]
        /\ UNCHANGED clientIdx
  /\ UNCHANGED <<tableVars, clientName, curDir, curNo, c2s, s2c, asked, isLogin,
                 userName, preDirNo, uploads, crashed, auxVars>>

AtPrompt(c) == status[c] \in {"up", "garbled"} /\ asked[c] = None /\ ~crashed

\* Mutant of Allowed: the client does not wait for a login.
AllowedAnyTime(c, m) == TRUE

\* Only login and signin are sent before a login has succeeded, and no
\* second login after it.
Allowed(c, m) ==
  IF isLogin[c] THEN m.op \notin {"login", "badLogin"}
                ELSE m.op \in {"login", "badLogin", "signin", "badSignin"}

Send(c, m) ==
  /\ AtPrompt(c)
  /\ Allowed(c, m)
  /\ InBounds(c, m)
  /\ c2s' = [c2s EXCEPT ![c] = Append(@, m)]
  /\ asked' = [asked EXCEPT ![c] = IF status[c] = "up" THEN m ELSE None]
  /\ UNCHANGED <<tableVars, serverVars, s2c, status, isLogin, userName, preDirNo,
                 uploads, crashed, auxVars>>

\* put: a thread of the client sends the file over a connection of its own.
Put(c, n) ==
  /\ AtPrompt(c)
  /\ isLogin[c]
  /\ "put" \in Typed /\ nextNo <= MaxNo /\ Cardinality(uploads) < MaxUploads
  /\ \E p \in IF status[c] = "garbled" THEN -1 .. MaxNo ELSE {preDirNo[c]} :
       uploads' = uploads \cup {[owner |-> userName[c], preNo |-> p, fileName |-> n]}
  /\ UNCHANGED <<tableVars, serverVars, c2s, s2c, clientVars, crashed, auxVars>>

Token(kind, payload) == [kind |-> kind, payload |-> payload]
Flag(x) == Token("flag", x)
IsFlag(t, x) == t.kind = "flag" /\ t.payload = x

\* Mutant of Needs: the client does not read the number after a cd.
NeedsNoNumber(m, t) ==
  IF m.op = "pwd" THEN <<"len", "str">>
  ELSE IF m.op \in CdOps \cup {"login"} /\ IsFlag(t, "1") THEN <<"flag", "len", "str">>
  ELSE IF m.op = "ls" /\ IsFlag(t, "Y") THEN <<"flag", "rows">>
  ELSE <<"flag">>

\* What the client reads for command m when the next token is t.
Needs(m, t) ==
  CASE m.op = "pwd"                      -> <<"len", "str">>
    [] m.op = "login" /\ IsFlag(t, "1")  -> <<"flag", "len", "str">>
    [] m.op = "ls" /\ IsFlag(t, "Y")     -> <<"flag", "rows">>
    [] m.op \in CdOps /\ IsFlag(t, "1")  -> <<"flag", "len", "str", "no">>
    [] OTHER                             -> <<"flag">>

Agree(s, kinds) ==
  \A i \in 1 .. Len(kinds) : i <= Len(s) => s[i].kind = kinds[i]

\* The reply the client waits for has come; its last token is the number of a
\* directory if the command is one of dirOps and was accepted.
TakeReply(c, dirOps) ==
  LET m == asked[c]
      s == s2c[c]
      need == Needs(m, Head(s))
      accepted == IsFlag(s[1], "1")
  IN /\ status[c] = "up"
     /\ m # None
     /\ s # <<>>
     /\ Len(s) >= Len(need)
     /\ Agree(s, need)
     /\ s2c' = [s2c EXCEPT ![c] = SubSeq(s, Len(need) + 1, Len(s))]
     /\ asked' = [asked EXCEPT ![c] = None]
     /\ IF m.op = "login" /\ accepted
          THEN /\ isLogin' = [isLogin EXCEPT ![c] = TRUE]
               /\ userName' = [userName EXCEPT ![c] = m.user]
          ELSE UNCHANGED <<isLogin, userName>>
     /\ preDirNo' = IF m.op \in dirOps /\ accepted
                      THEN [preDirNo EXCEPT ![c] = s[Len(need)].payload]
                      ELSE preDirNo
     /\ UNCHANGED <<tableVars, serverVars, c2s, status, uploads, crashed, auxVars>>

ReadReply(c) == TakeReply(c, CdOps \cup {"login"})

Misled(c) ==
  /\ status[c] = "up"
  /\ asked[c] # None
  /\ s2c[c] # <<>>
  /\ ~Agree(s2c[c], Needs(asked[c], Head(s2c[c])))

LoseTrack(c) ==
  /\ Misled(c)
  /\ status' = [status EXCEPT ![c] = "garbled"]
  /\ asked' = [asked EXCEPT ![c] = None]
  /\ s2c' = [s2c EXCEPT ![c] = <<>>]
  /\ UNCHANGED <<tableVars, serverVars, c2s, isLogin, userName, preDirNo, uploads,
                 crashed, auxVars>>

\* The user kills the client.  If it had not read everything, its kernel
\* resets the connection and what the server had not read is lost.
Quit(c) ==
  /\ status[c] \in {"up", "garbled"}
  /\ status' = [status EXCEPT ![c] = "gone"]
  /\ asked' = [asked EXCEPT ![c] = None]
  /\ s2c' = [s2c EXCEPT ![c] = <<>>]
  /\ \/ UNCHANGED c2s
     \/ s2c[c] # <<>> /\ c2s' = [c2s EXCEPT ![c] = <<>>]
  /\ UNCHANGED <<tableVars, serverVars, isLogin, userName, preDirNo, uploads,
                 crashed, auxVars>>

-----------------------------------------------------------------------------
(* The main thread of the server. *)

\* The command that the main thread has read from connection c.
Request(c, ops) ==
  ~crashed /\ ~Greeting /\ c2s[c] # <<>> /\ Head(c2s[c]).op \in ops

\* The handler's sends.  The second send to a client that has gone raises
\* SIGPIPE, which nothing catches.
Reply(c, tokens) ==
  /\ c2s' = [c2s EXCEPT ![c] = Tail(@)]
  /\ \/ /\ s2c' = [s2c EXCEPT ![c] = IF status[c] = "up" THEN @ \o tokens ELSE @]
        /\ UNCHANGED crashed
     \/ /\ status[c] = "gone"
        /\ Len(tokens) > 1
        /\ crashed' = TRUE
        /\ UNCHANGED s2c
  /\ UNCHANGED <<clientIdx, clientVars, uploads>>

SessionUnchanged == UNCHANGED <<clientName, curDir, curNo>>

isUserNameExist(u) == account[u] # NoAccount

\* A name that is taken is refused; the result of the two INSERTs is not
\* looked at.
SignIn(c) ==
  /\ Request(c, {"signin"})
  /\ LET m == Head(c2s[c]) IN
       IF isUserNameExist(m.user)
         THEN Reply(c, <<Flag("0")>>) /\ UNCHANGED tableVars
         ELSE /\ account' = [account EXCEPT ![m.user] = m.pw]
              /\ InsertRoot(m.user, c)
              /\ Reply(c, <<Flag("1")>>)
  /\ SessionUnchanged /\ UNCHANGED auxVars

\* The join of user_info with the rows that carry the user's own name; the
\* first row decides.
LogIn(c) ==
  /\ Request(c, {"login"})
  /\ LET m == Head(c2s[c])
         rows == NamedRows(m.user, m.user)
     IN \/ /\ account[m.user] = NoAccount \/ rows = {}
           /\ Reply(c, <<Flag("2")>>)
           /\ SessionUnchanged
        \/ /\ account[m.user] \notin {NoAccount, m.pw}
           /\ rows # {}
           /\ Reply(c, <<Flag("0")>>)
           /\ SessionUnchanged
        \/ /\ account[m.user] = m.pw
           /\ \E r \in rows :
                /\ clientName' = [clientName EXCEPT ![c] = m.user]
                /\ curDir' = [curDir EXCEPT ![c] = <<m.user>>]
                /\ curNo' = [curNo EXCEPT ![c] = r.no]
                /\ Reply(c, <<Flag("1"), Token("len", None), Token("str", r.no)>>)
  /\ UNCHANGED <<tableVars, auxVars>>

\* Without an @, signin answers "2" and login answers nothing at all.
Malformed(c) ==
  /\ \/ Request(c, {"badSignin"}) /\ Reply(c, <<Flag("2")>>)
     \/ Request(c, {"badLogin"}) /\ Reply(c, <<>>)
  /\ SessionUnchanged /\ UNCHANGED <<tableVars, auxVars>>

\* Mutant of Pwd: the length of the path is not sent.
PwdNoLength(c) ==
  /\ Request(c, {"pwd"})
  /\ Reply(c, <<Token("str", None)>>)
  /\ SessionUnchanged /\ UNCHANGED <<tableVars, auxVars>>

Pwd(c) ==
  /\ Request(c, {"pwd"})
  /\ Reply(c, <<Token("len", None), Token("str", None)>>)
  /\ SessionUnchanged /\ UNCHANGED <<tableVars, auxVars>>

Mkdir(c) ==
  /\ Request(c, {"mkdir"})
  /\ LET n == Head(c2s[c]).name IN
       IF EntryRows(clientName[c], curNo[c], n) # {}
         THEN Reply(c, <<Flag("0")>>) /\ UNCHANGED tableVars
         ELSE /\ InsertEntry(clientName[c], curNo[c], n, 0)
              /\ Reply(c, <<Flag("1")>>)
              /\ UNCHANGED account
  /\ SessionUnchanged /\ UNCHANGED auxVars

Ls(c) ==
  /\ Request(c, {"ls"})
  /\ IF EntriesOf(clientName[c], curNo[c]) # {}
       THEN Reply(c, <<Flag("Y"), Token("rows", None)>>)
       ELSE Reply(c, <<Flag("N")>>)
  /\ SessionUnchanged /\ UNCHANGED <<tableVars, auxVars>>

\* Mutants of CdDot: the last send is missing; a number that was never set is
\* sent.
CdDotShort(no) == <<Flag("1"), Token("len", None), Token("str", None)>>
CdDotZero(no) == <<Flag("1"), Token("len", None), Token("str", None), Token("no", 0)>>

\* The label cdDot: what every cd ends with, a failed one too.
CdDot(no) == <<Flag("1"), Token("len", None), Token("str", None), Token("no", no)>>

Cd(c) ==
  /\ Request(c, {"cd", "cd."})
  /\ LET m == Head(c2s[c])
         rows == NamedRows(clientName[c], m.name)
     IN \/ /\ m.op = "cd."
           /\ Reply(c, CdDot(curNo[c]))
           /\ SessionUnchanged /\ UNCHANGED missed
        \/ /\ m.op = "cd"
           /\ rows = {}
           /\ Reply(c, <<Flag("0")>> \o CdDot(curNo[c]))
           /\ missed' = [missed EXCEPT ![c] = TRUE]
           /\ SessionUnchanged
        \/ /\ m.op = "cd"
           /\ \E r \in rows :
                /\ curDir' = [curDir EXCEPT ![c] = Append(@, m.name)]
                /\ curNo' = [curNo EXCEPT ![c] = r.no]
                /\ Reply(c, CdDot(r.no))
           /\ UNCHANGED <<clientName, missed>>
  /\ UNCHANGED <<tableVars, removed>>

\* Mutant of ParentRows: the parent is looked for in the current directory.
ParentInCurrent(c, path) == EntryRows(clientName[c], curNo[c], path[Len(path)])

\* where fileName = the last component of the path and owner = the user
ParentRows(c, path) == NamedRows(clientName[c], path[Len(path)])

\* cd .. looks the parent up by its name; atoi(row[0]) of no row faults.
CdUp(c) ==
  /\ Request(c, {"cd.."})
  /\ LET dir == curDir[c]
         up == IF Len(dir) > 1 THEN SubSeq(dir, 1, Len(dir) - 1) ELSE dir
         rows == ParentRows(c, up)
     IN /\ curDir' = [curDir EXCEPT ![c] = up]
        /\ \/ \E r \in rows :
                /\ curNo' = [curNo EXCEPT ![c] = r.no]
                /\ Reply(c, CdDot(r.no))
           \/ /\ rows = {}
              /\ crashed' = TRUE
              /\ UNCHANGED <<curNo, c2s, s2c, clientIdx, clientVars, uploads>>
  /\ UNCHANGED <<tableVars, clientName, auxVars>>

\* rm deletes every row of the name in the directory the client names.
Rm(c) ==
  /\ Request(c, {"rm"})
  /\ LET m == Head(c2s[c])
         rows == EntryRows(clientName[c], m.no, m.name)
     IN /\ files' = files \ rows
        /\ removed' = (removed \/ rows # {})
        /\ Reply(c, <<Flag(IF rows # {} THEN "1" ELSE "0")>>)
  /\ SessionUnchanged /\ UNCHANGED <<account, nextNo, missed>>

\* recv returns 0: the slot is cleared and never used again.
HangUp(c) ==
  /\ ~crashed /\ ~Greeting
  /\ status[c] = "gone"
  /\ c2s[c] = <<>>
  /\ curNo' = [curNo EXCEPT ![c] = -1]
  /\ curDir' = [curDir EXCEPT ![c] = <<>>]
  /\ UNCHANGED <<tableVars, clientIdx, clientName, c2s, s2c, clientVars, uploads,
                 crashed, auxVars>>

\* A worker finishes an upload: it inserts the row without looking for one
\* of the same name, or it does not because the user already has this
\* content in this directory.
StoreUpload(u) ==
  /\ ~crashed
  /\ uploads' = uploads \ {u}
  /\ \/ InsertEntry(u.owner, u.preNo, u.fileName, 1)
     \/ UNCHANGED <<files, nextNo>>
  /\ UNCHANGED <<account, serverVars, c2s, s2c, clientVars, crashed, auxVars>>

-----------------------------------------------------------------------------
Handle(c) ==
  \/ SignIn(c) \/ LogIn(c) \/ Malformed(c) \/ Pwd(c) \/ Mkdir(c) \/ Ls(c)
  \/ Cd(c) \/ CdUp(c) \/ Rm(c) \/ HangUp(c)

Read(c) == ReadReply(c) \/ LoseTrack(c)

ClientStep(c) ==
  \/ Connect(c) \/ Hello(c)
  \/ \E m \in EntryCommand : Send(c, m)
  \/ \E m \in FileCommand(c) : Send(c, m)
  \/ \E n \in FileName : Put(c, n)
  \/ Read(c)
  \/ Quit(c)

Next ==
  \/ \E c \in Client : ClientStep(c) \/ Handle(c)
  \/ \E u \in uploads : StoreUpload(u)

Spec == Init /\ [][Next]_vars

-----------------------------------------------------------------------------
No == Nat \cup {-1}

\* What the server sends, token by token.
Sent ==
  [kind : {"flag"}, payload : {"0", "1", "2", "Y", "N"}]
    \cup [kind : {"len", "rows"}, payload : {None}]
    \cup [kind : {"str"}, payload : No \cup {None}]
    \cup [kind : {"no"}, payload : No]

Commands ==
  EntryCommand \cup [op : {"pwd", "ls", "cd.", "cd.."}]
    \cup [op : {"mkdir", "cd"}, name : FileName]
    \cup [op : {"rm"}, name : FileName, no : No]

ASSUME CommandAssumption == None \notin Commands

\* The tables, the server and the clients keep to their types.
TablesOK ==
  /\ account \in [User -> Password \cup {NoAccount}]
  /\ files \subseteq Row
  /\ nextNo \in Nat

ServerOK ==
  /\ clientIdx \in 0 .. Clients
  /\ clientName \in [Client -> User \cup {None}]
  /\ curDir \in [Client -> Seq(FileName)]
  /\ curNo \in [Client -> No]
  /\ uploads \subseteq [owner : User, preNo : No, fileName : FileName]
  /\ crashed \in BOOLEAN
  /\ missed \in [Client -> BOOLEAN]
  /\ removed \in BOOLEAN

ClientsOK ==
  /\ c2s \in [Client -> Seq(Commands)]
  /\ status \in [Client -> {"new", "greet", "up", "garbled", "gone"}]
  /\ asked \in [Client -> Commands \cup {None}]
  /\ isLogin \in [Client -> BOOLEAN]
  /\ userName \in [Client -> User \cup {None}]
  /\ preDirNo \in [Client -> No]

TypeOK == TablesOK /\ ServerOK /\ ClientsOK /\ s2c \in [Client -> Seq(Sent)]

(***************************************************************************)
(* The two ends agree on who is logged in: the server, which checks no     *)
(* login before a command, never runs one from an entry of clients[] that  *)
(* a login has not filled in, and runs it for the user the client shows.   *)
(***************************************************************************)
SameUser ==
  \A c \in Client :
    /\ isLogin[c] => clientName[c] = userName[c] /\ userName[c] # None
    /\ \A i \in DOMAIN c2s[c] :
         c2s[c][i].op \notin {"login", "badLogin", "signin", "badSignin"} =>
           isLogin[c]

(***************************************************************************)
(* A session that has not failed a cd is in step: when the user is at the  *)
(* prompt nothing is on its way, and the directory number the client will  *)
(* send with the next put or rm is the server's current directory.         *)
(***************************************************************************)
InStep ==
  \A c \in Client :
    status[c] = "up" /\ asked[c] = None /\ ~missed[c] =>
      /\ c2s[c] = <<>> /\ s2c[c] = <<>>
      /\ isLogin[c] => preDirNo[c] = curNo[c]

\* A client loses track of the replies only after a failed cd.
GarbledByCd == \A c \in Client : status[c] = "garbled" => missed[c]

(***************************************************************************)
(* mkdir looks before it inserts and signin refuses a name that is taken,  *)
(* so whatever the sessions of a user do at the same time, no two of the   *)
(* user's directories have the same name and parent.                       *)
(***************************************************************************)
UniqueDirs ==
  \A q, r \in files :
    /\ q.fileType = 0 /\ r.fileType = 0
    /\ q.owner = r.owner /\ q.preNo = r.preNo /\ q.fileName = r.fileName
    => q = r

(***************************************************************************)
(* Until something is removed or a cd fails, the table is a forest and     *)
(* everything happens inside it: an entry and an upload under way are in   *)
(* an entry of the same owner, and so is every session.                    *)
(***************************************************************************)
Stands(u, no) == \E r \in files : r.owner = u /\ r.no = no

Forest ==
  ~removed /\ (\A c \in Client : ~missed[c]) =>
    /\ \A r \in files : r.preNo # -1 => Stands(r.owner, r.preNo)
    /\ \A u \in uploads : Stands(u.owner, u.preNo)
    /\ \A c \in Client :
         isLogin[c] /\ status[c] # "gone" => Stands(userName[c], curNo[c])

(***************************************************************************)
(* The server dies only of a client that has gone in the middle of a reply *)
(* or of a cd .. from a directory of which something has been removed.     *)
(***************************************************************************)
DiesOnlyOf == crashed => removed \/ \E c \in Client : status[c] = "gone"

(***************************************************************************)
(* Users are isolated: a row appears or disappears only on behalf of its   *)
(* owner, who is logged in, has just signed in, or has an upload under way.*)
(***************************************************************************)
OwnRowsOnly ==
  [][\A r \in (files \ files') \cup (files' \ files) :
       \/ \E c \in Client : isLogin[c] /\ userName[c] = r.owner
       \/ account[r.owner] = NoAccount /\ account'[r.owner] # NoAccount]_vars

(***************************************************************************)
(* A root directory outlives every rm of clients that keep track: rm names *)
(* a directory number, and no directory is a root's parent.                *)
(***************************************************************************)
RootsStay ==
  [][(\A c \in Client : ~missed[c]) =>
       {r \in files : r.preNo = -1} \subseteq files']_vars

-----------------------------------------------------------------------------
(* What the documentation and the comments promise and the code does not   *)
(* keep; each is refuted by a run of its own.                              *)

InSession(c) == isLogin[c] /\ status[c] = "up" /\ asked[c] = None

\* "Maintain the current directory" (ftp_server.c:57), "send the number of
\* the current directory" (cmd_handle_server.c:243): at the prompt the client
\* knows the number of the directory the server has it in.
ClientKnowsDir ==
  \A c \in Client : InSession(c) /\ c2s[c] = <<>> => preDirNo[c] = curNo[c]

\* "cd: supports . and .." (readme.md:14): the server survives the cd .. of a
\* client that is waiting for its reply.
SurvivesCdUp ==
  [][\A c \in Client : status[c] = "up" /\ CdUp(c) => ~crashed']_vars
=============================================================================
