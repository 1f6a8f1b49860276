---------------------------- MODULE SessionProofs ----------------------------
(***************************************************************************)
(* The command sessions of FtpSession, for any number of clients, users,   *)
(* names, passwords and directories: types, who is logged in, and when the *)
(* two ends are in step.                                                   *)
(*                                                                         *)
(* What a handler does to the connection and to the session is summarised  *)
(* once, by Answer, HandleAnswers, HandleMoves and HandleTypes; the        *)
(* invariants use these and not the handlers.                              *)
(*                                                                         *)
(* EntryInv is the invariant of the two ends until a cd fails: a client    *)
(* that has not logged in is at most one command ahead of the server, so   *)
(* the reply it reads is the reply to its command, and only a login that   *)
(* the server has accepted makes it a user. StepInv extends this to a      *)
(* client that has logged in and has not failed a cd.                      *)
(***************************************************************************)
EXTENDS FtpSession, SequenceTheorems, TLAPS

-----------------------------------------------------------------------------
(* Replies *)

\* The commands of a client that has not logged in (ftp_client.c:61-69).
EntryOps == {"login", "badLogin", "signin", "badSignin"}

\* The commands that ask for a login.
LoginOps == {"login", "badLogin"}

\* The tokens s are what a handler of cmd_handle_server.c sends in reply to
\* command m. no is the server's current directory, name its user and failed
\* whether a cd has failed, all after the handler.
Answer(m, s, no, name, failed) ==
  \/ m.op = "badLogin" /\ s = <<>>
  \/ m.op = "badSignin" /\ s = <<Flag("2")>>
  \/ m.op \in {"signin", "mkdir", "rm"} /\ s \in {<<Flag("0")>>, <<Flag("1")>>}
  \/ m.op = "login" /\ s \in {<<Flag("0")>>, <<Flag("2")>>}
  \/ /\ m.op = "login"
     /\ s = <<Flag("1"), Token("len", None), Token("str", no)>>
     /\ name = m.user
  \/ m.op = "pwd" /\ s = <<Token("len", None), Token("str", None)>>
  \/ m.op = "ls" /\ s \in {<<Flag("Y"), Token("rows", None)>>, <<Flag("N")>>}
  \/ m.op \in CdOps /\ s = CdDot(no)
  \/ m.op = "cd" /\ failed /\ s = <<Flag("0")>> \o CdDot(no)

\* What the client reads, command by command.
LEMMA NeedsOf ==
  ASSUME NEW m, NEW t
  PROVE  /\ m.op = "pwd" => Needs(m, t) = <<"len", "str">>
         /\ m.op = "login" /\ IsFlag(t, "1") => Needs(m, t) = <<"flag", "len", "str">>
         /\ m.op = "ls" /\ IsFlag(t, "Y") => Needs(m, t) = <<"flag", "rows">>
         /\ m.op \in CdOps /\ IsFlag(t, "1") => Needs(m, t) = <<"flag", "len", "str", "no">>
         /\ \/ m.op \in {"badLogin", "signin", "badSignin", "mkdir", "rm"}
            \/ m.op = "login" /\ ~IsFlag(t, "1")
            \/ m.op = "ls" /\ ~IsFlag(t, "Y")
            \/ m.op \in CdOps /\ ~IsFlag(t, "1")
            => Needs(m, t) = <<"flag">>
  BY DEF Needs, CdOps

\* The reply to a cd that fails: a "0" and then the reply to a cd that does not
\* (cmd_handle_server.c:227-244).
LEMMA FailedCd ==
  ASSUME NEW no
  PROVE  <<Flag("0")>> \o CdDot(no)
           = <<Flag("0"), Flag("1"), Token("len", None), Token("str", None), Token("no", no)>>
<1> DEFINE x == <<Flag("0")>>
           y == CdDot(no)
           z == <<Flag("0"), Flag("1"), Token("len", None), Token("str", None), Token("no", no)>>
           S == {z[i] : i \in 1 .. 5}
<1>1. /\ x \in Seq(S) /\ y \in Seq(S) /\ z \in Seq(S)
      /\ Len(x) = 1 /\ Len(y) = 4 /\ Len(z) = 5
  BY DEF CdDot
<1>2. \A i \in 1 .. 5 : IF i <= 1 THEN x[i] = z[i] ELSE y[i - 1] = z[i]
  BY DEF CdDot
<1> HIDE DEF S, x, y, z
<1>3. /\ x \o y \in Seq(S) /\ Len(x \o y) = Len(x) + Len(y)
      /\ \A i \in 1 .. Len(x) + Len(y) : (x \o y)[i] = IF i <= Len(x) THEN x[i] ELSE y[i - Len(x)]
  BY <1>1, ConcatProperties
<1>4. x \o y = z
  BY <1>1, <1>2, <1>3, SeqEqual
<1> QED
  BY <1>4 DEF x, y, z

\* The client reads the reply to its command token by token, and all of it
\* unless the reply is that of a failed cd; a number of a directory that it
\* reads is the server's.
LEMMA AnswerFits ==
  ASSUME NEW m, NEW s, NEW no, NEW name, NEW failed, Answer(m, s, no, name, failed), s # <<>>,
         NEW need, need = Needs(m, Head(s))
  PROVE  /\ Agree(s, need)
         /\ Len(need) \in 1 .. Len(s)
         /\ m.op # "cd" \/ ~failed => Len(need) = Len(s)
         /\ m.op \in CdOps \cup {"login"} /\ IsFlag(s[1], "1") => s[Len(need)].payload = no
<1>1. CASE m.op = "pwd"
  <2>1. s = <<Token("len", None), Token("str", None)>>
    BY <1>1 DEF Answer, CdOps
  <2>2. need = <<"len", "str">>
    BY <1>1, NeedsOf
  <2>3. Agree(s, need) /\ Len(need) = 2 /\ Len(s) = 2
    BY <2>1, <2>2 DEF Agree, Token
  <2> QED
    BY <2>3, <1>1 DEF CdOps
<1>2. CASE m.op = "login"
  <2>1. CASE s = <<Flag("1"), Token("len", None), Token("str", no)>>
    <3>1. need = <<"flag", "len", "str">>
      BY <2>1, <1>2, NeedsOf DEF IsFlag, Flag, Token
    <3>2. Agree(s, need) /\ Len(need) = 3 /\ Len(s) = 3 /\ s[3].payload = no
      BY <2>1, <3>1 DEF Agree, Token, Flag
    <3>3. s[Len(need)].payload = no
      BY <3>2, Zenon
    <3> QED
      BY <3>2, <3>3 DEF IsFlag
  <2>2. CASE s \in {<<Flag("0")>>, <<Flag("2")>>}
    <3>1. need = <<"flag">>
      BY <2>2, <1>2, NeedsOf DEF IsFlag, Flag, Token
    <3>2. Agree(s, need) /\ Len(need) = 1 /\ Len(s) = 1 /\ s[1].payload # "1"
      BY <2>2, <3>1 DEF Agree, Token, Flag, IsFlag
    <3> QED
      BY <3>2 DEF IsFlag
  <2> QED
    BY <1>2, <2>1, <2>2 DEF Answer, CdOps
<1>3. CASE m.op = "ls"
  <2>1. CASE s = <<Flag("Y"), Token("rows", None)>>
    <3>1. need = <<"flag", "rows">>
      BY <2>1, <1>3, NeedsOf DEF IsFlag, Flag, Token
    <3>2. Agree(s, need) /\ Len(need) = 2 /\ Len(s) = 2
      BY <2>1, <3>1 DEF Agree, Token, Flag
    <3> QED
      BY <3>2, <1>3 DEF CdOps
  <2>2. CASE s = <<Flag("N")>>
    <3>1. need = <<"flag">>
      BY <2>2, <1>3, NeedsOf DEF IsFlag, Flag, Token
    <3>2. Agree(s, need) /\ Len(need) = 1 /\ Len(s) = 1
      BY <2>2, <3>1 DEF Agree, Token, Flag
    <3> QED
      BY <3>2, <1>3 DEF CdOps
  <2> QED
    BY <1>3, <2>1, <2>2 DEF Answer, CdOps
<1>4. CASE m.op \in CdOps
  <2>1. CASE s = CdDot(no)
    <3>1. need = <<"flag", "len", "str", "no">>
      BY <2>1, <1>4, NeedsOf DEF CdDot, IsFlag, Flag, Token
    <3>2. Agree(s, need) /\ Len(need) = 4 /\ Len(s) = 4 /\ s[4].payload = no
      BY <2>1, <3>1 DEF CdDot, Agree, Token, Flag
    <3>3. s[Len(need)].payload = no
      BY <3>2, Zenon
    <3> QED
      BY <3>2, <3>3 DEF IsFlag
  <2>2. CASE m.op = "cd" /\ failed /\ s = <<Flag("0")>> \o CdDot(no)
    <3>1. s = <<Flag("0"), Flag("1"), Token("len", None), Token("str", None), Token("no", no)>>
      BY <2>2, FailedCd
    <3>2. need = <<"flag">>
      BY <3>1, <1>4, NeedsOf DEF IsFlag, Flag, Token
    <3>3. Agree(s, need) /\ Len(need) = 1 /\ Len(s) = 5 /\ s[1].payload # "1"
      BY <3>1, <3>2 DEF Agree, Token, Flag, IsFlag
    <3> QED
      BY <3>3, <2>2 DEF IsFlag
  <2> QED
    BY <1>4, <2>1, <2>2 DEF Answer, CdOps
<1>5. CASE m.op \in {"signin", "mkdir", "rm", "badSignin"}
  <2>1. s \in {<<Flag("0")>>, <<Flag("1")>>, <<Flag("2")>>}
    BY <1>5 DEF Answer, CdOps
  <2>2. need = <<"flag">>
    BY <1>5, NeedsOf
  <2>3. Agree(s, need) /\ Len(need) = 1 /\ Len(s) = 1
    BY <2>1, <2>2 DEF Agree, Token, Flag
  <2> QED
    BY <2>3, <1>5 DEF CdOps
<1> QED
  BY <1>1, <1>2, <1>3, <1>4, <1>5 DEF Answer, CdOps

\* What a handler sends are tokens of the protocol.
LEMMA AnswerSent ==
  ASSUME NEW m, NEW s, NEW no, NEW name, NEW failed, Answer(m, s, no, name, failed), no \in No
  PROVE  s \in Seq(Sent)
<1>1. /\ \A x \in {"0", "1", "2", "Y", "N"} : Flag(x) \in Sent
      /\ Token("len", None) \in Sent /\ Token("rows", None) \in Sent
      /\ Token("str", None) \in Sent /\ Token("str", no) \in Sent /\ Token("no", no) \in Sent
  BY DEF Sent, Flag, Token
<1>2. Flag("0") \in Sent /\ Flag("1") \in Sent /\ Flag("2") \in Sent /\ Flag("Y") \in Sent /\ Flag("N") \in Sent
  BY <1>1
<1>3. <<Flag("0"), Flag("1"), Token("len", None), Token("str", None), Token("no", no)>> \in Seq(Sent)
  BY <1>1, <1>2
<1>4. CdDot(no) \in Seq(Sent)
  BY <1>1, <1>2 DEF CdDot
<1>5. /\ <<Flag("1"), Token("len", None), Token("str", no)>> \in Seq(Sent)
      /\ <<Token("len", None), Token("str", None)>> \in Seq(Sent)
      /\ <<Flag("Y"), Token("rows", None)>> \in Seq(Sent)
      /\ <<>> \in Seq(Sent)
  BY <1>1, <1>2
<1>6. <<Flag("0")>> \in Seq(Sent) /\ <<Flag("1")>> \in Seq(Sent) /\ <<Flag("2")>> \in Seq(Sent) /\ <<Flag("N")>> \in Seq(Sent)
  BY <1>2
<1> QED
  BY <1>3, <1>4, <1>5, <1>6, FailedCd DEF Answer

-----------------------------------------------------------------------------
(* Handlers *)

\* The types but for the tokens on their way, which the Windows clients tear.
SessionOK == TablesOK /\ ServerOK /\ ClientsOK

\* A handler replies to the command it has read with an Answer, unless the
\* client has hung up or the server dies in cd ..
\* (cmd_handle_server.c:198-219).
LEMMA HandleAnswers ==
  ASSUME ServerOK, ClientsOK, NEW c \in Client, Handle(c)
  PROVE  \/ HangUp(c)
         \/ CdUp(c) /\ crashed' /\ UNCHANGED <<c2s, s2c, clientName, curNo, missed>>
         \/ /\ c2s[c] # <<>>
            /\ \E s : /\ Reply(c, s)
                     /\ Answer(Head(c2s[c]), s, curNo'[c], clientName'[c], missed'[c])
<1> USE DEF Answer, Request
<1>1. CASE SignIn(c)
  BY <1>1 DEF SignIn
<1>2. CASE LogIn(c)
  BY <1>2 DEF LogIn, ServerOK, SessionUnchanged
<1>3. CASE Malformed(c)
  BY <1>3 DEF Malformed
<1>4. CASE Pwd(c)
  BY <1>4 DEF Pwd
<1>5. CASE Mkdir(c)
  BY <1>5 DEF Mkdir
<1>6. CASE Ls(c)
  BY <1>6 DEF Ls
<1>7. CASE Cd(c)
  BY <1>7 DEF Cd, CdOps, SessionUnchanged, ServerOK
<1>8. CASE CdUp(c)
  BY <1>8 DEF CdUp, CdOps, ServerOK, auxVars
<1>9. CASE Rm(c)
  BY <1>9 DEF Rm
<1> QED
  BY <1>1, <1>2, <1>3, <1>4, <1>5, <1>6, <1>7, <1>8, <1>9 DEF Handle

\* A handler touches nothing of a client but its replies, and the session of
\* one connection only; only a login changes the user of a session, only login
\* and cd its directory, and only a cd can fail.
LEMMA HandleMoves ==
  ASSUME ServerOK, ClientsOK, DOMAIN s2c = Client, s2c = [d \in Client |-> s2c[d]],
         NEW c \in Client, Handle(c)
  PROVE  /\ UNCHANGED <<clientIdx, clientVars, uploads>>
         /\ \A d \in Client : d # c =>
              /\ c2s'[d] = c2s[d] /\ s2c'[d] = s2c[d]
              /\ clientName'[d] = clientName[d] /\ curNo'[d] = curNo[d]
              /\ curDir'[d] = curDir[d] /\ missed'[d] = missed[d]
         /\ missed[c] => missed'[c]
         /\ \/ HangUp(c)
            \/ /\ clientName'[c] # clientName[c] => Head(c2s[c]).op = "login"
               /\ curNo'[c] # curNo[c] => Head(c2s[c]).op \in CdOps \cup {"login"}
               /\ missed'[c] # missed[c] => Head(c2s[c]).op = "cd"
<1> USE DEF Request, Reply, SessionUnchanged, clientVars, auxVars, ServerOK, ClientsOK
<1>1. CASE SignIn(c)
  BY <1>1 DEF SignIn
<1>2. CASE LogIn(c)
  BY <1>2 DEF LogIn
<1>3. CASE Malformed(c)
  BY <1>3 DEF Malformed
<1>4. CASE Pwd(c)
  BY <1>4 DEF Pwd
<1>5. CASE Mkdir(c)
  BY <1>5 DEF Mkdir
<1>6. CASE Ls(c)
  BY <1>6 DEF Ls
<1>7. CASE Cd(c)
  BY <1>7 DEF Cd, CdOps
<1>8. CASE CdUp(c)
  BY <1>8 DEF CdUp, CdOps
<1>9. CASE Rm(c)
  BY <1>9 DEF Rm
<1>10. CASE HangUp(c)
  BY <1>10 DEF HangUp
<1> QED
  BY <1>1, <1>2, <1>3, <1>4, <1>5, <1>6, <1>7, <1>8, <1>9, <1>10 DEF Handle

\* The fields of a command.
LEMMA CommandFields ==
  ASSUME NEW m \in Commands
  PROVE  /\ m.op \in {"login", "signin"} => m.user \in User /\ m.pw \in Password
         /\ m.op \in {"mkdir", "cd", "rm"} => m.name \in FileName
         /\ m.op = "rm" => m.no \in No
         /\ m.op \in LoginOps \cup EntryOps \cup {"pwd", "ls", "mkdir", "rm"} \cup CdOps
  BY DEF Commands, EntryCommand, LoginOps, EntryOps, CdOps

\* An INSERT adds one row or none.
LEMMA InsertTypes ==
  ASSUME TablesOK, NEW r \in Row, InsertRow(r)
  PROVE  files' \subseteq Row /\ nextNo' \in Nat /\ files \subseteq files' /\ files' \subseteq files \cup {r}
  BY DEF TablesOK, InsertRow, Row

\* A handler keeps the types; mkdir needs a user for its row
\* (cmd_handle_server.c:143), which the login has left.
LEMMA HandleTypes ==
  ASSUME SessionAssumption, SessionOK, NEW c \in Client, Handle(c),
         c2s[c] # <<>> /\ Head(c2s[c]).op = "mkdir" => clientName[c] \in User
  PROVE  SessionOK'
<1> USE DEF SessionOK
<1>1. ClientsOK'
  <2>1. UNCHANGED clientVars
    BY DEF Handle, SignIn, LogIn, Malformed, Pwd, Mkdir, Ls, Cd, CdUp, Rm, HangUp, Reply, clientVars
  <2>2. c2s' = c2s \/ (c2s[c] # <<>> /\ c2s' = [c2s EXCEPT ![c] = Tail(@)])
    BY DEF Handle, SignIn, LogIn, Malformed, Pwd, Mkdir, Ls, Cd, CdUp, Rm, HangUp, Reply, Request
  <2>3. c2s' \in [Client -> Seq(Commands)]
    <3>1. c2s[c] # <<>> => Tail(c2s[c]) \in Seq(Commands)
      BY HeadTailProperties DEF ClientsOK
    <3> QED
      BY <2>2, <3>1 DEF ClientsOK
  <2> QED
    BY <2>1, <2>3 DEF ClientsOK, clientVars
<1>2. c2s[c] # <<>> => Head(c2s[c]) \in Commands
  BY HeadTailProperties DEF ClientsOK
<1> DEFINE m == Head(c2s[c])
<1>3. TablesOK'
  <2>1. CASE SignIn(c)
    <3>1. m \in Commands /\ m.user \in User /\ m.pw \in Password
      BY <2>1, <1>2, CommandFields DEF SignIn, Request
    <3>2. CASE UNCHANGED tableVars
      BY <3>2 DEF tableVars, TablesOK
    <3>3. CASE account' = [account EXCEPT ![m.user] = m.pw] /\ InsertRoot(m.user, c)
      <4>1. [preNo |-> -1, no |-> IF c = 0 THEN nextNo ELSE c,
             fileName |-> m.user, owner |-> m.user, fileType |-> 0] \in Row
        BY <3>1, SessionAssumption DEF Row, TablesOK, FileName, Client
      <4>2. files' \subseteq Row /\ nextNo' \in Nat
        BY <4>1, <3>3, InsertTypes DEF InsertRoot
      <4> QED
        BY <4>2, <3>3, <3>1 DEF TablesOK
    <3> QED
      BY <2>1, <3>2, <3>3 DEF SignIn
  <2>2. CASE Mkdir(c)
    <3>1. m \in Commands /\ m.name \in FileName
      BY <2>2, <1>2, CommandFields DEF Mkdir, Request
    <3>2. CASE UNCHANGED tableVars
      BY <3>2 DEF tableVars, TablesOK
    <3>3. CASE InsertEntry(clientName[c], curNo[c], m.name, 0) /\ UNCHANGED account
      <4>1. curNo[c] \in No /\ nextNo \in Nat /\ clientName[c] \in User
        BY <2>2 DEF TablesOK, ServerOK, Mkdir, Request
      <4>2. [preNo |-> curNo[c], no |-> nextNo, fileName |-> m.name,
             owner |-> clientName[c], fileType |-> 0] \in Row
        BY <4>1, <3>1 DEF Row, No
      <4> QED
        BY <4>2, <3>3, InsertTypes DEF TablesOK, InsertEntry
    <3> QED
      BY <2>2, <3>2, <3>3 DEF Mkdir
  <2>3. CASE Rm(c)
    BY <2>3 DEF Rm, TablesOK
  <2>4. CASE UNCHANGED tableVars
    BY <2>4 DEF tableVars, TablesOK
  <2> QED
    BY <2>1, <2>2, <2>3, <2>4 DEF Handle, LogIn, Malformed, Pwd, Ls, Cd, CdUp, HangUp
<1>4. ServerOK'
  <2>1. CASE LogIn(c)
    <3>1. m \in Commands /\ m.user \in User
      BY <2>1, <1>2, CommandFields DEF LogIn, Request
    <3>2. \A r \in NamedRows(m.user, m.user) : r.no \in No
      BY DEF NamedRows, TablesOK, Row, No
    <3>3. UNCHANGED <<clientIdx, uploads, missed, removed>> /\ crashed' \in BOOLEAN
      BY <2>1 DEF LogIn, Reply, auxVars, ServerOK
    <3>4. CASE SessionUnchanged
      BY <3>3, <3>4 DEF SessionUnchanged, ServerOK
    <3>5. CASE \E r \in NamedRows(m.user, m.user) :
                /\ clientName' = [clientName EXCEPT ![c] = m.user]
                /\ curDir' = [curDir EXCEPT ![c] = <<m.user>>]
                /\ curNo' = [curNo EXCEPT ![c] = r.no]
      <4>1. <<m.user>> \in Seq(FileName)
        BY <3>1 DEF FileName
      <4> QED
        BY <3>1, <3>2, <3>3, <3>5, <4>1 DEF ServerOK
    <3> QED
      BY <2>1, <3>4, <3>5 DEF LogIn
  <2>2. CASE Cd(c)
    <3>1. UNCHANGED <<clientIdx, uploads, removed, clientName>> /\ crashed' \in BOOLEAN
             /\ missed' \in [Client -> BOOLEAN]
      BY <2>2 DEF Cd, Reply, SessionUnchanged, ServerOK
    <3>2. CASE SessionUnchanged
      BY <3>1, <3>2 DEF SessionUnchanged, ServerOK
    <3>3. CASE /\ m.op = "cd"
               /\ \E r \in NamedRows(clientName[c], m.name) :
                /\ curDir' = [curDir EXCEPT ![c] = Append(@, m.name)]
                /\ curNo' = [curNo EXCEPT ![c] = r.no]
      <4>1. m.name \in FileName
        BY <2>2, <3>3, <1>2, CommandFields DEF Cd, Request
      <4>2. \A r \in NamedRows(clientName[c], m.name) : r.no \in No
        BY DEF NamedRows, TablesOK, Row, No
      <4>3. curDir' \in [Client -> Seq(FileName)]
        BY <4>1, <3>3, AppendProperties DEF ServerOK
      <4> QED
        BY <3>1, <3>3, <4>2, <4>3 DEF ServerOK
    <3> QED
      BY <2>2, <3>2, <3>3 DEF Cd
  <2>3. CASE CdUp(c)
    <3>1. UNCHANGED <<clientIdx, uploads, missed, removed, clientName>> /\ crashed' \in BOOLEAN
      BY <2>3 DEF CdUp, Reply, auxVars, ServerOK
    <3>2. PICK up : /\ up = IF Len(curDir[c]) > 1 THEN SubSeq(curDir[c], 1, Len(curDir[c]) - 1) ELSE curDir[c]
                    /\ curDir' = [curDir EXCEPT ![c] = up]
      BY <2>3 DEF CdUp
    <3>3. up \in Seq(FileName)
      <4>1. curDir[c] \in Seq(FileName) /\ Len(curDir[c]) \in Nat
        BY LenProperties DEF ServerOK
      <4>2. \A i \in 1 .. Len(curDir[c]) - 1 : curDir[c][i] \in FileName
        BY <4>1, ElementOfSeq
      <4> QED
        BY <3>2, <4>1, <4>2, SubSeqProperties
    <3>4. curNo' \in [Client -> No]
      <4>1. \A n \in FileName : \A r \in NamedRows(clientName[c], n) : r.no \in No
        BY DEF NamedRows, TablesOK, Row, No
      <4> QED
        BY <2>3, <4>1 DEF CdUp, ParentRows, ServerOK, NamedRows, TablesOK, Row, No
    <3> QED
      BY <3>1, <3>2, <3>3, <3>4 DEF ServerOK
  <2>4. CASE Rm(c)
    <3>1. UNCHANGED <<clientIdx, clientName, curDir, curNo, uploads, missed>> /\ crashed' \in BOOLEAN
      BY <2>4 DEF Rm, Reply, SessionUnchanged, ServerOK
    <3>2. removed' \in BOOLEAN
      BY <2>4, Zenon DEF Rm, ServerOK
    <3> QED
      BY <3>1, <3>2 DEF ServerOK
  <2>5. CASE HangUp(c)
    BY <2>5, EmptySeq DEF HangUp, ServerOK, auxVars, No
  <2>6. CASE SignIn(c) \/ Malformed(c) \/ Pwd(c) \/ Mkdir(c) \/ Ls(c)
    BY <2>6 DEF SignIn, Malformed, Pwd, Mkdir, Ls, Reply, SessionUnchanged, auxVars, ServerOK
  <2> QED
    BY <2>1, <2>2, <2>3, <2>4, <2>5, <2>6 DEF Handle
<1> QED
  BY <1>1, <1>3, <1>4

-----------------------------------------------------------------------------
(* Logins *)

\* The connection of a client that asks and waits: nothing is on its way, or
\* its command is, or the whole reply is.
Talking(c) ==
  \/ asked[c] = None /\ c2s[c] = <<>> /\ s2c[c] = <<>>
  \/ asked[c] # None /\ c2s[c] = <<asked[c]>> /\ s2c[c] = <<>>
  \/ /\ asked[c] # None /\ c2s[c] = <<>>
     /\ Answer(asked[c], s2c[c], curNo[c], clientName[c], missed[c])

\* A reply takes the command off the connection and puts its tokens behind
\* those that are there.
LEMMA ReplyAppends ==
  ASSUME ServerOK', ClientsOK, NEW S, Sent \subseteq S, s2c \in [Client -> Seq(S)],
         NEW c \in Client, NEW s, Reply(c, s), NEW m,
         Answer(m, s, curNo'[c], clientName'[c], missed'[c])
  PROVE  /\ s2c' \in [Client -> Seq(S)]
         /\ c2s'[c] = Tail(c2s[c])
         /\ status[c] = "up" => s2c'[c] = s2c[c] \o s
<1>1. curNo'[c] \in No
  BY DEF ServerOK
<1>2. s \in Seq(Sent)
  BY <1>1, AnswerSent
<1>3. s2c[c] \o s \in Seq(S)
  BY <1>2, SeqMonotonic, ConcatProperties
<1> QED
  BY <1>3 DEF Reply, ClientsOK

\* Every handler sends tokens.
LEMMA HandleStream ==
  ASSUME ServerOK, ClientsOK, ServerOK', NEW S, Sent \subseteq S, s2c \in [Client -> Seq(S)],
         NEW c \in Client, Handle(c)
  PROVE  s2c' \in [Client -> Seq(S)]
<1>1. CASE UNCHANGED s2c
  BY <1>1
<1>2. CASE \E s : /\ Reply(c, s)
                  /\ Answer(Head(c2s[c]), s, curNo'[c], clientName'[c], missed'[c])
  BY <1>2, ReplyAppends
<1> QED
  BY <1>1, <1>2, HandleAnswers DEF HangUp

\* A handler answers the command that is on its way and sends nothing else.
LEMMA TalkingHandle ==
  ASSUME ServerOK, ClientsOK, ServerOK', NEW S, Sent \subseteq S, s2c \in [Client -> Seq(S)],
         NEW c \in Client, Handle(c), NEW d \in Client, Talking(d), status[d] = "up"
  PROVE  Talking(d)'
<1>1. asked'[d] = asked[d]
  BY HandleMoves DEF clientVars
<1>2. CASE d # c
  BY <1>1, <1>2, HandleMoves DEF Talking
<1>3. CASE d = c /\ UNCHANGED <<c2s, s2c, clientName, curNo, missed>>
  BY <1>1, <1>3 DEF Talking
<1>4. ASSUME d = c, c2s[c] # <<>>, NEW s, Reply(c, s),
             Answer(Head(c2s[c]), s, curNo'[c], clientName'[c], missed'[c])
      PROVE  Talking(d)'
  <2>1. asked[c] # None /\ c2s[c] = <<asked[c]>> /\ s2c[c] = <<>>
    BY <1>4 DEF Talking
  <2>2. Head(c2s[c]) = asked[c] /\ Tail(c2s[c]) = <<>>
    BY <2>1
  <2>3. c2s'[c] = <<>> /\ s2c'[c] = s2c[c] \o s
    BY <1>4, <2>2, ReplyAppends
  <2>4. s \in Seq(Sent)
    BY <1>4, AnswerSent DEF ServerOK
  <2>5. s2c'[c] = s
    BY <2>1, <2>3, <2>4, ConcatEmptySeq
  <2> QED
    BY <1>1, <1>4, <2>1, <2>2, <2>3, <2>5 DEF Talking
<1>5. ~HangUp(d)
  BY DEF HangUp
<1> QED
  BY <1>2, <1>3, <1>4, <1>5, HandleAnswers

\* A client that has not logged in asks and waits, with login and signin only.
\* One that has is a user of the same name at the server, and no login is on
\* its way that could change it.
Entry(c) ==
  /\ status[c] \in {"new", "greet"} =>
       asked[c] = None /\ c2s[c] = <<>> /\ s2c[c] = <<>> /\ ~isLogin[c]
  /\ isLogin[c] =>
       /\ clientName[c] = userName[c] /\ userName[c] # None
       /\ asked[c] # None => asked[c].op \notin LoginOps
       /\ \A i \in DOMAIN c2s[c] : c2s[c][i].op \notin LoginOps
  /\ ~isLogin[c] =>
       /\ ~missed[c] /\ status[c] # "garbled"
       /\ asked[c] # None => asked[c].op \in EntryOps
       /\ \A i \in DOMAIN c2s[c] : c2s[c][i].op \in EntryOps
       /\ status[c] = "up" => Talking(c)

\* No handler breaks that: before the client is logged in, only the reply to
\* its own login fills in the entry of clients[] (cmd_handle_server.c:50-62).
LEMMA EntryHandle ==
  ASSUME ServerOK, ClientsOK, ServerOK', NEW S, Sent \subseteq S, s2c \in [Client -> Seq(S)],
         NEW c \in Client, Handle(c), NEW d \in Client, Entry(d)
  PROVE  Entry(d)'
<1>1. UNCHANGED clientVars
  BY HandleMoves
<1>2. CASE d # c
  BY <1>1, <1>2, HandleMoves DEF Entry, Talking, clientVars
<1>3. CASE d = c /\ UNCHANGED <<c2s, s2c, clientName, missed>>
  <2>1. status[d] = "up" /\ Talking(d) => Talking(d)'
    BY TalkingHandle
  <2> QED
    BY <1>1, <1>3, <2>1 DEF Entry, clientVars
<1>4. ASSUME d = c, c2s[c] # <<>>, NEW s, Reply(c, s),
             Answer(Head(c2s[c]), s, curNo'[c], clientName'[c], missed'[c])
      PROVE  Entry(d)'
  <2>1. status[d] = "up" /\ Talking(d) => Talking(d)'
    BY TalkingHandle
  <2>2. /\ c2s[c] \in Seq(Commands) /\ Len(c2s[c]) \in Nat \ {0}
        /\ c2s'[c] = Tail(c2s[c])
    BY <1>4, EmptySeq, ReplyAppends DEF ClientsOK
  <2>3. \A i \in DOMAIN c2s'[c] : i + 1 \in DOMAIN c2s[c] /\ c2s'[c][i] = c2s[c][i + 1]
    BY <2>2, <1>4, HeadTailProperties, LenProperties
  <2>4. Head(c2s[c]) = c2s[c][1] /\ 1 \in DOMAIN c2s[c]
    BY <2>2, LenProperties
  <2>5. ~HangUp(c)
    BY <1>4 DEF HangUp
  <2>6. isLogin[c] => Head(c2s[c]).op \notin LoginOps /\ clientName'[c] = clientName[c]
    BY <2>4, <2>5, <1>4, HandleMoves DEF Entry, LoginOps
  <2>7. ~isLogin[c] => Head(c2s[c]).op \in EntryOps /\ missed'[c] = missed[c]
    BY <2>4, <2>5, <1>4, HandleMoves DEF Entry, EntryOps
  <2> QED
    BY <1>1, <1>4, <2>1, <2>3, <2>6, <2>7 DEF Entry, clientVars
<1> QED
  BY <1>2, <1>3, <1>4, HandleAnswers DEF HangUp, auxVars

\* The reply that a waiting client reads is the reply to its command.
LEMMA TalkingAnswered ==
  ASSUME NEW c \in Client, Talking(c), asked[c] # None, s2c[c] # <<>>,
         NEW need, need = Needs(asked[c], Head(s2c[c]))
  PROVE  /\ Answer(asked[c], s2c[c], curNo[c], clientName[c], missed[c])
         /\ c2s[c] = <<>>
         /\ Agree(s2c[c], need)
         /\ Len(need) \in 1 .. Len(s2c[c])
         /\ asked[c].op # "cd" \/ ~missed[c] => Len(need) = Len(s2c[c])
         /\ asked[c].op \in CdOps \cup {"login"} /\ IsFlag(s2c[c][1], "1")
              => s2c[c][Len(need)].payload = curNo[c]
<1>1. Answer(asked[c], s2c[c], curNo[c], clientName[c], missed[c]) /\ c2s[c] = <<>>
  BY DEF Talking
<1>2. /\ Agree(s2c[c], need)
      /\ Len(need) \in 1 .. Len(s2c[c])
      /\ asked[c].op # "cd" \/ ~missed[c] => Len(need) = Len(s2c[c])
      /\ asked[c].op \in CdOps \cup {"login"} /\ IsFlag(s2c[c][1], "1")
           => s2c[c][Len(need)].payload = curNo[c]
  BY <1>1, AnswerFits
<1> QED
  BY <1>1, <1>2

\* If it accepts a login, the server has that user.
LEMMA LoginAnswered ==
  ASSUME NEW c \in Client, Talking(c), asked[c] # None, s2c[c] # <<>>,
         asked[c].op = "login", IsFlag(s2c[c][1], "1")
  PROVE  clientName[c] = asked[c].user /\ c2s[c] = <<>>
<1>1. Answer(asked[c], s2c[c], curNo[c], clientName[c], missed[c]) /\ c2s[c] = <<>>
  BY DEF Talking
<1> QED
  BY <1>1 DEF Answer, CdOps, IsFlag, Flag, Token

\* A client that asks and waits reads what it expects.
LEMMA NotMisled ==
  ASSUME NEW c \in Client, Talking(c)
  PROVE  ~Misled(c)
  BY TalkingAnswered DEF Misled

\* A client that reads a reply is logged in as the user it asked for.
LEMMA EntryRead ==
  ASSUME SessionAssumption, ClientsOK, ServerOK, NEW S, s2c \in [Client -> Seq(S)],
         NEW c \in Client, NEW dirOps, TakeReply(c, dirOps),
         NEW d \in Client, Entry(d)
  PROVE  Entry(d)'
<1>1. UNCHANGED <<c2s, status, clientName, missed>>
  BY DEF TakeReply, serverVars, auxVars
<1>2. CASE d # c
  <2>1. /\ asked'[d] = asked[d] /\ isLogin'[d] = isLogin[d] /\ userName'[d] = userName[d]
        /\ s2c'[d] = s2c[d] /\ curNo'[d] = curNo[d]
    BY <1>2 DEF TakeReply, ClientsOK, serverVars
  <2> QED
    BY <1>1, <2>1 DEF Entry, Talking
<1>3. CASE d = c
  <2>1. /\ status[c] = "up" /\ asked[c] # None /\ s2c[c] # <<>>
        /\ asked'[c] = None
    BY DEF TakeReply, ClientsOK
  <2>2. asked[c] \in Commands
    BY <2>1 DEF ClientsOK
  <2>3. CASE isLogin[c]
    <3>1. asked[c].op # "login"
      BY <2>1, <2>3, <1>3 DEF Entry, LoginOps
    <3>2. UNCHANGED <<isLogin, userName>>
      BY <3>1 DEF TakeReply
    <3> QED
      BY <1>1, <1>3, <2>1, <2>3, <3>2 DEF Entry
  <2>4. CASE ~isLogin[c]
    <3>1. Talking(c) /\ ~missed[c]
      BY <2>1, <2>4, <1>3 DEF Entry
    <3>2. CASE asked[c].op = "login" /\ IsFlag(s2c[c][1], "1")
      <4>1. clientName[c] = asked[c].user /\ c2s[c] = <<>>
        BY <2>1, <3>1, <3>2, LoginAnswered
      <4>2. isLogin'[c] = TRUE /\ userName'[c] = asked[c].user
        BY <3>2 DEF TakeReply, ClientsOK
      <4>3. asked[c].user # None
        BY <2>2, <3>2, CommandFields DEF SessionAssumption
      <4> QED
        BY <1>1, <1>3, <2>1, <4>1, <4>2, <4>3 DEF Entry
    <3>3. CASE ~(asked[c].op = "login" /\ IsFlag(s2c[c][1], "1"))
      <4>1. UNCHANGED <<isLogin, userName>>
        BY <3>3 DEF TakeReply
      <4> DEFINE need == Needs(asked[c], Head(s2c[c]))
      <4>2. Len(need) = Len(s2c[c]) /\ c2s[c] = <<>> /\ Len(need) \in 1 .. Len(s2c[c])
        BY <2>1, <3>1, TalkingAnswered
      <4>3. s2c'[c] = <<>>
        <5>1. s2c'[c] = SubSeq(s2c[c], Len(need) + 1, Len(s2c[c]))
          BY DEF TakeReply
        <5> QED
          BY <5>1, <4>2, SubSeqEmpty
      <4> QED
        BY <1>1, <1>3, <2>1, <2>4, <4>1, <4>2, <4>3 DEF Entry, Talking
    <3> QED
      BY <3>2, <3>3
  <2> QED
    BY <2>3, <2>4 DEF ClientsOK
<1> QED
  BY <1>2, <1>3

\* Reading keeps the types: a number that is read is that of a directory.
LEMMA ReadTypes ==
  ASSUME SessionAssumption, ServerOK, ClientsOK, NEW S, \A t \in S : t.kind = "no" => t.payload \in No,
         s2c \in [Client -> Seq(S)],
         NEW c \in Client, Entry(c),
         NEW dirOps \in SUBSET (CdOps \cup {"login"}), TakeReply(c, dirOps)
  PROVE  ServerOK' /\ ClientsOK' /\ s2c' \in [Client -> Seq(S)]
<1> DEFINE m == asked[c]
           s == s2c[c]
           need == Needs(m, Head(s))
<1>1. status[c] = "up" /\ m \in Commands /\ s \in Seq(S) /\ s # <<>> /\ Agree(s, need) /\ Len(s) >= Len(need)
  BY DEF TakeReply, ClientsOK
<1>2. ServerOK'
  BY DEF TakeReply, ServerOK, serverVars, auxVars
<1>3. s2c' \in [Client -> Seq(S)]
  <2>1. Len(need) \in {1, 2, 3, 4}
    BY <1>1, CommandFields, NeedsOf DEF EntryOps, LoginOps
  <2>2. SubSeq(s, Len(need) + 1, Len(s)) \in Seq(S)
    BY <1>1, <2>1, SubSeqProperties, LenProperties, ElementOfSeq
  <2> QED
    BY <2>2 DEF TakeReply
<1>4. preDirNo' \in [Client -> No]
  <2>1. CASE m.op \in CdOps /\ IsFlag(s[1], "1")
    <3>1. Head(s) = s[1]
      BY <1>1
    <3>2. need = <<"flag", "len", "str", "no">>
      BY <2>1, <3>1, NeedsOf
    <3>3. Len(need) = 4 /\ need[4] = "no"
      BY <3>2
    <3>4. Len(s) \in Nat /\ Len(s) >= 4 /\ s[4].kind = "no"
      BY <1>1, <3>3, LenProperties DEF Agree
    <3>5. s[4].payload \in No
      BY <1>1, <3>4, ElementOfSeq
    <3>6. preDirNo' = [preDirNo EXCEPT ![c] = s[4].payload] \/ preDirNo' = preDirNo
      BY <3>3 DEF TakeReply
    <3> QED
      BY <3>5, <3>6 DEF ClientsOK
  <2>2. CASE m.op = "login" /\ IsFlag(s[1], "1")
    <3>1. Talking(c)
      BY <1>1, <2>2, CommandAssumption DEF Entry, LoginOps
    <3>2. s[Len(need)].payload = curNo[c]
      BY <1>1, <2>2, <3>1, CommandAssumption, TalkingAnswered
    <3>3. preDirNo' = [preDirNo EXCEPT ![c] = s[Len(need)].payload] \/ preDirNo' = preDirNo
      BY DEF TakeReply
    <3> QED
      BY <3>2, <3>3 DEF ClientsOK, ServerOK
  <2>3. CASE ~(m.op \in CdOps \cup {"login"} /\ IsFlag(s[1], "1"))
    BY <2>3 DEF TakeReply, ClientsOK
  <2> QED
    BY <2>1, <2>2, <2>3
<1>5. asked' \in [Client -> Commands \cup {None}] /\ isLogin' \in [Client -> BOOLEAN]
        /\ userName' \in [Client -> User \cup {None}]
  BY <1>1, CommandFields DEF TakeReply, ClientsOK
<1> QED
  BY <1>2, <1>3, <1>4, <1>5 DEF TakeReply, ClientsOK

\* What a user can type are commands, and without a login only those of
\* EntryOps are allowed.
LEMMA CommandsTyped ==
  ASSUME ClientsOK, NEW c \in Client, NEW m \in EntryCommand \cup FileCommand(c)
  PROVE  m \in Commands /\ (m.op \in EntryOps => m \in EntryCommand)
  BY DEF FileCommand, Commands, EntryCommand, EntryOps, ClientsOK, No

\* Sending a command keeps the types.
LEMMA SendTypes ==
  ASSUME ServerOK, ClientsOK, NEW S, s2c \in [Client -> Seq(S)],
         NEW c \in Client, NEW m \in EntryCommand \cup FileCommand(c), Send(c, m)
  PROVE  ServerOK' /\ ClientsOK' /\ s2c' \in [Client -> Seq(S)]
<1>1. m \in Commands
  BY CommandsTyped
<1>2. Append(c2s[c], m) \in Seq(Commands)
  BY <1>1, AppendProperties DEF ClientsOK
<1> QED
  BY <1>1, <1>2 DEF Send, ServerOK, ClientsOK, serverVars, auxVars

\* A client sends what its login allows (ftp_client.c:61-69), when it has read
\* the last reply.
LEMMA EntrySend ==
  ASSUME ServerOK, ClientsOK, NEW S, s2c \in [Client -> Seq(S)],
         NEW c \in Client, NEW m \in EntryCommand \cup FileCommand(c), Send(c, m),
         NEW d \in Client, Entry(d)
  PROVE  Entry(d)'
<1>1. UNCHANGED <<s2c, status, clientName, missed, isLogin, userName, curNo>>
  BY DEF Send, serverVars, auxVars
<1>2. CASE d # c
  <2>1. c2s'[d] = c2s[d] /\ asked'[d] = asked[d]
    BY <1>2 DEF Send, ClientsOK
  <2> QED
    BY <1>1, <2>1 DEF Entry, Talking
<1>3. CASE d = c
  <2>1. m \in Commands /\ m # None
    BY CommandsTyped, CommandAssumption
  <2>2. /\ c2s'[c] = Append(c2s[c], m) /\ c2s[c] \in Seq(Commands)
        /\ asked[c] = None /\ asked'[c] = IF status[c] = "up" THEN m ELSE None
        /\ status[c] \in {"up", "garbled"}
    BY DEF Send, ClientsOK, AtPrompt
  <2>3. \A i \in DOMAIN c2s'[c] : \/ i \in DOMAIN c2s[c] /\ c2s'[c][i] = c2s[c][i]
                                  \/ c2s'[c][i] = m
    BY <2>1, <2>2, AppendProperties, LenProperties
  <2>4. CASE isLogin[c]
    <3>1. m.op \notin LoginOps
      BY <2>4 DEF Send, Allowed, LoginOps
    <3> QED
      BY <1>1, <1>3, <2>2, <2>3, <2>4, <3>1 DEF Entry
  <2>5. CASE ~isLogin[c]
    <3>1. m.op \in EntryOps
      BY <2>5 DEF Send, Allowed, EntryOps
    <3>2. status[c] = "up" => Talking(c)'
      <4>1. SUFFICES ASSUME status[c] = "up" PROVE Talking(c)'
        OBVIOUS
      <4>2. c2s[c] = <<>> /\ s2c[c] = <<>>
        BY <4>1, <1>3, <2>5, <2>2 DEF Entry, Talking
      <4>3. c2s'[c] = <<m>>
        BY <4>2, <2>2, <2>1
      <4> QED
        BY <1>1, <4>1, <4>2, <4>3, <2>1, <2>2 DEF Talking
    <3> QED
      BY <1>1, <1>3, <2>2, <2>3, <2>5, <3>1, <3>2 DEF Entry
  <2> QED
    BY <2>4, <2>5
<1> QED
  BY <1>2, <1>3

-----------------------------------------------------------------------------
(* The invariant of logins *)

\* The main thread waits for the first message of the next client of clients[]
\* only (ftp_server.c:66-75).
Slots == \A c \in Client : status[c] = "greet" => c = clientIdx

\* The invariant of logins.
EntryInv == SessionOK /\ Slots /\ \A c \in Client : Entry(c)

\* The steps of a client that its session takes no part in.
Local(c) == Connect(c) \/ Hello(c) \/ Quit(c) \/ (\E n \in FileName : Put(c, n))

\* They keep the invariant: a client that is killed leaves nothing to be read.
LEMMA LocalKeeps ==
  ASSUME SessionAssumption, EntryInv, NEW S, s2c \in [Client -> Seq(S)],
         NEW c \in Client, Local(c)
  PROVE  EntryInv' /\ s2c' \in [Client -> Seq(S)]
<1> USE DEF EntryInv, SessionOK
<1>1. CASE Connect(c)
  <2>1. SessionOK' /\ s2c' \in [Client -> Seq(S)]
    BY <1>1 DEF Connect, TablesOK, ServerOK, ClientsOK, tableVars, serverVars, auxVars
  <2>2. Slots'
    BY <1>1 DEF Connect, Slots, ClientsOK, Greeting, serverVars
  <2>3. \A d \in Client : Entry(d)'
    BY <1>1 DEF Connect, Entry, Talking, ClientsOK, serverVars, auxVars
  <2> QED
    BY <2>1, <2>2, <2>3
<1>2. CASE Hello(c)
  <2>1. clientIdx = c /\ clientIdx' \in {c, c + 1}
    BY <1>2 DEF Hello, Slots
  <2>2. ServerOK'
    BY <1>2, <2>1, SessionAssumption DEF Hello, ServerOK, auxVars, Client
  <2>3. TablesOK' /\ ClientsOK' /\ s2c' \in [Client -> Seq(S)]
    BY <1>2 DEF Hello, TablesOK, ClientsOK, tableVars
  <2>4. Slots'
    BY <1>2, <2>1 DEF Hello, Slots, ClientsOK
  <2>5. \A d \in Client : Entry(d)'
    BY <1>2 DEF Hello, Entry, Talking, ClientsOK, auxVars
  <2> QED
    BY <2>2, <2>3, <2>4, <2>5
<1>3. CASE Quit(c)
  <2>1. c2s' = c2s \/ c2s' = [c2s EXCEPT ![c] = <<>>]
    BY <1>3 DEF Quit
  <2>2. SessionOK' /\ s2c' \in [Client -> Seq(S)]
    <3>0. <<>> \in Seq(Commands) /\ <<>> \in Seq(S)
      BY EmptySeq
    <3>1. c2s' \in [Client -> Seq(Commands)] /\ s2c' \in [Client -> Seq(S)]
      <4>1. c2s' \in [Client -> Seq(Commands)]
        BY <3>0, <2>1 DEF ClientsOK
      <4>2. s2c' \in [Client -> Seq(S)]
        BY <1>3, <3>0 DEF Quit
      <4> QED
        BY <4>1, <4>2
    <3> QED
      BY <1>3, <3>1 DEF Quit, TablesOK, ServerOK, ClientsOK, tableVars, serverVars, auxVars
  <2>3. Slots'
    BY <1>3 DEF Quit, Slots, ClientsOK, serverVars
  <2>4. ASSUME NEW d \in Client, d # c PROVE Entry(d)'
    BY <1>3, <2>1, <2>4 DEF Quit, Entry, Talking, ClientsOK, serverVars, auxVars
  <2>5. Entry(c)'
    BY <1>3, <2>1 DEF Quit, Entry, ClientsOK, serverVars, auxVars
  <2> QED
    BY <2>2, <2>3, <2>4, <2>5
<1>4. ASSUME NEW n \in FileName, Put(c, n) PROVE EntryInv' /\ s2c' \in [Client -> Seq(S)]
  <2>1. UNCHANGED <<tableVars, serverVars, c2s, s2c, clientVars, crashed, auxVars>>
    BY <1>4 DEF Put
  <2>2. userName[c] \in User
    BY <1>4 DEF Put, Entry, ClientsOK
  <2>3. uploads' \subseteq [owner : User, preNo : No, fileName : FileName]
    BY <1>4, <2>2 DEF Put, ServerOK, ClientsOK, No
  <2>4. SessionOK'
    BY <2>1, <2>3 DEF TablesOK, ServerOK, ClientsOK, tableVars, serverVars, clientVars, auxVars
  <2>5. Slots' /\ \A d \in Client : Entry(d)'
    BY <2>1 DEF Slots, Entry, Talking, serverVars, clientVars, auxVars
  <2> QED
    BY <2>1, <2>4, <2>5
<1> QED
  BY <1>1, <1>2, <1>3, <1>4 DEF Local

\* The end of an upload touches no session.
LEMMA StoreKeeps ==
  ASSUME EntryInv, NEW S, s2c \in [Client -> Seq(S)], NEW u \in uploads, StoreUpload(u)
  PROVE  EntryInv' /\ s2c' \in [Client -> Seq(S)]
<1> USE DEF EntryInv, SessionOK
<1>1. UNCHANGED <<account, serverVars, c2s, s2c, clientVars, crashed, auxVars>>
  BY DEF StoreUpload
<1>2. TablesOK'
  <2>1. [preNo |-> u.preNo, no |-> nextNo, fileName |-> u.fileName, owner |-> u.owner,
         fileType |-> 1] \in Row
    BY DEF Row, ServerOK, TablesOK, No
  <2>2. CASE InsertEntry(u.owner, u.preNo, u.fileName, 1)
    BY <1>1, <2>1, <2>2, InsertTypes DEF InsertEntry, TablesOK
  <2> QED
    BY <1>1, <2>2 DEF StoreUpload, TablesOK
<1>3. ServerOK' /\ ClientsOK'
  BY <1>1 DEF StoreUpload, ServerOK, ClientsOK, serverVars, clientVars, auxVars
<1>4. Slots' /\ \A d \in Client : Entry(d)'
  BY <1>1 DEF Slots, Entry, Talking, serverVars, clientVars, auxVars
<1> QED
  BY <1>1, <1>2, <1>3, <1>4

\* A command keeps the invariant.
LEMMA SendKeeps ==
  ASSUME EntryInv, NEW S, s2c \in [Client -> Seq(S)],
         NEW c \in Client, NEW m \in EntryCommand \cup FileCommand(c), Send(c, m)
  PROVE  EntryInv' /\ s2c' \in [Client -> Seq(S)]
<1> USE DEF EntryInv, SessionOK
<1>1. TablesOK' /\ Slots'
  BY DEF Send, TablesOK, Slots, tableVars, serverVars
<1> QED
  BY <1>1, SendTypes, EntrySend

\* A reply that is read keeps the invariant, whichever replies carry the number
\* of a directory.
LEMMA ReadKeeps ==
  ASSUME SessionAssumption, EntryInv, NEW S, \A t \in S : t.kind = "no" => t.payload \in No,
         s2c \in [Client -> Seq(S)], NEW c \in Client,
         NEW dirOps \in SUBSET (CdOps \cup {"login"}), TakeReply(c, dirOps)
  PROVE  EntryInv' /\ s2c' \in [Client -> Seq(S)]
<1> USE DEF EntryInv, SessionOK
<1>1. TablesOK' /\ Slots'
  BY DEF TakeReply, TablesOK, Slots, tableVars, serverVars
<1>2. \A d \in Client : Entry(d)'
  BY EntryRead
<1> QED
  BY <1>1, <1>2, ReadTypes

\* Only a client that has logged in loses track of the replies, since only cd
\* sends too much.
LEMMA LoseTrackKeeps ==
  ASSUME EntryInv, NEW S, s2c \in [Client -> Seq(S)], NEW c \in Client, LoseTrack(c)
  PROVE  EntryInv' /\ s2c' \in [Client -> Seq(S)]
<1> USE DEF EntryInv, SessionOK
<1>1. SessionOK' /\ s2c' \in [Client -> Seq(S)] /\ Slots'
  BY DEF LoseTrack, TablesOK, ServerOK, ClientsOK, Slots, tableVars, serverVars, auxVars
<1>2. isLogin[c]
  BY NotMisled DEF LoseTrack, Misled, Entry
<1>3. \A d \in Client : Entry(d)'
  BY <1>2 DEF LoseTrack, Entry, Talking, ClientsOK, serverVars, auxVars
<1> QED
  BY <1>1, <1>3

\* The handlers keep the invariant.
LEMMA HandleKeeps ==
  ASSUME SessionAssumption, EntryInv, NEW S, Sent \subseteq S, s2c \in [Client -> Seq(S)],
         NEW c \in Client, Handle(c)
  PROVE  EntryInv' /\ s2c' \in [Client -> Seq(S)]
<1> USE DEF EntryInv, SessionOK
<1>1. c2s[c] # <<>> /\ Head(c2s[c]).op = "mkdir" => clientName[c] \in User
  <2>1. SUFFICES ASSUME c2s[c] # <<>>, Head(c2s[c]).op = "mkdir" PROVE clientName[c] \in User
    OBVIOUS
  <2>2. 1 \in DOMAIN c2s[c] /\ c2s[c][1].op \notin EntryOps
    BY <2>1, EmptySeq, LenProperties DEF ClientsOK, EntryOps
  <2> QED
    BY <2>2 DEF Entry, ServerOK, ClientsOK
<1>2. SessionOK'
  BY <1>1, HandleTypes
<1>3. Slots'
  BY HandleMoves DEF Slots, clientVars
<1>4. \A d \in Client : Entry(d)'
  BY <1>2, EntryHandle
<1> QED
  BY <1>2, <1>3, <1>4, HandleStream

\* The invariant of logins, and the tokens of the protocol on their way.
TypeInv == EntryInv /\ s2c \in [Client -> Seq(Sent)]

\* Before the first connection nobody is logged in.
LEMMA TypeInit ==
  ASSUME SessionAssumption, Init
  PROVE  TypeInv
<1>1. TablesOK
  BY DEF Init, TableInit, TablesOK
<1>2. ServerOK
  <2>1. curDir \in [Client -> Seq(FileName)]
    BY EmptySeq DEF Init
  <2>2. clientIdx \in 0 .. Clients /\ curNo \in [Client -> No]
    BY SessionAssumption DEF Init, No
  <2> QED
    BY <2>1, <2>2 DEF Init, ServerOK
<1>3. ClientsOK /\ s2c \in [Client -> Seq(Sent)]
  <2>1. c2s \in [Client -> Seq(Commands)] /\ s2c \in [Client -> Seq(Sent)]
    BY EmptySeq DEF Init
  <2>2. preDirNo \in [Client -> No]
    BY DEF Init, No
  <2> QED
    BY <2>1, <2>2 DEF Init, ClientsOK
<1>4. Slots /\ \A c \in Client : Entry(c)
  BY DEF Init, Slots, Entry
<1> QED
  BY <1>1, <1>2, <1>3, <1>4 DEF TypeInv, EntryInv, SessionOK

\* Every step of a Linux client, the main thread or a worker keeps it.
LEMMA TypeStep ==
  ASSUME SessionAssumption, TypeInv, [Next]_vars
  PROVE  TypeInv'
<1> USE DEF TypeInv
<1>0. \A t \in Sent : t.kind = "no" => t.payload \in No
  BY DEF Sent
<1>1. ASSUME NEW c \in Client, ClientStep(c) PROVE TypeInv'
  <2>1. CASE Local(c)
    BY <2>1, LocalKeeps
  <2>2. CASE \E m \in EntryCommand \cup FileCommand(c) : Send(c, m)
    BY <2>2, SendKeeps
  <2>3. CASE ReadReply(c)
    BY <2>3, <1>0, ReadKeeps DEF ReadReply
  <2>4. CASE LoseTrack(c)
    BY <2>4, LoseTrackKeeps
  <2> QED
    BY <1>1, <2>1, <2>2, <2>3, <2>4 DEF ClientStep, Local, Read
<1>2. ASSUME NEW c \in Client, Handle(c) PROVE TypeInv'
  BY <1>2, HandleKeeps
<1>3. ASSUME NEW u \in uploads, StoreUpload(u) PROVE TypeInv'
  BY <1>3, StoreKeeps
<1>4. CASE UNCHANGED vars
  BY <1>4 DEF vars, tableVars, serverVars, clientVars, auxVars, EntryInv, SessionOK, TablesOK,
     ServerOK, ClientsOK, Slots, Entry, Talking
<1> QED
  BY <1>1, <1>2, <1>3, <1>4 DEF Next

(***************************************************************************)
(* The tables, the entries of clients[] (ftp_server.h:41), the clients'    *)
(* variables and everything between the two ends keep to their types: in   *)
(* particular the main thread never runs the INSERT of mkdir               *)
(* (cmd_handle_server.c:154) for an entry without a user, and a client     *)
(* takes nothing but the number of a directory for one                     *)
(* (cmd_handle.c:129-145).                                                 *)
(***************************************************************************)
THEOREM TypeCorrect == Spec => []TypeOK
<1>1. Init => TypeInv
  BY TypeInit, SessionAssumption
<1>2. TypeInv /\ [Next]_vars => TypeInv'
  BY TypeStep, SessionAssumption
<1>3. TypeInv => TypeOK
  BY DEF TypeInv, EntryInv, SessionOK, TypeOK
<1> QED
  BY <1>1, <1>2, <1>3, PTL DEF Spec

\* The invariant of logins implies SameUser.
LEMMA EntrySameUser == EntryInv => SameUser
  BY DEF EntryInv, SessionOK, ClientsOK, Entry, EntryOps, SameUser

(***************************************************************************)
(* Whatever the clients send and whenever they are killed, the server runs *)
(* a command for the user the client shows, although no handler of         *)
(* cmd_handle_server.c checks that there has been a login.                 *)
(***************************************************************************)
THEOREM UsersAgree == Spec => []SameUser
<1>1. Init => TypeInv
  BY TypeInit, SessionAssumption
<1>2. TypeInv /\ [Next]_vars => TypeInv'
  BY TypeStep, SessionAssumption
<1>3. TypeInv => SameUser
  BY EntrySameUser DEF TypeInv
<1> QED
  BY <1>1, <1>2, <1>3, PTL DEF Spec

-----------------------------------------------------------------------------
(* Sessions in step *)

\* The client knows the number of the server's current directory, unless a cd
\* is under way.
Knows(c) ==
  isLogin[c] /\ (c2s[c] # <<>> \/ asked[c] = None \/ asked[c].op \notin CdOps)
    => preDirNo[c] = curNo[c]

\* A client that has failed no cd asks and waits and knows where it is; only a
\* failed cd garbles a client.
Steady(c) ==
  /\ status[c] = "up" /\ ~missed[c] => Talking(c) /\ Knows(c)
  /\ status[c] = "garbled" => missed[c]

\* The invariant of sessions in step.
StepInv == TypeInv /\ \A c \in Client : Steady(c)

\* The handlers keep a session in step: a cd that succeeds sends the number
\* that the server then has (cmd_handle_server.c:238-244).
LEMMA SteadyHandle ==
  ASSUME TypeInv, TypeInv', NEW c \in Client, Handle(c), NEW d \in Client, Steady(d)
  PROVE  Steady(d)'
<1> USE DEF TypeInv, EntryInv, SessionOK
<1>1. UNCHANGED clientVars /\ (missed[d] => missed'[d])
  <2>1. UNCHANGED clientVars /\ (missed[c] => missed'[c]) /\ (d # c => missed'[d] = missed[d])
    BY HandleMoves
  <2> QED
    BY <2>1
<1>2. SUFFICES ASSUME status[d] = "up", ~missed'[d]
               PROVE  Talking(d)' /\ Knows(d)'
  BY <1>1 DEF Steady, clientVars
<1>3. Talking(d) /\ Knows(d)
  BY <1>1, <1>2 DEF Steady
<1>4. Talking(d)'
  BY <1>2, <1>3, TalkingHandle
<1>5. Knows(d)'
  <2>1. CASE d # c
    <3>1. c2s'[d] = c2s[d] /\ curNo'[d] = curNo[d]
      BY <2>1, HandleMoves
    <3> QED
      BY <1>1, <1>3, <3>1 DEF Knows, clientVars
  <2>2. CASE d = c /\ UNCHANGED <<c2s, curNo>>
    BY <1>1, <1>3, <2>2 DEF Knows, clientVars
  <2>3. ASSUME d = c, c2s[c] # <<>>, NEW s, Reply(c, s),
               Answer(Head(c2s[c]), s, curNo'[c], clientName'[c], missed'[c])
        PROVE  Knows(d)'
    <3>1. asked[c] # None /\ c2s[c] = <<asked[c]>> /\ Head(c2s[c]) = asked[c]
      BY <1>3, <2>3 DEF Talking
    <3>2. c2s'[c] = <<>>
      <4>1. Tail(c2s[c]) = <<>>
        BY <3>1
      <4> QED
        BY <2>3, <4>1, ReplyAppends
    <3>3. SUFFICES ASSUME isLogin[c], asked[c].op \notin CdOps
                   PROVE  preDirNo[c] = curNo'[c]
      BY <1>1, <2>3, <3>1, <3>2 DEF Knows, clientVars
    <3>4. asked[c].op \notin CdOps \cup {"login"} /\ ~HangUp(c)
      BY <1>2, <2>3, <3>1, <3>3 DEF Entry, LoginOps, HangUp
    <3>5. curNo'[c] = curNo[c]
      BY <3>1, <3>4, HandleMoves
    <3> QED
      BY <1>3, <2>3, <3>3, <3>5 DEF Knows
  <2>4. ~HangUp(d)
    BY <1>2 DEF HangUp
  <2> QED
    BY <2>1, <2>2, <2>3, <2>4, HandleAnswers
<1> QED
  BY <1>4, <1>5

\* A command does: its reply is yet to come.
LEMMA SteadySend ==
  ASSUME TypeInv, NEW c \in Client, NEW m \in EntryCommand \cup FileCommand(c), Send(c, m),
         NEW d \in Client, Steady(d)
  PROVE  Steady(d)'
<1> USE DEF TypeInv, EntryInv, SessionOK
<1>1. UNCHANGED <<s2c, status, clientName, missed, isLogin, preDirNo, curNo>>
  BY DEF Send, serverVars, auxVars
<1>2. CASE d # c
  <2>1. c2s'[d] = c2s[d] /\ asked'[d] = asked[d]
    BY <1>2 DEF Send, ClientsOK
  <2> QED
    BY <1>1, <2>1 DEF Steady, Talking, Knows
<1>3. CASE d = c
  <2>1. SUFFICES ASSUME status[c] = "up", ~missed[c]
                 PROVE  Talking(c)' /\ Knows(c)'
    BY <1>1, <1>3 DEF Steady
  <2>2. Talking(c) /\ Knows(c)
    BY <1>3, <2>1 DEF Steady
  <2>3. m \in Commands /\ m # None
    BY CommandsTyped, CommandAssumption
  <2>4. asked[c] = None /\ asked'[c] = m /\ c2s[c] = <<>> /\ s2c[c] = <<>>
    BY <2>1, <2>2 DEF Send, ClientsOK, AtPrompt, Talking
  <2>5. c2s'[c] = <<m>>
    BY <2>4 DEF Send, ClientsOK
  <2> QED
    BY <1>1, <2>2, <2>3, <2>4, <2>5 DEF Talking, Knows
<1> QED
  BY <1>2, <1>3

\* A reply does: it leaves nothing behind, and the reply to a cd brings the
\* number of the directory.
LEMMA SteadyRead ==
  ASSUME TypeInv, NEW c \in Client, ReadReply(c), NEW d \in Client, Steady(d)
  PROVE  Steady(d)'
<1> USE DEF TypeInv, EntryInv, SessionOK
<1>1. UNCHANGED <<c2s, status, clientName, missed, curNo>>
  BY DEF ReadReply, TakeReply, serverVars, auxVars
<1>2. CASE d # c
  <2>1. /\ asked'[d] = asked[d] /\ isLogin'[d] = isLogin[d] /\ preDirNo'[d] = preDirNo[d]
        /\ s2c'[d] = s2c[d]
    BY <1>2 DEF ReadReply, TakeReply, ClientsOK
  <2> QED
    BY <1>1, <2>1 DEF Steady, Talking, Knows
<1>3. CASE d = c
  <2>1. SUFFICES ASSUME status[c] = "up", ~missed[c]
                 PROVE  Talking(c)' /\ Knows(c)'
    BY <1>1, <1>3 DEF Steady
  <2> DEFINE m == asked[c]
             s == s2c[c]
             need == Needs(m, Head(s))
  <2>2. Talking(c) /\ Knows(c) /\ m # None /\ s # <<>> /\ m \in Commands
    BY <1>3, <2>1 DEF Steady, ReadReply, TakeReply, ClientsOK
  <2>3. /\ Answer(m, s, curNo[c], clientName[c], missed[c])
        /\ c2s[c] = <<>> /\ Len(need) = Len(s) /\ Len(need) \in 1 .. Len(s)
        /\ m.op \in CdOps \cup {"login"} /\ IsFlag(s[1], "1") => s[Len(need)].payload = curNo[c]
    BY <2>1, <2>2, TalkingAnswered
  <2>4. s2c'[c] = <<>> /\ asked'[c] = None
    <3>1. s2c'[c] = SubSeq(s, Len(need) + 1, Len(s)) /\ asked'[c] = None
      BY DEF ReadReply, TakeReply, ClientsOK
    <3> QED
      BY <3>1, <2>3, SubSeqEmpty
  <2>5. Talking(c)'
    BY <1>1, <2>3, <2>4 DEF Talking
  <2>6. CASE m.op \in CdOps \cup {"login"} /\ IsFlag(s[1], "1")
    <3>1. preDirNo'[c] = curNo[c]
      BY <2>3, <2>6 DEF ReadReply, TakeReply, ClientsOK
    <3> QED
      BY <1>1, <2>5, <3>1 DEF Knows
  <2>7. CASE ~(m.op \in CdOps \cup {"login"} /\ IsFlag(s[1], "1"))
    <3>1. m.op \notin CdOps
      <4>1. m.op \in CdOps => s = CdDot(curNo[c])
        BY <2>1, <2>3 DEF Answer, CdOps
      <4>2. m.op \in CdOps => IsFlag(s[1], "1")
        BY <4>1 DEF CdDot, IsFlag, Flag, Token
      <4> QED
        BY <2>7, <4>2
    <3>2. UNCHANGED <<isLogin, preDirNo>>
      BY <2>7 DEF ReadReply, TakeReply
    <3> QED
      BY <1>1, <2>2, <2>5, <3>1, <3>2 DEF Knows
  <2> QED
    BY <2>6, <2>7
<1> QED
  BY <1>2, <1>3

\* Every step keeps sessions in step.
LEMMA StepStep ==
  ASSUME SessionAssumption, StepInv, [Next]_vars
  PROVE  StepInv'
<1> USE DEF StepInv
<1>0. TypeInv'
  BY TypeStep
<1> USE DEF TypeInv, EntryInv, SessionOK
<1>1. ASSUME NEW c \in Client, ClientStep(c), NEW d \in Client PROVE Steady(d)'
  <2>1. CASE Connect(c)
    BY <2>1 DEF Connect, Steady, Talking, Knows, ClientsOK, serverVars, auxVars
  <2>2. CASE Hello(c)
    <3>1. CASE d # c
      BY <2>2, <3>1 DEF Hello, Steady, Talking, Knows, ClientsOK, auxVars
    <3>2. CASE d = c
      <4>1. ~isLogin'[c] /\ status'[c] \in {"new", "up"}
        BY <2>2 DEF Hello, Entry, ClientsOK
      <4> QED
        BY <3>2, <4>1, <1>0 DEF Steady, Knows, Entry
    <3> QED
      BY <3>1, <3>2
  <2>3. CASE \E m \in EntryCommand \cup FileCommand(c) : Send(c, m)
    BY <2>3, SteadySend
  <2>4. CASE \E n \in FileName : Put(c, n)
    BY <2>4 DEF Put, Steady, Talking, Knows, clientVars, serverVars, auxVars
  <2>5. CASE ReadReply(c)
    BY <2>5, SteadyRead
  <2>6. CASE LoseTrack(c)
    <3>1. missed[c]
      BY <2>6, NotMisled DEF LoseTrack, Misled, Steady
    <3> QED
      BY <2>6, <3>1 DEF LoseTrack, Steady, Talking, Knows, ClientsOK, serverVars, auxVars
  <2>7. CASE Quit(c)
    <3>1. d # c => c2s'[d] = c2s[d]
      BY <2>7 DEF Quit, ClientsOK
    <3> QED
      BY <2>7, <3>1 DEF Quit, Steady, Talking, Knows, ClientsOK, serverVars, auxVars
  <2> QED
    BY <1>1, <2>1, <2>2, <2>3, <2>4, <2>5, <2>6, <2>7 DEF ClientStep, Read
<1>2. ASSUME NEW c \in Client, Handle(c), NEW d \in Client PROVE Steady(d)'
  BY <1>0, <1>2, SteadyHandle
<1>3. ASSUME NEW u \in uploads, StoreUpload(u), NEW d \in Client PROVE Steady(d)'
  BY <1>3 DEF StoreUpload, Steady, Talking, Knows, clientVars, serverVars, auxVars
<1>4. ASSUME UNCHANGED vars, NEW d \in Client PROVE Steady(d)'
  BY <1>4 DEF vars, Steady, Talking, Knows, clientVars, serverVars, auxVars
<1> QED
  BY <1>0, <1>1, <1>2, <1>3, <1>4 DEF Next

\* Before the first connection nothing is on its way.
LEMMA StepInit ==
  ASSUME SessionAssumption, Init
  PROVE  StepInv
<1>1. TypeInv
  BY TypeInit
<1> QED
  BY <1>1 DEF StepInv, Init, Steady

(***************************************************************************)
(* A session that has failed no cd is in step, at the prompt with nothing  *)
(* on its way and with the server's directory number for the next put and  *)
(* rm (cmd_handle_server.c:238-244), whatever the other sessions do.       *)
(***************************************************************************)
THEOREM SessionsInStep == Spec => []InStep
<1>1. Init => StepInv
  BY StepInit, SessionAssumption
<1>2. StepInv /\ [Next]_vars => StepInv'
  BY StepStep, SessionAssumption
<1>3. StepInv => InStep
  BY DEF StepInv, Steady, Talking, Knows, InStep
<1> QED
  BY <1>1, <1>2, <1>3, PTL DEF Spec

(***************************************************************************)
(* A client misreads the replies of cmd_handle_server.c only after one of  *)
(* its cds has failed (lines 227-244): every other handler sends what the  *)
(* client's handler for the command (cmd_handle.c) reads.                  *)
(***************************************************************************)
THEOREM FailedCdsGarble == Spec => []GarbledByCd
<1>1. Init => StepInv
  BY StepInit, SessionAssumption
<1>2. StepInv /\ [Next]_vars => StepInv'
  BY StepStep, SessionAssumption
<1>3. StepInv => GarbledByCd
  BY DEF StepInv, Steady, GarbledByCd
<1> QED
  BY <1>1, <1>2, <1>3, PTL DEF Spec
=============================================================================
