------------------------------ MODULE WinProofs ------------------------------
(***************************************************************************)
(* Windows clients beside Linux ones on one server (WinSession), for any   *)
(* number of either: the invariant of logins of SessionProofs holds for    *)
(* them too, although they drop, tear and misread replies once a user has  *)
(* typed ahead or a cd has failed.                                         *)
(*                                                                         *)
(* WinInv is that invariant with torn tokens on their way. WaitInv adds    *)
(* that a user who waits is in step again, and HomeInv where a Windows     *)
(* client's put and rm go; its Linux neighbours are in both as the steps   *)
(* that must leave it alone.                                               *)
(***************************************************************************)
EXTENDS WinSession, TableProofs

-----------------------------------------------------------------------------
(* Logins *)

\* The tokens on their way to a client, whole or torn.
WinSent == Sent \cup {Torn}

\* The invariant of logins and types.
WinInv ==
  /\ EntryInv
  /\ s2c \in [Client -> Seq(WinSent)]
  /\ hasty \in [Client -> BOOLEAN]
  /\ \A c \in Windows : status[c] # "garbled"

\* A number on its way is that of a directory.
LEMMA NumbersAreDirs == \A t \in WinSent : t.kind = "no" => t.payload \in No
  BY DEF WinSent, Sent, Torn, Token

\* A Windows client at its prompt drops a reply (win_ftp_client.c:205-222);
\* without a login there is none to be dropped.
LEMMA DropKeeps ==
  ASSUME WinInv, NEW c \in Windows, DropReplies(c), c \in Client
  PROVE  EntryInv' /\ s2c' \in [Client -> Seq(WinSent)]
<1> USE DEF WinInv, EntryInv, SessionOK
<1>1. UNCHANGED <<tableVars, serverVars, c2s, clientVars, uploads, crashed, auxVars>>
  BY DEF DropReplies
<1>2. s2c' \in [Client -> Seq(WinSent)]
  BY HeadTailProperties DEF DropReplies
<1>3. SessionOK' /\ Slots'
  BY <1>1 DEF TablesOK, ServerOK, ClientsOK, Slots, tableVars, serverVars, clientVars, auxVars
<1>4. isLogin[c]
  BY DEF DropReplies, AtPrompt, Entry, Talking
<1>5. ASSUME NEW d \in Client PROVE Entry(d)'
  <2>1. d # c => s2c'[d] = s2c[d]
    BY DEF DropReplies
  <2>2. status[c] \in {"up", "garbled"}
    BY DEF DropReplies, AtPrompt
  <2> QED
    BY <1>1, <1>4, <2>1, <2>2 DEF Entry, Talking, serverVars, clientVars, auxVars
<1> QED
  BY <1>2, <1>3, <1>5

\* A handler that reads something else tears tokens; without a login it reads
\* what it expects.
LEMMA MisreadKeeps ==
  ASSUME WinInv, NEW c \in Windows, WinMisread(c), c \in Client
  PROVE  EntryInv' /\ s2c' \in [Client -> Seq(WinSent)]
<1> USE DEF WinInv, EntryInv, SessionOK
<1>1. UNCHANGED <<tableVars, serverVars, c2s, status, isLogin, userName, preDirNo,
                  uploads, crashed, auxVars>>
  BY DEF WinMisread
<1>2. s2c' \in [Client -> Seq(WinSent)]
  <2>1. s2c[c] \in Seq(WinSent) /\ Len(s2c[c]) \in Nat /\ \A i \in 1 .. Len(s2c[c]) : s2c[c][i] \in WinSent
    BY LenProperties, ElementOfSeq
  <2>2. \A k \in 2 .. Len(s2c[c]) + 1 : SubSeq(s2c[c], k, Len(s2c[c])) \in Seq(WinSent)
    BY <2>1, SubSeqProperties
  <2>3. <<Torn>> \in Seq(WinSent)
    BY DEF WinSent
  <2>4. \A k \in 2 .. Len(s2c[c]) + 1 : <<Torn>> \o SubSeq(s2c[c], k, Len(s2c[c])) \in Seq(WinSent)
    BY <2>2, <2>3, ConcatProperties
  <2>5. Remains(s2c[c]) \subseteq Seq(WinSent)
    BY <2>2, <2>4 DEF Remains
  <2> QED
    BY <2>5 DEF WinMisread
<1>3. SessionOK' /\ Slots'
  BY <1>1 DEF WinMisread, TablesOK, ServerOK, ClientsOK, Slots, tableVars, serverVars, auxVars
<1>4. isLogin[c]
  BY NotMisled DEF WinMisread, Misled, Entry
<1>5. ASSUME NEW d \in Client PROVE Entry(d)'
  <2>1. /\ d # c => s2c'[d] = s2c[d] /\ asked'[d] = asked[d]
        /\ asked'[c] = asked[c] \/ asked'[c] = None
    BY DEF WinMisread, ClientsOK
  <2>2. status[c] = "up"
    BY DEF WinMisread, Misled
  <2> QED
    BY <1>1, <1>4, <2>1, <2>2 DEF Entry, Talking, serverVars, auxVars
<1> QED
  BY <1>2, <1>3, <1>5

\* Every step keeps the invariant.
LEMMA WinTypeStep ==
  ASSUME SessionAssumption, WindowsAssumption, WinInv, [WinNext]_winVars
  PROVE  WinInv'
<1> USE DEF WinInv
<1>0. Sent \subseteq WinSent /\ \A c \in Windows : c \in Client
  BY WindowsAssumption DEF WinSent
<1>1. ASSUME NEW c \in Windows, WinStep(c) PROVE WinInv'
  <2>0. c \in Client
    BY <1>0
  <2>1. EntryInv' /\ s2c' \in [Client -> Seq(WinSent)]
    <3>1. CASE Local(c)
      BY <2>0, <3>1, LocalKeeps
    <3>2. CASE \E m \in EntryCommand \cup FileCommand(c) : Send(c, m)
      BY <2>0, <3>2, SendKeeps
    <3>3. CASE DropReplies(c)
      BY <2>0, <3>3, DropKeeps
    <3>4. CASE WinReadReply(c)
      BY <2>0, <3>4, NumbersAreDirs, ReadKeeps DEF WinReadReply, WinDirOps
    <3>5. CASE WinMisread(c)
      BY <2>0, <3>5, MisreadKeeps
    <3> QED
      BY <1>1, <3>1, <3>2, <3>3, <3>4, <3>5 DEF WinStep, WinRead, ReadLine, Local
  <2>2. hasty' \in [Client -> BOOLEAN]
    BY <1>1 DEF WinStep, WinRead, WinReadReply, WinMisread, ReadLine, DropReplies
  <2>3. \A d \in Client : status'[d] = "garbled" => status[d] = "garbled"
    BY <1>1, <2>0 DEF WinStep, WinRead, WinReadReply, WinMisread, ReadLine, DropReplies, Connect,
      Hello, Quit, Send, Put, TakeReply, clientVars, EntryInv, SessionOK, ClientsOK
  <2> QED
    BY <1>0, <2>1, <2>2, <2>3
<1>2. ASSUME NEW c \in Client \ Windows, ClientStep(c), UNCHANGED hasty PROVE WinInv'
  <2>1. EntryInv' /\ s2c' \in [Client -> Seq(WinSent)]
    <3>1. CASE Local(c)
      BY <3>1, LocalKeeps
    <3>2. CASE \E m \in EntryCommand \cup FileCommand(c) : Send(c, m)
      BY <3>2, SendKeeps
    <3>3. CASE ReadReply(c)
      BY <3>3, NumbersAreDirs, ReadKeeps DEF ReadReply
    <3>4. CASE LoseTrack(c)
      BY <3>4, LoseTrackKeeps
    <3> QED
      BY <1>2, <3>1, <3>2, <3>3, <3>4 DEF ClientStep, Local, Read
  <2>2. \A d \in Client : d # c => status'[d] = status[d]
    BY <1>2 DEF ClientStep, Connect, Hello, Quit, Send, Put, Read, ReadReply, TakeReply, LoseTrack,
      clientVars, EntryInv, SessionOK, ClientsOK
  <2> QED
    BY <1>0, <1>2, <2>1, <2>2
<1>3. ASSUME NEW c \in Client, Handle(c), UNCHANGED hasty PROVE WinInv'
  <2>1. UNCHANGED clientVars
    BY <1>3, HandleMoves DEF EntryInv, SessionOK
  <2>2. EntryInv' /\ s2c' \in [Client -> Seq(WinSent)]
    BY <1>0, <1>3, HandleKeeps
  <2> QED
    BY <1>3, <2>1, <2>2 DEF clientVars
<1>4. ASSUME NEW u \in uploads, StoreUpload(u), UNCHANGED hasty PROVE WinInv'
  BY <1>4, StoreKeeps DEF StoreUpload, clientVars
<1>5. CASE UNCHANGED winVars
  BY <1>5 DEF winVars, vars, tableVars, serverVars, clientVars, auxVars, EntryInv, SessionOK, TablesOK,
     ServerOK, ClientsOK, Slots, Entry, Talking
<1> QED
  BY <1>1, <1>2, <1>3, <1>4, <1>5 DEF WinNext

\* Before the first connection nobody is logged in.
LEMMA WinTypeInit ==
  ASSUME SessionAssumption, WindowsAssumption, WinInit
  PROVE  WinInv
<1>1. TypeInv
  BY TypeInit DEF WinInit
<1>2. s2c \in [Client -> Seq(WinSent)] /\ hasty \in [Client -> BOOLEAN]
  BY EmptySeq DEF WinInit, Init
<1>3. \A c \in Windows : status[c] # "garbled"
  BY WindowsAssumption DEF WinInit, Init
<1> QED
  BY <1>1, <1>2, <1>3 DEF TypeInv, WinInv

(***************************************************************************)
(* Whatever Windows users type ahead (win_ftp_client.c:205-280) and        *)
(* however often a cd fails, types hold, a Windows client goes on reading, *)
(* and the server runs a command for the user that the client shows.       *)
(***************************************************************************)
THEOREM WinTypeCorrect == WinSpec => [](WinTypeOK /\ SameUser)
<1>1. WinInit => WinInv
  BY WinTypeInit, SessionAssumption, WindowsAssumption
<1>2. WinInv /\ [WinNext]_winVars => WinInv'
  BY WinTypeStep, SessionAssumption, WindowsAssumption
<1>3. WinInv => WinTypeOK /\ SameUser
  BY EntrySameUser DEF WinInv, WinTypeOK, WinSent, EntryInv, SessionOK
<1> QED
  BY <1>1, <1>2, <1>3, PTL DEF WinSpec

-----------------------------------------------------------------------------
(* Waiting users *)

\* A Windows client waits with its connection open, and if its user did not
\* type ahead it asks and waits.
Waits(c) ==
  /\ asked[c] # None => status[c] = "up"
  /\ asked[c] # None /\ ~hasty[c] => Talking(c)

\* The invariant of waiting users.
WaitInv == WinInv /\ \A c \in Windows : Waits(c)

\* Every step keeps it: a command that is sent when nothing is on its way finds
\* the connection empty, whatever was lost before.
LEMMA WaitStep ==
  ASSUME SessionAssumption, WindowsAssumption, WaitInv, [WinNext]_winVars
  PROVE  WaitInv'
<1>0. WinInv /\ WinInv' /\ EntryInv /\ SessionOK /\ s2c \in [Client -> Seq(WinSent)]
        /\ Sent \subseteq WinSent /\ ServerOK' /\ hasty \in [Client -> BOOLEAN]
  BY WinTypeStep DEF WaitInv, WinInv, EntryInv, SessionOK, WinSent
<1>1. SUFFICES ASSUME NEW d \in Windows PROVE Waits(d)'
  BY <1>0 DEF WaitInv
<1>2. d \in Client /\ Waits(d)
  BY WindowsAssumption DEF WaitInv
<1>3. ASSUME NEW c \in Client, d # c, WinStep(c) \/ (ClientStep(c) /\ UNCHANGED hasty) PROVE Waits(d)'
  <2>1. /\ c2s'[d] = c2s[d] /\ s2c'[d] = s2c[d] /\ asked'[d] = asked[d] /\ status'[d] = status[d]
        /\ hasty'[d] = hasty[d] /\ UNCHANGED <<clientName, curNo, missed>>
    <3>1. CASE Local(c) /\ UNCHANGED hasty
      <4>1. CASE Quit(c)
        BY <1>0, <1>2, <1>3, <3>1, <4>1 DEF Quit, SessionOK, ClientsOK, serverVars, auxVars
      <4> QED
        BY <1>0, <1>2, <1>3, <3>1, <4>1
           DEF Local, Connect, Hello, Put, clientVars, serverVars, auxVars, SessionOK, ClientsOK
    <3>2. CASE ReadLine(c) \/ \E m \in EntryCommand \cup FileCommand(c) : Send(c, m) /\ UNCHANGED hasty
      BY <1>0, <1>2, <1>3, <3>2 DEF ReadLine, Send, Put, clientVars, serverVars, auxVars, SessionOK, ClientsOK
    <3>3. CASE DropReplies(c)
      BY <1>0, <1>2, <1>3, <3>3 DEF DropReplies, clientVars, serverVars, auxVars
    <3>4. CASE (ReadReply(c) \/ WinReadReply(c)) /\ UNCHANGED hasty
      BY <1>0, <1>2, <1>3, <3>4 DEF ReadReply, WinReadReply, TakeReply, serverVars, auxVars, SessionOK, ClientsOK
    <3>5. CASE LoseTrack(c) /\ UNCHANGED hasty
      BY <1>0, <1>2, <1>3, <3>5 DEF LoseTrack, serverVars, auxVars, SessionOK, ClientsOK
    <3>6. CASE WinMisread(c)
      BY <1>0, <1>2, <1>3, <3>6 DEF WinMisread, serverVars, auxVars, SessionOK, ClientsOK
    <3> QED
      BY <1>3, <3>1, <3>2, <3>3, <3>4, <3>5, <3>6
         DEF WinStep, WinRead, WinReadReply, ClientStep, Local, Read
  <2> QED
    BY <1>2, <2>1 DEF Waits, Talking
<1>4. CASE WinStep(d)
  <2>1. CASE (Connect(d) \/ Hello(d) \/ Quit(d)) /\ UNCHANGED hasty
    <3>1. asked'[d] = None
      BY <1>0, <1>2, <2>1 DEF Connect, Hello, Quit, EntryInv, Entry, SessionOK, ClientsOK
    <3> QED
      BY <3>1 DEF Waits
  <2>2. CASE DropReplies(d)
    <3>1. asked'[d] = None
      BY <2>2 DEF DropReplies, AtPrompt, clientVars
    <3> QED
      BY <3>1 DEF Waits
  <2>3. ASSUME NEW m \in EntryCommand \cup FileCommand(d), Send(d, m),
               hasty' = [hasty EXCEPT ![d] = s2c[d] # <<>> \/ c2s[d] # <<>>]
        PROVE  Waits(d)'
    <3>1. m \in Commands /\ m # None
      BY <1>0, <1>2, CommandsTyped, CommandAssumption DEF SessionOK
    <3>2. status[d] = "up" /\ UNCHANGED <<status, s2c>>
      BY <1>0, <2>3 DEF Send, AtPrompt, WinInv
    <3>3. asked'[d] = m /\ c2s'[d] = Append(c2s[d], m)
      BY <1>0, <1>2, <2>3, <3>2 DEF Send, SessionOK, ClientsOK
    <3>4. ~hasty'[d] => c2s[d] = <<>> /\ s2c[d] = <<>>
      BY <1>0, <1>2, <2>3
    <3>5. c2s[d] = <<>> => c2s'[d] = <<m>>
      BY <3>3
    <3> QED
      BY <3>1, <3>2, <3>3, <3>4, <3>5 DEF Waits, Talking
  <2>4. CASE \E n \in FileName : Put(d, n) /\ UNCHANGED hasty
    BY <1>2, <2>4 DEF Put, Waits, Talking, clientVars, serverVars, auxVars
  <2>5. CASE WinReadReply(d)
    <3>1. asked'[d] = None
      BY <1>0, <1>2, <2>5 DEF WinReadReply, TakeReply, SessionOK, ClientsOK
    <3> QED
      BY <3>1 DEF Waits
  <2>6. CASE WinMisread(d)
    <3>1. hasty'[d] /\ status'[d] = "up"
      BY <1>2, <2>6, NotMisled DEF WinMisread, Misled, Waits
    <3> QED
      BY <3>1 DEF Waits
  <2> QED
    BY <1>4, <2>1, <2>2, <2>3, <2>4, <2>5, <2>6 DEF WinStep, WinRead, ReadLine
<1>5. ASSUME NEW c \in Client, Handle(c), UNCHANGED hasty PROVE Waits(d)'
  <2>1. UNCHANGED clientVars
    BY <1>0, <1>5, HandleMoves DEF SessionOK
  <2>2. asked[d] # None /\ ~hasty[d] => Talking(d)'
    BY <1>0, <1>2, <1>5, TalkingHandle DEF SessionOK, Waits
  <2> QED
    BY <1>2, <1>5, <2>1, <2>2 DEF Waits, clientVars
<1>6. ASSUME NEW u \in uploads, StoreUpload(u), UNCHANGED hasty PROVE Waits(d)'
  BY <1>2, <1>6 DEF StoreUpload, Waits, Talking, clientVars, serverVars, auxVars
<1>7. CASE UNCHANGED winVars
  BY <1>2, <1>7 DEF winVars, vars, Waits, Talking, clientVars, serverVars, auxVars
<1> QED
  BY <1>2, <1>3, <1>4, <1>5, <1>6, <1>7, WindowsAssumption DEF WinNext

\* Before the first connection nobody waits.
LEMMA WaitInit ==
  ASSUME SessionAssumption, WindowsAssumption, WinInit
  PROVE  WaitInv
<1>1. WinInv
  BY WinTypeInit
<1> QED
  BY <1>1, WindowsAssumption DEF WaitInv, Waits, WinInit, Init

\* A reply to a client that asks and waits has the shape it expects.
LEMMA WaitFits ==
  ASSUME WindowsAssumption, WaitInv
  PROVE  ResyncWhenQuiet
<1>1. SUFFICES ASSUME NEW c \in Windows, asked[c] # None, ~hasty[c], s2c[c] # <<>>,
                      NEW need, need = Needs(asked[c], Head(s2c[c]))
               PROVE  Len(s2c[c]) >= Len(need) /\ Agree(s2c[c], need)
  BY DEF ResyncWhenQuiet
<1>2. c \in Client /\ Talking(c)
  BY <1>1, WindowsAssumption DEF WaitInv, Waits
<1>3. Agree(s2c[c], need) /\ Len(need) \in 1 .. Len(s2c[c])
  BY <1>1, <1>2, TalkingAnswered
<1>4. Len(s2c[c]) \in Nat
  BY <1>2, LenProperties DEF WaitInv, WinInv
<1> QED
  BY <1>3, <1>4

(***************************************************************************)
(* A Windows user who waits until everything has been printed is back in   *)
(* step, whatever a failed cd has left behind                              *)
(* (win_ftp_client_cmd.c:74-147): the next reply is read as the handler of *)
(* its command expects it.                                                 *)
(***************************************************************************)
THEOREM QuietUsersResync == WinSpec => []ResyncWhenQuiet
<1>1. WinInit => WaitInv
  BY WaitInit, SessionAssumption, WindowsAssumption
<1>2. WaitInv /\ [WinNext]_winVars => WaitInv'
  BY WaitStep, SessionAssumption, WindowsAssumption
<1>3. WaitInv => ResyncWhenQuiet
  BY WaitFits, WindowsAssumption
<1> QED
  BY <1>1, <1>2, <1>3, PTL DEF WinSpec

-----------------------------------------------------------------------------
(* put and rm *)

\* The number n is that of a row of user u with the user's own name.
AtHome(u, n) == \E r \in NamedRows(u, u) : r.no = n

\* So is the number that a login is about to send, and the one that put and rm
\* carry after it.
Home(c) ==
  /\ ~isLogin[c] /\ status[c] # "gone" /\ clientName[c] # None => AtHome(clientName[c], curNo[c])
  /\ isLogin[c] => AtHome(userName[c], preDirNo[c])

\* The invariant of put and rm.
HomeInv == WinInv /\ (~removed => \A c \in Windows : Home(c))

\* A row that stays keeps its number.
LEMMA AtHomeStays ==
  ASSUME files \subseteq files', NEW u, NEW n, AtHome(u, n)
  PROVE  AtHome(u, n)'
  BY DEF AtHome, NamedRows

\* A client whose session does not move stays at home.
LEMMA HomeUnmoved ==
  ASSUME files \subseteq files', NEW d, Home(d),
         isLogin'[d] = isLogin[d], status[d] = "gone" => status'[d] = "gone",
         clientName'[d] = clientName[d], curNo'[d] = curNo[d],
         userName'[d] = userName[d], preDirNo'[d] = preDirNo[d]
  PROVE  Home(d)'
<1> DEFINE name == clientName[d]
           no == curNo[d]
           user == userName[d]
           dir == preDirNo[d]
<1>1. AtHome(name, no) => \E r \in files' : r.owner = name /\ r.fileName = name /\ r.no = no
  BY DEF AtHome, NamedRows
<1>2. AtHome(user, dir) => \E r \in files' : r.owner = user /\ r.fileName = user /\ r.no = dir
  BY DEF AtHome, NamedRows
<1> QED
  BY <1>1, <1>2 DEF Home, AtHome, NamedRows

\* A handler changes the session of a client without a login only by a login,
\* to a row of the user's own name (cmd_handle_server.c:38-60).
LEMMA HomeHandle ==
  ASSUME WinInv, NEW c \in Client, Handle(c), files \subseteq files', NEW d \in Client, Home(d)
  PROVE  Home(d)'
<1> USE DEF WinInv, EntryInv, SessionOK
<1>1. UNCHANGED clientVars
  BY HandleMoves
<1>2. CASE d # c
  <2>1. clientName'[d] = clientName[d] /\ curNo'[d] = curNo[d]
    BY <1>2, HandleMoves
  <2> QED
    BY <1>1, <2>1, HomeUnmoved DEF clientVars
<1>3. CASE d = c /\ UNCHANGED <<clientName, curNo>>
  BY <1>1, <1>3, HomeUnmoved DEF clientVars
<1>4. CASE d = c /\ isLogin[c]
  <2>1. AtHome(userName[c], preDirNo[c])'
    BY <1>1, <1>4, AtHomeStays DEF Home, clientVars, AtHome, NamedRows
  <2> QED
    BY <1>1, <1>4, <2>1 DEF Home, clientVars
<1>5. CASE d = c /\ ~isLogin[c] /\ ~UNCHANGED <<clientName, curNo>>
  <2>1. c2s[c] # <<>> => Head(c2s[c]).op \in EntryOps
    <3>1. c2s[c] # <<>> => 1 \in DOMAIN c2s[c]
      BY EmptySeq, LenProperties DEF ClientsOK
    <3> QED
      BY <1>5, <3>1 DEF Entry
  <2>2. CASE LogIn(c)
    <3>1. PICK r \in NamedRows(Head(c2s[c]).user, Head(c2s[c]).user) :
            /\ clientName' = [clientName EXCEPT ![c] = Head(c2s[c]).user]
            /\ curNo' = [curNo EXCEPT ![c] = r.no]
      BY <1>5, <2>2 DEF LogIn, SessionUnchanged
    <3>2. clientName'[c] = Head(c2s[c]).user /\ curNo'[c] = r.no
      BY <3>1 DEF ServerOK
    <3>3. AtHome(clientName[c], curNo[c])'
      BY <3>1, <3>2 DEF AtHome, NamedRows
    <3> QED
      BY <1>1, <1>5, <3>3 DEF Home, clientVars
  <2>3. CASE HangUp(c)
    BY <1>1, <1>5, <2>3 DEF HangUp, Home, clientVars
  <2> QED
    BY <1>5, <2>1, <2>2, <2>3
       DEF Handle, SignIn, Malformed, Pwd, Mkdir, Ls, Cd, CdUp, Rm, Request, SessionUnchanged, EntryOps
<1> QED
  BY <1>2, <1>3, <1>4, <1>5

\* Only the reply to a login sets the number: cdHandle receives it into a copy
\* (win_ftp_client_cmd.c:131-147).
LEMMA HomeRead ==
  ASSUME SessionAssumption, WinInv, NEW c \in Client, WinReadReply(c), Home(c)
  PROVE  Home(c)'
<1> USE DEF WinInv, EntryInv, SessionOK
<1>1. UNCHANGED <<files, status, clientName, curNo>>
  BY DEF WinReadReply, TakeReply, tableVars, serverVars
<1> DEFINE m == asked[c]
           s == s2c[c]
           need == Needs(m, Head(s))
<1>2. m # None /\ m \in Commands /\ s # <<>> /\ status[c] = "up"
  BY DEF WinReadReply, TakeReply, ClientsOK
<1>3. CASE m.op = "login" /\ IsFlag(s[1], "1")
  <2>1. ~isLogin[c] /\ Talking(c)
    BY <1>2, <1>3 DEF Entry, LoginOps
  <2>2. clientName[c] = m.user /\ m.user \in User /\ m.user # None
    BY <1>2, <1>3, <2>1, LoginAnswered, CommandFields, SessionAssumption
  <2>3. s[Len(need)].payload = curNo[c]
    BY <1>2, <1>3, <2>1, TalkingAnswered
  <2>4. isLogin'[c] /\ userName'[c] = clientName[c] /\ preDirNo'[c] = curNo[c]
    BY <1>3, <2>2, <2>3 DEF WinReadReply, WinDirOps, TakeReply, ClientsOK
  <2>5. AtHome(clientName[c], curNo[c])
    BY <1>2, <2>1, <2>2 DEF Home
  <2>6. AtHome(userName[c], preDirNo[c])'
    BY <1>1, <2>4, <2>5 DEF AtHome, NamedRows
  <2> QED
    BY <2>4, <2>6 DEF Home
<1>4. CASE ~(m.op = "login" /\ IsFlag(s[1], "1"))
  <2>1. UNCHANGED <<isLogin, userName, preDirNo>>
    BY <1>4 DEF WinReadReply, WinDirOps, TakeReply
  <2> QED
    BY <1>1, <2>1, HomeUnmoved
<1> QED
  BY <1>3, <1>4

\* Every step keeps put and rm at home, until something is removed.
LEMMA HomeStep ==
  ASSUME SessionAssumption, WindowsAssumption, HomeInv, [WinNext]_winVars
  PROVE  HomeInv'
<1>0. WinInv /\ EntryInv /\ SessionOK /\ WinInv'
  BY WinTypeStep DEF HomeInv, WinInv, EntryInv
<1>1. SUFFICES ASSUME ~removed', NEW d \in Windows PROVE Home(d)'
  BY <1>0 DEF HomeInv
<1>2. d \in Client
  BY WindowsAssumption
<1>3. ASSUME NEW c \in Windows, WinStep(c) PROVE Home(d)'
  <2>1. UNCHANGED <<files, removed, clientName, curNo>>
    BY <1>3 DEF WinStep, WinRead, WinReadReply, WinMisread, ReadLine, DropReplies, Connect, Hello, Quit,
       Send, Put, TakeReply, tableVars, serverVars, auxVars
  <2>2. Home(d)
    BY <1>1, <2>1 DEF HomeInv
  <2>3. CASE WinReadReply(c)
    <3>1. d # c => /\ isLogin'[d] = isLogin[d] /\ status'[d] = status[d]
                   /\ userName'[d] = userName[d] /\ preDirNo'[d] = preDirNo[d]
      BY <1>0, <1>2, <2>3 DEF WinReadReply, TakeReply, SessionOK, ClientsOK
    <3> QED
      BY <1>0, <1>2, <2>1, <2>2, <2>3, <3>1, HomeRead, HomeUnmoved
  <2>4. CASE ~WinReadReply(c)
    <3>1. UNCHANGED <<isLogin, userName, preDirNo>>
      BY <1>3, <2>4 DEF WinStep, WinRead, WinMisread, ReadLine, DropReplies, Connect, Hello, Quit,
         Send, Put, clientVars
    <3>2. status[d] = "gone" => status'[d] = "gone"
      BY <1>0, <1>2, <1>3, <2>4 DEF WinStep, WinRead, WinMisread, ReadLine, DropReplies, Connect, Hello, Quit,
         Send, Put, clientVars, SessionOK, ClientsOK
    <3> QED
      BY <1>2, <2>1, <2>2, <3>1, <3>2, HomeUnmoved
  <2> QED
    BY <2>3, <2>4
<1>4. ASSUME NEW c \in Client \ Windows, ClientStep(c), UNCHANGED hasty PROVE Home(d)'
  <2>1. UNCHANGED <<files, clientName, curNo, removed>> /\ (status[d] = "gone" => status'[d] = "gone")
    BY <1>0, <1>2, <1>4, ClientKeepsSession DEF tableVars
  <2>2. isLogin'[d] = isLogin[d] /\ userName'[d] = userName[d] /\ preDirNo'[d] = preDirNo[d]
    BY <1>0, <1>2, <1>4 DEF ClientStep, Connect, Hello, Quit, Send, Put, Read, ReadReply, TakeReply, LoseTrack,
       clientVars, SessionOK, ClientsOK
  <2> QED
    BY <1>1, <2>1, <2>2, HomeUnmoved DEF HomeInv
<1>5. ASSUME NEW c \in Client, Handle(c) PROVE Home(d)'
  <2>1. ~removed /\ files \subseteq files'
    BY <1>0, <1>1, <1>5, HandleRowsStay
  <2> QED
    BY <1>0, <1>1, <1>2, <1>5, <2>1, HomeHandle DEF HomeInv
<1>6. ASSUME NEW u \in uploads, StoreUpload(u) PROVE Home(d)'
  <2>1. ~removed /\ files \subseteq files'
    BY <1>1, <1>6, StoreRowsStay
  <2> QED
    BY <1>1, <1>6, <2>1, HomeUnmoved DEF HomeInv, StoreUpload, serverVars, clientVars
<1>7. CASE UNCHANGED winVars
  BY <1>1, <1>7, HomeUnmoved DEF HomeInv, winVars, vars, tableVars, serverVars, clientVars, auxVars
<1> QED
  BY <1>3, <1>4, <1>5, <1>6, <1>7 DEF WinNext

\* Before the first connection nobody is logged in.
LEMMA HomeInit ==
  ASSUME SessionAssumption, WindowsAssumption, WinInit
  PROVE  HomeInv
<1>1. WinInv
  BY WinTypeInit
<1> QED
  BY <1>1, WindowsAssumption DEF HomeInv, Home, WinInit, Init

(***************************************************************************)
(* Until something is removed, put and rm of a Windows client act on a     *)
(* directory with the user's own name wherever cd has taken the session    *)
(* (win_ftp_client_cmd.c:131-147), which pwd, ls and mkdir follow.         *)
(***************************************************************************)
THEOREM PutsGoHome == WinSpec => []WinActsAtHome
<1>1. WinInit => HomeInv
  BY HomeInit, SessionAssumption, WindowsAssumption
<1>2. HomeInv /\ [WinNext]_winVars => HomeInv'
  BY HomeStep, SessionAssumption, WindowsAssumption
<1>3. HomeInv => WinActsAtHome
  BY DEF HomeInv, Home, AtHome, WinActsAtHome
<1> QED
  BY <1>1, <1>2, <1>3, PTL DEF WinSpec
=============================================================================
