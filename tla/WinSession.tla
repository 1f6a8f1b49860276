------------------------------ MODULE WinSession ------------------------------
(***************************************************************************)
(* Command sessions of Windows clients (src/win_ftp_client) beside Linux   *)
(* ones, on one server.  A Windows client speaks the same protocol, with   *)
(* three differences that matter here:                                     *)
(*   - at the prompt it waits for its user and for the server together and *)
(*     prints what the server sends, so replies left unread are dropped;   *)
(*   - its user's lines come over a socket of its own and can come before  *)
(*     that has happened;                                                  *)
(*   - cd does not change the directory number that put and rm carry.      *)
(*                                                                         *)
(* A line that arrives in one recv with an earlier one is lost; here it is *)
(* a line that was not typed.                                              *)
(***************************************************************************)
EXTENDS FtpSession

CONSTANT Windows  \* the clients that are Windows clients

ASSUME WindowsAssumption == Windows \subseteq Client

\* Auxiliary: the client sent its last command before everything that was on
\* its way had arrived and had been printed.
VARIABLE hasty

winVars == <<vars, hasty>>

WinInit == Init /\ hasty = [c \in Client |-> FALSE]

-----------------------------------------------------------------------------
\* What is left of a token that has been read in part.
Torn == Token("torn", None)

\* The stream after a read that did not follow the tokens.
Remains(s) ==
  {SubSeq(s, k, Len(s)) : k \in 2 .. Len(s) + 1}
    \cup {<<Torn>> \o SubSeq(s, k, Len(s)) : k \in 2 .. Len(s) + 1}

\* select: the socket of the server is readable.  A send arrives whole; a
\* recv of several is several steps.
DropReplies(c) ==
  /\ AtPrompt(c)
  /\ s2c[c] # <<>>
  /\ s2c' = [s2c EXCEPT ![c] = Tail(@)]
  /\ UNCHANGED <<tableVars, serverVars, c2s, clientVars, uploads, crashed, auxVars, hasty>>

\* select: the user's socket is readable.  Of put only the row matters here;
\* main waits until the transfer is over.
ReadLine(c) ==
  \/ /\ \E m \in EntryCommand \cup FileCommand(c) : Send(c, m)
     /\ hasty' = [hasty EXCEPT ![c] = s2c[c] # <<>> \/ c2s[c] # <<>>]
  \/ /\ \E n \in FileName : Put(c, n)
     /\ UNCHANGED hasty

\* Mutant of WinDirOps: cd passes the number on.
WinDirOpsCd == CdOps \cup {"login"}

\* cdHandle has the address of preDirNo and receives into its own copy of
\* that address.
WinDirOps == {"login"}

WinReadReply(c) == TakeReply(c, WinDirOps) /\ UNCHANGED hasty

\* Mutant of WinMisread: everything that comes later is lost as well.
WinMisreadLoses(c) == LoseTrack(c) /\ UNCHANGED hasty

\* A handler that has read something else returns to the prompt, or waits for
\* more.
WinMisread(c) ==
  /\ Misled(c)
  /\ \E rest \in Remains(s2c[c]) : s2c' = [s2c EXCEPT ![c] = rest]
  /\ asked' \in {asked, [asked EXCEPT ![c] = None]}
  /\ UNCHANGED <<tableVars, serverVars, c2s, status, isLogin, userName, preDirNo,
                 uploads, crashed, auxVars, hasty>>

WinRead(c) == WinReadReply(c) \/ WinMisread(c)

WinStep(c) ==
  \/ (Connect(c) \/ Hello(c) \/ Quit(c)) /\ UNCHANGED hasty
  \/ DropReplies(c) \/ ReadLine(c) \/ WinRead(c)

-----------------------------------------------------------------------------
WinNext ==
  \/ \E c \in Windows : WinStep(c)
  \/ \E c \in Client \ Windows : ClientStep(c) /\ UNCHANGED hasty
  \/ \E c \in Client : Handle(c) /\ UNCHANGED hasty
  \/ \E u \in uploads : StoreUpload(u) /\ UNCHANGED hasty

WinSpec == WinInit /\ [][WinNext]_winVars

(***************************************************************************)
(* epoll_wait returns the ready connections in turn, so a connection with  *)
(* a command waiting is served however many others connect; a client sends *)
(* its first message, or dies, and one that waits for a reply reads it.    *)
(* Users need not type, and uploads may take for ever.                     *)
(***************************************************************************)
WinFairSpec ==
  /\ WinSpec
  /\ \A c \in Client : SF_winVars(Handle(c) /\ UNCHANGED hasty)
                       /\ WF_winVars(Hello(c) /\ UNCHANGED hasty)
  /\ \A c \in Windows : WF_winVars(WinRead(c))
  /\ \A c \in Client \ Windows : WF_winVars(Read(c) /\ UNCHANGED hasty)

-----------------------------------------------------------------------------
\* The types of FtpSession but for tokens read in part; a Windows client never
\* stops reading.
WinTypeOK ==
  /\ TablesOK /\ ServerOK /\ ClientsOK
  /\ s2c \in [Client -> Seq(Sent \cup {Torn})]
  /\ hasty \in [Client -> BOOLEAN]
  /\ \A c \in Windows : status[c] # "garbled"

(***************************************************************************)
(* Whatever a failed cd has left behind, a user who waits until everything *)
(* has been printed is back in step with the server: the reply that comes  *)
(* has the shape that the handler of the command expects.                  *)
(***************************************************************************)
ResyncWhenQuiet ==
  \A c \in Windows :
    asked[c] # None /\ ~hasty[c] /\ s2c[c] # <<>> =>
      LET s == s2c[c]
          need == Needs(asked[c], Head(s))
      IN Len(s) >= Len(need) /\ Agree(s, need)

(***************************************************************************)
(* The put and the rm of a Windows client act on the directory its user    *)
(* logged in to, one with the user's own name, wherever cd has taken the   *)
(* session, which pwd, ls and mkdir follow.                                *)
(***************************************************************************)
WinActsAtHome ==
  \A c \in Windows :
    isLogin[c] /\ ~removed =>
      \E r \in NamedRows(userName[c], userName[c]) : r.no = preDirNo[c]

(***************************************************************************)
(* Every command of either client is answered, but for a login without an  *)
(* @ and what a Windows user types before the last reply has been printed. *)
(***************************************************************************)
EveryOneAnswered ==
  \A c \in Client :
    asked[c] # None /\ asked[c] # [op |-> "badLogin"] /\ ~hasty[c]
      ~> asked[c] = None \/ crashed
=============================================================================
