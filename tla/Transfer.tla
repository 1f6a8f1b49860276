------------------------------- MODULE Transfer -------------------------------
(***************************************************************************)
(* Uploads and downloads: the client's transfer thread (src/ftp_client/    *)
(* child_pthread.c, send_recv_file.c) and what a worker does with its task *)
(* (src/ftp_server/work_factory.c:24-86, send_recv_file.c).                *)
(*                                                                         *)
(* The queue and the threads are the abstract pool of TaskPool, which      *)
(* WorkFactory implements.  A client makes one transfer.  It sends its     *)
(* items in a fixed order and sent[c] counts them: 1 the request that      *)
(* becomes the task, 2 the user name, 3 the directory, 4 the MD5 (put      *)
(* only), 5 the name and the size of the file, then the blocks.  An item   *)
(* arrives whole or not at all.  The MD5 of a content stands for the       *)
(* content, and all contents have NBlocks blocks.                          *)
(*                                                                         *)
(* All workers share one MySQL connection, factory->mysql, without a lock. *)
(* Each library call is one step: while the result of a SELECT waits to be *)
(* stored any other statement fails ("commands out of sync"), and whoever  *)
(* calls mysql_store_result first gets it.                                 *)
(***************************************************************************)
EXTENDS Integers, Sequences, FiniteSets

CONSTANTS
  Worker, Client,
  User, Dir, Name, Content,
  Wanted,   \* bound: the transfers that clients ask for
  NBlocks,  \* bound: the blocks of a file
  Unset,    \* an empty string, a zero, or a block of zeros
  None,     \* no task, no answer
  Absent,   \* there is no such file on the server
  MayDie    \* clients may fail: be killed, or give up, in the middle of a transfer

VARIABLES
  request, sent, dead,  \* each client: its transfer, the items sent, whether killed
  stalled,              \* each client: it has given up and keeps its connection
  answer,               \* the last one-character answer sent to each client
  got,                  \* the file each client has downloaded
  waiting, serving,     \* the thread pool
  pc, usrName, preDirNo, fileMd5Value, res, blk,  \* the locals of each worker
  conn,                 \* the result that waits on factory->mysql, if any: <<>> or <<rows>>
  rows,                 \* the files in files_info
  store,                \* the directory file/: the blocks of each file
  crashed

clientVars == <<request, sent, dead, stalled, got>>
poolVars == <<waiting, serving>>
itemVars == <<usrName, preDirNo, fileMd5Value>>
diskVars == <<conn, rows, store>>
vars == <<clientVars, answer, poolVars, pc, itemVars, res, blk, diskVars, crashed>>

Put == [kind : {"put"}, user : User, dir : Dir, name : Name, md5 : Content]
Get == [kind : {"get"}, user : User, dir : Dir, name : Name]

Row == [owner : User \cup {Unset}, dir : Dir \cup {Unset}, name : Name,
        md5 : Content \cup {Unset}]

ASSUME TransferAssumption ==
  /\ Wanted \subseteq Put \cup Get
  /\ NBlocks \in Nat \ {0}
  /\ None \notin Client /\ None \notin {"0", "1", "Y", "N"}
  /\ Unset \notin User \cup Dir \cup Content
  /\ Absent \notin Seq(Content \cup {Unset})
  /\ MayDie \in BOOLEAN

Pool == INSTANCE TaskPool WITH Task <- Client, Idle <- None,
                               Capacity <- Cardinality(Client)

\* The blocks of a complete file.
Whole(md5) == [i \in 1 .. NBlocks |-> md5]

Init ==
  /\ request \in [Client -> Wanted]
  /\ sent = [c \in Client |-> 0]
  /\ dead = [c \in Client |-> FALSE]
  /\ stalled = [c \in Client |-> FALSE]
  /\ answer = [c \in Client |-> None]
  /\ got = [c \in Client |-> None]
  /\ Pool!Init
  /\ pc = [w \in Worker |-> "idle"]
  /\ usrName = [w \in Worker |-> Unset]
  /\ preDirNo = [w \in Worker |-> Unset]
  /\ fileMd5Value = [w \in Worker |-> Unset]
  /\ res = [w \in Worker |-> {}]
  /\ blk = [w \in Worker |-> 0]
  /\ conn = <<>>
  /\ rows = {}
  /\ store = [n \in Name |-> Absent]
  /\ crashed = FALSE

-----------------------------------------------------------------------------
(* The client. *)

IsPut(c) == request[c].kind = "put"

\* The items a client sends without waiting, and all of them.
Unasked(c) == IF IsPut(c) THEN 4 ELSE 3
Items(c) == IF IsPut(c) /\ answer[c] = "0" THEN 5 + NBlocks ELSE Unasked(c)

\* The first item becomes a task in the queue.
Begin(c) ==
  /\ ~crashed
  /\ sent[c] = 0
  /\ Pool!Accept(c)
  /\ sent' = [sent EXCEPT ![c] = 1]
  /\ UNCHANGED <<request, dead, stalled, got, answer, pc, itemVars, res, blk, diskVars, crashed>>

\* Mutant of Send: one item more than there are.
SendOneMore(c) ==
  /\ ~crashed /\ ~dead[c] /\ ~stalled[c]
  /\ sent[c] \in 1 .. Items(c)
  /\ sent' = [sent EXCEPT ![c] = @ + 1]
  /\ UNCHANGED <<request, dead, stalled, got, answer, poolVars, pc, itemVars, res, blk,
                 diskVars, crashed>>

\* Only the answer "0" makes the client of a put send the file.
Send(c) ==
  /\ ~crashed /\ ~dead[c] /\ ~stalled[c]
  /\ sent[c] \in 1 .. Items(c) - 1
  /\ sent' = [sent EXCEPT ![c] = @ + 1]
  /\ UNCHANGED <<request, dead, stalled, got, answer, poolVars, pc, itemVars, res, blk,
                 diskVars, crashed>>

\* The client is killed before its transfer is over.
Die(c) ==
  /\ MayDie /\ ~crashed /\ ~dead[c]
  /\ sent[c] > 0
  /\ \/ sent[c] < Items(c)
     \/ answer[c] = None
     \/ answer[c] = "Y" /\ got[c] = None
  /\ dead' = [dead EXCEPT ![c] = TRUE]
  /\ UNCHANGED <<request, sent, stalled, got, answer, poolVars, pc, itemVars, res, blk,
                 diskVars, crashed>>

\* The file of a put cannot be opened: the thread returns without closing the
\* connection, which stays open as long as the client lives.
GiveUp(c) ==
  /\ MayDie /\ ~crashed /\ ~dead[c] /\ ~stalled[c]
  /\ IsPut(c) /\ sent[c] = 3
  /\ stalled' = [stalled EXCEPT ![c] = TRUE]
  /\ UNCHANGED <<request, sent, dead, got, answer, poolVars, pc, itemVars, res, blk,
                 diskVars, crashed>>

-----------------------------------------------------------------------------
(* The worker: what it receives. *)

Task(w) == request[serving[w]]

At(w, l) == pc[w] = l /\ ~crashed
Goto(w, l) == pc' = [pc EXCEPT ![w] = l]

Arrived(w, k) == sent[serving[w]] >= k

\* Mutant of Lost: recvCycle does not stop at the end of the connection.
LostNever(w, k) == FALSE

\* recvCycle returns -1, which no caller looks at.
Lost(w, k) == dead[serving[w]] /\ ~Arrived(w, k)

\* Item k goes into a local, which is left as it was if the client is gone.
RecvItem(w, k, local, value) ==
  IF Arrived(w, k) THEN [local EXCEPT ![w] = value] ELSE local

\* Mutant of TakeTask: usrName is not cleared between two tasks.
TakeTaskKeep(w) ==
  /\ At(w, "idle")
  /\ Pool!HandOut(w)
  /\ Goto(w, "user")
  /\ UNCHANGED <<clientVars, answer, itemVars, res, blk, diskVars, crashed>>

\* Of the locals only usrName is cleared between two tasks.
TakeTask(w) ==
  /\ At(w, "idle")
  /\ Pool!HandOut(w)
  /\ usrName' = [usrName EXCEPT ![w] = Unset]
  /\ Goto(w, "user")
  /\ UNCHANGED <<clientVars, answer, preDirNo, fileMd5Value, res, blk, diskVars, crashed>>

RecvUser(w) ==
  /\ At(w, "user")
  /\ Arrived(w, 2) \/ Lost(w, 2)
  /\ usrName' = RecvItem(w, 2, usrName, Task(w).user)
  /\ Goto(w, "dir")
  /\ UNCHANGED <<clientVars, answer, poolVars, preDirNo, fileMd5Value, res, blk,
                 diskVars, crashed>>

RecvDir(w) ==
  /\ At(w, "dir")
  /\ Arrived(w, 3) \/ Lost(w, 3)
  /\ preDirNo' = RecvItem(w, 3, preDirNo, Task(w).dir)
  /\ Goto(w, IF IsPut(serving[w]) THEN "md5" ELSE "query")
  /\ UNCHANGED <<clientVars, answer, poolVars, usrName, fileMd5Value, res, blk,
                 diskVars, crashed>>

\* Mutant of RecvMd5: there is no query before mysql_store_result.
RecvMd5NoQuery(w) ==
  /\ At(w, "md5")
  /\ Arrived(w, 4) \/ Lost(w, 4)
  /\ fileMd5Value' = RecvItem(w, 4, fileMd5Value, Task(w).md5)
  /\ Goto(w, "result")
  /\ UNCHANGED <<clientVars, answer, poolVars, usrName, preDirNo, res, blk,
                 diskVars, crashed>>

\* Only put has an MD5.
RecvMd5(w) ==
  /\ At(w, "md5")
  /\ Arrived(w, 4) \/ Lost(w, 4)
  /\ fileMd5Value' = RecvItem(w, 4, fileMd5Value, Task(w).md5)
  /\ Goto(w, "query")
  /\ UNCHANGED <<clientVars, answer, poolVars, usrName, preDirNo, res, blk,
                 diskVars, crashed>>

-----------------------------------------------------------------------------
(* The worker: the database and the answer. *)

\* Mutants of Selected: a download looks at every user's files; a put looks at
\* the files of its user only.
SelectedAnyOwner(w) ==
  {r \in rows : IF IsPut(serving[w]) THEN r.md5 = fileMd5Value[w]
                ELSE r.name = Task(w).name}

SelectedOwn(w) ==
  {r \in rows : /\ r.owner = usrName[w]
                /\ IF IsPut(serving[w]) THEN r.md5 = fileMd5Value[w]
                   ELSE r.name = Task(w).name /\ r.dir = preDirNo[w]}

\* put: where MD5 = ...; get: where fileName = ... and preNo = ... and owner = ...
Selected(w) ==
  {r \in rows :
     IF IsPut(serving[w]) THEN r.md5 = fileMd5Value[w]
     ELSE r.name = Task(w).name /\ r.dir = preDirNo[w] /\ r.owner = usrName[w]}

\* mysqlCrud with a SELECT.  If it fails the caller does not notice.
Query(w) ==
  /\ At(w, "query")
  /\ conn' = IF conn = <<>> THEN <<Selected(w)>> ELSE conn
  /\ Goto(w, "result")
  /\ UNCHANGED <<clientVars, answer, poolVars, itemVars, res, blk, rows, store, crashed>>

\* mysql_store_result: when there is nothing to store it is a null pointer,
\* which mysql_num_rows and mysql_fetch_row follow.
StoreResult(w) ==
  /\ At(w, "result")
  /\ IF conn = <<>>
       THEN crashed' = TRUE /\ UNCHANGED res
       ELSE res' = [res EXCEPT ![w] = Head(conn)] /\ UNCHANGED crashed
  /\ conn' = <<>>
  /\ Goto(w, IF IsPut(serving[w]) THEN "decide" ELSE "reply")
  /\ UNCHANGED <<clientVars, answer, poolVars, itemVars, blk, rows, store>>

\* Any send but the first to a client that has gone can raise SIGPIPE, which
\* nothing catches.
Answer(w, x) ==
  LET c == serving[w] IN
    /\ answer' = [answer EXCEPT ![c] = x]
    /\ \/ UNCHANGED crashed
       \/ dead[c] /\ answer[c] # None /\ crashed' = TRUE

\* Mutant of Decide: a content that only others own is not linked.
DecideUnlinked(w) ==
  /\ At(w, "decide")
  /\ Answer(w, IF res[w] # {} THEN "1" ELSE "0")
  /\ Goto(w, IF res[w] # {} THEN "close" ELSE "header")
  /\ UNCHANGED <<clientVars, poolVars, itemVars, res, blk, diskVars>>

\* A put.  The first row of the user's own decides: nothing is left to do if
\* it is in the same directory.  With rows of others only the answer follows
\* the INSERT, and without any row the file has to be sent.
Decide(w) ==
  LET own == {r \in res[w] : r.owner = usrName[w]} IN
    /\ At(w, "decide")
    /\ \/ \E r \in own :
            /\ Answer(w, "1")
            /\ Goto(w, IF r.dir = preDirNo[w] THEN "close" ELSE "link")
       \/ /\ own = {} /\ res[w] # {}
          /\ Goto(w, "link")
          /\ UNCHANGED <<answer, crashed>>
       \/ /\ res[w] = {}
          /\ Answer(w, "0")
          /\ Goto(w, "header")
    /\ UNCHANGED <<clientVars, poolVars, itemVars, res, blk, diskVars>>

NewRow(w) == [owner |-> usrName[w], dir |-> preDirNo[w], name |-> Task(w).name,
              md5 |-> fileMd5Value[w]]

\* mysqlCrud with an INSERT.  If it fails the caller does not notice.
InsertRow(w) == rows' = IF conn = <<>> THEN rows \cup {NewRow(w)} ELSE rows

\* The instant upload: another row for a file that is stored.
Link(w) ==
  /\ At(w, "link")
  /\ InsertRow(w)
  /\ Answer(w, "1")
  /\ Goto(w, "close")
  /\ UNCHANGED <<clientVars, poolVars, itemVars, res, blk, conn, store>>

-----------------------------------------------------------------------------
(* The worker: recvFile, which keeps files by their names alone. *)

\* ftruncate keeps what is there and pads it with zeros.
Resized(f) ==
  [i \in 1 .. NBlocks |-> IF f # Absent /\ i <= Len(f) THEN f[i] ELSE Unset]

\* Without a size from the client the file is cut to nothing, the mmap of no
\* bytes fails and recvFile returns -1, which is inserted as the size.
RecvHeader(w) ==
  LET n == Task(w).name IN
    /\ At(w, "header")
    /\ \/ /\ Arrived(w, 5)
          /\ store' = [store EXCEPT ![n] = Resized(@)]
          /\ blk' = [blk EXCEPT ![w] = 1]
          /\ Goto(w, "blocks")
       \/ /\ Lost(w, 5)
          /\ store' = [store EXCEPT ![n] = <<>>]
          /\ Goto(w, "insert")
          /\ UNCHANGED blk
    /\ UNCHANGED <<clientVars, answer, poolVars, itemVars, res, conn, rows, crashed>>

\* Mutant of RecvBlock: the last block is not waited for.
RecvBlockShort(w) ==
  LET n == Task(w).name IN
    /\ At(w, "blocks")
    /\ Arrived(w, 5 + blk[w]) \/ Lost(w, 5 + blk[w])
    /\ store' = IF Arrived(w, 5 + blk[w]) THEN [store EXCEPT ![n][blk[w]] = Task(w).md5]
                ELSE store
    /\ blk' = [blk EXCEPT ![w] = @ + 1]
    /\ Goto(w, IF Lost(w, 5 + blk[w]) \/ blk[w] + 1 >= NBlocks THEN "insert" ELSE "blocks")
    /\ UNCHANGED <<clientVars, answer, poolVars, itemVars, res, conn, rows, crashed>>

\* The blocks go straight into the mapping.  If another worker has cut the
\* file meanwhile, recv answers EFAULT, recvCycle takes the -1 for a count
\* and walks backwards out of the mapping.
RecvBlock(w) ==
  LET n == Task(w).name IN
    /\ At(w, "blocks")
    /\ \/ /\ Arrived(w, 5 + blk[w])
          /\ blk[w] <= Len(store[n])
          /\ store' = [store EXCEPT ![n][blk[w]] = Task(w).md5]
          /\ blk' = [blk EXCEPT ![w] = @ + 1]
          /\ Goto(w, IF blk[w] = NBlocks THEN "insert" ELSE "blocks")
          /\ UNCHANGED crashed
       \/ /\ Arrived(w, 5 + blk[w])
          /\ blk[w] > Len(store[n])
          /\ crashed' = TRUE
          /\ UNCHANGED <<store, blk, pc>>
       \/ /\ Lost(w, 5 + blk[w])
          /\ Goto(w, "insert")
          /\ UNCHANGED <<store, blk, crashed>>
    /\ UNCHANGED <<clientVars, answer, poolVars, itemVars, res, conn, rows>>

\* The row is inserted whatever recvFile has returned.
Insert(w) ==
  /\ At(w, "insert")
  /\ InsertRow(w)
  /\ Goto(w, "close")
  /\ UNCHANGED <<clientVars, answer, poolVars, itemVars, res, blk, conn, store, crashed>>

-----------------------------------------------------------------------------
(* The worker: a get. *)

Reply(w) ==
  /\ At(w, "reply")
  /\ Answer(w, IF res[w] # {} THEN "Y" ELSE "N")
  /\ Goto(w, IF res[w] # {} THEN "sendFile" ELSE "close")
  /\ UNCHANGED <<clientVars, poolVars, itemVars, res, blk, diskVars>>

\* The client writes what arrives to a file of its own.
RecvFile(c, f) == got' = [got EXCEPT ![c] = f]

\* What is sent is the file of that name as it is now.  If there is none, the
\* client is sent a size out of an uninitialised stat and no content.
SendFile(w) ==
  LET c == serving[w] IN
    /\ At(w, "sendFile")
    /\ IF dead[c]
         THEN crashed' \in BOOLEAN /\ UNCHANGED got
         ELSE RecvFile(c, store[Task(w).name]) /\ UNCHANGED crashed
    /\ Goto(w, "close")
    /\ UNCHANGED <<request, sent, dead, stalled, answer, poolVars, itemVars, res, blk, diskVars>>

Close(w) ==
  /\ At(w, "close")
  /\ Pool!Finish(w)
  /\ Goto(w, "idle")
  /\ UNCHANGED <<clientVars, answer, itemVars, res, blk, diskVars, crashed>>

-----------------------------------------------------------------------------
WorkerStep(w) ==
  \/ TakeTask(w) \/ RecvUser(w) \/ RecvDir(w) \/ RecvMd5(w)
  \/ Query(w) \/ StoreResult(w) \/ Decide(w) \/ Link(w)
  \/ RecvHeader(w) \/ RecvBlock(w) \/ Insert(w)
  \/ Reply(w) \/ SendFile(w) \/ Close(w)

Next ==
  \/ \E c \in Client : Begin(c) \/ Send(c) \/ Die(c) \/ GiveUp(c)
  \/ \E w \in Worker : WorkerStep(w)

Spec == Init /\ [][Next]_vars

(***************************************************************************)
(* The scheduler runs the workers, and a client that has begun a transfer  *)
(* and does not fail goes on sending.  Nobody has to begin or to fail.     *)
(***************************************************************************)
FairSpec ==
  Spec /\ (\A c \in Client : WF_vars(Send(c)))
       /\ (\A w \in Worker : WF_vars(WorkerStep(w)))

-----------------------------------------------------------------------------
\* Clients, workers, the tables and the disk keep to their types.
TypeOK ==
  /\ request \in [Client -> Wanted]
  /\ sent \in [Client -> 0 .. 5 + NBlocks]
  /\ dead \in [Client -> BOOLEAN]
  /\ stalled \in [Client -> BOOLEAN]
  /\ answer \in [Client -> {None, "0", "1", "Y", "N"}]
  /\ got \in [Client -> Seq(Content \cup {Unset}) \cup {None, Absent}]
  /\ waiting \in Seq(Client)
  /\ serving \in [Worker -> Client \cup {None}]
  /\ pc \in [Worker -> {"idle", "user", "dir", "md5", "query", "result", "decide", "link",
                       "header", "blocks", "insert", "reply", "sendFile", "close"}]
  /\ \A w \in Worker : pc[w] = "idle" <=> serving[w] = None
  /\ usrName \in [Worker -> User \cup {Unset}]
  /\ preDirNo \in [Worker -> Dir \cup {Unset}]
  /\ fileMd5Value \in [Worker -> Content \cup {Unset}]
  /\ res \in [Worker -> SUBSET Row]
  /\ blk \in [Worker -> 0 .. NBlocks + 1]
  /\ conn \in Seq(SUBSET Row)
  /\ rows \subseteq Row
  /\ store \in [Name -> Seq(Content \cup {Unset}) \cup {Absent}]
  /\ crashed \in BOOLEAN

\* The transfer of c has been accepted and the server is done with it.
Finished(c) ==
  /\ sent[c] > 0
  /\ \A i \in DOMAIN waiting : waiting[i] # c
  /\ \A w \in Worker : serving[w] # c

NobodyDied == \A c \in Client : ~dead[c]

\* The clients give equal names to equal contents and no others.
NamesUnambiguous ==
  \A c, d \in Client : IsPut(c) /\ IsPut(d) =>
    (request[c].name = request[d].name <=> request[c].md5 = request[d].md5)

(***************************************************************************)
(* Every upload is recorded: when the server is done with the put of a     *)
(* client that has lived to see it, a row gives its user this content in   *)
(* this directory, whichever way the put has taken and whoever else has    *)
(* been killed ("put: put fileName", readme.md:17).                        *)
(***************************************************************************)
UploadRecorded ==
  \A c \in Client : IsPut(c) /\ ~dead[c] /\ Finished(c) =>
    \E r \in rows : /\ r.owner = request[c].user
                    /\ r.dir = request[c].dir
                    /\ r.md5 = request[c].md5

(***************************************************************************)
(* The locals that a worker keeps from one task to the next never give a   *)
(* file to the user of another task: a row belongs to a user who has put a *)
(* file of that name, or to nobody if the client was lost before it had    *)
(* sent the user name.                                                     *)
(***************************************************************************)
OwnerPutIt ==
  \A r \in rows : \E c \in Client :
    IsPut(c) /\ request[c].name = r.name /\ r.owner \in {request[c].user, Unset}

(***************************************************************************)
(* The row comes after the content: as long as names are unambiguous, the  *)
(* file of every row is complete on the disk, unless a client was killed   *)
(* in the put of a file of that name.  So an instant upload never refers   *)
(* to a content that is still on its way.                                  *)
(***************************************************************************)
ContentBeforeRow ==
  NamesUnambiguous =>
    \A r \in rows :
      \/ store[r.name] = Whole(r.md5)
      \/ \E c \in Client : IsPut(c) /\ dead[c] /\ request[c].name = r.name

(***************************************************************************)
(* A content is asked for once: of the clients that put the same content   *)
(* and live, at most one has to send it.                                   *)
(***************************************************************************)
SentOnce ==
  \A c, d \in Client :
    /\ c # d /\ ~dead[c] /\ ~dead[d]
    /\ IsPut(c) /\ IsPut(d) /\ request[c].md5 = request[d].md5
    => ~(answer[c] = "0" /\ answer[d] = "0")

\* The client has downloaded the content of a file that its user has there.
GotOwnFile(c) ==
  \E r \in rows : /\ r.owner = request[c].user
                  /\ r.dir = request[c].dir
                  /\ r.name = request[c].name
                  /\ got[c] = Whole(r.md5)

\* A download is intact if nobody was killed and names are unambiguous.
DownloadIntact ==
  NobodyDied /\ NamesUnambiguous => \A c \in Client : got[c] # None => GotOwnFile(c)

\* The server dies only of a client that was killed in the middle of its
\* transfer: one worker alone never trips over its own database connection.
DiesOfClients == crashed => ~NobodyDied

\* A client that has given up, and a server whose workers all serve such ones.
Kept(c) == stalled[c] /\ ~dead[c]

AllKept == \A w \in Worker : serving[w] # None /\ Kept(serving[w])

(***************************************************************************)
(* Every transfer comes to an end, also those of clients that are killed,  *)
(* and the others behind them in the queue get their turn.  A client that  *)
(* has given up keeps its worker as long as it lives; nothing moves any    *)
(* more when all workers serve such clients.                               *)
(***************************************************************************)
EveryTransferEnds ==
  \A c \in Client : sent[c] > 0 ~> Finished(c) \/ Kept(c) \/ AllKept \/ crashed

-----------------------------------------------------------------------------
(* What the comments promise and the code does not keep. *)

\* "This user has this file" (work_factory.c:36), said before the file is
\* sent: what is sent to a client that nobody disturbs is that user's file.
SendsUsersFile ==
  NobodyDied => \A c \in Client : got[c] # None => GotOwnFile(c)
=============================================================================
