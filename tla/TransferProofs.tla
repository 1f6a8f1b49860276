---------------------------- MODULE TransferProofs ----------------------------
(***************************************************************************)
(* Transfers, for any number of workers, clients, blocks and lost clients. *)
(*                                                                         *)
(* However many workers share the database connection, what one of them    *)
(* keeps from one task to the next never gives a file to the wrong user    *)
(* (OwnerInv), and the types hold (TypeInv).                               *)
(*                                                                         *)
(* The other properties need a worker that has the connection for itself:  *)
(* with two of them a result can be read by the wrong worker, and the run  *)
(* shared_mysql refutes them. Under the hypothesis OneWorker the waiting   *)
(* result is the worker's own (AloneInv); on this rest RecordInv, with a   *)
(* row for every put that has ended, and ContentInv, with a complete file  *)
(* for every row.                                                          *)
(***************************************************************************)
EXTENDS Transfer, SequenceTheorems, TLAPS

\* Where a worker is when it serves a put only.
PutPc == {"md5", "decide", "link", "header", "blocks", "insert"}

\* Where a worker is.
PcType ==
  {"idle", "user", "dir", "query", "result", "reply", "sendFile", "close"} \cup PutPc

\* What the steps of clients and workers keep up.
OwnerType ==
  /\ request \in [Client -> Wanted]
  /\ waiting \in Seq(Client)
  /\ serving \in [Worker -> Client \cup {None}]
  /\ pc \in [Worker -> PcType]
  /\ usrName \in [Worker -> User \cup {Unset}]

\* A worker that is not idle has a task, a put where only puts come.
Serves ==
  \A w \in Worker :
    /\ pc[w] # "idle" => serving[w] \in Client
    /\ pc[w] \in PutPc => IsPut(serving[w])

\* usrName is the name that the client of this task has sent, if any.
OwnName ==
  \A w \in Worker :
    /\ pc[w] = "user" => usrName[w] = Unset
    /\ pc[w] \notin {"idle", "user"} => usrName[w] \in {Unset, request[serving[w]].user}

\* The invariant of owners.
OwnerInv == OwnerType /\ Serves /\ OwnName /\ OwnerPutIt

\* Initially no worker is busy and there are no rows.
LEMMA OwnerInit == Init => OwnerInv
  BY DEF Init, Pool!Init, OwnerInv, OwnerType, Serves, OwnName, OwnerPutIt,
         PcType, PutPc

\* Requests never change: a row with a putter keeps it.
LEMMA RowsStay ==
  ASSUME OwnerPutIt, UNCHANGED <<request, rows>>
  PROVE  OwnerPutIt'
  BY DEF OwnerPutIt, IsPut

\* The row that a worker inserts is its own client's.
LEMMA InsertKeepsOwners ==
  ASSUME OwnerInv, NEW w \in Worker, pc[w] \in {"link", "insert"},
         InsertRow(w), UNCHANGED request
  PROVE  OwnerPutIt'
<1>1. serving[w] \in Client /\ IsPut(serving[w])
  BY DEF OwnerInv, Serves, PutPc
<1>2. usrName[w] \in {Unset, request[serving[w]].user}
  BY DEF OwnerInv, OwnName
<1>3. SUFFICES ASSUME NEW r \in rows'
               PROVE  \E c \in Client : /\ IsPut(c)
                                        /\ request[c].name = r.name
                                        /\ r.owner \in {request[c].user, Unset}
  BY DEF OwnerPutIt, IsPut
<1>4. CASE r \in rows
  BY <1>4 DEF OwnerInv, OwnerPutIt
<1>5. CASE r = NewRow(w)
  <2>1. r.name = request[serving[w]].name /\ r.owner = usrName[w]
    BY <1>5 DEF NewRow, Task
  <2> QED
    BY <2>1, <1>1, <1>2
<1> QED
  BY <1>3, <1>4, <1>5 DEF InsertRow

\* A step that moves only worker w, and no row, and keeps w's task and name.
LEMMA MoveKeeps ==
  ASSUME OwnerInv, NEW w \in Worker, NEW l \in PcType,
         pc[w] \notin {"idle", "user"}, Goto(w, l), l \notin {"idle", "user"},
         l \in PutPc => IsPut(serving[w]),
         UNCHANGED <<request, poolVars, usrName>>
  PROVE  (OwnerType /\ Serves /\ OwnName)'
  BY DEF OwnerInv, OwnerType, Serves, OwnName, Goto, poolVars, IsPut

\* A client's step disturbs nothing: sent and dead are not in the invariant.
LEMMA ClientKeeps ==
  ASSUME TransferAssumption, OwnerInv, NEW c \in Client, Begin(c) \/ Send(c) \/ Die(c) \/ GiveUp(c)
  PROVE  OwnerInv'
<1>1. UNCHANGED <<request, serving, pc, usrName, rows>>
  BY DEF Begin, Send, Die, GiveUp, Pool!Accept, poolVars, itemVars, diskVars
<1>2. waiting' \in Seq(Client)
  <2>1. waiting \in Seq(Client)
    BY DEF OwnerInv, OwnerType
  <2>2. waiting' = waiting \/ waiting' = Append(waiting, c)
    BY DEF Begin, Send, Die, GiveUp, Pool!Accept, poolVars
  <2> QED
    BY <2>1, <2>2, AppendProperties
<1>3. OwnerPutIt'
  BY <1>1, RowsStay DEF OwnerInv
<1>4. (OwnerType /\ Serves /\ OwnName)'
  BY <1>1, <1>2 DEF OwnerInv, OwnerType, Serves, OwnName, IsPut
<1> QED
  BY <1>3, <1>4 DEF OwnerInv

\* Every step of a worker keeps the invariant.
LEMMA WorkerKeeps ==
  ASSUME TransferAssumption, OwnerInv, NEW w \in Worker, WorkerStep(w)
  PROVE  OwnerInv'
<1> USE DEF At
<1> SUFFICES OwnerPutIt' /\ (OwnerType /\ Serves /\ OwnName)'
  BY DEF OwnerInv
<1> OwnerType /\ Serves /\ OwnName /\ OwnerPutIt
  BY DEF OwnerInv
<1>1. CASE TakeTask(w)
  <2>1. UNCHANGED <<request, rows>> /\ waiting # <<>>
    BY <1>1 DEF TakeTask, clientVars, diskVars, Pool!HandOut
  <2>2. Head(waiting) \in Client /\ Tail(waiting) \in Seq(Client)
    BY <2>1 DEF OwnerType
  <2>3. OwnerType'
    BY <1>1, <2>1, <2>2 DEF TakeTask, Pool!HandOut, Goto, OwnerType, PcType
  <2>4. (Serves /\ OwnName)'
    BY <1>1, <2>1, <2>2 DEF TakeTask, Pool!HandOut, Goto, OwnerType, Serves, OwnName,
                            PcType, PutPc, IsPut
  <2> QED
    BY <2>1, <2>3, <2>4, RowsStay
<1>2. CASE RecvUser(w)
  <2>1. UNCHANGED <<request, rows, poolVars>> /\ Goto(w, "dir") /\ pc[w] = "user"
    BY <1>2 DEF RecvUser, clientVars, diskVars
  <2>2. serving[w] \in Client /\ request[serving[w]].user \in User
    BY <2>1 DEF OwnerType, Serves, TransferAssumption, Put, Get
  <2>3. /\ usrName' = [usrName EXCEPT ![w] = usrName'[w]]
        /\ usrName'[w] \in {Unset, request[serving[w]].user}
    BY <1>2, <2>1 DEF RecvUser, RecvItem, Task, OwnName, OwnerType
  <2>4. OwnerType'
    BY <2>1, <2>2, <2>3 DEF OwnerType, Goto, PcType, poolVars
  <2>5. (Serves /\ OwnName)'
    BY <2>1, <2>2, <2>3 DEF OwnerType, Serves, OwnName, Goto, PutPc, poolVars, IsPut
  <2> QED
    BY <2>1, <2>4, <2>5, RowsStay
<1>3. CASE RecvDir(w)
  <2>1. /\ UNCHANGED <<request, rows, poolVars, usrName>> /\ pc[w] = "dir"
        /\ Goto(w, IF IsPut(serving[w]) THEN "md5" ELSE "query")
    BY <1>3 DEF RecvDir, clientVars, diskVars
  <2> QED
    BY <2>1, MoveKeeps, RowsStay DEF PcType, PutPc
<1>4. CASE RecvMd5(w) \/ Query(w)
  <2>1. /\ UNCHANGED <<request, rows, poolVars, usrName>> /\ pc[w] \notin {"idle", "user"}
        /\ Goto(w, "query") \/ Goto(w, "result")
    BY <1>4 DEF RecvMd5, Query, clientVars, diskVars, itemVars
  <2> QED
    BY <2>1, MoveKeeps, RowsStay DEF PcType, PutPc
<1>5. CASE StoreResult(w)
  <2>1. /\ UNCHANGED <<request, rows, poolVars, usrName>> /\ pc[w] = "result"
        /\ Goto(w, IF IsPut(serving[w]) THEN "decide" ELSE "reply")
    BY <1>5 DEF StoreResult, clientVars, itemVars
  <2> QED
    BY <2>1, MoveKeeps, RowsStay DEF PcType, PutPc
<1>6. CASE Decide(w)
  <2>1. /\ UNCHANGED <<request, rows, poolVars, usrName>> /\ pc[w] = "decide"
        /\ \E l \in {"close", "link", "header"} : Goto(w, l)
    BY <1>6 DEF Decide, clientVars, diskVars, itemVars
  <2>2. IsPut(serving[w])
    BY <2>1 DEF Serves, PutPc
  <2> QED
    BY <2>1, <2>2, MoveKeeps, RowsStay DEF PcType, PutPc
<1>7. CASE Link(w) \/ Insert(w)
  <2>1. /\ UNCHANGED <<request, poolVars, usrName>> /\ pc[w] \in {"link", "insert"}
        /\ InsertRow(w) /\ Goto(w, "close")
    BY <1>7 DEF Link, Insert, clientVars, itemVars
  <2> QED
    BY <2>1, MoveKeeps, InsertKeepsOwners DEF PcType, PutPc
<1>8. CASE RecvHeader(w) \/ RecvBlock(w)
  <2>1. /\ UNCHANGED <<request, rows, poolVars, usrName>> /\ pc[w] \in {"header", "blocks"}
        /\ (\E l \in {"blocks", "insert"} : Goto(w, l)) \/ UNCHANGED pc
    BY <1>8 DEF RecvHeader, RecvBlock, clientVars, itemVars
  <2>2. IsPut(serving[w])
    BY <2>1 DEF Serves, PutPc
  <2>3. CASE \E l \in {"blocks", "insert"} : Goto(w, l)
    BY <2>1, <2>2, <2>3, MoveKeeps, RowsStay DEF PcType, PutPc
  <2>4. CASE UNCHANGED pc
    BY <2>1, <2>4, RowsStay DEF OwnerType, Serves, OwnName, poolVars, IsPut
  <2> QED
    BY <2>1, <2>3, <2>4
<1>9. CASE Reply(w) \/ SendFile(w)
  <2>1. /\ UNCHANGED <<request, rows, poolVars, usrName>> /\ pc[w] \in {"reply", "sendFile"}
        /\ \E l \in {"sendFile", "close"} : Goto(w, l)
    BY <1>9 DEF Reply, SendFile, clientVars, diskVars, itemVars
  <2> QED
    BY <2>1, MoveKeeps, RowsStay DEF PcType, PutPc
<1>10. CASE Close(w)
  <2>1. UNCHANGED <<request, rows, usrName>>
    BY <1>10 DEF Close, clientVars, diskVars, itemVars
  <2>2. OwnerType'
    BY <1>10, <2>1 DEF Close, Pool!Finish, Goto, OwnerType, PcType
  <2>3. (Serves /\ OwnName)'
    BY <1>10, <2>1 DEF Close, Pool!Finish, Goto, OwnerType, Serves, OwnName, PutPc, IsPut
  <2> QED
    BY <2>1, <2>2, <2>3, RowsStay
<1> QED
  BY <1>1, <1>2, <1>3, <1>4, <1>5, <1>6, <1>7, <1>8, <1>9, <1>10 DEF WorkerStep

(***************************************************************************)
(* Whoever is killed and whatever the shared connection loses, every row   *)
(* that a worker inserts (work_factory.c:68,79) belongs to a user who has  *)
(* put a file of that name, or to nobody: the usrName of one task is never *)
(* used for another.                                                       *)
(***************************************************************************)
THEOREM RowsGoToPutters == Spec => []OwnerPutIt
<1>1. Init => OwnerInv
  BY OwnerInit
<1>2. OwnerInv /\ [Next]_vars => OwnerInv'
  <2> SUFFICES ASSUME OwnerInv, [Next]_vars PROVE OwnerInv'
    OBVIOUS
  <2>1. CASE Next
    BY <2>1, TransferAssumption, ClientKeeps, WorkerKeeps DEF Next
  <2>2. CASE UNCHANGED vars
    BY <2>2, RowsStay DEF vars, clientVars, poolVars, itemVars, diskVars, OwnerInv,
                         OwnerType, Serves, OwnName, IsPut
  <2> QED
    BY <2>1, <2>2
<1>3. OwnerInv => OwnerPutIt
  BY DEF OwnerInv
<1> QED
  BY <1>1, <1>2, <1>3, PTL DEF Spec

-----------------------------------------------------------------------------
(* Types. *)

\* The contents that a file of NBlocks blocks can have.
Files == [1 .. NBlocks -> Content \cup {Unset}]

\* A file of the server is complete in length or empty, and a worker that
\* receives blocks has made it.
Writes ==
  /\ store \in [Name -> Files \cup {<<>>, Absent}]
  /\ \A w \in Worker : pc[w] = "blocks" => blk[w] \in 1 .. NBlocks /\ store[Task(w).name] # Absent

\* The invariant of types, for any number of workers.
TypeInv == OwnerInv /\ TypeOK /\ Writes

\* What a client asks for is typed, and a put has a digest.
LEMMA RequestTypes ==
  ASSUME TransferAssumption, request \in [Client -> Wanted], NEW c \in Client
  PROVE  /\ request[c].user \in User /\ request[c].dir \in Dir /\ request[c].name \in Name
         /\ IsPut(c) => request[c].md5 \in Content
  BY DEF TransferAssumption, Put, Get, IsPut

\* Files are sequences of NBlocks blocks, and none of them is Absent.
LEMMA FilesAreSeqs ==
  ASSUME TransferAssumption, NEW f \in Files
  PROVE  f \in Seq(Content \cup {Unset}) /\ Len(f) = NBlocks /\ f # Absent
<1>1. NBlocks \in Nat \ {0} /\ Absent \notin Seq(Content \cup {Unset})
  BY DEF TransferAssumption
<1>2. f \in Seq(Content \cup {Unset})
  BY <1>1, SeqDef DEF Files
<1>3. Len(f) \in Nat /\ DOMAIN f = 1 .. Len(f)
  BY <1>2, LenProperties
<1>4. DOMAIN f = 1 .. NBlocks
  BY DEF Files
<1>5. 1 \in DOMAIN f /\ NBlocks \in DOMAIN f
  BY <1>1, <1>4
<1>6. Len(f) >= 1 /\ NBlocks <= Len(f)
  BY <1>1, <1>3, <1>5
<1>7. Len(f) \in 1 .. NBlocks
  BY <1>3, <1>4, <1>6
<1> QED
  BY <1>1, <1>2, <1>6, <1>7

\* What a client does: nothing of the server's but the queue changes.
LEMMA ClientSteps ==
  ASSUME TypeOK, NEW c \in Client, Begin(c) \/ Send(c) \/ Die(c) \/ GiveUp(c)
  PROVE  /\ UNCHANGED <<request, got, answer, serving, pc, itemVars, res, blk, diskVars, crashed>>
         /\ \A d \in Client : (dead[d] => dead'[d]) /\ (sent[d] > 0 => sent'[d] > 0)
<1>1. CASE Begin(c)
  BY <1>1 DEF Begin, Pool!Accept, TypeOK
<1>2. CASE Send(c)
  BY <1>2 DEF Send, poolVars, TypeOK
<1>3. CASE Die(c)
  BY <1>3 DEF Die, poolVars, TypeOK
<1>4. CASE GiveUp(c)
  BY <1>4 DEF GiveUp, poolVars
<1> QED
  BY <1>1, <1>2, <1>3, <1>4

\* What a worker does: nothing of the clients' but got changes, and rows stay.
LEMMA WorkerSteps ==
  ASSUME NEW w \in Worker, WorkerStep(w)
  PROVE  UNCHANGED <<request, sent, dead, stalled>> /\ rows \subseteq rows'
<1>1. CASE Link(w) \/ Insert(w)
  BY <1>1 DEF Link, Insert, InsertRow, clientVars
<1>2. CASE ~(Link(w) \/ Insert(w))
  BY <1>2 DEF WorkerStep, TakeTask, RecvUser, RecvDir, RecvMd5, Query, StoreResult, Decide,
     RecvHeader, RecvBlock, Reply, SendFile, Close, clientVars, diskVars
<1> QED
  BY <1>1, <1>2

\* Initially no task is under way.
LEMMA TypeInit ==
  ASSUME TransferAssumption, Init
  PROVE  TypeInv
<1>1. OwnerInv
  BY OwnerInit
<1>2. TypeOK
  <2>1. waiting \in Seq(Client) /\ conn \in Seq(SUBSET Row)
    BY DEF Init, Pool!Init
  <2>2. sent \in [Client -> 0 .. 5 + NBlocks] /\ blk \in [Worker -> 0 .. NBlocks + 1]
    BY DEF Init, TransferAssumption
  <2>3. /\ answer \in [Client -> {None, "0", "1", "Y", "N"}]
        /\ got \in [Client -> Seq(Content \cup {Unset}) \cup {None, Absent}]
        /\ store \in [Name -> Seq(Content \cup {Unset}) \cup {Absent}]
        /\ res \in [Worker -> SUBSET Row] /\ rows \subseteq Row
    BY DEF Init
  <2> QED
    BY <2>1, <2>2, <2>3 DEF Init, Pool!Init, TypeOK
<1>3. Writes
  BY DEF Init, Writes
<1> QED
  BY <1>1, <1>2, <1>3 DEF TypeInv

\* A client's step keeps the types: it sends at most its items.
LEMMA TypeClient ==
  ASSUME TransferAssumption, TypeInv, NEW c \in Client, Begin(c) \/ Send(c) \/ Die(c) \/ GiveUp(c)
  PROVE  TypeInv'
<1>1. OwnerInv'
  BY ClientKeeps DEF TypeInv
<1>2. UNCHANGED <<request, got, answer, serving, pc, itemVars, res, blk, diskVars, crashed>>
  BY ClientSteps DEF TypeInv
<1>3. sent' \in [Client -> 0 .. 5 + NBlocks] /\ dead' \in [Client -> BOOLEAN] /\ stalled' \in [Client -> BOOLEAN]
  <2>1. NBlocks \in Nat \ {0} /\ sent \in [Client -> 0 .. 5 + NBlocks]
        /\ dead \in [Client -> BOOLEAN] /\ stalled \in [Client -> BOOLEAN]
    BY DEF TypeInv, TypeOK, TransferAssumption
  <2>2. Items(c) \in 3 .. 5 + NBlocks
    BY <2>1 DEF Items, Unasked
  <2>3. sent' \in [Client -> 0 .. 5 + NBlocks]
    BY <2>1, <2>2 DEF Begin, Send, Die, GiveUp
  <2> QED
    BY <2>1, <2>3 DEF Begin, Send, Die, GiveUp
<1>4. TypeOK'
  BY <1>1, <1>2, <1>3 DEF TypeInv, TypeOK, OwnerInv, OwnerType, itemVars, diskVars
<1>5. Writes'
  BY <1>2 DEF TypeInv, Writes, Task, diskVars
<1> QED
  BY <1>1, <1>4, <1>5 DEF TypeInv

\* The rows and the results of a worker are typed.
LEMMA RowTypes ==
  ASSUME TransferAssumption, TypeInv, NEW w \in Worker, pc[w] \notin {"idle"}
  PROVE  /\ serving[w] \in Client /\ Task(w).name \in Name
         /\ NewRow(w) \in Row /\ Selected(w) \in SUBSET Row
         /\ IsPut(serving[w]) => Task(w).md5 \in Content
<1>1. serving[w] \in Client
  BY DEF TypeInv, OwnerInv, Serves
<1>2. Task(w).name \in Name /\ (IsPut(serving[w]) => Task(w).md5 \in Content)
  BY <1>1, RequestTypes DEF Task, TypeInv, TypeOK
<1> QED
  BY <1>1, <1>2 DEF NewRow, Row, Selected, TypeInv, TypeOK

\* What recvFile does to the files of the server.
LEMMA DiskTypes ==
  ASSUME TransferAssumption, TypeInv, NEW w \in Worker, RecvHeader(w) \/ RecvBlock(w)
  PROVE  Writes' /\ blk' \in [Worker -> 0 .. NBlocks + 1]
<1> DEFINE n == Task(w).name
<1>1. /\ n \in Name /\ IsPut(serving[w]) /\ Task(w).md5 \in Content
      /\ NBlocks \in Nat \ {0} /\ blk \in [Worker -> 0 .. NBlocks + 1] /\ Task(w)' = Task(w)
      /\ \A v \in Worker : Task(v)' = Task(v)
  BY RowTypes DEF RecvHeader, RecvBlock, At, TypeInv, OwnerInv, Serves, PutPc, TransferAssumption,
     clientVars, poolVars, Task, TypeOK
<1>2. store \in [Name -> Files \cup {<<>>, Absent}] /\ pc \in [Worker -> PcType]
  BY DEF TypeInv, Writes, OwnerInv, OwnerType
<1>3. \A f \in Files \cup {<<>>} : f # Absent
  BY FilesAreSeqs, EmptySeq DEF TransferAssumption
<1>4. ASSUME NEW f \in Files \cup {<<>>}, store' = [store EXCEPT ![n] = f],
             \E l \in PcType : Goto(w, l) /\ (l = "blocks" => blk'[w] \in 1 .. NBlocks),
             blk' = [blk EXCEPT ![w] = blk'[w]]
      PROVE  Writes'
  <2>1. store' \in [Name -> Files \cup {<<>>, Absent}] /\ \A m \in Name : store[m] # Absent => store'[m] # Absent
    BY <1>1, <1>2, <1>3, <1>4
  <2>2. store'[n] # Absent
    BY <1>1, <1>2, <1>3, <1>4
  <2>3. \A v \in Worker : pc'[v] = "blocks" => blk'[v] \in 1 .. NBlocks /\ store'[Task(v).name] # Absent
    <3>1. SUFFICES ASSUME NEW v \in Worker, pc'[v] = "blocks"
                   PROVE  blk'[v] \in 1 .. NBlocks /\ store'[Task(v).name] # Absent
      OBVIOUS
    <3>2. CASE v = w
      BY <1>2, <1>4, <2>2, <3>1, <3>2 DEF Goto
    <3>3. CASE v # w
      <4>1. pc[v] = "blocks" /\ blk'[v] = blk[v]
        BY <1>1, <1>2, <1>4, <3>1, <3>3 DEF Goto
      <4>2. Task(v).name \in Name
        BY <4>1, RowTypes
      <4> QED
        BY <2>1, <4>1, <4>2 DEF TypeInv, Writes
    <3> QED
      BY <3>2, <3>3
  <2> QED
    BY <1>1, <2>1, <2>3 DEF Writes
<1>5. CASE RecvHeader(w)
  <2>1. Resized(store[n]) \in Files
    <3>1. store[n] # Absent => \A i \in 1 .. NBlocks : i <= Len(store[n]) => store[n][i] \in Content \cup {Unset}
      <4>1. CASE store[n] \in Files
        BY <4>1 DEF Files
      <4>2. CASE store[n] = <<>>
        BY <4>2
      <4> QED
        BY <1>1, <1>2, <4>1, <4>2
    <3> QED
      BY <3>1 DEF Resized, Files
  <2>2. CASE /\ store' = [store EXCEPT ![n] = Resized(store[n])]
             /\ blk' = [blk EXCEPT ![w] = 1] /\ Goto(w, "blocks")
    <3>1. blk'[w] \in 1 .. NBlocks /\ blk' = [blk EXCEPT ![w] = blk'[w]] /\ "blocks" \in PcType
      BY <1>1, <2>2 DEF PcType, PutPc
    <3>2. Writes'
      BY <1>4, <2>1, <2>2, <3>1
    <3> QED
      BY <1>1, <2>2, <3>2
  <2>3. CASE store' = [store EXCEPT ![n] = <<>>] /\ Goto(w, "insert") /\ UNCHANGED blk
    <3>1. blk' = [blk EXCEPT ![w] = blk'[w]] /\ "insert" \in PcType /\ "insert" # "blocks"
      BY <1>1, <2>3 DEF PcType, PutPc
    <3>2. Writes'
      BY <1>4, <2>3, <3>1
    <3> QED
      BY <1>1, <2>3, <3>2
  <2> QED
    BY <1>1, <1>5, <2>2, <2>3 DEF RecvHeader
<1>6. CASE RecvBlock(w)
  <2>0. blk[w] \in 1 .. NBlocks /\ store[n] # Absent
    BY <1>6 DEF RecvBlock, At, TypeInv, Writes
  <2>1. CASE /\ blk[w] <= Len(store[n])
             /\ store' = [store EXCEPT ![n][blk[w]] = Task(w).md5]
             /\ blk' = [blk EXCEPT ![w] = @ + 1]
             /\ Goto(w, IF blk[w] = NBlocks THEN "insert" ELSE "blocks")
    <3>1. store[n] \in Files
      BY <1>1, <1>2, <2>0, <2>1
    <3> DEFINE f == [store[n] EXCEPT ![blk[w]] = Task(w).md5]
    <3>2. f \in Files
      BY <1>1, <3>1 DEF Files
    <3>3. store' = [store EXCEPT ![n] = f]
      BY <2>1
    <3>4. blk'[w] = blk[w] + 1 /\ blk' = [blk EXCEPT ![w] = blk'[w]]
      BY <1>1, <2>1
    <3> HIDE DEF f
    <3>5. \E l \in PcType : Goto(w, l) /\ (l = "blocks" => blk'[w] \in 1 .. NBlocks)
      BY <1>1, <2>0, <2>1, <3>4 DEF PcType, PutPc
    <3>6. Writes'
      BY <1>4, <3>2, <3>3, <3>4, <3>5
    <3>7. blk' \in [Worker -> 0 .. NBlocks + 1]
      BY <1>1, <2>0, <2>1
    <3> QED
      BY <3>6, <3>7
  <2>2. CASE UNCHANGED <<store, blk, pc>>
    BY <1>1, <2>2 DEF TypeInv, Writes
  <2>3. CASE Goto(w, "insert") /\ UNCHANGED <<store, blk>>
    BY <1>1, <1>2, <2>3 DEF TypeInv, Writes, Goto
  <2> QED
    BY <1>6, <2>1, <2>2, <2>3 DEF RecvBlock
<1> QED
  BY <1>5, <1>6

\* A worker that goes anywhere but to receiving blocks, and leaves files alone,
\* keeps Writes.
LEMMA WritesKept ==
  ASSUME TypeInv, NEW w \in Worker, NEW l, l # "blocks", Goto(w, l),
         UNCHANGED <<request, store, blk>>, UNCHANGED serving \/ serving' = [serving EXCEPT ![w] = serving'[w]]
  PROVE  Writes'
<1>1. ASSUME NEW v \in Worker, pc'[v] = "blocks" PROVE v # w /\ pc[v] = "blocks" /\ Task(v)' = Task(v)
  BY <1>1 DEF Goto, TypeInv, TypeOK, Task
<1> QED
  BY <1>1 DEF TypeInv, Writes

\* Every step of a worker keeps the types.
LEMMA TypeWorker ==
  ASSUME TransferAssumption, TypeInv, NEW w \in Worker, WorkerStep(w)
  PROVE  TypeInv'
<1>0. OwnerInv' /\ UNCHANGED <<request, sent, dead, stalled>>
  BY WorkerKeeps, WorkerSteps DEF TypeInv
<1>1. /\ waiting' \in Seq(Client) /\ serving' \in [Worker -> Client \cup {None}]
      /\ pc' \in [Worker -> PcType] /\ usrName' \in [Worker -> User \cup {Unset}]
  BY <1>0 DEF OwnerInv, OwnerType
<1>2. \A v \in Worker : pc'[v] = "idle" <=> serving'[v] = None
  <2>1. CASE TakeTask(w)
    <3>1. waiting # <<>> /\ waiting \in Seq(Client) /\ serving' = [serving EXCEPT ![w] = Head(waiting)]
      BY <2>1 DEF TakeTask, Pool!HandOut, TypeInv, TypeOK
    <3>2. Head(waiting) \in Client
      BY <3>1, HeadTailProperties
    <3>3. serving'[w] # None
      BY <3>1, <3>2 DEF TransferAssumption, TypeInv, TypeOK
    <3> QED
      BY <2>1, <3>1, <3>3 DEF TakeTask, Goto, TypeInv, TypeOK
  <2>2. CASE Close(w)
    BY <2>2 DEF Close, Pool!Finish, Goto, TypeInv, TypeOK
  <2>3. CASE UNCHANGED serving /\ pc[w] # "idle" /\ ((\E l : l # "idle" /\ Goto(w, l)) \/ UNCHANGED pc)
    BY <2>3 DEF Goto, TypeInv, TypeOK
  <2> QED
    BY <2>1, <2>2, <2>3 DEF WorkerStep, At, RecvUser, RecvDir, RecvMd5, Query, StoreResult, Decide, Link,
       RecvHeader, RecvBlock, Insert, Reply, SendFile, poolVars
<1>3. answer' \in [Client -> {None, "0", "1", "Y", "N"}] /\ crashed' \in BOOLEAN
  BY DEF WorkerStep, TakeTask, RecvUser, RecvDir, RecvMd5, Query, StoreResult, Decide, Link,
     RecvHeader, RecvBlock, Insert, Reply, SendFile, Close, Answer, TypeInv, TypeOK
<1>4. /\ preDirNo' \in [Worker -> Dir \cup {Unset}] /\ fileMd5Value' \in [Worker -> Content \cup {Unset}]
      /\ got' \in [Client -> Seq(Content \cup {Unset}) \cup {None, Absent}]
  <2>1. CASE RecvDir(w)
    <3>1. Task(w).dir \in Dir
      BY <2>1, RequestTypes DEF RecvDir, At, Task, TypeInv, OwnerInv, Serves, OwnerType
    <3> QED
      BY <2>1, <3>1 DEF RecvDir, RecvItem, TypeInv, TypeOK, clientVars
  <2>2. CASE RecvMd5(w)
    <3>1. Task(w).md5 \in Content
      BY <2>2, RowTypes DEF RecvMd5, At, TypeInv, OwnerInv, Serves, PutPc
    <3> QED
      BY <2>2, <3>1 DEF RecvMd5, RecvItem, TypeInv, TypeOK, clientVars
  <2>3. CASE SendFile(w)
    <3>1. Task(w).name \in Name
      BY <2>3, RowTypes DEF SendFile, At
    <3>2. store[Task(w).name] \in Seq(Content \cup {Unset}) \cup {None, Absent}
      BY <3>1 DEF TypeInv, TypeOK
    <3> QED
      BY <2>3, <3>2 DEF SendFile, RecvFile, TypeInv, TypeOK, itemVars
  <2>4. CASE UNCHANGED <<preDirNo, fileMd5Value, got>>
    BY <2>4 DEF TypeInv, TypeOK
  <2> QED
    BY <2>1, <2>2, <2>3, <2>4 DEF WorkerStep, TakeTask, RecvUser, Query, StoreResult, Decide, Link,
       RecvHeader, RecvBlock, Insert, Reply, Close, clientVars, itemVars
<1>5. /\ res' \in [Worker -> SUBSET Row] /\ conn' \in Seq(SUBSET Row) /\ rows' \subseteq Row
  <2>1. CASE Query(w)
    <3>1. Selected(w) \in SUBSET Row
      BY <2>1, RowTypes DEF Query, At
    <3>2. <<Selected(w)>> \in Seq(SUBSET Row)
      BY <3>1
    <3>3. conn' \in Seq(SUBSET Row) /\ UNCHANGED <<res, rows>>
      BY <2>1, <3>2 DEF Query, TypeInv, TypeOK
    <3> QED
      BY <3>3 DEF TypeInv, TypeOK
  <2>2. CASE StoreResult(w)
    <3>1. conn # <<>> => Head(conn) \in SUBSET Row
      BY HeadTailProperties DEF TypeInv, TypeOK
    <3>2. conn' \in Seq(SUBSET Row) /\ UNCHANGED rows
      BY <2>2, EmptySeq DEF StoreResult
    <3>3. UNCHANGED res \/ (conn # <<>> /\ res' = [res EXCEPT ![w] = Head(conn)])
      BY <2>2 DEF StoreResult
    <3>4. res \in [Worker -> SUBSET Row] /\ rows \subseteq Row
      BY DEF TypeInv, TypeOK
    <3> DEFINE R == SUBSET Row
    <3> HIDE DEF R
    <3>5. res' \in [Worker -> R]
      <4>1. res \in [Worker -> R] /\ (conn # <<>> => Head(conn) \in R)
        BY <3>1, <3>4 DEF R
      <4> QED
        BY <3>3, <4>1
    <3> QED
      BY <3>2, <3>4, <3>5 DEF R
  <2>3. CASE Link(w) \/ Insert(w)
    <3>1. NewRow(w) \in Row
      BY <2>3, RowTypes DEF Link, Insert, At
    <3> QED
      BY <2>3, <3>1 DEF Link, Insert, InsertRow, TypeInv, TypeOK
  <2>4. CASE UNCHANGED <<res, conn, rows>>
    BY <2>4 DEF TypeInv, TypeOK
  <2> QED
    BY <2>1, <2>2, <2>3, <2>4 DEF WorkerStep, TakeTask, RecvUser, RecvDir, RecvMd5, Decide,
       RecvHeader, RecvBlock, Reply, SendFile, Close, diskVars
<1>6. Writes' /\ blk' \in [Worker -> 0 .. NBlocks + 1]
  <2>1. CASE RecvHeader(w) \/ RecvBlock(w)
    BY <2>1, DiskTypes
  <2>2. CASE ~(RecvHeader(w) \/ RecvBlock(w))
    <3>1. UNCHANGED <<store, blk>> /\ blk' \in [Worker -> 0 .. NBlocks + 1]
      BY <2>2 DEF WorkerStep, TakeTask, RecvUser, RecvDir, RecvMd5, Query, StoreResult, Decide, Link,
         Insert, Reply, SendFile, Close, diskVars, TypeInv, TypeOK
    <3>2. \E l : l # "blocks" /\ Goto(w, l)
      BY <2>2 DEF WorkerStep, TakeTask, RecvUser, RecvDir, RecvMd5, Query, StoreResult, Decide, Link,
         Insert, Reply, SendFile, Close
    <3>3. UNCHANGED serving \/ serving' = [serving EXCEPT ![w] = serving'[w]]
      BY <2>2 DEF WorkerStep, TakeTask, RecvUser, RecvDir, RecvMd5, Query, StoreResult, Decide, Link,
         Insert, Reply, SendFile, Close, poolVars, Pool!HandOut, Pool!Finish, TypeInv, TypeOK
    <3> QED
      BY <1>0, <3>1, <3>2, <3>3, WritesKept
  <2> QED
    BY <2>1, <2>2
<1>7. store' \in [Name -> Seq(Content \cup {Unset}) \cup {Absent}]
  <2>1. \A f \in Files \cup {<<>>} : f \in Seq(Content \cup {Unset})
    BY FilesAreSeqs, EmptySeq
  <2> QED
    BY <1>6, <2>1 DEF Writes
<1>8. TypeOK'
  BY <1>0, <1>1, <1>2, <1>3, <1>4, <1>5, <1>6, <1>7 DEF TypeInv, TypeOK, PcType, PutPc
<1> QED
  BY <1>0, <1>6, <1>8 DEF TypeInv

\* Every step keeps the types.
LEMMA TypeStep ==
  ASSUME TransferAssumption, TypeInv, [Next]_vars
  PROVE  TypeInv'
<1>1. CASE UNCHANGED vars
  BY <1>1, RowsStay DEF vars, clientVars, poolVars, itemVars, diskVars, TypeInv, TypeOK, Writes, Task,
     OwnerInv, OwnerType, Serves, OwnName, IsPut
<1> QED
  BY <1>1, TypeClient, TypeWorker DEF Next

(***************************************************************************)
(* The types of Transfer for any number of workers: whatever the workers   *)
(* (work_factory.c:15-85) interleave on the shared connection, a worker    *)
(* has a task exactly when it is not idle, the numbers of the blocks stay  *)
(* within the file, and what is on disk, in a row or in a client's hands   *)
(* is a name, content or result of the kind that belongs there.            *)
(***************************************************************************)
THEOREM TransferTypes == Spec => []TypeOK
<1>1. Init => TypeInv
  BY TypeInit, TransferAssumption
<1>2. TypeInv /\ [Next]_vars => TypeInv'
  BY TypeStep, TransferAssumption
<1>3. TypeInv => TypeOK
  BY DEF TypeInv
<1> QED
  BY <1>1, <1>2, <1>3, PTL DEF Spec

-----------------------------------------------------------------------------
(* One worker. *)

\* One worker has the database connection for itself.
OneWorker == \A v, w \in Worker : v = w

\* What a worker knows of a client that lives is what the client has sent.
Honest(w) ==
  pc[w] # "idle" /\ ~dead[serving[w]] =>
    /\ pc[w] # "user" => usrName[w] = Task(w).user
    /\ pc[w] \notin {"user", "dir"} => preDirNo[w] = Task(w).dir
    /\ pc[w] \notin {"user", "dir", "md5"} /\ IsPut(serving[w]) =>
         fileMd5Value[w] = Task(w).md5

\* The result that waits, and the result a worker holds, are of its own query
\* and still true; nobody cuts the file that it receives.
Alone(w) ==
  /\ conn = IF pc[w] = "result" THEN <<Selected(w)>> ELSE <<>>
  /\ pc[w] \in {"decide", "reply", "sendFile"} => res[w] = Selected(w)
  /\ pc[w] \in {"reply", "sendFile"} => ~IsPut(serving[w])
  /\ pc[w] = "sendFile" => res[w] # {}
  /\ pc[w] = "blocks" => store[Task(w).name] \in Files

\* The invariant of a worker with a connection of its own.
AloneInv == TypeInv /\ \A w \in Worker : Honest(w) /\ Alone(w)

\* A query depends on the locals, the request and the rows.
LEMMA SelectedStays ==
  ASSUME NEW w \in Worker, UNCHANGED <<request, rows>>, serving'[w] = serving[w], usrName'[w] = usrName[w],
         preDirNo'[w] = preDirNo[w], fileMd5Value'[w] = fileMd5Value[w]
  PROVE  Selected(w)' = Selected(w)
  BY DEF Selected, Task, IsPut

\* What a worker reads of a client that lives is what the client has sent.
LEMMA HonestStep ==
  ASSUME TypeInv, NEW w \in Worker, Honest(w), WorkerStep(w)
  PROVE  Honest(w)'
<1>0. /\ UNCHANGED <<request, sent, dead, stalled>>
      /\ pc \in [Worker -> PcType] /\ usrName \in [Worker -> User \cup {Unset}]
      /\ preDirNo \in [Worker -> Dir \cup {Unset}] /\ fileMd5Value \in [Worker -> Content \cup {Unset}]
  BY WorkerSteps DEF TypeInv, OwnerInv, OwnerType, TypeOK
<1>1. CASE TakeTask(w) \/ Close(w)
  BY <1>0, <1>1 DEF TakeTask, Close, Goto, Honest
<1>2. CASE RecvUser(w)
  BY <1>0, <1>2 DEF RecvUser, RecvItem, Lost, Goto, Honest, Task, At, poolVars
<1>3. CASE RecvDir(w)
  BY <1>0, <1>3 DEF RecvDir, RecvItem, Lost, Goto, Honest, Task, At, IsPut, poolVars
<1>4. CASE RecvMd5(w)
  BY <1>0, <1>4 DEF RecvMd5, RecvItem, Lost, Goto, Honest, Task, At, IsPut, poolVars
<1>5. CASE /\ UNCHANGED <<serving, itemVars>> /\ pc[w] \notin {"idle", "user", "dir", "md5"}
           /\ (\E l : Goto(w, l)) \/ UNCHANGED pc
  BY <1>0, <1>5 DEF Goto, Honest, Task, IsPut, itemVars
<1>6. CASE Query(w) \/ StoreResult(w) \/ Decide(w) \/ Link(w)
  BY <1>5, <1>6 DEF Query, StoreResult, Decide, Link, At, poolVars
<1>7. CASE RecvHeader(w) \/ RecvBlock(w) \/ Insert(w) \/ Reply(w) \/ SendFile(w)
  BY <1>5, <1>7 DEF RecvHeader, RecvBlock, Insert, Reply, SendFile, At, poolVars
<1> QED
  BY <1>1, <1>2, <1>3, <1>4, <1>6, <1>7 DEF WorkerStep

\* The worker stores the result of its own query, and nothing changes the rows
\* between the query and its use.
LEMMA AloneStep ==
  ASSUME TransferAssumption, TypeInv, NEW w \in Worker, Alone(w), WorkerStep(w)
  PROVE  Alone(w)'
<1>0. /\ UNCHANGED request /\ pc \in [Worker -> PcType] /\ res \in [Worker -> SUBSET Row]
      /\ store \in [Name -> Files \cup {<<>>, Absent}]
  BY WorkerSteps DEF TypeInv, OwnerInv, OwnerType, TypeOK, Writes
<1>1. ASSUME At(w, "idle") \/ At(w, "user") \/ At(w, "dir") \/ At(w, "md5") \/ At(w, "close"),
             NEW l \in {"user", "dir", "md5", "query", "idle"}, Goto(w, l), UNCHANGED conn
      PROVE  Alone(w)'
  BY <1>0, <1>1 DEF Alone, At, Goto
<1>2. CASE TakeTask(w) \/ RecvUser(w) \/ RecvDir(w) \/ RecvMd5(w) \/ Close(w)
  BY <1>1, <1>2 DEF TakeTask, RecvUser, RecvDir, RecvMd5, Close, diskVars
<1>3. CASE Query(w)
  <2>1. Selected(w)' = Selected(w) /\ conn' = <<Selected(w)>> /\ pc'[w] = "result"
    BY <1>0, <1>3, SelectedStays DEF Query, Alone, At, Goto, poolVars, itemVars
  <2> QED
    BY <2>1 DEF Alone
<1>4. CASE StoreResult(w)
  <2>1. conn = <<Selected(w)>> /\ Head(conn) = Selected(w) /\ conn # <<>>
    BY <1>4 DEF StoreResult, Alone, At
  <2>2. Selected(w)' = Selected(w) /\ conn' = <<>> /\ res'[w] = Selected(w)
    BY <1>0, <1>4, <2>1, SelectedStays DEF StoreResult, poolVars, itemVars
  <2>3. pc'[w] = IF IsPut(serving[w]) THEN "decide" ELSE "reply"
    BY <1>0, <1>4 DEF StoreResult, Goto
  <2> QED
    BY <1>0, <1>4, <2>2, <2>3 DEF Alone, IsPut, StoreResult, poolVars
<1>5. CASE Decide(w) \/ Link(w) \/ Insert(w)
  <2>1. conn = <<>> /\ UNCHANGED conn /\ \E l \in {"close", "link", "header"} : Goto(w, l)
    BY <1>5 DEF Decide, Link, Insert, Alone, At, diskVars
  <2> QED
    BY <1>0, <2>1 DEF Alone, Goto
<1>6. CASE RecvHeader(w) \/ RecvBlock(w)
  <2>1. conn = <<>> /\ UNCHANGED conn /\ pc'[w] \in {"blocks", "insert"}
    BY <1>0, <1>6 DEF RecvHeader, RecvBlock, Alone, At, Goto
  <2>2. pc'[w] = "blocks" => store'[Task(w).name] \in Files
    <3>1. Writes' /\ Task(w)' = Task(w) /\ Task(w).name \in Name
      BY <1>0, <1>6, DiskTypes, RowTypes DEF RecvHeader, RecvBlock, At, Task, poolVars
    <3>2. pc'[w] = "blocks" => store'[Task(w).name] \in Files \cup {<<>>} /\ store'[Task(w).name] # Absent
      BY <3>1 DEF Writes
    <3>3. pc'[w] = "blocks" => store'[Task(w).name] # <<>>
      <4>1. \A f \in Files : f # <<>>
        BY FilesAreSeqs, EmptySeq DEF TransferAssumption
      <4>2. CASE RecvBlock(w)
        <5>1. store[Task(w).name] \in Files
          BY <4>2 DEF RecvBlock, Alone, At
        <5>2. UNCHANGED store \/ store' = [store EXCEPT ![Task(w).name][blk[w]] = Task(w).md5]
          BY <4>2 DEF RecvBlock
        <5>3. [store[Task(w).name] EXCEPT ![blk[w]] = Task(w).md5] \in Files
          <6>1. Task(w).md5 \in Content
            BY <4>2, RowTypes DEF RecvBlock, At, TypeInv, OwnerInv, Serves, PutPc
          <6> QED
            BY <5>1, <6>1 DEF Files
        <5>4. store'[Task(w).name] \in Files
          BY <1>0, <3>1, <5>1, <5>2, <5>3
        <5> QED
          BY <4>1, <5>4
      <4>3. CASE RecvHeader(w)
        <5>1. pc'[w] = "blocks" => store' = [store EXCEPT ![Task(w).name] = Resized(store[Task(w).name])]
          BY <1>0, <4>3 DEF RecvHeader, Goto
        <5>2. 1 \in DOMAIN Resized(store[Task(w).name])
          BY DEF Resized, TransferAssumption
        <5>3. Resized(store[Task(w).name]) # <<>>
          BY <5>2
        <5> QED
          BY <1>0, <3>1, <5>1, <5>3
      <4> QED
        BY <1>6, <4>2, <4>3
    <3> QED
      BY <3>2, <3>3
  <2>3. Task(w)' = Task(w)
    BY <1>0, <1>6 DEF RecvHeader, RecvBlock, Task, poolVars
  <2> QED
    BY <2>1, <2>2, <2>3 DEF Alone
<1>7. CASE Reply(w) \/ SendFile(w)
  <2>1. Selected(w)' = Selected(w) /\ conn = <<>> /\ UNCHANGED <<conn, res, serving>> /\ res[w] = Selected(w) /\ ~IsPut(serving[w])
    BY <1>0, <1>7, SelectedStays DEF Reply, SendFile, Alone, At, diskVars, poolVars, itemVars
  <2>2. pc'[w] = "close" \/ (pc'[w] = "sendFile" /\ res[w] # {})
    BY <1>0, <1>7 DEF Reply, SendFile, Goto
  <2> QED
    BY <1>0, <2>1, <2>2 DEF Alone, IsPut
<1> QED
  BY <1>2, <1>3, <1>4, <1>5, <1>6, <1>7 DEF WorkerStep

\* A client changes nothing that the worker relies on.
LEMMA AloneClient ==
  ASSUME TypeInv, NEW c \in Client, Begin(c) \/ Send(c) \/ Die(c) \/ GiveUp(c),
         NEW w \in Worker, Honest(w), Alone(w)
  PROVE  Honest(w)' /\ Alone(w)'
<1>1. /\ UNCHANGED <<request, got, answer, serving, pc, itemVars, res, blk, diskVars, crashed>>
      /\ \A d \in Client : dead[d] => dead'[d]
  BY ClientSteps DEF TypeInv
<1>2. pc[w] # "idle" => serving[w] \in Client
  BY DEF TypeInv, OwnerInv, Serves
<1>3. Selected(w)' = Selected(w) /\ Task(w)' = Task(w)
  BY <1>1, SelectedStays DEF diskVars, itemVars, Task
<1>4. Honest(w)'
  BY <1>1, <1>2, <1>3 DEF Honest, itemVars, IsPut
<1>5. Alone(w)'
  BY <1>1, <1>3 DEF Alone, diskVars, IsPut
<1> QED
  BY <1>4, <1>5

\* Initially the worker is idle and no result waits.
LEMMA AloneInvInit ==
  ASSUME TransferAssumption, Init
  PROVE  AloneInv
<1>1. TypeInv
  BY TypeInit
<1>2. \A w \in Worker : pc[w] = "idle" /\ conn = <<>>
  BY DEF Init
<1> QED
  BY <1>1, <1>2 DEF AloneInv, Honest, Alone

\* With one worker every step keeps the invariant.
LEMMA AloneInvStep ==
  ASSUME TransferAssumption, OneWorker, AloneInv, [Next]_vars
  PROVE  AloneInv'
<1>1. TypeInv /\ TypeInv' /\ \A w \in Worker : Honest(w) /\ Alone(w)
  BY TypeStep DEF AloneInv
<1>2. ASSUME NEW w \in Worker, WorkerStep(w), NEW v \in Worker PROVE Honest(v)' /\ Alone(v)'
  <2>1. v = w
    BY DEF OneWorker
  <2> QED
    BY <1>1, <1>2, <2>1, HonestStep, AloneStep
<1>3. ASSUME UNCHANGED vars, NEW v \in Worker PROVE Honest(v)' /\ Alone(v)'
  <2>1. Selected(v)' = Selected(v) /\ Task(v)' = Task(v)
    BY <1>3, SelectedStays DEF vars, clientVars, poolVars, itemVars, diskVars, Task
  <2> QED
    BY <1>1, <1>3, <2>1 DEF vars, clientVars, poolVars, itemVars, diskVars, Honest, Alone, IsPut
<1>4. ASSUME NEW c \in Client, Begin(c) \/ Send(c) \/ Die(c) \/ GiveUp(c), NEW v \in Worker
      PROVE  Honest(v)' /\ Alone(v)'
  BY <1>1, <1>4, AloneClient
<1> QED
  BY <1>1, <1>2, <1>3, <1>4 DEF Next, AloneInv

\* A worker whose connection and file are its own crashes only of its client.
LEMMA CrashOfClient ==
  ASSUME TransferAssumption, TypeInv, NEW w \in Worker, Alone(w), WorkerStep(w), crashed'
  PROVE  serving[w] \in Client /\ dead[serving[w]]
<1>1. ~crashed
  BY DEF WorkerStep, TakeTask, RecvUser, RecvDir, RecvMd5, Query, StoreResult, Decide, Link,
     RecvHeader, RecvBlock, Insert, Reply, SendFile, Close, At
<1>2. serving[w] \in Client \/ TakeTask(w)
  BY DEF WorkerStep, RecvUser, RecvDir, RecvMd5, Query, StoreResult, Decide, Link,
     RecvHeader, RecvBlock, Insert, Reply, SendFile, Close, At, TypeInv, OwnerInv, Serves
<1>3. CASE StoreResult(w)
  BY <1>1, <1>3 DEF StoreResult, Alone, At
<1>4. CASE RecvBlock(w)
  <2>1. Len(store[Task(w).name]) = NBlocks /\ blk[w] \in 1 .. NBlocks /\ NBlocks \in Nat
    BY <1>4, FilesAreSeqs DEF RecvBlock, Alone, At, TypeInv, Writes, TransferAssumption
  <2>2. UNCHANGED crashed \/ blk[w] > Len(store[Task(w).name])
    BY <1>4 DEF RecvBlock
  <2>3. ~(blk[w] > Len(store[Task(w).name]))
    BY <2>1
  <2> QED
    BY <1>1, <2>2, <2>3
<1>5. CASE Decide(w) \/ Link(w) \/ Reply(w) \/ SendFile(w)
  BY <1>1, <1>2, <1>5 DEF Decide, Link, Reply, SendFile, Answer, TakeTask, At
<1> QED
  BY <1>1, <1>3, <1>4, <1>5 DEF WorkerStep, TakeTask, RecvUser, RecvDir, RecvMd5, Query,
     RecvHeader, Insert, Close

(***************************************************************************)
(* With one worker the server dies only of a client that was killed:       *)
(* mysql_store_result (work_factory.c:34, 51) always has a result to       *)
(* return, and a block is never written beyond the file that recvFile has  *)
(* made.                                                                   *)
(***************************************************************************)
THEOREM OneWorkerSurvives ==
  ASSUME OneWorker PROVE Spec => []DiesOfClients
<1> DEFINE DiesInv == AloneInv /\ DiesOfClients
<1>1. Init => DiesInv
  BY AloneInvInit, TransferAssumption DEF Init, DiesOfClients
<1>2. DiesInv /\ [Next]_vars => DiesInv'
  <2> SUFFICES ASSUME DiesInv, [Next]_vars PROVE DiesInv'
    OBVIOUS
  <2>0. AloneInv' /\ TypeInv
    BY AloneInvStep, OneWorker, TransferAssumption DEF AloneInv
  <2>1. ASSUME NEW w \in Worker, WorkerStep(w) PROVE DiesOfClients'
    BY <2>0, <2>1, CrashOfClient, WorkerSteps, TransferAssumption DEF AloneInv, DiesOfClients, NobodyDied
  <2>2. ASSUME NEW c \in Client, Begin(c) \/ Send(c) \/ Die(c) \/ GiveUp(c) PROVE DiesOfClients'
    BY <2>0, <2>2, ClientSteps DEF TypeInv, DiesOfClients, NobodyDied
  <2>3. CASE UNCHANGED vars
    BY <2>0, <2>3 DEF vars, clientVars, DiesOfClients, NobodyDied
  <2> QED
    BY <2>0, <2>1, <2>2, <2>3 DEF Next
<1>3. DiesInv => DiesOfClients
  OBVIOUS
<1> HIDE DEF DiesInv
<1> QED
  BY <1>1, <1>2, <1>3, PTL DEF Spec

\* The row that the put of a client is to leave, and the record of a content.
HasRow(c) ==
  \E r \in rows : r.owner = request[c].user /\ r.dir = request[c].dir /\ r.md5 = request[c].md5

\* A content that some row has.
Known(m) == \E r \in rows : r.md5 = m

\* A client that was asked for its file is being served or has left a record.
Asked(c) ==
  IsPut(c) /\ ~dead[c] /\ answer[c] = "0" =>
    \/ \E w \in Worker : serving[w] = c /\ pc[w] \in {"header", "blocks", "insert"}
    \/ Known(request[c].md5)

\* The put of a client that lives ends with its row.
Recorded(c) ==
  IsPut(c) /\ ~dead[c] =>
    /\ Finished(c) => HasRow(c)
    /\ \A w \in Worker : serving[w] = c /\ pc[w] = "close" => HasRow(c)

\* The invariant of records.
RecordInv == AloneInv /\ SentOnce /\ \A c \in Client : Asked(c) /\ Recorded(c)

\* What the worker of a live put inserts is that put's row.
LEMMA InsertsRow ==
  ASSUME TypeInv, NEW w \in Worker, Honest(w), Alone(w), pc[w] \in {"link", "insert"}, InsertRow(w),
         UNCHANGED request, NEW c \in Client, c = serving[w], ~dead[c]
  PROVE  HasRow(c)' /\ Known(request[c].md5)'
<1>1. IsPut(c)
  BY DEF TypeInv, OwnerInv, Serves, PutPc
<1>2. NewRow(w) \in rows'
  BY DEF InsertRow, Alone
<1>3. /\ NewRow(w).owner = request[c].user /\ NewRow(w).dir = request[c].dir
      /\ NewRow(w).md5 = request[c].md5
  BY <1>1 DEF NewRow, Honest, Task
<1> QED
  BY <1>2, <1>3 DEF HasRow, Known

\* What a worker finds of a live put is true.
LEMMA DecidesRight ==
  ASSUME TypeInv, NEW w \in Worker, Honest(w), Alone(w), Decide(w), ~dead[serving[w]]
  PROVE  /\ IsPut(serving[w])
         /\ pc'[w] = "close" => HasRow(serving[w])
         /\ answer'[serving[w]] = "0" =>
              \/ ~Known(request[serving[w]].md5) /\ pc'[w] = "header"
              \/ answer[serving[w]] = "0" /\ pc'[w] = "link"
<1>1. IsPut(serving[w]) /\ serving[w] \in Client
  BY DEF Decide, At, TypeInv, OwnerInv, Serves, PutPc
<1>2. /\ usrName[w] = request[serving[w]].user /\ preDirNo[w] = request[serving[w]].dir
      /\ fileMd5Value[w] = request[serving[w]].md5 /\ res[w] = Selected(w)
  BY <1>1 DEF Decide, At, Honest, Alone, Task
<1>3. Selected(w) = {r \in rows : r.md5 = request[serving[w]].md5}
  BY <1>1, <1>2 DEF Selected
<1>4. pc \in [Worker -> PcType] /\ answer \in [Client -> {None, "0", "1", "Y", "N"}]
  BY DEF TypeInv, OwnerInv, OwnerType, TypeOK
<1>5. CASE \E r \in {q \in res[w] : q.owner = usrName[w]} :
             Answer(w, "1") /\ Goto(w, IF r.dir = preDirNo[w] THEN "close" ELSE "link")
  BY <1>1, <1>2, <1>3, <1>4, <1>5 DEF Answer, Goto, HasRow
<1>6. CASE Goto(w, "link") /\ UNCHANGED answer
  BY <1>1, <1>4, <1>6 DEF Goto
<1>7. CASE res[w] = {} /\ Answer(w, "0") /\ Goto(w, "header")
  BY <1>1, <1>2, <1>3, <1>4, <1>7 DEF Answer, Goto, Known
<1> QED
  BY <1>5, <1>6, <1>7 DEF Decide

\* Records are not lost.
LEMMA RecordsStay ==
  ASSUME UNCHANGED request, rows \subseteq rows', NEW c
  PROVE  (HasRow(c) => HasRow(c)') /\ (Known(request[c].md5) => Known(request[c].md5)')
  BY DEF HasRow, Known

\* Whom a worker answers.
LEMMA OthersAnswer ==
  ASSUME TypeInv, NEW w \in Worker, WorkerStep(w), NEW c \in Client, answer'[c] # answer[c]
  PROVE  c = serving[w] /\ (Decide(w) \/ Link(w) \/ Reply(w))
  BY DEF WorkerStep, TakeTask, RecvUser, RecvDir, RecvMd5, Query, StoreResult, Decide, Link,
     RecvHeader, RecvBlock, Insert, Reply, SendFile, Close, Answer, TypeInv, TypeOK

\* A worker's step keeps the put it asks for in its hands until the row is in.
LEMMA AskedWorker ==
  ASSUME OneWorker, AloneInv, NEW w \in Worker, WorkerStep(w), NEW c \in Client, Asked(c)
  PROVE  Asked(c)'
<1>0. /\ TypeInv /\ Honest(w) /\ Alone(w) /\ UNCHANGED <<request, dead>> /\ rows \subseteq rows'
      /\ pc \in [Worker -> PcType]
  BY WorkerSteps DEF AloneInv, TypeInv, OwnerInv, OwnerType
<1>1. SUFFICES ASSUME IsPut(c), ~dead[c], answer'[c] = "0", ~Known(request[c].md5)'
               PROVE  serving'[w] = c /\ pc'[w] \in {"header", "blocks", "insert"}
  BY <1>0 DEF Asked, IsPut
<1>2. ~Known(request[c].md5)
  BY <1>0, <1>1, RecordsStay
<1>3. CASE answer[c] = "0"
  <2>1. serving[w] = c /\ pc[w] \in {"header", "blocks", "insert"}
    BY <1>1, <1>2, <1>3 DEF Asked, OneWorker
  <2>2. ~Insert(w)
    BY <1>0, <1>1, <2>1, InsertsRow DEF Insert, At
  <2>3. RecvHeader(w) \/ RecvBlock(w)
    BY <2>1, <2>2 DEF WorkerStep, TakeTask, RecvUser, RecvDir, RecvMd5, Query, StoreResult, Decide, Link,
       Reply, SendFile, Close, At
  <2> QED
    BY <1>0, <2>1, <2>3 DEF RecvHeader, RecvBlock, Goto, poolVars
<1>4. CASE answer[c] # "0"
  <2>1. c = serving[w] /\ (Decide(w) \/ Link(w) \/ Reply(w))
    BY <1>0, <1>1, <1>4, OthersAnswer
  <2>2. CASE Decide(w)
    BY <1>0, <1>1, <1>4, <2>1, <2>2, DecidesRight DEF Decide, poolVars
  <2>3. CASE Link(w) \/ Reply(w)
    BY <1>0, <1>1, <2>1, <2>3 DEF Link, Reply, Answer, TypeInv, TypeOK
  <2> QED
    BY <2>1, <2>2, <2>3
<1> QED
  BY <1>3, <1>4

\* A worker's step asks for a content only while no row has it, and nobody else
\* is being asked.
LEMMA SentOnceWorker ==
  ASSUME OneWorker, RecordInv, NEW w \in Worker, WorkerStep(w)
  PROVE  SentOnce'
<1>0. /\ TypeInv /\ Honest(w) /\ Alone(w) /\ UNCHANGED <<request, dead>>
      /\ \A c \in Client : Asked(c)
  BY WorkerSteps DEF RecordInv, AloneInv
<1>1. ASSUME NEW c \in Client, NEW d \in Client, c # d, ~dead[c], ~dead[d], IsPut(c), IsPut(d),
             request[c].md5 = request[d].md5, answer'[c] = "0", answer'[d] = "0", answer[c] # "0"
      PROVE  FALSE
  <2>1. c = serving[w] /\ (Decide(w) \/ Link(w) \/ Reply(w))
    BY <1>0, <1>1, OthersAnswer
  <2>2. Decide(w) /\ pc[w] = "decide"
    BY <1>1, <2>1 DEF Decide, Link, Reply, Answer, At, TypeInv, TypeOK, RecordInv, AloneInv
  <2>3. ~Known(request[d].md5)
    BY <1>0, <1>1, <2>1, <2>2, DecidesRight
  <2>4. answer[d] = "0"
    BY <1>0, <1>1, <2>1, OthersAnswer
  <2>5. \E v \in Worker : serving[v] = d
    BY <1>0, <1>1, <2>3, <2>4 DEF Asked
  <2> QED
    BY <1>1, <2>1, <2>5 DEF OneWorker
<1>2. \A c, d \in Client :
        /\ c # d /\ ~dead[c] /\ ~dead[d] /\ IsPut(c) /\ IsPut(d) /\ request[c].md5 = request[d].md5
        /\ answer'[c] = "0" /\ answer'[d] = "0"
        => answer[c] = "0" /\ answer[d] = "0"
  BY <1>1
<1> QED
  BY <1>0, <1>2 DEF SentOnce, RecordInv, IsPut

\* A worker's step lets a put end only with its row.
LEMMA RecordedWorker ==
  ASSUME OneWorker, AloneInv, NEW w \in Worker, WorkerStep(w), NEW c \in Client, Recorded(c)
  PROVE  Recorded(c)'
<1>0. /\ TypeInv /\ Honest(w) /\ Alone(w) /\ UNCHANGED <<request, sent, dead>> /\ rows \subseteq rows'
      /\ pc \in [Worker -> PcType] /\ serving \in [Worker -> Client \cup {None}]
      /\ waiting \in Seq(Client)
  BY WorkerSteps DEF AloneInv, TypeInv, OwnerInv, OwnerType
<1>1. SUFFICES ASSUME IsPut(c), ~dead[c], ~HasRow(c)'
               PROVE  ~Finished(c)' /\ ~(serving'[w] = c /\ pc'[w] = "close")
  BY <1>0 DEF Recorded, IsPut, OneWorker
<1>2. ~HasRow(c)
  BY <1>0, <1>1, RecordsStay
<1>3. ~Finished(c) /\ ~(serving[w] = c /\ pc[w] = "close")
  BY <1>1, <1>2 DEF Recorded
<1>4. CASE TakeTask(w)
  <2>1. serving' = [serving EXCEPT ![w] = Head(waiting)] /\ waiting' = Tail(waiting) /\ waiting # <<>> /\ serving[w] = None
          /\ pc'[w] = "user"
    BY <1>0, <1>4 DEF TakeTask, Pool!HandOut, Goto
  <2>2. CASE \E i \in DOMAIN waiting : waiting[i] = c
    <3>1. PICK i \in DOMAIN waiting : waiting[i] = c
      BY <2>2
    <3>2. CASE i = 1
      <4>1. Head(waiting) = c
        BY <1>0, <2>1, <3>1, <3>2, HeadTailProperties
      <4> QED
        BY <1>0, <2>1, <4>1 DEF Finished
    <3>3. CASE i # 1
      <4>1. Len(waiting) \in Nat /\ DOMAIN waiting = 1 .. Len(waiting)
        BY <1>0, LenProperties
      <4>2. Tail(waiting) \in Seq(Client) /\ Len(Tail(waiting)) = Len(waiting) - 1
        BY <1>0, <2>1, HeadTailProperties
      <4>3. DOMAIN Tail(waiting) = 1 .. Len(waiting) - 1
        BY <4>1, <4>2, LenProperties
      <4>4. i - 1 \in DOMAIN Tail(waiting) /\ i - 1 \in 1 .. Len(waiting) - 1
        BY <3>1, <3>3, <4>1, <4>3
      <4>5. Tail(waiting)[i - 1] = waiting[(i - 1) + 1]
        BY <1>0, <2>1, <4>4, HeadTailProperties
      <4>6. (i - 1) + 1 = i
        BY <3>1, <4>1
      <4>7. Tail(waiting)[i - 1] = c
        BY <3>1, <4>5, <4>6
      <4> QED
        BY <2>1, <4>4, <4>7 DEF Finished
    <3> QED
      BY <3>2, <3>3
  <2>3. CASE \E v \in Worker : serving[v] = c
    BY <2>1, <2>3, TransferAssumption DEF OneWorker
  <2>4. CASE ~(sent[c] > 0)
    BY <1>0, <2>1, <2>4 DEF Finished
  <2> QED
    BY <1>3, <2>1, <2>2, <2>3, <2>4 DEF Finished
<1>5. CASE Close(w)
  BY <1>0, <1>3, <1>5, TransferAssumption DEF Close, Pool!Finish, At, Goto, Finished, OneWorker
<1>6. CASE UNCHANGED poolVars /\ pc'[w] # "close"
  BY <1>0, <1>3, <1>6 DEF poolVars, Finished
<1>7. CASE Decide(w)
  <2>1. serving[w] = c => pc'[w] # "close"
    BY <1>0, <1>1, <1>2, <1>7, DecidesRight
  <2> QED
    BY <1>0, <1>3, <1>7, <2>1 DEF Decide, poolVars, Finished
<1>8. CASE Link(w) \/ Insert(w)
  <2>1. serving[w] # c
    BY <1>0, <1>1, <1>8, InsertsRow DEF Link, Insert, At
  <2> QED
    BY <1>0, <1>3, <1>8, <2>1 DEF Link, Insert, poolVars, Finished
<1>9. CASE Reply(w) \/ SendFile(w)
  <2>1. serving[w] # c
    BY <1>0, <1>1, <1>9 DEF Reply, SendFile, At, Alone
  <2> QED
    BY <1>0, <1>3, <1>9, <2>1 DEF Reply, SendFile, poolVars, Finished
<1>10. CASE RecvUser(w) \/ RecvDir(w) \/ RecvMd5(w) \/ Query(w) \/ StoreResult(w) \/ RecvHeader(w) \/ RecvBlock(w)
  <2>1. UNCHANGED poolVars /\ pc'[w] # "close"
    BY <1>0, <1>10 DEF RecvUser, RecvDir, RecvMd5, Query, StoreResult, RecvHeader, RecvBlock, Goto, At
  <2> QED
    BY <1>6, <2>1
<1> QED
  BY <1>4, <1>5, <1>7, <1>8, <1>9, <1>10 DEF WorkerStep

\* A client's step leaves rows, answers and workers alone; only Begin changes
\* the queue, by adding its client.
LEMMA RecordClient ==
  ASSUME RecordInv, NEW b \in Client, Begin(b) \/ Send(b) \/ Die(b) \/ GiveUp(b)
  PROVE  SentOnce' /\ \A c \in Client : Asked(c)' /\ Recorded(c)'
<1>1. /\ UNCHANGED <<request, got, answer, serving, pc, itemVars, res, blk, diskVars, crashed>>
      /\ \A d \in Client : dead[d] => dead'[d]
  BY ClientSteps DEF RecordInv, AloneInv, TypeInv
<1>2. SentOnce'
  BY <1>1 DEF RecordInv, SentOnce, IsPut
<1>3. ASSUME NEW c \in Client PROVE Asked(c)'
  BY <1>1, <1>3 DEF RecordInv, Asked, IsPut, Known, diskVars
<1>4. ASSUME NEW c \in Client, ~Finished(c) PROVE ~Finished(c)'
  <2>1. waiting \in Seq(Client) /\ sent \in [Client -> 0 .. 5 + NBlocks] /\ NBlocks \in Nat
    BY TransferAssumption DEF RecordInv, AloneInv, TypeInv, TypeOK
  <2>2. CASE UNCHANGED <<waiting, sent>>
    BY <1>1, <1>4, <2>2 DEF Finished
  <2>3. CASE Begin(b)
    <3>1. waiting' = Append(waiting, b) /\ sent' = [sent EXCEPT ![b] = 1] /\ sent[b] = 0
      BY <2>3 DEF Begin, Pool!Accept
    <3>2. /\ Len(waiting) \in Nat /\ DOMAIN waiting = 1 .. Len(waiting)
          /\ Len(waiting') = Len(waiting) + 1 /\ waiting'[Len(waiting) + 1] = b
          /\ \A i \in 1 .. Len(waiting) : waiting'[i] = waiting[i]
      BY <2>1, <3>1, AppendProperties, LenProperties
    <3>3. waiting' \in Seq(Client)
      BY <2>1, <3>1, AppendProperties
    <3>4. DOMAIN waiting' = 1 .. Len(waiting) + 1
      BY <3>2, <3>3, LenProperties
    <3>5. CASE c = b
      <4>1. Len(waiting) + 1 \in DOMAIN waiting'
        BY <3>2, <3>4
      <4> QED
        BY <3>2, <3>5, <4>1 DEF Finished
    <3>6. CASE c # b
      <4>1. sent'[c] = sent[c]
        BY <2>1, <3>1, <3>6
      <4>2. \A i \in DOMAIN waiting : i \in DOMAIN waiting' /\ waiting'[i] = waiting[i]
        BY <3>2, <3>4
      <4> QED
        BY <1>1, <1>4, <4>1, <4>2 DEF Finished
    <3> QED
      BY <3>5, <3>6
  <2>4. CASE Send(b)
    <3>1. UNCHANGED waiting /\ sent' = [sent EXCEPT ![b] = sent[b] + 1]
      BY <2>4 DEF Send, poolVars
    <3>2. sent[c] > 0 => sent'[c] > 0
      BY <2>1, <3>1
    <3> QED
      BY <1>1, <1>4, <2>4, <3>1, <3>2 DEF Finished, Send
  <2>5. CASE Die(b) \/ GiveUp(b)
    BY <2>2, <2>5 DEF Die, GiveUp, poolVars
  <2> QED
    BY <2>3, <2>4, <2>5
<1>5. ASSUME NEW c \in Client PROVE Recorded(c)'
  BY <1>1, <1>4, <1>5 DEF RecordInv, Recorded, HasRow, IsPut, diskVars
<1> QED
  BY <1>2, <1>3, <1>5

\* Initially nobody was asked and nothing has ended.
LEMMA RecordInvInit ==
  ASSUME TransferAssumption, Init
  PROVE  RecordInv
<1>1. AloneInv
  BY AloneInvInit
<1>2. /\ \A c \in Client : answer[c] = None /\ sent[c] = 0
      /\ \A w \in Worker : pc[w] = "idle"
  BY DEF Init
<1> QED
  BY <1>1, <1>2, TransferAssumption DEF RecordInv, SentOnce, Asked, Recorded, Finished, TransferAssumption

\* With one worker every step keeps the invariant.
LEMMA RecordInvStep ==
  ASSUME TransferAssumption, OneWorker, RecordInv, [Next]_vars
  PROVE  RecordInv'
<1>1. AloneInv'
  BY AloneInvStep DEF RecordInv
<1>2. ASSUME NEW w \in Worker, WorkerStep(w) PROVE SentOnce' /\ \A c \in Client : Asked(c)' /\ Recorded(c)'
  BY <1>2, SentOnceWorker, AskedWorker, RecordedWorker DEF RecordInv
<1>3. ASSUME UNCHANGED vars PROVE SentOnce' /\ \A c \in Client : Asked(c)' /\ Recorded(c)'
  BY <1>3 DEF vars, clientVars, poolVars, diskVars, RecordInv, SentOnce, Asked, Recorded, Finished,
     HasRow, Known, IsPut
<1> QED
  BY <1>1, <1>2, <1>3, RecordClient DEF Next, RecordInv

(***************************************************************************)
(* Every upload is recorded, for any number of clients and one worker: the *)
(* put of a client that lives ends with a row of its user, directory and   *)
(* content, whether an earlier put, the instant upload                     *)
(* (work_factory.c:66-71) or recvFile (lines 77-80) has led to it.         *)
(***************************************************************************)
THEOREM OneWorkerRecords ==
  ASSUME OneWorker PROVE Spec => []UploadRecorded
<1>1. Init => RecordInv
  BY RecordInvInit, TransferAssumption
<1>2. RecordInv /\ [Next]_vars => RecordInv'
  BY RecordInvStep, OneWorker, TransferAssumption
<1>3. RecordInv => UploadRecorded
  BY DEF RecordInv, Recorded, UploadRecorded, HasRow
<1> QED
  BY <1>1, <1>2, <1>3, PTL DEF Spec

(***************************************************************************)
(* With one worker a content is asked for once: "0" (work_factory.c:75) is *)
(* the answer only while no row has the digest, and no second put is       *)
(* between its query (line 48) and its INSERT.                             *)
(***************************************************************************)
THEOREM OneWorkerAsksOnce ==
  ASSUME OneWorker PROVE Spec => []SentOnce
<1>1. Init => RecordInv
  BY RecordInvInit, TransferAssumption
<1>2. RecordInv /\ [Next]_vars => RecordInv'
  BY RecordInvStep, OneWorker, TransferAssumption
<1>3. RecordInv => SentOnce
  BY DEF RecordInv
<1> QED
  BY <1>1, <1>2, <1>3, PTL DEF Spec

-----------------------------------------------------------------------------
(* The content of the rows. *)

\* The digest that a worker keeps is nothing, one that a row has, or the one of
\* the put that it serves; it is linked if a row has it, else the file is asked
\* for.
Digest(w) ==
  /\ \/ fileMd5Value[w] = Unset
     \/ Known(fileMd5Value[w])
     \/ /\ pc[w] \in {"query", "result", "decide", "header", "blocks", "insert"}
        /\ IsPut(serving[w]) /\ fileMd5Value[w] = Task(w).md5
  /\ pc[w] = "link" => Known(fileMd5Value[w])
  /\ pc[w] \in {"header", "blocks", "insert"} => ~Known(fileMd5Value[w])

\* The blocks before blk have come from the client of this put, unless it is
\* gone.
Written(w) ==
  /\ pc[w] = "blocks" =>
       dead[serving[w]] \/ \A i \in 1 .. blk[w] - 1 : store[Task(w).name][i] = Task(w).md5
  /\ pc[w] = "insert" => dead[serving[w]] \/ store[Task(w).name] = Whole(Task(w).md5)

\* A client was killed in the put of a file of this name.
Killed(n) == \E c \in Client : IsPut(c) /\ dead[c] /\ request[c].name = n

\* The file is complete, with this content, or a client was killed in a put of
\* it.
Settled(n, m) == store[n] = Whole(m) \/ Killed(n)

\* Every row has a putter of its file, and one of its content that lives.
RowsHavePuts ==
  \A r \in rows : \E c \in Client :
    IsPut(c) /\ request[c].name = r.name /\ (dead[c] \/ request[c].md5 = r.md5)

\* The file of a row is complete, and so is the file of every put of the same
\* content: the instant upload makes a row with the name of that put.
Complete ==
  \A r \in rows :
    /\ Settled(r.name, r.md5)
    /\ \A c \in Client : IsPut(c) /\ request[c].md5 = r.md5 => Settled(request[c].name, r.md5)

\* The invariant of contents.
ContentInv ==
  /\ AloneInv
  /\ \A w \in Worker : Digest(w) /\ Written(w)
  /\ RowsHavePuts
  /\ NamesUnambiguous => Complete

\* A worker takes the digest of its put from the client, finds it in a row or
\* not, and links or receives accordingly.
LEMMA DigestStep ==
  ASSUME TypeInv, NEW w \in Worker, Alone(w), Digest(w), WorkerStep(w)
  PROVE  Digest(w)'
<1>0. /\ UNCHANGED request /\ rows \subseteq rows' /\ pc \in [Worker -> PcType]
      /\ fileMd5Value \in [Worker -> Content \cup {Unset}]
      /\ pc[w] \in PutPc => IsPut(serving[w])
  BY WorkerSteps DEF TypeInv, TypeOK, OwnerInv, OwnerType, Serves
<1>1. CASE TakeTask(w) \/ RecvUser(w) \/ RecvDir(w) \/ Close(w)
  <2>1. UNCHANGED fileMd5Value /\ \E l \in {"user", "dir", "md5", "query", "idle"} : Goto(w, l)
    BY <1>1 DEF TakeTask, RecvUser, RecvDir, Close, itemVars
  <2>2. pc[w] \in {"idle", "user", "dir", "close"}
    BY <1>1 DEF TakeTask, RecvUser, RecvDir, Close, At
  <2> QED
    BY <1>0, <2>1, <2>2 DEF Digest, Goto, Known
<1>2. CASE RecvMd5(w)
  <2>1. pc'[w] = "query" /\ pc[w] = "md5" /\ UNCHANGED serving
    BY <1>0, <1>2 DEF RecvMd5, Goto, At, poolVars
  <2>2. fileMd5Value'[w] \in {fileMd5Value[w], Task(w).md5}
    BY <1>0, <1>2 DEF RecvMd5, RecvItem
  <2> QED
    BY <1>0, <2>1, <2>2 DEF Digest, Known, Task, IsPut, PutPc
<1>3. CASE Query(w) \/ StoreResult(w) \/ Reply(w) \/ SendFile(w) \/ RecvHeader(w) \/ RecvBlock(w)
  <2>1. UNCHANGED <<fileMd5Value, serving, rows>>
    BY <1>3 DEF Query, StoreResult, Reply, SendFile, RecvHeader, RecvBlock, itemVars, poolVars, diskVars
  <2>2. \/ pc[w] \in {"query", "result"} /\ pc'[w] \in {"result", "decide", "reply"}
           /\ (pc'[w] = "reply" => ~IsPut(serving[w]))
        \/ pc[w] \in {"reply", "sendFile"} /\ pc'[w] \in {"sendFile", "close"}
        \/ pc[w] \in {"header", "blocks"} /\ pc'[w] \in {"blocks", "insert"}
    BY <1>0, <1>3 DEF Query, StoreResult, Reply, SendFile, RecvHeader, RecvBlock, At, Goto
  <2> QED
    BY <1>0, <2>1, <2>2 DEF Digest, Known, Task, IsPut
<1>4. CASE Decide(w)
  <2>1. /\ UNCHANGED <<fileMd5Value, serving, rows>> /\ pc[w] = "decide" /\ res[w] = Selected(w)
        /\ IsPut(serving[w])
    BY <1>0, <1>4 DEF Decide, itemVars, poolVars, diskVars, At, Alone, PutPc
  <2>2. Selected(w) = {r \in rows : r.md5 = fileMd5Value[w]}
    BY <2>1 DEF Selected
  <2>3. \/ pc'[w] \in {"close", "link"} /\ res[w] # {}
        \/ pc'[w] = "header" /\ res[w] = {}
    BY <1>0, <1>4 DEF Decide, Goto
  <2>4. res[w] # {} <=> Known(fileMd5Value[w])
    BY <2>1, <2>2 DEF Known
  <2> QED
    BY <1>0, <2>1, <2>3, <2>4 DEF Digest, Known, Task, IsPut
<1>5. CASE Link(w) \/ Insert(w)
  <2>1. UNCHANGED fileMd5Value /\ pc'[w] = "close" /\ NewRow(w) \in rows'
    BY <1>0, <1>5 DEF Link, Insert, InsertRow, itemVars, Goto, Alone, At
  <2>2. NewRow(w).md5 = fileMd5Value[w]
    BY DEF NewRow
  <2> QED
    BY <2>1, <2>2 DEF Digest, Known
<1> QED
  BY <1>1, <1>2, <1>3, <1>4, <1>5 DEF WorkerStep

\* The blocks of a file are written in their order by the one worker that
\* receives it.
LEMMA WrittenStep ==
  ASSUME TransferAssumption, TypeInv, NEW w \in Worker, Alone(w), Written(w), WorkerStep(w)
  PROVE  Written(w)'
<1>0. /\ UNCHANGED <<request, dead>> /\ pc \in [Worker -> PcType]
      /\ store \in [Name -> Files \cup {<<>>, Absent}]
      /\ blk \in [Worker -> 0 .. NBlocks + 1] /\ NBlocks \in Nat \ {0}
  BY WorkerSteps DEF TypeInv, TypeOK, OwnerInv, OwnerType, Writes, TransferAssumption
<1>1. CASE ~(RecvHeader(w) \/ RecvBlock(w))
  <2>1. pc'[w] \notin {"blocks", "insert"}
    BY <1>0, <1>1 DEF WorkerStep, TakeTask, RecvUser, RecvDir, RecvMd5, Query, StoreResult, Decide, Link,
       Insert, Reply, SendFile, Close, Goto
  <2> QED
    BY <2>1 DEF Written
<1>2. CASE RecvHeader(w)
  <2>1. \/ pc'[w] = "blocks" /\ blk'[w] = 1
        \/ pc'[w] = "insert" /\ Lost(w, 5)
    BY <1>0, <1>2 DEF RecvHeader, Goto
  <2>2. UNCHANGED serving
    BY <1>2 DEF RecvHeader, poolVars
  <2> QED
    BY <1>0, <2>1, <2>2 DEF Written, Lost
<1>3. CASE RecvBlock(w)
  <2> DEFINE n == Task(w).name
             m == Task(w).md5
  <2>0. /\ pc[w] = "blocks" /\ UNCHANGED serving /\ n \in Name /\ store[n] \in Files
        /\ blk[w] \in 1 .. NBlocks /\ n' = n /\ m' = m /\ m \in Content
    BY <1>0, <1>3, RowTypes DEF RecvBlock, At, poolVars, Alone, TypeInv, Writes, Task, OwnerInv, Serves, PutPc
  <2>1. CASE (Lost(w, 5 + blk[w]) /\ Goto(w, "insert")) \/ UNCHANGED <<store, blk, pc>>
    BY <1>0, <2>0, <2>1 DEF Written, Lost, Goto, Task
  <2>2. CASE /\ store' = [store EXCEPT ![n][blk[w]] = m]
             /\ blk' = [blk EXCEPT ![w] = @ + 1]
             /\ Goto(w, IF blk[w] = NBlocks THEN "insert" ELSE "blocks")
    <3>1. blk'[w] = blk[w] + 1 /\ pc'[w] = IF blk[w] = NBlocks THEN "insert" ELSE "blocks"
      BY <1>0, <2>2 DEF Goto
    <3>2. store'[n] = [store[n] EXCEPT ![blk[w]] = m]
      BY <1>0, <2>0, <2>2
    <3>3. store'[n] \in Files
      BY <1>0, <2>0, <3>2 DEF Files
    <3>4. ~dead[serving[w]] => \A i \in 1 .. blk[w] : store'[n][i] = m
      <4>1. ~dead[serving[w]] => \A i \in 1 .. blk[w] - 1 : store[n][i] = m
        BY <2>0 DEF Written
      <4>2. DOMAIN store[n] = 1 .. NBlocks
        BY <2>0 DEF Files
      <4> QED
        BY <1>0, <2>0, <3>2, <4>1, <4>2
    <3>5. CASE blk[w] = NBlocks
      <4>1. ~dead[serving[w]] => store'[n] = Whole(m)
        BY <3>3, <3>4, <3>5 DEF Files, Whole
      <4> QED
        BY <1>0, <2>0, <3>1, <3>5, <4>1 DEF Written
    <3>6. CASE blk[w] # NBlocks
      <4>1. blk'[w] - 1 = blk[w] /\ pc'[w] = "blocks"
        BY <1>0, <2>0, <3>1, <3>6
      <4> QED
        BY <1>0, <2>0, <3>4, <4>1 DEF Written
    <3> QED
      BY <3>5, <3>6
  <2> QED
    BY <1>3, <2>1, <2>2 DEF RecvBlock
<1> QED
  BY <1>1, <1>2, <1>3

\* A worker that is to write a file finds no row of the file, unless a client
\* was killed in a put of it.
LEMMA NoRowYet ==
  ASSUME TypeInv, NEW w \in Worker, Honest(w), Digest(w), RowsHavePuts, NamesUnambiguous,
         pc[w] \in {"header", "blocks"}, ~Killed(Task(w).name), NEW r \in rows
  PROVE  /\ r.name # Task(w).name
         /\ \A c \in Client : IsPut(c) /\ request[c].md5 = r.md5 => request[c].name # Task(w).name
<1>1. serving[w] \in Client /\ IsPut(serving[w])
  BY DEF TypeInv, OwnerInv, Serves, PutPc
<1>2. ~dead[serving[w]]
  BY <1>1 DEF Killed, Task
<1>3. fileMd5Value[w] = Task(w).md5
  BY <1>1, <1>2 DEF Honest
<1>4. r.md5 # Task(w).md5
  BY <1>3 DEF Digest, Known
<1>5. ASSUME NEW c \in Client, IsPut(c), request[c].name = Task(w).name PROVE request[c].md5 # r.md5 /\ ~dead[c]
  BY <1>1, <1>4, <1>5 DEF NamesUnambiguous, Task, Killed
<1> QED
  BY <1>5 DEF RowsHavePuts

\* The row that a worker inserts is of a put, and its content is stored.
LEMMA NewRowSettled ==
  ASSUME TypeInv, NEW w \in Worker, Honest(w), Digest(w), Written(w), Complete, NamesUnambiguous,
         pc[w] \in {"link", "insert"}
  PROVE  /\ Settled(Task(w).name, fileMd5Value[w])
         /\ \A c \in Client : IsPut(c) /\ request[c].md5 = fileMd5Value[w] =>
              Settled(request[c].name, fileMd5Value[w])
<1>1. serving[w] \in Client /\ IsPut(serving[w]) /\ Task(w) = request[serving[w]]
  BY DEF TypeInv, OwnerInv, Serves, PutPc, Task
<1>2. ~dead[serving[w]] => fileMd5Value[w] = Task(w).md5
  BY <1>1 DEF Honest
<1>3. dead[serving[w]] => Killed(Task(w).name)
  BY <1>1 DEF Killed
<1>4. CASE pc[w] = "link"
  <2>1. PICK r \in rows : r.md5 = fileMd5Value[w]
    BY <1>4 DEF Digest, Known
  <2>2. \A c \in Client : IsPut(c) /\ request[c].md5 = fileMd5Value[w] => Settled(request[c].name, fileMd5Value[w])
    BY <2>1 DEF Complete
  <2> QED
    BY <1>1, <1>2, <1>3, <2>2 DEF Settled
<1>5. CASE pc[w] = "insert"
  <2>1. ~dead[serving[w]] => store[Task(w).name] = Whole(fileMd5Value[w])
    BY <1>2, <1>5 DEF Written
  <2>2. Settled(Task(w).name, fileMd5Value[w])
    BY <1>3, <2>1 DEF Settled
  <2>3. ASSUME NEW c \in Client, IsPut(c), request[c].md5 = fileMd5Value[w]
        PROVE  Settled(request[c].name, fileMd5Value[w])
    <3>1. fileMd5Value[w] # Unset
      BY <2>3, RequestTypes, TransferAssumption DEF TypeInv, TypeOK, TransferAssumption
    <3>2. fileMd5Value[w] = Task(w).md5
      BY <1>5, <3>1 DEF Digest
    <3>3. request[c].name = Task(w).name
      BY <1>1, <2>3, <3>2 DEF NamesUnambiguous
    <3> QED
      BY <2>2, <3>3
  <2> QED
    BY <2>2, <2>3
<1> QED
  BY <1>4, <1>5

\* A settled file stays so as long as nobody writes it.
LEMMA SettledStays ==
  ASSUME UNCHANGED request, \A c \in Client : dead[c] => dead'[c], NEW n, NEW m,
         Settled(n, m), store'[n] = store[n] \/ Killed(n)
  PROVE  Settled(n, m)'
  BY DEF Settled, Killed, IsPut

\* With the rows as they are, only recvFile could unsettle them.
LEMMA CompleteStays ==
  ASSUME UNCHANGED <<request, rows>>, \A c \in Client : dead[c] => dead'[c], Complete,
         \A r \in rows :
           /\ store'[r.name] = store[r.name] \/ Killed(r.name)
           /\ \A c \in Client : IsPut(c) /\ request[c].md5 = r.md5 =>
                store'[request[c].name] = store[request[c].name] \/ Killed(request[c].name)
  PROVE  Complete'
<1>1. SUFFICES ASSUME NEW r \in rows
               PROVE  /\ Settled(r.name, r.md5)'
                      /\ \A c \in Client : IsPut(c) /\ request[c].md5 = r.md5 => Settled(request[c].name, r.md5)'
  BY DEF Complete, IsPut, Settled, Killed
<1>2. Settled(r.name, r.md5)'
  BY SettledStays DEF Complete
<1>3. ASSUME NEW c \in Client, IsPut(c), request[c].md5 = r.md5 PROVE Settled(request[c].name, r.md5)'
  <2>1. Settled(request[c].name, r.md5)
    BY <1>3 DEF Complete
  <2> QED
    BY <1>3, <2>1 DEF Settled, Killed, IsPut
<1> QED
  BY <1>2, <1>3

\* A worker's step keeps the files of rows complete: the file that it writes
\* has no row yet.
LEMMA CompleteWorker ==
  ASSUME TransferAssumption, ContentInv, NEW w \in Worker, WorkerStep(w), NamesUnambiguous
  PROVE  Complete'
<1>0. /\ TypeInv /\ Honest(w) /\ Alone(w) /\ Digest(w) /\ Written(w) /\ RowsHavePuts /\ Complete
      /\ UNCHANGED <<request, dead>>
  BY WorkerSteps DEF ContentInv, AloneInv
<1>1. CASE RecvHeader(w) \/ RecvBlock(w)
  <2>1. /\ UNCHANGED rows /\ pc[w] \in {"header", "blocks"}
        /\ \A n \in Name : n # Task(w).name => store'[n] = store[n]
    BY <1>0, <1>1 DEF RecvHeader, RecvBlock, At, TypeInv, Writes
  <2>2. \A r \in rows : r.name \in Name
    BY <1>0 DEF TypeInv, TypeOK, Row
  <2>3. \A c \in Client : request[c].name \in Name
    BY <1>0, RequestTypes DEF TypeInv, TypeOK
  <2>4. CASE Killed(Task(w).name)
    BY <1>0, <2>1, <2>2, <2>3, <2>4, CompleteStays
  <2>5. CASE ~Killed(Task(w).name)
    <3>1. \A r \in rows :
            /\ r.name # Task(w).name
            /\ \A c \in Client : IsPut(c) /\ request[c].md5 = r.md5 => request[c].name # Task(w).name
      BY <1>0, <2>1, <2>5, NoRowYet
    <3> QED
      BY <1>0, <2>1, <2>2, <2>3, <3>1, CompleteStays
  <2> QED
    BY <2>4, <2>5
<1>2. CASE Link(w) \/ Insert(w)
  <2>1. pc[w] \in {"link", "insert"} /\ UNCHANGED store /\ rows' = rows \cup {NewRow(w)}
    BY <1>0, <1>2 DEF Link, Insert, InsertRow, At, Alone
  <2>2. NewRow(w).name = Task(w).name /\ NewRow(w).md5 = fileMd5Value[w]
    BY DEF NewRow
  <2>3. \A r \in rows \cup {NewRow(w)} :
          /\ Settled(r.name, r.md5)
          /\ \A c \in Client : IsPut(c) /\ request[c].md5 = r.md5 => Settled(request[c].name, r.md5)
    BY <1>0, <2>1, <2>2, NewRowSettled DEF Complete
  <2> QED
    BY <1>0, <2>1, <2>3 DEF Complete, IsPut, Settled, Killed
<1>3. CASE UNCHANGED <<rows, store>>
  BY <1>0, <1>3, CompleteStays
<1> QED
  BY <1>1, <1>2, <1>3 DEF WorkerStep, TakeTask, RecvUser, RecvDir, RecvMd5, Query, StoreResult, Decide,
     Reply, SendFile, Close, diskVars

\* A new row is of the put that the worker serves.
LEMMA PutsWorker ==
  ASSUME TypeInv, NEW w \in Worker, Honest(w), RowsHavePuts, WorkerStep(w)
  PROVE  RowsHavePuts'
<1>0. UNCHANGED <<request, dead>>
  BY WorkerSteps
<1>1. CASE Link(w) \/ Insert(w)
  <2>1. /\ serving[w] \in Client /\ IsPut(serving[w]) /\ rows' \subseteq rows \cup {NewRow(w)}
        /\ ~dead[serving[w]] => fileMd5Value[w] = request[serving[w]].md5
    BY <1>1 DEF Link, Insert, InsertRow, At, TypeInv, OwnerInv, Serves, PutPc, Honest, Task
  <2>2. NewRow(w).name = request[serving[w]].name /\ NewRow(w).md5 = fileMd5Value[w]
    BY DEF NewRow, Task
  <2>3. \A r \in rows \cup {NewRow(w)} : \E c \in Client :
          IsPut(c) /\ request[c].name = r.name /\ (dead[c] \/ request[c].md5 = r.md5)
    BY <2>1, <2>2 DEF RowsHavePuts
  <2> QED
    BY <1>0, <2>1, <2>3 DEF RowsHavePuts, IsPut
<1>2. CASE UNCHANGED rows
  BY <1>0, <1>2 DEF RowsHavePuts, IsPut
<1> QED
  BY <1>1, <1>2 DEF WorkerStep, TakeTask, RecvUser, RecvDir, RecvMd5, Query, StoreResult, Decide,
     RecvHeader, RecvBlock, Reply, SendFile, Close, diskVars

\* Initially there are no rows.
LEMMA ContentInvInit ==
  ASSUME TransferAssumption, Init
  PROVE  ContentInv
<1>1. AloneInv
  BY AloneInvInit
<1>2. rows = {} /\ \A w \in Worker : pc[w] = "idle" /\ fileMd5Value[w] = Unset
  BY DEF Init
<1> QED
  BY <1>1, <1>2 DEF ContentInv, Digest, Written, RowsHavePuts, Complete

\* A step that leaves the server alone, and brings nobody back to life.
LEMMA ContentStays ==
  ASSUME ContentInv, UNCHANGED <<request, serving, pc, fileMd5Value, blk, rows, store>>,
         \A c \in Client : dead[c] => dead'[c]
  PROVE  /\ \A w \in Worker : Digest(w)' /\ Written(w)'
         /\ RowsHavePuts' /\ (NamesUnambiguous => Complete)'
<1>1. ASSUME NEW w \in Worker PROVE Digest(w)' /\ Written(w)'
  <2>1. Digest(w) /\ Written(w) /\ (pc[w] \in PutPc => serving[w] \in Client)
    BY DEF ContentInv, AloneInv, TypeInv, OwnerInv, Serves, PutPc
  <2> QED
    BY <2>1 DEF Digest, Written, Known, Task, IsPut, PutPc
<1>2. RowsHavePuts'
  BY DEF ContentInv, RowsHavePuts, IsPut
<1>3. ASSUME NamesUnambiguous PROVE Complete'
  BY <1>3, CompleteStays DEF ContentInv
<1>4. NamesUnambiguous' => NamesUnambiguous
  BY DEF NamesUnambiguous, IsPut
<1> QED
  BY <1>1, <1>2, <1>3, <1>4

\* With one worker every step keeps the invariant.
LEMMA ContentInvStep ==
  ASSUME TransferAssumption, OneWorker, ContentInv, [Next]_vars
  PROVE  ContentInv'
<1>1. AloneInv' /\ AloneInv
  BY AloneInvStep DEF ContentInv
<1>2. ASSUME NEW w \in Worker, WorkerStep(w) PROVE ContentInv'
  <2>1. TypeInv /\ Honest(w) /\ Alone(w) /\ Digest(w) /\ Written(w) /\ RowsHavePuts /\ UNCHANGED request
    BY <1>2, WorkerSteps DEF ContentInv, AloneInv
  <2>2. Digest(w)' /\ Written(w)'
    BY <1>2, <2>1, DigestStep, WrittenStep
  <2>3. \A v \in Worker : Digest(v)' /\ Written(v)'
    BY <2>2 DEF OneWorker
  <2>4. RowsHavePuts'
    BY <1>2, <2>1, PutsWorker
  <2>5. NamesUnambiguous' => Complete'
    BY <1>2, <2>1, CompleteWorker DEF NamesUnambiguous, IsPut
  <2> QED
    BY <1>1, <2>3, <2>4, <2>5 DEF ContentInv
<1>3. ASSUME NEW c \in Client, Begin(c) \/ Send(c) \/ Die(c) \/ GiveUp(c) PROVE ContentInv'
  <2>1. /\ UNCHANGED <<request, serving, pc, fileMd5Value, blk, rows, store>>
        /\ \A d \in Client : dead[d] => dead'[d]
    BY <1>1, <1>3, ClientSteps DEF AloneInv, TypeInv, itemVars, diskVars
  <2> QED
    BY <1>1, <2>1, ContentStays DEF ContentInv
<1>4. CASE UNCHANGED vars
  <2>1. /\ UNCHANGED <<request, serving, pc, fileMd5Value, blk, rows, store>>
        /\ \A d \in Client : dead[d] => dead'[d]
    BY <1>4 DEF vars, clientVars, poolVars, itemVars, diskVars
  <2> QED
    BY <1>1, <2>1, ContentStays DEF ContentInv
<1> QED
  BY <1>2, <1>3, <1>4 DEF Next

(***************************************************************************)
(* With one worker the row comes after the content: the file of every row  *)
(* is complete unless a client was killed in a put of that name. recvFile  *)
(* returns before the INSERT (work_factory.c:77-80), and the instant       *)
(* upload only follows a row (work_factory.c:52-71).                       *)
(***************************************************************************)
THEOREM OneWorkerKeepsContents ==
  ASSUME OneWorker PROVE Spec => []ContentBeforeRow
<1>1. Init => ContentInv
  BY ContentInvInit, TransferAssumption
<1>2. ContentInv /\ [Next]_vars => ContentInv'
  BY ContentInvStep, OneWorker, TransferAssumption
<1>3. ContentInv => ContentBeforeRow
  BY DEF ContentInv, Complete, Settled, Killed, ContentBeforeRow
<1> QED
  BY <1>1, <1>2, <1>3, PTL DEF Spec

\* What a get is sent is the file of a row of its user.
LEMMA GetsOwnFile ==
  ASSUME ContentInv, NEW w \in Worker, SendFile(w), NobodyDied, NamesUnambiguous
  PROVE  \E r \in rows : /\ r.owner = Task(w).user /\ r.dir = Task(w).dir /\ r.name = Task(w).name
                         /\ store[Task(w).name] = Whole(r.md5)
<1>1. /\ Alone(w) /\ Honest(w) /\ Complete /\ pc[w] = "sendFile" /\ serving[w] \in Client
      /\ ~dead[serving[w]]
  BY DEF ContentInv, AloneInv, TypeInv, OwnerInv, Serves, SendFile, At, NobodyDied
<1>2. /\ Selected(w) # {} /\ ~IsPut(serving[w])
      /\ preDirNo[w] = Task(w).dir /\ usrName[w] = Task(w).user
  BY <1>1 DEF Alone, Honest
<1>3. PICK r \in rows : r.name = Task(w).name /\ r.dir = Task(w).dir /\ r.owner = Task(w).user
  BY <1>2 DEF Selected
<1>4. Settled(r.name, r.md5) /\ ~Killed(r.name)
  BY <1>1 DEF Complete, Killed, NobodyDied
<1> QED
  BY <1>3, <1>4 DEF Settled

\* A client that has its file keeps it, and the row.
LEMMA OwnFileStays ==
  ASSUME UNCHANGED request, rows \subseteq rows', NEW c \in Client, got'[c] = got[c], GotOwnFile(c)
  PROVE  GotOwnFile(c)'
  BY DEF GotOwnFile, Whole

\* Only sendFile gives a client a file, and it is the file of a row of the
\* client's user.
LEMMA DownloadStep ==
  ASSUME TransferAssumption, ContentInv, DownloadIntact, [Next]_vars
  PROVE  DownloadIntact'
<1>0. /\ got \in [Client -> Seq(Content \cup {Unset}) \cup {None, Absent}]
      /\ TypeInv
  BY DEF ContentInv, AloneInv, TypeInv, TypeOK
<1>1. ASSUME UNCHANGED <<request, got>>, rows \subseteq rows', \A d \in Client : dead[d] => dead'[d]
      PROVE  DownloadIntact'
  BY <1>1, OwnFileStays DEF DownloadIntact, NobodyDied, NamesUnambiguous, IsPut
<1>2. ASSUME NEW w \in Worker, SendFile(w) PROVE DownloadIntact'
  <2>1. UNCHANGED <<request, dead, rows>> /\ serving[w] \in Client
    BY <1>0, <1>2 DEF SendFile, diskVars, At, TypeInv, OwnerInv, Serves
  <2>2. SUFFICES ASSUME NobodyDied, NamesUnambiguous, NEW c \in Client, got'[c] # None
                 PROVE  GotOwnFile(c)'
    BY <2>1 DEF DownloadIntact, NobodyDied, NamesUnambiguous, IsPut
  <2>3. got' = [got EXCEPT ![serving[w]] = store[Task(w).name]]
    BY <1>2, <2>1, <2>2 DEF SendFile, RecvFile, NobodyDied
  <2>4. CASE c = serving[w]
    <3>1. got'[c] = store[Task(w).name] /\ Task(w) = request[c]
      BY <1>0, <2>1, <2>3, <2>4 DEF Task
    <3> QED
      BY <1>2, <2>1, <2>2, <3>1, GetsOwnFile DEF GotOwnFile, Whole
  <2>5. CASE c # serving[w]
    <3>1. got'[c] = got[c]
      BY <1>0, <2>3, <2>5
    <3> QED
      BY <2>1, <2>2, <3>1, OwnFileStays DEF DownloadIntact
  <2> QED
    BY <2>4, <2>5
<1>3. ASSUME NEW w \in Worker, WorkerStep(w), ~SendFile(w) PROVE DownloadIntact'
  <2>1. UNCHANGED got
    BY <1>3 DEF WorkerStep, TakeTask, RecvUser, RecvDir, RecvMd5, Query, StoreResult, Decide, Link,
       RecvHeader, RecvBlock, Insert, Reply, Close, clientVars
  <2> QED
    BY <1>1, <1>3, <2>1, WorkerSteps
<1>4. ASSUME NEW c \in Client, Begin(c) \/ Send(c) \/ Die(c) \/ GiveUp(c) PROVE DownloadIntact'
  BY <1>0, <1>1, <1>4, ClientSteps DEF TypeInv, diskVars
<1>5. CASE UNCHANGED vars
  BY <1>1, <1>5 DEF vars, clientVars, diskVars
<1> QED
  BY <1>2, <1>3, <1>4, <1>5 DEF Next

(***************************************************************************)
(* With one worker a download is intact if nobody was killed and names are *)
(* unambiguous: the row that "Y" was answered for is the user's, in that   *)
(* directory, and sendFile reads the complete file (work_factory.c:30-44). *)
(***************************************************************************)
THEOREM OneWorkerSendsFiles ==
  ASSUME OneWorker PROVE Spec => []DownloadIntact
<1> DEFINE SendInv == ContentInv /\ DownloadIntact
<1>1. Init => SendInv
  BY ContentInvInit, TransferAssumption DEF Init, DownloadIntact
<1>2. SendInv /\ [Next]_vars => SendInv'
  BY ContentInvStep, DownloadStep, OneWorker, TransferAssumption
<1>3. SendInv => DownloadIntact
  OBVIOUS
<1> HIDE DEF SendInv
<1> QED
  BY <1>1, <1>2, <1>3, PTL DEF Spec
=============================================================================
