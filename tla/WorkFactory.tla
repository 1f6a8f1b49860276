----------------------------- MODULE WorkFactory -----------------------------
(***************************************************************************)
(* The thread pool of the server: the main thread hands every `put' and    *)
(* `get' connection to the task queue (src/ftp_server/ftp_server.c:77-93)  *)
(* and threadNum workers run threadFunc (src/ftp_server/work_factory.c),   *)
(* synchronised by que->mutex and factory->cond.  One action is one call   *)
(* on a shared object; the work a worker does for the client of a task     *)
(* (receive, query, transfer) is the single step ServeTask.                *)
(*                                                                         *)
(* A node stands for the task and for its connection: the socket of node n *)
(* is open while n \in openSock.                                           *)
(***************************************************************************)
EXTENDS WorkQue, FiniteSets

CONSTANTS
  Worker,           \* the threads created by factoryStart
  Main,             \* the main thread
  NoThread,         \* the owner of a free mutex
  Garbage,          \* an uninitialised pNew that is not null
  SpuriousWakeups   \* whether pthread_cond_wait may return without a signal

ASSUME ThreadAssumption ==
  /\ IsFiniteSet(Worker)
  /\ Main \notin Worker
  /\ NoThread \notin Worker \cup {Main}
  /\ Garbage \notin Node \cup {NULL}
  /\ SpuriousWakeups \in BOOLEAN

VARIABLES
  mutex,      \* the owner of que->mutex
  pc,         \* where each worker is in the loop of threadFunc
  pNew,       \* the local pNew of each worker
  mainPc,     \* where the main thread is in the dispatch of a connection
  pNewTask,   \* the main thread's pNewTask
  ret,        \* the main thread's ret, the result of queInsert
  allocated,  \* the nodes obtained from calloc and not freed
  openSock,   \* the nodes whose sockFd is open
  crashed     \* the process has been killed by a fault

threadVars == <<mutex, pc, pNew>>
mainVars == <<mainPc, pNewTask, ret>>
memVars == <<allocated, openSock>>
vars == <<queVars, threadVars, mainVars, memVars, crashed>>

(***************************************************************************)
(* factoryInit and factoryStart: an empty queue, a free mutex and every    *)
(* worker at the head of its loop.  pNew has no initialiser in threadFunc, *)
(* so what it holds before the first task is whatever the stack held.      *)
(***************************************************************************)
Init ==
  /\ QueInit
  /\ mutex = NoThread
  /\ pc = [w \in Worker |-> "lock"]
  /\ pNew \in [Worker -> {NULL, Garbage}]
  /\ mainPc = "epoll"
  /\ pNewTask = NULL
  /\ ret = 0
  /\ allocated = {}
  /\ openSock = {}
  /\ crashed = FALSE

-----------------------------------------------------------------------------
(* The pthread calls. *)

Acquire(t) ==
  /\ mutex = NoThread
  /\ mutex' = t

Release(t) ==
  /\ mutex = t
  /\ mutex' = NoThread

Waiters == {w \in Worker : pc[w] = "condWait"}

\* pthread_cond_signal wakes one waiter if there is one; it must then take
\* the mutex again before pthread_cond_wait returns.
CondSignal ==
  \/ /\ Waiters = {}
     /\ UNCHANGED pc
  \/ \E w \in Waiters : pc' = [pc EXCEPT ![w] = "woken"]

-----------------------------------------------------------------------------
(* The main thread. *)

\* A `put' or `get' connection has been accepted: allocate and fill its node.
NewTask(n) ==
  /\ ~crashed
  /\ mainPc = "epoll"
  /\ n \notin allocated
  /\ allocated' = allocated \cup {n}
  /\ openSock' = openSock \cup {n}
  /\ next' = [next EXCEPT ![n] = NULL]
  /\ pNewTask' = n
  /\ mainPc' = "lock"
  /\ UNCHANGED <<queHead, queTail, queSize, tasks, threadVars, ret, crashed>>

\* The result of calloc is not tested before pNewTask->sockFd is written.
OutOfMemory ==
  /\ ~crashed
  /\ mainPc = "epoll"
  /\ allocated = Node
  /\ crashed' = TRUE
  /\ UNCHANGED <<queVars, threadVars, mainVars, memVars>>

\* Mutant of MainLock: the queue is changed without the mutex.
MainLockNot ==
  /\ ~crashed
  /\ mainPc = "lock"
  /\ mainPc' = "insert"
  /\ UNCHANGED <<queVars, threadVars, pNewTask, ret, memVars, crashed>>

\* The dispatch of a connection locks the queue.
MainLock ==
  /\ ~crashed
  /\ mainPc = "lock"
  /\ Acquire(Main)
  /\ mainPc' = "insert"
  /\ UNCHANGED <<queVars, pc, pNew, pNewTask, ret, memVars, crashed>>

MainInsert ==
  /\ ~crashed
  /\ mainPc = "insert"
  /\ \E r \in {0, -1} : QueInsert(pNewTask, r) /\ ret' = r
  /\ mainPc' = "unlock"
  /\ UNCHANGED <<threadVars, pNewTask, memVars, crashed>>

\* Mutants of MainUnlock: the test of ret is inverted; only the insertion into
\* an empty queue is signalled.
MainUnlockInverted ==
  /\ ~crashed
  /\ mainPc = "unlock"
  /\ Release(Main)
  /\ mainPc' = IF ret = -1 THEN "signal" ELSE "epoll"
  /\ UNCHANGED <<queVars, pc, pNew, pNewTask, ret, memVars, crashed>>

MainUnlockFirst ==
  /\ ~crashed
  /\ mainPc = "unlock"
  /\ Release(Main)
  /\ mainPc' = IF ret # -1 /\ queSize = 1 THEN "signal" ELSE "epoll"
  /\ UNCHANGED <<queVars, pc, pNew, pNewTask, ret, memVars, crashed>>

\* Only an accepted task is signalled.  A refused one is neither freed nor
\* answered: its node and its socket are simply forgotten.
MainUnlock ==
  /\ ~crashed
  /\ mainPc = "unlock"
  /\ Release(Main)
  /\ mainPc' = IF ret # -1 THEN "signal" ELSE "epoll"
  /\ UNCHANGED <<queVars, pc, pNew, pNewTask, ret, memVars, crashed>>

MainSignal ==
  /\ ~crashed
  /\ mainPc = "signal"
  /\ CondSignal
  /\ mainPc' = "epoll"
  /\ UNCHANGED <<queVars, mutex, pNew, pNewTask, ret, memVars, crashed>>

-----------------------------------------------------------------------------
(* A worker. *)

WorkerLock(w) ==
  /\ ~crashed
  /\ pc[w] = "lock"
  /\ Acquire(w)
  /\ pc' = [pc EXCEPT ![w] = "check"]
  /\ UNCHANGED <<queVars, pNew, mainVars, memVars, crashed>>

\* pthread_cond_wait releases the mutex and joins the waiters atomically.
CondWait(w) ==
  /\ ~crashed
  /\ pc[w] = "check"
  /\ queSize = 0
  /\ Release(w)
  /\ pc' = [pc EXCEPT ![w] = "condWait"]
  /\ UNCHANGED <<queVars, pNew, mainVars, memVars, crashed>>

TaskReady(w) ==
  /\ ~crashed
  /\ pc[w] = "check"
  /\ queSize # 0
  /\ pc' = [pc EXCEPT ![w] = "get"]
  /\ UNCHANGED <<queVars, mutex, pNew, mainVars, memVars, crashed>>

SpuriousWakeup(w) ==
  /\ ~crashed
  /\ SpuriousWakeups
  /\ pc[w] = "condWait"
  /\ pc' = [pc EXCEPT ![w] = "woken"]
  /\ UNCHANGED <<queVars, mutex, pNew, mainVars, memVars, crashed>>

\* pthread_cond_wait returns with the mutex.  The code tests queSize with
\* `if', not `while', so the worker goes straight to queGet.
Rewake(w) ==
  /\ ~crashed
  /\ pc[w] = "woken"
  /\ Acquire(w)
  /\ pc' = [pc EXCEPT ![w] = "get"]
  /\ UNCHANGED <<queVars, pNew, mainVars, memVars, crashed>>

\* A failing queGet is reported on stdout and leaves pNew as it was.
WorkerGet(w) ==
  /\ ~crashed
  /\ pc[w] = "get"
  /\ \/ QueGetHead /\ pNew' = [pNew EXCEPT ![w] = queHead]
     \/ QueGetEmpty /\ UNCHANGED pNew
  /\ pc' = [pc EXCEPT ![w] = "unlock"]
  /\ UNCHANGED <<mutex, mainVars, memVars, crashed>>

WorkerUnlock(w) ==
  /\ ~crashed
  /\ pc[w] = "unlock"
  /\ Release(w)
  /\ pc' = [pc EXCEPT ![w] = "handle"]
  /\ UNCHANGED <<queVars, pNew, mainVars, memVars, crashed>>

\* Mutant of ServeTask: pNew keeps the address of the freed node.
ServeTaskKeep(w) ==
  /\ ~crashed
  /\ pc[w] = "handle"
  /\ pNew[w] \in Node
  /\ openSock' = openSock \ {pNew[w]}
  /\ allocated' = allocated \ {pNew[w]}
  /\ pc' = [pc EXCEPT ![w] = "lock"]
  /\ UNCHANGED <<queVars, mutex, pNew, mainVars, crashed>>

\* The task is served, its socket closed, its node freed and pNew cleared.
ServeTask(w) ==
  /\ ~crashed
  /\ pc[w] = "handle"
  /\ pNew[w] \in Node
  /\ openSock' = openSock \ {pNew[w]}
  /\ allocated' = allocated \ {pNew[w]}
  /\ pNew' = [pNew EXCEPT ![w] = NULL]
  /\ pc' = [pc EXCEPT ![w] = "lock"]
  /\ UNCHANGED <<queVars, mutex, mainVars, crashed>>

\* The client leaves in the middle of a download: the second of the sends of
\* sendFile to it raises SIGPIPE, which nothing catches.
BrokenPipe(w) ==
  /\ ~crashed
  /\ pc[w] = "handle"
  /\ pNew[w] \in Node
  /\ crashed' = TRUE
  /\ UNCHANGED <<queVars, threadVars, mainVars, memVars>>

\* pNew->sockFd through a pointer that no queGet has set: a null pointer
\* faults; a wild one faults or reads a descriptor that is not a socket, on
\* which recvCycle keeps adding recv's -1 to its total and never ends.
UseBadTask(w) ==
  /\ ~crashed
  /\ pc[w] = "handle"
  /\ pNew[w] \notin Node
  /\ \/ crashed' = TRUE /\ UNCHANGED pc
     \/ pNew[w] = Garbage /\ pc' = [pc EXCEPT ![w] = "spin"] /\ UNCHANGED crashed
  /\ UNCHANGED <<queVars, mutex, pNew, mainVars, memVars>>

\* Nothing runs after the process has died.
Dead == crashed /\ UNCHANGED vars

-----------------------------------------------------------------------------
MainStep == MainLock \/ MainInsert \/ MainUnlock \/ MainSignal

WorkerStep(w) ==
  \/ WorkerLock(w) \/ CondWait(w) \/ TaskReady(w) \/ SpuriousWakeup(w)
  \/ Rewake(w) \/ WorkerGet(w) \/ WorkerUnlock(w) \/ ServeTask(w)
  \/ BrokenPipe(w) \/ UseBadTask(w)

Next ==
  \/ \E n \in Node : NewTask(n)
  \/ OutOfMemory
  \/ MainStep
  \/ \E w \in Worker : WorkerStep(w)
  \/ Dead

Spec == Init /\ [][Next]_vars

(***************************************************************************)
(* The scheduler runs every thread that can run, a thread that waits for   *)
(* the mutex gets it if it is free again and again, and every transfer     *)
(* comes to an end.  Connections need not arrive and wakeups need not be   *)
(* spurious.                                                               *)
(***************************************************************************)
Fairness ==
  /\ WF_vars(MainInsert \/ MainUnlock \/ MainSignal)
  /\ SF_vars(MainLock)
  /\ \A w \in Worker :
       /\ WF_vars(CondWait(w) \/ TaskReady(w) \/ WorkerGet(w) \/ WorkerUnlock(w)
                    \/ ServeTask(w) \/ UseBadTask(w))
       /\ SF_vars(WorkerLock(w) \/ Rewake(w))

FairSpec == Spec /\ Fairness

-----------------------------------------------------------------------------
WorkerPc == {"lock", "check", "condWait", "woken", "get", "unlock", "handle",
             "spin"}
MainPc == {"epoll", "lock", "insert", "unlock", "signal"}

\* Every variable of the pool keeps to the values its C declaration allows.
TypeOK ==
  /\ QueTypeOK
  /\ mutex \in Worker \cup {Main, NoThread}
  /\ pc \in [Worker -> WorkerPc]
  /\ pNew \in [Worker -> Node \cup {NULL, Garbage}]
  /\ mainPc \in MainPc
  /\ pNewTask \in Node \cup {NULL}
  /\ ret \in {0, -1}
  /\ allocated \subseteq Node
  /\ openSock \subseteq Node
  /\ crashed \in BOOLEAN

\* A thread is between its lock and its unlock exactly when it owns the mutex.
MutexInv ==
  /\ \A w \in Worker : pc[w] \in {"check", "get", "unlock"} <=> mutex = w
  /\ mainPc \in {"insert", "unlock"} <=> mutex = Main

\* The node the main thread has allocated and not yet put in the queue.
MainHolds == IF mainPc \in {"lock", "insert"} THEN {pNewTask} ELSE {}

(***************************************************************************)
(* A task has one owner at a time: the main thread until queInsert, then   *)
(* the queue, then the one worker that got it, and it stays allocated and  *)
(* its socket open as long as it is owned.  So no task is served twice, no *)
(* node is freed twice and no thread reads a node that has been freed.     *)
(***************************************************************************)
SingleOwner ==
  /\ Queued \cup MainHolds \subseteq allocated
  /\ \A n \in MainHolds : next[n] = NULL
  /\ Queued \cap MainHolds = {}
  /\ \A w \in Worker : pNew[w] \in Node =>
       /\ pNew[w] \in allocated \ (Queued \cup MainHolds)
       /\ pc[w] \in {"unlock", "handle"}
       /\ \A v \in Worker \ {w} : pNew[v] # pNew[w]
  /\ openSock = allocated

\* The workers on their way to queGet.
Coming == {w \in Worker : pc[w] \in {"woken", "get"}}

\* Tasks inserted by the main thread whose signal is still to be sent.
Unsignalled ==
  IF (mainPc = "unlock" /\ ret = 0) \/ mainPc = "signal" THEN 1 ELSE 0

(***************************************************************************)
(* No wakeup is lost although the main thread signals after it has given   *)
(* up the mutex: while any worker sleeps in pthread_cond_wait, each queued *)
(* task has a worker coming for it or a signal about to be sent.           *)
(***************************************************************************)
WakeupsCoverQueue ==
  Waiters # {} => queSize <= Cardinality(Coming) + Unsignalled

(***************************************************************************)
(* The pool implements the abstract one: the pointers of the queue stand   *)
(* for the sequence of waiting tasks, and a worker serves the node its     *)
(* pNew points to.  Node addresses are reused once freed, so the promise   *)
(* is that each task is handed out once and oldest first.                  *)
(***************************************************************************)
Pool ==
  INSTANCE TaskPool WITH
    Task <- Node,
    Idle <- NULL,
    waiting <- tasks,
    serving <- [w \in Worker |-> IF pNew[w] \in Node THEN pNew[w] ELSE NULL]

PoolSpec == Pool!Spec

(***************************************************************************)
(* Every queued task is taken by a worker, unless the process dies or all  *)
(* workers are lost to a bad pNew, whatever the main thread goes on to do. *)
(***************************************************************************)
EveryTaskTaken ==
  \A n \in Node :
    n \in Queued ~> \/ n \notin Queued
                    \/ crashed
                    \/ \A w \in Worker : pc[w] = "spin"

(***************************************************************************)
(* The promise of the comment "put the task in the task queue and notify a *)
(* child thread" (ftp_server.c:79): an open transfer connection is always  *)
(* in the main thread's hands, in the queue or with a worker.              *)
(***************************************************************************)
NoForgottenTask ==
  openSock \subseteq Queued \cup {pNew[w] : w \in Worker} \cup
                     IF mainPc = "epoll" THEN {} ELSE {pNewTask}

(***************************************************************************)
(* The promise of the comment "the child thread handles the task"          *)
(* (work_factory.c:29): a worker that goes on to handle a task holds one.  *)
(***************************************************************************)
HandlesATask == \A w \in Worker : pc[w] = "handle" => pNew[w] \in Node
=============================================================================
