-------------------------- MODULE WorkFactoryProofs --------------------------
(***************************************************************************)
(* Safety of the thread pool for every finite set of workers, every set of *)
(* nodes and every capacity.  The inductive invariant IInv joins the four  *)
(* invariants that hold each other up: the mutex makes the queue           *)
(* operations atomic, ownership keeps a node out of the queue while a      *)
(* thread holds it, and the shape of the queue makes queGet return a node  *)
(* that nobody else holds.                                                 *)
(***************************************************************************)
EXTENDS WorkFactory, WorkQueProofs, FiniteSetTheorems

\* The inductive invariant: who is where with the mutex, and which nodes the
\* queue links, only make sense together.
IInv == TypeOK /\ MutexInv /\ QueueShape /\ SingleOwner

USE NullAssumption, ThreadAssumption

\* The pool starts with an empty queue.
LEMMA InitIInv == Init => IInv
<1> SUFFICES ASSUME Init PROVE IInv
  OBVIOUS
<1> USE DEF Init, QueInit
<1>1. Queued = {}
  BY DEF Queued
<1>2. TypeOK
  <2>1. tasks \in Seq(Node)
    OBVIOUS
  <2>2. next \in [Node -> Node \cup {NULL}]
    OBVIOUS
  <2>3. QueTypeOK
    BY <2>1, <2>2 DEF QueTypeOK
  <2>4. pc \in [Worker -> WorkerPc]
    BY DEF WorkerPc
  <2>5. pNew \in [Worker -> Node \cup {NULL, Garbage}]
    OBVIOUS
  <2> QED
    BY <2>3, <2>4, <2>5 DEF TypeOK, MainPc
<1>3. MutexInv
  BY DEF MutexInv
<1>4. QueueShape
  <2>1. Len(tasks) = 0
    OBVIOUS
  <2> QED BY <2>1 DEF QueueShape
<1>5. SingleOwner
  BY <1>1 DEF SingleOwner, MainHolds
<1> QED
  BY <1>2, <1>3, <1>4, <1>5 DEF IInv

\* Main allocates a node: it is not in the queue and no worker holds it.
LEMMA NewTaskIInv ==
  ASSUME IInv, NEW n \in Node, NewTask(n) PROVE IInv'
<1> USE DEF NewTask, threadVars
<1>1. Queued' = Queued
  BY DEF Queued
<1>2. TypeOK'
  BY DEF IInv, TypeOK, QueTypeOK, WorkerPc, MainPc
<1>3. MutexInv'
  BY DEF IInv, MutexInv
<1>4. QueueShape'
  <2>1. \A i \in 1 .. Len(tasks) : tasks[i] # n /\ tasks[i] \in Node
    BY DEF IInv, TypeOK, QueTypeOK, SingleOwner, Queued
  <2> QED
    BY <2>1 DEF IInv, TypeOK, QueTypeOK, QueueShape
<1>5. SingleOwner'
  BY <1>1 DEF IInv, TypeOK, QueTypeOK, SingleOwner, MainHolds
<1> QED
  BY <1>2, <1>3, <1>4, <1>5 DEF IInv

\* The task passes from the main thread to the queue, or is forgotten.
LEMMA MainInsertIInv ==
  ASSUME IInv, MainInsert PROVE IInv'
<1> USE DEF MainInsert, threadVars, memVars
<1>1. PICK r \in {0, -1} : QueInsert(pNewTask, r) /\ ret' = r
  OBVIOUS
<1>2. MainHolds = {pNewTask} /\ MainHolds' = {}
  BY DEF MainHolds
<1>3. /\ QueTypeOK /\ QueueShape
      /\ pNewTask \in Node /\ pNewTask \notin Queued /\ next[pNewTask] = NULL
  BY <1>2 DEF IInv, TypeOK, SingleOwner
<1>4. /\ QueTypeOK' /\ QueueShape'
      /\ r = 0  => Queued' = Queued \cup {pNewTask}
      /\ r = -1 => UNCHANGED queVars
  BY <1>1, <1>3, QueInsertQueue
<1>5. Queued' \subseteq Queued \cup {pNewTask}
  BY <1>4 DEF Queued, queVars
<1>6. TypeOK'
  BY <1>1, <1>4 DEF IInv, TypeOK, MainPc
<1>7. MutexInv'
  BY DEF IInv, MutexInv
<1>8. SingleOwner'
  BY <1>2, <1>5 DEF IInv, TypeOK, SingleOwner
<1> QED
  BY <1>4, <1>6, <1>7, <1>8 DEF IInv

\* The task passes from the queue to the worker, or pNew stays as it was.
LEMMA WorkerGetIInv ==
  ASSUME IInv, NEW w \in Worker, WorkerGet(w) PROVE IInv'
<1> USE DEF WorkerGet, mainVars, memVars
<1>1. QueTypeOK /\ QueueShape
  BY DEF IInv, TypeOK
<1>2. MainHolds' = MainHolds
  BY DEF MainHolds
<1>3. MutexInv'
  BY DEF IInv, TypeOK, MutexInv
<1>4. CASE QueGetEmpty /\ UNCHANGED pNew
  <2>1. Queued' = Queued /\ UNCHANGED queVars
    BY <1>4 DEF QueGetEmpty, queVars, Queued
  <2>2. TypeOK'
    BY <1>4, <2>1 DEF IInv, TypeOK, QueTypeOK, WorkerPc, queVars
  <2>3. QueueShape'
    BY <2>1, <1>1 DEF queVars, QueueShape
  <2>4. SingleOwner'
    BY <1>4, <2>1, <1>2 DEF IInv, TypeOK, SingleOwner, queVars
  <2> QED
    BY <1>3, <2>2, <2>3, <2>4 DEF IInv
<1>5. CASE QueGetHead /\ pNew' = [pNew EXCEPT ![w] = queHead]
  <2>1. /\ QueTypeOK' /\ QueueShape'
        /\ queHead \in Queued /\ Queued' = Queued \ {queHead}
    BY <1>1, <1>5, QueGetQueue
  <2>2. queHead \in Node /\ Queued \subseteq Node /\ next' = next
    BY <2>1, <1>5 DEF IInv, TypeOK, SingleOwner, QueGetHead
  <2>3. TypeOK'
    BY <1>5, <2>1, <2>2 DEF IInv, TypeOK, WorkerPc
  <2>4. SingleOwner'
    <3>1. /\ Queued' \cup MainHolds' \subseteq allocated'
          /\ \A n \in MainHolds' : next'[n] = NULL
          /\ Queued' \cap MainHolds' = {}
          /\ openSock' = allocated'
      BY <1>2, <2>1, <2>2 DEF IInv, SingleOwner
    <3>2. \A v \in Worker : pNew[v] \in Node => pNew[v] # queHead
      BY <2>1 DEF IInv, SingleOwner
    <3>3. queHead \in allocated' \ (Queued' \cup MainHolds')
      BY <2>1, <1>2 DEF IInv, SingleOwner
    <3>4. \A v \in Worker : pNew'[v] = IF v = w THEN queHead ELSE pNew[v]
      BY <1>5 DEF IInv, TypeOK
    <3>5. \A v \in Worker : pc'[v] = IF v = w THEN "unlock" ELSE pc[v]
      BY DEF IInv, TypeOK
    <3>6. ASSUME NEW v \in Worker, pNew'[v] \in Node
          PROVE  /\ pNew'[v] \in allocated' \ (Queued' \cup MainHolds')
                 /\ pc'[v] \in {"unlock", "handle"}
                 /\ \A u \in Worker \ {v} : pNew'[u] # pNew'[v]
      BY <3>2, <3>3, <3>4, <3>5, <3>6, <1>2, <2>1, <2>2 DEF IInv, SingleOwner
    <3> QED
      BY <3>1, <3>6 DEF SingleOwner
  <2> QED
    BY <1>3, <2>1, <2>3, <2>4 DEF IInv
<1> QED
  BY <1>4, <1>5

\* The worker frees the node it alone holds and forgets its address.
LEMMA ServeTaskIInv ==
  ASSUME IInv, NEW w \in Worker, ServeTask(w) PROVE IInv'
<1> USE DEF ServeTask, mainVars, queVars
<1>1. Queued' = Queued /\ MainHolds' = MainHolds
  BY DEF Queued, MainHolds
<1>2. TypeOK'
  BY DEF IInv, TypeOK, QueTypeOK, WorkerPc, MainPc
<1>3. MutexInv'
  BY DEF IInv, TypeOK, MutexInv
<1>4. QueueShape'
  BY DEF IInv, QueueShape
<1>5. SingleOwner'
  BY <1>1 DEF IInv, TypeOK, QueTypeOK, SingleOwner
<1> QED
  BY <1>2, <1>3, <1>4, <1>5 DEF IInv

\* The other steps only move the mutex, a program counter or the crash flag.
LEMMA ControlIInv ==
  ASSUME IInv, UNCHANGED <<queVars, pNew, memVars, pNewTask>>,
         ret' \in {0, -1}, mainPc' \in MainPc, crashed' \in BOOLEAN,
         mutex' \in Worker \cup {Main, NoThread},
         pc' \in [Worker -> WorkerPc],
         MainHolds' = MainHolds,
         \A w \in Worker : pNew[w] \in Node => pc'[w] \in {"unlock", "handle"},
         MutexInv'
  PROVE  IInv'
<1> USE DEF queVars, memVars
<1>1. Queued' = Queued
  BY DEF Queued
<1>2. TypeOK'
  BY DEF IInv, TypeOK, QueTypeOK
<1>3. QueueShape'
  BY DEF IInv, QueueShape
<1>4. SingleOwner'
  BY <1>1 DEF IInv, SingleOwner
<1> QED
  BY <1>2, <1>3, <1>4 DEF IInv

\* Steps of the main thread that leave the queue alone.
LEMMA MainControlIInv ==
  ASSUME IInv, OutOfMemory \/ MainLock \/ MainUnlock \/ MainSignal
  PROVE  IInv'
<1> USE DEF IInv, TypeOK, MainPc, WorkerPc
<1>1. CASE OutOfMemory
  <2>1. MutexInv' /\ MainHolds' = MainHolds
    BY <1>1 DEF OutOfMemory, MutexInv, MainHolds, threadVars, mainVars
  <2> QED
    BY <1>1, <2>1, ControlIInv DEF OutOfMemory, threadVars, mainVars, SingleOwner
<1>2. CASE MainLock
  <2>1. MutexInv' /\ MainHolds' = MainHolds
    BY <1>2 DEF MainLock, Acquire, MutexInv, MainHolds
  <2> QED
    BY <1>2, <2>1, ControlIInv DEF MainLock, Acquire, SingleOwner
<1>3. CASE MainUnlock
  <2>1. MutexInv' /\ MainHolds' = MainHolds
    BY <1>3 DEF MainUnlock, Release, MutexInv, MainHolds
  <2> QED
    BY <1>3, <2>1, ControlIInv DEF MainUnlock, Release, SingleOwner
<1>4. CASE MainSignal
  <2>1. pc' = pc \/ \E w \in Worker : pc[w] = "condWait" /\ pc' = [pc EXCEPT ![w] = "woken"]
    BY <1>4 DEF MainSignal, CondSignal, Waiters
  <2>2. MutexInv' /\ MainHolds' = MainHolds
    BY <1>4, <2>1 DEF MainSignal, MutexInv, MainHolds
  <2> QED
    BY <1>4, <2>1, <2>2, ControlIInv DEF MainSignal, SingleOwner
<1> QED
  BY <1>1, <1>2, <1>3, <1>4

\* Steps of a worker that leave the queue alone.
LEMMA WorkerControlIInv ==
  ASSUME IInv, NEW w \in Worker,
         \/ WorkerLock(w) \/ CondWait(w) \/ TaskReady(w) \/ SpuriousWakeup(w)
         \/ Rewake(w) \/ WorkerUnlock(w) \/ BrokenPipe(w) \/ UseBadTask(w)
  PROVE  IInv'
<1> USE DEF IInv, TypeOK, MainPc, WorkerPc, mainVars, MainHolds
<1>1. CASE WorkerLock(w)
  <2>1. MutexInv'
    BY <1>1 DEF WorkerLock, Acquire, MutexInv
  <2> QED
    BY <1>1, <2>1, ControlIInv DEF WorkerLock, Acquire, SingleOwner
<1>2. CASE CondWait(w)
  <2>1. MutexInv'
    BY <1>2 DEF CondWait, Release, MutexInv
  <2> QED
    BY <1>2, <2>1, ControlIInv DEF CondWait, Release, SingleOwner
<1>3. CASE TaskReady(w)
  <2>1. MutexInv'
    BY <1>3 DEF TaskReady, MutexInv
  <2> QED
    BY <1>3, <2>1, ControlIInv DEF TaskReady, SingleOwner
<1>4. CASE SpuriousWakeup(w)
  <2>1. MutexInv'
    BY <1>4 DEF SpuriousWakeup, MutexInv
  <2> QED
    BY <1>4, <2>1, ControlIInv DEF SpuriousWakeup, SingleOwner
<1>5. CASE Rewake(w)
  <2>1. MutexInv'
    BY <1>5 DEF Rewake, Acquire, MutexInv
  <2> QED
    BY <1>5, <2>1, ControlIInv DEF Rewake, Acquire, SingleOwner
<1>6. CASE WorkerUnlock(w)
  <2>1. MutexInv'
    BY <1>6 DEF WorkerUnlock, Release, MutexInv
  <2> QED
    BY <1>6, <2>1, ControlIInv DEF WorkerUnlock, Release, SingleOwner
<1>7. CASE UseBadTask(w)
  <2>1. MutexInv'
    BY <1>7 DEF UseBadTask, MutexInv
  <2> QED
    BY <1>7, <2>1, ControlIInv DEF UseBadTask, SingleOwner
<1>8. CASE BrokenPipe(w)
  <2>1. MutexInv'
    BY <1>8 DEF BrokenPipe, threadVars, MutexInv
  <2> QED
    BY <1>8, <2>1, ControlIInv DEF BrokenPipe, threadVars, memVars, SingleOwner
<1> QED
  BY <1>1, <1>2, <1>3, <1>4, <1>5, <1>6, <1>7, <1>8

\* Every step keeps the invariant.
LEMMA NextIInv == IInv /\ [Next]_vars => IInv'
<1> SUFFICES ASSUME IInv, [Next]_vars PROVE IInv'
  OBVIOUS
<1>1. ASSUME NEW n \in Node, NewTask(n) PROVE IInv'
  BY <1>1, NewTaskIInv
<1>2. CASE OutOfMemory
  BY <1>2, MainControlIInv
<1>3. CASE MainStep
  BY <1>3, MainInsertIInv, MainControlIInv DEF MainStep
<1>4. ASSUME NEW w \in Worker, WorkerStep(w) PROVE IInv'
  BY <1>4, WorkerGetIInv, ServeTaskIInv, WorkerControlIInv DEF WorkerStep
<1>5. CASE UNCHANGED vars
  <2>1. /\ TypeOK' = TypeOK /\ MutexInv' = MutexInv
        /\ QueueShape' = QueueShape /\ SingleOwner' = SingleOwner
    BY <1>5 DEF vars, queVars, threadVars, mainVars, memVars, TypeOK, QueTypeOK,
                MutexInv, QueueShape, SingleOwner, Queued, MainHolds
  <2> QED BY <2>1 DEF IInv
<1> QED
  BY <1>1, <1>2, <1>3, <1>4, <1>5 DEF Next, Dead

\* The four invariants hold together in every reachable state.
THEOREM InductiveInvariant == Spec => []IInv
<1> QED
  BY InitIInv, NextIInv, PTL DEF Spec

\* Every variable of the pool keeps to its type: que->queSize is never
\* negative and no queue pointer leaves the set of nodes (work_que.c).
THEOREM TypeCorrect == Spec => []TypeOK
<1> QED
  BY InductiveInvariant, PTL DEF IInv

\* que->mutex is owned by exactly the thread that is between its
\* pthread_mutex_lock and pthread_mutex_unlock (work_factory.c:15-24,
\* ftp_server.c:87-89).
THEOREM MutualExclusion == Spec => []MutexInv
<1> QED
  BY InductiveInvariant, PTL DEF IInv

\* The linked list of work_que.c always spells out the accepted tasks in
\* their order of arrival.
THEOREM ListIsQueue == Spec => []QueueShape
<1> QED
  BY InductiveInvariant, PTL DEF IInv

\* No task is served twice, no node is freed twice and none is read after
\* its free, whatever wakeups pthread_cond_wait makes (work_factory.c:14-104).
THEOREM OneOwnerPerTask == Spec => []SingleOwner
<1> QED
  BY InductiveInvariant, PTL DEF IInv

-----------------------------------------------------------------------------
(* The bound of the queue. *)

\* Only queInsert makes the queue longer, and it refuses a node when the
\* capacity is reached and the queue is not empty.
LEMMA NextQueueBound ==
  ASSUME IInv, QueueBound, [Next]_vars PROVE QueueBound'
<1> USE CapacityAssumption DEF QueueBound
<1>0. queSize \in Nat
  BY DEF IInv, TypeOK, QueTypeOK
<1>1. CASE UNCHANGED queSize
  BY <1>1
<1>2. CASE MainInsert
  BY <1>0, <1>2
  DEF MainInsert, QueInsert, InsertFirst, InsertRefused, InsertLast, queVars
<1>3. ASSUME NEW w \in Worker, WorkerGet(w) PROVE QueueBound'
  BY <1>0, <1>3 DEF WorkerGet, QueGetHead, QueGetEmpty, queVars
<1>4. UNCHANGED queSize \/ MainInsert \/ \E w \in Worker : WorkerGet(w)
  BY DEF Next, vars, queVars, NewTask, OutOfMemory, MainStep, MainLock, MainUnlock,
         MainSignal, WorkerStep, WorkerLock, CondWait, TaskReady, SpuriousWakeup,
         Rewake, WorkerUnlock, ServeTask, BrokenPipe, UseBadTask, threadVars, Dead
<1> QED
  BY <1>1, <1>2, <1>3, <1>4

\* queInsert never lets the queue grow past its capacity, for every capacity
\* the configuration file may give (work_que.c:11-27).
THEOREM BoundedQueue == Spec => []QueueBound
<1>1. Init => QueueBound
  BY CapacityAssumption DEF Init, QueInit, QueueBound
<1>2. IInv /\ QueueBound /\ [Next]_vars => QueueBound'
  BY NextQueueBound
<1> QED
  BY <1>1, <1>2, InductiveInvariant, PTL DEF Spec

=============================================================================
