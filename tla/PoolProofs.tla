------------------------------ MODULE PoolProofs ------------------------------
(***************************************************************************)
(* Two results about the thread pool that rest on its inductive invariant: *)
(* no wakeup is lost, and the pool implements the abstract TaskPool.       *)
(***************************************************************************)
EXTENDS WorkFactoryProofs

USE NullAssumption, ThreadAssumption

\* Any set of workers can be counted.
LEMMA WorkersCounted ==
  \A S \in SUBSET Worker : IsFiniteSet(S) /\ Cardinality(S) \in Nat
<1> TAKE S \in SUBSET Worker
<1>1. IsFiniteSet(S)
  BY FS_Subset
<1> QED
  BY <1>1, FS_CardinalityType

\* How many are on their way is a number, before and after a step.
LEMMA ComingIsCounted == Cardinality(Coming) \in Nat /\ Cardinality(Coming') \in Nat
<1>1. Coming \in SUBSET Worker /\ Coming' \in SUBSET Worker
  BY DEF Coming
<1> QED
  BY <1>1, WorkersCounted

\* A worker that joins or leaves those on their way to queGet changes their
\* number by one.
LEMMA OneMoreComing ==
  ASSUME NEW w \in Worker, w \notin Coming, Coming' = Coming \cup {w}
  PROVE  Cardinality(Coming') = Cardinality(Coming) + 1
<1>1. IsFiniteSet(Coming)
  BY WorkersCounted DEF Coming
<1> QED
  BY <1>1, FS_AddElement

\* The same of a worker that leaves them.
LEMMA OneLessComing ==
  ASSUME NEW w \in Worker, w \in Coming, Coming' = Coming \ {w}
  PROVE  Cardinality(Coming') = Cardinality(Coming) - 1
<1>1. IsFiniteSet(Coming)
  BY WorkersCounted DEF Coming
<1> QED
  BY <1>1, FS_RemoveElement

\* Steps of the main thread: an insertion is matched by the signal that is
\* owed for it, and the signal by the waiter it wakes.
LEMMA MainWakeups ==
  ASSUME IInv, WakeupsCoverQueue,
         (\E n \in Node : NewTask(n)) \/ OutOfMemory \/ MainStep
  PROVE  WakeupsCoverQueue'
<1> USE ComingIsCounted DEF WakeupsCoverQueue
<1>0. queSize \in Nat /\ ret \in {0, -1} /\ pc \in [Worker -> WorkerPc]
  BY DEF IInv, TypeOK, QueTypeOK
<1>1. CASE pc' = pc /\ queSize' = queSize /\ Unsignalled' = Unsignalled
  BY <1>1 DEF Coming, Waiters
<1>2. CASE MainInsert
  <2>1. Coming' = Coming /\ Waiters' = Waiters /\ Unsignalled = 0
    BY <1>2 DEF MainInsert, threadVars, Coming, Waiters, Unsignalled
  <2>2. \/ queSize' = queSize + 1 /\ Unsignalled' = 1
        \/ queSize' = queSize /\ Unsignalled' = 0
    BY <1>2 DEF MainInsert, QueInsert, InsertFirst, InsertRefused, InsertLast,
                queVars, Unsignalled
  <2> QED
    BY <1>0, <2>1, <2>2
<1>3. CASE MainSignal
  <2>1. queSize' = queSize /\ Unsignalled = 1 /\ Unsignalled' = 0
    BY <1>3 DEF MainSignal, queVars, Unsignalled
  <2>2. CASE Waiters = {} /\ UNCHANGED pc
    BY <2>2 DEF Waiters
  <2>3. ASSUME NEW w \in Waiters, pc' = [pc EXCEPT ![w] = "woken"]
        PROVE  WakeupsCoverQueue'
    <3>1. w \in Worker /\ w \notin Coming /\ Coming' = Coming \cup {w}
      BY <2>3, <1>0 DEF Waiters, Coming
    <3>2. queSize <= Cardinality(Coming) + 1
      BY <2>1
    <3>3. Cardinality(Coming') = Cardinality(Coming) + 1
      BY <3>1, OneMoreComing
    <3> QED
      BY <1>0, <2>1, <3>2, <3>3
  <2> QED
    BY <1>3, <2>2, <2>3 DEF MainSignal, CondSignal
<1>4. MainInsert \/ MainSignal \/
      (pc' = pc /\ queSize' = queSize /\ Unsignalled' = Unsignalled)
  <2>1. ASSUME NEW n \in Node, NewTask(n)
        PROVE pc' = pc /\ queSize' = queSize /\ Unsignalled' = Unsignalled
    BY <2>1 DEF NewTask, threadVars, Unsignalled
  <2>2. CASE OutOfMemory
    BY <2>2 DEF OutOfMemory, queVars, threadVars, mainVars, Unsignalled
  <2>3. CASE MainLock
    BY <2>3 DEF MainLock, queVars, Unsignalled
  <2>4. CASE MainUnlock
    BY <2>4, <1>0 DEF MainUnlock, queVars, Unsignalled
  <2> QED
    BY <2>1, <2>2, <2>3, <2>4 DEF MainStep
<1> QED
  BY <1>1, <1>2, <1>3, <1>4

\* Steps of a worker: it goes to sleep only when the queue is empty, and
\* leaves those on their way only with a task or when there was none.
LEMMA WorkerWakeups ==
  ASSUME IInv, WakeupsCoverQueue, NEW w \in Worker, WorkerStep(w)
  PROVE  WakeupsCoverQueue'
<1> USE ComingIsCounted DEF WakeupsCoverQueue
<1>0. queSize \in Nat /\ pc \in [Worker -> WorkerPc]
  BY DEF IInv, TypeOK, QueTypeOK
<1>1. Unsignalled' = Unsignalled /\ Unsignalled \in {0, 1}
  BY DEF Unsignalled, WorkerStep, WorkerLock, CondWait, TaskReady, SpuriousWakeup,
         Rewake, WorkerGet, WorkerUnlock, ServeTask, BrokenPipe, UseBadTask, mainVars
<1>2. CASE CondWait(w)
  <2>1. queSize' = 0
    BY <1>2 DEF CondWait, queVars
  <2> QED
    BY <1>1, <2>1
<1>3. CASE TaskReady(w) \/ SpuriousWakeup(w)
  <2>1. queSize' = queSize /\ w \notin Coming /\ Coming' = Coming \cup {w}
    BY <1>3, <1>0 DEF TaskReady, SpuriousWakeup, queVars, Coming
  <2>2. Waiters' \subseteq Waiters
    BY <1>3, <1>0 DEF TaskReady, SpuriousWakeup, Waiters
  <2> QED
    BY <1>0, <1>1, <2>1, <2>2, OneMoreComing
<1>4. CASE WorkerGet(w)
  <2>1. /\ w \in Coming /\ Coming' = Coming \ {w}
        /\ Waiters' \subseteq Waiters
    BY <1>4, <1>0 DEF WorkerGet, Coming, Waiters
  <2>2. \/ queSize = 0 /\ queSize' = 0
        \/ queSize' = queSize - 1
    BY <1>4, <1>0 DEF WorkerGet, QueGetHead, QueGetEmpty, queVars
  <2>3. Cardinality(Coming') = Cardinality(Coming) - 1
    BY <2>1, OneLessComing
  <2> QED
    BY <1>0, <1>1, <2>1, <2>2, <2>3
<1>5. CASE WorkerLock(w) \/ Rewake(w) \/ WorkerUnlock(w) \/ ServeTask(w)
           \/ BrokenPipe(w) \/ UseBadTask(w)
  <2>1. queSize' = queSize
    BY <1>5 DEF WorkerLock, Rewake, WorkerUnlock, ServeTask, BrokenPipe, UseBadTask,
                queVars
  <2>2. Coming' = Coming /\ Waiters' = Waiters
    BY <1>5, <1>0 DEF WorkerLock, Rewake, WorkerUnlock, ServeTask, BrokenPipe,
                      UseBadTask, threadVars, Coming, Waiters
  <2> QED
    BY <1>1, <2>1, <2>2
<1> QED
  BY <1>2, <1>3, <1>4, <1>5 DEF WorkerStep

\* No wakeup is lost although pthread_cond_signal is called after the mutex
\* has been released (ftp_server.c:87-91, work_factory.c:15-19).
THEOREM NoLostWakeup == Spec => []WakeupsCoverQueue
<1>1. Init => WakeupsCoverQueue
  BY DEF Init, WakeupsCoverQueue, Waiters
<1>2. IInv /\ WakeupsCoverQueue /\ [Next]_vars => WakeupsCoverQueue'
  <2>1. CASE UNCHANGED vars
    BY <2>1 DEF vars, queVars, threadVars, mainVars, WakeupsCoverQueue, Waiters,
                Coming, Unsignalled
  <2> QED
    BY <2>1, MainWakeups, WorkerWakeups DEF Next, Dead
<1> QED
  BY <1>1, <1>2, InductiveInvariant, PTL DEF Spec
-----------------------------------------------------------------------------
(* The pool implements the abstract one, step by step. *)

\* queInsert on an accepted node is Accept, queGet on a queue that is not
\* empty is HandOut, the end of a task is Finish; every other step stutters.
LEMMA PoolStep ==
  ASSUME IInv, [Next]_vars PROVE [Pool!Next]_(Pool!poolVars)
<1> DEFINE serving == [w \in Worker |-> IF pNew[w] \in Node THEN pNew[w] ELSE NULL]
<1>0. /\ QueTypeOK /\ QueueShape
      /\ pNew \in [Worker -> Node \cup {NULL, Garbage}]
  BY DEF IInv, TypeOK
<1>1. CASE tasks' = tasks /\ pNew' = pNew
  BY <1>1 DEF Pool!poolVars
<1>2. CASE MainInsert
  <2>1. PICK r \in {0, -1} : QueInsert(pNewTask, r)
    BY <1>2 DEF MainInsert
  <2>2. /\ pNewTask \in Node /\ pNewTask \notin Queued /\ next[pNewTask] = NULL
        /\ \A w \in Worker : serving[w] # pNewTask
    BY <1>2 DEF MainInsert, IInv, TypeOK, SingleOwner, MainHolds
  <2>3. pNew' = pNew
    BY <1>2 DEF MainInsert, threadVars
  <2>4. CASE r = -1
    <3>1. UNCHANGED queVars
      BY <1>0, <2>1, <2>2, <2>4, QueInsertQueue
    <3> QED
      BY <1>1, <2>3, <3>1 DEF queVars
  <2>5. CASE r = 0
    <3>1. tasks' = Append(tasks, pNewTask)
      BY <1>0, <2>1, <2>2, <2>5, QueInsertQueue
    <3>2. queSize < Pool!Limit
      BY <1>0, <2>1, <2>5, CapacityAssumption
      DEF QueInsert, InsertFirst, InsertRefused, InsertLast, QueTypeOK, Pool!Limit
    <3>3. Len(tasks) < Pool!Limit
      BY <1>0, <3>2 DEF QueueShape
    <3>4. \A i \in DOMAIN tasks : tasks[i] # pNewTask
      BY <2>2 DEF Queued
    <3>5. Pool!Accept(pNewTask)
      BY <2>2, <2>3, <3>1, <3>3, <3>4 DEF Pool!Accept
    <3> QED
      BY <2>2, <3>5 DEF Pool!Next
  <2> QED
    BY <2>1, <2>4, <2>5
<1>3. ASSUME NEW w \in Worker, WorkerGet(w) PROVE [Pool!Next]_(Pool!poolVars)
  <2>1. CASE QueGetEmpty /\ UNCHANGED pNew
    BY <1>1, <2>1 DEF QueGetEmpty, queVars
  <2>2. CASE QueGetHead /\ pNew' = [pNew EXCEPT ![w] = queHead]
    <3>1. tasks # <<>> /\ queHead = Head(tasks) /\ queHead \in Queued
      BY <1>0, <2>2, QueGetQueue
    <3>2. queHead \in Node /\ tasks' = Tail(tasks)
      BY <1>0, <2>2, <3>1 DEF QueGetHead, QueTypeOK, Queued
    <3>3. pNew[w] \notin Node
      BY <1>3 DEF WorkerGet, IInv, SingleOwner
    <3>4. serving' = [serving EXCEPT ![w] = queHead]
      BY <1>0, <2>2, <3>2
    <3>5. Pool!HandOut(w)
      BY <3>1, <3>2, <3>3, <3>4 DEF Pool!HandOut
    <3> QED
      BY <3>5 DEF Pool!Next
  <2> QED
    BY <1>3, <2>1, <2>2 DEF WorkerGet
<1>4. ASSUME NEW w \in Worker, ServeTask(w) PROVE [Pool!Next]_(Pool!poolVars)
  <2>1. pNew[w] \in Node /\ pNew' = [pNew EXCEPT ![w] = NULL] /\ tasks' = tasks
    BY <1>4 DEF ServeTask, queVars
  <2>2. serving' = [serving EXCEPT ![w] = NULL] /\ serving[w] # NULL
    BY <1>0, <2>1
  <2>3. Pool!Finish(w)
    BY <2>1, <2>2 DEF Pool!Finish
  <2> QED
    BY <2>3 DEF Pool!Next
<1>5. \/ tasks' = tasks /\ pNew' = pNew
      \/ MainInsert
      \/ \E w \in Worker : WorkerGet(w) \/ ServeTask(w)
  BY DEF Next, vars, queVars, threadVars, NewTask, OutOfMemory, MainStep, MainLock,
         MainUnlock, MainSignal, WorkerStep, WorkerLock, CondWait, TaskReady,
         SpuriousWakeup, Rewake, WorkerUnlock, BrokenPipe, UseBadTask, Dead
<1> QED
  BY <1>1, <1>2, <1>3, <1>4, <1>5

\* The thread pool of the server behaves like the abstract pool: accepted
\* tasks are handed out once each, oldest first, to workers that are free.
THEOREM PoolImplementsTaskPool == Spec => PoolSpec
<1>1. Init => Pool!Init
  BY DEF Init, QueInit, Pool!Init
<1>2. IInv /\ [Next]_vars => [Pool!Next]_(Pool!poolVars)
  BY PoolStep
<1> QED
  BY <1>1, <1>2, InductiveInvariant, PTL DEF Spec, PoolSpec, Pool!Spec
=============================================================================
