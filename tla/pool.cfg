\* Two workers, a queue for two tasks and a third task in the main thread's or
\* a worker's hands, under fair scheduling and a mutex that starves nobody;
\* pthread_cond_wait may return unasked.  No symmetry, since liveness is checked.
CONSTANTS
  Node = {n1, n2, n3}
  NULL = NULL
  Capacity = 2
  Worker = {w1, w2}
  Main = Main
  NoThread = NoThread
  Garbage = Garbage
  SpuriousWakeups = TRUE
SPECIFICATION FairSpec
INVARIANTS TypeOK MutexInv QueueShape QueueBound SingleOwner WakeupsCoverQueue
PROPERTIES PoolSpec EveryTaskTaken
