------------------------------- MODULE WorkQue -------------------------------
(***************************************************************************)
(* The task queue of src/ftp_server/work_que.c: a singly linked list of    *)
(* heap nodes with a head, a tail and a size.  Every call in the server is *)
(* made with que->mutex held, so each operation is one atomic step of the  *)
(* thread pool (module WorkFactory), which EXTENDS this module.            *)
(*                                                                         *)
(* `tasks' is an auxiliary variable: the nodes the queue has accepted and  *)
(* not yet given out, oldest first.  No operation reads it; it is the list *)
(* that the pointers are supposed to represent (see QueueShape).           *)
(***************************************************************************)
EXTENDS Integers, Sequences

CONSTANTS
  Node,      \* the addresses calloc can return for a Node_t
  NULL,      \* the null pointer
  Capacity   \* que->capacity, read from conf/ftp_server.conf

\* The null pointer is not the address of a node.
ASSUME NullAssumption == NULL \notin Node

\* fscanf reads the capacity with %d and nothing validates it.
ASSUME CapacityAssumption == Capacity \in Int

VARIABLES
  queHead, queTail,  \* que->queHead, que->queTail
  queSize,           \* que->queSize
  next,              \* the `next' field of every node
  tasks              \* auxiliary: the accepted nodes, oldest first

queVars == <<queHead, queTail, queSize, next, tasks>>

QueInit ==
  /\ queHead = NULL
  /\ queTail = NULL
  /\ queSize = 0
  /\ next = [n \in Node |-> NULL]
  /\ tasks = <<>>

(***************************************************************************)
(* queInsert.  The emptiness test comes before the capacity test, so an    *)
(* empty queue accepts a node whatever the capacity is.                    *)
(***************************************************************************)
InsertFirst(n) ==
  /\ queSize = 0
  /\ queHead' = n
  /\ queTail' = n
  /\ queSize' = queSize + 1
  /\ tasks' = Append(tasks, n)
  /\ UNCHANGED next

InsertRefused ==
  /\ queSize # 0
  /\ Capacity <= queSize
  /\ UNCHANGED queVars

\* Mutants of InsertLast: one node too many; the new node goes to the front.
InsertOneMore(n) ==
  /\ queSize # 0
  /\ queSize <= Capacity
  /\ next' = [next EXCEPT ![queTail] = n]
  /\ queTail' = n
  /\ queSize' = queSize + 1
  /\ tasks' = Append(tasks, n)
  /\ UNCHANGED queHead

InsertAtHead(n) ==
  /\ queSize # 0
  /\ queSize < Capacity
  /\ next' = [next EXCEPT ![n] = queHead]
  /\ queHead' = n
  /\ queSize' = queSize + 1
  /\ tasks' = <<n>> \o tasks
  /\ UNCHANGED queTail

InsertLast(n) ==
  /\ queSize # 0
  /\ queSize < Capacity
  /\ next' = [next EXCEPT ![queTail] = n]
  /\ queTail' = n
  /\ queSize' = queSize + 1
  /\ tasks' = Append(tasks, n)
  /\ UNCHANGED queHead

QueInsert(n, ret) ==
  \/ InsertFirst(n) /\ ret = 0
  \/ InsertRefused /\ ret = -1
  \/ InsertLast(n) /\ ret = 0

(***************************************************************************)
(* queGet.  QueGetHead unlinks the head; QueGetEmpty is the early return   *)
(* that leaves *pGet as it was.                                            *)
(***************************************************************************)
\* Mutant of QueGetEmpty: the size is decremented all the same.
QueGetUnderflow ==
  /\ queSize = 0
  /\ queSize' = queSize - 1
  /\ UNCHANGED <<queHead, queTail, next, tasks>>

QueGetEmpty ==
  /\ queSize = 0
  /\ UNCHANGED queVars

\* Mutant of QueGetHead: the tail of an emptied queue is kept.
QueGetKeepTail ==
  /\ queSize # 0
  /\ queHead' = next[queHead]
  /\ queSize' = queSize - 1
  /\ tasks' = Tail(tasks)
  /\ UNCHANGED <<queTail, next>>

QueGetHead ==
  /\ queSize # 0
  /\ queHead' = next[queHead]
  /\ queTail' = IF queHead' = NULL THEN NULL ELSE queTail
  /\ queSize' = queSize - 1
  /\ tasks' = Tail(tasks)
  /\ UNCHANGED next

-----------------------------------------------------------------------------
Queued == {tasks[i] : i \in DOMAIN tasks}

QueTypeOK ==
  /\ queHead \in Node \cup {NULL}
  /\ queTail \in Node \cup {NULL}
  /\ queSize \in Nat
  /\ next \in [Node -> Node \cup {NULL}]
  /\ tasks \in Seq(Node)

(***************************************************************************)
(* The pointers represent the accepted tasks: the head, the chain of next  *)
(* fields and the tail spell out `tasks' and the counter is its length, so *)
(* queGet always hands out the oldest task, no task is lost or linked      *)
(* twice, and queInsert never writes through a null or stale tail.         *)
(***************************************************************************)
QueueShape ==
  /\ queSize = Len(tasks)
  /\ tasks = <<>> => queHead = NULL /\ queTail = NULL
  /\ tasks # <<>> =>
       /\ queHead = tasks[1]
       /\ queTail = tasks[Len(tasks)]
       /\ next[queTail] = NULL
  /\ \A i \in 1 .. Len(tasks) - 1 : next[tasks[i]] = tasks[i + 1]
  /\ \A i, j \in 1 .. Len(tasks) : i # j => tasks[i] # tasks[j]

(***************************************************************************)
(* The queue never holds more tasks than its capacity, except that one     *)
(* task is let in when the configured capacity is not positive, because    *)
(* queInsert tests for an empty queue first (work_que.c:11-18).            *)
(***************************************************************************)
QueueBound == queSize <= IF Capacity > 0 THEN Capacity ELSE 1
=============================================================================
