------------------------------- MODULE TaskPool -------------------------------
(***************************************************************************)
(* What the server promises of its thread pool, without threads, locks or  *)
(* pointers: accepted tasks wait in order of arrival, a free worker is     *)
(* given the oldest one, serves that one only and is then free again.      *)
(* WorkFactory is shown to implement this specification.                   *)
(***************************************************************************)
EXTENDS Integers, Sequences

CONSTANTS
  Task,      \* the tasks of the clients
  Worker,    \* the worker threads
  Idle,      \* what a free worker serves
  Capacity   \* the configured capacity of the queue

VARIABLES
  waiting,   \* the accepted tasks, oldest first
  serving    \* the task each worker serves

poolVars == <<waiting, serving>>

\* A queue whose capacity is not positive still takes one task.
Limit == IF Capacity > 0 THEN Capacity ELSE 1

Init ==
  /\ waiting = <<>>
  /\ serving = [w \in Worker |-> Idle]

Accept(t) ==
  /\ Len(waiting) < Limit
  /\ \A i \in DOMAIN waiting : waiting[i] # t
  /\ \A w \in Worker : serving[w] # t
  /\ waiting' = Append(waiting, t)
  /\ UNCHANGED serving

HandOut(w) ==
  /\ serving[w] = Idle
  /\ waiting # <<>>
  /\ serving' = [serving EXCEPT ![w] = Head(waiting)]
  /\ waiting' = Tail(waiting)

Finish(w) ==
  /\ serving[w] # Idle
  /\ serving' = [serving EXCEPT ![w] = Idle]
  /\ UNCHANGED waiting

Next ==
  \/ \E t \in Task : Accept(t)
  \/ \E w \in Worker : HandOut(w) \/ Finish(w)

Spec == Init /\ [][Next]_poolVars
=============================================================================
