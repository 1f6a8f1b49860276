\* A worker takes the task that another one has been woken for.
CONSTANTS
  Node = {n1, n2}
  NULL = NULL
  Capacity = 2
  Worker = {w1, w2}
  Main = Main
  NoThread = NoThread
  Garbage = Garbage
  SpuriousWakeups = FALSE
SPECIFICATION Spec
SYMMETRY Symmetry
INVARIANTS HandlesATask
