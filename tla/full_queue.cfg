\* A connection arrives when the queue is full.
CONSTANTS
  Node = {n1, n2, n3, n4}
  NULL = NULL
  Capacity = 2
  Worker = {w1}
  Main = Main
  NoThread = NoThread
  Garbage = Garbage
  SpuriousWakeups = FALSE
SPECIFICATION Spec
SYMMETRY Symmetry
INVARIANTS NoForgottenTask
