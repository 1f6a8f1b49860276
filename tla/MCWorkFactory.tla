---------------------------- MODULE MCWorkFactory ----------------------------
(* Instances of WorkFactory for TLC. *)
EXTENDS WorkFactory, TLC

\* Nodes and workers are interchangeable: no action or property names one.
Symmetry == Permutations(Node) \cup Permutations(Worker)
=============================================================================
