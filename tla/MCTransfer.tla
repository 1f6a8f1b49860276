------------------------------ MODULE MCTransfer ------------------------------
(* Instances of Transfer for TLC. *)
EXTENDS Transfer, TLC

CONSTANTS u, v, root, sub, a, b, x, y

P(o, d, n, c) == [kind |-> "put", user |-> o, dir |-> d, name |-> n, md5 |-> c]
G(o, d, n) == [kind |-> "get", user |-> o, dir |-> d, name |-> n]

\* u puts anything anywhere, v anything in one place; u downloads from there.
Most == {p \in Put : p.user = u \/ p.dir = root} \cup {G(u, root, n) : n \in Name}

\* Two users put different contents under one name, and one downloads it.
OneName == {P(u, root, a, x), P(v, root, a, y), G(u, root, a)}

Symmetry == Permutations(Client) \cup Permutations(Worker)
=============================================================================
