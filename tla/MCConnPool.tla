------------------------------- MODULE MCConnPool -------------------------------
(* Instances of ConnPool for TLC. *)
EXTENDS ConnPool, TLC

Symmetry == Permutations(Streams) \cup Permutations(Conns)

=================================================================================
