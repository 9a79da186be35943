------------------------------ MODULE MCSocket ------------------------------
(* Model checking of Socket: processes are interchangeable. *)
EXTENDS Socket, TLC

Symmetry == Permutations(Procs)
=============================================================================
