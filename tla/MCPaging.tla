------------------------------ MODULE MCPaging ------------------------------
(***************************************************************************)
(* Paging for TLC: the slots of the task table are interchangeable.        *)
(***************************************************************************)
EXTENDS Paging, TLC

Symmetry == Permutations(Procs)
=============================================================================
