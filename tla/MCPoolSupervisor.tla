--------------------------- MODULE MCPoolSupervisor ---------------------------
(***************************************************************************)
(* Small instances of the pool supervisor for TLC.                         *)
(***************************************************************************)
EXTENDS PoolProperties, TLC

\* No definition tells one pool, or one process, from another.
Symmetry == Permutations(Pools) \cup Permutations(Procs)
=============================================================================
