------------------------------ MODULE MCDiscovery ------------------------------
(***************************************************************************)
(* A small instance of discovery for TLC: the channel and the queues hold  *)
(* one announcement, so that each of them overflows.                       *)
(***************************************************************************)
EXTENDS Discovery, TLC

MCRetryDelays == <<1, 2>>
PoolSymmetry == Permutations(Pools)
=============================================================================
