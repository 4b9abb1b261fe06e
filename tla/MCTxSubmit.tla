------------------------------ MODULE MCTxSubmit ------------------------------
(***************************************************************************)
(* A small instance of the submission for TLC.                             *)
(***************************************************************************)
EXTENDS TxSubmit
===============================================================================
