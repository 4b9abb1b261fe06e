----------------------------- MODULE MCLiveEngine -----------------------------
(***************************************************************************)
(* Small instances of the live process for TLC.                            *)
(***************************************************************************)
EXTENDS LiveProperties
=============================================================================
