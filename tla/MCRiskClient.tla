----------------------------- MODULE MCRiskClient -----------------------------
(***************************************************************************)
(* Small instances of the risk manager for TLC.                            *)
(***************************************************************************)
EXTENDS RiskClient

\* A small position, one that needs two thirds of the exposure, one too large.
MCSizes == {1, 2, 3}
MCOneSize == {1}

\* Within the tolerance, and beyond it.
MCSlippages == {1, 2}

MCLosses == {1, 2}
MCErrorKinds == {"hsm"}
MCKillReasons == {"entry outcome unknown"}

=============================================================================
