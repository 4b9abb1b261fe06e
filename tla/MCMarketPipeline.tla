--------------------------- MODULE MCMarketPipeline ---------------------------
(***************************************************************************)
(* Small instances of the market data pipeline for TLC.                    *)
(***************************************************************************)
EXTENDS MarketPipeline, TLC

\* No definition tells one market from another.
Symmetry == Permutations(Markets)
=============================================================================
