---------------------------- MODULE MCSwapSigning ----------------------------
(***************************************************************************)
(* A small instance of the swap for TLC: arrays of two ticks, a bitmap of  *)
(* four arrays a side, one extension bitmap a side.                        *)
(***************************************************************************)
EXTENDS SwapSigning

MCMinTick == -15

MCTerms == [takeProfit |-> 60, feePpm |-> 250, exitImpactPct |-> 300, network |-> 1,
            failedReserve |-> 1, minEdge |-> 30, maxImpact |-> 10, maxShare |-> 60]

\* The token order of the pool with the fees of a run: within the caps, past
\* the transfer cap of an entry, past the price cap.
MCSettings == {[wsolFirst |-> TRUE,  cuPrice |-> 2, tip |-> 5],
               [wsolFirst |-> FALSE, cuPrice |-> 0, tip |-> 0],
               [wsolFirst |-> FALSE, cuPrice |-> 2, tip |-> 11],
               [wsolFirst |-> TRUE,  cuPrice |-> 3, tip |-> 0]}

\* Arrays at both ends, at the edges of both bitmaps and around zero.
MCArrays == {-16, -10, -8, 0, 6, 8, 14}
MCOpenings == [tick : {-15, -9, -1, 5, 7}, initialized : {s \in SUBSET MCArrays : Cardinality(s) \in {0, 2}}]
MCTouched == {0, 8}
=============================================================================
