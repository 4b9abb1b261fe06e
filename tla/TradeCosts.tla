------------------------------ MODULE TradeCosts ------------------------------
(***************************************************************************)
(* The integer arithmetic of quotes and costs (sim_quote.rs): slippage,    *)
(* price impact, the edge a round trip is expected to keep and the cost    *)
(* the paper simulator charges.  Amounts are lamports or raw token units;  *)
(* Bps and Ppm stand for 10_000 and 1_000_000.  The clamps to u64 and i64  *)
(* are left out: the values of a trade are far below them.                 *)
(***************************************************************************)
EXTENDS Integers

CONSTANTS Bps, Ppm

ASSUME CostAssumption == Bps \in Nat \ {0} /\ Ppm = 100 * Bps

Least(a, b)    == IF a < b THEN a ELSE b
Greatest(a, b) == IF a > b THEN a ELSE b

\* Never 0: a minimum of 0 would accept any price.
MinOut(exact, slippage) ==
  Greatest((exact * (Bps - Least(slippage, Bps))) \div Bps, 1)

\* No spot price is the largest impact.
PriceImpact(spot, exact) ==
  IF spot = 0 THEN Bps ELSE (Greatest(spot - exact, 0) * Bps) \div spot

\* Mutant: the exit is assumed to cost what the entry did, the reserve is left out.
NetEdgeHopeful(t, impact, position) ==
  t.takeProfit - 2 * (t.feePpm \div 100 + impact + (t.network * Bps) \div position)

\* edge_breakdown: the take-profit less both legs' fee, impact and network
\* cost, and a reserve for transactions that fail and still pay.
NetEdge(t, impact, position) ==
  LET fee        == t.feePpm \div 100
      exitImpact == (impact * Greatest(t.exitImpactPct, 100)) \div 100
      network    == (t.network * Bps) \div position
      reserve    == (t.network * t.failedReserve * Bps) \div position
  IN  t.takeProfit - (fee + impact + network) - (fee + exitImpact + network + reserve)

\* entry_economics: the rules that let an entry pass.  Liquidity 0 is unknown.
EntryEconomics(t, spot, exact, position, liquidity) ==
  LET impact == PriceImpact(spot, exact)
  IN  /\ impact <= t.maxImpact
      /\ liquidity > 0 /\ (position * Bps) \div liquidity <= t.maxShare
      /\ position > 0 /\ NetEdge(t, impact, position) >= t.minEdge

\* cp_impact_lamports: what a constant-product pool takes from a trade.
CpImpact(amount, liquidity) ==
  IF liquidity = 0 THEN amount ELSE (amount * amount) \div (liquidity + amount)

\* paper_round_trip_cost, its total.
PaperCost(m, position, entryLiquidity, exitLiquidity) ==
  LET fee     == (2 * position * Least(m.feePpm, Ppm)) \div Ppm
      impact  == CpImpact(position, entryLiquidity)
                 + (CpImpact(position, exitLiquidity) * Least(Greatest(m.exitImpactPct, 100), 10000)) \div 100
      latency == (2 * position * Least(m.latencyBps, Bps)) \div Bps
  IN  fee + impact + latency + 2 * m.network
=============================================================================
