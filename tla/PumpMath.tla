------------------------------- MODULE PumpMath -------------------------------
(***************************************************************************)
(* The PumpSwap reading and quotes of pumpswap.rs.  A pool is a record     *)
(* [base, vault, virtual, buckets, creatorBps, coinCreator, quote,         *)
(* canonical, mayhem, supply]: base and quote vault, signed virtual quote  *)
(* reserves, fees waiting in the vault, and what identifies it.  Amounts   *)
(* are small, so the range checks of u64 and i128 are the checks against 0;*)
(* account decoding yields such a record or an error.                      *)
(***************************************************************************)
EXTENDS Integers, Sequences

CONSTANTS
  Bps,        \* 10_000
  FeeTiers,   \* a sequence of [threshold, fees], fees [lp, protocol, creator]
  FlatFees

Rate == [lp : Nat, protocol : Nat, creator : Nat]

\* In any order of the thresholds: the last tier that is reached counts.
ASSUME PumpAssumption ==
  /\ Bps \in Nat \ {0} /\ FlatFees \in Rate
  /\ FeeTiers \in Seq([threshold : Nat, fees : Rate]) \ {<<>>}

Reading ==
  [base : Nat, vault : Nat, virtual : Int, buckets : Nat, creatorBps : Nat, coinCreator : BOOLEAN,
   quote : STRING, canonical : BOOLEAN, mayhem : BOOLEAN, supply : Nat]

CeilDiv(a, b) == (a + b - 1) \div b

\* The last tier whose threshold the market cap reaches, else the first.
FeeTier(cap) ==
  LET reached == {i \in DOMAIN FeeTiers : cap >= FeeTiers[i].threshold}
      last == CHOOSE i \in reached : \A j \in reached : j <= i
  IN  IF cap < FeeTiers[1].threshold \/ reached = {} THEN FeeTiers[1].fees ELSE FeeTiers[last].fees

EffectiveQuote(p) == p.vault + p.virtual
RealQuote(p) == p.vault - p.buckets

TotalBps(fees) == fees.lp + fees.protocol + fees.creator

\* A creator rate of the pool's own replaces a lower one of the schedule.
PoolFees(p) ==
  LET cap == (EffectiveQuote(p) * p.supply) \div p.base
      schedule == IF p.canonical THEN FeeTier(cap) ELSE FlatFees
      own == IF p.creatorBps > schedule.creator THEN p.creatorBps ELSE schedule.creator
  IN  [schedule EXCEPT !.creator = IF p.coinCreator THEN own ELSE 0]

\* build_snapshot accepts the reading.
Usable(p) ==
  /\ p.quote = "wsol" /\ p.canonical /\ ~p.mayhem
  /\ p.base > 0 /\ EffectiveQuote(p) >= 0 /\ RealQuote(p) >= 0
  /\ TotalBps(PoolFees(p)) < Bps

\* sqrt_price_x64 has a value.
Priced(p) == p.base > 0 /\ EffectiveQuote(p) > 0

Fee(amount, bps) == CeilDiv(amount * bps, Bps)

WithFees(net, fees) == net + Fee(net, fees.lp) + Fee(net, fees.protocol) + Fee(net, fees.creator)

\* Mutant: the rounding of the three fees is not taken back.
NetQuoteUncorrected(amount, fees) == (amount * Bps) \div (Bps + TotalBps(fees))

\* What is left of an amount for the pool once its fees are paid from it.
NetQuote(amount, fees) ==
  LET net == (amount * Bps) \div (Bps + TotalBps(fees))
      over == WithFees(net, fees) - amount
  IN  IF over > 0 THEN net - over ELSE net

\* buy_exact_quote_in; 0 stands for an error (fees not covered, empty pool).
BuyExactQuoteIn(amount, p, fees) ==
  LET net == NetQuote(amount, fees)
  IN  IF p.base = 0 \/ EffectiveQuote(p) = 0 \/ net <= 0 THEN 0
      ELSE (p.base * (net - 1)) \div (EffectiveQuote(p) + net - 1)

\* sell_exact_base_in; -1 stands for an error.
SellExactBaseIn(amount, p, fees) ==
  LET gross == (EffectiveQuote(p) * amount) \div (p.base + amount)
      afterLp == gross - Fee(gross, fees.lp)
      out == afterLp - Fee(gross, fees.creator) - Fee(gross, fees.protocol)
  IN  IF p.base = 0 \/ p.vault = 0 \/ RealQuote(p) < afterLp \/ afterLp < 0 \/ out < 0
      THEN -1 ELSE out
=============================================================================
