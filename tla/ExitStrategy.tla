----------------------------- MODULE ExitStrategy -----------------------------
(***************************************************************************)
(* The exit rule and its integer arithmetic (strategy.rs): the price ratio *)
(* of a position, the thresholds on it, the trailing stop, the liquidity   *)
(* drop and the profit or loss of a ratio.  A u128 is Wide = Half * Half   *)
(* values here (Half = 2^64 in the code), so that a product of two of them *)
(* overflows as it does in the code; Scale stands for RATIO_SCALE.         *)
(***************************************************************************)
EXTENDS TradeCosts

CONSTANTS
  Half,           \* half a word: 2^HalfBits
  HalfBits,
  Scale,          \* RATIO_SCALE
  StopLoss, TakeProfit, TrailingStop, TrailingActivation,  \* in bps
  DropExit        \* LIQUIDITY_DROP_EXIT_BPS

ASSUME StrategyAssumption ==
  /\ HalfBits \in Nat \ {0} /\ Half = 2^HalfBits
  /\ Scale \in 1..(Half * Half - 1) /\ Scale % Bps = 0
  /\ {StopLoss, TakeProfit, TrailingStop, TrailingActivation} \subseteq Nat
  /\ TrailingStop # 0 => TrailingActivation > 0
  /\ DropExit \in 0..Bps
  /\ 3 * Bps + 2 * TakeProfit + 2 <= Scale  \* a bp is coarser than the rounding

Wide == Half * Half
Word == 0..(Wide - 1)
Largest == Half \div 2 - 1  \* i64::MAX
None == -1

\* unwrap_or.
OrElse(v, default) == IF v = None THEN default ELSE v

\* The product of two words as two words, in four half products.
Product(a, b) ==
  LET a0 == a % Half   a1 == a \div Half   b0 == b % Half   b1 == b \div Half
      mid == ((a0 * b0) \div Half) + ((a0 * b1) % Half) + ((a1 * b0) % Half)
  IN  [lo |-> ((a0 * b0) % Half) + ((mid * Half) % Wide),
       hi |-> a1 * b1 + ((a0 * b1) \div Half) + ((a1 * b0) \div Half) + (mid \div Half)]

\* Long division of (hi, lo) by d, the bits of lo from the highest down.  A
\* remainder that does not fit its word after the shift is larger than d.
LongDivision(hi, lo, d) ==
  LET bits == 2 * HalfBits
      f[i \in 0..bits] ==
        IF i = 0 THEN [rem |-> hi, q |-> 0]
        ELSE LET p == f[i - 1]
                 shifted == 2 * p.rem + ((lo \div 2^(bits - i)) % 2)
             IN  IF shifted >= d
                 THEN [rem |-> (shifted - d) % Wide, q |-> (2 * p.q + 1) % Wide]
                 ELSE [rem |-> shifted % Wide, q |-> (2 * p.q) % Wide]
  IN  f[bits]

\* Quotient and remainder of a * b / d; a quotient of None when d is 0 or the
\* quotient does not fit.
MulDiv(a, b, d) ==
  LET p == Product(a, b)
  IN  IF d = 0 \/ p.hi >= d THEN [q |-> None, rem |-> 0]
      ELSE IF p.hi = 0 THEN [q |-> p.lo \div d, rem |-> p.lo % d]
      ELSE LongDivision(p.hi, p.lo, d)

MulDivFloor(a, b, d) == MulDiv(a, b, d).q

MulDivCeil(a, b, d) ==
  LET r == MulDiv(a, b, d)
  IN  IF r.q = None \/ r.rem = 0 THEN r.q
      ELSE IF r.q = Wide - 1 THEN None ELSE r.q + 1

\* (to / from)^2 in units of 1 / Scale.
PriceRatio(from, to) ==
  LET root == MulDivFloor(to, Scale, from)
  IN  IF root = None THEN None ELSE MulDivFloor(root, root, Scale)

Gain(ratio, position) ==
  Least(OrElse(MulDivFloor(position, ratio - Scale, Scale), Wide - 1), Largest)

\* Mutant: a loss is rounded towards zero as a gain is.
PnlFromRatioFloor(ratio, position) ==
  IF ratio >= Scale THEN Gain(ratio, position)
  ELSE -Least(OrElse(MulDivFloor(position, Scale - ratio, Scale), position), position)

\* Gains are rounded down, losses up; a loss is at most the position, and
\* neither is more than an i64 holds.
PnlFromRatio(ratio, position) ==
  IF ratio >= Scale THEN Gain(ratio, position)
  ELSE -Least(Least(OrElse(MulDivCeil(position, Scale - ratio, Scale), position), position), Largest)

Scaled(bps) == bps * (Scale \div Bps)

ExitOnRatio(ratio) ==
  CASE ratio >= Scale /\ ratio - Scale >= Scaled(TakeProfit) -> "take_profit"
    [] ratio < Scale /\ Scale - ratio >= Scaled(StopLoss)    -> "stop_loss"
    [] OTHER -> "hold"

\* Armed by a peak at the activation level.
TrailingTriggered(ratio, peak) ==
  /\ TrailingStop \in 1..(Bps - 1)
  /\ peak >= Scale + Scaled(TrailingActivation)
  /\ ratio <= OrElse(MulDivFloor(peak, Bps - TrailingStop, Bps), 0)

ExitWithPeak(ratio, peak) ==
  IF ExitOnRatio(ratio) = "hold" /\ TrailingTriggered(ratio, peak)
  THEN "trailing_stop" ELSE ExitOnRatio(ratio)

\* Unknown liquidity at the entry never triggers.
LiquidityDropped(atEntry, current) ==
  atEntry # 0 /\ current <= (atEntry * (Bps - DropExit)) \div Bps
=============================================================================
