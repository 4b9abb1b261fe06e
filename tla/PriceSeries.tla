----------------------------- MODULE PriceSeries -----------------------------
(***************************************************************************)
(* The signal gate (signal.rs): a bounded series of price samples and the  *)
(* decision taken on it.  A sample keeps its time and its liquidity; what  *)
(* the prices say (EMA, MACD, RSI, volatility) is a view, any one of Views.*)
(***************************************************************************)
EXTENDS Integers, Sequences

CONSTANTS
  Cap, Warmup, Window,   \* samples kept, needed, and looked back at for liquidity
  MinInterval, MaxGap,   \* between two samples
  MaxSampleAge, Skew,    \* of the newest sample at the decision, in the past and in the future
  MaxDrain,              \* percent of liquidity lost over the window that vetoes
  MinConfidence

ASSUME SeriesAssumption ==
  /\ Cap \in Nat /\ Warmup \in 2..Cap /\ Window \in 2..Warmup
  /\ MaxGap >= 2 * MinInterval
  /\ {MinInterval, MaxGap, MaxSampleAge, Skew, MaxDrain, MinConfidence} \subseteq Nat

Views == [trend : BOOLEAN, momentum : BOOLEAN, rsi : {"low", "healthy", "over"}, volatile : BOOLEAN]

\* Mutant: a gap does not start the series again.
PushOverGap(s, price, ts, liquidity) ==
  IF price <= 0 \/ (s # <<>> /\ ts < s[Len(s)].ts + MinInterval) THEN s
  ELSE Append(IF Len(s) = Cap THEN Tail(s) ELSE s, [ts |-> ts, liquidity |-> liquidity])

\* A price that is not positive and finite, a time going back and one too
\* close are refused; a gap starts the series again.
Push(s, price, ts, liquidity) ==
  LET last == s[Len(s)]
      kept == IF s # <<>> /\ ts - last.ts > MaxGap THEN <<>>
              ELSE IF Len(s) = Cap THEN Tail(s) ELSE s
  IN  IF price <= 0 \/ (s # <<>> /\ ts < last.ts + MinInterval) THEN s
      ELSE Append(kept, [ts |-> ts, liquidity |-> liquidity])

\* Liquidity unknown at the window's start, or lost since, is no trade.
LiquidityHolds(s, allowed) ==
  LET first == s[Len(s) - Window + 1].liquidity
  IN  first > 0 /\ (s[Len(s)].liquidity - first) * 100 > allowed * first

Score(s, view) ==
  (IF view.trend THEN 40 ELSE 0) + (IF view.momentum THEN 30 ELSE 0)
  + (IF view.rsi = "healthy" THEN 20 ELSE 0)
  + (IF s[Len(s)].liquidity >= s[Len(s) - Window + 1].liquidity THEN 10 ELSE 0)

\* evaluate_at: fresh data, warmed up, no veto, enough confidence.
Trade(s, view, now) ==
  /\ s # <<>> /\ s[Len(s)].ts <= now + Skew /\ now - s[Len(s)].ts <= MaxSampleAge
  /\ Len(s) >= Warmup
  /\ view.rsi # "over" /\ ~view.volatile /\ LiquidityHolds(s, -MaxDrain)
  /\ Score(s, view) >= MinConfidence
=============================================================================
