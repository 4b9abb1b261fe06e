----------------------------- MODULE PaperTrading -----------------------------
(***************************************************************************)
(* Paper mode: the loop of main.rs that reads the pool, pushes a sample,   *)
(* lets PaperSimulator decide and books simulated trades, beside the       *)
(* WebSocket task that delivers pool states (solana_ws.rs).                *)
(*                                                                         *)
(* The price and the liquidity a read shows are any of Prices and          *)
(* Liquidities: late, repeated and forked states are among them.  A read   *)
(* of the chain takes any time.  A wall clock that steps back once is      *)
(* uptime - behind; the entry window is measured by uptime.  The cached    *)
(* vaults of the pool are its identity and do not change, so they are left *)
(* out; so are the decision records and the metrics.                       *)
(***************************************************************************)
EXTENDS ExitStrategy, PriceSeries

CONSTANTS
  Prices,             \* Q64.64 sqrt prices; 0 is an account read before it was filled
  Liquidities,
  Position,           \* the strategy's trade size, within the lamports there are
  MaxSpend,           \* --max-spend-sol
  MinLiquidity,
  PriceMaxAge,        \* price_staleness_ms
  MaxHold,            \* --max-hold-secs, 0 for none
  EntryWindow,        \* --entry-window-secs, 0 for none
  SingleTrade,        \* --single-trade
  SignalGate,         \* --signal-gate
  CostModels,         \* [feePpm, exitImpactPct, latencyBps, network] a tick may use
  Epoch, MaxUptime, MaxBehind,  \* clock at the start; bounds of the model
  Delayed             \* how long before the iteration a message may have come

ASSUME PaperAssumption ==
  /\ Prices \subseteq Word /\ Liquidities \subseteq Nat
  /\ Position \in 1..Largest /\ {Epoch, MaxUptime, MaxBehind, Delayed} \subseteq Nat
  /\ MaxBehind + Delayed < Epoch
  /\ {MaxSpend, MinLiquidity, PriceMaxAge, MaxHold, EntryWindow} \subseteq Nat
  /\ CostModels \subseteq [feePpm : Nat, exitImpactPct : Nat, latencyBps : Nat, network : Nat]

VARIABLES
  uptime, behind, \* of the process; how far the wall clock stepped back
  feed,           \* [connected, price, at]: the provider's flag and pool state
  inputIsToken0,  \* swap direction of the pool
  stage,          \* of the iteration
  quote,          \* [price, at] of the iteration
  series,         \* price_series
  position,       \* PaperSimulator.position
  done,           \* single_trade_done
  outcome,        \* of the iteration
  best            \* history: the best price an iteration decided on since the entry

clock == <<uptime, behind>>
vars == <<uptime, behind, feed, inputIsToken0, stage, quote, series, position, done, outcome, best>>

NoQuote    == [price |-> None, at |-> 0]
NoPosition == [entry |-> None, liquidity |-> 0, openedAt |-> 0, peak |-> 0]
NoOutcome  == [what |-> "none", price |-> None, liquidity |-> 0, entry |-> None, gross |-> 0, net |-> 0]
Open == position # NoPosition

Now == Epoch + uptime - behind

Init ==
  /\ uptime = 0 /\ behind = 0
  /\ feed = [connected |-> FALSE, price |-> None, at |-> 0]
  /\ inputIsToken0 \in BOOLEAN
  /\ stage = "idle" /\ quote = NoQuote
  /\ series = <<>> /\ position = NoPosition /\ done = FALSE
  /\ outcome = NoOutcome /\ best = None

-----------------------------------------------------------------------------
(* The clock and the WebSocket task.  Only the start of an iteration reads the
   feed: what the task did since the last one is done when the loop is idle,
   and a message may have come Delayed ago. *)

\* A call of the iteration takes its time.
Delay ==
  /\ stage = "quoted" /\ uptime < MaxUptime /\ uptime' = uptime + 1
  /\ UNCHANGED <<behind, feed, inputIsToken0, stage, quote, series, position, done, outcome, best>>

StepBack(n) ==
  /\ stage \in {"idle", "quoted"} /\ behind = 0 /\ behind' = n
  /\ UNCHANGED <<uptime, feed, inputIsToken0, stage, quote, series, position, done, outcome, best>>

\* The flag goes up before the subscription; the old pool state stays.
Connects ==
  /\ stage = "idle" /\ ~feed.connected /\ feed' = [feed EXCEPT !.connected = TRUE]
  /\ UNCHANGED <<clock, inputIsToken0, stage, quote, series, position, done, outcome, best>>

Notifies(p, at) ==
  /\ stage = "idle" /\ feed.connected /\ feed' = [feed EXCEPT !.price = p, !.at = at]
  /\ UNCHANGED <<clock, inputIsToken0, stage, quote, series, position, done, outcome, best>>

\* The subscription is not sent, the server closes, or the connection fails.
Disconnects ==
  /\ stage = "idle" /\ feed.connected /\ feed' = [feed EXCEPT !.connected = FALSE]
  /\ UNCHANGED <<clock, inputIsToken0, stage, quote, series, position, done, outcome, best>>

-----------------------------------------------------------------------------
(* The iteration *)

Wake ==
  /\ stage = "sleep" /\ uptime < MaxUptime
  /\ stage' = "idle" /\ uptime' = uptime + 1 /\ outcome' = NoOutcome
  /\ UNCHANGED <<behind, feed, inputIsToken0, quote, series, position, done, best>>

WindowExpired == EntryWindow > 0 /\ ~Open /\ uptime >= EntryWindow

Stops ==
  /\ stage = "idle" /\ ((SingleTrade /\ done) \/ WindowExpired)
  /\ stage' = "stopped"
  /\ UNCHANGED <<clock, feed, inputIsToken0, quote, series, position, done, outcome, best>>

Continues == stage = "idle" /\ ~(SingleTrade /\ done) /\ ~WindowExpired

\* The iteration ends without a tick: the probe pre_trade_check refused, the
\* price is stale, a read failed, or a token gate refused.
EndsWith(what) ==
  /\ stage' = "sleep" /\ quote' = NoQuote /\ outcome' = [NoOutcome EXCEPT !.what = what]
  /\ UNCHANGED <<clock, feed, inputIsToken0, series, position, done, best>>

ProbeRefuses == Continues /\ EndsWith("risk")

\* price_freshness.
Fresh(at) == at > 0 /\ at <= Now /\ Now - at <= PriceMaxAge

Reads(p, at) ==
  IF Fresh(at)
  THEN /\ stage' = "quoted" /\ quote' = [price |-> p, at |-> at]
       /\ UNCHANGED <<clock, feed, inputIsToken0, series, position, done, outcome, best>>
  ELSE EndsWith("rejected")

\* A connected provider that has a pool state is always preferred.
FromFeed == feed.connected /\ feed.price # None

ReadFeed == Continues /\ FromFeed /\ Reads(feed.price, feed.at)

ReadRpc(p) == Continues /\ ~FromFeed /\ Reads(p, Now)

ReadFails == ((Continues /\ ~FromFeed) \/ stage = "quoted") /\ EndsWith("data_error")

GateRefuses == stage = "quoted" /\ EndsWith("rejected")

\* The rest of the iteration ends in a tick at the time of the tick.
Ticks(what, liquidity, gross, net) ==
  /\ stage' = "sleep" /\ quote' = NoQuote
  /\ series' = Push(series, quote.price, Now, liquidity)
  /\ outcome' = [what |-> what, price |-> quote.price, liquidity |-> liquidity,
                 entry |-> position.entry, gross |-> gross, net |-> net]
  /\ UNCHANGED <<clock, feed, inputIsToken0>>

From == IF inputIsToken0 THEN quote.price ELSE position.entry
To   == IF inputIsToken0 THEN position.entry ELSE quote.price
RatioOf == [from \in Prices |-> [to \in Prices |-> PriceRatio(from, to)]]
Ratio == RatioOf[From][To]

Better(p, q) == IF inputIsToken0 = (p < q) THEN p ELSE q
Best == IF Ratio = None THEN best ELSE Better(quote.price, best)

\* Mutant: the new peak decides and is then forgotten.
PeakSavedNot == position

\* The position as the tick leaves it.
PeakSaved == [position EXCEPT !.peak = Greatest(@, Ratio)]

Exit(liquidity) ==
  LET byPrice == IF Ratio = None THEN "hold" ELSE ExitWithPeak(Ratio, Greatest(position.peak, Ratio))
  IN  CASE byPrice # "hold" -> byPrice
        [] byPrice = "hold" /\ LiquidityDropped(position.liquidity, liquidity) -> "liquidity_drop"
        [] byPrice = "hold" /\ ~LiquidityDropped(position.liquidity, liquidity)
             /\ MaxHold > 0 /\ Greatest(Now - position.openedAt, 0) >= MaxHold -> "max_hold"
        [] OTHER -> "hold"

Holds(liquidity) ==
  /\ stage = "quoted" /\ Open /\ Exit(liquidity) = "hold"
  /\ Ticks("hold", liquidity, 0, 0)
  /\ position' = PeakSaved /\ best' = Best
  /\ UNCHANGED done

Closes(liquidity, model) ==
  /\ stage = "quoted" /\ Open /\ Exit(liquidity) # "hold"
  /\ LET gross == IF Ratio = None THEN 0 ELSE PnlFromRatio(Ratio, Position)
     IN  Ticks(Exit(liquidity), liquidity, gross,
               gross - PaperCost(model, Position, position.liquidity, liquidity))
  /\ position' = NoPosition /\ best' = None /\ done' = TRUE

\* SimpleSnipeStrategy::evaluate; a free choice stands for blocklist and market cap.
NoSignal(liquidity) ==
  /\ stage = "quoted" /\ ~Open
  /\ Ticks("no_signal", liquidity, 0, 0)
  /\ UNCHANGED <<position, done, best>>

\* The views of the prices that would let the entry pass the signal gate.
Passing(liquidity) == {view \in Views : Trade(Push(series, quote.price, Now, liquidity), view, Now)}

SignalRefuses(liquidity) ==
  /\ stage = "quoted" /\ ~Open /\ liquidity >= MinLiquidity
  /\ SignalGate /\ Passing(liquidity) # Views
  /\ Ticks("rejected", liquidity, 0, 0)
  /\ UNCHANGED <<position, done, best>>

SignalPasses(liquidity) ==
  /\ stage = "quoted" /\ ~Open /\ liquidity >= MinLiquidity
  /\ SignalGate => Passing(liquidity) # {}

Enters(liquidity) ==
  /\ SignalPasses(liquidity) /\ Position <= MaxSpend
  /\ Ticks("entry", liquidity, 0, 0)
  /\ position' = [entry |-> quote.price, liquidity |-> liquidity, openedAt |-> Now, peak |-> Scale]
  /\ best' = quote.price
  /\ UNCHANGED done

\* The spend cap and pre_trade_check come after the signal gate; a refusal of
\* the latter is a free choice (RiskManager has the rules).
RiskRefuses(liquidity) ==
  /\ SignalPasses(liquidity)
  /\ Ticks("risk", liquidity, 0, 0)
  /\ UNCHANGED <<position, done, best>>

Next ==
  \/ Delay \/ Wake \/ Connects \/ Disconnects \/ Stops
  \/ \E n \in 1..MaxBehind : StepBack(n)
  \/ \E p \in Prices : ReadRpc(p) \/ \E d \in 0..Delayed : Notifies(p, Now - d)
  \/ ProbeRefuses \/ ReadFeed \/ ReadFails \/ GateRefuses
  \/ \E l \in Liquidities :
       \/ Holds(l) \/ NoSignal(l)
       \/ \E m \in CostModels : Closes(l, m)
       \/ SignalRefuses(l) \/ Enters(l) \/ RiskRefuses(l)

Spec == Init /\ [][Next]_vars

-----------------------------------------------------------------------------
(* Properties *)

\* The value of what is held, in units of what was paid: Num(p) / Den(p).
Num(p, entry) == IF inputIsToken0 THEN entry * entry ELSE p * p
Den(p, entry) == IF inputIsToken0 THEN p * p ELSE entry * entry

\* A booked close is never better than the exact value of the position at the
\* price it closed at, in either direction of the pool; a loss is at most the
\* position; and when no liquidity is left the net is a loss of it or more.
NeverOptimistic ==
  /\ outcome.what \in {"stop_loss", "take_profit", "trailing_stop", "liquidity_drop", "max_hold"}
  /\ outcome.price # 0 /\ outcome.entry # 0
  => LET n == Num(outcome.price, outcome.entry)   d == Den(outcome.price, outcome.entry)
    IN  /\ outcome.gross * d <= Position * (n - d)
        /\ outcome.gross >= -Position
        /\ outcome.liquidity = 0 => outcome.net <= outcome.gross - Position

\* An iteration that holds leaves nothing to exit for: the value, computed
\* exactly, is inside stop loss and take profit and above the trailing floor
\* of the best price decided on since the entry (to one bp), the liquidity the
\* pool had at the entry has not dropped away, and the holding time is not over.
\* A ratio too large for a word decides nothing.
HoldsOnlyInside ==
  outcome.what = "hold" =>
    /\ MaxHold > 0 => Now - position.openedAt < MaxHold
    /\ position.liquidity # 0 => outcome.liquidity * Bps > position.liquidity * (Bps - DropExit)
    /\ outcome.price # 0 /\ outcome.entry # 0 =>
         LET n == Num(outcome.price, outcome.entry)   d == Den(outcome.price, outcome.entry)
             bn == Num(best, outcome.entry)           bd == Den(best, outcome.entry)
         IN  n * Scale < d * Wide =>
               /\ n >= d \/ n * Bps > d * (Bps - StopLoss)
               /\ n * Bps < d * (Bps + TakeProfit + 1)
               /\ TrailingStop \in 1..(Bps - 1) /\ bn * Bps >= bd * (Bps + TrailingActivation + 1)
                    => (n * Bps) \div d >= (bn * (Bps - TrailingStop)) \div bd - 1

\* An entry past the signal gate rests on a series that is long enough, without
\* a gap or a crowd of samples in it, and that ends about now: whatever the
\* reads that failed and the clock that stepped back since.
EntersOnSettledSeries ==
  outcome.what = "entry" /\ SignalGate =>
    /\ Len(series) >= Warmup
    /\ \A i \in 2..Len(series) : series[i].ts - series[i - 1].ts \in MinInterval..MaxGap
    /\ Now - series[Len(series)].ts \in -Skew..MaxSampleAge
=============================================================================
