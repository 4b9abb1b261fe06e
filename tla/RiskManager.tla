----------------------------- MODULE RiskManager -----------------------------
(***************************************************************************)
(* The risk manager of the trading process (solana-sniper/src/risk.rs):    *)
(* the per-day loss and trade counters, the open-position and exposure     *)
(* accounting, the kill switch, the circuit breaker, and the file          *)
(* risk_state.json that carries the counters across a restart.             *)
(*                                                                         *)
(* The module holds the state and one action per operation; it has no      *)
(* next-state relation of its own.  RiskClient adds the sequential caller  *)
(* that uses all of it, LiveEngine the live trading process.               *)
(*                                                                         *)
(* Amounts are in an abstract unit.  A calendar day is a number; NoDate is *)
(* the empty date string of PersistedRiskState::default().                 *)
(***************************************************************************)
EXTENDS Naturals

CONSTANTS
  MaxTradeSize,       \* RiskConfig.max_trade_size_lamports
  MaxSlippageBps,     \* RiskConfig.max_slippage_bps
  DailyLossLimit,     \* RiskConfig.daily_loss_limit_lamports
  MaxDailyTrades,     \* RiskConfig.max_daily_trades
  BreakerDuration,    \* RiskConfig.circuit_breaker_duration, in clock ticks
  MaxOpenPositions,   \* RiskConfig.max_open_positions
  MaxTotalExposure,   \* RiskConfig.max_total_exposure_lamports
  LastDay             \* bound of the model: the last day of the calendar

\* What RiskConfig::validate guarantees of the configuration.
ASSUME ConfigAssumption ==
  /\ MaxTradeSize \in Nat \ {0}
  /\ MaxSlippageBps \in 1..10000
  /\ DailyLossLimit \in Nat \ {0}
  /\ MaxDailyTrades \in Nat \ {0}
  /\ BreakerDuration \in Nat
  /\ MaxOpenPositions \in Nat \ {0}
  /\ MaxTotalExposure \in Nat \ {0}
  /\ LastDay \in Nat \ {0}

VARIABLES
  today,          \* RiskManager::today(): the calendar day of the host
  dailyLoss,      \* DailyLoss  [date, lamports]
  dailyTrades,    \* DailyTrades [date, count]
  breaker,        \* circuit_breaker_active, and ticks since last_breaker_reset
  killSwitch,     \* kill_switch_active
  liveArmed,      \* live_armed
  openPositions,  \* open_positions
  openExposure,   \* open_exposure_lamports
  stateVerified,  \* state_verified
  persistFailed,  \* persist_failed
  riskFile        \* <data_dir>/risk_state.json

counterVars == <<dailyLoss, dailyTrades, openPositions, openExposure>>
switchVars  == <<breaker, killSwitch, liveArmed, stateVerified>>
diskVars    == <<riskFile, persistFailed>>
riskVars    == <<today, counterVars, switchVars, diskVars>>

NoDate == 0
Days   == 1..LastDay
Dates  == {NoDate} \cup Days

\* PersistedRiskState: there is ONE date for both counters.
RiskState == [date : Dates, trades : Nat, loss : Nat, positions : Nat, exposure : Nat]

NoState == [date |-> NoDate, trades |-> 0, loss |-> 0, positions |-> 0, exposure |-> 0]

RiskTypeOK ==
  /\ today \in Days
  /\ dailyLoss \in [date : Dates, lamports : Nat]
  /\ dailyTrades \in [date : Dates, count : Nat]
  /\ breaker \in [active : BOOLEAN, age : 0..BreakerDuration + 1]
  /\ killSwitch \in BOOLEAN
  /\ liveArmed \in BOOLEAN
  /\ openPositions \in Nat
  /\ openExposure \in Nat
  /\ stateVerified \in BOOLEAN
  /\ persistFailed \in BOOLEAN
  /\ riskFile \in [status : {"absent", "corrupt", "valid"}, state : RiskState]

-----------------------------------------------------------------------------
(* Construction and persistence *)

\* load_state: an absent file is a verified fresh start, a file that does not
\* parse is not verified.
LoadedState == IF riskFile.status = "valid" THEN riskFile.state ELSE NoState

BreakerOff == [active |-> FALSE, age |-> 0]

\* RiskManager::new, in a new process: both counters take the file's one
\* date, and no switch survives.
NewRiskManager ==
  /\ dailyLoss' = [date |-> LoadedState.date, lamports |-> LoadedState.loss]
  /\ dailyTrades' = [date |-> LoadedState.date, count |-> LoadedState.trades]
  /\ openPositions' = LoadedState.positions
  /\ openExposure' = LoadedState.exposure
  /\ stateVerified' = (riskFile.status # "corrupt")
  /\ breaker' = BreakerOff
  /\ killSwitch' = FALSE
  /\ liveArmed' = FALSE
  /\ persistFailed' = FALSE
  /\ UNCHANGED <<today, riskFile>>

\* persist_state, after the counters took their primed values.  The file is
\* replaced atomically, so a failed write leaves the old one; the date
\* written is that of the trade counter.
PersistState(written) ==
  /\ riskFile' = IF written
                 THEN [status |-> "valid",
                       state  |-> [date      |-> dailyTrades'.date,
                                   trades    |-> dailyTrades'.count,
                                   loss      |-> dailyLoss'.lamports,
                                   positions |-> openPositions',
                                   exposure  |-> openExposure']]
                 ELSE riskFile
  /\ persistFailed' = (persistFailed \/ ~written)

IsStateVerified == stateVerified /\ ~persistFailed

-----------------------------------------------------------------------------
(* Counters *)

CurrentDailyTrades == IF dailyTrades.date = today THEN dailyTrades.count ELSE 0
CurrentDailyLoss   == IF dailyLoss.date = today THEN dailyLoss.lamports ELSE 0

\* record_trade: the counter starts over on a new day; past the cap the kill
\* switch is triggered.
RecordTrade(written) ==
  /\ dailyTrades' = [date |-> today, count |-> CurrentDailyTrades + 1]
  /\ UNCHANGED <<today, dailyLoss, openPositions, openExposure>>
  /\ PersistState(written)
  /\ killSwitch' = (killSwitch \/ dailyTrades'.count > MaxDailyTrades)
  /\ UNCHANGED <<breaker, liveArmed, stateVerified>>

\* Mutant: the day of the loss counter is not looked at.
RecordLossNoRollover(lamports, written) ==
  /\ dailyLoss' = [date |-> today, lamports |-> dailyLoss.lamports + lamports]
  /\ UNCHANGED <<today, dailyTrades, openPositions, openExposure>>
  /\ PersistState(written)
  /\ killSwitch' = (killSwitch \/ dailyLoss'.lamports >= DailyLossLimit)
  /\ UNCHANGED <<breaker, liveArmed, stateVerified>>

\* record_loss: the counter starts over on a new day; reaching the limit
\* triggers the kill switch.
RecordLoss(lamports, written) ==
  /\ dailyLoss' = [date |-> today, lamports |-> CurrentDailyLoss + lamports]
  /\ UNCHANGED <<today, dailyTrades, openPositions, openExposure>>
  /\ PersistState(written)
  /\ killSwitch' = (killSwitch \/ dailyLoss'.lamports >= DailyLossLimit)
  /\ UNCHANGED <<breaker, liveArmed, stateVerified>>

RecordPositionOpen(lamports, written) ==
  /\ openPositions' = openPositions + 1
  /\ openExposure' = openExposure + lamports
  /\ UNCHANGED <<today, dailyLoss, dailyTrades>>
  /\ PersistState(written)
  /\ UNCHANGED switchVars

\* Mutant: a plain subtraction.
SaturatingSubUnchecked(a, b) == a - b

\* u64::saturating_sub
SaturatingSub(a, b) == IF a >= b THEN a - b ELSE 0

\* Mutant: the exposure of a closed position is kept.
RecordPositionCloseKeepsExposure(lamports, written) ==
  /\ openPositions' = SaturatingSub(openPositions, 1)
  /\ UNCHANGED <<today, dailyLoss, dailyTrades, openExposure>>
  /\ PersistState(written)
  /\ UNCHANGED switchVars

RecordPositionClose(lamports, written) ==
  /\ openPositions' = SaturatingSub(openPositions, 1)
  /\ openExposure' = SaturatingSub(openExposure, lamports)
  /\ UNCHANGED <<today, dailyLoss, dailyTrades>>
  /\ PersistState(written)
  /\ UNCHANGED switchVars

-----------------------------------------------------------------------------
(* Switches *)

\* is_circuit_breaker_active: a breaker older than its duration is off.
IsCircuitBreakerActive == breaker.active /\ breaker.age <= BreakerDuration

\* The lazy reset is_circuit_breaker_active performs on an expired breaker.
BreakerAfterCheck == IF IsCircuitBreakerActive THEN breaker ELSE BreakerOff

\* Mutant: a second error does not start the wait again.
TripCircuitBreakerOnce ==
  /\ breaker' = IF breaker.active THEN breaker ELSE [active |-> TRUE, age |-> 0]
  /\ UNCHANGED <<today, counterVars, killSwitch, liveArmed, stateVerified, diskVars>>

TripCircuitBreaker ==
  /\ breaker' = [active |-> TRUE, age |-> 0]
  /\ UNCHANGED <<today, counterVars, killSwitch, liveArmed, stateVerified, diskVars>>

TriggerKillSwitch ==
  /\ killSwitch' = TRUE
  /\ UNCHANGED <<today, counterVars, breaker, liveArmed, stateVerified, diskVars>>

ReleaseKillSwitch ==
  /\ killSwitch' = FALSE
  /\ UNCHANGED <<today, counterVars, breaker, liveArmed, stateVerified, diskVars>>

ArmLive ==
  /\ liveArmed' = TRUE
  /\ UNCHANGED <<today, counterVars, breaker, killSwitch, stateVerified, diskVars>>

DisarmLive ==
  /\ liveArmed' = FALSE
  /\ UNCHANGED <<today, counterVars, breaker, killSwitch, stateVerified, diskVars>>

-----------------------------------------------------------------------------
(* The gate *)

\* The limits of pre_trade_check.  The daily counters are compared as they
\* are, whatever their date.
LossLimitPassed == dailyLoss.lamports > DailyLossLimit  \* Mutant: off by one.
LossLimitReached == dailyLoss.lamports >= DailyLossLimit
TradeCapPassed == dailyTrades.count > MaxDailyTrades  \* Mutant: off by one.
TradeCapReached == dailyTrades.count >= MaxDailyTrades
ExposureFull(size) == openExposure >= MaxTotalExposure  \* Mutant: without the new position.
ExposureExceeded(size) == openExposure + size > MaxTotalExposure

\* pre_trade_check: the first limit that fails gives the reason.
PreTradeVerdict(size, slippageBps) ==
  IF ~IsStateVerified THEN "UnverifiableRestartState"
  ELSE IF killSwitch THEN "KillSwitchActive"
  ELSE IF IsCircuitBreakerActive THEN "CircuitBreakerOpen"
  ELSE IF size > MaxTradeSize THEN "MaxSpendExceeded"
  ELSE IF slippageBps > MaxSlippageBps THEN "SlippageExceeded"
  ELSE IF LossLimitReached THEN "DailyLossLimit"
  ELSE IF TradeCapReached THEN "DailyTradeCap"
  ELSE IF openPositions >= MaxOpenPositions THEN "OpenPositionCapExceeded"
  ELSE IF ExposureExceeded(size) THEN "ExposureCapExceeded"
  ELSE "Ok"

\* The only effect of asking is the breaker's lazy reset.
PreTradeCheck ==
  /\ breaker' = IF IsStateVerified /\ ~killSwitch THEN BreakerAfterCheck ELSE breaker
  /\ UNCHANGED <<today, counterVars, killSwitch, liveArmed, stateVerified, diskVars>>

-----------------------------------------------------------------------------
(* Environment *)

\* The calendar moves on.
NextDay ==
  /\ today < LastDay
  /\ today' = today + 1
  /\ UNCHANGED <<counterVars, switchVars, diskVars>>

\* The monotonic clock moves on; it matters only while the breaker is set.
BreakerTick ==
  /\ breaker.active
  /\ breaker.age <= BreakerDuration
  /\ breaker' = [breaker EXCEPT !.age = @ + 1]
  /\ UNCHANGED <<today, counterVars, killSwitch, liveArmed, stateVerified, diskVars>>

\* The state files a process can find at its first start: none, or one it
\* cannot parse.
RiskInit ==
  /\ today = 1
  /\ riskFile \in [status : {"absent", "corrupt"}, state : {NoState}]
  /\ dailyLoss = [date |-> NoDate, lamports |-> 0]
  /\ dailyTrades = [date |-> NoDate, count |-> 0]
  /\ breaker = BreakerOff
  /\ killSwitch = FALSE
  /\ liveArmed = FALSE
  /\ openPositions = 0
  /\ openExposure = 0
  /\ stateVerified = (riskFile.status # "corrupt")
  /\ persistFailed = FALSE

=============================================================================
