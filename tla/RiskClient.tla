------------------------------ MODULE RiskClient ------------------------------
(***************************************************************************)
(* The risk manager together with the sequential caller the trading loop   *)
(* of solana-sniper/src/main.rs is: it arms a verified state, asks before  *)
(* every entry, books a filled entry as a trade and then as a position, a  *)
(* failed entry as a loss, and a closed position as a close.  The process  *)
(* may die between any two operations and start again from the file.       *)
(***************************************************************************)
EXTENDS RiskManager, FiniteSetsExt

CONSTANTS
  Sizes,          \* position sizes a caller asks for
  Slippages,      \* slippage tolerances a caller asks for
  ErrorKinds,     \* infrastructure errors that trip the breaker
  KillReasons,    \* reasons the kill switch is triggered for by hand
  Losses,         \* losses a closed or failed trade books
  MaxLossPerDay,  \* bound of the model: losses booked on one day
  MaxFailedWrites \* bound of the model: writes of risk_state.json that fail

ASSUME ClientAssumption ==
  /\ Sizes \subseteq Nat /\ IsFiniteSet(Sizes)  \* u64 values
  /\ Slippages \subseteq Nat
  /\ Losses \subseteq Nat
  /\ MaxLossPerDay \in Nat
  /\ MaxFailedWrites \in Nat

VARIABLES
  entry,      \* progress of the entry the caller is working on
  entrySize,  \* its size
  failures,   \* writes that failed so far
  \* History.
  held,       \* how many positions of each size are open
  booked,     \* trades recorded on each day, by all processes
  lossOn,     \* losses recorded on each day, by all processes
  unsaved,    \* the last write of risk_state.json failed
  forgets,    \* restarts that lost an unsaved change
  misdated,   \* a restart read a loss that was not of the file's date
  quiet       \* ticks without an infrastructure error in this process

callerVars  == <<entry, entrySize, failures>>
historyVars == <<held, booked, lossOn, unsaved, forgets, misdated, quiet>>
vars        == <<riskVars, callerVars, historyVars>>

\* The outcome of one write_atomic.
Write(written) ==
  /\ failures' = IF written THEN failures ELSE failures + 1
  /\ failures' <= MaxFailedWrites
  /\ unsaved' = ~written

ClientTypeOK ==
  /\ RiskTypeOK
  /\ entry \in {"none", "granted", "traded"}
  /\ entrySize \in Nat /\ (entry # "none" => entrySize \in Sizes)
  /\ failures \in 0..MaxFailedWrites
  /\ held \in [Sizes -> Nat]
  /\ booked \in [Days -> Nat]
  /\ lossOn \in [Days -> Nat]
  /\ unsaved \in BOOLEAN
  /\ forgets \in Nat
  /\ misdated \in BOOLEAN
  /\ quiet \in 0..BreakerDuration + 1

Init ==
  /\ RiskInit
  /\ entry = "none"
  /\ entrySize = 0
  /\ failures = 0
  /\ held = [z \in Sizes |-> 0]
  /\ booked = [d \in Days |-> 0]
  /\ lossOn = [d \in Days |-> 0]
  /\ unsaved = FALSE
  /\ forgets = 0
  /\ misdated = FALSE
  /\ quiet = BreakerDuration + 1

-----------------------------------------------------------------------------
(* The caller *)

Idle == liveArmed /\ entry = "none"

\* main arms the loop only when the state is verified.
Arm ==
  /\ ~liveArmed /\ IsStateVerified
  /\ ArmLive
  /\ UNCHANGED <<callerVars, historyVars>>

Disarm ==
  /\ Idle
  /\ DisarmLive
  /\ UNCHANGED <<callerVars, historyVars>>

AskToEnter(size, slippageBps) ==
  /\ Idle
  /\ PreTradeCheck
  /\ LET granted == PreTradeVerdict(size, slippageBps) = "Ok"
     IN  /\ entry' = IF granted THEN "granted" ELSE "none"
         /\ entrySize' = IF granted THEN size ELSE 0
  /\ UNCHANGED <<failures, historyVars>>

\* The granted entry was not sent after all.
AbandonEntry ==
  /\ entry = "granted"
  /\ entry' = "none" /\ entrySize' = 0
  /\ UNCHANGED <<riskVars, failures, historyVars>>

BookTrade(written) ==
  /\ entry = "granted"
  /\ RecordTrade(written)
  /\ entry' = "traded"
  /\ booked' = [booked EXCEPT ![today] = @ + 1]
  /\ Write(written)
  /\ UNCHANGED <<entrySize, held, lossOn, forgets, misdated, quiet>>

BookPosition(written) ==
  /\ entry = "traded"
  /\ RecordPositionOpen(entrySize, written)
  /\ entry' = "none" /\ entrySize' = 0
  /\ held' = [held EXCEPT ![entrySize] = @ + 1]
  /\ Write(written)
  /\ UNCHANGED <<booked, lossOn, forgets, misdated, quiet>>

\* A failed entry or a losing exit.
BookLoss(lamports, written) ==
  /\ liveArmed /\ entry \in {"none", "granted"}
  /\ lossOn[today] + lamports <= MaxLossPerDay
  /\ RecordLoss(lamports, written)
  /\ entry' = "none" /\ entrySize' = 0
  /\ lossOn' = [lossOn EXCEPT ![today] = @ + lamports]
  /\ Write(written)
  /\ UNCHANGED <<held, booked, forgets, misdated, quiet>>

ClosePosition(size, written) ==
  /\ Idle
  /\ held[size] > 0
  /\ RecordPositionClose(size, written)
  /\ held' = [held EXCEPT ![size] = @ - 1]
  /\ Write(written)
  /\ UNCHANGED <<entry, entrySize, booked, lossOn, forgets, misdated, quiet>>

InfrastructureError(kind) ==
  /\ liveArmed /\ entry \in {"none", "granted"}
  /\ TripCircuitBreaker
  /\ entry' = "none" /\ entrySize' = 0
  /\ quiet' = 0
  /\ UNCHANGED <<failures, held, booked, lossOn, unsaved, forgets, misdated>>

ManualKill(reason) ==
  /\ Idle /\ ~killSwitch
  /\ TriggerKillSwitch
  /\ UNCHANGED <<callerVars, historyVars>>

ManualRelease ==
  /\ Idle /\ killSwitch
  /\ ReleaseKillSwitch
  /\ UNCHANGED <<callerVars, historyVars>>

-----------------------------------------------------------------------------
(* The host *)

Midnight == NextDay /\ UNCHANGED <<callerVars, historyVars>>

Tick ==
  /\ BreakerTick \/ (~breaker.active /\ UNCHANGED riskVars)
  /\ quiet <= BreakerDuration
  /\ quiet' = quiet + 1
  /\ UNCHANGED <<callerVars, held, booked, lossOn, unsaved, forgets, misdated>>

\* The process dies, wherever it is, and a new one reads the file.
Restart ==
  /\ NewRiskManager
  /\ entry' = "none" /\ entrySize' = 0
  /\ forgets' = IF unsaved THEN forgets + 1 ELSE forgets
  /\ unsaved' = FALSE
  /\ misdated' = (misdated \/ (dailyLoss.lamports # 0 /\ dailyLoss.date # dailyTrades.date))
  /\ quiet' = BreakerDuration + 1
  /\ UNCHANGED <<failures, held, booked, lossOn>>

Next ==
  \/ Arm \/ Disarm
  \/ \E size \in Sizes, bps \in Slippages : AskToEnter(size, bps)
  \/ AbandonEntry
  \/ \E written \in BOOLEAN :
       \/ BookTrade(written) \/ BookPosition(written)
       \/ \E lamports \in Losses : BookLoss(lamports, written)
       \/ \E size \in Sizes : ClosePosition(size, written)
  \/ \E kind \in ErrorKinds : InfrastructureError(kind)
  \/ \E reason \in KillReasons : ManualKill(reason)
  \/ ManualRelease
  \/ Midnight \/ Tick \/ Restart

Spec == Init /\ [][Next]_vars

-----------------------------------------------------------------------------
(* Properties *)

\* Over every process of a day together, the trades booked stay within the
\* daily cap; a restart that lost an unsaved counter can add at most one
\* (persist_failed refuses entries after it).  risk.rs pre_trade_check,
\* record_trade, persist_state.
DailyCapHolds == \A d \in Days : booked[d] <= MaxDailyTrades + forgets

\* The counters and the file never show more open positions or exposure than
\* the caps, whatever was granted, closed, lost or reloaded in between.
ExposureWithinCap ==
  /\ openPositions <= MaxOpenPositions
  /\ openExposure <= MaxTotalExposure
  /\ riskFile.state.positions <= MaxOpenPositions
  /\ riskFile.state.exposure <= MaxTotalExposure

\* As long as no restart lost a change, the counters are those of the
\* positions really open (whichever process opened or closed them).
CountersMatchPositions ==
  forgets = 0 =>
    /\ openPositions = MapThenSumSet(LAMBDA z : held[z], Sizes)
    /\ openExposure = MapThenSumSet(LAMBDA z : z * held[z], Sizes)

\* An entry is never granted when the losses booked that day by all processes
\* reached the limit, as long as the restarts kept the loss and its date.
NoEntryPastLossLimit ==
  (entry = "granted" /\ forgets = 0 /\ ~misdated) => lossOn[today] < DailyLossLimit

\* The loss counter of the day is the sum of what was booked that day, as long
\* as no restart read a loss under another date (the file
\* keeps one date for both counters, that of the trades).
DailyLossExact ==
  (forgets = 0 /\ ~misdated) => CurrentDailyLoss = lossOn[today]

\* No entry is granted while an infrastructure error of this process is
\* younger than the breaker's duration; a new error starts the wait again.
NoEntryDuringCoolDown ==
  [][entry # "granted" /\ entry' = "granted" => quiet > BreakerDuration]_vars

\* A claim of the code's documentation that the code does not keep.

\* risk.rs:244: the trade counter is "Per-day": the daily cap rejects only
\* when today's trades reached it.
CapCountsTodayOnly ==
  \A size \in Sizes, bps \in Slippages :
    PreTradeVerdict(size, bps) = "DailyTradeCap" => CurrentDailyTrades >= MaxDailyTrades

=============================================================================
