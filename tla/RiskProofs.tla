------------------------------ MODULE RiskProofs ------------------------------
(***************************************************************************)
(* Theorems about risk: the risk manager and its caller, for every value of*)
(* the limits and every length of calendar; and the PumpSwap dry run with  *)
(* its token gates, for any pools, holders, mints and fees.  The two share *)
(* no state, but both add up sums over finite sets.                        *)
(***************************************************************************)
EXTENDS RiskClient, PumpSwap, FiniteSetTheorems, WellFoundedInduction, TLAPS

-----------------------------------------------------------------------------
(* Types *)

\* A loaded state is well formed, whatever the file was.
LEMMA LoadedStateType == ASSUME RiskTypeOK PROVE LoadedState \in RiskState
  BY DEF LoadedState, RiskTypeOK, NoState, RiskState, Dates

\* What persist_state leaves on disk is well formed if the counters are.
LEMMA PersistStateType ==
  ASSUME NEW written \in BOOLEAN,
         riskFile \in [status : {"absent", "corrupt", "valid"}, state : RiskState],
         persistFailed \in BOOLEAN,
         dailyTrades' \in [date : Dates, count : Nat],
         dailyLoss' \in [date : Dates, lamports : Nat],
         openPositions' \in Nat, openExposure' \in Nat,
         PersistState(written)
  PROVE  /\ riskFile' \in [status : {"absent", "corrupt", "valid"}, state : RiskState]
         /\ persistFailed' \in BOOLEAN
  BY DEF PersistState, RiskState

\* Every operation keeps the types of the risk manager's state.
LEMMA CurrentType ==
  ASSUME RiskTypeOK PROVE CurrentDailyTrades \in Nat /\ CurrentDailyLoss \in Nat
  BY DEF RiskTypeOK, CurrentDailyTrades, CurrentDailyLoss

LEMMA RecordTradeType ==
  ASSUME RiskTypeOK, NEW written \in BOOLEAN, RecordTrade(written) PROVE RiskTypeOK'
<1>1. CurrentDailyTrades \in Nat
  BY CurrentType
<1>2. dailyTrades' \in [date : Dates, count : Nat]
  BY <1>1 DEF RecordTrade, RiskTypeOK, Dates
<1>3. /\ riskFile' \in [status : {"absent", "corrupt", "valid"}, state : RiskState]
      /\ persistFailed' \in BOOLEAN
  BY <1>2, PersistStateType DEF RecordTrade, RiskTypeOK
<1> QED
  BY <1>2, <1>3 DEF RecordTrade, RiskTypeOK

LEMMA RecordLossType ==
  ASSUME RiskTypeOK, NEW lamports \in Nat, NEW written \in BOOLEAN, RecordLoss(lamports, written)
  PROVE  RiskTypeOK'
<1>1. CurrentDailyLoss \in Nat
  BY CurrentType
<1>2. dailyLoss' \in [date : Dates, lamports : Nat]
  BY <1>1 DEF RecordLoss, RiskTypeOK, Dates
<1>3. /\ riskFile' \in [status : {"absent", "corrupt", "valid"}, state : RiskState]
      /\ persistFailed' \in BOOLEAN
  BY <1>2, PersistStateType DEF RecordLoss, RiskTypeOK
<1> QED
  BY <1>2, <1>3 DEF RecordLoss, RiskTypeOK

LEMMA RecordPositionType ==
  ASSUME RiskTypeOK, NEW lamports \in Nat, NEW written \in BOOLEAN,
         RecordPositionOpen(lamports, written) \/ RecordPositionClose(lamports, written)
  PROVE  RiskTypeOK'
<1>1. openPositions' \in Nat /\ openExposure' \in Nat
  BY DEF RecordPositionOpen, RecordPositionClose, SaturatingSub, RiskTypeOK
<1>2. PersistState(written) /\ UNCHANGED <<today, dailyLoss, dailyTrades, switchVars>>
  BY DEF RecordPositionOpen, RecordPositionClose
<1>3. /\ riskFile' \in [status : {"absent", "corrupt", "valid"}, state : RiskState]
      /\ persistFailed' \in BOOLEAN
  BY <1>1, <1>2, PersistStateType DEF RiskTypeOK
<1> QED
  BY <1>1, <1>2, <1>3 DEF RiskTypeOK, switchVars

LEMMA NewRiskManagerType ==
  ASSUME RiskTypeOK, NewRiskManager PROVE RiskTypeOK'
<1>1. LoadedState \in RiskState
  BY LoadedStateType
<1>2. /\ dailyLoss' \in [date : Dates, lamports : Nat]
      /\ dailyTrades' \in [date : Dates, count : Nat]
      /\ openPositions' \in Nat /\ openExposure' \in Nat
  BY <1>1 DEF NewRiskManager, RiskState
<1>3. breaker' \in [active : BOOLEAN, age : 0..BreakerDuration + 1]
  BY ConfigAssumption DEF NewRiskManager, BreakerOff, ConfigAssumption
<1>4. stateVerified' \in BOOLEAN /\ killSwitch' \in BOOLEAN
      /\ liveArmed' \in BOOLEAN /\ persistFailed' \in BOOLEAN
  BY DEF NewRiskManager
<1> QED
  BY <1>2, <1>3, <1>4 DEF NewRiskManager, RiskTypeOK

LEMMA SwitchType ==
  ASSUME RiskTypeOK,
         \/ PreTradeCheck \/ TripCircuitBreaker \/ BreakerTick
         \/ TriggerKillSwitch \/ ReleaseKillSwitch \/ ArmLive \/ DisarmLive \/ NextDay
  PROVE  RiskTypeOK'
<1>a. ASSUME ReleaseKillSwitch PROVE killSwitch' \in BOOLEAN
  BY <1>a, Zenon DEF ReleaseKillSwitch
<1>b. ASSUME DisarmLive PROVE liveArmed' \in BOOLEAN
  BY <1>b, Zenon DEF DisarmLive
<1> USE ConfigAssumption DEF ConfigAssumption, RiskTypeOK, counterVars, diskVars
<1>1. CASE PreTradeCheck
  BY <1>1 DEF PreTradeCheck, BreakerAfterCheck, BreakerOff
<1>2. CASE TripCircuitBreaker
  BY <1>2 DEF TripCircuitBreaker
<1>3. CASE BreakerTick
  BY <1>3 DEF BreakerTick
<1>4. CASE TriggerKillSwitch
  BY <1>4 DEF TriggerKillSwitch
<1>5. CASE ReleaseKillSwitch
  <2>1. killSwitch' \in BOOLEAN
    BY <1>5, <1>a
  <2>2. UNCHANGED <<today, dailyLoss, dailyTrades, openPositions, openExposure, breaker,
                    liveArmed, stateVerified, riskFile, persistFailed>>
    BY <1>5 DEF ReleaseKillSwitch
  <2> QED
    BY <2>1, <2>2
<1>6. CASE ArmLive
  BY <1>6 DEF ArmLive
<1>7. CASE DisarmLive
  <2>1. liveArmed' \in BOOLEAN
    BY <1>7, <1>b
  <2>2. UNCHANGED <<today, dailyLoss, dailyTrades, openPositions, openExposure, breaker,
                    killSwitch, stateVerified, riskFile, persistFailed>>
    BY <1>7 DEF DisarmLive
  <2> QED
    BY <2>1, <2>2
<1>8. CASE NextDay
  <2>1. today' \in Days
    BY <1>8 DEF NextDay, Days
  <2> QED
    BY <1>8, <2>1 DEF NextDay, switchVars
<1> QED
  BY <1>1, <1>2, <1>3, <1>4, <1>5, <1>6, <1>7, <1>8

-----------------------------------------------------------------------------
(* The caller's types *)

LEMMA InitType == Init => ClientTypeOK
<1> SUFFICES ASSUME Init PROVE ClientTypeOK
  OBVIOUS
<1>1. NoState \in RiskState
  BY DEF NoState, RiskState, Dates
<1>2. riskFile \in [status : {"absent", "corrupt", "valid"}, state : RiskState]
  BY <1>1 DEF Init, RiskInit
<1>3. today \in Days
  BY ConfigAssumption DEF Init, RiskInit, Days, ConfigAssumption
<1>4. breaker \in [active : BOOLEAN, age : 0..BreakerDuration + 1]
  BY ConfigAssumption DEF Init, RiskInit, BreakerOff, ConfigAssumption
<1>5. /\ dailyLoss \in [date : Dates, lamports : Nat]
      /\ dailyTrades \in [date : Dates, count : Nat]
  BY DEF Init, RiskInit, Dates
<1>6. /\ killSwitch \in BOOLEAN /\ liveArmed \in BOOLEAN
      /\ stateVerified \in BOOLEAN /\ persistFailed \in BOOLEAN
  BY DEF Init, RiskInit
<1>7. RiskTypeOK
  BY <1>2, <1>3, <1>4, <1>5, <1>6 DEF Init, RiskInit, RiskTypeOK
<1>8. held \in [Sizes -> Nat] /\ booked \in [Days -> Nat] /\ lossOn \in [Days -> Nat]
  BY DEF Init
<1>9. unsaved \in BOOLEAN /\ misdated \in BOOLEAN
  BY DEF Init
<1> QED
  BY <1>7, <1>8, <1>9, ConfigAssumption, ClientAssumption
  DEF Init, ClientTypeOK, ConfigAssumption, ClientAssumption

\* What Write leaves of the caller's bookkeeping.
LEMMA WriteType ==
  ASSUME NEW written \in BOOLEAN, failures \in 0..MaxFailedWrites, Write(written)
  PROVE  failures' \in 0..MaxFailedWrites /\ unsaved' \in BOOLEAN
  BY ClientAssumption DEF Write, ClientAssumption

\* A history counter that is increased stays a counter.
LEMMA Bumped ==
  ASSUME NEW S, NEW f \in [S -> Nat], NEW x, NEW n \in Nat
  PROVE  [f EXCEPT ![x] = @ + n] \in [S -> Nat]
<1>1. CASE x \in S
  BY <1>1
<1>2. CASE x \notin S
  BY <1>2
<1> QED
  BY <1>1, <1>2

LEMMA NextType == ClientTypeOK /\ [Next]_vars => ClientTypeOK'
<1> SUFFICES ASSUME ClientTypeOK, [Next]_vars PROVE ClientTypeOK'
  OBVIOUS
<1>a. ASSUME Restart PROVE unsaved' \in BOOLEAN
  BY <1>a, Zenon DEF Restart
<1> USE ConfigAssumption, ClientAssumption DEF ConfigAssumption, ClientAssumption
<1>0. RiskTypeOK
  BY DEF ClientTypeOK
<1>1. CASE Arm \/ Disarm
  <2>1. ArmLive \/ DisarmLive
    BY <1>1 DEF Arm, Disarm
  <2>2. RiskTypeOK'
    BY <1>0, <2>1, SwitchType
  <2> QED
    BY <1>1, <2>2 DEF Arm, Disarm, ClientTypeOK, callerVars, historyVars
<1>2. ASSUME NEW size \in Sizes, NEW bps \in Slippages, AskToEnter(size, bps)
      PROVE  ClientTypeOK'
  <2>1. RiskTypeOK'
    BY <1>0, <1>2, SwitchType DEF AskToEnter
  <2> QED
    BY <1>2, <2>1 DEF AskToEnter, ClientTypeOK, historyVars
<1>3. CASE AbandonEntry
  <2>1. RiskTypeOK'
    BY <1>0, <1>3 DEF AbandonEntry, riskVars, counterVars, switchVars, diskVars, RiskTypeOK
  <2> QED
    BY <1>3, <2>1 DEF AbandonEntry, ClientTypeOK, historyVars
<1>4. ASSUME NEW written \in BOOLEAN, BookTrade(written) PROVE ClientTypeOK'
  <2>1. RiskTypeOK'
    BY <1>0, <1>4, RecordTradeType DEF BookTrade
  <2>2. failures' \in 0..MaxFailedWrites /\ unsaved' \in BOOLEAN
    BY <1>4, WriteType DEF BookTrade, ClientTypeOK
  <2>3. booked' \in [Days -> Nat]
    <3>1. booked' = [booked EXCEPT ![today] = @ + 1]
      BY <1>4 DEF BookTrade
    <3>2. booked \in [Days -> Nat] /\ 1 \in Nat
      BY DEF ClientTypeOK
    <3> QED
      BY <3>1, <3>2, Bumped
  <2> QED
    BY <1>4, <2>1, <2>2, <2>3 DEF BookTrade, ClientTypeOK
<1>5. ASSUME NEW written \in BOOLEAN, BookPosition(written) PROVE ClientTypeOK'
  <2>1. entrySize \in Nat
    BY DEF ClientTypeOK
  <2>2. RiskTypeOK'
    BY <1>0, <1>5, <2>1, RecordPositionType DEF BookPosition
  <2>3. failures' \in 0..MaxFailedWrites /\ unsaved' \in BOOLEAN
    BY <1>5, WriteType DEF BookPosition, ClientTypeOK
  <2>4. held' \in [Sizes -> Nat]
    <3>1. held' = [held EXCEPT ![entrySize] = @ + 1]
      BY <1>5 DEF BookPosition
    <3>2. held \in [Sizes -> Nat] /\ entrySize \in Sizes
      BY <1>5 DEF BookPosition, ClientTypeOK
    <3> QED
      BY <3>1, <3>2
  <2> QED
    BY <1>5, <2>2, <2>3, <2>4 DEF BookPosition, ClientTypeOK
<1>6. ASSUME NEW written \in BOOLEAN, NEW lamports \in Losses, BookLoss(lamports, written)
      PROVE  ClientTypeOK'
  <2>1. RiskTypeOK'
    BY <1>0, <1>6, RecordLossType DEF BookLoss
  <2>2. failures' \in 0..MaxFailedWrites /\ unsaved' \in BOOLEAN
    BY <1>6, WriteType DEF BookLoss, ClientTypeOK
  <2>3. lossOn' \in [Days -> Nat]
    <3>1. lossOn' = [lossOn EXCEPT ![today] = @ + lamports]
      BY <1>6 DEF BookLoss
    <3>2. lossOn \in [Days -> Nat] /\ lamports \in Nat
      BY DEF ClientTypeOK
    <3> QED
      BY ONLY <3>1, <3>2, Bumped
  <2> QED
    BY <1>6, <2>1, <2>2, <2>3 DEF BookLoss, ClientTypeOK
<1>7. ASSUME NEW written \in BOOLEAN, NEW size \in Sizes, ClosePosition(size, written)
      PROVE  ClientTypeOK'
  <2>1. RiskTypeOK'
    BY <1>0, <1>7, RecordPositionType DEF ClosePosition
  <2>2. failures' \in 0..MaxFailedWrites /\ unsaved' \in BOOLEAN
    BY <1>7, WriteType DEF ClosePosition, ClientTypeOK
  <2>3. held' \in [Sizes -> Nat]
    BY <1>7 DEF ClosePosition, ClientTypeOK
  <2> QED
    BY <1>7, <2>1, <2>2, <2>3 DEF ClosePosition, ClientTypeOK
<1>8. ASSUME NEW kind \in ErrorKinds, InfrastructureError(kind) PROVE ClientTypeOK'
  <2>1. RiskTypeOK'
    BY <1>0, <1>8, SwitchType DEF InfrastructureError
  <2> QED
    BY <1>8, <2>1 DEF InfrastructureError, ClientTypeOK
<1>9. ASSUME NEW reason \in KillReasons, ManualKill(reason) PROVE ClientTypeOK'
  <2>1. RiskTypeOK'
    BY <1>0, <1>9, SwitchType DEF ManualKill
  <2> QED
    BY <1>9, <2>1 DEF ManualKill, ClientTypeOK, callerVars, historyVars
<1>10. CASE ManualRelease
  <2>1. RiskTypeOK'
    BY <1>0, <1>10, SwitchType DEF ManualRelease
  <2> QED
    BY <1>10, <2>1 DEF ManualRelease, ClientTypeOK, callerVars, historyVars
<1>11. CASE Midnight
  <2>1. RiskTypeOK'
    BY <1>0, <1>11, SwitchType DEF Midnight
  <2> QED
    BY <1>11, <2>1 DEF Midnight, ClientTypeOK, callerVars, historyVars
<1>12. CASE Tick
  <2>1. RiskTypeOK'
    <3>1. CASE BreakerTick
      BY <1>0, <3>1, SwitchType
    <3>2. CASE UNCHANGED riskVars
      BY <1>0, <3>2 DEF riskVars, counterVars, switchVars, diskVars, RiskTypeOK
    <3> QED
      BY <1>12, <3>1, <3>2 DEF Tick
  <2>2. quiet' \in 0..BreakerDuration + 1
    BY <1>12 DEF Tick, ClientTypeOK
  <2> QED
    BY <1>12, <2>1, <2>2 DEF Tick, ClientTypeOK, callerVars
<1>13. CASE Restart
  <2>1. RiskTypeOK'
    BY <1>0, <1>13, NewRiskManagerType DEF Restart
  <2>2. misdated' \in BOOLEAN
    BY <1>13 DEF Restart
  <2>3. unsaved' \in BOOLEAN
    BY <1>13, <1>a
  <2>4. forgets' \in Nat
    BY <1>13 DEF Restart, ClientTypeOK
  <2>5. /\ entry' = "none" /\ entrySize' = 0 /\ quiet' = BreakerDuration + 1
        /\ UNCHANGED <<failures, held, booked, lossOn>>
    BY <1>13 DEF Restart
  <2> QED
    BY <2>1, <2>2, <2>3, <2>4, <2>5 DEF ClientTypeOK
<1>14. CASE UNCHANGED vars
  <2>1. RiskTypeOK'
    BY <1>0, <1>14 DEF vars, riskVars, counterVars, switchVars, diskVars, RiskTypeOK
  <2> QED
    BY <1>14, <2>1 DEF vars, callerVars, historyVars, ClientTypeOK
<1> QED
  BY <1>1, <1>2, <1>3, <1>4, <1>5, <1>6, <1>7, <1>8, <1>9, <1>10, <1>11, <1>12, <1>13, <1>14
  DEF Next

\* Type correctness of the risk manager and its caller.
THEOREM ClientTypes == Spec => []ClientTypeOK
  BY InitType, NextType, PTL DEF Spec

-----------------------------------------------------------------------------
(* The caps on open positions and exposure *)

\* ExposureWithinCap is not inductive: between the check and the booking the
\* caller holds a grant, which must still fit when it is booked.
ExposureInv ==
  /\ ExposureWithinCap
  /\ entry # "none" =>
       /\ openPositions + 1 <= MaxOpenPositions
       /\ openExposure + entrySize <= MaxTotalExposure

\* What persist_state writes stays below a bound the counters are below of.
LEMMA PersistStateCap ==
  ASSUME NEW written \in BOOLEAN, PersistState(written),
         riskFile.state.positions <= MaxOpenPositions,
         riskFile.state.exposure <= MaxTotalExposure,
         openPositions' <= MaxOpenPositions,
         openExposure' <= MaxTotalExposure
  PROVE  /\ riskFile'.state.positions <= MaxOpenPositions
         /\ riskFile'.state.exposure <= MaxTotalExposure
  BY DEF PersistState

LEMMA InitExposure == Init => ExposureInv
  BY ConfigAssumption
  DEF Init, RiskInit, NoState, ExposureInv, ExposureWithinCap, ConfigAssumption

LEMMA NextExposure == ClientTypeOK /\ ExposureInv /\ [Next]_vars => ExposureInv'
<1> SUFFICES ASSUME ClientTypeOK, ExposureInv, [Next]_vars PROVE ExposureInv'
  OBVIOUS
<1> USE ConfigAssumption, ClientAssumption DEF ConfigAssumption, ClientAssumption
<1>0. /\ openPositions \in Nat /\ openExposure \in Nat /\ entrySize \in Nat
      /\ riskFile.state.positions \in Nat /\ riskFile.state.exposure \in Nat
  BY DEF ClientTypeOK, RiskTypeOK, RiskState
<1>1. ASSUME NEW size \in Sizes, NEW bps \in Slippages, AskToEnter(size, bps)
      PROVE  ExposureInv'
  <2>1. UNCHANGED <<openPositions, openExposure, riskFile>>
    BY <1>1 DEF AskToEnter, PreTradeCheck, counterVars, diskVars
  <2>2. CASE PreTradeVerdict(size, bps) = "Ok"
    <3>1. entrySize' = size /\ size \in Nat
      BY <1>1, <2>2 DEF AskToEnter
    <3>2. ~(openPositions >= MaxOpenPositions) /\ ~(openExposure + size > MaxTotalExposure)
      BY <2>2 DEF PreTradeVerdict, ExposureExceeded
    <3> QED
      BY <1>0, <2>1, <3>1, <3>2 DEF ExposureInv, ExposureWithinCap
  <2>3. CASE PreTradeVerdict(size, bps) # "Ok"
    <3>1. entry' = "none"
      BY <1>1, <2>3 DEF AskToEnter
    <3> QED
      BY <2>1, <3>1 DEF ExposureInv, ExposureWithinCap
  <2> QED
    BY <2>2, <2>3
<1>2. ASSUME NEW written \in BOOLEAN, BookTrade(written) PROVE ExposureInv'
  <2>1. /\ PersistState(written)
        /\ UNCHANGED <<openPositions, openExposure, entrySize>>
        /\ entry = "granted"
    BY <1>2 DEF BookTrade, RecordTrade
  <2>2. ExposureWithinCap'
    BY <2>1, PersistStateCap DEF ExposureInv, ExposureWithinCap
  <2> QED
    BY <2>1, <2>2 DEF ExposureInv
<1>3. ASSUME NEW written \in BOOLEAN, BookPosition(written) PROVE ExposureInv'
  <2>1. /\ PersistState(written)
        /\ openPositions' = openPositions + 1
        /\ openExposure' = openExposure + entrySize
        /\ entry = "traded" /\ entry' = "none"
    BY <1>3 DEF BookPosition, RecordPositionOpen
  <2>2. openPositions' <= MaxOpenPositions /\ openExposure' <= MaxTotalExposure
    BY <2>1 DEF ExposureInv
  <2>3. ExposureWithinCap'
    BY <2>1, <2>2, PersistStateCap DEF ExposureInv, ExposureWithinCap
  <2> QED
    BY <2>1, <2>3 DEF ExposureInv
<1>4. ASSUME NEW written \in BOOLEAN, NEW lamports \in Losses, BookLoss(lamports, written)
      PROVE  ExposureInv'
  <2>1. /\ PersistState(written)
        /\ UNCHANGED <<openPositions, openExposure>>
        /\ entry' = "none"
    BY <1>4 DEF BookLoss, RecordLoss
  <2>2. ExposureWithinCap'
    BY <2>1, PersistStateCap DEF ExposureInv, ExposureWithinCap
  <2> QED
    BY <2>1, <2>2 DEF ExposureInv
<1>5. ASSUME NEW written \in BOOLEAN, NEW size \in Sizes, ClosePosition(size, written)
      PROVE  ExposureInv'
  <2>1. /\ PersistState(written)
        /\ openPositions' = SaturatingSub(openPositions, 1)
        /\ openExposure' = SaturatingSub(openExposure, size)
        /\ entry = "none" /\ entry' = "none"
    BY <1>5 DEF ClosePosition, RecordPositionClose, Idle
  <2>2. openPositions' <= MaxOpenPositions /\ openExposure' <= MaxTotalExposure
    <3>1. size \in Nat
      OBVIOUS
    <3>2. SaturatingSub(openPositions, 1) <= openPositions
      BY <1>0 DEF SaturatingSub
    <3>3. SaturatingSub(openExposure, size) <= openExposure
      BY <1>0, <3>1 DEF SaturatingSub
    <3> QED
      BY <1>0, <2>1, <3>2, <3>3 DEF ExposureInv, ExposureWithinCap, SaturatingSub
  <2>3. ExposureWithinCap'
    BY <2>1, <2>2, PersistStateCap DEF ExposureInv, ExposureWithinCap
  <2> QED
    BY <2>1, <2>3 DEF ExposureInv
<1>6. CASE Restart
  <2>1. /\ UNCHANGED riskFile /\ entry' = "none"
        /\ openPositions' = LoadedState.positions
        /\ openExposure' = LoadedState.exposure
    BY <1>6 DEF Restart, NewRiskManager
  <2>2. openPositions' <= MaxOpenPositions /\ openExposure' <= MaxTotalExposure
    BY <2>1 DEF LoadedState, NoState, ExposureInv, ExposureWithinCap
  <2> QED
    BY <2>1, <2>2 DEF ExposureInv, ExposureWithinCap
<1>7. ASSUME UNCHANGED <<openPositions, openExposure, riskFile>>,
             entry' = "none" \/ UNCHANGED <<entry, entrySize>>
      PROVE  ExposureInv'
  BY <1>7 DEF ExposureInv, ExposureWithinCap
<1>8. CASE Arm \/ Disarm
  BY <1>7, <1>8 DEF Arm, Disarm, ArmLive, DisarmLive, counterVars, diskVars, callerVars
<1>9. CASE AbandonEntry
  BY <1>7, <1>9 DEF AbandonEntry, riskVars, counterVars, diskVars
<1>10. ASSUME NEW kind \in ErrorKinds, InfrastructureError(kind) PROVE ExposureInv'
  BY <1>7, <1>10 DEF InfrastructureError, TripCircuitBreaker, counterVars, diskVars
<1>11. ASSUME NEW reason \in KillReasons, ManualKill(reason) PROVE ExposureInv'
  BY <1>7, <1>11 DEF ManualKill, TriggerKillSwitch, counterVars, diskVars, callerVars
<1>12. CASE ManualRelease
  BY <1>7, <1>12 DEF ManualRelease, ReleaseKillSwitch, counterVars, diskVars, callerVars
<1>13. CASE Midnight
  BY <1>7, <1>13 DEF Midnight, NextDay, counterVars, diskVars, callerVars
<1>14. CASE Tick
  BY <1>7, <1>14 DEF Tick, BreakerTick, riskVars, counterVars, diskVars, callerVars
<1>15. CASE UNCHANGED vars
  BY <1>7, <1>15 DEF vars, riskVars, counterVars, diskVars, callerVars
<1> QED
  BY <1>1, <1>2, <1>3, <1>4, <1>5, <1>6, <1>8, <1>9, <1>10, <1>11, <1>12, <1>13, <1>14, <1>15
  DEF Next

\* Neither the counters nor the file ever show more open positions or exposure
\* than the configured caps, over any number of restarts and failed writes.
THEOREM ExposureCap == Spec => []ExposureWithinCap
<1>1. ExposureInv => ExposureWithinCap
  BY DEF ExposureInv
<1> QED
  BY InitExposure, NextExposure, ClientTypes, <1>1, PTL DEF Spec

-----------------------------------------------------------------------------
(* The daily cap *)

\* The trades of today the file shows a process that reads it.
SavedTrades == IF LoadedState.date = today THEN LoadedState.trades ELSE 0

\* A trade the last write may have missed.
Lost == IF unsaved THEN 1 ELSE 0

\* Why the cap holds across restarts.  Nothing is booked ahead of the
\* calendar.  Memory shows today's trades but for those forgotten, and so does
\* the file but for one the last write may have missed: a write that fails
\* ends the granting of entries, and no entry is granted at the cap.
DailyInv ==
  /\ DailyCapHolds
  /\ \A d \in Days : d > today => booked[d] = 0
  /\ booked[today] <= CurrentDailyTrades + forgets
  /\ booked[today] <= SavedTrades + forgets + Lost
  /\ unsaved => persistFailed
  /\ entry = "granted" => ~persistFailed /\ dailyTrades.count < MaxDailyTrades

\* A write of the counters leaves the cap's bookkeeping in order if the entry
\* is over and nothing is booked.
LEMMA WriteKeepsDaily ==
  ASSUME ClientTypeOK, DailyInv,
         NEW written \in BOOLEAN, PersistState(written), Write(written),
         UNCHANGED <<today, dailyTrades, booked, forgets>>, entry' # "granted"
  PROVE  DailyInv'
<1>1. /\ booked \in [Days -> Nat] /\ forgets \in Nat /\ today \in Days
      /\ dailyTrades.count \in Nat /\ LoadedState.trades \in Nat
  BY LoadedStateType DEF ClientTypeOK, RiskTypeOK, RiskState
<1>2. UNCHANGED CurrentDailyTrades
  BY DEF CurrentDailyTrades
<1>3. CASE written
  <2>1. SavedTrades' = CurrentDailyTrades' /\ ~unsaved' /\ Lost' = 0
    BY <1>3 DEF PersistState, Write, SavedTrades, LoadedState, CurrentDailyTrades, Lost
  <2>2. CurrentDailyTrades \in Nat
    BY CurrentType DEF ClientTypeOK
  <2> QED
    BY <1>1, <1>2, <2>1, <2>2 DEF DailyInv, DailyCapHolds
<1>4. CASE ~written
  <2>1. UNCHANGED riskFile /\ persistFailed' /\ unsaved'
    BY <1>4 DEF PersistState, Write
  <2>2. UNCHANGED SavedTrades
    BY <2>1 DEF SavedTrades, LoadedState
  <2>3. SavedTrades \in Nat
    BY <1>1 DEF SavedTrades
  <2> QED
    BY <1>1, <1>2, <2>1, <2>2, <2>3 DEF DailyInv, DailyCapHolds, Lost
<1> QED
  BY <1>3, <1>4

LEMMA InitDaily == Init => DailyInv
<1> SUFFICES ASSUME Init PROVE DailyInv
  OBVIOUS
<1>1. today = 1 /\ 1 \in Days /\ forgets = 0 /\ booked = [d \in Days |-> 0]
  BY ConfigAssumption DEF Init, RiskInit, Days, ConfigAssumption
<1>2. CurrentDailyTrades = 0
  BY DEF Init, RiskInit, CurrentDailyTrades
<1>3. SavedTrades = 0
  BY DEF Init, RiskInit, SavedTrades, LoadedState, NoState
<1>4. ~unsaved /\ entry = "none"
  BY DEF Init
<1> QED
  BY <1>1, <1>2, <1>3, <1>4, ConfigAssumption
  DEF DailyInv, DailyCapHolds, Lost, ConfigAssumption

LEMMA ZeroIsLeast ==
  ASSUME NEW x, NEW a \in Nat, NEW b \in Nat, x = 0
  PROVE  x <= a + b
  OBVIOUS

LEMMA NextDaily == ClientTypeOK /\ DailyInv /\ [Next]_vars => DailyInv'
<1> SUFFICES ASSUME ClientTypeOK, DailyInv, [Next]_vars PROVE DailyInv'
  OBVIOUS
<1>0. /\ booked \in [Days -> Nat] /\ forgets \in Nat /\ today \in Days
      /\ dailyTrades.count \in Nat /\ LoadedState.trades \in Nat
      /\ CurrentDailyTrades \in Nat /\ SavedTrades \in Nat
  BY LoadedStateType, CurrentType DEF ClientTypeOK, RiskTypeOK, RiskState, SavedTrades
<1>1. ASSUME UNCHANGED <<today, dailyTrades, riskFile, persistFailed, booked, forgets, unsaved>>,
             entry' = "granted" => entry = "granted" \/ (~persistFailed /\ dailyTrades.count < MaxDailyTrades)
      PROVE  DailyInv'
  <2>1. UNCHANGED <<CurrentDailyTrades, SavedTrades>>
    BY <1>1 DEF CurrentDailyTrades, SavedTrades, LoadedState
  <2> QED
    BY <1>1, <2>1 DEF DailyInv, DailyCapHolds, Lost
<1>2. ASSUME NEW size \in Sizes, NEW bps \in Slippages, AskToEnter(size, bps)
      PROVE  DailyInv'
  <2>1. UNCHANGED <<today, dailyTrades, riskFile, persistFailed, booked, forgets, unsaved>>
    BY <1>2 DEF AskToEnter, PreTradeCheck, counterVars, diskVars, historyVars
  <2>2. entry' = "granted" => PreTradeVerdict(size, bps) = "Ok"
    BY <1>2 DEF AskToEnter
  <2>3. PreTradeVerdict(size, bps) = "Ok" =>
          ~persistFailed /\ ~(dailyTrades.count >= MaxDailyTrades)
    BY DEF PreTradeVerdict, IsStateVerified, TradeCapReached
  <2>4. entry' = "granted" => ~persistFailed /\ dailyTrades.count < MaxDailyTrades
    BY <1>0, <2>2, <2>3, ConfigAssumption DEF ConfigAssumption
  <2> QED
    BY <1>1, <2>1, <2>4
<1>3. ASSUME NEW written \in BOOLEAN, BookTrade(written) PROVE DailyInv'
  <2>1. /\ dailyTrades' = [date |-> today, count |-> CurrentDailyTrades + 1]
        /\ booked' = [booked EXCEPT ![today] = @ + 1]
        /\ UNCHANGED <<today, forgets>>
        /\ PersistState(written) /\ Write(written)
        /\ entry = "granted" /\ entry' = "traded"
    BY <1>3 DEF BookTrade, RecordTrade
  <2>2. /\ CurrentDailyTrades <= dailyTrades.count
        /\ dailyTrades.count < MaxDailyTrades /\ ~persistFailed /\ ~unsaved
    BY <1>0, <2>1 DEF DailyInv, CurrentDailyTrades
  <2>3. CurrentDailyTrades' = CurrentDailyTrades + 1
    BY <2>1 DEF CurrentDailyTrades
  <2>4. booked'[today] = booked[today] + 1 /\ \A d \in Days : d # today => booked'[d] = booked[d]
    BY <1>0, <2>1
  <2>5. booked[today] + 1 <= MaxDailyTrades + forgets
    BY <1>0, <2>2, ConfigAssumption DEF DailyInv, ConfigAssumption
  <2>6. DailyCapHolds'
    BY <1>0, <2>1, <2>4, <2>5 DEF DailyInv, DailyCapHolds
  <2>7. booked'[today] <= SavedTrades' + forgets + Lost'
    <3>1. CASE written
      <4>1. SavedTrades' = CurrentDailyTrades' /\ Lost' = 0
        BY <2>1, <3>1 DEF PersistState, Write, SavedTrades, LoadedState, CurrentDailyTrades, Lost
      <4> QED
        BY <1>0, <2>3, <2>4, <4>1 DEF DailyInv
    <3>2. CASE ~written
      <4>1. UNCHANGED riskFile /\ unsaved'
        BY <2>1, <3>2 DEF PersistState, Write
      <4>2. UNCHANGED SavedTrades
        BY <2>1, <4>1 DEF SavedTrades, LoadedState
      <4>3. booked[today] <= SavedTrades + forgets
        BY <1>0, <2>2 DEF DailyInv, Lost
      <4> QED
        BY <1>0, <2>4, <4>1, <4>2, <4>3 DEF Lost
    <3> QED
      BY <3>1, <3>2
  <2>8. unsaved' => persistFailed'
    BY <2>1 DEF PersistState, Write
  <2>9. \A d \in Days : d > today => booked'[d] = 0
    BY <1>0, <2>4 DEF DailyInv, Days
  <2>10. booked'[today] <= CurrentDailyTrades' + forgets
    BY <1>0, <2>3, <2>4 DEF DailyInv
  <2> QED
    BY <2>1, <2>6, <2>7, <2>8, <2>9, <2>10 DEF DailyInv
<1>4. ASSUME NEW written \in BOOLEAN, BookPosition(written) PROVE DailyInv'
  BY <1>4, WriteKeepsDaily DEF BookPosition, RecordPositionOpen
<1>5. ASSUME NEW written \in BOOLEAN, NEW lamports \in Losses, BookLoss(lamports, written)
      PROVE  DailyInv'
  BY <1>5, WriteKeepsDaily DEF BookLoss, RecordLoss
<1>6. ASSUME NEW written \in BOOLEAN, NEW size \in Sizes, ClosePosition(size, written)
      PROVE  DailyInv'
  BY <1>6, WriteKeepsDaily DEF ClosePosition, RecordPositionClose, Idle
<1>7. CASE Restart
  <2>1. /\ UNCHANGED <<today, riskFile, booked>>
        /\ dailyTrades' = [date |-> LoadedState.date, count |-> LoadedState.trades]
        /\ forgets' = forgets + Lost
        /\ entry' = "none"
    BY <1>0, <1>7 DEF Restart, NewRiskManager, Lost
  <2>2. CurrentDailyTrades' = SavedTrades /\ UNCHANGED SavedTrades
    BY <2>1 DEF CurrentDailyTrades, SavedTrades, LoadedState
  <2>3. ~unsaved' /\ Lost' = 0 /\ Lost \in Nat
    BY <1>7 DEF Restart, Lost
  <2>4. DailyCapHolds'
    <3>1. \A d \in Days : booked[d] \in Nat /\ booked[d] <= MaxDailyTrades + forgets
      BY <1>0 DEF DailyInv, DailyCapHolds
    <3> QED
      BY <1>0, <2>1, <2>3, <3>1, ConfigAssumption DEF DailyCapHolds, ConfigAssumption
  <2>5. booked[today] \in Nat /\ booked[today] <= SavedTrades + forgets'
    BY <1>0, <2>1, <2>3 DEF DailyInv
  <2>6. booked'[today'] <= CurrentDailyTrades' + forgets'
    BY <2>1, <2>2, <2>5
  <2>7. booked'[today'] <= SavedTrades' + forgets' + Lost'
    BY <1>0, <2>1, <2>2, <2>3, <2>5
  <2>8. \A d \in Days : d > today' => booked'[d] = 0
    BY <2>1 DEF DailyInv
  <2> QED
    BY <2>1, <2>3, <2>4, <2>6, <2>7, <2>8 DEF DailyInv
<1>8. CASE Midnight
  <2>0. Days \subseteq Nat
    BY ConfigAssumption DEF Days, ConfigAssumption
  <2>1. /\ today' = today + 1 /\ today' \in Days
        /\ UNCHANGED <<dailyTrades, riskFile, persistFailed, booked, forgets, unsaved, entry>>
    BY <1>0, <1>8, ConfigAssumption
    DEF Midnight, NextDay, Days, ConfigAssumption, counterVars, diskVars, callerVars, historyVars
  <2>2. booked[today'] = 0
    BY <1>0, <2>0, <2>1 DEF DailyInv
  <2>3. CurrentDailyTrades' \in Nat /\ SavedTrades' \in Nat
    BY <1>0, <2>1 DEF CurrentDailyTrades, SavedTrades, LoadedState
  <2>4. \A d \in Days : d > today' => booked[d] = 0
    BY <1>0, <2>0, <2>1 DEF DailyInv
  <2>5. UNCHANGED Lost /\ Lost \in Nat
    BY <2>1 DEF Lost
  <2>6. booked[today'] <= CurrentDailyTrades' + forgets
    BY <1>0, <2>2, <2>3, ZeroIsLeast
  <2>7. booked[today'] <= SavedTrades' + forgets + Lost
    <3>1. forgets + Lost \in Nat
      BY <1>0, <2>5
    <3>2. booked[today'] <= SavedTrades' + (forgets + Lost)
      BY <2>2, <2>3, <3>1, ZeroIsLeast
    <3> QED
      BY <1>0, <2>3, <2>5, <3>2
  <2> QED
    BY <1>0, <2>1, <2>4, <2>5, <2>6, <2>7 DEF DailyInv, DailyCapHolds
<1>9. CASE Arm \/ Disarm
  BY <1>1, <1>9 DEF Arm, Disarm, ArmLive, DisarmLive, counterVars, diskVars, callerVars, historyVars
<1>10. CASE AbandonEntry
  BY <1>1, <1>10 DEF AbandonEntry, riskVars, counterVars, diskVars, historyVars
<1>11. ASSUME NEW kind \in ErrorKinds, InfrastructureError(kind) PROVE DailyInv'
  BY <1>1, <1>11 DEF InfrastructureError, TripCircuitBreaker, counterVars, diskVars
<1>12. ASSUME NEW reason \in KillReasons, ManualKill(reason) PROVE DailyInv'
  BY <1>1, <1>12 DEF ManualKill, TriggerKillSwitch, counterVars, diskVars, callerVars, historyVars
<1>13. CASE ManualRelease
  BY <1>1, <1>13 DEF ManualRelease, ReleaseKillSwitch, counterVars, diskVars, callerVars, historyVars
<1>14. CASE Tick
  BY <1>1, <1>14 DEF Tick, BreakerTick, riskVars, counterVars, diskVars, callerVars
<1>15. CASE UNCHANGED vars
  BY <1>1, <1>15 DEF vars, riskVars, counterVars, diskVars, callerVars, historyVars
<1> QED
  BY <1>2, <1>3, <1>4, <1>5, <1>6, <1>7, <1>8, <1>9, <1>10, <1>11, <1>12, <1>13, <1>14, <1>15
  DEF Next

\* On no day do all processes together book more trades than the daily cap,
\* plus one for each restart that lost a counter it could not write.
THEOREM DailyCap == Spec => []DailyCapHolds
<1>1. DailyInv => DailyCapHolds
  BY DEF DailyInv
<1> QED
  BY InitDaily, NextDaily, ClientTypes, <1>1, PTL DEF Spec

-----------------------------------------------------------------------------
(* The daily loss *)

\* What the premise of the loss properties says.
Kept == forgets = 0 /\ ~misdated

\* The counter is the loss of its own date, nothing is lost ahead of the
\* calendar, and as long as the last write succeeded a new process reads the
\* counter again, under the date of the trades.
LossInv ==
  Kept =>
    /\ DailyLossExact /\ NoEntryPastLossLimit
    /\ dailyLoss.date <= today /\ dailyTrades.date <= today
    /\ \A d \in Days : d > today => lossOn[d] = 0
    /\ ~unsaved => LoadedState.loss = dailyLoss.lamports /\ LoadedState.date = dailyTrades.date

LEMMA InitLoss == Init => LossInv
<1> SUFFICES ASSUME Init PROVE LossInv
  OBVIOUS
<1>1. today = 1 /\ 1 \in Days /\ lossOn = [d \in Days |-> 0] /\ entry = "none"
  BY ConfigAssumption DEF Init, RiskInit, Days, ConfigAssumption
<1>2. CurrentDailyLoss = 0 /\ dailyLoss.date = 0 /\ dailyTrades.date = 0
  BY DEF Init, RiskInit, CurrentDailyLoss, NoDate
<1>3. LoadedState.loss = dailyLoss.lamports /\ LoadedState.date = dailyTrades.date
  BY DEF Init, RiskInit, LoadedState, NoState
<1> QED
  BY <1>1, <1>2, <1>3 DEF LossInv, DailyLossExact, NoEntryPastLossLimit

\* A write of the counters keeps the record of them.
LEMMA WriteKeepsLoss ==
  ASSUME NEW written \in BOOLEAN, PersistState(written), Write(written)
  PROVE  ~unsaved' => LoadedState'.loss = dailyLoss'.lamports /\ LoadedState'.date = dailyTrades'.date
BY DEF PersistState, Write, LoadedState

\* A step that leaves the losses alone, and writes what it changes.
LEMMA OtherWriteKeepsLoss ==
  ASSUME ClientTypeOK, LossInv, NEW written \in BOOLEAN, PersistState(written), Write(written),
         UNCHANGED <<today, dailyLoss, lossOn, forgets, misdated>>,
         dailyTrades'.date \in {dailyTrades.date, today}, entry' # "granted"
  PROVE  LossInv'
<1>1. UNCHANGED CurrentDailyLoss
  BY DEF CurrentDailyLoss
<1>2. today \in Nat
  BY DEF ClientTypeOK, RiskTypeOK, Days
<1> QED
  BY <1>1, <1>2, WriteKeepsLoss DEF LossInv, Kept, DailyLossExact, NoEntryPastLossLimit

LEMMA NextLoss == ClientTypeOK /\ LossInv /\ [Next]_vars => LossInv'
<1> SUFFICES ASSUME ClientTypeOK, LossInv, [Next]_vars PROVE LossInv'
  OBVIOUS
<1>0. /\ lossOn \in [Days -> Nat] /\ today \in Days /\ dailyLoss.lamports \in Nat
      /\ today \in Nat /\ dailyLoss.date \in Nat /\ dailyTrades.date \in Nat
  BY DEF ClientTypeOK, RiskTypeOK, Days, Dates, NoDate
<1> USE DEF callerVars, historyVars, counterVars, diskVars
\* Steps that neither book nor write, and begin no entry.
<1>1. ASSUME UNCHANGED <<today, counterVars, riskFile, lossOn, unsaved, forgets, misdated>>,
             entry' = "granted" => entry = "granted"
      PROVE  LossInv'
  <2>1. UNCHANGED <<CurrentDailyLoss, LoadedState>>
    BY <1>1 DEF CurrentDailyLoss, LoadedState
  <2> QED
    BY <1>1, <2>1 DEF LossInv, Kept, DailyLossExact, NoEntryPastLossLimit
<1>2. CASE Arm \/ Disarm \/ AbandonEntry \/ ManualRelease \/ Tick \/ UNCHANGED vars
  BY <1>1, <1>2 DEF Arm, Disarm, AbandonEntry, ManualRelease, Tick, ArmLive, DisarmLive,
                    ReleaseKillSwitch, BreakerTick, vars, riskVars
<1>3. ASSUME NEW kind \in ErrorKinds, InfrastructureError(kind) PROVE LossInv'
  BY <1>1, <1>3 DEF InfrastructureError, TripCircuitBreaker
<1>4. ASSUME NEW reason \in KillReasons, ManualKill(reason) PROVE LossInv'
  BY <1>1, <1>4 DEF ManualKill, TriggerKillSwitch
\* The gate looks at the counter whatever its date.
<1>5. ASSUME NEW size \in Sizes, NEW bps \in Slippages, AskToEnter(size, bps) PROVE LossInv'
  <2>1. UNCHANGED <<today, counterVars, riskFile, lossOn, unsaved, forgets, misdated>>
    BY <1>5 DEF AskToEnter, PreTradeCheck
  <2>2. UNCHANGED <<CurrentDailyLoss, LoadedState>>
    BY <2>1 DEF CurrentDailyLoss, LoadedState
  <2>3. entry' = "granted" => dailyLoss.lamports < DailyLossLimit /\ 0 < DailyLossLimit
    BY <1>0, <1>5, ConfigAssumption
    DEF AskToEnter, PreTradeVerdict, LossLimitReached, ConfigAssumption
  <2>4. entry' = "granted" => CurrentDailyLoss < DailyLossLimit
    BY <2>3 DEF CurrentDailyLoss
  <2> QED
    BY <2>1, <2>2, <2>4 DEF LossInv, Kept, DailyLossExact, NoEntryPastLossLimit
<1>6. ASSUME NEW b \in BOOLEAN, BookTrade(b) PROVE LossInv'
  BY <1>6, OtherWriteKeepsLoss DEF BookTrade, RecordTrade
<1>7. ASSUME NEW b \in BOOLEAN, BookPosition(b) PROVE LossInv'
  BY <1>7, OtherWriteKeepsLoss DEF BookPosition, RecordPositionOpen
<1>8. ASSUME NEW size \in Sizes, NEW b \in BOOLEAN, ClosePosition(size, b) PROVE LossInv'
  BY <1>8, OtherWriteKeepsLoss DEF ClosePosition, RecordPositionClose, Idle
<1>9. ASSUME NEW l \in Losses, NEW b \in BOOLEAN, BookLoss(l, b) PROVE LossInv'
  <2>1. /\ dailyLoss' = [date |-> today, lamports |-> CurrentDailyLoss + l]
        /\ lossOn' = [lossOn EXCEPT ![today] = @ + l]
        /\ UNCHANGED <<today, dailyTrades, forgets, misdated>> /\ entry' = "none"
    BY <1>9 DEF BookLoss, RecordLoss
  <2>2. CurrentDailyLoss' = CurrentDailyLoss + l
    BY <2>1 DEF CurrentDailyLoss
  <2>3. ~unsaved' => LoadedState'.loss = dailyLoss'.lamports /\ LoadedState'.date = dailyTrades'.date
    BY <1>9, WriteKeepsLoss DEF BookLoss, RecordLoss
  <2>4. lossOn'[today] = lossOn[today] + l /\ \A d \in Days : d > today => lossOn'[d] = lossOn[d]
    BY <1>0, <2>1
  <2> QED
    BY <1>0, <2>1, <2>2, <2>3, <2>4 DEF LossInv, Kept, DailyLossExact, NoEntryPastLossLimit
\* A new day starts without a loss.
<1>10. CASE Midnight
  <2>1. today' = today + 1 /\ today' \in Days /\ UNCHANGED <<counterVars, riskFile, callerVars, historyVars>>
    BY <1>0, <1>10, ConfigAssumption DEF Midnight, NextDay, Days, ConfigAssumption
  <2>2. UNCHANGED LoadedState
    BY <2>1 DEF LoadedState
  <2>3. Kept => CurrentDailyLoss' = 0 /\ lossOn[today'] = 0 /\ 0 < DailyLossLimit
    BY <1>0, <2>1, ConfigAssumption DEF CurrentDailyLoss, LossInv, Kept, ConfigAssumption
  <2> QED
    BY <1>0, <2>1, <2>2, <2>3 DEF LossInv, Kept, DailyLossExact, NoEntryPastLossLimit
\* What is read again is the loss, and under its date unless it is zero.
<1>11. CASE Restart
  <2> SUFFICES ASSUME Kept' PROVE LossInv'
    BY DEF LossInv
  <2>1. forgets = 0 /\ ~unsaved
    BY <1>11 DEF Restart, Kept, ClientTypeOK
  <2>2. Kept /\ ~unsaved /\ (dailyLoss.lamports = 0 \/ dailyLoss.date = dailyTrades.date)
    BY <1>11, <2>1, Zenon DEF Restart, Kept
  <2>3. /\ dailyLoss' = [date |-> dailyTrades.date, lamports |-> dailyLoss.lamports]
        /\ dailyTrades'.date = dailyTrades.date /\ UNCHANGED <<today, lossOn, riskFile>> /\ entry' = "none"
    BY <1>11, <2>2 DEF Restart, NewRiskManager, LossInv
  <2>4. CurrentDailyLoss' = CurrentDailyLoss
    BY <2>2, <2>3 DEF CurrentDailyLoss
  <2>5. UNCHANGED LoadedState
    BY <2>3 DEF LoadedState
  <2> QED
    BY <2>2, <2>3, <2>4, <2>5 DEF LossInv, Kept, DailyLossExact, NoEntryPastLossLimit
<1> QED
  BY <1>2, <1>3, <1>4, <1>5, <1>6, <1>7, <1>8, <1>9, <1>10, <1>11 DEF Next

\* The loss counter is the sum of the losses of the day, over all processes,
\* if no restart lost an unsaved change or misdated a loss.
THEOREM DailyLoss == Spec => []DailyLossExact
<1>1. LossInv => DailyLossExact
  BY DEF LossInv, Kept, DailyLossExact
<1> QED
  BY InitLoss, NextLoss, ClientTypes, <1>1, PTL DEF Spec

\* No entry is granted at the loss limit of the day.
THEOREM LossLimit == Spec => []NoEntryPastLossLimit
<1>1. LossInv => NoEntryPastLossLimit
  BY DEF LossInv, Kept, NoEntryPastLossLimit
<1> QED
  BY InitLoss, NextLoss, ClientTypes, <1>1, PTL DEF Spec

-----------------------------------------------------------------------------
(* The cool-down *)

\* While an error is young the breaker is set, and as old as the error.
CoolDownInv == quiet <= BreakerDuration => breaker.active /\ breaker.age = quiet

\* Asking resets the breaker only when the error is not young any more.
LEMMA AskingWaits ==
  ASSUME ClientTypeOK, CoolDownInv, PreTradeCheck, UNCHANGED quiet PROVE CoolDownInv'
BY DEF CoolDownInv, PreTradeCheck, BreakerAfterCheck, IsCircuitBreakerActive

LEMMA NextCoolDown == ClientTypeOK /\ CoolDownInv /\ [Next]_vars => CoolDownInv'
<1> SUFFICES ASSUME ClientTypeOK, CoolDownInv, [Next]_vars PROVE CoolDownInv'
  OBVIOUS
<1> USE DEF callerVars, historyVars
<1>0. /\ quiet \in Nat /\ BreakerDuration \in Nat
      /\ breaker \in [active : BOOLEAN, age : 0..BreakerDuration + 1]
  BY ConfigAssumption DEF ClientTypeOK, RiskTypeOK, ConfigAssumption
<1>1. ASSUME UNCHANGED <<breaker, quiet>> PROVE CoolDownInv'
  BY <1>1 DEF CoolDownInv
<1>2. CASE Arm \/ Disarm \/ AbandonEntry \/ ManualRelease \/ Midnight \/ UNCHANGED vars
  BY <1>1, <1>2 DEF Arm, Disarm, AbandonEntry, ManualRelease, Midnight, ArmLive, DisarmLive,
                    ReleaseKillSwitch, NextDay, switchVars, vars, riskVars
<1>3. ASSUME NEW size \in Sizes, NEW bps \in Slippages, AskToEnter(size, bps) PROVE CoolDownInv'
  BY <1>3, AskingWaits DEF AskToEnter
<1>4. ASSUME NEW kind \in ErrorKinds, InfrastructureError(kind) PROVE CoolDownInv'
  BY <1>4 DEF InfrastructureError, TripCircuitBreaker, CoolDownInv
<1>5. ASSUME NEW reason \in KillReasons, ManualKill(reason) PROVE CoolDownInv'
  BY <1>1, <1>5 DEF ManualKill, TriggerKillSwitch
<1>6. ASSUME NEW b \in BOOLEAN, BookTrade(b) \/ BookPosition(b) PROVE CoolDownInv'
  BY <1>1, <1>6 DEF BookTrade, BookPosition, RecordTrade, RecordPositionOpen, switchVars
<1>7. ASSUME NEW l \in Losses, NEW b \in BOOLEAN, BookLoss(l, b) PROVE CoolDownInv'
  BY <1>1, <1>7 DEF BookLoss, RecordLoss
<1>8. ASSUME NEW size \in Sizes, NEW b \in BOOLEAN, ClosePosition(size, b) PROVE CoolDownInv'
  BY <1>1, <1>8 DEF ClosePosition, RecordPositionClose, switchVars
<1>9. CASE Tick
  <2>1. quiet <= BreakerDuration /\ quiet' = quiet + 1 /\ BreakerTick
    BY <1>9 DEF Tick, CoolDownInv
  <2> QED
    BY <1>0, <2>1 DEF BreakerTick, CoolDownInv
<1>10. CASE Restart
  BY <1>0, <1>10 DEF Restart, CoolDownInv
<1> QED
  BY <1>2, <1>3, <1>4, <1>5, <1>6, <1>7, <1>8, <1>9, <1>10 DEF Next

\* No entry is granted while an infrastructure error is younger than the
\* breaker's duration, however often it was asked in between.
THEOREM CoolDown == Spec => NoEntryDuringCoolDown
<1>1. Init => CoolDownInv
  BY ConfigAssumption DEF Init, CoolDownInv, ConfigAssumption
<1>2. ClientTypeOK /\ CoolDownInv /\ [Next]_vars
        => [entry # "granted" /\ entry' = "granted" => quiet > BreakerDuration]_vars
  <2> SUFFICES ASSUME ClientTypeOK, CoolDownInv, Next, entry # "granted", entry' = "granted"
               PROVE  quiet > BreakerDuration
    OBVIOUS
  <2>1. PICK size \in Sizes, bps \in Slippages : AskToEnter(size, bps)
    BY DEF Next, Arm, Disarm, AbandonEntry, BookTrade, BookPosition, BookLoss, ClosePosition,
           InfrastructureError, ManualKill, ManualRelease, Midnight, Tick, Restart, callerVars, Idle
  <2>2. ~IsCircuitBreakerActive
    BY <2>1 DEF AskToEnter, PreTradeVerdict
  <2> QED
    BY <2>2, ConfigAssumption
    DEF CoolDownInv, IsCircuitBreakerActive, ClientTypeOK, RiskTypeOK, ConfigAssumption
<1> QED
  BY <1>1, <1>2, NextCoolDown, ClientTypes, PTL DEF Spec, NoEntryDuringCoolDown


-----------------------------------------------------------------------------
(* Sums over a finite set *)

\* The recursive equation of a sum of f over the subsets of S.
Sums(f, S, it) ==
  it = [s \in SUBSET S |-> IF s = {} THEN 0 ELSE LET x == CHOOSE y \in s : TRUE IN f[x] + it[s \ {x}]]

LEMMA NatMinimum ==
  ASSUME NEW T \in SUBSET Nat, T # {}
  PROVE  \E m \in T : \A n \in T : m <= n
<1>1. PICK m \in T : \A n \in T : ~(<<n, m>> \in OpToRel(<, Nat))
  BY WFMin, NatLessThanWellFounded
<1>2. \A n \in T : ~(n < m)
  BY <1>1 DEF OpToRel
<1> QED
  BY <1>2

LEMMA SmallestSubset ==
  ASSUME NEW S, IsFiniteSet(S), NEW B \in SUBSET SUBSET S, B # {}
  PROVE  \E s \in B : \A t \in B : t \subseteq s => t = s
<1>1. FiniteSubsetsOf(S) = SUBSET S
  BY FS_FiniteSubsetsOfFinite
<1>2. IsWellFoundedOn(StrictSubsetOrdering(S), SUBSET S)
  BY <1>1, FS_StrictSubsetOrderingWellFounded
<1>3. PICK s \in B : \A t \in B : ~(<<t, s>> \in StrictSubsetOrdering(S))
  BY <1>2, WFMin
<1> QED
  BY <1>3 DEF StrictSubsetOrdering

\* The subsets of S of at most n elements.
UpTo(S, n) == {s \in SUBSET S : Cardinality(s) <= n}

\* Step of a sum at s, from the sums of smaller sets.
SumAt(f, it, s) == IF s = {} THEN 0 ELSE LET x == CHOOSE y \in s : TRUE IN f[x] + it[s \ {x}]

LEMMA OneLess ==
  ASSUME NEW S, IsFiniteSet(S), NEW s \in SUBSET S, s # {}
  PROVE  LET x == CHOOSE y \in s : TRUE
         IN  /\ x \in s /\ x \in S /\ s \ {x} \in SUBSET S
             /\ Cardinality(s) \in Nat /\ Cardinality(s \ {x}) = Cardinality(s) - 1
<1> DEFINE x == CHOOSE y \in s : TRUE
<1>1. x \in s
  OBVIOUS
<1>2. IsFiniteSet(s)
  BY FS_Subset
<1> QED
  BY <1>1, <1>2, FS_RemoveElement, FS_CardinalityType

LEMMA SumsUpTo ==
  ASSUME NEW S, IsFiniteSet(S), NEW f \in [S -> Nat], NEW n \in Nat
  PROVE  \E it \in [UpTo(S, n) -> Nat] : \A s \in UpTo(S, n) : it[s] = SumAt(f, it, s)
<1> DEFINE P(m) == \E it \in [UpTo(S, m) -> Nat] : \A s \in UpTo(S, m) : it[s] = SumAt(f, it, s)
           Bad == {m \in Nat : ~P(m)}
<1>1. P(0)
  <2>1. \A s \in UpTo(S, 0) : s = {}
    <3> SUFFICES ASSUME NEW s \in UpTo(S, 0), s # {} PROVE FALSE
      OBVIOUS
    <3>1. PICK x \in s : TRUE
      OBVIOUS
    <3>2. IsFiniteSet(s)
      BY FS_Subset DEF UpTo
    <3>3. Cardinality(s) = 0
      BY <3>2, FS_CardinalityType DEF UpTo
    <3> QED
      BY <3>2, <3>3, FS_EmptySet
  <2> DEFINE it == [s \in UpTo(S, 0) |-> 0]
  <2>2. it \in [UpTo(S, 0) -> Nat] /\ \A s \in UpTo(S, 0) : it[s] = SumAt(f, it, s)
    BY <2>1 DEF SumAt
  <2> QED
    BY <2>2
<1>2. ASSUME NEW m \in Nat, P(m) PROVE P(m + 1)
  <2>1. PICK it \in [UpTo(S, m) -> Nat] : \A s \in UpTo(S, m) : it[s] = SumAt(f, it, s)
    BY <1>2
  <2> DEFINE next == [s \in UpTo(S, m + 1) |-> SumAt(f, it, s)]
  <2>2. ASSUME NEW s \in UpTo(S, m + 1), s # {}
        PROVE  LET x == CHOOSE y \in s : TRUE IN x \in S /\ s \ {x} \in UpTo(S, m)
    BY OneLess, <2>2 DEF UpTo
  <2>3. \A s \in UpTo(S, m + 1) : SumAt(f, it, s) \in Nat
    BY <2>2 DEF SumAt
  <2>4. \A s \in UpTo(S, m) : s \in UpTo(S, m + 1) /\ next[s] = it[s]
    <3>1. \A s \in UpTo(S, m) : IsFiniteSet(s)
      BY FS_Subset DEF UpTo
    <3> QED
      BY <2>1, <3>1, FS_CardinalityType DEF UpTo
  <2>5. \A s \in UpTo(S, m + 1) : next[s] = SumAt(f, next, s)
    <3> SUFFICES ASSUME NEW s \in UpTo(S, m + 1) PROVE SumAt(f, it, s) = SumAt(f, next, s)
      OBVIOUS
    <3>1. CASE s = {}
      BY <3>1 DEF SumAt
    <3>2. CASE s # {}
      <4> DEFINE x == CHOOSE y \in s : TRUE
      <4>1. next[s \ {x}] = it[s \ {x}]
        BY <2>2, <2>4, <3>2
      <4> HIDE DEF next
      <4> QED
        BY <3>2, <4>1 DEF SumAt
    <3> QED
      BY <3>1, <3>2
  <2>6. next \in [UpTo(S, m + 1) -> Nat]
    BY <2>3
  <2> HIDE DEF next
  <2> QED
    BY <2>5, <2>6
<1>3. ASSUME Bad # {} PROVE FALSE
  <2>1. PICK m \in Bad : \A k \in Bad : m <= k
    BY <1>3, NatMinimum
  <2>2. m # 0 /\ m \in Nat
    BY <1>1
  <2>3. m - 1 \in Nat /\ (m - 1) + 1 = m /\ ~(m <= m - 1)
    BY <2>2
  <2>4. P(m - 1)
    BY <2>1, <2>3
  <2>5. P((m - 1) + 1)
    BY <1>2, <2>3, <2>4
  <2> HIDE DEF P
  <2> QED
    BY <2>1, <2>3, <2>5
<1> HIDE DEF P
<1>4. P(n)
  BY <1>3
<1> QED
  BY <1>4 DEF P

LEMMA SumsExist ==
  ASSUME NEW S, IsFiniteSet(S), NEW f \in [S -> Nat]
  PROVE  \E it : Sums(f, S, it)
<1>1. Cardinality(S) \in Nat
  BY FS_CardinalityType
<1>2. \A s \in SUBSET S : IsFiniteSet(s) /\ Cardinality(s) <= Cardinality(S)
  BY FS_Subset
<1>3. UpTo(S, Cardinality(S)) = SUBSET S
  BY <1>2 DEF UpTo
<1>4. PICK it \in [SUBSET S -> Nat] : \A s \in SUBSET S : it[s] = SumAt(f, it, s)
  <2>1. \E it \in [UpTo(S, Cardinality(S)) -> Nat] :
          \A s \in UpTo(S, Cardinality(S)) : it[s] = SumAt(f, it, s)
    BY <1>1, SumsUpTo
  <2> QED
    BY <1>3, <2>1
<1> QED
  BY <1>4 DEF Sums, SumAt

\* Sums are natural numbers.
LEMMA SumsType ==
  ASSUME NEW S, IsFiniteSet(S), NEW f \in [S -> Nat], NEW it, Sums(f, S, it)
  PROVE  it \in [SUBSET S -> Nat]
<1> DEFINE Bad == {s \in SUBSET S : it[s] \notin Nat}
<1>1. \A s \in SUBSET S : it[s] = SumAt(f, it, s)
  BY DEF Sums, SumAt
<1>2. ASSUME Bad # {} PROVE FALSE
  <2>1. Bad \in SUBSET SUBSET S
    OBVIOUS
  <2>2. PICK s \in Bad : \A t \in Bad : t \subseteq s => t = s
    <3> HIDE DEF Bad
    <3> QED
      BY <1>2, <2>1, SmallestSubset
  <2>3. s \in SUBSET S /\ it[s] \notin Nat /\ it[s] = SumAt(f, it, s)
    BY <1>1
  <2>4. s # {}
    BY <2>3 DEF SumAt
  <2> DEFINE z == CHOOSE y \in s : TRUE
  <2>5. z \in s /\ it[s] = f[z] + it[s \ {z}]
    BY <2>3, <2>4 DEF SumAt
  <2> HIDE DEF z
  <2>6. it[s \ {z}] \in Nat
    BY <2>2, <2>3, <2>5
  <2>7. f[z] \in Nat
    BY <2>3, <2>5
  <2> QED
    BY <2>3, <2>5, <2>6, <2>7
<1>3. DOMAIN it = SUBSET S /\ it = [s \in SUBSET S |-> it[s]]
  BY DEF Sums
<1> QED
  BY <1>2, <1>3

\* Any element may be summed last.
AnyLast(f, S, it) == \A s \in SUBSET S : \A x \in s : it[s] = f[x] + it[s \ {x}]

LEMMA SumsRemove ==
  ASSUME NEW S, IsFiniteSet(S), NEW f \in [S -> Nat], NEW it, Sums(f, S, it)
  PROVE  AnyLast(f, S, it)
<1> DEFINE Bad == {t \in SUBSET S : \E y \in t : it[t] # f[y] + it[t \ {y}]}
<1>1. \A t \in SUBSET S : it[t] = SumAt(f, it, t)
  BY DEF Sums, SumAt
<1>2. it \in [SUBSET S -> Nat]
  BY SumsType
<1>3. ASSUME Bad # {} PROVE FALSE
  <2>0. Bad \in SUBSET SUBSET S
    OBVIOUS
  <2>1. PICK t \in Bad : \A u \in Bad : u \subseteq t => u = t
    <3> HIDE DEF Bad
    <3> QED
      BY <1>3, <2>0, SmallestSubset
  <2>2. PICK y \in t : it[t] # f[y] + it[t \ {y}]
    BY <2>1
  <2> DEFINE z == CHOOSE w \in t : TRUE
  <2>3. z \in t /\ it[t] = f[z] + it[t \ {z}]
    BY <1>1, <2>2 DEF SumAt
  <2> HIDE DEF z
  <2>4. y # z
    BY <2>2, <2>3
  <2>5. it[t \ {z}] = f[y] + it[(t \ {z}) \ {y}]
    BY <2>1, <2>3, <2>4
  <2>6. it[t \ {y}] = f[z] + it[(t \ {y}) \ {z}]
    BY <2>1, <2>3, <2>4
  <2>7. (t \ {z}) \ {y} = (t \ {y}) \ {z}
    OBVIOUS
  <2>8. f[y] \in Nat /\ f[z] \in Nat /\ it[(t \ {y}) \ {z}] \in Nat
    BY <1>2, <2>3
  <2>9. it[t] = f[z] + (f[y] + it[(t \ {y}) \ {z}])
    BY <2>3, <2>5, <2>7
  <2>10. it[t] # f[y] + (f[z] + it[(t \ {y}) \ {z}])
    BY <2>2, <2>6
  <2> QED
    BY <2>8, <2>9, <2>10
<1> QED
  BY <1>3 DEF AnyLast

\* Functions that agree on a set have the same sum over it.
LEMMA SumsAgree ==
  ASSUME NEW S, IsFiniteSet(S), NEW f \in [S -> Nat], NEW g \in [S -> Nat],
         NEW it, Sums(f, S, it), NEW jt, Sums(g, S, jt),
         NEW s \in SUBSET S, \A x \in s : f[x] = g[x]
  PROVE  it[s] = jt[s]
<1> DEFINE Bad == {t \in SUBSET s : it[t] # jt[t]}
<1>1. \A t \in SUBSET S : it[t] = SumAt(f, it, t) /\ jt[t] = SumAt(g, jt, t)
  BY DEF Sums, SumAt
<1>2. ASSUME Bad # {} PROVE FALSE
  <2>1. PICK t \in Bad : \A u \in Bad : u \subseteq t => u = t
    <3>1. IsFiniteSet(s) /\ Bad \in SUBSET SUBSET s
      BY FS_Subset
    <3> HIDE DEF Bad
    <3> QED
      BY <1>2, <3>1, SmallestSubset
  <2>2. t # {}
    BY <1>1, <2>1 DEF SumAt
  <2> DEFINE z == CHOOSE w \in t : TRUE
  <2>3. z \in t /\ it[t] = f[z] + it[t \ {z}] /\ jt[t] = g[z] + jt[t \ {z}]
    BY <1>1, <2>2 DEF SumAt
  <2> HIDE DEF z
  <2>4. it[t \ {z}] = jt[t \ {z}]
    BY <2>1, <2>3
  <2> QED
    BY <2>1, <2>3, <2>4
<1> QED
  BY <1>2

\* A change of one element changes the sum by as much.
LEMMA SumsChange ==
  ASSUME NEW S, IsFiniteSet(S), NEW f \in [S -> Nat], NEW g \in [S -> Nat],
         NEW it, Sums(f, S, it), NEW jt, Sums(g, S, jt),
         NEW x \in S, \A y \in S \ {x} : f[y] = g[y]
  PROVE  it[S] \in Nat /\ jt[S] \in Nat /\ it[S] >= f[x] /\ jt[S] - g[x] = it[S] - f[x]
<1>0. S \in SUBSET S /\ S \ {x} \in SUBSET S
  OBVIOUS
<1>1. it[S] = f[x] + it[S \ {x}]
  <2>1. AnyLast(f, S, it)
    BY SumsRemove
  <2> QED
    BY <1>0, <2>1 DEF AnyLast
<1>2. jt[S] = g[x] + jt[S \ {x}]
  <2>1. AnyLast(g, S, jt)
    BY SumsRemove
  <2> QED
    BY <1>0, <2>1 DEF AnyLast
<1>3. it[S \ {x}] = jt[S \ {x}]
  BY <1>0, SumsAgree
<1>4. it[S \ {x}] \in Nat /\ f[x] \in Nat /\ g[x] \in Nat
  <2>1. it \in [SUBSET S -> Nat]
    BY SumsType
  <2> QED
    BY <1>0, <2>1
<1> QED
  BY <1>1, <1>2, <1>3, <1>4

\* The sum of zeros.
LEMMA SumsZero ==
  ASSUME NEW S, IsFiniteSet(S), NEW it, Sums([x \in S |-> 0], S, it)
  PROVE  it[S] = 0
<1> DEFINE zero == [x \in S |-> 0]
           jt == [s \in SUBSET S |-> 0]
<1>1. zero \in [S -> Nat]
  OBVIOUS
<1>2. \A s \in SUBSET S : jt[s] = SumAt(zero, jt, s)
  <2> SUFFICES ASSUME NEW s \in SUBSET S PROVE SumAt(zero, jt, s) = 0
    OBVIOUS
  <2>1. CASE s = {}
    BY <2>1 DEF SumAt
  <2>2. CASE s # {}
    <3> DEFINE x == CHOOSE y \in s : TRUE
    <3>1. x \in S /\ s \ {x} \in SUBSET S
      BY <2>2
    <3> HIDE DEF x
    <3>2. zero[x] + jt[s \ {x}] = 0
      BY <3>1
    <3> QED
      BY <2>2, <3>2 DEF SumAt, x
  <2> QED
    BY <2>1, <2>2
<1>3. jt = [s \in SUBSET S |-> SumAt(zero, jt, s)]
  BY <1>2
<1>4. Sums(zero, S, jt)
  BY <1>3 DEF Sums, SumAt
<1>5. S \in SUBSET S /\ \A x \in S : zero[x] = zero[x]
  OBVIOUS
<1>6. Sums(zero, S, it)
  OBVIOUS
<1>7. jt[S] = 0
  OBVIOUS
<1> HIDE DEF zero, jt
<1> QED
  BY <1>1, <1>4, <1>5, <1>6, <1>7, SumsAgree

-----------------------------------------------------------------------------
(* The counters and the positions really open *)

\* The positions and the exposure h stands for.
Open(h)    == MapThenSumSet(LAMBDA z : h[z], Sizes)
Exposed(h) == MapThenSumSet(LAMBDA z : z * h[z], Sizes)

Weighted(h) == [z \in Sizes |-> z * h[z]]

\* Both are sums in the sense above.
LEMMA OpenIsSum ==
  ASSUME NEW h \in [Sizes -> Nat]
  PROVE  \E it : Sums(h, Sizes, it) /\ Open(h) = it[Sizes]
<1>1. PICK it : Sums(h, Sizes, it)
  BY ClientAssumption, SumsExist DEF ClientAssumption
<1> QED
  BY <1>1 DEF Sums, Open, MapThenSumSet, MapThenFoldSet

LEMMA ExposedIsSum ==
  ASSUME NEW h \in [Sizes -> Nat]
  PROVE  /\ Weighted(h) \in [Sizes -> Nat]
         /\ \E it : Sums(Weighted(h), Sizes, it) /\ Exposed(h) = it[Sizes]
<1>1. Weighted(h) \in [Sizes -> Nat]
  BY ClientAssumption DEF ClientAssumption, Weighted
<1>2. PICK it : Sums(Weighted(h), Sizes, it)
  BY <1>1, ClientAssumption, SumsExist DEF ClientAssumption
<1>3. ASSUME NEW jt PROVE \A s \in SUBSET Sizes :
        SumAt(Weighted(h), jt, s) =
          IF s = {} THEN 0 ELSE LET x == CHOOSE y \in s : TRUE IN x * h[x] + jt[s \ {x}]
  BY DEF SumAt, Weighted
<1>4. it = [s \in SUBSET Sizes |-> SumAt(Weighted(h), it, s)]
  BY <1>2 DEF Sums, SumAt
<1>5. it = [s \in SUBSET Sizes |->
              IF s = {} THEN 0 ELSE LET x == CHOOSE y \in s : TRUE IN x * h[x] + it[s \ {x}]]
  BY <1>3, <1>4
<1>6. PICK jt : /\ jt = [s \in SUBSET Sizes |->
                          IF s = {} THEN 0
                          ELSE LET x == CHOOSE y \in s : TRUE IN x * h[x] + jt[s \ {x}]]
                /\ Exposed(h) = jt[Sizes]
  <2> DEFINE jt == CHOOSE kt : kt = [s \in SUBSET Sizes |->
                     IF s = {} THEN 0 ELSE LET x == CHOOSE y \in s : TRUE IN x * h[x] + kt[s \ {x}]]
  <2>1. jt = [s \in SUBSET Sizes |->
               IF s = {} THEN 0 ELSE LET x == CHOOSE y \in s : TRUE IN x * h[x] + jt[s \ {x}]]
    BY <1>5
  <2>2. Exposed(h) = jt[Sizes]
    BY DEF Exposed, MapThenSumSet, MapThenFoldSet
  <2> HIDE DEF jt
  <2> QED
    BY <2>1, <2>2
<1>7. jt = [s \in SUBSET Sizes |-> SumAt(Weighted(h), jt, s)]
  <2>1. \A s \in SUBSET Sizes :
          SumAt(Weighted(h), jt, s) =
            IF s = {} THEN 0 ELSE LET x == CHOOSE y \in s : TRUE IN x * h[x] + jt[s \ {x}]
    BY <1>3
  <2> QED
    BY <1>6, <2>1
<1>8. Sums(Weighted(h), Sizes, jt)
  BY <1>7 DEF Sums, SumAt
<1> QED
  BY <1>1, <1>6, <1>8


\* Nothing is held at the start.
LEMMA NothingHeld ==
  /\ Open([z \in Sizes |-> 0]) = 0
  /\ Exposed([z \in Sizes |-> 0]) = 0
<1> DEFINE zero == [z \in Sizes |-> 0]
<1>1. zero \in [Sizes -> Nat] /\ IsFiniteSet(Sizes)
  BY ClientAssumption DEF ClientAssumption
<1>2. Weighted(zero) = zero
  BY ClientAssumption DEF Weighted, ClientAssumption
<1>3. Open(zero) = 0
  <2>1. PICK it : Sums(zero, Sizes, it) /\ Open(zero) = it[Sizes]
    <3> HIDE DEF zero
    <3> QED
      BY <1>1, OpenIsSum
  <2> QED
    BY <1>1, <2>1, SumsZero
<1>4. Exposed(zero) = 0
  <2>1. PICK it : Sums(zero, Sizes, it) /\ Exposed(zero) = it[Sizes]
    <3> HIDE DEF zero
    <3> QED
      BY <1>1, <1>2, ExposedIsSum
  <2> QED
    BY <1>1, <2>1, SumsZero
<1> QED
  BY <1>3, <1>4

\* One position of size z more or less moves the sums by 1 and by z, and what
\* is open of one size is part of both.
LEMMA HeldChange ==
  ASSUME NEW h \in [Sizes -> Nat], NEW g \in [Sizes -> Nat], NEW z \in Sizes,
         \A y \in Sizes \ {z} : h[y] = g[y]
  PROVE  /\ Open(h) \in Nat /\ Open(g) \in Nat
         /\ Exposed(h) \in Nat /\ Exposed(g) \in Nat
         /\ Open(h) >= h[z] /\ Open(g) - g[z] = Open(h) - h[z]
         /\ Exposed(h) >= z * h[z] /\ Exposed(g) - z * g[z] = Exposed(h) - z * h[z]
<1>0. IsFiniteSet(Sizes)
  BY ClientAssumption DEF ClientAssumption
<1>1. PICK it : Sums(h, Sizes, it) /\ Open(h) = it[Sizes]
  BY OpenIsSum
<1>2. PICK jt : Sums(g, Sizes, jt) /\ Open(g) = jt[Sizes]
  BY OpenIsSum
<1>3. PICK ie : Sums(Weighted(h), Sizes, ie) /\ Exposed(h) = ie[Sizes]
  BY ExposedIsSum
<1>4. PICK je : Sums(Weighted(g), Sizes, je) /\ Exposed(g) = je[Sizes]
  BY ExposedIsSum
<1>5. /\ Open(h) \in Nat /\ Open(g) \in Nat
      /\ Open(h) >= h[z] /\ Open(g) - g[z] = Open(h) - h[z]
  BY <1>0, <1>1, <1>2, SumsChange
<1>6. /\ Weighted(h) \in [Sizes -> Nat] /\ Weighted(g) \in [Sizes -> Nat]
      /\ \A y \in Sizes \ {z} : Weighted(h)[y] = Weighted(g)[y]
      /\ Weighted(h)[z] = z * h[z] /\ Weighted(g)[z] = z * g[z]
  BY ExposedIsSum DEF Weighted
<1>7. /\ Exposed(h) \in Nat /\ Exposed(g) \in Nat
      /\ Exposed(h) >= Weighted(h)[z]
      /\ Exposed(g) - Weighted(g)[z] = Exposed(h) - Weighted(h)[z]
  BY <1>0, <1>3, <1>4, <1>6, SumsChange
<1> QED
  BY <1>5, <1>6, <1>7

LEMMA OneMore ==
  ASSUME NEW h \in [Sizes -> Nat], NEW z \in Sizes
  PROVE  LET g == [h EXCEPT ![z] = @ + 1]
         IN  Open(g) = Open(h) + 1 /\ Exposed(g) = Exposed(h) + z
<1> DEFINE g == [h EXCEPT ![z] = @ + 1]
<1>1. g \in [Sizes -> Nat] /\ g[z] = h[z] + 1 /\ \A y \in Sizes \ {z} : h[y] = g[y]
  OBVIOUS
<1> HIDE DEF g
<1>2. z \in Nat /\ h[z] \in Nat
  BY ClientAssumption DEF ClientAssumption
<1>3. z * g[z] = z * h[z] + z /\ z * h[z] \in Nat
  BY <1>1, <1>2
<1>4. /\ Open(h) \in Nat /\ Open(g) \in Nat
      /\ Exposed(h) \in Nat /\ Exposed(g) \in Nat
      /\ Open(g) - g[z] = Open(h) - h[z]
      /\ Exposed(g) - z * g[z] = Exposed(h) - z * h[z]
  BY <1>1, HeldChange
<1> QED
  BY <1>1, <1>2, <1>3, <1>4 DEF g

LEMMA OneFewer ==
  ASSUME NEW h \in [Sizes -> Nat], NEW z \in Sizes, h[z] > 0
  PROVE  LET g == [h EXCEPT ![z] = @ - 1]
         IN  /\ Open(h) >= 1 /\ Open(g) = Open(h) - 1
             /\ Exposed(h) >= z /\ Exposed(g) = Exposed(h) - z
<1> DEFINE g == [h EXCEPT ![z] = @ - 1]
<1>1. g \in [Sizes -> Nat] /\ g[z] = h[z] - 1 /\ \A y \in Sizes \ {z} : h[y] = g[y]
  OBVIOUS
<1> HIDE DEF g
<1>2. z \in Nat /\ h[z] \in Nat /\ g[z] \in Nat
  BY <1>1, ClientAssumption DEF ClientAssumption
<1>3. z * g[z] \in Nat /\ z * h[z] = z * g[z] + z
  BY <1>1, <1>2
<1>4. /\ Open(h) \in Nat /\ Open(g) \in Nat
      /\ Exposed(h) \in Nat /\ Exposed(g) \in Nat
      /\ Open(h) >= h[z] /\ Open(g) - g[z] = Open(h) - h[z]
      /\ Exposed(h) >= z * h[z] /\ Exposed(g) - z * g[z] = Exposed(h) - z * h[z]
  BY <1>1, HeldChange
<1> QED
  BY <1>1, <1>2, <1>3, <1>4 DEF g

\* The counters are those of the open positions, and as long as the last
\* write succeeded a new process reads them again.
CountersInv ==
  /\ CountersMatchPositions
  /\ (forgets = 0 /\ ~unsaved) =>
       LoadedState.positions = openPositions /\ LoadedState.exposure = openExposure

CountersAreOpen == forgets = 0 => openPositions = Open(held) /\ openExposure = Exposed(held)

LEMMA CountersAreSums == CountersMatchPositions <=> CountersAreOpen
  BY DEF CountersMatchPositions, CountersAreOpen, Open, Exposed

LEMMA CountersAreSumsNext == CountersMatchPositions' <=> CountersAreOpen'
  BY CountersAreSums, PTL

LEMMA InitCounters == Init => CountersInv
<1> SUFFICES ASSUME Init PROVE CountersInv
  OBVIOUS
<1>1. held = [z \in Sizes |-> 0] /\ openPositions = 0 /\ openExposure = 0
  BY DEF Init, RiskInit
<1>2. LoadedState.positions = 0 /\ LoadedState.exposure = 0
  BY DEF Init, RiskInit, LoadedState, NoState
<1>3. CountersMatchPositions
  BY <1>1, NothingHeld, CountersAreSums DEF CountersAreOpen
<1> QED
  BY <1>1, <1>2, <1>3 DEF CountersInv

\* A write keeps the record of the counters.
LEMMA WriteKeepsCounters ==
  ASSUME NEW written \in BOOLEAN, PersistState(written), Write(written)
  PROVE  ~unsaved' => LoadedState'.positions = openPositions'
                      /\ LoadedState'.exposure = openExposure'
  BY DEF PersistState, Write, LoadedState

LEMMA NextCounters == ClientTypeOK /\ CountersInv /\ [Next]_vars => CountersInv'
<1> SUFFICES ASSUME ClientTypeOK, CountersInv, [Next]_vars PROVE CountersInv'
  OBVIOUS
<1>0. /\ held \in [Sizes -> Nat] /\ openPositions \in Nat /\ openExposure \in Nat
      /\ forgets \in Nat
  BY DEF ClientTypeOK, RiskTypeOK
<1>00. CountersMatchPositions
  BY DEF CountersInv
<1> USE DEF callerVars, historyVars, counterVars, diskVars
\* Steps that leave the counters, the file and the positions alone.
<1>1. ASSUME UNCHANGED <<openPositions, openExposure, riskFile, held, forgets, unsaved>>
      PROVE  CountersInv'
  <2>1. UNCHANGED LoadedState
    BY <1>1 DEF LoadedState
  <2>2. CountersMatchPositions'
    BY <1>00, <1>1, CountersAreSums, CountersAreSumsNext DEF CountersAreOpen
  <2> QED
    BY <1>1, <2>1, <2>2 DEF CountersInv
<1>2. CASE Arm \/ Disarm \/ AbandonEntry \/ ManualRelease \/ Midnight \/ Tick \/ UNCHANGED vars
  BY <1>1, <1>2 DEF Arm, Disarm, AbandonEntry, ManualRelease, Midnight, Tick, ArmLive,
                    DisarmLive, ReleaseKillSwitch, NextDay, BreakerTick, vars, riskVars
<1>3. ASSUME NEW size \in Sizes, NEW bps \in Slippages, AskToEnter(size, bps) PROVE CountersInv'
  BY <1>1, <1>3 DEF AskToEnter, PreTradeCheck
<1>4. ASSUME NEW kind \in ErrorKinds, InfrastructureError(kind) PROVE CountersInv'
  BY <1>1, <1>4 DEF InfrastructureError, TripCircuitBreaker
<1>5. ASSUME NEW reason \in KillReasons, ManualKill(reason) PROVE CountersInv'
  BY <1>1, <1>5 DEF ManualKill, TriggerKillSwitch
\* Steps that write the file but neither open nor close.
<1>6. ASSUME NEW written \in BOOLEAN, PersistState(written), Write(written),
             UNCHANGED <<openPositions, openExposure, held, forgets>>
      PROVE  CountersInv'
  <2>1. CountersMatchPositions'
    BY <1>00, <1>6, CountersAreSums, CountersAreSumsNext DEF CountersAreOpen
  <2> QED
    BY <1>6, <2>1, WriteKeepsCounters DEF CountersInv
<1>7. ASSUME NEW written \in BOOLEAN, BookTrade(written) PROVE CountersInv'
  BY <1>6, <1>7 DEF BookTrade, RecordTrade
<1>8. ASSUME NEW written \in BOOLEAN, NEW lamports \in Losses, BookLoss(lamports, written)
      PROVE  CountersInv'
  BY <1>6, <1>8 DEF BookLoss, RecordLoss
<1>9. ASSUME NEW written \in BOOLEAN, BookPosition(written) PROVE CountersInv'
  <2>1. /\ PersistState(written) /\ Write(written)
        /\ openPositions' = openPositions + 1 /\ openExposure' = openExposure + entrySize
        /\ held' = [held EXCEPT ![entrySize] = @ + 1]
        /\ UNCHANGED forgets
    BY <1>9 DEF BookPosition, RecordPositionOpen
  <2>2. entrySize \in Sizes
    BY <1>9 DEF BookPosition, ClientTypeOK
  <2>3. Open(held') = Open(held) + 1 /\ Exposed(held') = Exposed(held) + entrySize
    BY <1>0, <2>1, <2>2, OneMore
  <2>4. CountersMatchPositions'
    BY <1>00, <2>1, <2>3, CountersAreSums, CountersAreSumsNext DEF CountersAreOpen
  <2> QED
    BY <2>1, <2>4, WriteKeepsCounters DEF CountersInv
\* The saturating subtractions never saturate.
<1>10. ASSUME NEW written \in BOOLEAN, NEW size \in Sizes, ClosePosition(size, written)
       PROVE  CountersInv'
  <2>1. /\ PersistState(written) /\ Write(written)
        /\ openPositions' = SaturatingSub(openPositions, 1)
        /\ openExposure' = SaturatingSub(openExposure, size)
        /\ held' = [held EXCEPT ![size] = @ - 1] /\ held[size] > 0
        /\ UNCHANGED forgets
    BY <1>10 DEF ClosePosition, RecordPositionClose
  <2>2. /\ Open(held) >= 1 /\ Open(held') = Open(held) - 1
        /\ Exposed(held) >= size /\ Exposed(held') = Exposed(held) - size
    BY <1>0, <2>1, OneFewer
  <2>3. CountersMatchPositions'
    BY <1>00, <2>1, <2>2, CountersAreSums, CountersAreSumsNext DEF CountersAreOpen, SaturatingSub
  <2> QED
    BY <2>1, <2>3, WriteKeepsCounters DEF CountersInv
<1>11. CASE Restart
  <2>1. /\ openPositions' = LoadedState.positions /\ openExposure' = LoadedState.exposure
        /\ UNCHANGED <<riskFile, held>>
        /\ forgets' = IF unsaved THEN forgets + 1 ELSE forgets
    BY <1>11 DEF Restart, NewRiskManager
  <2>2. UNCHANGED LoadedState
    BY <2>1 DEF LoadedState
  <2>3. forgets' = 0 => forgets = 0 /\ ~unsaved
    BY <1>0, <2>1
  <2>4. CountersMatchPositions'
    BY <1>00, <2>1, <2>3, CountersAreSums, CountersAreSumsNext DEF CountersAreOpen, CountersInv
  <2> QED
    BY <2>1, <2>2, <2>4 DEF CountersInv
<1> QED
  BY <1>2, <1>3, <1>4, <1>5, <1>7, <1>8, <1>9, <1>10, <1>11 DEF Next

\* As long as no restart lost a change it could not write, the counters the
\* caps are checked against are those of the positions really open, whichever
\* process opened or closed them: no close saturates, none is booked twice.
THEOREM CountersMatch == Spec => []CountersMatchPositions
<1>1. CountersInv => CountersMatchPositions
  BY DEF CountersInv
<1> QED
  BY InitCounters, NextCounters, ClientTypes, <1>1, PTL DEF Spec

-----------------------------------------------------------------------------
(* Amounts *)

LEMMA Products ==
  ASSUME NEW a \in Nat, NEW b \in Nat, NEW c \in Nat, a <= b
  PROVE  /\ a * c \in Nat /\ b * c \in Nat /\ a * c <= b * c
         /\ c * a = a * c /\ c * b = b * c
<1>1. a * c \in Nat /\ b * c \in Nat /\ c * a = a * c /\ c * b = b * c
  OBVIOUS
<1>2. (b - a) * c = b * c - a * c /\ b - a \in Nat
  OBVIOUS
<1>3. (b - a) * c \in Nat
  BY <1>2
<1> QED
  BY <1>1, <1>2, <1>3

LEMMA Quotients ==
  ASSUME NEW a \in Nat, NEW b \in Nat \ {0}
  PROVE  /\ a \div b \in Nat
         /\ (a \div b) * b <= a
         /\ a < (a \div b) * b + b
OBVIOUS

LEMMA CeilCovers ==
  ASSUME NEW a \in Nat, NEW b \in Nat \ {0}
  PROVE  CeilDiv(a, b) \in Nat /\ a <= CeilDiv(a, b) * b
<1> DEFINE q == CeilDiv(a, b)
<1>1. a + b - 1 \in Nat
  OBVIOUS
<1>2. q \in Nat /\ a + b - 1 < q * b + b
  BY <1>1, Quotients DEF CeilDiv
<1> HIDE DEF q
<1>3. q * b \in Nat
  BY <1>2
<1>4. a <= q * b
  BY <1>2, <1>3
<1> QED
  BY <1>2, <1>4 DEF q

LEMMA CeilAtMost ==
  ASSUME NEW a \in Nat, NEW b \in Nat \ {0}, NEW c \in Nat, a <= c * b
  PROVE  CeilDiv(a, b) <= c
<1> DEFINE q == CeilDiv(a, b)
<1>1. a + b - 1 \in Nat
  OBVIOUS
<1>2. q \in Nat /\ q * b <= a + b - 1
  BY <1>1, Quotients DEF CeilDiv
<1> HIDE DEF q
<1>3. SUFFICES ASSUME c + 1 <= q PROVE FALSE
  BY <1>2 DEF q
<1>4. (c + 1) * b <= q * b /\ (c + 1) * b = c * b + b /\ c * b \in Nat /\ q * b \in Nat
  BY <1>2, <1>3, Products
<1> QED
  BY <1>2, <1>4

LEMMA FeeGrows ==
  ASSUME NEW a \in Nat, NEW b \in Nat, a <= b, NEW bps \in Nat
  PROVE  Fee(a, bps) \in Nat /\ Fee(b, bps) \in Nat /\ Fee(a, bps) <= Fee(b, bps)
<1>1. Bps \in Nat \ {0}
  BY PumpAssumption
<1> DEFINE x == a * bps
           y == b * bps
<1>2. x \in Nat /\ y \in Nat /\ x <= y
  BY Products
<1> HIDE DEF x, y
<1>3. CeilDiv(x, Bps) \in Nat /\ CeilDiv(y, Bps) \in Nat /\ y <= CeilDiv(y, Bps) * Bps
  BY <1>1, <1>2, CeilCovers
<1> DEFINE c == CeilDiv(y, Bps)
<1>4. c \in Nat /\ y <= c * Bps
  BY <1>3
<1> HIDE DEF c
<1>5. c * Bps \in Nat
  BY <1>1, <1>4
<1>6. x <= c * Bps
  BY <1>2, <1>4, <1>5
<1>7. CeilDiv(x, Bps) <= c
  BY <1>1, <1>2, <1>4, <1>6, CeilAtMost
<1> QED
  BY <1>3, <1>7 DEF Fee, x, y, c

LEMMA WithFeesGrows ==
  ASSUME NEW fees \in Rate, NEW net \in Nat, NEW k \in Nat
  PROVE  /\ WithFees(net, fees) \in Nat /\ WithFees(net + k, fees) \in Nat
         /\ net <= WithFees(net, fees)
         /\ WithFees(net, fees) + k <= WithFees(net + k, fees)
<1>1. fees.lp \in Nat /\ fees.protocol \in Nat /\ fees.creator \in Nat
  BY DEF Rate
<1>2. net + k \in Nat /\ net <= net + k
  OBVIOUS
<1>3. \A bps \in Nat : Fee(net, bps) \in Nat /\ Fee(net + k, bps) \in Nat
                       /\ Fee(net, bps) <= Fee(net + k, bps)
  BY <1>2, FeeGrows
<1> QED
  BY <1>1, <1>2, <1>3 DEF WithFees

\* What is left of an amount, with all its fees rounded up, is not more than it.
LEMMA NetCovered ==
  ASSUME NEW fees \in Rate, NEW amount \in Nat
  PROVE  /\ NetQuote(amount, fees) \in Int
         /\ NetQuote(amount, fees) > 0 => WithFees(NetQuote(amount, fees), fees) <= amount
<1> DEFINE total == TotalBps(fees)
           most == (amount * Bps) \div (Bps + total)
           over == WithFees(most, fees) - amount
<1>1. Bps \in Nat \ {0} /\ total \in Nat
  <2>1. Bps \in Nat \ {0}
    BY PumpAssumption
  <2>2. fees.lp \in Nat /\ fees.protocol \in Nat /\ fees.creator \in Nat
    BY DEF Rate
  <2> QED
    BY <2>1, <2>2 DEF TotalBps
<1>2. most \in Nat
  <2> DEFINE a == amount * Bps
             b == Bps + total
  <2>1. a \in Nat /\ b \in Nat \ {0}
    <3> HIDE DEF total
    <3> QED
      BY <1>1
  <2> HIDE DEF a, b
  <2>2. a \div b \in Nat
    BY <2>1, Quotients
  <2> QED
    BY <2>2 DEF a, b
<1>3. NetQuote(amount, fees) = IF over > 0 THEN most - over ELSE most
  BY DEF NetQuote
<1> HIDE DEF most
<1>4. WithFees(most, fees) \in Nat
  <2>1. 0 \in Nat
    OBVIOUS
  <2> QED
    BY <1>2, <2>1, WithFeesGrows
<1>5. CASE over > 0
  <2> DEFINE net == most - over
  <2>0. net \in Int /\ NetQuote(amount, fees) = net
    BY <1>2, <1>3, <1>4, <1>5
  <2> SUFFICES ASSUME net > 0 PROVE WithFees(net, fees) <= amount
    BY <2>0
  <2>1. over \in Nat /\ net \in Nat /\ net + over = most
    BY <1>2, <1>4, <1>5
  <2>2. over = WithFees(most, fees) - amount
    OBVIOUS
  <2> HIDE DEF net, over
  <2>3. WithFees(net, fees) \in Nat /\ WithFees(net, fees) + over <= WithFees(net + over, fees)
    BY <2>1, WithFeesGrows
  <2>4. WithFees(net, fees) <= amount
    BY <1>4, <2>1, <2>2, <2>3
  <2> QED
    BY <2>4
<1>6. CASE ~(over > 0)
  BY <1>2, <1>3, <1>4, <1>6
<1> QED
  BY <1>5, <1>6

-----------------------------------------------------------------------------
(* The fees of a pool *)

LEMMA LastOf ==
  ASSUME NEW n \in Nat, NEW S \in SUBSET (1..n), S # {}
  PROVE  \E x \in S : \A y \in S : y <= x
<1> DEFINE R == OpToRel(<, Nat)
           T == {n - x : x \in S}
<1>1. T \subseteq Nat /\ T # {}
  <2>1. \A x \in S : n - x \in Nat
    OBVIOUS
  <2> HIDE DEF R
  <2> QED
    BY <2>1, Zenon
<1>2. IsWellFoundedOn(R, Nat)
  BY NatLessThanWellFounded
<1>3. PICK t \in T : \A u \in T : ~(<<u, t>> \in R)
  <2> HIDE DEF R, T
  <2> QED
    BY <1>1, <1>2, WFMin
<1>4. \A u \in T : ~(u < t)
  BY <1>1, <1>3 DEF OpToRel
<1>5. PICK x \in S : t = n - x
  BY <1>3
<1>6. \A y \in S : n - y \in T /\ ~(n - y < n - x)
  BY <1>4, <1>5
<1> QED
  BY <1>6

LEMMA FeesTyped ==
  ASSUME NEW p \in Reading
  PROVE  PoolFees(p) \in Rate
<1>1. /\ FlatFees \in Rate /\ FeeTiers \in Seq([threshold : Nat, fees : Rate]) /\ FeeTiers # <<>>
  BY PumpAssumption
<1>2. /\ Len(FeeTiers) \in Nat \ {0} /\ DOMAIN FeeTiers = 1..Len(FeeTiers)
      /\ \A i \in DOMAIN FeeTiers : FeeTiers[i].fees \in Rate
  <2> DEFINE Tier == [threshold : Nat, fees : Rate]
  <2>1. \A t \in Tier : t.fees \in Rate
    OBVIOUS
  <2>2. FeeTiers \in Seq(Tier) /\ FeeTiers # <<>>
    BY <1>1
  <2> HIDE DEF Tier
  <2>3. /\ Len(FeeTiers) \in Nat \ {0} /\ DOMAIN FeeTiers = 1..Len(FeeTiers)
        /\ \A i \in DOMAIN FeeTiers : FeeTiers[i] \in Tier
    BY <2>2
  <2> QED
    BY <2>1, <2>3
<1>3. ASSUME NEW cap PROVE FeeTier(cap) \in Rate
  <2> DEFINE reached == {i \in DOMAIN FeeTiers : cap >= FeeTiers[i].threshold}
             last == CHOOSE i \in reached : \A j \in reached : j <= i
  <2>1. reached # {} => last \in DOMAIN FeeTiers
    <3> SUFFICES ASSUME reached # {} PROVE last \in DOMAIN FeeTiers
      OBVIOUS
    <3>1. reached \in SUBSET (1..Len(FeeTiers))
      BY <1>2
    <3> HIDE DEF reached
    <3>2. \E i \in reached : \A j \in reached : j <= i
      BY <1>2, <3>1, LastOf
    <3>3. last \in reached
      BY <3>2
    <3> QED
      BY <1>2, <3>1, <3>3
  <2>2. FeeTier(cap) = FeeTiers[1].fees \/ (reached # {} /\ FeeTier(cap) = FeeTiers[last].fees)
    BY DEF FeeTier
  <2>3. 1 \in DOMAIN FeeTiers
    BY <1>2
  <2> HIDE DEF reached, last
  <2> QED
    BY <1>2, <2>1, <2>2, <2>3
<1> DEFINE cap == (EffectiveQuote(p) * p.supply) \div p.base
           schedule == IF p.canonical THEN FeeTier(cap) ELSE FlatFees
           own == IF p.creatorBps > schedule.creator THEN p.creatorBps ELSE schedule.creator
           creator == IF p.coinCreator THEN own ELSE 0
<1>4. PoolFees(p) = [schedule EXCEPT !.creator = creator]
  BY DEF PoolFees
<1> HIDE DEF cap
<1>5. schedule \in Rate
  BY <1>1, <1>3
<1> HIDE DEF schedule
<1>6. creator \in Nat
  BY <1>5 DEF Rate, Reading
<1> HIDE DEF creator
<1> QED
  BY <1>4, <1>5, <1>6 DEF Rate

-----------------------------------------------------------------------------
(* The quotes *)

\* The bought amount: its price before fees is below the net amount, whose fees
\* the position covers.
LEMMA BuyFits ==
  ASSUME NEW p \in Reading, Usable(p), Priced(p),
         NEW base, base = BuyExactQuoteIn(Position, p, PoolFees(p)), base > 0
  PROVE  /\ base \in Nat /\ p.base \in Nat /\ EffectiveQuote(p) \in Nat /\ Position \in Nat
         /\ \E n \in Nat : /\ WithFees(n + 1, PoolFees(p)) <= Position
                           /\ EffectiveQuote(p) * base + n * base <= n * p.base
<1> DEFINE fees == PoolFees(p)
           net == NetQuote(Position, fees)
           Q == EffectiveQuote(p)
           B == p.base
<1>1. fees \in Rate /\ Position \in Nat /\ B \in Nat \ {0} /\ Q \in Nat \ {0}
  <2>1. Position \in Nat /\ fees \in Rate
    BY FeesTyped, DryRunAssumption
  <2>2. B \in Nat /\ Q \in Int
    BY DEF Reading, EffectiveQuote
  <2>3. B > 0 /\ Q > 0
    BY DEF Priced
  <2> QED
    BY <2>1, <2>2, <2>3
<1>2. net > 0 /\ base = (B * (net - 1)) \div (Q + net - 1)
  <2>1. base # 0
    OBVIOUS
  <2>2. base = IF B = 0 \/ Q = 0 \/ net <= 0 THEN 0 ELSE (B * (net - 1)) \div (Q + net - 1)
    BY DEF BuyExactQuoteIn
  <2>3. ~(net <= 0) /\ base = (B * (net - 1)) \div (Q + net - 1)
    BY <2>1, <2>2, Zenon
  <2>4. net \in Int
    BY <1>1, NetCovered
  <2> HIDE DEF net
  <2> QED
    BY <2>3, <2>4
<1> HIDE DEF fees, Q, B
<1>3. net \in Nat /\ WithFees(net, fees) <= Position
  <2>1. net \in Int /\ WithFees(net, fees) <= Position
    BY <1>1, <1>2, NetCovered
  <2> HIDE DEF net
  <2> QED
    BY <1>2, <2>1
<1> HIDE DEF net
<1> DEFINE n == net - 1
<1>4. n \in Nat /\ net = n + 1 /\ base = (B * n) \div (Q + n)
  BY <1>1, <1>2, <1>3
<1> HIDE DEF n
<1> DEFINE a == B * n
           d == Q + n
<1>5. a \in Nat /\ d \in Nat \ {0} /\ base = a \div d
  BY <1>1, <1>4
<1>6. base \in Nat /\ base * d <= a
  <2> HIDE DEF a, d
  <2> QED
    BY <1>5, Quotients
<1>7. base * d = Q * base + n * base /\ a = n * B
  BY <1>1, <1>4, <1>6
<1>8. Q * base + n * base <= n * B
  BY <1>6, <1>7
<1> QED
  BY <1>1, <1>3, <1>4, <1>6, <1>8 DEF fees, Q, B

\* The program charges no more than the position for it.
LEMMA CostFits ==
  ASSUME NEW p \in Reading, Usable(p), Priced(p),
         NEW base, base = BuyExactQuoteIn(Position, p, PoolFees(p)), base > 0, p.base > base
  PROVE  CostOf(base, p) \in Nat /\ CostOf(base, p) <= Position
<1> DEFINE fees == PoolFees(p)
           Q == EffectiveQuote(p)
           B == p.base
           d == B - base
<1>1. fees \in Rate /\ Position \in Nat /\ B \in Nat /\ Q \in Nat /\ base \in Nat /\ B > base
  BY FeesTyped, BuyFits
<1>2. PICK n \in Nat : WithFees(n + 1, fees) <= Position /\ Q * base + n * base <= n * B
  BY BuyFits
<1>3. CostOf(base, p) = WithFees(CeilDiv(Q * base, d), fees)
  BY DEF CostOf
<1> HIDE DEF fees, Q, B
<1>4. d \in Nat \ {0} /\ n * d = n * B - n * base
  BY <1>1
<1> DEFINE a == Q * base
<1>5. a \in Nat /\ n * base \in Nat /\ n * B \in Nat
  BY <1>1
<1> HIDE DEF a, d
<1>6. a <= n * d
  BY <1>2, <1>4, <1>5 DEF a
<1> DEFINE c == CeilDiv(a, d)
<1>7. c \in Nat /\ c <= n
  BY <1>4, <1>5, <1>6, CeilCovers, CeilAtMost
<1> HIDE DEF c
<1>8. n + 1 - c \in Nat /\ c + (n + 1 - c) = n + 1
  BY <1>7
<1>9. /\ WithFees(c, fees) \in Nat /\ WithFees(n + 1, fees) \in Nat
      /\ WithFees(c, fees) + (n + 1 - c) <= WithFees(n + 1, fees)
  <2> DEFINE k == n + 1 - c
  <2>1. k \in Nat /\ c + k = n + 1
    BY <1>8
  <2> HIDE DEF k
  <2>2. /\ WithFees(c, fees) \in Nat /\ WithFees(c + k, fees) \in Nat
        /\ WithFees(c, fees) + k <= WithFees(c + k, fees)
    BY <1>1, <1>7, <2>1, WithFeesGrows
  <2> QED
    BY <2>1, <2>2 DEF k
<1>10. WithFees(c, fees) <= Position
  BY <1>1, <1>2, <1>8, <1>9
<1> QED
  BY <1>3, <1>9, <1>10 DEF c, a

\* And selling it at once to the same pool brings less.
LEMMA SellLoses ==
  ASSUME NEW p \in Reading, Usable(p), Priced(p),
         NEW base, base = BuyExactQuoteIn(Position, p, PoolFees(p)), base > 0
  PROVE  /\ SellExactBaseIn(base, p, PoolFees(p)) \in Int
         /\ SellExactBaseIn(base, p, PoolFees(p)) < Position
<1> DEFINE fees == PoolFees(p)
           Q == EffectiveQuote(p)
           B == p.base
           gross == (Q * base) \div (B + base)
<1>1. fees \in Rate /\ Position \in Nat /\ B \in Nat /\ Q \in Nat /\ base \in Nat \ {0}
  BY FeesTyped, BuyFits
<1>2. PICK n \in Nat : WithFees(n + 1, fees) <= Position /\ Q * base + n * base <= n * B
  BY BuyFits
<1>3. \/ SellExactBaseIn(base, p, fees) = -1
      \/ SellExactBaseIn(base, p, fees) =
           gross - Fee(gross, fees.lp) - Fee(gross, fees.creator) - Fee(gross, fees.protocol)
  BY DEF SellExactBaseIn
<1> HIDE DEF fees, Q, B
<1>4. gross \in Nat /\ gross <= n
  <2> DEFINE a == Q * base
             d == B + base
  <2>1. a \in Nat /\ d \in Nat \ {0} /\ n * base \in Nat /\ n * B \in Nat /\ n * d = n * B + n * base
    BY <1>1
  <2>2. a <= n * d
    BY <1>2, <2>1
  <2> HIDE DEF a, d
  <2> DEFINE q == a \div d
  <2>3. q \in Nat /\ q * d <= a
    BY <2>1, Quotients
  <2> HIDE DEF q
  <2>4. q <= n
    <3>1. SUFFICES ASSUME n + 1 <= q PROVE FALSE
      BY <2>3
    <3>2. (n + 1) * d <= q * d /\ (n + 1) * d = n * d + d /\ n * d \in Nat /\ q * d \in Nat
      BY <2>1, <2>3, <3>1, Products
    <3> QED
      BY <2>1, <2>2, <2>3, <3>2
  <2> QED
    BY <2>3, <2>4 DEF q, a, d
<1> HIDE DEF gross
<1>5. \A bps \in Nat : Fee(gross, bps) \in Nat
  BY <1>4, FeeGrows
<1>6. fees.lp \in Nat /\ fees.protocol \in Nat /\ fees.creator \in Nat
  BY <1>1 DEF Rate
<1>7. n + 1 <= Position
  <2>1. n + 1 \in Nat /\ 0 \in Nat
    OBVIOUS
  <2>2. WithFees(n + 1, fees) \in Nat /\ n + 1 <= WithFees(n + 1, fees)
    BY <1>1, <2>1, WithFeesGrows
  <2> QED
    BY <1>1, <1>2, <2>2
<1>8. SellExactBaseIn(base, p, fees) \in Int /\ SellExactBaseIn(base, p, fees) < Position
  BY <1>1, <1>3, <1>4, <1>5, <1>6, <1>7
<1> QED
  BY <1>8 DEF fees

-----------------------------------------------------------------------------
(* The dry run *)

Read == {"authority", "holders", "config", "buy", "seller", "sell"}
Quoted == {"buy", "seller", "sell"}

DryTyped ==
  /\ pool \in Reading /\ snap \in Reading /\ wallet \in Nat /\ moves \in Nat
  /\ quote = [base |-> quote.base, out |-> quote.out, pre |-> quote.pre, spent |-> quote.spent,
              got |-> quote.got, seller |-> quote.seller]

\* The quote is the model's of the pool as read, and while nothing moved that is
\* the pool as it is, the balance before the buy is the one on the chain, and
\* what the simulation said of the buy agrees with the quote.
DrySound ==
  /\ stage \in Read => Usable(snap) /\ Priced(snap) /\ (moves = 0 => snap = pool)
  /\ stage \in Quoted =>
       /\ quote.base = BuyExactQuoteIn(Position, snap, PoolFees(snap)) /\ quote.base > 0
       /\ quote.out = SellExactBaseIn(quote.base, snap, PoolFees(snap))
  /\ stage = "buy" /\ moves = 0 => quote.pre = wallet
  /\ stage \in {"seller", "sell"} /\ moves = 0 => quote.got = quote.base /\ quote.spent <= Position
  /\ result.what = "measured" => stage = "idle"
  /\ MeasuresTheModel

DryInv == DryTyped /\ DrySound

LEMMA InitDry == DryInit => DryInv
<1> SUFFICES ASSUME DryInit PROVE DryInv
  OBVIOUS
<1>1. pool \in Reading /\ snap = pool /\ wallet \in Nat /\ moves = 0
  BY DryRunAssumption DEF DryInit
<1>2. quote = NoQuote /\ stage = "idle" /\ result.what = "none"
  BY DEF DryInit, NoResult
<1>3. DryTyped
  BY <1>1, <1>2 DEF DryTyped, NoQuote
<1>4. DrySound
  BY <1>2 DEF DrySound, MeasuresTheModel, Read, Quoted
<1> QED
  BY <1>3, <1>4 DEF DryInv

\* The chain moves in an iteration, which has measured nothing yet.
LEMMA MoveKeeps ==
  ASSUME DryInv, Moving, UNCHANGED <<stage, snap, quote, result>>,
         pool' \in Reading, wallet' \in Nat
  PROVE  DryInv'
<1>1. stage # "idle" /\ moves' = moves + 1 /\ moves \in Nat
  BY DEF Moving, DryInv, DryTyped
<1>2. moves' # 0 /\ moves' \in Nat
  BY <1>1
<1>3. result.what # "measured"
  BY <1>1 DEF DryInv, DrySound
<1>4. DryTyped'
  BY <1>2 DEF DryInv, DryTyped
<1>5. DrySound'
  BY <1>2, <1>3 DEF DryInv, DrySound, MeasuresTheModel
<1> QED
  BY <1>4, <1>5 DEF DryInv

LEMMA WorldKeeps ==
  ASSUME DryInv,
         \/ \E p \in Pools : Trades(p)
         \/ \E d \in Dists : Redistributes(d)
         \/ \E w \in Wallets : PayerMoves(w)
         \/ \E side \in {"buy", "sell"} : Disables(side)
         \/ GivesUp
  PROVE  DryInv'
<1>1. pool \in Reading /\ wallet \in Nat
  BY DEF DryInv, DryTyped
<1>2. Pools \subseteq Reading /\ Wallets \subseteq Nat
  BY DryRunAssumption DEF DryInv
<1>3. ASSUME NEW p \in Pools, Trades(p) PROVE DryInv'
  <2>1. pool' = [pool EXCEPT !.base = p.base, !.vault = p.vault, !.buckets = p.buckets]
    BY <1>3 DEF Trades
  <2>2. p.base \in Nat /\ p.vault \in Nat /\ p.buckets \in Nat
    BY <1>2 DEF Reading
  <2>3. pool' \in Reading
    BY <1>1, <2>1, <2>2 DEF Reading
  <2> QED
    BY <1>1, <1>3, <2>3, MoveKeeps DEF Trades, Unmoved
<1>4. ASSUME NEW d \in Dists, Redistributes(d) PROVE DryInv'
  BY <1>1, <1>4, MoveKeeps DEF Redistributes, Unmoved
<1>5. ASSUME NEW w \in Wallets, PayerMoves(w) PROVE DryInv'
  BY <1>1, <1>2, <1>5, MoveKeeps DEF PayerMoves, Unmoved
<1>6. ASSUME NEW side \in {"buy", "sell"}, Disables(side) PROVE DryInv'
  BY <1>1, <1>6, MoveKeeps DEF Disables, Unmoved
<1>7. CASE GivesUp
  BY <1>1, <1>7, MoveKeeps DEF GivesUp, Unmoved
<1> QED
  BY <1>3, <1>4, <1>5, <1>6, <1>7

LEMMA StaysKeep ==
  ASSUME DryInv, UNCHANGED <<pool, wallet, moves, stage, snap, quote, result>>
  PROVE  DryInv'
<1>1. DryTyped'
  BY DEF DryInv, DryTyped
<1>2. DrySound'
  BY DEF DryInv, DrySound, MeasuresTheModel
<1> QED
  BY <1>1, <1>2 DEF DryInv

\* What every step of the iteration but its begin leaves alone.
LEMMA QuietIs == Quiet => UNCHANGED <<pool, wallet, disabled, moves>>
  BY DEF Quiet, chain

\* An iteration that ends without a measurement.
LEMMA EndKeeps ==
  ASSUME DryInv, Quiet, NEW what \in {"error", "rejected"}, EndsWith(what)
  PROVE  DryInv'
<1>1. /\ stage' = "idle" /\ snap' = pool /\ quote' = NoQuote /\ result'.what = what
      /\ UNCHANGED <<pool, wallet, moves>>
  BY QuietIs DEF EndsWith, NoResult
<1>2. DryTyped'
  BY <1>1 DEF DryInv, DryTyped, NoQuote
<1>3. DrySound'
  BY <1>1 DEF DrySound, MeasuresTheModel, Read, Quoted
<1> QED
  BY <1>2, <1>3 DEF DryInv

\* The gates before the quote.
LEMMA GateKeeps ==
  ASSUME DryInv, Quiet, UNCHANGED <<snap, quote, result>>, stage # "idle",
         stage' \in {"snapshot", "holders", "config"}, stage' = "snapshot" \/ stage \in Read
  PROVE  DryInv'
<1>1. UNCHANGED <<pool, wallet, moves>>
  BY QuietIs
<1>2. result.what # "measured"
  BY DEF DryInv, DrySound
<1>3. DryTyped'
  BY <1>1 DEF DryInv, DryTyped
<1>4. DrySound'
  BY <1>1, <1>2 DEF DryInv, DrySound, MeasuresTheModel, Read, Quoted
<1> QED
  BY <1>3, <1>4 DEF DryInv

LEMMA GatesKeep ==
  ASSUME DryInv,
         \/ Fails \/ LearnVaults \/ AuthorityPasses \/ AuthorityRejects
         \/ UseCachedHolders \/ StillFailing \/ HoldersFail
         \/ \E readable \in {{}, ProgramOwned} : ReadHolders(readable)
  PROVE  DryInv'
<1>1. CASE Fails \/ AuthorityRejects \/ StillFailing \/ HoldersFail
  BY <1>1, EndKeeps DEF Fails, AuthorityRejects, StillFailing, HoldersFail
<1>2. CASE LearnVaults \/ AuthorityPasses
  BY <1>2, GateKeeps DEF LearnVaults, AuthorityPasses, Read
<1>3. ASSUME NEW stats, Judges(stats), Quiet, stage = "holders" PROVE DryInv'
  <2>1. (stage' = "config" /\ UNCHANGED <<snap, quote, result>>) \/ EndsWith("rejected")
    BY <1>3 DEF Judges
  <2>2. CASE EndsWith("rejected")
    BY <1>3, <2>2, EndKeeps
  <2>3. CASE stage' = "config" /\ UNCHANGED <<snap, quote, result>>
    BY <1>3, <2>3, GateKeeps DEF Read
  <2> QED
    BY <2>1, <2>2, <2>3
<1>4. CASE UseCachedHolders
  BY <1>3, <1>4 DEF UseCachedHolders
<1>5. ASSUME NEW readable, ReadHolders(readable) PROVE DryInv'
  BY <1>3, <1>5 DEF ReadHolders
<1> QED
  BY <1>1, <1>2, <1>4, <1>5

LEMMA BeginKeeps == DryInv /\ Begin => DryInv'
<1> SUFFICES ASSUME DryInv, Begin PROVE DryInv'
  OBVIOUS
<1>1. /\ stage' \in {"vaults", "snapshot"} /\ moves' = 0 /\ result'.what = "none"
      /\ UNCHANGED <<pool, wallet, snap, quote>>
  BY DEF Begin, chain, NoResult
<1>2. DryTyped'
  BY <1>1 DEF DryInv, DryTyped
<1>3. DrySound'
  BY <1>1 DEF DrySound, MeasuresTheModel, Read, Quoted
<1> QED
  BY <1>2, <1>3 DEF DryInv

LEMMA SnapshotKeeps == DryInv /\ TakeSnapshot => DryInv'
<1> SUFFICES ASSUME DryInv, TakeSnapshot PROVE DryInv'
  OBVIOUS
<1>1. /\ stage = "snapshot" /\ stage' \in {"holders", "authority"} /\ snap' = pool
      /\ Usable(pool) /\ Priced(pool) /\ UNCHANGED <<pool, wallet, moves, quote, result>>
  BY QuietIs DEF TakeSnapshot
<1>2. result.what # "measured"
  BY <1>1 DEF DryInv, DrySound
<1>3. DryTyped'
  BY <1>1 DEF DryInv, DryTyped
<1>4. Usable(snap)' /\ Priced(snap)'
  BY <1>1
<1>5. DrySound'
  BY <1>1, <1>2, <1>4 DEF DrySound, MeasuresTheModel, Quoted
<1> QED
  BY <1>3, <1>5 DEF DryInv

LEMMA ConfigKeeps == DryInv /\ ReadConfig => DryInv'
<1> SUFFICES ASSUME DryInv, ReadConfig PROVE DryInv'
  OBVIOUS
<1> DEFINE base == BuyExactQuoteIn(Position, snap, PoolFees(snap))
           out == SellExactBaseIn(base, snap, PoolFees(snap))
           seller == IF "sell" \in disabled THEN "disabled" ELSE "none"
<1>1. /\ stage = "config" /\ stage' = "buy" /\ base > 0
      /\ quote' = [quote EXCEPT !.base = base, !.pre = wallet, !.out = out, !.seller = seller]
      /\ UNCHANGED <<pool, wallet, moves, snap, result>>
  BY QuietIs DEF ReadConfig
<1> HIDE DEF base, out, seller
<1>2. /\ quote'.base = base /\ quote'.pre = wallet /\ quote'.out = out
      /\ quote' = [base |-> quote'.base, out |-> quote'.out, pre |-> quote'.pre, spent |-> quote'.spent,
                   got |-> quote'.got, seller |-> quote'.seller]
  BY <1>1 DEF DryInv, DryTyped
<1>3. result.what # "measured" /\ Usable(snap) /\ Priced(snap) /\ (moves = 0 => snap = pool)
  BY <1>1 DEF DryInv, DrySound, Read
<1>4. DryTyped'
  BY <1>1, <1>2 DEF DryInv, DryTyped
<1>5. DrySound'
  BY <1>1, <1>2, <1>3 DEF DrySound, MeasuresTheModel, base, out
<1> QED
  BY <1>4, <1>5 DEF DryInv

LEMMA BuyKeeps == DryInv /\ SimulateBuy => DryInv'
<1> SUFFICES ASSUME DryInv, SimulateBuy PROVE DryInv'
  OBVIOUS
<1> DEFINE after == SimulatedBuy(quote.base)
           spent == quote.pre + MaxIn - after[1]
           got == after[2]
<1>1. /\ stage = "buy" /\ stage' = "seller" /\ after # <<>>
      /\ quote' = [quote EXCEPT !.spent = spent, !.got = got]
      /\ UNCHANGED <<pool, wallet, moves, snap, result>>
  BY QuietIs DEF SimulateBuy
<1>2. /\ Executes(quote.base)
      /\ after[1] = PostBuy(quote.base) /\ got = quote.base
  BY <1>1 DEF SimulatedBuy
<1>3. /\ result.what # "measured" /\ Usable(snap) /\ Priced(snap) /\ snap \in Reading
      /\ quote.base = BuyExactQuoteIn(Position, snap, PoolFees(snap)) /\ quote.base > 0
      /\ quote.out = SellExactBaseIn(quote.base, snap, PoolFees(snap))
      /\ moves = 0 => snap = pool /\ quote.pre = wallet
      /\ wallet \in Nat
  BY <1>1 DEF DryInv, DryTyped, DrySound, Read, Quoted
<1>4. ASSUME moves = 0 PROVE spent <= Position
  <2> DEFINE cost == CostOf(quote.base, pool)
             most == MaxIn
  <2>1. pool.base > quote.base
    BY <1>2 DEF Executes
  <2>2. cost \in Nat /\ cost <= Position
    BY <1>3, <1>4, <2>1, CostFits DEF DryInv
  <2>3. most \in Nat
    <3>1. Position \in Nat /\ Slippage \in Nat /\ Bps \in Nat \ {0}
      BY DryRunAssumption, PumpAssumption
    <3> DEFINE a == Position * Slippage
    <3>2. a \in Nat
      BY <3>1
    <3> HIDE DEF a
    <3>3. a \div Bps \in Nat
      BY <3>1, <3>2, Quotients
    <3> QED
      BY <3>1, <3>3 DEF MaxIn, a
  <2>4. after[1] = wallet + most - cost /\ quote.pre = wallet
    BY <1>2, <1>3, <1>4 DEF PostBuy
  <2>5. spent = quote.pre + most - after[1]
    OBVIOUS
  <2> HIDE DEF cost, most, after, spent
  <2>6. spent = cost
    BY <1>3, <2>2, <2>3, <2>4, <2>5
  <2> QED
    BY <2>2, <2>6
<1> HIDE DEF after, spent, got
<1>5. /\ quote'.base = quote.base /\ quote'.out = quote.out /\ quote'.spent = spent /\ quote'.got = got
      /\ quote' = [base |-> quote'.base, out |-> quote'.out, pre |-> quote'.pre, spent |-> quote'.spent,
                   got |-> quote'.got, seller |-> quote'.seller]
  BY <1>1 DEF DryInv, DryTyped
<1>6. DryTyped'
  BY <1>1, <1>5 DEF DryInv, DryTyped
<1>7. DrySound'
  BY <1>1, <1>2, <1>3, <1>4, <1>5 DEF DrySound, MeasuresTheModel
<1> QED
  BY <1>6, <1>7 DEF DryInv

LEMMA PickKeeps ==
  ASSUME DryInv, NEW a, PickHolder(a)
  PROVE  DryInv'
<1>1. /\ stage = "seller" /\ stage' = "sell" /\ quote' = [quote EXCEPT !.seller = a]
      /\ UNCHANGED <<pool, wallet, moves, snap, result>>
  BY QuietIs DEF PickHolder
<1>2. /\ quote'.base = quote.base /\ quote'.out = quote.out /\ quote'.spent = quote.spent /\ quote'.got = quote.got
      /\ quote' = [base |-> quote'.base, out |-> quote'.out, pre |-> quote'.pre, spent |-> quote'.spent,
                   got |-> quote'.got, seller |-> quote'.seller]
  BY <1>1 DEF DryInv, DryTyped
<1>3. DryTyped'
  BY <1>1, <1>2 DEF DryInv, DryTyped
<1>4. result.what # "measured"
  BY <1>1 DEF DryInv, DrySound
<1>5. DrySound'
  BY <1>1, <1>2, <1>4 DEF DryInv, DrySound, MeasuresTheModel, Read, Quoted
<1> QED
  BY <1>3, <1>5 DEF DryInv

\* An iteration that ends with a measurement.
LEMMA MeasureKeeps ==
  ASSUME DryInv, Quiet, stage \in {"seller", "sell"}, NEW received, Measured(received),
         received = -1 \/ received = SellExactBaseIn(quote.base, pool, PoolFees(pool))
  PROVE  DryInv'
<1>1. /\ stage' = "idle" /\ snap' = pool /\ quote' = NoQuote
      /\ result' = [what |-> "measured", base |-> quote.base, out |-> quote.out, spent |-> quote.spent,
                      got |-> quote.got, received |-> received]
      /\ UNCHANGED <<pool, wallet, moves>>
  BY QuietIs DEF Measured
<1>2. /\ Usable(snap) /\ Priced(snap) /\ snap \in Reading
      /\ quote.base = BuyExactQuoteIn(Position, snap, PoolFees(snap)) /\ quote.base > 0
      /\ quote.out = SellExactBaseIn(quote.base, snap, PoolFees(snap))
      /\ moves = 0 => snap = pool /\ quote.got = quote.base /\ quote.spent <= Position
  BY DEF DryInv, DryTyped, DrySound, Read, Quoted
<1>3. quote.out < Position
  BY <1>2, SellLoses DEF DryInv
<1>4. DryTyped'
  BY <1>1 DEF DryInv, DryTyped, NoQuote
<1>5. MeasuresTheModel'
  BY <1>1, <1>2, <1>3 DEF MeasuresTheModel
<1>6. DrySound'
  BY <1>1, <1>5 DEF DrySound, Read, Quoted
<1> QED
  BY <1>4, <1>6 DEF DryInv

LEMMA NextDry == DryInv /\ [DryNext]_dryVars => DryInv'
<1> SUFFICES ASSUME DryInv, [DryNext]_dryVars PROVE DryInv'
  OBVIOUS
<1>1. CASE TimePasses \/ UNCHANGED dryVars
  BY <1>1, StaysKeep DEF TimePasses, dryVars, chain, Unmoved
<1>2. CASE NoHolder
  BY <1>2, MeasureKeeps DEF NoHolder
<1>3. CASE SimulateSell
  BY <1>3, MeasureKeeps DEF SimulateSell
<1> QED
  BY <1>1, <1>2, <1>3, WorldKeeps, GatesKeep, BeginKeeps, SnapshotKeeps, ConfigKeeps, BuyKeeps, PickKeeps
     DEF DryNext

\* A dry run during which nothing moved measures what the model says: the buy
\* costs no more than the position, the sale brings the quoted amount, and the
\* round trip loses.  For any fee schedule, reserves, position and tolerance.
THEOREM Measures == DrySpec => []MeasuresTheModel
<1>1. DryInv => MeasuresTheModel
  BY DEF DryInv, DrySound
<1> QED
  BY <1>1, InitDry, NextDry, PTL DEF DrySpec

-----------------------------------------------------------------------------
(* Statistics of fewer holders *)

\* A sum over fewer elements is not greater.
LEMMA SumsGrow ==
  ASSUME NEW T, IsFiniteSet(T), NEW S \in SUBSET T,
         NEW f \in [T -> Nat], NEW g \in [S -> Nat], \A x \in S : g[x] = f[x],
         NEW it, Sums(f, T, it), NEW jt, Sums(g, S, jt)
  PROVE  it[T] \in Nat /\ jt[S] \in Nat /\ jt[S] <= it[T]
<1> DEFINE Bad == {t \in SUBSET T : ~(jt[t \cap S] <= it[t])}
<1>1. IsFiniteSet(S)
  BY FS_Subset
<1>2. it \in [SUBSET T -> Nat] /\ jt \in [SUBSET S -> Nat]
  BY <1>1, SumsType
<1>3. /\ \A t \in SUBSET T : it[t] = SumAt(f, it, t)
      /\ \A s \in SUBSET S : jt[s] = SumAt(g, jt, s)
  BY DEF Sums, SumAt
<1>4. \A s \in SUBSET S : \A x \in s : jt[s] = g[x] + jt[s \ {x}]
  <2>1. AnyLast(g, S, jt)
    BY <1>1, SumsRemove
  <2> QED
    BY <2>1 DEF AnyLast
<1>5. ASSUME Bad # {} PROVE FALSE
  <2>1. PICK t \in Bad : \A u \in Bad : u \subseteq t => u = t
    <3>1. Bad \in SUBSET SUBSET T
      OBVIOUS
    <3> HIDE DEF Bad
    <3> QED
      BY <1>5, <3>1, SmallestSubset
  <2>2. t \in SUBSET T /\ ~(jt[t \cap S] <= it[t]) /\ t \cap S \in SUBSET S
    BY <2>1
  <2>3. t # {}
    <3>1. ASSUME t = {} PROVE jt[t \cap S] = 0 /\ it[t] = 0
      BY <1>3, <2>2, <3>1 DEF SumAt
    <3> QED
      BY <2>2, <3>1
  <2> DEFINE z == CHOOSE w \in t : TRUE
             less == t \ {z}
  <2>4. z \in t /\ it[t] = f[z] + it[less]
    BY <1>3, <2>2, <2>3 DEF SumAt
  <2>5. less \in SUBSET T /\ less \subseteq t /\ less # t
    BY <2>2, <2>4
  <2>6. jt[less \cap S] <= it[less]
    BY <2>1, <2>5
  <2>7. jt[less \cap S] \in Nat /\ it[less] \in Nat /\ f[z] \in Nat
    BY <1>2, <2>2, <2>4, <2>5
  <2>8. CASE z \in S
    <3> HIDE DEF z
    <3>1. z \in t \cap S /\ t \cap S \in SUBSET S
      BY <2>2, <2>4, <2>8
    <3>2. jt[t \cap S] = g[z] + jt[(t \cap S) \ {z}]
      BY <1>4, <3>1
    <3>3. (t \cap S) \ {z} = less \cap S
      OBVIOUS
    <3>4. jt[t \cap S] = f[z] + jt[less \cap S]
      BY <2>8, <3>2, <3>3
    <3> HIDE DEF less
    <3> QED
      BY <2>2, <2>4, <2>6, <2>7, <3>4
  <2>9. CASE z \notin S
    <3>1. t \cap S = less \cap S
      BY <2>9
    <3> HIDE DEF z, less
    <3> QED
      BY <2>2, <2>4, <2>6, <2>7, <3>1
  <2> QED
    BY <2>8, <2>9
<1>6. jt[T \cap S] <= it[T] /\ T \cap S = S
  BY <1>5
<1> QED
  BY <1>2, <1>6

\* What the accounts of A hold together.
HeldBy(d, A) == MapThenSumSet(LAMBDA a : d[a], A)

LEMMA HeldIsSum ==
  ASSUME NEW d, NEW A, IsFiniteSet(A), \A a \in A : d[a] \in Nat
  PROVE  \E it : Sums([a \in A |-> d[a]], A, it) /\ HeldBy(d, A) = it[A]
<1> DEFINE f == [a \in A |-> d[a]]
<1>1. f \in [A -> Nat]
  OBVIOUS
<1>2. PICK it : Sums(f, A, it)
  <2> HIDE DEF f
  <2> QED
    BY <1>1, SumsExist
<1>3. ASSUME NEW jt PROVE \A s \in SUBSET A :
        SumAt(f, jt, s) = IF s = {} THEN 0 ELSE LET x == CHOOSE y \in s : TRUE IN d[x] + jt[s \ {x}]
  BY DEF SumAt
<1>4. it = [s \in SUBSET A |-> SumAt(f, it, s)]
  BY <1>2 DEF Sums, SumAt
<1>5. it = [s \in SUBSET A |-> IF s = {} THEN 0 ELSE LET x == CHOOSE y \in s : TRUE IN d[x] + it[s \ {x}]]
  BY <1>3, <1>4
<1>6. PICK jt : /\ jt = [s \in SUBSET A |->
                          IF s = {} THEN 0 ELSE LET x == CHOOSE y \in s : TRUE IN d[x] + jt[s \ {x}]]
                /\ HeldBy(d, A) = jt[A]
  <2> DEFINE jt == CHOOSE kt : kt = [s \in SUBSET A |->
                     IF s = {} THEN 0 ELSE LET x == CHOOSE y \in s : TRUE IN d[x] + kt[s \ {x}]]
  <2>1. jt = [s \in SUBSET A |-> IF s = {} THEN 0 ELSE LET x == CHOOSE y \in s : TRUE IN d[x] + jt[s \ {x}]]
    BY <1>5
  <2>2. HeldBy(d, A) = jt[A]
    BY DEF HeldBy, MapThenSumSet, MapThenFoldSet
  <2> HIDE DEF jt
  <2> QED
    BY <2>1, <2>2
<1>7. jt = [s \in SUBSET A |-> SumAt(f, jt, s)]
  <2>1. \A s \in SUBSET A :
          SumAt(f, jt, s) = IF s = {} THEN 0 ELSE LET x == CHOOSE y \in s : TRUE IN d[x] + jt[s \ {x}]
    BY <1>3
  <2> QED
    BY <1>6, <2>1
<1>8. Sums(f, A, jt)
  BY <1>7 DEF Sums, SumAt
<1> QED
  BY <1>6, <1>8

\* Some element of a finite set has the greatest value.
LEMMA GreatestExists ==
  ASSUME NEW S, IsFiniteSet(S), S # {}, NEW f \in [S -> Nat]
  PROVE  \E m \in S : \A x \in S : f[x] <= f[m]
<1> DEFINE Bad == {t \in SUBSET S : t # {} /\ ~\E m \in t : \A x \in t : f[x] <= f[m]}
<1>1. ASSUME Bad # {} PROVE FALSE
  <2>1. PICK t \in Bad : \A u \in Bad : u \subseteq t => u = t
    <3>1. Bad \in SUBSET SUBSET S
      OBVIOUS
    <3> HIDE DEF Bad
    <3> QED
      BY <1>1, <3>1, SmallestSubset
  <2>2. PICK z \in t : TRUE
    OBVIOUS
  <2>3. t \ {z} \in SUBSET S /\ t \ {z} # t /\ t \ {z} \subseteq t /\ f[z] \in Nat
    BY <2>1
  <2>4. t \ {z} # {}
    <3>1. ASSUME t \ {z} = {} PROVE \A x \in t : x = z
      BY <3>1
    <3> QED
      BY <2>1, <2>3, <3>1
  <2>5. PICK m \in t \ {z} : \A x \in t \ {z} : f[x] <= f[m]
    BY <2>1, <2>3, <2>4
  <2>6. f[m] \in Nat /\ \A x \in t : x = z \/ f[x] <= f[m]
    BY <2>1, <2>5
  <2>7. CASE f[z] <= f[m]
    BY <2>1, <2>5, <2>6, <2>7
  <2>8. CASE f[m] < f[z]
    <3>1. \A x \in t : f[x] \in Nat
      BY <2>1
    <3>2. \A x \in t : f[x] <= f[z]
      BY <2>3, <2>6, <2>8, <3>1
    <3> QED
      BY <2>1, <2>2, <3>2
  <2> QED
    BY <2>3, <2>6, <2>7, <2>8
<1>2. S \notin Bad
  BY <1>1
<1> QED
  BY <1>2

\* The largest value of f.
Greatest(f, S) == Largest({f[x] : x \in S})

LEMMA LargestIs ==
  ASSUME NEW S, IsFiniteSet(S), NEW f \in [S -> Nat]
  PROVE  LET l == Greatest(f, S)
         IN  /\ l \in Nat /\ \A x \in S : f[x] <= l
             /\ IF S = {} THEN l = 0 ELSE \E m \in S : l = f[m]
<1> DEFINE V == {f[x] : x \in S}
<1>1. CASE S = {}
  BY <1>1 DEF Greatest, Largest
<1>2. CASE S # {}
  <2>1. PICK m \in S : \A x \in S : f[x] <= f[m]
    BY <1>2, GreatestExists
  <2>2. V # {} /\ f[m] \in V /\ \A y \in V : y <= f[m]
    BY <2>1
  <2>3. Largest(V) \in V /\ \A y \in V : y <= Largest(V)
    <3> HIDE DEF V
    <3> QED
      BY <2>2 DEF Largest
  <2> QED
    BY <1>2, <2>3 DEF Greatest
<1> QED
  BY <1>1, <1>2

\* Fewer values, none of them greater: a largest one that is not greater.
LEMMA LargestGrows ==
  ASSUME NEW T, IsFiniteSet(T), NEW S \in SUBSET T,
         NEW f \in [T -> Nat], NEW g \in [S -> Nat], \A x \in S : g[x] <= f[x]
  PROVE  Greatest(g, S) \in Nat /\ Greatest(f, T) \in Nat /\ Greatest(g, S) <= Greatest(f, T)
<1> DEFINE k == Greatest(g, S)
           l == Greatest(f, T)
<1>1. IsFiniteSet(S)
  BY FS_Subset
<1>2. k \in Nat /\ IF S = {} THEN k = 0 ELSE \E m \in S : k = g[m]
  BY <1>1, LargestIs
<1>3. l \in Nat /\ \A x \in T : f[x] <= l
  BY LargestIs
<1> HIDE DEF k, l
<1>4. ASSUME S = {} PROVE k <= l
  BY <1>2, <1>3, <1>4
<1>5. ASSUME S # {} PROVE k <= l
  <2>1. PICK m \in S : k = g[m]
    BY <1>2, <1>5
  <2>2. g[m] <= f[m] /\ f[m] <= l /\ g[m] \in Nat /\ f[m] \in Nat
    BY <1>3
  <2> QED
    BY <1>2, <1>3, <2>1, <2>2
<1>6. k \in Nat /\ l \in Nat /\ k <= l
  BY <1>2, <1>3, <1>4, <1>5
<1> QED
  BY <1>6 DEF k, l

LEMMA PercentGrows ==
  ASSUME NEW a \in Nat, NEW b \in Nat, a <= b
  PROVE  Percent(a) \in Nat /\ Percent(b) \in Nat /\ Percent(a) <= Percent(b)
<1> DEFINE n == 2 * Supply
           x == 20000 * a + Supply
           y == 20000 * b + Supply
           p == x \div n
           q == y \div n
<1>1. n \in Nat \ {0} /\ x \in Nat /\ y \in Nat /\ x <= y
  BY HolderAssumption
<1>2. Percent(a) = p /\ Percent(b) = q
  BY DEF Percent
<1> HIDE DEF n, x, y
<1>3. p \in Nat /\ p * n <= x /\ q \in Nat /\ y < q * n + n
  BY <1>1, Quotients
<1> HIDE DEF p, q
<1>4. ASSUME q < p PROVE FALSE
  <2>1. q + 1 \in Nat /\ q + 1 <= p
    BY <1>3, <1>4
  <2>2. (q + 1) * n <= p * n /\ p * n \in Nat /\ q * n \in Nat
    BY <1>1, <1>3, <2>1, Products
  <2>3. (q + 1) * n = q * n + n
    BY <1>1, <1>3
  <2> QED
    BY <1>1, <1>3, <2>2, <2>3
<1> QED
  BY <1>2, <1>3, <1>4

\* How many of the accounts A hold as much as a.
Alike(d, A, a) == IF d[a] = 0 THEN 0 ELSE Cardinality({b \in A : d[b] = d[a]})

LEMMA AlikeGrows ==
  ASSUME NEW T, IsFiniteSet(T), NEW S \in SUBSET T, NEW d, NEW a
  PROVE  Alike(d, S, a) \in Nat /\ Alike(d, T, a) \in Nat /\ Alike(d, S, a) <= Alike(d, T, a)
<1> DEFINE s == {b \in S : d[b] = d[a]}
           t == {b \in T : d[b] = d[a]}
<1>1. t \in SUBSET T /\ s \in SUBSET t
  OBVIOUS
<1>2. IsFiniteSet(t)
  BY <1>1, FS_Subset
<1>3. IsFiniteSet(s) /\ Cardinality(s) <= Cardinality(t)
  BY <1>1, <1>2, FS_Subset
<1>4. Cardinality(s) \in Nat /\ Cardinality(t) \in Nat
  BY <1>2, <1>3, FS_CardinalityType
<1> QED
  BY <1>3, <1>4 DEF Alike

\* The statistics, over any choice of accounts.
Stats(d, A) ==
  [sampled |-> Cardinality(A), top |-> Percent(Largest({d[a] : a \in A})),
   all |-> Percent(HeldBy(d, A)), identical |-> Largest({Alike(d, A, a) : a \in A})]

LEMMA StatsOfCounted ==
  ASSUME NEW d, NEW readable
  PROVE  HolderStats(d, readable) = Stats(d, Counted(d, readable))
  BY DEF HolderStats, Stats, HeldBy, Alike

\* Some holders of a spread token, taken alone, are spread too.
LEMMA SpreadOfSome ==
  ASSUME NEW T, IsFiniteSet(T), NEW S \in SUBSET T, S # {},
         NEW d, \A a \in T : d[a] \in Nat, Spread(Stats(d, T))
  PROVE  Spread(Stats(d, S))
<1> DEFINE f == [a \in T |-> d[a]]
           g == [a \in S |-> d[a]]
           F == [a \in T |-> Alike(d, T, a)]
           G == [a \in S |-> Alike(d, S, a)]
<1>1. IsFiniteSet(S)
  BY FS_Subset
<1>2. Cardinality(S) \in Nat /\ Cardinality(S) # 0
  BY <1>1, FS_CardinalityType, FS_EmptySet
<1>3. f \in [T -> Nat] /\ g \in [S -> Nat] /\ \A a \in S : g[a] = f[a]
  OBVIOUS
<1>4. F \in [T -> Nat] /\ G \in [S -> Nat] /\ \A a \in S : G[a] <= F[a]
  BY AlikeGrows
<1>5. /\ Largest({d[a] : a \in S}) \in Nat /\ Largest({d[a] : a \in T}) \in Nat
      /\ Largest({d[a] : a \in S}) <= Largest({d[a] : a \in T})
  <2>1. Largest({d[a] : a \in T}) = Greatest(f, T) /\ Largest({d[a] : a \in S}) = Greatest(g, S)
    <3>1. {d[a] : a \in T} = {f[a] : a \in T} /\ {d[a] : a \in S} = {g[a] : a \in S}
      OBVIOUS
    <3> QED
      BY <3>1 DEF Greatest
  <2>2. \A a \in S : g[a] <= f[a]
    OBVIOUS
  <2> HIDE DEF f, g
  <2>3. Greatest(g, S) \in Nat /\ Greatest(f, T) \in Nat /\ Greatest(g, S) <= Greatest(f, T)
    BY <1>3, <2>2, LargestGrows
  <2> QED
    BY <2>1, <2>3
<1>6. /\ Largest({Alike(d, S, a) : a \in S}) \in Nat /\ Largest({Alike(d, T, a) : a \in T}) \in Nat
      /\ Largest({Alike(d, S, a) : a \in S}) <= Largest({Alike(d, T, a) : a \in T})
  <2>1. /\ Largest({Alike(d, T, a) : a \in T}) = Greatest(F, T)
        /\ Largest({Alike(d, S, a) : a \in S}) = Greatest(G, S)
    <3>1. /\ {Alike(d, T, a) : a \in T} = {F[a] : a \in T}
          /\ {Alike(d, S, a) : a \in S} = {G[a] : a \in S}
      OBVIOUS
    <3> QED
      BY <3>1 DEF Greatest
  <2> HIDE DEF F, G
  <2>2. Greatest(G, S) \in Nat /\ Greatest(F, T) \in Nat /\ Greatest(G, S) <= Greatest(F, T)
    BY <1>4, LargestGrows
  <2> QED
    BY <2>1, <2>2
<1>7. HeldBy(d, T) \in Nat /\ HeldBy(d, S) \in Nat /\ HeldBy(d, S) <= HeldBy(d, T)
  <2>1. PICK it : Sums(f, T, it) /\ HeldBy(d, T) = it[T]
    BY HeldIsSum
  <2>2. PICK jt : Sums(g, S, jt) /\ HeldBy(d, S) = jt[S]
    BY <1>1, HeldIsSum
  <2> HIDE DEF f, g
  <2>3. it[T] \in Nat /\ jt[S] \in Nat /\ jt[S] <= it[T]
    BY <1>3, <2>1, <2>2, SumsGrow
  <2> QED
    BY <2>1, <2>2, <2>3
<1> HIDE DEF f, g, F, G
<1>8. /\ Percent(Largest({d[a] : a \in S})) \in Nat /\ Percent(Largest({d[a] : a \in T})) \in Nat
      /\ Percent(Largest({d[a] : a \in S})) <= Percent(Largest({d[a] : a \in T}))
      /\ Percent(HeldBy(d, S)) \in Nat /\ Percent(HeldBy(d, T)) \in Nat
      /\ Percent(HeldBy(d, S)) <= Percent(HeldBy(d, T))
  BY <1>5, <1>7, PercentGrows
<1>9. /\ Stats(d, S).sampled = Cardinality(S)
      /\ Stats(d, S).top = Percent(Largest({d[a] : a \in S})) /\ Stats(d, T).top = Percent(Largest({d[a] : a \in T}))
      /\ Stats(d, S).all = Percent(HeldBy(d, S)) /\ Stats(d, T).all = Percent(HeldBy(d, T))
      /\ Stats(d, S).identical = Largest({Alike(d, S, a) : a \in S})
      /\ Stats(d, T).identical = Largest({Alike(d, T, a) : a \in T})
  BY DEF Stats
<1>10. Stats(d, T).top <= MaxSingle /\ Stats(d, T).all <= MaxTop /\ Stats(d, T).identical < MaxIdentical
  BY DEF Spread
<1>11. MaxSingle \in Nat /\ MaxTop \in Nat /\ MaxIdentical \in Nat
  BY HolderAssumption
<1>12. Stats(d, S).top <= MaxSingle
  BY <1>8, <1>9, <1>10, <1>11
<1>13. Stats(d, S).all <= MaxTop
  BY <1>8, <1>9, <1>10, <1>11
<1>14. Stats(d, S).identical < MaxIdentical
  BY <1>6, <1>9, <1>10, <1>11
<1> QED
  BY <1>2, <1>9, <1>12, <1>13, <1>14 DEF Spread

\* The sampling of the holders is fail-closed: a token that passes with owners
\* that could not be read passes with all of them read, unless it has no holder
\* but programs, for every distribution, supply and limit.
THEOREM FailClosed == ProgramsAloneFail => UnreadOwnersCount
<1> SUFFICES ASSUME ProgramsAloneFail, NEW d \in Dists, Spread(HolderStats(d, {}))
             PROVE  Spread(HolderStats(d, ProgramOwned))
  BY DEF UnreadOwnersCount, ReallySpread
<1> DEFINE T == Counted(d, {})
           S == Counted(d, ProgramOwned)
<1>1. S # {}
  BY DEF ProgramsAloneFail
<1>2. S \in SUBSET T /\ T \in SUBSET DOMAIN d
  BY DEF Counted
<1>3. IsFiniteSet(DOMAIN d) /\ \A a \in DOMAIN d : d[a] \in Nat
  BY DryRunAssumption
<1>4. IsFiniteSet(T) /\ \A a \in T : d[a] \in Nat
  BY <1>2, <1>3, FS_Subset
<1>5. Spread(Stats(d, T))
  BY StatsOfCounted
<1> HIDE DEF S, T
<1>6. Spread(Stats(d, S))
  BY <1>1, <1>2, <1>4, <1>5, SpreadOfSome
<1> QED
  BY <1>6, StatsOfCounted DEF S

-----------------------------------------------------------------------------
(* The gates and their caches *)

\* A mint seen clean stays so, a cached reading that passes was made no later
\* than the last moment at which the token was spread.
GateInv ==
  /\ clock \in Nat /\ spreadAt \in Int /\ spreadAt <= clock /\ holders.at \in Int
  /\ dist \in Dists /\ (ReallySpread(dist) => spreadAt = clock)
  /\ revoked => Accepted(mint, Policy) /\ ~Risky(mint)
  /\ stage = "holders" => revoked
  /\ holders.at >= 0 /\ Spread(holders.stats) => spreadAt >= holders.at

LEMMA InitGates == DryInit => GateInv
<1> SUFFICES ASSUME DryInit PROVE GateInv
  OBVIOUS
<1>1. HolderTtl \in Nat \ {0}
  BY DryRunAssumption
<1>2. holders.at = -1 /\ clock = 0 /\ dist \in Dists /\ revoked = FALSE /\ stage = "idle"
      /\ spreadAt = IF ReallySpread(dist) THEN 0 ELSE -HolderTtl
  BY DEF DryInit, NoHolders
<1> QED
  BY <1>1, <1>2 DEF GateInv

\* A step with no new reading of the holders, which enters "holders" only with
\* a mint seen clean, and leaves it only by a cached reading.
LEMMA GateStays ==
  ASSUME GateInv, UNCHANGED <<dist, holders>>,
         /\ clock' \in Nat /\ clock <= clock'
         /\ spreadAt' = spreadAt \/ spreadAt' = clock'
         /\ ReallySpread(dist)' => spreadAt' = clock',
         revoked' => Accepted(mint', Policy) /\ ~Risky(mint'),
         stage' = "holders" => revoked'
  PROVE  GateInv'
<1>1. spreadAt' \in Int /\ spreadAt <= spreadAt' /\ spreadAt' <= clock'
  BY DEF GateInv
<1>2. holders'.at >= 0 /\ Spread(holders'.stats) => spreadAt' >= holders'.at
  BY <1>1 DEF GateInv
<1> QED
  BY <1>1, <1>2 DEF GateInv

\* And no step at all of what the gates look at.
LEMMA GateQuiet ==
  ASSUME GateInv, UNCHANGED <<clock, dist, mint, spreadAt, holders, revoked>>, stage' = "holders" => revoked'
  PROVE  GateInv'
<1>1. clock' \in Nat /\ clock <= clock' /\ (ReallySpread(dist)' => spreadAt' = clock')
  BY DEF GateInv
<1>2. revoked' => Accepted(mint', Policy) /\ ~Risky(mint')
  BY DEF GateInv
<1> QED
  BY <1>1, <1>2, GateStays

LEMMA QuietGates == Quiet => UNCHANGED <<clock, dist, mint, spreadAt>>
  BY DEF Quiet, chain

LEMMA WorldGates ==
  ASSUME GateInv,
         \/ \E p \in Pools : Trades(p)
         \/ \E d \in Dists : Redistributes(d)
         \/ \E w \in Wallets : PayerMoves(w)
         \/ \E side \in {"buy", "sell"} : Disables(side)
         \/ GivesUp \/ TimePasses
  PROVE  GateInv' /\ GateStep
<1>1. UNCHANGED <<stage, revoked, holders>>
  BY DEF Trades, Redistributes, PayerMoves, Disables, GivesUp, TimePasses, Unmoved, caches
<1>2. GateStep
  BY <1>1 DEF GateStep
<1>3. stage' = "holders" => revoked'
  BY <1>1 DEF GateInv
<1>4. CASE (\E p \in Pools : Trades(p)) \/ (\E w \in Wallets : PayerMoves(w))
           \/ (\E side \in {"buy", "sell"} : Disables(side))
  <2>1. UNCHANGED <<clock, dist, mint, spreadAt>>
    BY <1>4 DEF Trades, PayerMoves, Disables
  <2>2. UNCHANGED <<holders, revoked>>
    BY <1>1
  <2> QED
    BY <1>2, <1>3, <2>1, <2>2, GateQuiet
<1>5. ASSUME NEW d \in Dists, Redistributes(d) PROVE GateInv'
  <2>1. /\ dist' = d /\ spreadAt' = (IF ReallySpread(d) THEN clock ELSE spreadAt) /\ UNCHANGED <<clock, mint>>
    BY <1>5 DEF Redistributes
  <2>2. spreadAt' \in Int /\ spreadAt <= spreadAt' /\ spreadAt' <= clock'
    BY <2>1 DEF GateInv
  <2>3. ReallySpread(dist)' => spreadAt' = clock'
    BY <2>1
  <2>4. holders'.at >= 0 /\ Spread(holders'.stats) => spreadAt' >= holders'.at
    BY <1>1, <2>2 DEF GateInv
  <2>5. revoked' => Accepted(mint', Policy) /\ ~Risky(mint')
    BY <1>1, <2>1 DEF GateInv
  <2>6. clock' \in Nat /\ holders'.at \in Int /\ dist' \in Dists
    BY <1>1, <2>1 DEF GateInv
  <2> QED
    BY <1>3, <2>2, <2>3, <2>4, <2>5, <2>6 DEF GateInv
<1>6. CASE GivesUp
  <2>1. Risky(mint) /\ clock' = clock /\ dist' = dist /\ spreadAt' = spreadAt
    BY <1>6 DEF GivesUp
  <2>2. ~revoked' /\ stage' # "holders"
    BY <1>1, <1>3, <2>1 DEF GateInv
  <2>3. clock' \in Nat /\ clock <= clock' /\ (ReallySpread(dist)' => spreadAt' = clock')
    BY <2>1 DEF GateInv
  <2>4. holders' = holders
    BY <1>1
  <2> QED
    BY <1>2, <2>1, <2>2, <2>3, <2>4, GateStays
<1>7. CASE TimePasses
  <2>1. /\ clock' = clock + 1 /\ dist' = dist /\ mint' = mint
        /\ spreadAt' = IF ReallySpread(dist) THEN clock' ELSE spreadAt
    BY <1>7 DEF TimePasses, chain
  <2>2. clock' \in Nat /\ clock <= clock'
    BY <2>1 DEF GateInv
  <2>3. ReallySpread(dist)' => spreadAt' = clock'
    BY <2>1
  <2>4. spreadAt' = spreadAt \/ spreadAt' = clock'
    BY <2>1
  <2>5. revoked' => Accepted(mint', Policy) /\ ~Risky(mint')
    BY <1>1, <2>1 DEF GateInv
  <2>6. holders' = holders
    BY <1>1
  <2> QED
    BY <1>2, <1>3, <2>1, <2>2, <2>3, <2>4, <2>5, <2>6, GateStays
<1> QED
  BY <1>2, <1>4, <1>5, <1>6, <1>7

\* The steps of the iteration away from the holder gate.
LEMMA PathGates ==
  ASSUME GateInv,
         \/ Begin \/ Fails \/ LearnVaults \/ TakeSnapshot
         \/ AuthorityPasses \/ AuthorityRejects
         \/ ReadConfig \/ SimulateBuy \/ NoHolder \/ SimulateSell
         \/ \E a \in DOMAIN dist : PickHolder(a)
  PROVE  GateInv' /\ GateStep
<1>1. stage # "holders"
  BY DEF Begin, Fails, LearnVaults, TakeSnapshot, AuthorityPasses, AuthorityRejects,
         ReadConfig, SimulateBuy, NoHolder, SimulateSell, PickHolder
<1>2. UNCHANGED <<clock, dist, mint, spreadAt, holders>>
  BY QuietGates DEF Begin, Fails, LearnVaults, TakeSnapshot, AuthorityPasses,
         AuthorityRejects, ReadConfig, SimulateBuy, NoHolder, SimulateSell,
         PickHolder, caches, chain
<1>3. CASE AuthorityPasses
  <2>1. revoked' = TRUE /\ Accepted(mint, Policy) /\ ~Risky(mint)
    BY <1>3 DEF AuthorityPasses
  <2>2. clock' \in Nat /\ clock <= clock' /\ (ReallySpread(dist)' => spreadAt' = clock')
    BY <1>2 DEF GateInv
  <2> QED
    BY <1>1, <1>2, <2>1, <2>2, GateStays DEF GateStep
<1>4. CASE TakeSnapshot
  <2>1. stage' = (IF revoked THEN "holders" ELSE "authority") /\ UNCHANGED revoked
    BY <1>4 DEF TakeSnapshot, caches
  <2> QED
    BY <1>1, <1>2, <2>1, GateQuiet DEF GateStep
<1>5. CASE Begin \/ Fails \/ LearnVaults \/ AuthorityRejects \/ ReadConfig
           \/ SimulateBuy \/ NoHolder \/ SimulateSell \/ \E a \in DOMAIN dist : PickHolder(a)
  <2>1. stage' # "holders" /\ UNCHANGED revoked
    BY <1>5 DEF Begin, Fails, LearnVaults, AuthorityRejects, ReadConfig, SimulateBuy,
         NoHolder, SimulateSell, PickHolder, caches, EndsWith, Measured
  <2> QED
    BY <1>1, <1>2, <2>1, GateQuiet DEF GateStep
<1> QED
  BY <1>3, <1>4, <1>5

LEMMA HolderGates ==
  ASSUME GateInv, UnreadOwnersCount,
         \/ UseCachedHolders \/ StillFailing \/ HoldersFail
         \/ \E readable \in {{}, ProgramOwned} : ReadHolders(readable)
  PROVE  GateInv' /\ GateStep
<1>1. stage = "holders" /\ Quiet /\ UNCHANGED revoked
  BY DEF UseCachedHolders, StillFailing, HoldersFail, ReadHolders, caches
<1>2. UNCHANGED <<clock, dist, mint, spreadAt>>
  BY <1>1, QuietGates
<1>3. revoked /\ Accepted(mint, Policy) /\ ~Risky(mint)
  BY <1>1 DEF GateInv
<1>4. CASE StillFailing \/ HoldersFail
  <2>1. stage' = "idle" /\ UNCHANGED holders
    BY <1>4 DEF StillFailing, HoldersFail, EndsWith, caches
  <2> QED
    BY <1>1, <1>2, <2>1, GateQuiet DEF GateStep
<1>5. ASSUME NEW stats, Judges(stats) PROVE stage' # "holders" /\ (stage' = "config" => Spread(stats))
  BY <1>5 DEF Judges, EndsWith
<1>6. CASE UseCachedHolders
  <2>1. holders.at >= 0 /\ clock - holders.at < HolderTtl /\ Judges(holders.stats) /\ UNCHANGED holders
    BY <1>6 DEF UseCachedHolders, HoldersCached, caches
  <2>2. GateInv'
    BY <1>1, <1>2, <1>5, <2>1, GateQuiet
  <2>3. stage' = "config" => spreadAt >= holders.at
    BY <1>5, <2>1 DEF GateInv
  <2>4. clock \in Nat /\ spreadAt \in Int /\ holders.at \in Int /\ HolderTtl \in Nat
    BY DryRunAssumption DEF GateInv
  <2>5. stage' = "config" => clock - spreadAt < HolderTtl
    BY <2>1, <2>3, <2>4
  <2> QED
    BY <1>3, <2>2, <2>5 DEF GateStep
<1>7. ASSUME NEW readable \in {{}, ProgramOwned}, ReadHolders(readable) PROVE GateInv' /\ GateStep
  <2> DEFINE stats == HolderStats(dist, readable)
  <2>1. holders' = [at |-> clock, stats |-> stats] /\ Judges(stats)
    BY <1>7 DEF ReadHolders
  <2>2. Spread(stats) => ReallySpread(dist)
    BY <1>7 DEF GateInv, UnreadOwnersCount, ReallySpread
  <2> HIDE DEF stats
  <2>3. Spread(stats) => spreadAt = clock
    BY <2>2 DEF GateInv
  <2>4. holders'.at = clock /\ holders'.stats = stats /\ clock \in Nat /\ HolderTtl \in Nat \ {0}
    BY <2>1, DryRunAssumption DEF GateInv
  <2>5. GateInv'
    <3>1. ReallySpread(dist)' => spreadAt' = clock'
      BY <1>2 DEF GateInv
    <3>2. Spread(holders.stats)' => spreadAt' >= clock
      BY <1>2, <2>3, <2>4
    <3>3. stage' # "holders"
      BY <1>5, <2>1
    <3> QED
      BY <1>1, <1>2, <1>3, <2>4, <3>1, <3>2, <3>3 DEF GateInv
  <2>6. stage' = "config" => clock - spreadAt < HolderTtl
    BY <1>5, <2>1, <2>3, <2>4
  <2> QED
    BY <1>3, <2>5, <2>6 DEF GateStep
<1> QED
  BY <1>4, <1>6, <1>7

LEMMA NextGates == UnreadOwnersCount /\ GateInv /\ [DryNext]_dryVars => GateInv' /\ GateStep
<1> SUFFICES ASSUME UnreadOwnersCount, GateInv, [DryNext]_dryVars PROVE GateInv' /\ GateStep
  OBVIOUS
<1>1. CASE UNCHANGED dryVars
  <2>1. UNCHANGED <<clock, dist, mint, spreadAt, holders, revoked, stage>>
    BY <1>1 DEF dryVars, chain, caches
  <2>2. stage' = "holders" => revoked'
    BY <2>1 DEF GateInv
  <2> QED
    BY <2>1, <2>2, GateQuiet DEF GateStep
<1> QED
  BY <1>1, WorldGates, PathGates, HolderGates DEF DryNext

\* Past the gates the mint is clean and accepted, and the token was spread less
\* than the cache's time ago: for any times of the caches, any failures and any
\* moves of the holders, unless the token is one that only programs hold.
THEOREM Gates == ProgramsAloneFail => (DrySpec => GatesAreCurrent)
<1> SUFFICES ASSUME ProgramsAloneFail PROVE DrySpec => GatesAreCurrent
  OBVIOUS
<1>1. GateInv /\ [DryNext]_dryVars => GateInv' /\ GateStep
  BY FailClosed, NextGates
<1> QED
  BY <1>1, InitGates, PTL DEF DrySpec, GatesAreCurrent
=============================================================================
