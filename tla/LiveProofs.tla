----------------------------- MODULE LiveProofs -----------------------------
(***************************************************************************)
(* Theorems about the live process, for any number of entries, sells,      *)
(* crashes, failing writes and days.  Two assumptions: an error of the     *)
(* submission is settled (UnsettledErr is FALSE; TxSubmit says when it is  *)
(* not), and a record that is to be removed is removed.                    *)
(*                                                                         *)
(* The argument: an entry is only recorded when nothing else is held or    *)
(* under way, so whatever is held, under way, on record or in memory is    *)
(* the last entry.                                                         *)
(***************************************************************************)
EXTENDS LiveProperties, FiniteSetTheorems, TLAPS

Last == nextEntry - 1

\* The records are of the last entry, or empty.
Lots    == {NoPosition} \cup {p \in [sig : {Last}, tokens : {0, 1}] : p.sig # 0}
Orders  == {NoPending} \cup {o \in [sig : {Last}, before : {0}] : o.sig # 0}
TxStates == {"new", "sent", "landed", "failed", "expired"}

LiveTypes ==
  /\ nextEntry \in 1..MaxEntries + 1
  /\ failedWrites \in Nat /\ failedClears = 0
  /\ pc \in {"loop"} \cup BootSteps \cup EntrySteps \cup ExitSteps \cup OffSteps
  /\ txs \in [Entries -> TxStates]
  /\ sells \in [Slots -> [st : TxStates, lot : Nat]]
  /\ {posFile, livePos, draft} \subseteq Lots
  /\ {pendFile, current} \subseteq Orders
  /\ sale \in [slot : 0..MaxSells, held : Nat]

\* Held and under way is the last entry at most; nothing is under way that is
\* not recorded as pending, or beside a recorded position.
OneEntry ==
  /\ holding \subseteq {e \in Entries : e = Last /\ txs[e] = "landed"}
  /\ \A e \in Entries : e > Last => txs[e] = "new"
  /\ InFlight \subseteq {pendFile.sig}
  /\ posFile # NoPosition => InFlight = {}

\* What is held is on record, or the process has it in memory.
OnRecord ==
  \/ holding = {} \/ Last \in {pendFile.sig, posFile.sig}
  \/ (failedWrites > 0 \/ Last \in dropped) /\ (Trading => Last \in {livePos.sig, draft.sig})

Clean == posFile = NoPosition /\ livePos = NoPosition
Flat  == holding = {} /\ pendFile = NoPending

\* What the steps of an entry rest on, from the gate to the record.
Entering ==
  /\ pc \in {"entering", "signed", "saved"} => Clean /\ holding = {} /\ InFlight = {}
  /\ pc \in {"entering", "signed"} => Flat
  /\ pc \in {"saved", "sent", "doubt"} => Clean
  /\ pc = "saved" => txs[Last] = "new"
  /\ pc \in {"saved", "sent", "doubt", "landed", "bookTrade", "bookOpen", "clearPending"} =>
       current.sig = Last /\ pendFile = current /\ Last # 0
  /\ pc \in {"doubt", "landed", "bookTrade", "bookOpen", "clearPending"} => InFlight = {}
  /\ pc = "forget" => Clean /\ holding = {} /\ InFlight = {}
  /\ pc = "feeLoss" => Clean /\ InFlight = {} /\ (killSwitch \/ Flat)
  /\ pc = "landed" => Clean
  /\ pc \in {"bookTrade", "bookOpen", "clearPending"} =>
       livePos = NoPosition /\ draft.sig = Last /\ (posFile = NoPosition => failedWrites > 0)

\* Between two entries, and while one is sold.
Managing ==
  /\ pc \in {"loop"} \cup ExitSteps => InFlight = {}
  /\ pc = "loop" /\ livePos = NoPosition => posFile = NoPosition /\ (killSwitch \/ Flat)
  /\ pc \in ExitSteps => livePos # NoPosition
  /\ pc \in {"loop"} \cup ExitSteps /\ livePos # NoPosition => pendFile = NoPending
  /\ pc \in {"sell", "selling"} => sale.held = 1
  /\ pc = "selling" => /\ sale.slot \in Slots /\ sells[sale.slot].lot = 1
                       /\ sells[sale.slot].st = "landed" => holding = {}
  /\ pc \in {"bookExit", "closing", "unrecord"} => holding = {}

\* What the steps of a start rest on.
Booting ==
  /\ pc \in BootSteps \cup OffSteps => livePos = NoPosition
  /\ draft # NoPosition => pc \in {"saveRecovered", "bookTrade", "bookOpen", "clearPending"}
  /\ pc \in {"saveRecovered", "bookTradeRecovered", "bookOpenRecovered", "dropPending", "resume"}
       => InFlight = {}
  /\ pc = "saveRecovered" => draft # NoPosition /\ pendFile.sig = Last /\ Last # 0 /\ posFile = NoPosition
  /\ pc \in {"bookTradeRecovered", "bookOpenRecovered"} => posFile # NoPosition
  /\ pc = "resume" => pendFile = NoPending
  /\ pc = "dropPending" => holding = {} \/ posFile # NoPosition \/ Last \in dropped

LiveInv == LiveTypes /\ OneEntry /\ OnRecord /\ Entering /\ Managing /\ Booting

-----------------------------------------------------------------------------

LEMMA BalanceOfLast ==
  ASSUME LiveInv
  PROVE  /\ holding = {} => Balance = 0
         /\ holding # {} => Balance = 1 /\ holding = {Last} /\ Last \in Entries /\ txs[Last] = "landed"
<1>1. holding # {} => holding = {Last} /\ Last \in Entries /\ txs[Last] = "landed"
  BY DEF LiveInv, OneEntry
<1>2. Cardinality({}) = 0 /\ Cardinality({Last}) = 1
  BY FS_EmptySet, FS_Singleton
<1> QED
  BY <1>1, <1>2 DEF Balance

Settled == UnsettledErr = FALSE /\ MaxFailedClears = 0

LEMMA InitInv == ASSUME MaxFailedClears = 0, Init PROVE LiveInv
BY EngineAssumption DEF Init, LiveInv, LiveTypes, OneEntry, OnRecord, Entering, Managing, Booting, Clean, Flat,
  Last, Lots, Orders, NoPosition, NoPending, NoSale, TxStates, InFlight, EngineAssumption,
  BootSteps, EntrySteps, ExitSteps, OffSteps

\* Only a new process takes the kill switch back.
LEMMA KillSwitchStays ==
  ASSUME NEW n, NEW written,
         RecordTrade(written) \/ RecordLoss(n, written) \/ RecordPositionOpen(n, written)
           \/ RecordPositionClose(n, written) \/ PreTradeCheck \/ TripCircuitBreaker \/ TriggerKillSwitch
  PROVE  killSwitch => killSwitch'
BY Zenon DEF RecordTrade, RecordLoss, RecordPositionOpen, RecordPositionClose, PreTradeCheck,
   TripCircuitBreaker, TriggerKillSwitch, switchVars

LEMMA ClearSucceeds ==
  ASSUME LiveTypes, MaxFailedClears = 0, NEW cleared \in BOOLEAN, Clear(cleared)
  PROVE  cleared /\ failedClears' = 0 /\ UNCHANGED <<nextEntry, crashes, failedWrites>>
BY DEF LiveTypes, Clear

LEMMA BootKeeps ==
  ASSUME LiveInv, Settled, Start \/ Boot
  PROVE  LiveInv'
<1> USE EngineAssumption DEF LiveInv, LiveTypes, OneEntry, OnRecord, Entering, Managing, Booting, Clean, Flat,
  Last, Lots, Orders, NoPosition, NoPending, TxStates, InFlight, EngineAssumption, Trading,
  BootSteps, EntrySteps, ExitSteps, OffSteps, Settled,
  Goto, fileVars, chainVars, localVars, boundVars
<1>1. CASE Start
  BY <1>1 DEF Start
<1>2. CASE Arm
  BY <1>2 DEF Arm
<1>3. CASE RefuseUnverified
  BY <1>3 DEF RefuseUnverified
<1>4. CASE NothingPending
  BY <1>4 DEF NothingPending, Entries
<1>5. CASE PendingBooked
  BY <1>5 DEF PendingBooked
<1>6. ASSUME NEW b \in BOOLEAN, ReconcilePending(b) PROVE LiveInv'
  BY <1>6, BalanceOfLast DEF ReconcilePending, MayConfirm, MayFail, Delivered
<1>7. ASSUME NEW b \in BOOLEAN, SaveRecovered(b) PROVE LiveInv'
  BY <1>7 DEF SaveRecovered, Write
<1>8. ASSUME NEW b \in BOOLEAN, DropPending(b) PROVE LiveInv'
  <2>1. b /\ failedClears' = 0 /\ UNCHANGED <<nextEntry, failedWrites>>
    BY <1>8, ClearSucceeds DEF DropPending
  <2>2. posFile # NoPosition => Last \in {posFile.sig}
    OBVIOUS
  <2> QED
    BY <1>8, <2>1, <2>2 DEF DropPending, Entries
<1>9. ASSUME NEW b \in BOOLEAN, ResumePosition(b) PROVE LiveInv'
  BY <1>9 DEF ResumePosition, Write
<1>10. ASSUME NEW b \in BOOLEAN, StartFlat(b) PROVE LiveInv'
  BY <1>10, BalanceOfLast DEF StartFlat
<1> QED
  BY <1>1, <1>2, <1>3, <1>4, <1>5, <1>6, <1>7, <1>8, <1>9, <1>10 DEF Boot

LEMMA EnterKeeps ==
  ASSUME LiveInv, Settled, Enter
  PROVE  LiveInv'
<1> USE EngineAssumption DEF LiveInv, LiveTypes, OneEntry, OnRecord, Entering, Managing, Booting, Clean, Flat,
  Last, Lots, Orders, NoPosition, NoPending, TxStates, InFlight, EngineAssumption, Trading,
  BootSteps, EntrySteps, ExitSteps, OffSteps, Settled,
  Goto, fileVars, chainVars, localVars, boundVars
<1>1. CASE AskToEnter
  BY <1>1 DEF AskToEnter, PreTradeVerdict
<1>2. CASE EntryFault
  BY <1>2 DEF EntryFault
<1>3. CASE NoEntry
  BY <1>3 DEF NoEntry
<1>4. CASE RecheckAndSign
  BY <1>4 DEF RecheckAndSign
<1>5. ASSUME NEW b \in BOOLEAN, SavePending(b) PROVE LiveInv'
  <2>1. Balance = 0 /\ Clean /\ holding = {} /\ InFlight = {} /\ draft = NoPosition
    BY <1>5, BalanceOfLast DEF SavePending
  <2>2. CASE b
    <3>1. /\ nextEntry \in Entries /\ nextEntry' = nextEntry + 1 /\ Last' = nextEntry
          /\ current' = [sig |-> nextEntry, before |-> 0] /\ pendFile' = current' /\ pc' = "saved"
          /\ failedWrites' \in Nat /\ nextEntry' \in 1..MaxEntries + 1
      BY <1>5, <2>1, <2>2 DEF SavePending, Entries
    <3>2. UNCHANGED <<posFile, txs, holding, sells, livePos, draft, sale, failedClears>>
      BY <1>5 DEF SavePending
    <3>3. LiveTypes'
      BY <2>1, <3>1, <3>2
    <3>4. OneEntry'
      BY <2>1, <3>1, <3>2 DEF Entries
    <3> QED
      BY <2>1, <3>1, <3>2, <3>3, <3>4
  <2>3. CASE ~b
    BY <1>5, <2>1, <2>3 DEF SavePending
  <2> QED
    BY <2>2, <2>3
<1>6. CASE SendEntry
  BY <1>6 DEF SendEntry, Entries
<1>7. CASE ConfirmEntry
  BY <1>7 DEF ConfirmEntry, MayConfirm, MayFail, Entries
<1>8. CASE ResolveDoubt
  BY <1>8, BalanceOfLast DEF ResolveDoubt, Delivered
<1>9. CASE HaltInDoubt
  BY <1>9 DEF HaltInDoubt, TriggerKillSwitch
<1>10. ASSUME NEW b \in BOOLEAN, ForgetPending(b) PROVE LiveInv'
  <2>1. b /\ failedClears' = 0 /\ UNCHANGED <<nextEntry, failedWrites>>
    BY <1>10, ClearSucceeds DEF ForgetPending
  <2> QED
    BY <1>10, <2>1 DEF ForgetPending, Entries
<1>11. ASSUME NEW b \in BOOLEAN, BookFee(b) PROVE LiveInv'
  <2>1. killSwitch => killSwitch'
    BY <1>11, KillSwitchStays DEF BookFee
  <2> QED
    BY <1>11, <2>1 DEF BookFee, Write
<1>12. ASSUME NEW answered \in BOOLEAN, NEW b \in BOOLEAN, SavePosition(answered, b) PROVE LiveInv'
  BY <1>12, BalanceOfLast DEF SavePosition, Write, SaturatingSub
<1>13. ASSUME NEW b \in BOOLEAN, BookTrade(b) PROVE LiveInv'
  BY <1>13 DEF BookTrade, Write
<1>14. ASSUME NEW b \in BOOLEAN, BookOpen(b) PROVE LiveInv'
  BY <1>14 DEF BookOpen, Write
<1>15. ASSUME NEW b \in BOOLEAN, ClearPending(b) PROVE LiveInv'
  <2>1. b /\ failedClears' = 0 /\ UNCHANGED <<nextEntry, failedWrites>>
    BY <1>15, ClearSucceeds DEF ClearPending
  <2> QED
    BY <1>15, <2>1 DEF ClearPending, Entries
<1> QED
  BY <1>1, <1>2, <1>3, <1>4, <1>5, <1>6, <1>7, <1>8, <1>9, <1>10, <1>11, <1>12, <1>13, <1>14, <1>15 DEF Enter

LEMMA ExitKeeps ==
  ASSUME LiveInv, Settled, Exit \/ Stop
  PROVE  LiveInv'
<1> USE EngineAssumption DEF LiveInv, LiveTypes, OneEntry, OnRecord, Entering, Managing, Booting, Clean, Flat,
  Last, Lots, Orders, NoPosition, NoPending, NoSale, TxStates, InFlight, EngineAssumption, Trading,
  BootSteps, EntrySteps, ExitSteps, OffSteps, Settled,
  Goto, fileVars, chainVars, localVars, boundVars
<1>1. CASE FindSold
  BY <1>1, BalanceOfLast DEF FindSold
<1>2. CASE NoExit
  BY <1>2 DEF NoExit
<1>3. ASSUME NEW b \in BOOLEAN, Hold(b) PROVE LiveInv'
  BY <1>3 DEF Hold, ValuePosition, Write
<1>4. ASSUME NEW b \in BOOLEAN, DecideExit(b) PROVE LiveInv'
  BY <1>4, BalanceOfLast DEF DecideExit, ValuePosition, Write
<1>5. ASSUME NEW b \in BOOLEAN, SendExit(b) PROVE LiveInv'
  <2>1. ExitAmount = 1
    BY <1>5 DEF SendExit, ExitAmount
  <2>2. PICK x \in Slots : /\ sells' = [sells EXCEPT ![x] = [st |-> IF b THEN "sent" ELSE "new", lot |-> 1]]
                           /\ sale' = [sale EXCEPT !.slot = x]
    BY <1>5, <2>1 DEF SendExit
  <2>3. sale' = [slot |-> x, held |-> 1] /\ sale' \in [slot : 0..MaxSells, held : Nat]
    <3>1. sale.held = 1 /\ sale \in [slot : 0..MaxSells, held : Nat] /\ x \in 0..MaxSells
      BY <1>5, <2>2 DEF SendExit, Slots
    <3> QED
      BY <2>2, <3>1
  <2>4. sells'[x] = [st |-> IF b THEN "sent" ELSE "new", lot |-> 1]
        /\ sells' \in [Slots -> [st : TxStates, lot : Nat]]
    BY <2>2
  <2> QED
    BY <1>5, <2>3, <2>4 DEF SendExit
<1>6. ASSUME NEW b \in BOOLEAN, ConfirmExit(b) PROVE LiveInv'
  BY <1>6, BalanceOfLast DEF ConfirmExit, MayConfirm, MayFail
<1>7. ASSUME NEW b \in BOOLEAN, BookExit(b) PROVE LiveInv'
  BY <1>7 DEF BookExit, Write
<1>8. ASSUME NEW b \in BOOLEAN, ClosePosition(b) PROVE LiveInv'
  BY <1>8 DEF ClosePosition, Write
<1>9. ASSUME NEW b \in BOOLEAN, ClearPosition(b) PROVE LiveInv'
  <2>1. b /\ failedClears' = 0 /\ UNCHANGED <<nextEntry, failedWrites>>
    BY <1>9, ClearSucceeds DEF ClearPosition
  <2> QED
    BY <1>9, <2>1 DEF ClearPosition
<1>10. CASE Stop
  BY <1>10 DEF Stop
<1> QED
  BY <1>1, <1>2, <1>3, <1>4, <1>5, <1>6, <1>7, <1>8, <1>9, <1>10 DEF Exit

\* A sell of one lot takes the last one.
LEMMA OneTaken ==
  ASSUME OneEntry, NEW lots \in SUBSET holding, Cardinality(lots) = 1
  PROVE  \A e \in holding : e \in lots
<1>1. lots # {}
  BY FS_EmptySet
<1> QED
  BY <1>1 DEF OneEntry

LEMMA WorldKeeps ==
  ASSUME LiveInv, Settled, Chain \/ HostTick \/ Crash \/ UNCHANGED vars
  PROVE  LiveInv'
<1> USE EngineAssumption DEF LiveInv, LiveTypes, OneEntry, OnRecord, Entering, Managing, Booting, Clean, Flat,
  Last, Lots, Orders, NoPosition, NoPending, NoSale, TxStates, InFlight, EngineAssumption, Trading,
  BootSteps, EntrySteps, ExitSteps, OffSteps, Settled,
  Goto, fileVars, chainVars, localVars, boundVars, engineVars
<1>1. ASSUME NEW e \in Entries, LandEntry(e) PROVE LiveInv'
  <2>1. e \in InFlight /\ e = pendFile.sig /\ e = Last /\ posFile = NoPosition
    <3>1. e \in InFlight
      BY <1>1 DEF LandEntry
    <3>2. e = pendFile.sig /\ e # 0
      BY <3>1 DEF Entries
    <3> QED
      BY <3>1, <3>2
  <2>2. /\ txs' = [txs EXCEPT ![Last] = "landed"] /\ holding' = holding \cup {Last} /\ Last \in Entries
        /\ UNCHANGED <<fileVars, sells, pc, localVars, boundVars>> /\ UNCHANGED killSwitch
    BY <1>1, <2>1 DEF LandEntry, riskVars, switchVars
  <2>3. pc \in {"sent", "new", "reconcile", "down", "stopped"}
    BY <2>1
  <2>4. OneEntry' /\ LiveTypes'
    BY <2>1, <2>2 DEF Entries
  <2> QED
    BY <2>1, <2>2, <2>3, <2>4
<1>2. ASSUME NEW e \in Entries, NEW st \in {"failed", "expired"}, LoseEntry(e, st) PROVE LiveInv'
  BY <1>2 DEF LoseEntry, Entries, riskVars, switchVars
<1>3. ASSUME NEW x \in Slots, LandExit(x) PROVE LiveInv'
  <2>1. PICK lots \in SUBSET holding : Cardinality(lots) = sells[x].lot /\ holding' = holding \ lots
    BY <1>3 DEF LandExit
  <2>2. sells[x].lot = 1 => \A e \in holding : e \in lots
    BY <2>1, OneTaken
  <2> QED
    BY <1>3, <2>1, <2>2 DEF LandExit, riskVars, switchVars
<1>4. ASSUME NEW x \in Slots, NEW st \in {"failed", "expired"}, LoseExit(x, st) PROVE LiveInv'
  BY <1>4 DEF LoseExit, riskVars, switchVars
<1>5. CASE HostTick
  BY <1>5 DEF HostTick, BreakerTick, NextDay, switchVars
<1>6. CASE Crash
  BY <1>6 DEF Crash, riskVars, switchVars
<1>7. CASE UNCHANGED vars
  BY <1>7 DEF vars, riskVars, switchVars
<1> HIDE DEF LiveInv, LiveTypes, OneEntry, OnRecord, Entering, Managing, Booting, Lots, Orders, TxStates
<1>8. CASE Chain
  BY <1>1, <1>2, <1>3, <1>4, <1>8 DEF Chain
<1> QED
  BY <1>5, <1>6, <1>7, <1>8

LEMMA LiveInvariant == ASSUME Settled PROVE Spec => []LiveInv
<1>1. Init => LiveInv
  BY InitInv DEF Settled
<1>2. LiveInv /\ [Next]_vars => LiveInv'
  BY BootKeeps, EnterKeeps, ExitKeeps, WorldKeeps DEF Next
<1> QED
  BY <1>1, <1>2, PTL DEF Spec

\* A new entry is under way only when nothing bought before is unsold and no
\* earlier buy can still land, however many entries, sells, crashes and failed
\* writes came before.
THEOREM NoSecondBuy == UnsettledErr = FALSE /\ MaxFailedClears = 0 => (Spec => []NeverBuysTwice)
<1>1. LiveInv => NeverBuysTwice
  BY DEF LiveInv, Entering, NeverBuysTwice
<1>2. CASE Settled
  BY <1>1, <1>2, LiveInvariant, PTL
<1> QED
  BY <1>2 DEF Settled

\* Whatever was bought, or may still be, is on record or in the hands of the
\* process.
THEOREM EveryBuyOnRecord == UnsettledErr = FALSE /\ MaxFailedClears = 0 => (Spec => []BuysOnRecord)
<1>1. LiveInv => BuysOnRecord
  BY DEF LiveInv, OneEntry, OnRecord, BuysOnRecord
<1>2. CASE Settled
  BY <1>1, <1>2, LiveInvariant, PTL
<1> QED
  BY <1>2 DEF Settled

-----------------------------------------------------------------------------
(* The live process implements the entry ledger *)

LedgerStage == [e \in Entries |-> StageOf(e)]

\* A step that leaves the entries and the pending record leaves the ledger.
LEMMA LedgerStays ==
  ASSUME UNCHANGED <<txs, holding, nextEntry, pendFile>> PROVE UNCHANGED LedgerStage
BY DEF LedgerStage, StageOf, Entries

\* One that moves a single entry is a move of the ledger.
LEMMA LedgerMoves ==
  ASSUME NEW e \in Entries, NEW s,
         \A f \in Entries : StageOf(f)' = IF f = e THEN s ELSE StageOf(f)
  PROVE  Ledger!Move(e, StageOf(e), s)
BY DEF Ledger!Move, LedgerStage, Entries

\* The pending record removed: its entry is given up, unless it landed.
LEMMA PendingRemoved ==
  ASSUME LiveInv, pendFile' = NoPending, UNCHANGED <<txs, holding, nextEntry>>
  PROVE  Ledger!Next \/ UNCHANGED LedgerStage
<1>1. CASE pendFile.sig \in Entries /\ StageOf(pendFile.sig) = "recorded"
  <2>1. PICK e \in Entries : e = pendFile.sig /\ StageOf(e) = "recorded"
    BY <1>1
  <2>2. \A f \in Entries : StageOf(f)' = IF f = e THEN "dropped" ELSE StageOf(f)
    BY <2>1 DEF StageOf, NoPending, Entries
  <2> QED
    BY <2>1, <2>2, LedgerMoves DEF Ledger!Next, Ledger!Drop
<1>2. CASE ~(pendFile.sig \in Entries /\ StageOf(pendFile.sig) = "recorded")
  <2>1. \A e \in Entries : StageOf(e)' = StageOf(e)
    BY <1>2 DEF StageOf, NoPending, Entries
  <2> QED
    BY <2>1 DEF LedgerStage, Entries
<1> QED
  BY <1>1, <1>2

LEMMA RecordsEntry ==
  ASSUME LiveInv, NEW b \in BOOLEAN, SavePending(b)
  PROVE  Ledger!Next \/ UNCHANGED LedgerStage
<1>1. CASE ~b
  BY <1>1, LedgerStays DEF SavePending, chainVars
<1>2. CASE b
  <2>1. PICK n \in Entries : /\ n = nextEntry /\ nextEntry' = n + 1 /\ pendFile'.sig = n
                             /\ UNCHANGED <<txs, holding>>
    BY <1>2 DEF SavePending, chainVars, Entries, LiveInv, LiveTypes
  <2>2. pendFile.sig = 0 /\ holding = {} /\ txs[n] = "new"
    BY <2>1 DEF SavePending, LiveInv, LiveTypes, Entering, OneEntry, Flat, NoPending, Last, Entries
  <2>3. \A e \in Entries : StageOf(e) \notin {"recorded", "held"} /\ (e < n => StageOf(e) # "idle")
    BY <2>1, <2>2 DEF StageOf, Entries
  <2>4. StageOf(n) = "idle"
    BY <2>1 DEF StageOf, Entries
  <2>5. \A e \in Entries : StageOf(e)' = IF e = n THEN "recorded" ELSE StageOf(e)
    BY <2>1, <2>2 DEF StageOf, Entries
  <2>6. Ledger!Record(n)
    BY <2>3, <2>4, <2>5, LedgerMoves DEF Ledger!Record, Ledger!Open
  <2> QED
    BY <2>6 DEF Ledger!Next
<1> QED
  BY <1>1, <1>2

LEMMA EntrySettles ==
  ASSUME LiveInv, NEW e \in Entries, LandEntry(e) \/ \E st \in {"failed", "expired"} : LoseEntry(e, st)
  PROVE  Ledger!Next \/ UNCHANGED LedgerStage
<1>1. e = pendFile.sig /\ nextEntry \in Nat /\ e < nextEntry /\ txs[e] = "sent" /\ e \notin holding
      /\ txs \in [Entries -> TxStates] /\ UNCHANGED <<pendFile, nextEntry>>
  BY DEF LiveInv, LiveTypes, OneEntry, InFlight, Last, LandEntry, LoseEntry, fileVars, boundVars, Entries
<1>2. CASE LandEntry(e)
  <2>1. StageOf(e) = "recorded" /\ StageOf(e)' = "held"
    BY <1>1, <1>2 DEF StageOf, LandEntry, Entries
  <2>2. \A f \in Entries : StageOf(f)' = IF f = e THEN "held" ELSE StageOf(f)
    BY <1>1, <1>2, <2>1 DEF StageOf, LandEntry
  <2> QED
    BY <2>1, <2>2, LedgerMoves DEF Ledger!Next, Ledger!Land
<1>3. CASE \E st \in {"failed", "expired"} : LoseEntry(e, st)
  <2>1. \A f \in Entries : StageOf(f)' = StageOf(f)
    BY <1>1, <1>3 DEF StageOf, LoseEntry
  <2> QED
    BY <2>1 DEF LedgerStage, Entries
<1> QED
  BY <1>2, <1>3

LEMMA ExitSettles ==
  ASSUME LiveInv, NEW x \in Slots, LandExit(x)
  PROVE  Ledger!Next \/ UNCHANGED LedgerStage
<1>1. UNCHANGED <<txs, nextEntry, pendFile>> /\ holding' \subseteq holding
  BY DEF LandExit, fileVars, boundVars
<1>2. CASE Last \in holding /\ Last \notin holding'
  <2>1. PICK e \in Entries : /\ e = Last /\ txs[e] = "landed" /\ nextEntry \in Nat /\ e < nextEntry
                             /\ holding \subseteq {e}
    BY <1>2 DEF LiveInv, LiveTypes, OneEntry, Last, Entries
  <2>2. StageOf(e) = "held"
    BY <1>2, <2>1 DEF StageOf, Entries
  <2>3. \A f \in Entries : StageOf(f)' = IF f = e THEN "sold" ELSE StageOf(f)
    BY <1>1, <1>2, <2>1 DEF StageOf, Entries
  <2> QED
    BY <2>2, <2>3, LedgerMoves DEF Ledger!Next, Ledger!Sell
<1>3. CASE ~(Last \in holding /\ Last \notin holding')
  <2>1. holding' = holding
    BY <1>1, <1>3 DEF LiveInv, OneEntry
  <2> QED
    BY <1>1, <2>1, LedgerStays
<1> QED
  BY <1>2, <1>3

\* Every step is one of the ledger's or leaves it as it is.
LEMMA StepImplements ==
  ASSUME LiveInv, Settled, [Next]_vars
  PROVE  Ledger!Next \/ UNCHANGED LedgerStage
<1> USE DEF fileVars, chainVars, boundVars
<1>1. CASE Start \/ Boot
  <2>1. ASSUME NEW b \in BOOLEAN, DropPending(b) PROVE Ledger!Next \/ UNCHANGED LedgerStage
    <3>1. b /\ UNCHANGED nextEntry
      BY <2>1, ClearSucceeds DEF DropPending, LiveInv, Settled
    <3> QED
      BY <2>1, <3>1, PendingRemoved DEF DropPending
  <2>2. CASE ~\E b \in BOOLEAN : DropPending(b)
    BY <1>1, <2>2, LedgerStays DEF Boot, Start, Arm, RefuseUnverified, NothingPending, PendingBooked,
       ReconcilePending, SaveRecovered, Write, ResumePosition, StartFlat
  <2> QED
    BY <2>1, <2>2
<1>2. CASE Enter
  <2>1. ASSUME NEW b \in BOOLEAN, ForgetPending(b) \/ ClearPending(b)
        PROVE  Ledger!Next \/ UNCHANGED LedgerStage
    <3>1. b /\ UNCHANGED nextEntry
      BY <2>1, ClearSucceeds DEF ForgetPending, ClearPending, LiveInv, Settled
    <3> QED
      BY <2>1, <3>1, PendingRemoved DEF ForgetPending, ClearPending
  <2>2. CASE \E b \in BOOLEAN : SavePending(b)
    BY <2>2, RecordsEntry
  <2>3. CASE SendEntry
    <3>1. \A e \in Entries : StageOf(e)' = StageOf(e)
      BY <2>3 DEF SendEntry, StageOf, LiveInv, LiveTypes, OneEntry, Entering, InFlight, Last, Entries
    <3> QED
      BY <3>1 DEF LedgerStage, Entries
  <2>4. CASE AskToEnter \/ EntryFault \/ NoEntry \/ RecheckAndSign
    BY <2>4, LedgerStays DEF AskToEnter, EntryFault, NoEntry, RecheckAndSign
  <2>5. CASE ConfirmEntry \/ ResolveDoubt \/ HaltInDoubt
    BY <2>5, LedgerStays DEF ConfirmEntry, ResolveDoubt, HaltInDoubt
  <2>6. CASE \E b \in BOOLEAN : BookFee(b) \/ BookTrade(b) \/ BookOpen(b) \/ \E answered \in BOOLEAN : SavePosition(answered, b)
    BY <2>6, LedgerStays DEF BookFee, BookTrade, BookOpen, SavePosition, Write
  <2> QED
    BY <1>2, <2>1, <2>2, <2>3, <2>4, <2>5, <2>6 DEF Enter
<1>3. CASE Exit \/ Stop
  BY <1>3, LedgerStays DEF Exit, Stop, FindSold, NoExit, Hold, DecideExit, ValuePosition, Write, SendExit,
     ConfirmExit, BookExit, ClosePosition, ClearPosition, Clear
<1>4. CASE Chain
  <2>1. ASSUME NEW x \in Slots, NEW st \in {"failed", "expired"}, LoseExit(x, st)
        PROVE  UNCHANGED LedgerStage
    BY <2>1, LedgerStays DEF LoseExit
  <2> QED
    BY <1>4, <2>1, EntrySettles, ExitSettles DEF Chain
<1>5. CASE HostTick \/ Crash \/ UNCHANGED vars
  BY <1>5, LedgerStays DEF HostTick, Crash, vars, engineVars
<1> QED
  BY <1>1, <1>2, <1>3, <1>4, <1>5 DEF Next

\* The process implements the ledger: an entry is recorded before it can land,
\* one given up never lands, and the next one is recorded when all are closed.
THEOREM ImplementsTheLedger == UnsettledErr = FALSE /\ MaxFailedClears = 0 => (Spec => ImplementsLedger)
<1> SUFFICES ASSUME Settled PROVE Spec => ImplementsLedger
  BY DEF Settled
<1>1. Init => Ledger!Init
  BY DEF Init, Ledger!Init, StageOf, Entries
<1>2. LiveInv /\ [Next]_vars => [Ledger!Next]_LedgerStage
  BY StepImplements
<1> QED
  BY <1>1, <1>2, LiveInvariant, PTL DEF Spec, ImplementsLedger, Ledger!Spec, LedgerStage

-----------------------------------------------------------------------------
(* The counters of the risk manager *)

\* Exposure x of n positions.
Sized(n, x) == n \in Nat /\ x = EntrySize * n

LEMMA SizedChanges ==
  ASSUME NEW n, NEW x, Sized(n, x)
  PROVE  /\ Sized(n + 1, x + EntrySize)
         /\ Sized(SaturatingSub(n, 1), SaturatingSub(x, EntrySize))
<1> USE EngineAssumption DEF EngineAssumption
<1>1. n \in Nat /\ EntrySize \in Nat /\ EntrySize * (n + 1) = EntrySize * n + EntrySize
  BY DEF Sized
<1>2. CASE n = 0
  BY <1>1, <1>2 DEF Sized, SaturatingSub
<1>3. CASE n # 0
  <2>1. n - 1 \in Nat /\ EntrySize * n = EntrySize * (n - 1) + EntrySize /\ EntrySize * (n - 1) \in Nat
    BY <1>1, <1>3
  <2> QED
    BY <1>1, <1>3, <2>1 DEF Sized, SaturatingSub
<1> QED
  BY <1>2, <1>3

\* Memory and file count whole positions.  A position being managed is
\* counted; and as long as no write failed the file shows the same, at most
\* one, and none without a position on record.
CountInv ==
  /\ Sized(openPositions, openExposure) /\ Sized(LoadedState.positions, LoadedState.exposure)
  /\ pc \in {"clearPending", "sell", "selling", "bookExit", "closing"} \/ (pc = "loop" /\ livePos # NoPosition)
       => openPositions >= 1
  /\ failedWrites = 0 =>
       /\ openPositions <= 1 /\ LoadedState.positions = openPositions
       /\ posFile = NoPosition => openPositions = 0
       /\ pc \in {"bookTrade", "bookOpen", "bookTradeRecovered", "bookOpenRecovered", "unrecord"}
            => openPositions = 0

LEMMA InitCount == Init => CountInv
BY EngineAssumption DEF Init, RiskInit, CountInv, Sized, LoadedState, NoState, EngineAssumption

LEMMA Persisted ==
  ASSUME NEW b \in BOOLEAN, PersistState(b)
  PROVE  /\ b => LoadedState'.positions = openPositions' /\ LoadedState'.exposure = openExposure'
         /\ ~b => LoadedState' = LoadedState
BY DEF PersistState, LoadedState

\* Booking a trade or a loss leaves the positions as they are.
LEMMA BookKeeps ==
  ASSUME CountInv, NEW b \in BOOLEAN, NEW n, RecordTrade(b) \/ RecordLoss(n, b)
  PROVE  /\ UNCHANGED <<openPositions, openExposure>>
         /\ Sized(LoadedState'.positions, LoadedState'.exposure)
         /\ b /\ LoadedState.positions = openPositions => LoadedState'.positions = openPositions
<1>1. UNCHANGED <<openPositions, openExposure>> /\ PersistState(b)
  BY DEF RecordTrade, RecordLoss
<1> QED
  BY <1>1, Persisted DEF CountInv

LEMMA OpenCounts ==
  ASSUME CountInv, NEW b \in BOOLEAN, RecordPositionOpen(EntrySize, b)
  PROVE  /\ openPositions' = openPositions + 1
         /\ Sized(openPositions', openExposure') /\ Sized(LoadedState'.positions, LoadedState'.exposure)
         /\ b => LoadedState'.positions = openPositions'
<1>1. openPositions' = openPositions + 1 /\ openExposure' = openExposure + EntrySize /\ PersistState(b)
  BY DEF RecordPositionOpen
<1> QED
  BY <1>1, SizedChanges, Persisted DEF CountInv

LEMMA CloseCounts ==
  ASSUME CountInv, NEW b \in BOOLEAN, RecordPositionClose(EntrySize, b)
  PROVE  /\ openPositions' = SaturatingSub(openPositions, 1)
         /\ Sized(openPositions', openExposure') /\ Sized(LoadedState'.positions, LoadedState'.exposure)
         /\ b => LoadedState'.positions = openPositions'
<1>1. /\ openPositions' = SaturatingSub(openPositions, 1)
      /\ openExposure' = SaturatingSub(openExposure, EntrySize) /\ PersistState(b)
  BY DEF RecordPositionClose
<1> QED
  BY <1>1, SizedChanges, Persisted DEF CountInv

\* A step that touches neither counters nor the file.
LEMMA StepUncounted ==
  ASSUME LiveInv, CountInv, UNCHANGED <<openPositions, openExposure, riskFile>>,
         failedWrites' \in {failedWrites, failedWrites + 1},
         posFile' = NoPosition => posFile = NoPosition \/ pc = "unrecord",
         \/ pc' \notin {"clearPending", "sell", "selling", "bookExit", "closing", "loop", "bookTrade",
                        "bookOpen", "bookTradeRecovered", "bookOpenRecovered", "unrecord"}
         \/ pc' = pc /\ (livePos' = livePos \/ livePos' = NoPosition)
         \/ pc' = "loop" /\ livePos' = NoPosition
         \/ pc' \in {"sell", "selling", "bookExit", "closing", "loop"}
              /\ (pc \in {"sell", "selling", "bookExit"} \/ (pc = "loop" /\ livePos # NoPosition))
         \/ pc' \in {"bookTrade", "bookTradeRecovered"} /\ posFile = NoPosition
         \/ pc' = "loop" /\ pc = "clearPending"
  PROVE  CountInv'
<1>1. UNCHANGED LoadedState
  BY DEF LoadedState
<1>2. failedWrites \in Nat
  BY DEF LiveInv, LiveTypes
<1> QED
  BY <1>1, <1>2 DEF CountInv

LEMMA CountKeeps == Settled /\ LiveInv /\ CountInv /\ [Next]_vars => CountInv'
<1> SUFFICES ASSUME Settled, LiveInv, CountInv, [Next]_vars PROVE CountInv'
  OBVIOUS
<1>0. failedWrites \in Nat /\ openPositions \in Nat
  BY DEF LiveInv, LiveTypes, CountInv, Sized
<1> USE DEF fileVars, chainVars, localVars, boundVars, counterVars, diskVars, switchVars, Goto
\* Startup.
<1>1. CASE Start
  <2>1. /\ openPositions' = LoadedState.positions /\ openExposure' = LoadedState.exposure
        /\ pc' = "new" /\ UNCHANGED <<riskFile, posFile, failedWrites>>
    BY <1>1 DEF Start, NewRiskManager
  <2>2. UNCHANGED LoadedState
    BY <2>1 DEF LoadedState
  <2> QED
    BY <2>1, <2>2 DEF CountInv
<1>2. CASE Arm \/ RefuseUnverified \/ NothingPending \/ PendingBooked \/ \E b \in BOOLEAN : ReconcilePending(b)
  BY <1>2, StepUncounted DEF Arm, ArmLive, RefuseUnverified, NothingPending, PendingBooked, ReconcilePending, riskVars
<1>3. ASSUME NEW b \in BOOLEAN, SaveRecovered(b) \/ DropPending(b) PROVE CountInv'
  <2>1. pc = "saveRecovered" => posFile = NoPosition /\ draft # NoPosition
    BY DEF LiveInv, Booting
  <2> QED
    BY <1>3, <2>1, StepUncounted DEF SaveRecovered, DropPending, Write, Clear, riskVars
<1>4. ASSUME NEW b \in BOOLEAN, ResumePosition(b) PROVE CountInv'
  <2>1. /\ pc' = "loop" /\ posFile' = posFile /\ posFile # NoPosition
        /\ failedWrites' = IF b THEN failedWrites ELSE failedWrites + 1
    BY <1>4 DEF ResumePosition, Write
  <2>2. CASE openPositions = 0 /\ RecordPositionOpen(EntrySize, b)
    BY <1>0, <2>1, <2>2, OpenCounts DEF CountInv
  <2>3. CASE openPositions > 0 /\ UNCHANGED riskVars
    <3>1. UNCHANGED <<openPositions, openExposure, LoadedState>>
      BY <2>3 DEF riskVars, LoadedState
    <3> QED
      BY <1>0, <1>4, <2>1, <2>3, <3>1 DEF CountInv, ResumePosition
  <2> QED
    BY <1>4, <2>2, <2>3 DEF ResumePosition
<1>5. ASSUME NEW b \in BOOLEAN, StartFlat(b) PROVE CountInv'
  <2>1. livePos = NoPosition
    BY <1>5 DEF StartFlat, LiveInv, Booting, BootSteps
  <2> QED
    BY <1>5, <2>1, StepUncounted DEF StartFlat, riskVars
\* An entry.
<1>6. CASE \/ AskToEnter \/ EntryFault \/ NoEntry \/ RecheckAndSign \/ SendEntry \/ ConfirmEntry \/ ResolveDoubt
           \/ HaltInDoubt \/ \E b \in BOOLEAN : SavePending(b) \/ ForgetPending(b)
  <2>1. pc \in {"entering", "signed", "saved"} => livePos = NoPosition
    BY DEF LiveInv, Entering, Clean
  <2> QED
    BY <1>6, <2>1, StepUncounted
    DEF AskToEnter, EntryFault, NoEntry, RecheckAndSign, SendEntry, ConfirmEntry, ResolveDoubt, HaltInDoubt,
        SavePending, ForgetPending, Clear, PreTradeCheck, TripCircuitBreaker, TriggerKillSwitch, riskVars
<1>7. ASSUME NEW b \in BOOLEAN, BookFee(b) PROVE CountInv'
  <2>1. /\ pc' = "loop" /\ UNCHANGED <<posFile, livePos>> /\ RecordLoss(EntryFee, b)
        /\ failedWrites' = IF b THEN failedWrites ELSE failedWrites + 1
        /\ livePos = NoPosition
    BY <1>7 DEF BookFee, Write, LiveInv, Entering, Clean
  <2> QED
    BY <1>0, <2>1, BookKeeps DEF CountInv
<1>8. ASSUME NEW a \in BOOLEAN, NEW b \in BOOLEAN, SavePosition(a, b) PROVE CountInv'
  <2>1. posFile = NoPosition
    BY <1>8 DEF SavePosition, LiveInv, Entering, Clean
  <2> QED
    BY <1>8, <2>1, StepUncounted DEF SavePosition, Write, TriggerKillSwitch, riskVars
<1>9. ASSUME NEW b \in BOOLEAN, BookTrade(b) PROVE CountInv'
  <2>1. /\ pc \in {"bookTrade", "bookTradeRecovered"} /\ pc' \in {"bookOpen", "bookOpenRecovered"}
        /\ UNCHANGED <<posFile, livePos>> /\ RecordTrade(b)
        /\ failedWrites' = IF b THEN failedWrites ELSE failedWrites + 1
    BY <1>9 DEF BookTrade, Write
  <2> QED
    BY <1>0, <2>1, BookKeeps DEF CountInv
<1>10. ASSUME NEW b \in BOOLEAN, BookOpen(b) PROVE CountInv'
  <2>1. /\ pc \in {"bookOpen", "bookOpenRecovered"} /\ pc' \in {"clearPending", "dropPending"}
        /\ UNCHANGED <<posFile, livePos>> /\ RecordPositionOpen(EntrySize, b)
        /\ failedWrites' = IF b THEN failedWrites ELSE failedWrites + 1
    BY <1>10 DEF BookOpen, Write
  <2>2. failedWrites = 0 => posFile # NoPosition
    BY <2>1 DEF LiveInv, Entering, Booting
  <2> QED
    BY <1>0, <2>1, <2>2, OpenCounts DEF CountInv
<1>11. ASSUME NEW b \in BOOLEAN, ClearPending(b) PROVE CountInv'
  BY <1>11, StepUncounted DEF ClearPending, Clear, riskVars
\* An exit.
<1>12. CASE FindSold \/ NoExit \/ \E b \in BOOLEAN : Hold(b) \/ DecideExit(b) \/ SendExit(b) \/ ConfirmExit(b)
  <2>1. pc \in ExitSteps => livePos # NoPosition
    BY DEF LiveInv, Managing
  <2> QED
    BY <1>12, <2>1, StepUncounted
    DEF FindSold, NoExit, Hold, DecideExit, ValuePosition, SendExit, ConfirmExit, Write, riskVars, ExitSteps
<1>13. ASSUME NEW b \in BOOLEAN, BookExit(b) PROVE CountInv'
  <2>1. /\ pc = "bookExit" /\ pc' = "closing" /\ UNCHANGED <<posFile, livePos>>
        /\ \/ /\ RecordLoss(ExitLoss, b)
              /\ failedWrites' = IF b THEN failedWrites ELSE failedWrites + 1
           \/ UNCHANGED <<riskVars, failedWrites>>
    BY <1>13 DEF BookExit, Write
  <2>2. CASE UNCHANGED <<riskVars, failedWrites>>
    BY <2>1, <2>2, StepUncounted DEF riskVars
  <2> QED
    BY <1>0, <2>1, <2>2, BookKeeps DEF CountInv
<1>14. ASSUME NEW b \in BOOLEAN, ClosePosition(b) PROVE CountInv'
  <2>1. /\ pc = "closing" /\ pc' = "unrecord" /\ UNCHANGED <<posFile, livePos>>
        /\ RecordPositionClose(EntrySize, b)
        /\ failedWrites' = IF b THEN failedWrites ELSE failedWrites + 1
    BY <1>14 DEF ClosePosition, Write
  <2> QED
    BY <1>0, <2>1, CloseCounts DEF CountInv, SaturatingSub
<1>15. CASE Stop \/ \E b \in BOOLEAN : ClearPosition(b)
  BY <1>15, StepUncounted DEF Stop, ClearPosition, Clear, riskVars
\* The chain and the host.
<1>16. CASE Chain \/ HostTick \/ UNCHANGED vars
  BY <1>16, StepUncounted DEF Chain, LandEntry, LoseEntry, LandExit, LoseExit, HostTick, BreakerTick, NextDay,
     riskVars, engineVars, vars
<1>17. CASE Crash
  BY <1>17, StepUncounted DEF Crash, riskVars
<1> QED
  BY <1>1, <1>2, <1>3, <1>4, <1>5, <1>6, <1>7, <1>8, <1>9, <1>10, <1>11, <1>12, <1>13, <1>14, <1>15, <1>16, <1>17
  DEF Next, Boot, Enter, Exit

\* Between iterations the risk manager counts the position being managed, and
\* exactly that one unless a write failed, over any number of crashes between
\* the record and the counters.
THEOREM ExposureCounted == UnsettledErr = FALSE /\ MaxFailedClears = 0 => (Spec => []ExposureOfPosition)
<1> SUFFICES ASSUME Settled PROVE Spec => []ExposureOfPosition
  BY DEF Settled
<1>1. LiveInv /\ CountInv => ExposureOfPosition
  <2> SUFFICES ASSUME LiveInv, CountInv, pc = "loop" PROVE ExposureOfPosition
    BY DEF ExposureOfPosition
  <2>1. /\ openPositions \in Nat /\ EntrySize \in Nat /\ EntrySize * 1 = EntrySize /\ EntrySize * 0 = 0
        /\ openPositions >= 1 => EntrySize * openPositions >= EntrySize
    BY EngineAssumption DEF CountInv, Sized, EngineAssumption
  <2>2. livePos = NoPosition => posFile = NoPosition
    BY DEF LiveInv, Managing
  <2> QED
    BY <2>1, <2>2 DEF ExposureOfPosition, CountInv, Sized
<1> QED
  BY <1>1, InitCount, CountKeeps, LiveInvariant, PTL DEF Spec

=============================================================================
