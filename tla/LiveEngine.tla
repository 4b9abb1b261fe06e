------------------------------ MODULE LiveEngine ------------------------------
(***************************************************************************)
(* The live trading process (solana-sniper/src/main.rs, live mode): how it *)
(* starts from its files, buys, books what it bought, sells it again, and  *)
(* what a crash anywhere in between leaves to the next start.  The process *)
(* is one loop; its program counter pc names the step it is about to take. *)
(*                                                                         *)
(* Around it: the two records it keeps on disk beside risk_state.json      *)
(* (position.rs), and the chain, where a sent transaction lands, is        *)
(* rejected or expires on its own.  Everything the process reads from the  *)
(* chain it reads at `confirmed` commitment, so a transaction is "sent"    *)
(* until it is confirmed.                                                  *)
(*                                                                         *)
(* An entry buys one lot of the token; entries are numbered, the number    *)
(* standing for the signature.  All lots have the same size and token.     *)
(* What the strategy, the quotes and the token checks decide is a free     *)
(* choice.  A failed exit iteration that changes nothing is a stutter.     *)
(***************************************************************************)
EXTENDS RiskManager, FiniteSets

CONSTANTS
  ProbeSize,       \* size the check at the top of an iteration asks for (0.01 SOL)
  ProbeBps,        \* and its slippage (50)
  EntrySize,       \* position_size_lamports of every entry
  EntryBps,        \* and its slippage_bps
  EntryFee,        \* what a failed entry is booked at (5000 lamports)
  ExitLoss,        \* what a losing exit is booked at
  UnsettledErr,    \* submitting can report an error for a transaction that may
                   \* still land: the node took it but its reply was lost, or
                   \* its blockhash expired when it was processed but not yet
                   \* confirmed
  RpcFails,        \* reads from the node can fail
  MaxEntries,      \* bounds of the model: entries signed,
  MaxSells,        \* sells in flight at once,
  MaxCrashes,      \* deaths of the process,
  MaxFailedWrites, \* file writes that fail,
  MaxFailedClears  \* file removals that fail

ASSUME EngineAssumption ==
  /\ ProbeSize \in Nat /\ ProbeBps \in Nat
  /\ EntrySize \in Nat \ {0} /\ EntryBps \in Nat
  /\ EntryFee \in Nat
  /\ ExitLoss \in Nat
  /\ UnsettledErr \in BOOLEAN
  /\ RpcFails \in BOOLEAN
  /\ MaxEntries \in Nat
  /\ MaxSells \in Nat \ {0}
  /\ MaxCrashes \in Nat
  /\ MaxFailedWrites \in Nat
  /\ MaxFailedClears \in Nat

VARIABLES
  posFile,      \* live_position.json
  pendFile,     \* pending_entry.json
  txs,          \* the entries on chain
  holding,      \* the entries that landed and are not sold yet
  sells,        \* the exit transactions on chain
  pc,           \* the step the process is about to take
  livePos,      \* main: live_position
  draft,        \* the position being booked
  current,      \* the entry being sent: [sig, before]
  sale,         \* the exit being sent: [slot, held]
  dropped,      \* history: the entries main concluded had not landed
  nextEntry, crashes, failedWrites, failedClears  \* counters for the bounds

fileVars     == <<posFile, pendFile>>
chainVars    == <<txs, holding, sells>>
localVars    == <<livePos, draft, current, sale>>
boundVars    == <<dropped, nextEntry, crashes, failedWrites, failedClears>>
engineVars   == <<fileVars, chainVars, pc, localVars, boundVars>>
vars         == <<riskVars, engineVars>>

Entries == 1..MaxEntries
Slots   == 1..MaxSells

\* Number 0 is no entry and no slot.
NoPosition == [sig |-> 0, tokens |-> 0]
NoPending  == [sig |-> 0, before |-> 0]
NoSale     == [slot |-> 0, held |-> 0]

Position == [sig : 0..MaxEntries, tokens : 0..MaxEntries]
Pending  == [sig : 0..MaxEntries, before : 0..MaxEntries]

BootSteps  == {"new", "reconcile", "saveRecovered", "bookTradeRecovered",
               "bookOpenRecovered", "dropPending", "resume"}
EntrySteps == {"entering", "signed", "saved", "sent", "doubt", "forget", "feeLoss",
               "landed", "bookTrade", "bookOpen", "clearPending"}
ExitSteps  == {"sell", "selling", "bookExit", "closing", "unrecord"}
OffSteps   == {"down", "stopped"}  \* died or refused to start; ended with exit code 0

Init ==
  /\ RiskInit
  /\ posFile = NoPosition /\ pendFile = NoPending
  /\ txs = [e \in Entries |-> "new"]
  /\ holding = {}
  /\ sells = [x \in Slots |-> [st |-> "new", lot |-> 0]]
  /\ pc = "stopped"
  /\ livePos = NoPosition /\ draft = NoPosition
  /\ current = NoPending /\ sale = NoSale
  /\ dropped = {}
  /\ nextEntry = 1
  /\ crashes = 0 /\ failedWrites = 0 /\ failedClears = 0

-----------------------------------------------------------------------------
(* What the process touches *)

Goto(step) == pc' = step

\* The outcome of a write_atomic: a failure leaves the old file.
Write(written) ==
  /\ failedWrites' = IF written THEN failedWrites ELSE failedWrites + 1
  /\ failedWrites' <= MaxFailedWrites
  /\ UNCHANGED <<dropped, nextEntry, crashes, failedClears>>

\* The outcome of a remove_file.
Clear(cleared) ==
  /\ failedClears' = IF cleared THEN failedClears ELSE failedClears + 1
  /\ failedClears' <= MaxFailedClears
  /\ UNCHANGED <<nextEntry, crashes, failedWrites>>

\* Whether the node answers a read.
Answers(answered) == answered \/ RpcFails

\* fetch_mint_balance of the bought token.
Balance == Cardinality(holding)

\* Mutant: the wait for the blockhash to expire is dropped.
MayFailEarly(st) == st # "landed" \/ RpcFails

\* submit_live_tx / confirm_transaction of a transaction with this status may
\* return Ok; may return Err.
MayConfirm(st) == st = "landed"
MayFail(st) ==
  \/ st \in {"new", "failed", "expired"}
  \/ st = "sent" /\ UnsettledErr
  \/ st = "landed" /\ RpcFails

\* PendingEntry::resolve and the same test in main: tokens arrived.
Delivered(before) == Balance > before

-----------------------------------------------------------------------------
(* Startup *)

\* A new process: lock, RiskManager::new.
Start ==
  /\ pc \in OffSteps
  /\ NewRiskManager
  /\ Goto("new")
  /\ UNCHANGED <<fileVars, chainVars, localVars, boundVars>>

Arm ==
  /\ pc = "new" /\ IsStateVerified
  /\ ArmLive
  /\ Goto("reconcile")
  /\ UNCHANGED <<fileVars, chainVars, localVars, boundVars>>

RefuseUnverified ==
  /\ pc = "new" /\ ~IsStateVerified
  /\ Goto("down")
  /\ UNCHANGED <<riskVars, fileVars, chainVars, localVars, boundVars>>

\* reconcile_pending_entry: nothing pending.
NothingPending ==
  /\ pc = "reconcile" /\ pendFile = NoPending
  /\ Goto("resume")
  /\ UNCHANGED <<riskVars, fileVars, chainVars, localVars, boundVars>>

\* A position record exists: whatever is pending was booked.
PendingBooked ==
  /\ pc = "reconcile" /\ pendFile # NoPending /\ posFile # NoPosition
  /\ Goto("dropPending")
  /\ UNCHANGED <<riskVars, fileVars, chainVars, localVars, boundVars>>

\* The pending entry's outcome, from the transaction and then the balances.
\* When the node does not answer, the start is refused, or, if the status
\* could not be read either, the entry counts as never landed.
ReconcilePending(answered) ==
  /\ pc = "reconcile" /\ pendFile # NoPending /\ posFile = NoPosition
  /\ Answers(answered)
  /\ LET st      == txs[pendFile.sig]
         onChain == st \in {"landed", "failed"}
     IN  /\ MayConfirm(st) \/ MayFail(st)
         /\ \/ /\ onChain /\ answered /\ Delivered(pendFile.before)
               /\ draft' = [sig |-> pendFile.sig, tokens |-> Balance - pendFile.before]
               /\ Goto("saveRecovered") /\ UNCHANGED dropped
            \/ /\ onChain /\ answered /\ ~Delivered(pendFile.before)
               /\ Goto("dropPending") /\ UNCHANGED <<draft, dropped>>
            \/ /\ onChain /\ ~answered
               /\ \/ Goto("down") /\ UNCHANGED dropped
                  \/ Goto("dropPending") /\ dropped' = dropped \cup {pendFile.sig}
               /\ UNCHANGED draft
            \/ /\ ~onChain
               /\ Goto("dropPending") /\ UNCHANGED draft
               /\ dropped' = dropped \cup {pendFile.sig}
  /\ UNCHANGED <<riskVars, fileVars, chainVars, livePos, current, sale,
                 nextEntry, crashes, failedWrites, failedClears>>

SaveRecovered(written) ==
  /\ pc = "saveRecovered"
  /\ posFile' = IF written THEN draft ELSE posFile
  /\ draft' = NoPosition
  /\ Goto(IF written THEN "bookTradeRecovered" ELSE "down")
  /\ Write(written)
  /\ UNCHANGED <<riskVars, pendFile, chainVars, livePos, current, sale>>

\* Mutant: the pending record stays behind.
DropPendingKeeps(cleared) ==
  /\ pc = "dropPending" /\ cleared
  /\ Goto("resume")
  /\ UNCHANGED <<riskVars, fileVars, chainVars, localVars, boundVars>>

DropPending(cleared) ==
  /\ pc = "dropPending"
  /\ pendFile' = IF cleared THEN NoPending ELSE pendFile
  /\ Goto(IF cleared THEN "resume" ELSE "down")
  /\ Clear(cleared)
  /\ UNCHANGED <<riskVars, posFile, chainVars, localVars, dropped>>

\* Mutant: the counter is trusted as it is.
ResumeUncounted(written) ==
  /\ pc = "resume" /\ posFile # NoPosition
  /\ written
  /\ livePos' = posFile
  /\ Goto("loop")
  /\ UNCHANGED <<riskVars, fileVars, chainVars, draft, current, sale, boundVars>>

\* Resume the recorded position, counting it if the counter missed it.
ResumePosition(written) ==
  /\ pc = "resume" /\ posFile # NoPosition
  /\ livePos' = posFile
  /\ \/ /\ openPositions = 0
        /\ RecordPositionOpen(EntrySize, written)
        /\ Write(written)
     \/ /\ openPositions > 0 /\ written
        /\ UNCHANGED <<riskVars, boundVars>>
  /\ Goto("loop")
  /\ UNCHANGED <<fileVars, chainVars, draft, current, sale>>

\* Mutant: without the orphan balance check.
StartWithOrphans(answered) ==
  /\ pc = "resume" /\ posFile = NoPosition
  /\ Answers(answered)
  /\ Goto(IF openPositions = 0 THEN "loop" ELSE "down")
  /\ UNCHANGED <<riskVars, fileVars, chainVars, localVars, boundVars>>

\* No record: the counter must be zero and the wallet free of the token.
StartFlat(answered) ==
  /\ pc = "resume" /\ posFile = NoPosition
  /\ Answers(answered)
  /\ Goto(IF openPositions = 0 /\ answered /\ Balance = 0 THEN "loop" ELSE "down")
  /\ UNCHANGED <<riskVars, fileVars, chainVars, localVars, boundVars>>

-----------------------------------------------------------------------------
(* Entry *)

\* The check at the top of an iteration.  An open breaker is waited out, any
\* other rejection ends the run.
AskToEnter ==
  /\ pc = "loop" /\ livePos = NoPosition
  /\ PreTradeCheck
  /\ LET verdict == PreTradeVerdict(ProbeSize, ProbeBps)
     IN  Goto(IF verdict = "Ok" THEN "entering"
              ELSE IF verdict = "CircuitBreakerOpen" THEN "loop" ELSE "stopped")
  /\ UNCHANGED <<fileVars, chainVars, localVars, boundVars>>

\* Signer, pool, account or authority lookups fail, or signing does.
EntryFault ==
  /\ pc = "entering"
  /\ TripCircuitBreaker
  /\ Goto("loop")
  /\ UNCHANGED <<fileVars, chainVars, localVars, boundVars>>

\* A gate says no, or the balance cannot be read or does not suffice.
NoEntry ==
  /\ pc \in {"entering", "signed"}
  /\ Goto("loop")
  /\ UNCHANGED <<riskVars, fileVars, chainVars, localVars, boundVars>>

\* The risk gate and the recheck before signing.
RecheckAndSign ==
  /\ pc = "entering"
  /\ PreTradeCheck
  /\ Goto(IF PreTradeVerdict(EntrySize, EntryBps) = "Ok" THEN "signed" ELSE "loop")
  /\ UNCHANGED <<fileVars, chainVars, localVars, boundVars>>

SavePending(written) ==
  /\ pc = "signed" /\ nextEntry <= MaxEntries
  /\ failedWrites' = IF written THEN failedWrites ELSE failedWrites + 1
  /\ failedWrites' <= MaxFailedWrites
  /\ IF written
     THEN /\ current' = [sig |-> nextEntry, before |-> Balance]
          /\ pendFile' = current'
          /\ nextEntry' = nextEntry + 1
          /\ Goto("saved")
     ELSE /\ Goto("loop")
          /\ UNCHANGED <<current, pendFile, nextEntry>>
  /\ UNCHANGED <<riskVars, posFile, chainVars, livePos, draft, sale, dropped, crashes, failedClears>>

\* The node takes the transaction, or rejects it before it is sent.
SendEntry ==
  /\ pc = "saved"
  /\ txs' = [txs EXCEPT ![current.sig] = "sent"] \/ UNCHANGED txs
  /\ Goto("sent")
  /\ UNCHANGED <<riskVars, fileVars, holding, sells, localVars, boundVars>>

ConfirmEntry ==
  /\ pc = "sent"
  /\ \/ MayConfirm(txs[current.sig]) /\ Goto("landed")
     \/ MayFail(txs[current.sig]) /\ Goto("doubt")
  /\ UNCHANGED <<riskVars, fileVars, chainVars, localVars, boundVars>>

\* Mutant: an error of the submission is taken for "not landed".
ResolveDoubtBlindly ==
  /\ pc = "doubt"
  /\ Goto("forget") /\ dropped' = dropped \cup {current.sig}
  /\ UNCHANGED <<riskVars, fileVars, chainVars, localVars,
                 nextEntry, crashes, failedWrites, failedClears>>

\* The submission failed: the balance decides what happened.
ResolveDoubt ==
  /\ pc = "doubt"
  /\ \/ Delivered(current.before) /\ Goto("landed") /\ UNCHANGED dropped
     \/ /\ ~Delivered(current.before)
        /\ Goto("forget") /\ dropped' = dropped \cup {current.sig}
  /\ UNCHANGED <<riskVars, fileVars, chainVars, localVars,
                 nextEntry, crashes, failedWrites, failedClears>>

\* The balance cannot be read: the pending record stays, trading halts.
HaltInDoubt ==
  /\ pc = "doubt" /\ RpcFails
  /\ TriggerKillSwitch
  /\ Goto("feeLoss")
  /\ UNCHANGED <<fileVars, chainVars, localVars, boundVars>>

ForgetPending(cleared) ==
  /\ pc = "forget"
  /\ pendFile' = IF cleared THEN NoPending ELSE pendFile
  /\ Goto("feeLoss")
  /\ Clear(cleared)
  /\ UNCHANGED <<riskVars, posFile, chainVars, localVars, dropped>>

BookFee(written) ==
  /\ pc = "feeLoss"
  /\ RecordLoss(EntryFee, written)
  /\ Write(written)
  /\ current' = NoPending
  /\ Goto("loop")
  /\ UNCHANGED <<fileVars, chainVars, livePos, draft, sale>>

\* Without an answer the minimum output of the swap stands for the amount.
SavePosition(answered, written) ==
  /\ pc = "landed" /\ Answers(answered)
  /\ draft' = [sig |-> current.sig,
               tokens |-> IF answered THEN SaturatingSub(Balance, current.before) ELSE 1]
  /\ posFile' = IF written THEN draft' ELSE posFile
  /\ IF written THEN UNCHANGED riskVars ELSE TriggerKillSwitch
  /\ Write(written)
  /\ Goto("bookTrade")
  /\ UNCHANGED <<pendFile, chainVars, livePos, current, sale>>

\* record_trade and record_position_open, after an entry and in recovery.
BookTrade(written) ==
  /\ pc \in {"bookTrade", "bookTradeRecovered"}
  /\ RecordTrade(written)
  /\ Write(written)
  /\ Goto(IF pc = "bookTrade" THEN "bookOpen" ELSE "bookOpenRecovered")
  /\ UNCHANGED <<fileVars, chainVars, localVars>>

BookOpen(written) ==
  /\ pc \in {"bookOpen", "bookOpenRecovered"}
  /\ RecordPositionOpen(EntrySize, written)
  /\ Write(written)
  /\ Goto(IF pc = "bookOpen" THEN "clearPending" ELSE "dropPending")
  /\ UNCHANGED <<fileVars, chainVars, localVars>>

ClearPending(cleared) ==
  /\ pc = "clearPending"
  /\ pendFile' = IF cleared THEN NoPending ELSE pendFile
  /\ livePos' = draft
  /\ draft' = NoPosition /\ current' = NoPending
  /\ Clear(cleared)
  /\ Goto("loop")
  /\ UNCHANGED <<riskVars, posFile, chainVars, sale, dropped>>

-----------------------------------------------------------------------------
(* Exit *)

\* manage_open_position finds no token left: ClosedExternally.
FindSold ==
  /\ pc = "loop" /\ livePos # NoPosition
  /\ Balance = 0
  /\ Goto("closing")
  /\ UNCHANGED <<riskVars, fileVars, chainVars, localVars, boundVars>>

\* manage_open_position values the tokens it finds; a new best price is
\* saved with the record, whatever the file held before.
ValuePosition(written) ==
  /\ pc = "loop" /\ livePos # NoPosition
  /\ Balance > 0
  /\ \/ /\ posFile' = IF written THEN livePos ELSE posFile
        /\ Write(written)
     \/ written /\ UNCHANGED <<posFile, boundVars>>
  /\ UNCHANGED <<riskVars, pendFile, chainVars, livePos, draft, current>>

Hold(written) ==
  /\ ValuePosition(written)
  /\ Goto("loop")
  /\ UNCHANGED sale

\* Mutant: exits pass the entry gate.
DecideExitGated(written) ==
  /\ ValuePosition(written)
  /\ PreTradeVerdict(EntrySize, EntryBps) = "Ok"
  /\ sale' = [slot |-> 0, held |-> Balance]
  /\ Goto("sell")

\* An exit signal: no gate of the risk manager is asked.
DecideExit(written) ==
  /\ ValuePosition(written)
  /\ sale' = [slot |-> 0, held |-> Balance]
  /\ Goto("sell")

\* Blockhash, building, signing or the balance read fails: next iteration.
NoExit ==
  /\ pc = "sell" /\ RpcFails
  /\ sale' = NoSale
  /\ Goto("loop")
  /\ UNCHANGED <<riskVars, fileVars, chainVars, livePos, draft, current, boundVars>>

\* Never more than the position bought.
ExitAmount == IF sale.held < livePos.tokens THEN sale.held
              ELSE IF livePos.tokens = 0 THEN 1 ELSE livePos.tokens

\* The node takes the sell, or rejects it before it is sent.
SendExit(taken) ==
  /\ pc = "sell"
  /\ \E x \in Slots :
       /\ sells[x].st # "sent"
       /\ \A y \in 1..x - 1 : sells[y].st = "sent"
       /\ sells' = [sells EXCEPT ![x] = [st  |-> IF taken THEN "sent" ELSE "new",
                                        lot |-> ExitAmount]]
       /\ sale' = [sale EXCEPT !.slot = x]
  /\ Goto("selling")
  /\ UNCHANGED <<riskVars, fileVars, txs, holding, livePos, draft, current, boundVars>>

\* Confirmed, or an error after which the token balance is lower: sold.
\* Any other error: next iteration.
ConfirmExit(answered) ==
  /\ pc = "selling" /\ Answers(answered)
  /\ LET st == sells[sale.slot].st
     IN  \/ MayConfirm(st) /\ Goto("bookExit")
         \/ /\ MayFail(st)
            /\ Goto(IF answered /\ Balance < sale.held THEN "bookExit" ELSE "loop")
  /\ sale' = NoSale
  /\ UNCHANGED <<riskVars, fileVars, chainVars, livePos, draft, current, boundVars>>

\* Realized profit books nothing, a loss is recorded.
BookExit(written) ==
  /\ pc = "bookExit"
  /\ \/ /\ RecordLoss(ExitLoss, written)
        /\ Write(written)
     \/ written /\ UNCHANGED <<riskVars, boundVars>>
  /\ Goto("closing")
  /\ UNCHANGED <<fileVars, chainVars, localVars>>

ClosePosition(written) ==
  /\ pc = "closing"
  /\ RecordPositionClose(EntrySize, written)
  /\ Write(written)
  /\ Goto("unrecord")
  /\ UNCHANGED <<fileVars, chainVars, localVars>>

\* A record that cannot be removed is only logged.
ClearPosition(cleared) ==
  /\ pc = "unrecord"
  /\ posFile' = IF cleared THEN NoPosition ELSE posFile
  /\ livePos' = NoPosition
  /\ Clear(cleared)
  /\ Goto("loop")
  /\ UNCHANGED <<riskVars, pendFile, chainVars, draft, current, sale, dropped>>

\* Shutdown requested, iterations used up, single trade done, or no entry in
\* the entry window.
Stop ==
  /\ pc = "loop"
  /\ Goto("stopped")
  /\ livePos' = NoPosition
  /\ UNCHANGED <<riskVars, fileVars, chainVars, draft, current, sale, boundVars>>

-----------------------------------------------------------------------------
(* The chain and the host *)

LandEntry(e) ==
  /\ txs[e] = "sent"
  /\ txs' = [txs EXCEPT ![e] = "landed"]
  /\ holding' = holding \cup {e}
  /\ UNCHANGED <<riskVars, fileVars, sells, pc, localVars, boundVars>>

\* Rejected on chain, or its blockhash expires first.
LoseEntry(e, st) ==
  /\ txs[e] = "sent"
  /\ txs' = [txs EXCEPT ![e] = st]
  /\ UNCHANGED <<riskVars, fileVars, holding, sells, pc, localVars, boundVars>>

\* A sell takes lots from the wallet; with too few of them it is rejected.
LandExit(x) ==
  /\ sells[x].st = "sent"
  /\ \E lots \in SUBSET holding :
       /\ Cardinality(lots) = sells[x].lot
       /\ holding' = holding \ lots
  /\ sells' = [sells EXCEPT ![x].st = "landed"]
  /\ UNCHANGED <<riskVars, fileVars, txs, pc, localVars, boundVars>>

LoseExit(x, st) ==
  /\ sells[x].st = "sent"
  /\ sells' = [sells EXCEPT ![x].st = st]
  /\ UNCHANGED <<riskVars, fileVars, txs, holding, pc, localVars, boundVars>>

HostTick ==
  /\ BreakerTick \/ NextDay
  /\ UNCHANGED engineVars

\* The process dies: a panic, a kill, the out-of-memory killer, or an I/O
\* error that main returns.
Crash ==
  /\ pc \notin OffSteps
  /\ crashes < MaxCrashes
  /\ crashes' = crashes + 1
  /\ Goto("down")
  /\ livePos' = NoPosition /\ draft' = NoPosition
  /\ current' = NoPending /\ sale' = NoSale
  /\ UNCHANGED <<riskVars, fileVars, chainVars, dropped, nextEntry, failedWrites, failedClears>>

-----------------------------------------------------------------------------

Boot ==
  \/ Arm \/ RefuseUnverified \/ NothingPending \/ PendingBooked
  \/ \E b \in BOOLEAN :
       ReconcilePending(b) \/ SaveRecovered(b) \/ DropPending(b) \/ ResumePosition(b) \/ StartFlat(b)

Enter ==
  \/ AskToEnter \/ EntryFault \/ NoEntry \/ RecheckAndSign
  \/ SendEntry \/ ConfirmEntry \/ ResolveDoubt \/ HaltInDoubt
  \/ \E b \in BOOLEAN :
       SavePending(b) \/ ForgetPending(b) \/ BookFee(b) \/ BookTrade(b) \/ BookOpen(b) \/ ClearPending(b)
  \/ \E answered, written \in BOOLEAN : SavePosition(answered, written)

Exit ==
  \/ FindSold \/ NoExit
  \/ \E b \in BOOLEAN :
       \/ Hold(b) \/ DecideExit(b) \/ SendExit(b)
       \/ ConfirmExit(b) \/ BookExit(b) \/ ClosePosition(b) \/ ClearPosition(b)

Chain ==
  \/ \E e \in Entries : LandEntry(e) \/ \E st \in {"failed", "expired"} : LoseEntry(e, st)
  \/ \E x \in Slots : LandExit(x) \/ \E st \in {"failed", "expired"} : LoseExit(x, st)

Next == Start \/ Boot \/ Enter \/ Exit \/ Stop \/ Chain \/ HostTick \/ Crash

Spec == Init /\ [][Next]_vars

=============================================================================
