---------------------------- MODULE PoolSupervisor ----------------------------
(***************************************************************************)
(* The pool-sniper supervisor (bin/pool_sniper.rs) and the live trading    *)
(* processes it starts, in one data directory.                             *)
(*                                                                         *)
(* The supervisor watches new pools, hands one after the other to a        *)
(* trading process and remembers in discovery_state.json which ones        *)
(* (pool_discovery.rs).  It can die at any step and start again while the  *)
(* process it started is still running.  A trading process is seen from    *)
(* outside: the lock of the data directory, its two records, how it ends;  *)
(* LiveEngine has what it does in between.                                 *)
(*                                                                         *)
(* MAX_SEEN and MAX_TRADED_POOLS, 100,000 and 5,000, are never reached     *)
(* here.  Writes of the two records succeed; LiveEngine has failing ones.  *)
(***************************************************************************)
EXTENDS Naturals, Sequences

CONSTANTS
  Pools, NoPool,
  Procs, NoProc,    \* the trading processes that can live at one time
  MaxWatch,         \* --max-watch
  MaxPoolsPerDay,   \* --max-pools-per-day
  ChecksPerLoop,    \* candidates checked in an iteration, 3 in the code
  LastDay, MaxRestarts, MaxCrashes  \* bounds of the model

ASSUME SupervisorAssumption ==
  /\ NoPool \notin Pools /\ NoProc \notin Procs
  /\ MaxWatch \in Nat \ {0} /\ MaxPoolsPerDay \in Nat \ {0} /\ ChecksPerLoop \in Nat \ {0}
  /\ LastDay \in Nat \ {0} /\ MaxRestarts \in Nat /\ MaxCrashes \in Nat

VARIABLES
  pc,             \* the supervisor's next step, "down" or "stopped"
  child,          \* running: the process it waits for
  shutdown,       \* it received SIGTERM
  blocked,        \* risk_blocked_until is in the future
  persistFailed,  \* status.state_persist_failed
  discState,      \* disc_state
  watch, seen,    \* WatchList.items and .seen
  checks,         \* candidates this iteration may still check
  discFile,       \* discovery_state.json
  traders,        \* the trading processes
  posRec, pendRec,  \* live_position.json and pending_entry.json, by pool
  today,
  handed,         \* history: times a pool was given to a new process
  startsToday,    \* history: such starts on this day
  forgotten,      \* history: starts whose record died with the supervisor
  restarts, crashes  \* history: deaths of the supervisor and of traders

memVars   == <<child, shutdown, blocked, persistFailed, discState, watch, seen, checks>>
recVars   == <<posRec, pendRec>>
histVars  == <<handed, startsToday, forgotten, restarts, crashes>>
vars      == <<pc, memVars, discFile, traders, recVars, today, histVars>>

-----------------------------------------------------------------------------
(* DiscoveryState and WatchList *)

NoState == [day |-> 0, count |-> 0, traded |-> {}]

StartsCounted(s) == IF s.day = today THEN s.count ELSE 0

\* record_start.
WithStart(s, p) ==
  [day |-> today, count |-> StartsCounted(s) + 1, traded |-> s.traded \cup {p}]

Without(i) == SubSeq(watch, 1, i - 1) \o SubSeq(watch, i + 1, Len(watch))

Watching == {watch[i] : i \in 1..Len(watch)}

\* retain in mark_seen; a pool is on the list at most once.
Unwatched(p) ==
  IF p \in Watching THEN Without(CHOOSE i \in 1..Len(watch) : watch[i] = p) ELSE watch

\* Mutant: the list is not bounded.
WatchedUnbounded(p) == Append(watch, p)

\* WatchList::add: the oldest candidate goes when the list is full.
Watched(p) == Append(IF Len(watch) >= MaxWatch THEN Tail(watch) ELSE watch, p)

-----------------------------------------------------------------------------
(* Trading processes *)

States == {"none", "starting", "booting", "booked", "matching", "hunting", "sending",
           "bought", "halted", "holding", "ok", "failed"}

\* Exited, not reaped yet.
Ended == {"ok", "failed"}

\* From InstanceLock::acquire to the end.
Locking == States \ (Ended \cup {"none", "starting"})

Nobody == [st |-> "none", pool |-> NoPool, term |-> FALSE]

Alive(t) == traders[t].st \notin Ended \cup {"none"}
Free     == {t \in Procs : traders[t] = Nobody}

Run(p) == [st |-> "starting", pool |-> p, term |-> FALSE]

\* An exit code is kept for the parent only.
Exits(t, how) ==
  traders' = [traders EXCEPT ![t] = IF t = child THEN [@ EXCEPT !.st = how] ELSE Nobody]

Goes(t, from, to) ==
  /\ traders[t].st = from
  /\ traders' = [traders EXCEPT ![t].st = to]

PoolTypeOK ==
  /\ pc \in {"down", "reap", "intake", "records", "pending", "gates", "check", "save", "stopped"}
  /\ child \in Procs \cup {NoProc}
  /\ shutdown \in BOOLEAN /\ blocked \in BOOLEAN /\ persistFailed \in BOOLEAN
  /\ discState \in [day : 0..LastDay, count : Nat, traded : SUBSET Pools]
  /\ discFile \in [day : 0..LastDay, count : Nat, traded : SUBSET Pools]
  /\ watch \in Seq(Pools) /\ Len(watch) <= MaxWatch
  /\ seen \in SUBSET Pools
  /\ checks \in 0..ChecksPerLoop
  /\ traders \in [Procs -> [st : States, pool : Pools \cup {NoPool}, term : BOOLEAN]]
  /\ posRec \in Pools \cup {NoPool} /\ pendRec \in Pools \cup {NoPool}
  /\ today \in 1..LastDay
  /\ handed \in [Pools -> Nat] /\ startsToday \in Nat /\ forgotten \in Nat
  /\ restarts \in 0..MaxRestarts /\ crashes \in 0..MaxCrashes
  /\ \A t \in Procs : traders[t].pool = NoPool <=> traders[t] = Nobody
  /\ child # NoProc => traders[child] # Nobody
  /\ pc = "save" => child # NoProc

Init ==
  /\ pc = "down" /\ child = NoProc
  /\ shutdown = FALSE /\ blocked = FALSE /\ persistFailed = FALSE
  /\ discState = NoState /\ discFile = NoState
  /\ watch = << >> /\ seen = {} /\ checks = 0
  /\ traders = [t \in Procs |-> Nobody]
  /\ posRec = NoPool /\ pendRec = NoPool
  /\ today = 1
  /\ handed = [p \in Pools |-> 0] /\ startsToday = 0 /\ forgotten = 0
  /\ restarts = 0 /\ crashes = 0

-----------------------------------------------------------------------------
(* The supervisor's start and the child's life *)

\* Mutant: the traded pools are not marked.
StartUnmarked ==
  /\ pc = "down" /\ pc' = "reap"
  /\ discState' = discFile
  /\ UNCHANGED <<child, shutdown, blocked, persistFailed, watch, seen, checks>>
  /\ UNCHANGED <<discFile, traders, recVars, today, histVars>>

\* Mutant: the day's count starts over.
StartUncounted ==
  /\ pc = "down" /\ pc' = "reap"
  /\ discState' = [discFile EXCEPT !.count = 0]
  /\ seen' = discFile.traded
  /\ UNCHANGED <<child, shutdown, blocked, persistFailed, watch, checks>>
  /\ UNCHANGED <<discFile, traders, recVars, today, histVars>>

\* The state file is read and its pools are marked as seen.
Start ==
  /\ pc = "down" /\ pc' = "reap"
  /\ discState' = discFile
  /\ seen' = discFile.traded
  /\ UNCHANGED <<child, shutdown, blocked, persistFailed, watch, checks>>
  /\ UNCHANGED <<discFile, traders, recVars, today, histVars>>

\* try_wait: the child has exited; a failure right at its start pauses.
ChildExited ==
  /\ pc = "reap" /\ child # NoProc /\ ~Alive(child)
  /\ blocked' \in IF traders[child].st = "failed" THEN {blocked, TRUE} ELSE {blocked}
  /\ traders' = [traders EXCEPT ![child] = Nobody]
  /\ child' = NoProc
  /\ pc' = IF shutdown THEN "stopped" ELSE "intake"
  /\ UNCHANGED <<shutdown, persistFailed, discState, watch, seen, checks>>
  /\ UNCHANGED <<discFile, recVars, today, histVars>>

\* It runs: SIGTERM at shutdown or after its maximum time, then SIGKILL.
ChildRuns ==
  /\ pc = "reap" /\ child # NoProc /\ Alive(child)
  /\ \/ traders' = traders /\ (shutdown => traders[child].term)
     \/ traders' = [traders EXCEPT ![child].term = TRUE]
     \/ traders[child].term /\ traders' = [traders EXCEPT ![child].st = "failed"]
  /\ pc' = IF shutdown THEN "reap" ELSE "intake"
  /\ UNCHANGED <<memVars, discFile, recVars, today, histVars>>

NoChild ==
  /\ pc = "reap" /\ child = NoProc
  /\ pc' = IF shutdown THEN "stopped" ELSE "intake"
  /\ UNCHANGED <<memVars, discFile, traders, recVars, today, histVars>>

-----------------------------------------------------------------------------
(* New pools *)

\* A verified pool, from either source; one seen before is ignored.
Discover(p) ==
  /\ pc = "intake" /\ p \notin seen
  /\ seen' = seen \cup {p}
  /\ watch' = Watched(p)
  /\ UNCHANGED <<pc, child, shutdown, blocked, persistFailed, discState, checks>>
  /\ UNCHANGED <<discFile, traders, recVars, today, histVars>>

\* The watch time of a candidate is over.
Expire(i) ==
  /\ pc = "intake"
  /\ watch' = Without(i)
  /\ UNCHANGED <<pc, child, shutdown, blocked, persistFailed, discState, seen, checks>>
  /\ UNCHANGED <<discFile, traders, recVars, today, histVars>>

IntakeDone ==
  /\ pc = "intake"
  /\ pc' = IF child = NoProc THEN "records" ELSE "reap"
  /\ UNCHANGED <<memVars, discFile, traders, recVars, today, histVars>>

-----------------------------------------------------------------------------
(* What is open comes first *)

\* mark_seen, and a process for the pool of the record; or it cannot start.
ResumePool(p) ==
  /\ seen' = seen \cup {p}
  /\ watch' = Unwatched(p)
  /\ pc' = "reap"
  /\ \/ \E t \in Free : child' = t /\ traders' = [traders EXCEPT ![t] = Run(p)]
     \/ UNCHANGED <<child, traders>>
  /\ UNCHANGED <<shutdown, blocked, persistFailed, discState, checks>>
  /\ UNCHANGED <<discFile, recVars, today, histVars>>

ResumePosition == pc = "records" /\ posRec # NoPool /\ ResumePool(posRec)

NoPosition ==
  /\ pc = "records" /\ posRec = NoPool
  /\ pc' = "pending"
  /\ UNCHANGED <<memVars, discFile, traders, recVars, today, histVars>>

\* Mutant: a pending entry is passed over.
PassPendingOver ==
  /\ pc = "pending" /\ pendRec # NoPool
  /\ pc' = "gates"
  /\ UNCHANGED <<memVars, discFile, traders, recVars, today, histVars>>

\* The second file is read after the first.
ResumePending == pc = "pending" /\ pendRec # NoPool /\ ResumePool(pendRec)

NothingOpen ==
  /\ pc = "pending" /\ pendRec = NoPool
  /\ pc' = "gates"
  /\ UNCHANGED <<memVars, discFile, traders, recVars, today, histVars>>

-----------------------------------------------------------------------------
(* A new pool *)

MayStart == ~blocked /\ ~persistFailed /\ StartsCounted(discState) < MaxPoolsPerDay

GatesClosed ==
  /\ pc = "gates" /\ ~MayStart
  /\ pc' = "reap"
  /\ UNCHANGED <<memVars, discFile, traders, recVars, today, histVars>>

\* risk_allows_entry says no.
RiskRefuses ==
  /\ pc = "gates" /\ MayStart
  /\ blocked' = TRUE
  /\ pc' = "reap"
  /\ UNCHANGED <<child, shutdown, persistFailed, discState, watch, seen, checks>>
  /\ UNCHANGED <<discFile, traders, recVars, today, histVars>>

RiskAllows ==
  /\ pc = "gates" /\ MayStart
  /\ checks' = ChecksPerLoop
  /\ pc' = "check"
  /\ UNCHANGED <<child, shutdown, blocked, persistFailed, discState, watch, seen>>
  /\ UNCHANGED <<discFile, traders, recVars, today, histVars>>

\* No candidate is due, or enough were checked.
ChecksDone ==
  /\ pc = "check"
  /\ checks' = 0
  /\ pc' = "reap"
  /\ UNCHANGED <<child, shutdown, blocked, persistFailed, discState, watch, seen>>
  /\ UNCHANGED <<discFile, traders, recVars, today, histVars>>

\* take_due, check_candidate: the candidate goes back to the end of the list,
\* or is rejected.
CheckCandidate(i) ==
  /\ pc = "check" /\ checks > 0
  /\ checks' = checks - 1
  /\ watch' \in {Append(Without(i), watch[i]), Without(i)}
  /\ UNCHANGED <<pc, child, shutdown, blocked, persistFailed, discState, seen>>
  /\ UNCHANGED <<discFile, traders, recVars, today, histVars>>

\* It is ready, and its process started.
StartPool(i) ==
  /\ pc = "check" /\ checks > 0
  /\ \E t \in Free :
       child' = t /\ traders' = [traders EXCEPT ![t] = Run(watch[i])]
  /\ watch' = Without(i)
  /\ checks' = 0
  /\ handed' = [handed EXCEPT ![watch[i]] = @ + 1]
  /\ startsToday' = startsToday + 1
  /\ pc' = "save"
  /\ UNCHANGED <<shutdown, blocked, persistFailed, discState, seen>>
  /\ UNCHANGED <<discFile, recVars, today, forgotten, restarts, crashes>>

\* It is ready and the process cannot be started: the candidate is gone.
StartFails(i) ==
  /\ pc = "check" /\ checks > 0
  /\ watch' = Without(i)
  /\ checks' = 0
  /\ pc' = "reap"
  /\ UNCHANGED <<child, shutdown, blocked, persistFailed, discState, seen>>
  /\ UNCHANGED <<discFile, traders, recVars, today, histVars>>

\* record_start, then save_discovery_state, which may fail.
RecordStart ==
  /\ pc = "save"
  /\ discState' = WithStart(discState, traders[child].pool)
  /\ \/ discFile' = discState' /\ UNCHANGED persistFailed
     \/ persistFailed' = TRUE /\ UNCHANGED discFile
  /\ pc' = "reap"
  /\ UNCHANGED <<child, shutdown, blocked, watch, seen, checks>>
  /\ UNCHANGED <<traders, recVars, today, histVars>>

-----------------------------------------------------------------------------
(* The trading process at its start *)

\* Mutant: the data directory is not locked.
LockNothing(t) ==
  /\ Goes(t, "starting", "booting")
  /\ UNCHANGED <<pc, memVars, discFile, recVars, today, histVars>>

Lock(t) ==
  /\ \A u \in Procs : traders[u].st \notin Locking
  /\ Goes(t, "starting", "booting")
  /\ UNCHANGED <<pc, memVars, discFile, recVars, today, histVars>>

LockRefused(t) ==
  /\ traders[t].st = "starting"
  /\ \E u \in Procs : traders[u].st \in Locking
  /\ Exits(t, "failed")
  /\ UNCHANGED <<pc, memVars, discFile, recVars, today, histVars>>

\* reconcile_pending_entry, whatever pool the record is of: nothing to do ...
NothingPending(t) ==
  /\ pendRec = NoPool
  /\ Goes(t, "booting", "matching")
  /\ UNCHANGED <<pc, memVars, discFile, recVars, today, histVars>>

\* ... only the removal is missing, or the entry delivered nothing ...
DropPending(t) ==
  /\ pendRec # NoPool /\ pendRec' = NoPool
  /\ Goes(t, "booting", "matching")
  /\ UNCHANGED <<pc, memVars, discFile, posRec, today, histVars>>

\* ... or it did, and is booked.
BookPending(t) ==
  /\ pendRec # NoPool /\ posRec = NoPool
  /\ posRec' = pendRec
  /\ Goes(t, "booting", "booked")
  /\ UNCHANGED <<pc, memVars, discFile, pendRec, today, histVars>>

ClearBooked(t) ==
  /\ pendRec' = NoPool
  /\ Goes(t, "booked", "matching")
  /\ UNCHANGED <<pc, memVars, discFile, posRec, today, histVars>>

\* The recorded position is of this pool, of another one, or there is none.
TakeOver(t) ==
  /\ posRec = traders[t].pool
  /\ Goes(t, "matching", "holding")
  /\ UNCHANGED <<pc, memVars, discFile, recVars, today, histVars>>

RefuseForeign(t) ==
  /\ traders[t].st = "matching"
  /\ posRec \notin {NoPool, traders[t].pool}
  /\ Exits(t, "failed")
  /\ UNCHANGED <<pc, memVars, discFile, recVars, today, histVars>>

StartFlat(t) ==
  /\ posRec = NoPool
  /\ Goes(t, "matching", "hunting")
  /\ UNCHANGED <<pc, memVars, discFile, recVars, today, histVars>>

\* A node or a signer that does not answer, an orphan balance.
BootFails(t) ==
  /\ traders[t].st \in {"starting", "booting", "matching"}
  /\ Exits(t, "failed")
  /\ UNCHANGED <<pc, memVars, discFile, recVars, today, histVars>>

-----------------------------------------------------------------------------
(* The trading process at work *)

SavePending(t) ==
  /\ pendRec' = traders[t].pool
  /\ Goes(t, "hunting", "sending")
  /\ UNCHANGED <<pc, memVars, discFile, posRec, today, histVars>>

SavePosition(t) ==
  /\ posRec' = traders[t].pool
  /\ Goes(t, "sending", "bought")
  /\ UNCHANGED <<pc, memVars, discFile, pendRec, today, histVars>>

ClearPending(t) ==
  /\ pendRec' = NoPool
  /\ Goes(t, "bought", "holding")
  /\ UNCHANGED <<pc, memVars, discFile, posRec, today, histVars>>

\* The entry did not land.
ForgetPending(t) ==
  /\ pendRec' = NoPool
  /\ Goes(t, "sending", "hunting")
  /\ UNCHANGED <<pc, memVars, discFile, posRec, today, histVars>>

\* Mutant: no kill switch.
HaltInDoubtNot(t) ==
  /\ Goes(t, "sending", "hunting")
  /\ UNCHANGED <<pc, memVars, discFile, recVars, today, histVars>>

\* Its outcome is unknown: the kill switch, and the record stays.
HaltInDoubt(t) ==
  /\ Goes(t, "sending", "halted")
  /\ UNCHANGED <<pc, memVars, discFile, recVars, today, histVars>>

\* The position is sold; a process of one trade ends.
Sell(t) ==
  /\ traders[t].st = "holding"
  /\ posRec' = NoPool
  /\ Exits(t, "ok")
  /\ UNCHANGED <<pc, memVars, discFile, pendRec, today, histVars>>

\* The entry window is over, or SIGTERM: also with an open position.
Leave(t) ==
  /\ \/ traders[t].st \in {"hunting", "halted"}
     \/ traders[t].st = "holding" /\ traders[t].term
  /\ Exits(t, "ok")
  /\ UNCHANGED <<pc, memVars, discFile, recVars, today, histVars>>

-----------------------------------------------------------------------------
(* Environment *)

\* SIGTERM to the supervisor, or to the whole service.
Terminate ==
  /\ pc \notin {"down", "stopped"} /\ ~shutdown
  /\ shutdown' = TRUE
  /\ \/ traders' = traders
     \/ traders' = [t \in Procs |-> IF Alive(t) THEN [traders[t] EXCEPT !.term = TRUE]
                                                ELSE traders[t]]
  /\ UNCHANGED <<pc, child, blocked, persistFailed, discState, watch, seen, checks>>
  /\ UNCHANGED <<discFile, recVars, today, histVars>>

\* systemd ends what is left of a service whose main process is gone.
TerminateOrphan(t) ==
  /\ pc \in {"down", "stopped"} /\ Alive(t) /\ ~traders[t].term
  /\ traders' = [traders EXCEPT ![t].term = TRUE]
  /\ UNCHANGED <<pc, memVars, discFile, recVars, today, histVars>>

TraderCrash(t) ==
  /\ Alive(t) /\ crashes < MaxCrashes
  /\ crashes' = crashes + 1
  /\ Exits(t, "failed")
  /\ UNCHANGED <<pc, memVars, discFile, recVars, today, handed, startsToday, forgotten, restarts>>

\* The supervisor dies, or is started again after a stop.  Its child lives on.
Crash ==
  /\ pc # "down" /\ restarts < MaxRestarts
  /\ restarts' = restarts + 1
  /\ forgotten' = IF pc = "save" \/ persistFailed THEN forgotten + 1 ELSE forgotten
  /\ pc' = "down" /\ child' = NoProc
  /\ shutdown' = FALSE /\ blocked' = FALSE /\ persistFailed' = FALSE
  /\ discState' = NoState /\ watch' = << >> /\ seen' = {} /\ checks' = 0
  /\ traders' = [t \in Procs |-> IF Alive(t) THEN traders[t] ELSE Nobody]
  /\ UNCHANGED <<discFile, recVars, today, handed, startsToday, crashes>>

\* The pause is over.
Unblock ==
  /\ blocked /\ blocked' = FALSE
  /\ UNCHANGED <<pc, child, shutdown, persistFailed, discState, watch, seen, checks>>
  /\ UNCHANGED <<discFile, traders, recVars, today, histVars>>

Midnight ==
  /\ today < LastDay /\ today' = today + 1
  /\ startsToday' = 0
  /\ UNCHANGED <<pc, memVars, discFile, traders, recVars, handed, forgotten, restarts, crashes>>

-----------------------------------------------------------------------------
Check(i) == CheckCandidate(i) \/ StartPool(i) \/ StartFails(i)

Supervise ==
  \/ Start \/ ChildExited \/ ChildRuns \/ NoChild
  \/ IntakeDone \/ ResumePosition \/ NoPosition \/ ResumePending \/ NothingOpen
  \/ GatesClosed \/ RiskRefuses \/ RiskAllows \/ ChecksDone \/ RecordStart
  \/ \E i \in 1..Len(watch) : Expire(i) \/ Check(i)

Trade(t) ==
  \/ Lock(t) \/ LockRefused(t)
  \/ NothingPending(t) \/ DropPending(t) \/ BookPending(t) \/ ClearBooked(t)
  \/ TakeOver(t) \/ RefuseForeign(t) \/ StartFlat(t) \/ BootFails(t)
  \/ SavePending(t) \/ SavePosition(t) \/ ClearPending(t) \/ ForgetPending(t)
  \/ HaltInDoubt(t) \/ Sell(t) \/ Leave(t)

Environment ==
  \/ Terminate \/ Crash \/ Unblock \/ Midnight
  \/ \E p \in Pools : Discover(p)
  \/ \E t \in Procs : TerminateOrphan(t) \/ TraderCrash(t)

Next == Supervise \/ Environment \/ \E t \in Procs : Trade(t)

Spec == Init /\ [][Next]_vars

=============================================================================
