---------------------------- MODULE PoolProperties ----------------------------
(***************************************************************************)
(* What the supervisor and its trading processes guarantee together, and   *)
(* the fairness they do so under.                                          *)
(***************************************************************************)
EXTENDS PoolSupervisor

\* A trading process only sends an entry when no position is open and no
\* other entry is unsettled: the lock, reconcile_pending_entry and the match
\* of the recorded pool, whatever the supervisor read before it started it and
\* whichever older process was running then.
EntersOnlyFlat ==
  [][\A t \in Procs : traders[t].st # "sending" /\ traders'[t].st = "sending" =>
       /\ posRec = NoPool /\ pendRec = NoPool
       /\ \A u \in Procs \ {t} : traders[u].st \notin Locking]_vars

\* The records in the data directory are those of the process at work: what it
\* sent or holds is recorded, under its own pool, and nothing else is.
RecordsOfTrader ==
  \A t \in Procs :
    LET own == traders[t].pool
    IN  /\ traders[t].st = "hunting" => posRec = NoPool /\ pendRec = NoPool
        /\ traders[t].st \in {"sending", "halted"} => posRec = NoPool /\ pendRec = own
        /\ traders[t].st = "bought" => posRec = own /\ pendRec = own
        /\ traders[t].st = "holding" => posRec = own /\ pendRec = NoPool

\* --max-pools-per-day, over all runs of the supervisor on a day: it is exceeded
\* only by starts whose record was lost, one for each time the supervisor died
\* before it had written it.
StartsWithinCap == startsToday <= MaxPoolsPerDay + forgotten

\* traded_pools: a pool seen again, in this run of the supervisor or a later one,
\* is given to a new process again only if such a record was lost.
HandedOnce == \A p \in Pools : handed[p] <= 1 + forgotten

-----------------------------------------------------------------------------
(* Liveness *)

\* The supervisor's loop runs and systemd restarts it; a process takes its
\* steps; the node answers again, so a start succeeds and a position is sold;
\* the entry window passes.
Fairness ==
  /\ WF_vars(Supervise)
  /\ \A t \in Procs : WF_vars(Trade(t))
  /\ SF_vars((ResumePosition \/ ResumePending) /\ child' # NoProc)
  /\ SF_vars(\E t \in Procs : Lock(t))
  /\ SF_vars(\E t \in Procs : NothingPending(t) \/ DropPending(t) \/ BookPending(t))
  /\ SF_vars(\E t \in Procs : TakeOver(t))
  /\ SF_vars(\E t \in Procs : Sell(t))
  /\ SF_vars(\E t \in Procs : Leave(t) /\ posRec = NoPool)

FairSpec == Spec /\ Fairness

\* Whatever is recorded, a position or an entry whose outcome was never booked,
\* is settled and sold in the end, whoever recorded it and whoever died since,
\* also when no new pool may be started; a stopped supervisor leaves it for the
\* next start.
RecordsAreSettled ==
  posRec # NoPool \/ pendRec # NoPool ~>
    pc = "stopped" \/ (posRec = NoPool /\ pendRec = NoPool)

=============================================================================
