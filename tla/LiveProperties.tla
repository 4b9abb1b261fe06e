---------------------------- MODULE LiveProperties ----------------------------
(***************************************************************************)
(* What the live process guarantees, and the fairness it does so under.    *)
(***************************************************************************)
EXTENDS LiveEngine

Trading == pc \in {"loop"} \cup EntrySteps \cup ExitSteps

InFlight == {e \in Entries : txs[e] = "sent"}

\* A new entry is only under way, up to the moment it is sent, when nothing
\* bought before is unsold and no earlier buy can still land; main's checks
\* at startup (reconcile_pending_entry, the record and counter match, the
\* orphan balance) and its one-position rule together.
NeverBuysTwice ==
  pc \in {"entering", "signed", "saved"} => holding = {} /\ InFlight = {}

\* Money that is, or may come to be, in the token is on record: a buy that
\* can still land is in pending_entry.json; a lot that landed is there or in
\* live_position.json.  If the position could not be written, or a start with
\* a failing node gave the entry up, the process that bought it manages it
\* from memory or none trades.
BuysOnRecord ==
  /\ InFlight \subseteq {pendFile.sig}
  /\ \A e \in holding :
       \/ e \in {pendFile.sig, posFile.sig}
       \/ (failedWrites > 0 \/ e \in dropped) /\ (Trading => e \in {livePos.sig, draft.sig})

\* Between iterations the risk manager's exposure is that of the position
\* being managed, across crashes between the record and the counters; it
\* never counts too little even if writes fail.
ExposureOfPosition ==
  pc = "loop" =>
    LET open == livePos # NoPosition
    IN  /\ open => openPositions >= 1 /\ openExposure >= EntrySize
        /\ failedWrites = 0 =>
             /\ openPositions = (IF open THEN 1 ELSE 0)
             /\ openExposure = (IF open THEN EntrySize ELSE 0)

-----------------------------------------------------------------------------
\* The entries as the abstract ledger sees them.
StageOf(e) ==
  IF e >= nextEntry THEN "idle"
  ELSE IF txs[e] = "landed" THEN (IF e \in holding THEN "held" ELSE "sold")
  ELSE IF pendFile.sig = e THEN "recorded" ELSE "dropped"

Ledger == INSTANCE EntryLedger WITH stage <- [e \in Entries |-> StageOf(e)]

\* The process implements the ledger.
ImplementsLedger == Ledger!Spec

-----------------------------------------------------------------------------
(* Liveness *)

\* systemd restarts a process that failed (Restart=on-failure), not one that
\* exited with code 0; the loop keeps iterating; a transaction settles; the
\* node answers again; the position's exit signal comes (max hold time) and
\* one of its exits lands.
Fairness ==
  /\ WF_vars(pc = "down" /\ Start)
  /\ WF_vars(Boot)
  /\ WF_vars(Enter \/ Exit)
  /\ SF_vars(ReconcilePending(TRUE))
  /\ SF_vars(FindSold \/ \E written \in BOOLEAN : DecideExit(written))
  /\ SF_vars(SendExit(TRUE))
  /\ \A e \in Entries : WF_vars(LandEntry(e) \/ \E st \in {"failed", "expired"} : LoseEntry(e, st))
  /\ \A x \in Slots : SF_vars(LandExit(x))
  /\ \A x \in Slots : WF_vars(LandExit(x) \/ \E st \in {"failed", "expired"} : LoseExit(x, st))

FairSpec == Spec /\ Fairness

\* A position on record is sold and its record removed, through crashes,
\* failed exits, and whatever the kill switch, the breaker and the daily
\* limits say, unless the operator stops the process.
PositionIsClosed == posFile # NoPosition ~> posFile = NoPosition \/ pc = "stopped"

\* An unfinished entry is settled, by the process or by the next start.
PendingIsSettled == pendFile # NoPending ~> pendFile = NoPending \/ pc = "stopped"

=============================================================================
