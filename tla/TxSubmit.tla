------------------------------- MODULE TxSubmit -------------------------------
(***************************************************************************)
(* One call of submit_live_tx (main.rs): a signed transaction goes out as  *)
(* a Jito bundle (jito.rs) or to the RPC node, with retries, and is        *)
(* followed until it is confirmed, failed or expired (retry.rs).           *)
(*                                                                         *)
(* The clock has three readings: before the deadline, past it, past the    *)
(* hard one.  The node answers for the moment it is asked, or not at all.  *)
(* A block that holds the transaction may be dropped until it is           *)
(* confirmed.                                                              *)
(***************************************************************************)
EXTENDS Naturals

CONSTANTS
  MaxRetries,    \* of send_with_retry, 3 in the code
  ValidityEvery  \* ConfirmTiming.validity_every, 10 in the code

ASSUME SubmitAssumption ==
  MaxRetries \in Nat \ {0} /\ ValidityEvery \in Nat \ {0}

VARIABLES
  mode,     \* the arguments: not an armed live run, RPC, Jito dry run, Jito
  pc,       \* the next step
  leg,      \* what is being confirmed: the bundle, or the transaction sent by RPC
  attempt,  \* send_with_retry's counter
  polls,    \* confirm_transaction_with's counter, modulo ValidityEvery
  clock,    \* time since its start
  result,   \* of submit_live_tx
  chain,    \* the transaction, as the cluster has it
  valid,    \* its blockhash is valid at processed commitment
  gaps      \* history: how the submission lost track of it

callVars  == <<leg, attempt, polls, clock>>
worldVars == <<chain, valid>>
vars      == <<mode, pc, callVars, result, worldVars, gaps>>

Polling == {"status", "validity", "final"}

\* The reply to a request that was taken is lost.  A status is read before it is
\* confirmed.  The final look gets no answer.  The hard deadline passes while
\* the node says nothing about the blockhash, or says that it is valid.
Gaps == {"reply", "early", "unread", "unknown", "stillValid"}

TxTypeOK ==
  /\ mode \in {"unarmed", "rpc", "dryRun", "bundle"}
  /\ pc \in {"start", "bundle", "send", "done"} \cup Polling
  /\ leg \in {"bundle", "rpc"}
  /\ attempt \in 0..MaxRetries - 1
  /\ polls \in 0..ValidityEvery - 1
  /\ clock \in 0..2
  /\ result \in {"none", "ok", "err"}
  /\ chain \in {"unsent", "known", "processed", "erred", "confirmed", "failed"}
  /\ valid \in BOOLEAN
  /\ gaps \subseteq Gaps
  /\ result = "none" <=> pc # "done"

Init ==
  /\ mode \in {"unarmed", "rpc", "dryRun", "bundle"}
  /\ pc = "start" /\ leg = "rpc" /\ attempt = 0 /\ polls = 0 /\ clock = 0
  /\ result = "none"
  /\ chain = "unsent" /\ valid = TRUE
  /\ gaps = {}

-----------------------------------------------------------------------------
(* Steps of the calls *)

Return(r) == pc' = "done" /\ result' = r

\* confirm_transaction is called.
Confirming(l) ==
  /\ pc' = "status" /\ leg' = l /\ polls' = 0 /\ clock' = 0
  /\ UNCHANGED <<attempt, result>>

\* send_with_retry is called.
Sending == pc' = "send" /\ attempt' = 0 /\ UNCHANGED <<leg, polls, clock, result>>

\* confirm_transaction returns an error: an unconfirmed bundle goes out by RPC.
NotConfirmed ==
  \/ leg = "bundle" /\ Sending
  \/ leg = "rpc" /\ Return("err") /\ UNCHANGED callVars

\* Somebody took the transaction.
Taken == chain' = IF chain = "unsent" THEN "known" ELSE chain

\* A request failed; that it was taken all the same is lost.
Failed(taken) ==
  IF taken THEN Taken /\ gaps' = gaps \cup {"reply"} ELSE UNCHANGED <<chain, gaps>>

\* The node's answer to getSignatureStatuses.
Status ==
  CASE chain = "confirmed" -> "landed"
    [] chain \in {"erred", "failed"} -> "failed"
    [] OTHER -> "none"

-----------------------------------------------------------------------------
(* submit_live_tx *)

Refuse ==
  /\ pc = "start" /\ mode = "unarmed"
  /\ Return("err")
  /\ UNCHANGED <<mode, callVars, worldVars, gaps>>

\* Without Jito, or after a dry run, whatever it said.
SubmitByRpc ==
  /\ pc = "start" /\ mode \in {"rpc", "dryRun"}
  /\ Sending
  /\ UNCHANGED <<mode, worldVars, gaps>>

SubmitBundle ==
  /\ pc = "start" /\ mode = "bundle"
  /\ pc' = "bundle"
  /\ UNCHANGED <<mode, callVars, result, worldVars, gaps>>

BundleAccepted ==
  /\ pc = "bundle"
  /\ Taken
  /\ Confirming("bundle")
  /\ UNCHANGED <<mode, valid, gaps>>

BundleFailed ==
  /\ pc = "bundle"
  /\ \E taken \in BOOLEAN : Failed(taken)
  /\ Sending
  /\ UNCHANGED <<mode, valid>>

-----------------------------------------------------------------------------
(* send_with_retry *)

\* The preflight refuses a transaction that is already confirmed.
SendOk ==
  /\ pc = "send" /\ chain \notin {"confirmed", "failed"}
  /\ Taken
  /\ Confirming("rpc")
  /\ UNCHANGED <<mode, valid, gaps>>

\* Mutant: one attempt too many.
SendFailedOften ==
  /\ pc = "send"
  /\ \E taken \in BOOLEAN : Failed(taken)
  /\ \/ attempt + 1 > MaxRetries /\ Return("err") /\ UNCHANGED attempt
     \/ attempt + 1 <= MaxRetries /\ attempt' = attempt + 1 /\ UNCHANGED <<pc, result>>
  /\ UNCHANGED <<mode, leg, polls, clock, valid>>

SendFailed ==
  /\ pc = "send"
  /\ \E taken \in BOOLEAN : Failed(taken)
  /\ \/ attempt + 1 >= MaxRetries /\ Return("err") /\ UNCHANGED attempt
     \/ attempt + 1 < MaxRetries /\ attempt' = attempt + 1 /\ UNCHANGED <<pc, result>>
  /\ UNCHANGED <<mode, leg, polls, clock, valid>>

-----------------------------------------------------------------------------
(* confirm_transaction *)

\* It is confirmed: both callers return Ok.
SeeLanded ==
  /\ pc \in {"status", "final"} /\ Status = "landed"
  /\ Return("ok")
  /\ UNCHANGED <<mode, callVars, worldVars, gaps>>

\* It has an error, at any commitment.
SeeFailed ==
  /\ pc = "status" /\ Status = "failed"
  /\ NotConfirmed
  /\ gaps' = IF chain = "erred" THEN gaps \cup {"early"} ELSE gaps
  /\ UNCHANGED <<mode, worldVars>>

\* No answer, no status, or none at confirmed commitment.
SeeNothing ==
  /\ pc = "status"
  /\ polls' = (polls + 1) % ValidityEvery
  /\ pc' = IF clock > 0 \/ polls' = 0 THEN "validity" ELSE "status"
  /\ UNCHANGED <<mode, leg, attempt, clock, result, worldVars, gaps>>

\* is_blockhash_valid says yes, or nothing.
StillValid ==
  /\ pc = "validity" /\ clock < 2
  /\ pc' = "status"
  /\ UNCHANGED <<mode, callVars, result, worldVars, gaps>>

\* Mutant: as the doc of hard_deadline has it, only when nothing was said.
GiveUpUnanswered ==
  /\ pc = "validity" /\ clock = 2
  /\ \/ valid /\ pc' = "status" /\ UNCHANGED <<callVars, result, gaps>>
     \/ NotConfirmed /\ gaps' = gaps \cup {"unknown"}
  /\ UNCHANGED <<mode, worldVars>>

\* The hard deadline, whether or not the node says that the blockhash is valid.
GiveUp ==
  /\ pc = "validity" /\ clock = 2
  /\ NotConfirmed
  /\ \/ gaps' = gaps \cup {"unknown"}
     \/ valid /\ gaps' = gaps \cup {"stillValid"}
  /\ UNCHANGED <<mode, worldVars>>

\* The blockhash is not valid any more.
Expired ==
  /\ pc = "validity" /\ ~valid
  /\ pc' = "final"
  /\ UNCHANGED <<mode, callVars, result, worldVars, gaps>>

\* Mutant: no final look.
NeverLandedUnseen ==
  /\ pc = "final"
  /\ NotConfirmed
  /\ UNCHANGED <<mode, worldVars, gaps>>

\* The final look found nothing: the node did not answer, or the transaction is
\* not confirmed.  It is called expired, also when it is in a block.
NeverLanded ==
  /\ pc = "final"
  /\ NotConfirmed
  /\ gaps' = gaps \cup
       CASE chain = "confirmed" -> {"unread"}
         [] chain \in {"processed", "erred"} -> {"early"}
         [] OTHER -> {}
  /\ UNCHANGED <<mode, worldVars>>

-----------------------------------------------------------------------------
(* The cluster and the clock *)

Cluster ==
  /\ \/ /\ chain = "known" /\ valid
        /\ chain' \in {"processed", "erred"} /\ UNCHANGED valid
     \/ chain = "processed" /\ chain' \in {"confirmed", "known"} /\ UNCHANGED valid
     \/ chain = "erred" /\ chain' \in {"failed", "known"} /\ UNCHANGED valid
     \/ valid /\ valid' = FALSE /\ UNCHANGED chain
  /\ UNCHANGED <<mode, pc, callVars, result, gaps>>

Tick ==
  /\ pc \in Polling /\ clock < 2
  /\ clock' = clock + 1
  /\ UNCHANGED <<mode, pc, leg, attempt, polls, result, worldVars, gaps>>

-----------------------------------------------------------------------------
Submit ==
  \/ Refuse \/ SubmitByRpc \/ SubmitBundle \/ BundleAccepted \/ BundleFailed
  \/ SendOk \/ SendFailed
  \/ SeeLanded \/ SeeFailed \/ SeeNothing
  \/ StillValid \/ GiveUp \/ Expired \/ NeverLanded

Next == Submit \/ Cluster \/ Tick

Spec == Init /\ [][Next]_vars

\* The call runs, time passes; nothing is assumed of the node and the cluster.
FairSpec == Spec /\ WF_vars(Submit) /\ WF_vars(Tick)

-----------------------------------------------------------------------------
(* Properties *)

\* It cannot land any more.
Dead == chain = "failed" \/ (chain = "known" /\ ~valid)

TxView ==
  CASE chain = "unsent" -> "signed"
    [] chain = "confirmed" -> "landed"
    [] Dead -> "dead"
    [] OTHER -> "sent"

Promise == INSTANCE Submission WITH tx <- TxView, gap <- (gaps # {})

\* Ok means it landed.  An error means it never will, but in the cases of Gaps.
ImplementsSubmission == Promise!Spec

\* submit_live_tx returns, whatever the node answers and whatever the cluster
\* does: the main loop, which waits for it, manages the position again.
Returns == <>(result # "none")

===============================================================================
