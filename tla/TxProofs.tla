------------------------------- MODULE TxProofs -------------------------------
(***************************************************************************)
(* Proofs about the submission of a transaction, for any number of retries *)
(* and any number of polls between two reads of the blockhash.             *)
(***************************************************************************)
EXTENDS TxSubmit, TLAPS

\* Where a call is, and what it knows there: the final look comes after the
\* blockhash expired, and a transaction is only sent (again) when nobody has it,
\* when it is dead, or when the submission lost track of it before.
SubmitInv ==
  /\ pc = "final" => ~valid
  /\ pc \in {"start", "bundle"} => chain = "unsent"
  /\ pc = "send" /\ gaps = {} => chain = "unsent" \/ Dead

-----------------------------------------------------------------------------
(* Type correctness *)

LEMMA InitType == Init => TxTypeOK
BY SubmitAssumption DEF Init, TxTypeOK, Polling

\* What the calls among the steps leave.
LEMMA CallTypes ==
  ASSUME TxTypeOK
  PROVE  /\ \A l \in {"bundle", "rpc"} : Confirming(l) =>
              pc' = "status" /\ leg' = l /\ polls' = 0 /\ clock' = 0 /\ attempt' = attempt
              /\ result' = result
         /\ NotConfirmed =>
              /\ leg' = leg /\ polls' = polls /\ clock' = clock
              /\ \/ leg = "bundle" /\ pc' = "send" /\ attempt' = 0 /\ result' = result
                 \/ leg = "rpc" /\ pc' = "done" /\ attempt' = attempt /\ result' = "err"
         /\ \A taken \in BOOLEAN : Failed(taken) =>
              /\ chain' \in {chain, "known"}
              /\ gaps' \in {gaps, gaps \cup {"reply"}}
BY DEF Confirming, NotConfirmed, Sending, Return, Failed, Taken, callVars

LEMMA NextType == TxTypeOK /\ [Next]_vars => TxTypeOK'
<1> SUFFICES ASSUME TxTypeOK, [Next]_vars
             PROVE  TxTypeOK'
  OBVIOUS
<1> USE DEF TxTypeOK, callVars, worldVars, Polling, Gaps
<1>1. 0 \in 0..MaxRetries - 1 /\ 0 \in 0..ValidityEvery - 1
  BY SubmitAssumption
<1>2. CASE Refuse \/ SubmitByRpc \/ SubmitBundle
  BY <1>1, <1>2 DEF Refuse, SubmitByRpc, SubmitBundle, Sending, Return
<1>3. CASE BundleAccepted
  BY <1>1, <1>3, CallTypes DEF BundleAccepted, Taken
<1>4. CASE BundleFailed
  <2>1. pc' = "send" /\ attempt' = 0 /\ UNCHANGED <<mode, leg, polls, clock, result, valid>>
    BY <1>4 DEF BundleFailed, Sending
  <2>2. chain' \in {chain, "known"} /\ gaps' \in {gaps, gaps \cup {"reply"}}
    BY <1>4, CallTypes DEF BundleFailed
  <2> QED
    BY <1>1, <1>4, <2>1, <2>2 DEF BundleFailed
<1>5. CASE SendOk
  BY <1>1, <1>5, CallTypes DEF SendOk, Taken
<1>6. CASE SendFailed
  <2>1. chain' \in {chain, "known"} /\ gaps' \in {gaps, gaps \cup {"reply"}}
    BY <1>6, CallTypes DEF SendFailed
  <2>2. attempt' \in 0..MaxRetries - 1
    BY <1>6, SubmitAssumption DEF SendFailed
  <2>3. /\ UNCHANGED <<mode, leg, polls, clock, valid>>
        /\ \/ pc' = "done" /\ result' = "err"
           \/ UNCHANGED <<pc, result>>
    BY <1>6 DEF SendFailed, Return
  <2> QED
    BY <1>6, <2>1, <2>2, <2>3 DEF SendFailed
<1>7. CASE SeeLanded \/ StillValid \/ Expired
  BY <1>7 DEF SeeLanded, StillValid, Expired, Return
<1>8. CASE SeeFailed \/ GiveUp \/ NeverLanded
  <2>1. gaps' \subseteq Gaps
    BY <1>8 DEF SeeFailed, GiveUp, NeverLanded
  <2>2. pc \in Polling /\ NotConfirmed /\ UNCHANGED <<mode, chain, valid>>
    BY <1>8 DEF SeeFailed, GiveUp, NeverLanded
  <2> QED
    BY <1>1, <2>1, <2>2, CallTypes
<1>9. CASE SeeNothing
  <2>1. polls' \in 0..ValidityEvery - 1
    BY <1>9, SubmitAssumption DEF SeeNothing
  <2> QED
    BY <1>9, <2>1 DEF SeeNothing
<1>10. CASE Cluster
  BY <1>10 DEF Cluster
<1>11. CASE Tick
  BY <1>11 DEF Tick
<1>12. CASE UNCHANGED vars
  BY <1>12 DEF vars
<1> QED
  BY <1>2, <1>3, <1>4, <1>5, <1>6, <1>7, <1>8, <1>9, <1>10, <1>11, <1>12 DEF Next, Submit

\* The state of the call stays well typed; the retries are bounded.
THEOREM TxTypes == Spec => []TxTypeOK
BY InitType, NextType, PTL DEF Spec

-----------------------------------------------------------------------------
(* The promise *)

LEMMA InitInv == Init => SubmitInv
BY DEF Init, SubmitInv

LEMMA NextInv == TxTypeOK /\ SubmitInv /\ [Next]_vars => SubmitInv'
<1> SUFFICES ASSUME TxTypeOK, SubmitInv, [Next]_vars
             PROVE  SubmitInv'
  OBVIOUS
<1> USE DEF SubmitInv, Dead, callVars, worldVars
<1>1. CASE Refuse \/ SubmitByRpc \/ SubmitBundle
  BY <1>1 DEF Refuse, SubmitByRpc, SubmitBundle, Sending, Return
<1>2. CASE BundleAccepted \/ SendOk
  BY <1>2 DEF BundleAccepted, SendOk, Confirming
<1>3. CASE BundleFailed
  BY <1>3 DEF BundleFailed, Failed, Sending
<1>4. CASE SendFailed
  BY <1>4 DEF SendFailed, Failed, Return
<1>5. CASE SeeLanded \/ SeeNothing \/ StillValid \/ Expired
  BY <1>5 DEF SeeLanded, SeeNothing, StillValid, Expired, Return
<1>6. CASE SeeFailed
  BY <1>6 DEF SeeFailed, Status, NotConfirmed, Sending, Return
<1>7. CASE GiveUp
  BY <1>7 DEF GiveUp, NotConfirmed, Sending, Return
<1>8. CASE NeverLanded
  BY <1>8 DEF NeverLanded, NotConfirmed, Sending, Return, TxTypeOK
<1>9. CASE Cluster
  BY <1>9 DEF Cluster
<1>10. CASE Tick
  BY <1>10 DEF Tick, Polling
<1>11. CASE UNCHANGED vars
  BY <1>11 DEF vars
<1> QED
  BY <1>1, <1>2, <1>3, <1>4, <1>5, <1>6, <1>7, <1>8, <1>9, <1>10, <1>11 DEF Next, Submit

\* A step leaves the abstract transaction alone, sends it, or settles it.
LEMMA ViewTaken ==
  ASSUME TxTypeOK, Taken, valid' = valid
  PROVE  TxView' = TxView \/ (TxView = "signed" /\ TxView' \in {"sent", "dead"})
BY DEF TxTypeOK, Taken, TxView, Dead

LEMMA ViewFailed ==
  ASSUME TxTypeOK, NEW taken \in BOOLEAN, Failed(taken), valid' = valid
  PROVE  /\ TxView' = TxView \/ (TxView = "signed" /\ TxView' \in {"sent", "dead"})
         /\ gaps \subseteq gaps'
         /\ gaps' = {} => TxView' = TxView
BY ViewTaken DEF Failed, TxView, Dead

\* A transaction that nobody took, or that is dead, is one that never lands.
LEMMA ViewNever ==
  ASSUME chain = "unsent" \/ Dead
  PROVE  TxView \in {"signed", "dead"}
BY DEF TxView, Dead

LEMMA StepImplements ==
  TxTypeOK /\ SubmitInv /\ [Next]_vars => [Promise!Next]_(Promise!vars)
<1> SUFFICES ASSUME TxTypeOK, SubmitInv, [Next]_vars
             PROVE  Promise!Next \/ UNCHANGED <<TxView, result, gaps # {}>>
  BY DEF Promise!vars
<1> USE DEF Promise!Next, Promise!Sending, callVars, worldVars
<1>1. CASE Refuse
  <2>1. TxView' = TxView /\ TxView = "signed" /\ result = "none" /\ result' = "err" /\ gaps' = gaps
    BY <1>1 DEF Refuse, Return, TxView, Dead, SubmitInv, TxTypeOK
  <2> QED
    BY <2>1 DEF Promise!Fail
<1>2. CASE SubmitByRpc \/ SubmitBundle \/ SeeNothing \/ StillValid \/ Expired \/ Tick
  BY <1>2 DEF SubmitByRpc, SubmitBundle, SeeNothing, StillValid, Expired, Tick, Sending, TxView, Dead
<1>3. CASE BundleAccepted \/ SendOk
  <2>1. Taken /\ valid' = valid /\ gaps' = gaps /\ result' = result /\ result = "none"
    BY <1>3 DEF BundleAccepted, SendOk, Confirming, TxTypeOK
  <2> QED
    BY <2>1, ViewTaken DEF Promise!Try
<1>4. CASE BundleFailed
  <2>1. PICK taken \in BOOLEAN : Failed(taken)
    BY <1>4 DEF BundleFailed
  <2>2. valid' = valid /\ result' = result /\ result = "none"
    BY <1>4 DEF BundleFailed, Sending, TxTypeOK
  <2> QED
    BY <2>1, <2>2, ViewFailed DEF Promise!Try
<1>5. CASE SendFailed
  <2>1. PICK taken \in BOOLEAN : Failed(taken)
    BY <1>5 DEF SendFailed
  <2>2. valid' = valid /\ result = "none" /\ result' \in {"none", "err"}
    BY <1>5 DEF SendFailed, Return, TxTypeOK
  <2>3. /\ TxView' = TxView \/ (TxView = "signed" /\ TxView' \in {"sent", "dead"})
        /\ gaps \subseteq gaps'
        /\ gaps' = {} => TxView' = TxView
    BY <2>1, <2>2, ViewFailed
  <2>4. gaps' = {} => TxView' \in {"signed", "dead"}
    BY <1>5, <2>3, ViewNever DEF SendFailed, SubmitInv
  <2> QED
    BY <2>2, <2>3, <2>4 DEF Promise!Try, Promise!Fail
<1>6. CASE SeeLanded
  <2>1. chain = "confirmed" \/ pc # "done"
    BY <1>6 DEF SeeLanded
  <2>2. TxView = "landed" /\ TxView' = TxView /\ gaps' = gaps /\ result = "none" /\ result' = "ok"
    BY <1>6 DEF SeeLanded, Status, Return, TxView, Dead, TxTypeOK
  <2> QED
    BY <2>2 DEF Promise!Succeed
<1>7. CASE SeeFailed \/ GiveUp \/ NeverLanded
  <2>1. TxView' = TxView /\ result = "none" /\ result' \in {"none", "err"}
    BY <1>7 DEF SeeFailed, GiveUp, NeverLanded, NotConfirmed, Sending, Return, TxView, Dead, TxTypeOK
  <2>2. gaps \subseteq gaps'
    BY <1>7 DEF SeeFailed, GiveUp, NeverLanded
  <2>3. gaps' = {} => TxView \in {"signed", "dead"}
    <3>1. CASE SeeFailed
      BY <3>1, ViewNever DEF SeeFailed, Status, Dead
    <3>2. CASE GiveUp
      BY <3>2 DEF GiveUp
    <3>3. CASE NeverLanded
      BY <3>3, ViewNever DEF NeverLanded, SubmitInv, Dead, TxTypeOK
    <3> QED
      BY <1>7, <3>1, <3>2, <3>3
  <2> QED
    BY <2>1, <2>2, <2>3 DEF Promise!Try, Promise!Fail
<1>8. CASE Cluster
  <2>1. TxView' = TxView \/ (TxView = "sent" /\ TxView' \in {"landed", "dead"})
    BY <1>8 DEF Cluster, TxView, Dead, TxTypeOK
  <2> QED
    BY <1>8, <2>1 DEF Cluster, Promise!Settle
<1>9. CASE UNCHANGED vars
  BY <1>9 DEF vars, TxView, Dead
<1> QED
  BY <1>1, <1>2, <1>3, <1>4, <1>5, <1>6, <1>7, <1>8, <1>9 DEF Next, Submit

\* What submit_live_tx returns is about what became of the transaction: Ok means
\* it landed, and an error, outside the four gaps, that it never will.
THEOREM Implements == Spec => ImplementsSubmission
<1>1. Init => Promise!Init
  BY DEF Init, Promise!Init, TxView, Dead
<1>2. Spec => [](TxTypeOK /\ SubmitInv)
  BY InitType, NextType, InitInv, NextInv, PTL DEF Spec
<1> QED
  BY <1>1, <1>2, StepImplements, PTL DEF Spec, ImplementsSubmission, Promise!Spec

===============================================================================
