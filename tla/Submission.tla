------------------------------ MODULE Submission ------------------------------
(***************************************************************************)
(* What the live process may take from submitting a transaction.           *)
(*                                                                         *)
(* Ok means it landed.  An error means it never will, unless the           *)
(* submission lost track of it: a gap.  It lands at most once, also after  *)
(* the submission has returned.                                            *)
(***************************************************************************)

VARIABLES
  tx,      \* "signed", "sent", "landed" or "dead": it cannot land any more
  result,  \* "none", "ok" or "err"
  gap      \* the submission lost track of it

vars == <<tx, result, gap>>

Init == tx = "signed" /\ result = "none" /\ gap = FALSE

Sending == tx = "signed" /\ tx' \in {"sent", "dead"}

Try ==
  /\ result = "none" /\ UNCHANGED result
  /\ Sending \/ UNCHANGED tx
  /\ gap' \in {gap, TRUE}

\* It lands, or cannot any more.
Settle ==
  /\ tx = "sent" /\ tx' \in {"landed", "dead"}
  /\ UNCHANGED <<result, gap>>

Succeed ==
  /\ result = "none" /\ tx = "landed"
  /\ result' = "ok"
  /\ UNCHANGED <<tx, gap>>

Fail ==
  /\ result = "none" /\ result' = "err"
  /\ Sending \/ UNCHANGED tx
  /\ gap' \in {gap, TRUE}
  /\ gap' \/ tx' \in {"signed", "dead"}

Next == Try \/ Settle \/ Succeed \/ Fail

Spec == Init /\ [][Next]_vars

===============================================================================
