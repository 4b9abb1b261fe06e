------------------------------ MODULE EntryLedger ------------------------------
(***************************************************************************)
(* What the live process promises about its entries, whatever its steps,   *)
(* files and restarts: an entry is recorded before it can land, an entry   *)
(* given up never lands, and a new entry is only begun when everything     *)
(* bought before has been sold.                                            *)
(***************************************************************************)
EXTENDS Naturals

CONSTANT Entries  \* the entries, numbered in the order they are begun

VARIABLE stage    \* how far each one is

Stages == {"idle", "recorded", "held", "sold", "dropped"}

\* Funds are, or may come to be, in the token.
Open(e) == stage[e] \in {"recorded", "held"}

Move(e, from, to) ==
  /\ stage[e] = from
  /\ stage' = [stage EXCEPT ![e] = to]

Record(e) ==
  /\ \A f \in Entries : ~Open(f)
  /\ \A f \in Entries : f < e => stage[f] # "idle"
  /\ Move(e, "idle", "recorded")

Land(e) == Move(e, "recorded", "held")
Drop(e) == Move(e, "recorded", "dropped")
Sell(e) == Move(e, "held", "sold")

Init == stage = [e \in Entries |-> "idle"]
Next == \E e \in Entries : Record(e) \/ Land(e) \/ Drop(e) \/ Sell(e)
Spec == Init /\ [][Next]_stage

=============================================================================
