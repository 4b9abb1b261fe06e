---------------------------- MODULE MarketPipeline ----------------------------
(***************************************************************************)
(* The market data pipeline (crates/hft-marketdata): a source polled for   *)
(* events, the Deduplicator, the SlotRingBuffer and the consumer           *)
(* (pipeline.rs, dedup.rs, ring.rs).  The source may repeat, reorder, skip *)
(* and replay events, as a reconnecting stream does.                       *)
(*                                                                         *)
(* MarketDataPipeline::next hands out one event per call;                  *)
(* run_to_completion hands out all that are ready after each poll and      *)
(* drains the ring when the source closes.  The loop of pop_ready is one   *)
(* step per iteration.  An event is its market, slot and sequence number.  *)
(***************************************************************************)
EXTENDS Integers

CONSTANTS
  Markets,
  Slots, Seqs,  \* the slots and sequence numbers of events
  Capacity      \* of the ring: a power of two, at least 2

ASSUME PipelineAssumption ==
  /\ Slots \subseteq Nat /\ Seqs \subseteq Nat
  /\ Capacity \in Nat /\ Capacity >= 2

Events == [market : Markets, slot : Slots, seq : Seqs]

\* No event lies at a position of the ring; nothing was seen of a market.
Empty  == [market |-> "none", slot |-> -1, seq |-> -1]
Unseen == [slot |-> -1, seq |-> -1]

VARIABLES
  seen,         \* Deduplicator.state
  ring,         \* SlotRingBuffer.slots
  nextSlot,     \* SlotRingBuffer.next_expected_slot
  pc,           \* "poll": before a poll; "pop": in the loop of pop_ready
  watermark,    \* the argument of pop_ready
  iterations,   \* and its loop counter
  running,      \* run_to_completion is the caller, not next
  popped,       \* history: the events pop_ready returned
  delivered     \* and those the consumer got, from pop_ready or drain

dataVars == <<seen, ring, nextSlot>>
loopVars == <<pc, watermark, iterations, running>>
histVars == <<popped, delivered>>
vars     == <<dataVars, loopVars, histVars>>

Positions == 0..Capacity - 1
Held      == {ring[i] : i \in Positions} \ {Empty}

PipelineTypeOK ==
  /\ seen \in [Markets -> [slot : Slots, seq : Seqs] \cup {Unseen}]
  /\ ring \in [Positions -> Events \cup {Empty}]
  /\ nextSlot \in Nat
  /\ pc \in {"poll", "pop"}
  /\ watermark \in Nat
  /\ iterations \in 0..Capacity
  /\ running \in BOOLEAN
  /\ popped \in SUBSET Events
  /\ delivered \in SUBSET Events

Init ==
  /\ seen = [m \in Markets |-> Unseen]
  /\ ring = [i \in Positions |-> Empty]
  /\ nextSlot = 0
  /\ pc = "poll" /\ watermark = 0 /\ iterations = 0 /\ running = FALSE
  /\ popped = {} /\ delivered = {}

-----------------------------------------------------------------------------
(* Deduplicator *)

IsNew(e) ==
  LET last == seen[e.market]
  IN  e.slot > last.slot \/ (e.slot = last.slot /\ e.seq > last.seq)

-----------------------------------------------------------------------------
(* SlotRingBuffer *)

Index(slot) == slot % Capacity

TooOld(slot) == nextSlot > 0 /\ slot + Capacity <= nextSlot

Push(e) == ring' = IF TooOld(e.slot) THEN ring ELSE [ring EXCEPT ![Index(e.slot)] = e]

Here == ring[Index(nextSlot)]

\* Mutant: one iteration too many.
ScanningPast == pc = "pop" /\ nextSlot <= watermark /\ iterations <= Capacity

\* Mutant: the scan does not stop at the watermark.
ScanningOn == pc = "pop" /\ iterations < Capacity

\* The condition of the loop.
Scanning == pc = "pop" /\ nextSlot <= watermark /\ iterations < Capacity

SkipEmpty ==
  /\ Scanning /\ Here = Empty
  /\ nextSlot' = nextSlot + 1
  /\ iterations' = iterations + 1
  /\ UNCHANGED <<seen, ring, pc, watermark, running, histVars>>

\* Left over from an earlier round: lost, also when nothing as new was ever
\* returned.  The slot itself is not passed.
DropStale ==
  /\ Scanning /\ Here # Empty /\ Here.slot < nextSlot
  /\ ring' = [ring EXCEPT ![Index(nextSlot)] = Empty]
  /\ iterations' = iterations + 1
  /\ UNCHANGED <<seen, nextSlot, pc, watermark, running, histVars>>

-----------------------------------------------------------------------------
(* MarketDataPipeline *)

\* An event arrives and is a repetition or old.
Filter(e) ==
  /\ pc = "poll" /\ ~IsNew(e)
  /\ UNCHANGED vars

\* An event arrives, is new, and sets the watermark.
Accept(e) ==
  /\ pc = "poll" /\ IsNew(e)
  /\ seen' = [seen EXCEPT ![e.market] = [slot |-> e.slot, seq |-> e.seq]]
  /\ Push(e)
  /\ watermark' = e.slot /\ iterations' = 0
  /\ pc' = "pop"
  /\ UNCHANGED <<nextSlot, running, histVars>>

\* Mutant: the slot released is expected again.
ReleaseStays ==
  /\ Scanning /\ Here # Empty /\ Here.slot >= nextSlot
  /\ ring' = [ring EXCEPT ![Index(nextSlot)] = Empty]
  /\ nextSlot' = Here.slot
  /\ popped' = popped \cup {Here}
  /\ delivered' = delivered \cup {Here}
  /\ pc' = IF running THEN "pop" ELSE "poll"
  /\ iterations' = 0
  /\ watermark' = IF running THEN watermark ELSE 0
  /\ UNCHANGED <<seen, running>>

\* Mutant: the event is handed out and stays in the ring.
ReleaseCopy ==
  /\ Scanning /\ Here # Empty /\ Here.slot >= nextSlot
  /\ nextSlot' = Here.slot + 1
  /\ popped' = popped \cup {Here}
  /\ delivered' = delivered \cup {Here}
  /\ pc' = IF running THEN "pop" ELSE "poll"
  /\ iterations' = 0
  /\ watermark' = IF running THEN watermark ELSE 0
  /\ UNCHANGED <<seen, ring, running>>

\* pop_ready returns an event: next returns it, run_to_completion asks again.
Release ==
  /\ Scanning /\ Here # Empty /\ Here.slot >= nextSlot
  /\ ring' = [ring EXCEPT ![Index(nextSlot)] = Empty]
  /\ nextSlot' = Here.slot + 1
  /\ popped' = popped \cup {Here}
  /\ delivered' = delivered \cup {Here}
  /\ pc' = IF running THEN "pop" ELSE "poll"
  /\ iterations' = 0
  /\ watermark' = IF running THEN watermark ELSE 0
  /\ UNCHANGED <<seen, running>>

\* pop_ready returns nothing: past the watermark, or out of iterations.
NothingReady ==
  /\ pc = "pop" /\ ~Scanning
  /\ pc' = "poll" /\ watermark' = 0 /\ iterations' = 0
  /\ UNCHANGED <<dataVars, running, histVars>>

RunToCompletion ==
  /\ pc = "poll" /\ ~running
  /\ running' = TRUE
  /\ UNCHANGED <<dataVars, pc, watermark, iterations, histVars>>

\* The source closes: everything left goes to the consumer, by slot.
Drain ==
  /\ pc = "poll" /\ running
  /\ delivered' = delivered \cup Held
  /\ ring' = [i \in Positions |-> Empty]
  /\ running' = FALSE
  /\ UNCHANGED <<seen, nextSlot, pc, watermark, iterations, popped>>

Next ==
  \/ \E e \in Events : Filter(e) \/ Accept(e)
  \/ SkipEmpty \/ DropStale \/ Release \/ NothingReady
  \/ RunToCompletion \/ Drain

Spec == Init /\ [][Next]_vars

-----------------------------------------------------------------------------
(* Properties *)

\* pop_ready: what it returns comes in strictly increasing slot order, over all
\* markets and whatever order it arrived in.
DeliversInOrder ==
  [][\A e \in popped' \ popped, d \in popped : d.slot < e.slot]_vars

\* Deduplicator, pop_ready and drain together: an event waiting in the ring was
\* never handed out before, however often the source repeats it, so the
\* consumer gets no event twice.
HeldOnce == Held \cap delivered = {}

\* pop_ready moves its cursor past gaps and past what it returns, push and
\* pop_ready turn away what lies behind the cursor: it never passes the slot
\* after the newest one accepted, so an event newer than all before it is
\* neither too old when it arrives nor taken for stale.
CursorWithinSeen == nextSlot > 0 => \E m \in Markets : nextSlot <= seen[m].slot + 1

=============================================================================
