----------------------------- MODULE MarketProofs -----------------------------
(***************************************************************************)
(* Proofs about the market data pipeline, for any markets, slots and       *)
(* sequence numbers and any capacity of the ring.                          *)
(***************************************************************************)
EXTENDS MarketPipeline, TLAPS

-----------------------------------------------------------------------------
(* Lemmas *)

LEMMA IndexInRing ==
  ASSUME NEW slot \in Nat
  PROVE  Index(slot) \in Positions
BY PipelineAssumption DEF Index, Positions

LEMMA EmptyIsNoEvent == Empty \notin Events
BY PipelineAssumption DEF Empty, Events

\* The place the scan looks at holds an event or nothing.
LEMMA HereType ==
  ASSUME PipelineTypeOK
  PROVE  /\ Index(nextSlot) \in Positions
         /\ Here \in Events \cup {Empty}
BY IndexInRing DEF PipelineTypeOK, Here

\* What Push leaves in the ring.
LEMMA PushType ==
  ASSUME PipelineTypeOK, NEW e \in Events, Push(e)
  PROVE  ring' \in [Positions -> Events \cup {Empty}]
<1>1. Index(e.slot) \in Positions
  BY IndexInRing, PipelineAssumption DEF Events
<1> QED
  BY <1>1 DEF PipelineTypeOK, Push

-----------------------------------------------------------------------------
(* Type correctness *)

THEOREM PipelineTypes == Spec => []PipelineTypeOK
<1>1. Init => PipelineTypeOK
  <2> SUFFICES ASSUME Init
               PROVE  PipelineTypeOK
    OBVIOUS
  <2>1. 0 \in Nat /\ 0 \in 0..Capacity
    BY PipelineAssumption
  <2>2. seen \in [Markets -> [slot : Slots, seq : Seqs] \cup {Unseen}]
    BY DEF Init
  <2> QED
    BY <2>1, <2>2 DEF Init, PipelineTypeOK
<1>2. PipelineTypeOK /\ [Next]_vars => PipelineTypeOK'
  <2> SUFFICES ASSUME PipelineTypeOK, [Next]_vars
               PROVE  PipelineTypeOK'
    OBVIOUS
  <2> USE DEF dataVars, histVars
  <2>1. ASSUME NEW e \in Events, Filter(e)
        PROVE  PipelineTypeOK'
    BY <2>1 DEF Filter, vars, loopVars, PipelineTypeOK
  <2>2. ASSUME NEW e \in Events, Accept(e)
        PROVE  PipelineTypeOK'
    <3>1. ring' \in [Positions -> Events \cup {Empty}]
      BY <2>2, PushType DEF Accept
    <3>2. e.market \in Markets /\ e.slot \in Slots /\ e.seq \in Seqs
      BY DEF Events
    <3>3. seen' \in [Markets -> [slot : Slots, seq : Seqs] \cup {Unseen}]
      BY <2>2, <3>2 DEF Accept, PipelineTypeOK
    <3>4. watermark' \in Nat /\ iterations' \in 0..Capacity
      <4>1. watermark' = e.slot /\ iterations' = 0
        BY <2>2 DEF Accept
      <4>2. e.slot \in Nat
        BY <3>2, PipelineAssumption
      <4>3. 0 \in 0..Capacity
        BY PipelineAssumption
      <4> QED
        BY <4>1, <4>2, <4>3
    <3> QED
      BY <2>2, <3>1, <3>3, <3>4 DEF Accept, PipelineTypeOK
  <2>3. CASE SkipEmpty
    BY <2>3, PipelineAssumption DEF SkipEmpty, Scanning, PipelineTypeOK
  <2>4. CASE DropStale
    BY <2>4, HereType, PipelineAssumption DEF DropStale, Scanning, PipelineTypeOK
  <2>5. CASE Release
    <3>1. Here \in Events /\ Here.slot \in Nat
      BY <2>5, HereType, PipelineAssumption DEF Release, Events
    <3>2. ring' \in [Positions -> Events \cup {Empty}]
      BY <2>5, HereType DEF Release, PipelineTypeOK
    <3> QED
      BY <2>5, <3>1, <3>2, PipelineAssumption DEF Release, PipelineTypeOK
  <2>6. CASE NothingReady
    BY <2>6, PipelineAssumption DEF NothingReady, PipelineTypeOK
  <2>7. CASE RunToCompletion
    BY <2>7 DEF RunToCompletion, PipelineTypeOK
  <2>8. CASE Drain
    <3>1. Held \subseteq Events
      BY DEF Held, PipelineTypeOK
    <3> QED
      BY <2>8, <3>1 DEF Drain, PipelineTypeOK
  <2>9. CASE UNCHANGED vars
    BY <2>9 DEF vars, loopVars, PipelineTypeOK
  <2> QED
    BY <2>1, <2>2, <2>3, <2>4, <2>5, <2>6, <2>7, <2>8, <2>9 DEF Next
<1> QED
  BY <1>1, <1>2, PTL DEF Spec

-----------------------------------------------------------------------------
(* Order *)

\* Everything pop_ready returned is behind the slot it expects next.
Behind == \A d \in popped : d.slot < nextSlot

\* Releases move the expected slot past what they return, and nothing moves
\* it back.
LEMMA BehindStep ==
  ASSUME PipelineTypeOK, Behind, [Next]_vars
  PROVE  Behind'
<1> USE DEF Behind, dataVars, histVars
<1>1. ASSUME NEW e \in Events, Filter(e) \/ Accept(e)
      PROVE  Behind'
  BY <1>1 DEF Filter, Accept, vars, loopVars
<1>2. CASE SkipEmpty
  <2>1. \A d \in popped : d.slot \in Nat
    BY PipelineAssumption DEF PipelineTypeOK, Events
  <2>2. popped' = popped /\ nextSlot' = nextSlot + 1
    BY <1>2 DEF SkipEmpty
  <2>3. nextSlot \in Nat
    BY DEF PipelineTypeOK
  <2> QED
    BY <2>1, <2>2, <2>3
<1>3. CASE DropStale \/ NothingReady \/ RunToCompletion \/ Drain \/ UNCHANGED vars
  BY <1>3 DEF DropStale, NothingReady, RunToCompletion, Drain, vars, loopVars
<1>4. CASE Release
  <2>1. Here \in Events /\ Here.slot \in Nat
    BY <1>4, HereType, PipelineAssumption DEF Release, Events
  <2>2. \A d \in popped : d.slot \in Nat
    BY PipelineAssumption DEF PipelineTypeOK, Events
  <2> QED
    BY <1>4, <2>1, <2>2 DEF Release, PipelineTypeOK
<1> QED
  BY <1>1, <1>2, <1>3, <1>4 DEF Next

\* pop_ready returns events in strictly increasing slot order.
THEOREM Order == Spec => DeliversInOrder
<1>1. Init => Behind
  BY DEF Init, Behind
<1>2. PipelineTypeOK /\ Behind /\ [Next]_vars
      => [\A e \in popped' \ popped, d \in popped : d.slot < e.slot]_vars
  <2> SUFFICES ASSUME PipelineTypeOK, Behind, Next,
                      NEW e \in popped' \ popped, NEW d \in popped
               PROVE  d.slot < e.slot
    OBVIOUS
  <2>1. Release /\ e = Here
    BY DEF Next, Filter, Accept, SkipEmpty, DropStale, Release, NothingReady,
           RunToCompletion, Drain, vars, loopVars, histVars
  <2>2. Here.slot \in Nat /\ d.slot \in Nat
    BY <2>1, HereType, PipelineAssumption DEF Release, PipelineTypeOK, Events
  <2> QED
    BY <2>1, <2>2 DEF Release, Behind, PipelineTypeOK
<1> QED
  BY <1>1, <1>2, BehindStep, PipelineTypes, PTL DEF Spec, DeliversInOrder

-----------------------------------------------------------------------------
(* No event twice *)

\* An event lies at the position of its slot, so at one position only.
Placed == \A i \in Positions : ring[i] # Empty => Index(ring[i].slot) = i

\* The Deduplicator would reject everything that waits or was handed out.
Known == \A e \in delivered \cup Held : ~IsNew(e)

OnceInv == HeldOnce /\ Placed /\ Known

\* What the Deduplicator rejects once it rejects for ever.
LEMMA RejectedStays ==
  ASSUME PipelineTypeOK, NEW d \in Events, NEW e \in Events, Accept(e), ~IsNew(d)
  PROVE  ~IsNew(d)'
<1>1. /\ d.slot \in Nat /\ d.seq \in Nat /\ d.market \in Markets
      /\ e.slot \in Nat /\ e.seq \in Nat /\ e.market \in Markets
  BY PipelineAssumption DEF Events
<1>2. \A m \in Markets : seen[m].slot \in Int /\ seen[m].seq \in Int
  <2> TAKE m \in Markets
  <2>1. seen[m] \in [slot : Slots, seq : Seqs] \cup {Unseen}
    BY DEF PipelineTypeOK
  <2>2. CASE seen[m] \in [slot : Slots, seq : Seqs]
    <3>1. seen[m].slot \in Slots /\ seen[m].seq \in Seqs
      BY <2>2
    <3>2. \A n \in Slots \cup Seqs : n \in Int
      BY PipelineAssumption
    <3> QED
      BY <3>1, <3>2
  <2>3. CASE seen[m] = Unseen
    BY <2>3 DEF Unseen
  <2> QED
    BY <2>1, <2>2, <2>3
<1>3. seen' = [seen EXCEPT ![e.market] = [slot |-> e.slot, seq |-> e.seq]]
  BY DEF Accept
<1>4. CASE d.market = e.market
  <2>1. seen'[d.market].slot = e.slot /\ seen'[d.market].seq = e.seq
    BY <1>1, <1>3, <1>4 DEF PipelineTypeOK
  <2>2. IsNew(e)
    BY DEF Accept
  <2> QED
    BY <1>1, <1>2, <1>4, <2>1, <2>2 DEF IsNew
<1>5. CASE d.market # e.market
  <2>1. seen'[d.market] = seen[d.market]
    BY <1>1, <1>3, <1>5 DEF PipelineTypeOK
  <2> QED
    BY <2>1 DEF IsNew
<1> QED
  BY <1>4, <1>5

LEMMA OnceStep ==
  ASSUME PipelineTypeOK, OnceInv, [Next]_vars
  PROVE  OnceInv'
<1> USE DEF OnceInv, dataVars, histVars
<1>0. delivered \subseteq Events /\ Held \subseteq Events /\ Held' = {ring'[i] : i \in Positions} \ {Empty}
  BY DEF PipelineTypeOK, Held
<1>1. ASSUME NEW e \in Events, Accept(e)
      PROVE  OnceInv'
  <2>1. Index(e.slot) \in Positions
    BY IndexInRing, PipelineAssumption DEF Events
  <2>2. /\ delivered' = delivered
        /\ \A i \in Positions : ring'[i] = ring[i] \/ (ring'[i] = e /\ i = Index(e.slot))
    BY <1>1, <2>1 DEF Accept, Push, PipelineTypeOK
  <2>3. Held' \subseteq Held \cup {e}
    BY <1>0, <2>2 DEF Held
  <2>4. e \notin delivered
    BY <1>1 DEF Accept, Known
  <2>5. HeldOnce'
    BY <2>2, <2>3, <2>4 DEF HeldOnce
  <2>6. Placed'
    BY <2>2 DEF Placed, Index
  <2>7. ~IsNew(e)'
    <3>1. seen'[e.market] = [slot |-> e.slot, seq |-> e.seq] /\ e.slot \in Nat /\ e.seq \in Nat
      BY <1>1, PipelineAssumption DEF Accept, PipelineTypeOK, Events
    <3> QED
      BY <3>1 DEF IsNew
  <2>8. \A d \in delivered \cup Held : ~IsNew(d)'
    BY <1>0, <1>1, RejectedStays DEF Known
  <2>9. Known'
    BY <2>2, <2>3, <2>7, <2>8 DEF Known, IsNew
  <2> QED
    BY <2>5, <2>6, <2>9
<1>2. CASE DropStale
  <2>1. /\ delivered' = delivered /\ seen' = seen
        /\ \A i \in Positions : ring'[i] = ring[i] \/ ring'[i] = Empty
    BY <1>2, HereType DEF DropStale, PipelineTypeOK
  <2>2. Held' \subseteq Held
    BY <1>0, <2>1 DEF Held
  <2>3. Placed'
    BY <2>1 DEF Placed, Index
  <2> QED
    BY <2>1, <2>2, <2>3 DEF HeldOnce, Known, IsNew
<1>3. CASE Release
  <2> DEFINE at == Index(nextSlot)
  <2>1. at \in Positions /\ Here = ring[at] /\ Here \in Held
    BY <1>3, HereType DEF Release, Here, Held
  <2>2. /\ delivered' = delivered \cup {Here} /\ seen' = seen
        /\ ring'[at] = Empty
        /\ \A i \in Positions : i # at => ring'[i] = ring[i]
    BY <1>3, <2>1 DEF Release, PipelineTypeOK
  <2>3. Held' \subseteq Held
    BY <1>0, <2>2 DEF Held
  <2>4. Here \notin Held'
    BY <1>0, <2>1, <2>2 DEF Placed, Held
  <2>5. Placed'
    BY <2>2 DEF Placed, Index
  <2> QED
    BY <2>1, <2>2, <2>3, <2>4, <2>5 DEF HeldOnce, Known, IsNew
<1>4. CASE Drain
  <2>1. delivered' = delivered \cup Held /\ seen' = seen /\ \A i \in Positions : ring'[i] = Empty
    BY <1>4 DEF Drain
  <2>2. Held' = {}
    BY <1>0, <2>1
  <2> QED
    BY <2>1, <2>2 DEF HeldOnce, Placed, Known, IsNew
<1>5. ASSUME \/ \E e \in Events : Filter(e)
             \/ SkipEmpty \/ NothingReady \/ RunToCompletion \/ UNCHANGED vars
      PROVE  OnceInv'
  <2>1. UNCHANGED <<delivered, ring, seen>>
    BY <1>5 DEF Filter, SkipEmpty, NothingReady, RunToCompletion, vars
  <2> QED
    BY <2>1 DEF HeldOnce, Placed, Known, IsNew, Held, Index
<1> QED
  BY <1>1, <1>2, <1>3, <1>4, <1>5 DEF Next

\* The consumer gets no event twice: what waits was never handed out.
THEOREM Once == Spec => []HeldOnce
<1>1. Init => OnceInv
  BY DEF Init, OnceInv, HeldOnce, Placed, Known, Held
<1>2. OnceInv => HeldOnce
  BY DEF OnceInv
<1> QED
  BY <1>1, <1>2, OnceStep, PipelineTypes, PTL DEF Spec

-----------------------------------------------------------------------------
(* Nothing new is turned away *)

\* The scan never looks for a slot beyond the newest one accepted.
ScanWithinSeen == pc = "pop" => \E m \in Markets : watermark <= seen[m].slot

CursorInv == OnceInv /\ ScanWithinSeen /\ CursorWithinSeen

\* The slot of what was seen last of a market.
LEMMA SeenSlot ==
  ASSUME NEW w \in [slot : Slots, seq : Seqs] \cup {Unseen}
  PROVE  w.slot \in Int
<1>1. CASE w \in [slot : Slots, seq : Seqs]
  <2>1. w.slot \in Slots
    BY <1>1
  <2>2. \A s \in Slots : s \in Int
    BY PipelineAssumption
  <2> QED
    BY <2>1, <2>2
<1>2. CASE w = Unseen
  BY <1>2 DEF Unseen
<1> QED
  BY <1>1, <1>2

LEMMA SeenSlotType ==
  ASSUME PipelineTypeOK
  PROVE  \A m \in Markets : seen[m].slot \in Int
BY SeenSlot DEF PipelineTypeOK

\* What the Deduplicator rejects is no newer than what it saw of that market.
LEMMA RejectedIsSeen ==
  ASSUME PipelineTypeOK, NEW d \in Events, ~IsNew(d)
  PROVE  d.market \in Markets /\ d.slot <= seen[d.market].slot
<1>1. d.market \in Markets /\ d.slot \in Nat
  BY PipelineAssumption DEF Events
<1>2. seen[d.market].slot \in Int
  BY <1>1, SeenSlotType
<1> QED
  BY <1>1, <1>2 DEF IsNew

\* Nothing takes back what was seen of a market.
LEMMA SeenGrows ==
  ASSUME PipelineTypeOK, NEW e \in Events, Accept(e)
  PROVE  /\ \A m \in Markets : seen[m].slot <= seen'[m].slot
         /\ seen'[e.market].slot = e.slot
<1>1. e.market \in Markets /\ e.slot \in Nat
  BY PipelineAssumption DEF Events
<1>2. seen' = [seen EXCEPT ![e.market] = [slot |-> e.slot, seq |-> e.seq]]
  BY DEF Accept
<1>3. seen'[e.market].slot = e.slot
  BY <1>1, <1>2 DEF PipelineTypeOK
<1>4. ASSUME NEW m \in Markets
      PROVE  seen[m].slot <= seen'[m].slot
  <2>1. seen[m].slot \in Int
    BY SeenSlotType
  <2>2. CASE m = e.market
    <3>1. IsNew(e)
      BY DEF Accept
    <3>2. e.slot >= seen[m].slot
      BY <1>1, <2>1, <2>2, <3>1 DEF IsNew
    <3> QED
      BY <1>1, <1>3, <2>1, <2>2, <3>2
  <2>3. CASE m # e.market
    <3>1. seen'[m] = seen[m]
      BY <1>1, <1>2, <2>3 DEF PipelineTypeOK
    <3> QED
      BY <2>1, <3>1
  <2> QED
    BY <2>2, <2>3
<1> QED
  BY <1>3, <1>4

LEMMA CursorStep ==
  ASSUME PipelineTypeOK, PipelineTypeOK', CursorInv, [Next]_vars
  PROVE  CursorInv'
<1> USE DEF dataVars, histVars
<1>0. OnceInv'
  BY OnceStep DEF CursorInv
<1>1. nextSlot \in Nat /\ watermark \in Nat /\ \A m \in Markets : seen[m].slot \in Int
  BY SeenSlotType DEF PipelineTypeOK
<1>2. ASSUME NEW e \in Events, Accept(e)
      PROVE  CursorInv'
  <2>1. e.market \in Markets /\ watermark' = e.slot /\ nextSlot' = nextSlot /\ e.slot \in Nat
    BY <1>2, PipelineAssumption DEF Accept, Events
  <2>2. \A m \in Markets : seen'[m].slot \in Int
    <3>1. seen' \in [Markets -> [slot : Slots, seq : Seqs] \cup {Unseen}]
      BY DEF PipelineTypeOK
    <3> QED
      BY <3>1, SeenSlot
  <2>3. ScanWithinSeen'
    BY <1>2, <2>1, SeenGrows DEF ScanWithinSeen
  <2>4. CursorWithinSeen'
    <3> SUFFICES ASSUME nextSlot > 0
                 PROVE  \E m \in Markets : nextSlot <= seen'[m].slot + 1
      BY <2>1 DEF CursorWithinSeen
    <3>1. PICK m \in Markets : nextSlot <= seen[m].slot + 1
      BY DEF CursorInv, CursorWithinSeen
    <3>2. seen[m].slot <= seen'[m].slot
      BY <1>2, SeenGrows
    <3> QED
      BY <1>1, <2>2, <3>1, <3>2
  <2> QED
    BY <1>0, <2>3, <2>4 DEF CursorInv
<1>3. CASE SkipEmpty
  <2>1. /\ nextSlot' = nextSlot + 1 /\ UNCHANGED <<seen, pc, watermark>>
        /\ pc = "pop" /\ nextSlot <= watermark
    BY <1>3 DEF SkipEmpty, Scanning
  <2>2. PICK m \in Markets : watermark <= seen[m].slot
    BY <2>1 DEF CursorInv, ScanWithinSeen
  <2>3. nextSlot' <= seen[m].slot + 1
    BY <1>1, <2>1, <2>2
  <2> QED
    BY <1>0, <2>1, <2>3 DEF CursorInv, ScanWithinSeen, CursorWithinSeen
<1>4. CASE Release
  <2>1. Here \in Events /\ Here \in Held
    BY <1>4, HereType DEF Release, Here, Held
  <2>2. Here.market \in Markets /\ Here.slot <= seen[Here.market].slot
    BY <2>1, RejectedIsSeen DEF CursorInv, OnceInv, Known
  <2>3. nextSlot' = Here.slot + 1 /\ seen' = seen /\ (pc' = "pop" => pc = "pop" /\ watermark' = watermark)
    BY <1>4 DEF Release, Scanning
  <2>4. Here.slot \in Nat
    BY <2>1, PipelineAssumption DEF Events
  <2>5. nextSlot' <= seen'[Here.market].slot + 1
    BY <1>1, <2>2, <2>3, <2>4
  <2> QED
    BY <1>0, <2>2, <2>3, <2>5 DEF CursorInv, ScanWithinSeen, CursorWithinSeen
<1>5. ASSUME \/ \E e \in Events : Filter(e)
             \/ DropStale \/ NothingReady \/ RunToCompletion \/ Drain \/ UNCHANGED vars
      PROVE  CursorInv'
  <2>1. seen' = seen /\ nextSlot' = nextSlot /\ (pc' = "pop" => pc = "pop" /\ watermark' = watermark)
    BY <1>5 DEF Filter, DropStale, NothingReady, RunToCompletion, Drain, vars, loopVars
  <2> QED
    BY <1>0, <2>1 DEF CursorInv, ScanWithinSeen, CursorWithinSeen
<1> QED
  BY <1>2, <1>3, <1>4, <1>5 DEF Next

\* The cursor of the ring never passes the slot after the newest one accepted:
\* what is newer than all before it is taken in and awaited.
THEOREM Cursor == Spec => []CursorWithinSeen
<1>1. Init => CursorInv
  BY DEF Init, CursorInv, OnceInv, HeldOnce, Placed, Known, Held, ScanWithinSeen, CursorWithinSeen
<1>2. CursorInv => CursorWithinSeen
  BY DEF CursorInv
<1> QED
  BY <1>1, <1>2, CursorStep, PipelineTypes, PTL DEF Spec
=============================================================================
