---------------------------- MODULE DiscoveryProofs ----------------------------
(***************************************************************************)
(* Theorems about what discovery reports of its gaps and how often it      *)
(* reads what it has queued, for any capacities of the channel and the     *)
(* queues, numbers of pages and retries, intervals and windows.            *)
(*                                                                         *)
(* The argument: a pool is handled when it is queued, in the channel, or   *)
(* announced no later than the last reported gap.  One that is not handled *)
(* was hidden by the silence that still lasts, or is on the listing, newer *)
(* than the last poll and not emitted; the poll that runs has not come to  *)
(* it, and everything it has read was newer.  So either a page reaches it, *)
(* or the poll ends above it and reports a gap.                            *)
(*                                                                         *)
(* For the reads: a queued signature was read in vain as often as its      *)
(* entry says, and a listed pool at times that kept each delay, after the  *)
(* last of which its entry is due.  That holds of a queue only while it    *)
(* names no signature twice and knows every one it names.                  *)
(***************************************************************************)
EXTENDS Discovery, SequenceTheorems, TLAPS

Held(p) == Queued(p) \/ p \in Members(channel)

Unhandled(p) == since[p] > 0 /\ ~Held(p) /\ lastGap < since[p]

ListedPool == [pool : Pools, failures : Int, next : Int]
Stream == [is : {"starting", "open", "silent", "down"}, since : Nat, backoff : Nat, wake : Nat]
Poll == [page : Nat, start : Nat, oldest : Nat, last : Nat, next : Nat]
Entry == [pool : Pools, created : Nat]

TimesTyped ==
  /\ clock \in Nat \ {0} /\ wsAt \in Nat /\ lastGap \in Nat /\ lastGap <= clock
  /\ since \in [Pools -> Nat] /\ \A p \in Pools : since[p] <= clock

StreamTyped ==
  /\ stream \in Stream
  /\ stream.since <= clock
  /\ stream.is = "down" => lastGap >= stream.since

PollTyped ==
  /\ listing \in Seq(Entry) /\ emitted \in Seq(Pools)
  /\ poll \in Poll
  /\ poll.last <= clock /\ poll.start <= clock
  /\ poll.page > 0 => poll.start > 0
  /\ poll.page <= 1 => poll.oldest = 0

QueuesTyped ==
  /\ channel \in Seq(Pools)
  /\ pending = [order |-> pending.order, attempts |-> pending.attempts]
  /\ pending.attempts \in [Pools -> Int] /\ \A p \in Pools : pending.attempts[p] >= -1
  /\ listed \in Seq(ListedPool)
  /\ pc = "listed" => left \in 1..Len(listed)

Typed ==
  /\ source \in {"logs", "geckoterminal"}
  /\ TimesTyped /\ StreamTyped /\ PollTyped /\ QueuesTyped

\* The listing is newest first, and every emitted pool is on it.
Listing ==
  /\ \A i \in DOMAIN listing : listing[i].created <= clock
  /\ \A i, j \in DOMAIN listing : i < j => listing[j].created <= listing[i].created
  /\ \A p \in Members(emitted) : \E i \in DOMAIN listing : listing[i].pool = p

\* The place of an unhandled pool on the listing, below what the poll has read.
Below(p) ==
  \E i \in DOMAIN listing :
    /\ listing[i].pool = p /\ listing[i].created = since[p]
    /\ poll.page > 0 /\ since[p] <= poll.start =>
         i >= poll.page /\ (poll.page > 1 => poll.oldest >= since[p])

Excused(p) ==
  /\ source = "logs" => stream.is = "silent" /\ since[p] = stream.since
  /\ source = "geckoterminal" =>
       /\ poll.last > 0 /\ since[p] > poll.last
       /\ p \notin Members(emitted) /\ Below(p)

DiscoveryInv == Typed /\ Listing /\ \A p \in Pools : Unhandled(p) => Excused(p)

-----------------------------------------------------------------------------
(* The queues *)

LEMMA MembersAppend ==
  ASSUME NEW S, NEW s \in Seq(S), NEW x \in S
  PROVE  Append(s, x) \in Seq(S) /\ Members(Append(s, x)) = Members(s) \cup {x}
<1>1. /\ Append(s, x) \in Seq(S) /\ Len(Append(s, x)) = Len(s) + 1 /\ Append(s, x)[Len(s) + 1] = x
      /\ \A i \in 1..Len(s) : Append(s, x)[i] = s[i]
      /\ DOMAIN s = 1..Len(s) /\ DOMAIN Append(s, x) = 1..(Len(s) + 1) /\ Len(s) \in Nat
  OBVIOUS
<1>2. ASSUME NEW y \in Members(Append(s, x)) PROVE y \in Members(s) \cup {x}
  <2>1. PICK i \in 1..(Len(s) + 1) : y = Append(s, x)[i]
    BY <1>1 DEF Members
  <2> QED
    BY <1>1, <2>1 DEF Members
<1>3. ASSUME NEW y \in Members(s) \cup {x} PROVE y \in Members(Append(s, x))
  BY <1>1 DEF Members
<1> QED
  BY <1>1, <1>2, <1>3

LEMMA MembersTail ==
  ASSUME NEW S, NEW s \in Seq(S), s # <<>>
  PROVE  /\ Tail(s) \in Seq(S) /\ Head(s) \in S /\ Len(Tail(s)) = Len(s) - 1
         /\ Members(s) = Members(Tail(s)) \cup {Head(s)}
<1>1. /\ Tail(s) \in Seq(S) /\ Len(Tail(s)) = Len(s) - 1 /\ Head(s) = s[1] /\ Head(s) \in S
      /\ \A i \in 1..(Len(s) - 1) : Tail(s)[i] = s[i + 1]
      /\ DOMAIN s = 1..Len(s) /\ DOMAIN Tail(s) = 1..(Len(s) - 1) /\ Len(s) \in Nat \ {0}
  OBVIOUS
<1>2. ASSUME NEW y \in Members(s) PROVE y \in Members(Tail(s)) \cup {Head(s)}
  <2>1. PICK i \in 1..Len(s) : y = s[i]
    BY <1>1 DEF Members
  <2>2. CASE i = 1
    BY <1>1, <2>1, <2>2
  <2>3. CASE i # 1
    <3>1. i - 1 \in 1..(Len(s) - 1) /\ Tail(s)[i - 1] = s[i]
      BY <1>1, <2>1, <2>3
    <3> QED
      BY <1>1, <2>1, <3>1 DEF Members
  <2> QED
    BY <2>2, <2>3
<1>3. ASSUME NEW y \in Members(Tail(s)) \cup {Head(s)} PROVE y \in Members(s)
  <2>1. CASE y = Head(s)
    BY <1>1, <2>1 DEF Members
  <2>2. ASSUME NEW i \in 1..(Len(s) - 1), y = Tail(s)[i] PROVE y \in Members(s)
    BY <1>1, <2>2 DEF Members
  <2> QED
    BY <1>1, <1>3, <2>1, <2>2 DEF Members
<1> QED
  BY <1>1, <1>2, <1>3

\* A queue that moves its head to its end, changed or not.
LEMMA MembersRotate ==
  ASSUME NEW S, NEW s \in Seq(S), s # <<>>, NEW x \in S
  PROVE  /\ Append(Tail(s), x) \in Seq(S) /\ Len(Append(Tail(s), x)) = Len(s)
         /\ Members(Append(Tail(s), x)) = Members(Tail(s)) \cup {x}
<1> DEFINE t == Tail(s)
<1>1. t \in Seq(S) /\ Len(t) = Len(s) - 1
  BY MembersTail
<1> HIDE DEF t
<1>2. Append(t, x) \in Seq(S) /\ Members(Append(t, x)) = Members(t) \cup {x}
  <2>1. x \in S
    OBVIOUS
  <2> QED
    BY ONLY <1>1, <2>1, MembersAppend
<1>3. Len(Append(t, x)) = Len(t) + 1 /\ Len(s) \in Nat
  BY <1>1
<1> QED
  BY <1>1, <1>2, <1>3 DEF t

\* The same for the list of pools to verify.
LEMMA ListedRotate ==
  ASSUME NEW s \in Seq(ListedPool), s # <<>>, NEW x \in ListedPool
  PROVE  /\ Append(Tail(s), x) \in Seq(ListedPool) /\ Len(Append(Tail(s), x)) = Len(s)
         /\ Members(Append(Tail(s), x)) = Members(Tail(s)) \cup {x}
BY MembersRotate

LEMMA QueuedIs ==
  ASSUME NEW p
  PROVE  Queued(p) <=> pending.attempts[p] # -1 \/ \E h \in Members(listed) : h.pool = p
  BY DEF Queued, Members

LEMMA SendKeeps ==
  ASSUME Typed, NEW p \in Pools, Sends(p)
  PROVE  /\ channel' \in Seq(Pools) /\ Members(channel) \subseteq Members(channel')
         /\ p \in Members(channel') \/ lastGap' = clock
         /\ lastGap' \in {lastGap, clock}
<1>1. channel \in Seq(Pools)
  BY DEF Typed, QueuesTyped
<1>2. Append(channel, p) \in Seq(Pools) /\ Members(Append(channel, p)) = Members(channel) \cup {p}
  <2>1. p \in Pools
    OBVIOUS
  <2> QED
    BY ONLY <1>1, <2>1, MembersAppend
<1> QED
  BY <1>1, <1>2 DEF Sends

-----------------------------------------------------------------------------
(* The steps *)

\* Steps that leave the source and what it has read alone, and leave no pool
\* unhandled that was not.
LEMMA Carries ==
  ASSUME DiscoveryInv, Typed', UNCHANGED <<source, stream, listing, poll, emitted>>, clock <= clock',
         \A p \in Pools : Unhandled(p)' => Unhandled(p) /\ since'[p] = since[p]
  PROVE  DiscoveryInv'
<1>1. Listing'
  <2>1. clock \in Nat /\ clock' \in Nat /\ \A i \in DOMAIN listing : listing[i].created \in Nat
    <3>1. listing \in Seq(Entry) /\ clock \in Nat /\ clock' \in Nat
      BY DEF DiscoveryInv, Typed, PollTyped, TimesTyped
    <3>2. \A i \in DOMAIN listing : listing[i] \in Entry
      BY <3>1
    <3> QED
      BY <3>1, <3>2 DEF Entry
  <2>2. \A i \in DOMAIN listing : listing[i].created <= clock'
    BY <2>1 DEF DiscoveryInv, Listing
  <2> QED
    BY <2>2 DEF DiscoveryInv, Listing
<1>2. ASSUME NEW p \in Pools, Unhandled(p)' PROVE Excused(p)'
  <2>1. Excused(p) /\ since'[p] = since[p]
    BY <1>2 DEF DiscoveryInv
  <2> QED
    BY <2>1 DEF Excused, Below
<1> QED
  BY <1>1, <1>2 DEF DiscoveryInv

\* A gap reported now handles every pool.
LEMMA GapHandles ==
  ASSUME Typed', lastGap' = clock', NEW p \in Pools
  PROVE  ~Unhandled(p)'
  BY DEF Typed, TimesTyped, Unhandled

LEMMA InitDiscovery == Init => DiscoveryInv
<1> SUFFICES ASSUME Init PROVE DiscoveryInv
  OBVIOUS
<1>1. Typed
  <2>1. TimesTyped /\ source \in {"logs", "geckoterminal"}
    BY DiscoveryAssumption DEF DiscoveryAssumption, Init, TimesTyped
  <2>2. StreamTyped
    BY DEF Init, StreamTyped, Stream
  <2>3. PollTyped
    BY DEF Init, PollTyped, Poll
  <2>4. QueuesTyped
    BY DEF Init, QueuesTyped, NoSignatures
  <2> QED
    BY <2>1, <2>2, <2>3, <2>4 DEF Typed
<1>2. Listing /\ \A p \in Pools : ~Unhandled(p)
  BY DEF Init, Listing, Members, Unhandled
<1> QED
  BY <1>1, <1>2 DEF DiscoveryInv

LEMMA TickCarries == DiscoveryInv /\ (Tick \/ UNCHANGED vars) => DiscoveryInv'
<1> SUFFICES ASSUME DiscoveryInv, Tick \/ UNCHANGED vars PROVE DiscoveryInv'
  OBVIOUS
<1>1. /\ clock' \in Nat \ {0} /\ clock <= clock'
      /\ UNCHANGED <<source, status, thread, channel, queues, place, history>>
  BY DEF DiscoveryInv, Typed, TimesTyped, Tick, vars
<1>2. Typed'
  <2>1. UNCHANGED <<source, wsAt, lastGap, stream, listing, poll, emitted, channel, pending, listed, pc, left, since>>
    BY <1>1 DEF status, thread, queues, place, history
  <2>2. TimesTyped'
    BY <1>1, <2>1 DEF DiscoveryInv, Typed, TimesTyped
  <2>3. StreamTyped'
    BY <1>1, <2>1 DEF DiscoveryInv, Typed, TimesTyped, StreamTyped, Stream
  <2>4. PollTyped'
    <3>1. PollTyped /\ clock \in Nat
      BY DEF DiscoveryInv, Typed, TimesTyped
    <3>2. poll.last \in Nat /\ poll.start \in Nat
      BY <3>1 DEF PollTyped, Poll
    <3> QED
      BY <1>1, <2>1, <3>1, <3>2 DEF PollTyped
  <2>5. QueuesTyped'
    BY <2>1 DEF DiscoveryInv, Typed, QueuesTyped
  <2> QED
    BY <2>1, <2>2, <2>3, <2>4, <2>5 DEF DiscoveryInv, Typed
<1>3. \A p \in Pools : Unhandled(p)' => Unhandled(p) /\ since'[p] = since[p]
  BY <1>1 DEF Unhandled, Held, Queued, status, thread, queues, history
<1> QED
  BY <1>1, <1>2, <1>3, Carries DEF status, thread, history

\* The listener: what is unhandled after its step was hidden by a silence.
LEMMA LogsCarry ==
  ASSUME DiscoveryInv, Typed', Listening,
         \A p \in Pools : Unhandled(p)' => stream'.is = "silent" /\ since'[p] = stream'.since
  PROVE  DiscoveryInv'
<1>1. source = "logs" /\ UNCHANGED <<source, clock, listing, poll, emitted>>
  BY DEF Listening
<1>2. Listing'
  BY <1>1 DEF DiscoveryInv, Listing
<1> QED
  BY <1>1, <1>2 DEF DiscoveryInv, Excused

LEMMA LogsStep ==
  ASSUME DiscoveryInv,
         Subscribes \/ SubscribeFails \/ Chatter \/ GoesSilent \/ StreamEnds
           \/ \E p \in Pools : Delivers(p) \/ Misses(p)
  PROVE  DiscoveryInv'
<1>1. Listening /\ source = "logs" /\ UNCHANGED <<source, clock, listing, poll, emitted, queues, place>>
  BY DEF Listening, Subscribes, SubscribeFails, Chatter, GoesSilent, StreamEnds, Delivers, Misses
<1>2. \A p \in Pools : Unhandled(p) => stream.is = "silent" /\ since[p] = stream.since
  BY <1>1 DEF DiscoveryInv, Excused
<1>3. Typed /\ TimesTyped /\ StreamTyped /\ PollTyped /\ QueuesTyped
  BY DEF DiscoveryInv, Typed
<1>10. ASSUME TimesTyped', StreamTyped', channel' \in Seq(Pools) PROVE Typed'
  BY <1>1, <1>3, <1>10 DEF Typed, PollTyped, QueuesTyped, queues, place
<1>4. CASE Subscribes
  <2>3. stream' \in Stream /\ stream'.is = "open" /\ stream'.since = 0
    BY <1>3, <1>4 DEF Subscribes, StreamTyped, Stream
  <2>4. UNCHANGED <<wsAt, lastGap, channel, since>>
    BY <1>4 DEF Subscribes, history
  <2>1. Typed'
    BY <1>1, <1>3, <1>10, <2>3, <2>4 DEF TimesTyped, StreamTyped, QueuesTyped
  <2>2. \A p \in Pools : ~Unhandled(p)'
    BY <1>1, <1>2, <1>4 DEF Subscribes, Unhandled, Held, Queued, queues, history
  <2> QED
    BY <1>1, <2>1, <2>2, LogsCarry
<1>5. CASE SubscribeFails \/ StreamEnds
  <2>1. lastGap' = clock /\ UNCHANGED <<wsAt, channel, since>>
    BY <1>5 DEF SubscribeFails, StreamEnds, history
  <2>2. stream' \in Stream /\ stream'.since <= clock
    <3>1. stream \in Stream /\ stream.since <= clock /\ clock \in Nat
      BY <1>3 DEF StreamTyped, TimesTyped
    <3>2. CASE SubscribeFails
      <4> DEFINE wake == clock + stream.backoff
                 backoff == IF 2 * stream.backoff < MaxBackoff THEN 2 * stream.backoff ELSE MaxBackoff
      <4>1. wake \in Nat /\ backoff \in Nat
        BY <3>1, DiscoveryAssumption DEF DiscoveryAssumption, Stream
      <4>2. stream' = [stream EXCEPT !.wake = wake, !.backoff = backoff]
        BY <3>2 DEF SubscribeFails
      <4> HIDE DEF wake, backoff
      <4> QED
        BY <3>1, <4>1, <4>2 DEF Stream
    <3>3. CASE StreamEnds
      <4> DEFINE from == IF stream.since = 0 THEN clock ELSE stream.since
      <4>1. from \in Nat /\ from <= clock
        BY <3>1 DEF Stream
      <4>2. stream' = [stream EXCEPT !.is = "down", !.since = from, !.wake = clock]
        BY <3>3 DEF StreamEnds
      <4> HIDE DEF from
      <4> QED
        BY <3>1, <4>1, <4>2 DEF Stream
    <3> QED
      BY <1>5, <3>2, <3>3
  <2>3. Typed'
    BY <1>1, <1>3, <1>10, <2>1, <2>2 DEF TimesTyped, StreamTyped, QueuesTyped, Stream
  <2> QED
    BY <1>1, <2>1, <2>3, GapHandles, LogsCarry
<1>6. CASE Chatter
  <2>1. Typed'
    BY <1>1, <1>3, <1>6, <1>10 DEF Chatter, TimesTyped, StreamTyped, QueuesTyped, history
  <2>2. \A p \in Pools : Unhandled(p)' => Unhandled(p) /\ since'[p] = since[p]
    BY <1>1, <1>6 DEF Chatter, Unhandled, Held, Queued, queues, history
  <2> QED
    BY <1>1, <1>2, <1>6, <2>1, <2>2, LogsCarry DEF Chatter
<1>7. CASE GoesSilent
  <2>3. stream' \in Stream /\ stream'.is = "silent" /\ stream'.since = clock
    BY <1>3, <1>7 DEF GoesSilent, StreamTyped, Stream, TimesTyped
  <2>4. UNCHANGED <<wsAt, lastGap, channel, since>>
    BY <1>7 DEF GoesSilent, history
  <2>1. Typed'
    BY <1>1, <1>3, <1>10, <2>3, <2>4 DEF TimesTyped, StreamTyped, QueuesTyped
  <2>2. \A p \in Pools : ~Unhandled(p)'
    BY <1>1, <1>2, <1>7 DEF GoesSilent, Unhandled, Held, Queued, queues, history
  <2> QED
    BY <1>1, <2>1, <2>2, LogsCarry
<1>8. ASSUME NEW q \in Pools, Delivers(q) PROVE DiscoveryInv'
  <2>1. /\ channel' \in Seq(Pools) /\ Members(channel) \subseteq Members(channel')
        /\ q \in Members(channel') \/ lastGap' = clock
        /\ lastGap' \in {lastGap, clock}
    BY <1>3, <1>8, SendKeeps DEF Delivers
  <2>2. Typed'
    BY <1>1, <1>3, <1>8, <1>10, <2>1 DEF Delivers, TimesTyped, StreamTyped
  <2>3. \A p \in Pools : ~Unhandled(p)
    BY <1>2, <1>8 DEF Delivers
  <2>4. \A p \in Pools : Queued(p)' = Queued(p)
    BY <1>1 DEF Queued, queues
  <2>5. ASSUME NEW p \in Pools PROVE ~Unhandled(p)'
    <3>1. CASE lastGap' = clock
      BY <1>1, <2>2, <3>1, GapHandles
    <3>2. CASE lastGap' # clock /\ p = q
      BY <2>1, <3>2 DEF Unhandled, Held
    <3>3. CASE lastGap' # clock /\ p # q
      <4>1. lastGap' = lastGap /\ since'[p] = since[p]
        BY <1>3, <1>8, <2>1, <3>3 DEF Delivers, TimesTyped
      <4> QED
        BY <2>1, <2>3, <2>4, <4>1 DEF Unhandled, Held
    <3> QED
      BY <3>1, <3>2, <3>3
  <2> QED
    BY <1>1, <2>2, <2>5, LogsCarry
<1>9. ASSUME NEW q \in Pools, Misses(q) PROVE DiscoveryInv'
  <2>3. /\ since' = [since EXCEPT ![q] = stream.since] /\ stream.is \in {"silent", "down"}
        /\ UNCHANGED <<wsAt, lastGap, stream, channel>>
    BY <1>9 DEF Misses
  <2>4. /\ stream \in Stream /\ stream.since \in Nat /\ stream.since <= clock
        /\ stream.is = "down" => lastGap >= stream.since
    BY <1>3 DEF StreamTyped, Stream
  <2>5. TimesTyped'
    BY <1>1, <1>3, <2>3, <2>4 DEF TimesTyped
  <2>1. Typed'
    BY <1>1, <1>3, <1>10, <2>3, <2>5 DEF StreamTyped, QueuesTyped
  <2>2. ASSUME NEW p \in Pools, Unhandled(p)' PROVE stream'.is = "silent" /\ since'[p] = stream'.since
    <3>1. CASE p = q
      <4>1. since'[p] = stream.since
        BY <1>3, <2>3, <3>1 DEF TimesTyped
      <4>2. lastGap < stream.since /\ lastGap \in Nat
        BY <1>3, <2>2, <2>3, <4>1 DEF Unhandled, TimesTyped
      <4> QED
        BY <2>3, <2>4, <4>1, <4>2
    <3>2. CASE p # q
      <4>1. Unhandled(p) /\ since'[p] = since[p]
        BY <1>1, <1>3, <1>9, <2>2, <3>2 DEF Misses, TimesTyped, Unhandled, Held, Queued, queues
      <4> QED
        BY <1>2, <1>9, <4>1 DEF Misses
    <3> QED
      BY <3>1, <3>2
  <2> QED
    BY <1>1, <2>1, <2>2, LogsCarry
<1> QED
  BY <1>4, <1>5, <1>6, <1>7, <1>8, <1>9

-----------------------------------------------------------------------------
(* The supervisor *)

\* A step of the supervisor loses no pool but with a gap, or settles it.
LEMMA SupervisorCarries ==
  ASSUME DiscoveryInv, Supervising, QueuesTyped', lastGap' \in {lastGap, clock},
         since' \in [Pools -> Nat], \A p \in Pools : since'[p] \in {0, since[p]},
         lastGap' = clock \/ \A p \in Pools : Held(p) => Held(p)' \/ since'[p] = 0
  PROVE  DiscoveryInv'
<1>1. Typed /\ TimesTyped /\ StreamTyped /\ PollTyped
  BY DEF DiscoveryInv, Typed
<1>2. UNCHANGED <<source, clock, wsAt, stream, listing, poll, emitted>>
  BY DEF Supervising, thread
<1>3. TimesTyped'
  BY <1>1, <1>2 DEF TimesTyped
<1>4. lastGap \in Nat /\ lastGap <= clock /\ clock \in Nat
  BY <1>1 DEF TimesTyped
<1>5. StreamTyped' /\ PollTyped'
  BY <1>1, <1>2, <1>4 DEF StreamTyped, PollTyped, Stream
<1>6. Typed'
  BY <1>1, <1>2, <1>3, <1>5 DEF Typed
<1>7. ASSUME NEW p \in Pools, Unhandled(p)' PROVE Unhandled(p) /\ since'[p] = since[p]
  <2>1. since'[p] = since[p] /\ since'[p] # 0 /\ since[p] \in Nat /\ since[p] <= clock
    BY <1>1, <1>7 DEF Unhandled, TimesTyped
  <2>2. lastGap' # clock
    BY <1>2, <1>6, <1>7, GapHandles
  <2> QED
    BY <1>7, <2>1, <2>2 DEF Unhandled
<1> QED
  BY <1>2, <1>4, <1>6, <1>7, Carries

LEMMA SettleTyped ==
  ASSUME TimesTyped, NEW p, Settles(p)
  PROVE  since' \in [Pools -> Nat] /\ \A q \in Pools : since'[q] = IF q = p THEN 0 ELSE since[q]
  BY DEF TimesTyped, Settles

LEMMA SinceKept ==
  ASSUME TimesTyped, UNCHANGED since
  PROVE  since' \in [Pools -> Nat] /\ \A p \in Pools : since'[p] \in {0, since[p]}
  BY DEF TimesTyped

LEMMA CountSet ==
  ASSUME NEW f \in [Pools -> Int], \A p \in Pools : f[p] >= -1, NEW x, NEW v \in Int, v >= -1
  PROVE  /\ [f EXCEPT ![x] = v] \in [Pools -> Int]
         /\ \A p \in Pools : [f EXCEPT ![x] = v][p] = IF p = x THEN v ELSE f[p]
         /\ \A p \in Pools : [f EXCEPT ![x] = v][p] >= -1
<1>1. \A p \in Pools : [f EXCEPT ![x] = v][p] = IF p = x THEN v ELSE f[p]
  OBVIOUS
<1> QED
  BY <1>1

LEMMA TakeSignatureKeeps == DiscoveryInv /\ TakeSignature => DiscoveryInv'
<1> SUFFICES ASSUME DiscoveryInv, TakeSignature PROVE DiscoveryInv'
  OBVIOUS
<1> DEFINE h == Head(channel)
<1>1. TimesTyped /\ QueuesTyped
  BY DEF DiscoveryInv, Typed
<1>2. /\ Supervising /\ pc = "drain" /\ channel # <<>> /\ channel' = Tail(channel)
      /\ pending' = Push(pending, h) /\ UNCHANGED <<listed, pc, left>>
      /\ lastGap' = IF PushEvicts(pending, h) THEN clock ELSE lastGap
  BY DEF TakeSignature, place
<1>3. UNCHANGED since
  BY DEF TakeSignature
<1>4. channel' \in Seq(Pools) /\ h \in Pools /\ Members(channel) = Members(channel') \cup {h}
  BY <1>1, <1>2, MembersTail DEF QueuesTyped
<1> HIDE DEF h
<1>5. /\ pending' = [order |-> pending'.order, attempts |-> pending'.attempts]
      /\ pending'.attempts \in [Pools -> Int] /\ \A p \in Pools : pending'.attempts[p] >= -1
      /\ \/ PushEvicts(pending, h)
         \/ /\ pending'.attempts[h] # -1
            /\ \A p \in Pools \ {h} : pending'.attempts[p] = pending.attempts[p]
  <2>0. /\ pending = [order |-> pending.order, attempts |-> pending.attempts]
        /\ pending.attempts \in [Pools -> Int] /\ \A p \in Pools : pending.attempts[p] >= -1
    BY <1>1 DEF QueuesTyped
  <2>1. CASE pending.attempts[h] # -1
    BY <1>2, <2>0, <2>1 DEF Push
  <2>2. CASE PushEvicts(pending, h)
    <3>1. pending' = [order |-> Append(Tail(pending.order), h),
                      attempts |-> [pending.attempts EXCEPT ![Head(pending.order)] = -1, ![h] = 0]]
      BY <1>2, <2>2 DEF Push, PushEvicts
    <3> DEFINE a == [pending.attempts EXCEPT ![Head(pending.order)] = -1]
    <3>2. a \in [Pools -> Int] /\ \A p \in Pools : a[p] >= -1
      BY <2>0, CountSet
    <3> DEFINE b == [a EXCEPT ![h] = 0]
    <3>3. pending' = [order |-> Append(Tail(pending.order), h), attempts |-> b]
      BY <3>1
    <3> HIDE DEF a
    <3>4. b \in [Pools -> Int] /\ \A p \in Pools : b[p] >= -1
      BY <3>2, CountSet
    <3> HIDE DEF b
    <3>5. pending'.attempts = b /\ pending' = [order |-> pending'.order, attempts |-> pending'.attempts]
      BY <3>3
    <3> QED
      BY <2>2, <3>4, <3>5
  <2>3. CASE pending.attempts[h] = -1 /\ ~PushEvicts(pending, h)
    <3>1. pending' = [order |-> Append(pending.order, h), attempts |-> [pending.attempts EXCEPT ![h] = 0]]
      BY <1>2, <2>3 DEF Push
    <3> QED
      BY <1>4, <2>0, <3>1
  <2> QED
    BY <2>1, <2>2, <2>3
<1>6. QueuesTyped'
  BY <1>1, <1>2, <1>4, <1>5 DEF QueuesTyped
<1>7. ASSUME NEW p \in Pools, Held(p), ~PushEvicts(pending, h) PROVE Held(p)'
  BY <1>1, <1>2, <1>4, <1>5, <1>7 DEF Held, Queued
<1> QED
  BY <1>1, <1>2, <1>3, <1>6, <1>7, SinceKept, SupervisorCarries

LEMMA TakePoolKeeps == DiscoveryInv /\ TakePool => DiscoveryInv'
<1> SUFFICES ASSUME DiscoveryInv, TakePool PROVE DiscoveryInv'
  OBVIOUS
<1> DEFINE h == Head(channel)
           s == IF Len(listed) >= ListedCap THEN Tail(listed) ELSE listed
           x == Listed(h, 0, 0)
<1>1. TimesTyped /\ QueuesTyped
  BY DEF DiscoveryInv, Typed
<1>2. /\ Supervising /\ pc = "drain" /\ channel # <<>> /\ channel' = Tail(channel)
      /\ listed' = Append(s, x) /\ UNCHANGED <<pending, pc, left>>
      /\ lastGap' = IF Len(listed) >= ListedCap THEN clock ELSE lastGap
  BY DEF TakePool, place, AppendListed
<1>3. UNCHANGED since
  BY DEF TakePool
<1>4. channel' \in Seq(Pools) /\ h \in Pools /\ Members(channel) = Members(channel') \cup {h}
  BY <1>1, <1>2, MembersTail DEF QueuesTyped
<1>5. x \in ListedPool /\ x.pool = h
  BY <1>4 DEF ListedPool, Listed
<1>6. s \in Seq(ListedPool)
  <2>1. ListedCap \in Nat \ {0} /\ listed \in Seq(ListedPool)
    BY <1>1, QueueAssumption DEF QueueAssumption, QueuesTyped
  <2>2. Len(listed) >= ListedCap => listed # <<>>
    BY <2>1
  <2> QED
    BY <2>1, <2>2, MembersTail
<1> HIDE DEF h, s, x
<1>7. listed' \in Seq(ListedPool) /\ Members(listed') = Members(s) \cup {x}
  BY <1>2, <1>5, <1>6, MembersAppend
<1>8. QueuesTyped'
  BY <1>1, <1>2, <1>4, <1>7 DEF QueuesTyped
<1>9. ASSUME NEW p \in Pools, Held(p), ~(Len(listed) >= ListedCap) PROVE Held(p)'
  <2>1. s = listed
    BY <1>9 DEF s
  <2>2. \A q : Queued(q) => Queued(q)'
    BY <1>2, <1>7, <2>1, QueuedIs DEF Queued, Members
  <2>3. h = p => Queued(p)'
    <3>1. x \in Members(listed')
      BY <1>7
    <3>2. PICK i \in DOMAIN listed' : listed'[i] = x
      BY <3>1 DEF Members
    <3> QED
      BY <1>5, <3>2 DEF Queued
  <2>4. CASE Queued(p)
    BY <2>2, <2>4 DEF Held
  <2>5. CASE p \in Members(channel)
    BY <1>4, <2>3, <2>5 DEF Held
  <2> QED
    BY <1>9, <2>4, <2>5 DEF Held
<1> QED
  BY <1>1, <1>2, <1>3, <1>8, <1>9, SinceKept, SupervisorCarries

LEMMA DrainedKeeps == DiscoveryInv /\ Drained => DiscoveryInv'
<1> SUFFICES ASSUME DiscoveryInv, Drained PROVE DiscoveryInv'
  OBVIOUS
<1>1. TimesTyped /\ QueuesTyped
  BY DEF DiscoveryInv, Typed
<1>2. /\ Supervising /\ UNCHANGED <<channel, pending, listed, since, lastGap>>
      /\ (listed # <<>> /\ left' = Len(listed)) \/ pc' = "pending"
  BY DEF Drained, queues, history
<1>3. QueuesTyped'
  BY <1>1, <1>2 DEF QueuesTyped
<1>4. \A p \in Pools : Held(p) => Held(p)'
  BY <1>2 DEF Held, Queued
<1> QED
  BY <1>1, <1>2, <1>3, <1>4, SinceKept, SupervisorCarries

\* The head of the listed pools, in a scan of them.
LEMMA ScanHead ==
  ASSUME QueuesTyped, Scanning
  PROVE  /\ pc = "listed" /\ Supervising /\ listed # <<>> /\ UNCHANGED <<channel, pending>>
         /\ Head(listed) \in ListedPool /\ Tail(listed) \in Seq(ListedPool)
         /\ left \in 1..Len(listed) /\ Len(Tail(listed)) = Len(listed) - 1
         /\ Members(listed) = Members(Tail(listed)) \cup {Head(listed)}
<1>1. pc = "listed" /\ Supervising /\ UNCHANGED <<channel, pending>> /\ left \in 1..Len(listed)
      /\ listed \in Seq(ListedPool)
  BY DEF Scanning, QueuesTyped
<1>2. listed # <<>>
  BY <1>1
<1> QED
  BY <1>1, <1>2, MembersTail

LEMMA NotDueKeeps == DiscoveryInv /\ NotDue => DiscoveryInv'
<1> SUFFICES ASSUME DiscoveryInv, NotDue PROVE DiscoveryInv'
  OBVIOUS
<1>1. TimesTyped /\ QueuesTyped /\ Scanning
  BY DEF DiscoveryInv, Typed, NotDue
<1>2. /\ listed' = Append(Tail(listed), Head(listed)) /\ UNCHANGED <<lastGap, since>>
      /\ left' = left - 1 /\ (pc' = "listed" => left' > 0)
  BY DEF NotDue, Advance, history
<1>3. listed' \in Seq(ListedPool) /\ Len(listed') = Len(listed) /\ Members(listed') = Members(listed)
  <2> DEFINE x == Head(listed)
  <2>1. /\ listed \in Seq(ListedPool) /\ listed # <<>> /\ x \in ListedPool
        /\ Members(listed) = Members(Tail(listed)) \cup {x}
        /\ listed' = Append(Tail(listed), x)
    BY <1>1, <1>2, ScanHead DEF QueuesTyped
  <2> HIDE DEF x
  <2>2. /\ Append(Tail(listed), x) \in Seq(ListedPool) /\ Len(Append(Tail(listed), x)) = Len(listed)
        /\ Members(Append(Tail(listed), x)) = Members(Tail(listed)) \cup {x}
    BY ONLY <2>1, ListedRotate
  <2> QED
    BY ONLY <2>1, <2>2
<1>4. QueuesTyped'
  BY <1>1, <1>2, <1>3, ScanHead DEF QueuesTyped
<1>5. ASSUME NEW p \in Pools, Held(p) PROVE Held(p)'
  <2>1. \A h \in Members(listed) : h.pool = p => h \in Members(listed')
    BY <1>3
  <2>2. UNCHANGED <<channel, pending>>
    BY <1>1, ScanHead
  <2> QED
    BY <1>5, <2>1, <2>2 DEF Held, Queued, Members
<1> QED
  BY <1>1, <1>2, <1>4, <1>5, ScanHead, SinceKept, SupervisorCarries

LEMMA PoolVerifiedKeeps == DiscoveryInv /\ PoolVerified => DiscoveryInv'
<1> SUFFICES ASSUME DiscoveryInv, PoolVerified PROVE DiscoveryInv'
  OBVIOUS
<1>1. TimesTyped /\ QueuesTyped /\ Scanning
  BY DEF DiscoveryInv, Typed, PoolVerified
<1>2. /\ listed' = Tail(listed) /\ UNCHANGED lastGap /\ Settles(Head(listed).pool)
      /\ left' = left - 1 /\ (pc' = "listed" => left' > 0)
  BY DEF PoolVerified, Advance
<1>3. since' \in [Pools -> Nat] /\ \A q \in Pools : since'[q] = IF q = Head(listed).pool THEN 0 ELSE since[q]
  BY <1>1, <1>2, SettleTyped
<1>4. QueuesTyped'
  BY <1>1, <1>2, ScanHead DEF QueuesTyped
<1>5. ASSUME NEW p \in Pools, Held(p), since'[p] # 0 PROVE Held(p)'
  <2>1. p # Head(listed).pool
    BY <1>3, <1>5
  <2>2. \A h \in Members(listed) : h.pool = p => h \in Members(listed')
    BY <1>1, <1>2, <2>1, ScanHead
  <2> QED
    BY <1>1, <1>5, <2>2, ScanHead DEF Held, Queued, Members
<1> QED
  BY <1>1, <1>2, <1>3, <1>4, <1>5, ScanHead, SupervisorCarries

LEMMA PoolUnreadableKeeps == DiscoveryInv /\ PoolUnreadable => DiscoveryInv'
<1> SUFFICES ASSUME DiscoveryInv, PoolUnreadable PROVE DiscoveryInv'
  OBVIOUS
<1> DEFINE failures == Head(listed).failures + 1
           x == Listed(Head(listed).pool, failures, clock + DelayAfter(failures))
<1>1. TimesTyped /\ QueuesTyped /\ Scanning
  BY DEF DiscoveryInv, Typed, PoolUnreadable
<1>2. /\ left' = left - 1 /\ (pc' = "listed" => left' > 0) /\ UNCHANGED since
      /\ IF ReadAgain(failures)
         THEN listed' = Append(Tail(listed), x) /\ UNCHANGED lastGap
         ELSE listed' = Tail(listed) /\ lastGap' = clock
  BY DEF PoolUnreadable, Advance
<1>3. CASE ~ReadAgain(failures)
  <2>0. listed' = Tail(listed)
    BY <1>2, <1>3
  <2> HIDE DEF failures, x
  <2>1. QueuesTyped'
    BY <1>1, <1>2, <2>0, ScanHead DEF QueuesTyped
  <2> QED
    BY <1>1, <1>2, <1>3, <2>1, ScanHead, SinceKept, SupervisorCarries
<1>4. CASE ReadAgain(failures)
  <2>1. x \in ListedPool /\ x.pool = Head(listed).pool
    <3>1. RetryDelays \in Seq(Nat \ {0}) /\ failures \in DOMAIN RetryDelays
      BY <1>4, QueueAssumption DEF QueueAssumption, ReadAgain
    <3>2. DelayAfter(failures) \in Nat /\ failures \in Int
      BY <3>1 DEF DelayAfter
    <3>3. Head(listed).pool \in Pools /\ clock \in Nat
      BY <1>1, ScanHead DEF ListedPool, TimesTyped
    <3> HIDE DEF failures
    <3> QED
      BY <3>2, <3>3 DEF ListedPool, Listed
  <2> HIDE DEF x
  <2>2. listed' \in Seq(ListedPool) /\ Len(listed') = Len(listed) /\ Members(listed') = Members(Tail(listed)) \cup {x}
    <3>1. listed \in Seq(ListedPool) /\ listed # <<>> /\ listed' = Append(Tail(listed), x)
      BY <1>1, <1>2, <1>4, ScanHead DEF QueuesTyped
    <3>2. /\ Append(Tail(listed), x) \in Seq(ListedPool) /\ Len(Append(Tail(listed), x)) = Len(listed)
          /\ Members(Append(Tail(listed), x)) = Members(Tail(listed)) \cup {x}
      BY ONLY <2>1, <3>1, ListedRotate
    <3> QED
      BY ONLY <3>1, <3>2
  <2>3. QueuesTyped'
    BY <1>1, <1>2, <2>2, ScanHead DEF QueuesTyped
  <2>4. ASSUME NEW p \in Pools, Held(p) PROVE Held(p)'
    <3>1. \A h \in Members(listed) : h.pool = p => \E g \in Members(listed') : g.pool = p
      BY <1>1, <2>1, <2>2, ScanHead
    <3> QED
      BY <1>1, <2>4, <3>1, ScanHead DEF Held, Queued, Members
  <2> QED
    BY <1>1, <1>2, <1>4, <2>3, <2>4, ScanHead, SinceKept, SupervisorCarries
<1> QED
  BY <1>3, <1>4

LEMMA ResolvedKeeps == DiscoveryInv /\ (Resolved \/ Unresolved) => DiscoveryInv'
<1> SUFFICES ASSUME DiscoveryInv, Resolved \/ Unresolved PROVE DiscoveryInv'
  OBVIOUS
<1> DEFINE h == Head(pending.order)
<1>1. TimesTyped /\ QueuesTyped
  BY DEF DiscoveryInv, Typed
<1>2. /\ Supervising /\ pc = "pending" /\ UNCHANGED <<channel, listed>>
      /\ pc' # "listed"
  BY DEF Resolved, Unresolved, Resolving, Advance
<1>3. ASSUME NEW v \in Int, v >= -1, NEW o, pending' = [order |-> o, attempts |-> [pending.attempts EXCEPT ![h] = v]]
      PROVE  QueuesTyped' /\ \A p \in Pools : pending'.attempts[p] = IF p = h THEN v ELSE pending.attempts[p]
  <2> DEFINE a == [pending.attempts EXCEPT ![h] = v]
  <2>1. a \in [Pools -> Int] /\ \A p \in Pools : a[p] >= -1 /\ a[p] = IF p = h THEN v ELSE pending.attempts[p]
    BY <1>1, <1>3, CountSet DEF QueuesTyped
  <2>2. pending' = [order |-> o, attempts |-> a]
    BY <1>3
  <2> HIDE DEF a
  <2> QED
    BY <1>1, <1>2, <2>1, <2>2 DEF QueuesTyped
<1>4. CASE Resolved
  <2>1. pending' = [order |-> Tail(pending.order), attempts |-> [pending.attempts EXCEPT ![h] = -1]]
        /\ Settles(h) /\ UNCHANGED lastGap
    BY <1>4 DEF Resolved, Done
  <2>2. since' \in [Pools -> Nat] /\ \A q \in Pools : since'[q] = IF q = h THEN 0 ELSE since[q]
    BY <1>1, <2>1, SettleTyped
  <2> HIDE DEF h
  <2>3. QueuesTyped' /\ \A p \in Pools : pending'.attempts[p] = IF p = h THEN -1 ELSE pending.attempts[p]
    BY <1>3, <2>1
  <2>4. \A p \in Pools : Held(p) => Held(p)' \/ since'[p] = 0
    BY <1>2, <2>2, <2>3 DEF Held, Queued
  <2> QED
    BY <1>1, <1>2, <2>1, <2>2, <2>3, <2>4, SupervisorCarries
<1>5. CASE Unresolved /\ Exhausted(pending, h)
  <2>1. pending' = [order |-> Tail(pending.order), attempts |-> [pending.attempts EXCEPT ![h] = -1]]
        /\ lastGap' = clock /\ UNCHANGED since
    BY <1>5 DEF Unresolved, Retry
  <2> HIDE DEF h
  <2>2. QueuesTyped'
    BY <1>3, <2>1
  <2> QED
    BY <1>1, <1>2, <2>1, <2>2, SinceKept, SupervisorCarries
<1>6. CASE Unresolved /\ ~Exhausted(pending, h)
  <2>1. pending' = [order |-> Append(Tail(pending.order), h),
                    attempts |-> [pending.attempts EXCEPT ![h] = pending.attempts[h] + 1]]
        /\ UNCHANGED <<lastGap, since>>
    BY <1>6 DEF Unresolved, Retry
  <2> QED
    <3>1. CASE h \in Pools
      <4>1. pending.attempts[h] + 1 \in Int /\ pending.attempts[h] + 1 >= 0
        BY <1>1, <3>1 DEF QueuesTyped
      <4> HIDE DEF h
      <4>2. QueuesTyped' /\ \A p \in Pools :
              pending'.attempts[p] = IF p = h THEN pending.attempts[h] + 1 ELSE pending.attempts[p]
        BY <1>3, <2>1, <4>1
      <4>3. \A p \in Pools : Held(p) => Held(p)'
        BY <1>2, <4>1, <4>2 DEF Held, Queued
      <4> QED
        BY <1>1, <1>2, <2>1, <4>2, <4>3, SinceKept, SupervisorCarries
    <3>2. CASE h \notin Pools
      <4>1. pending.attempts \in [Pools -> Int]
        BY <1>1 DEF QueuesTyped
      <4> HIDE DEF h
      <4>2. [pending.attempts EXCEPT ![h] = pending.attempts[h] + 1] = pending.attempts
        BY <3>2, <4>1
      <4>3. pending'.attempts = pending.attempts /\ pending' = [order |-> pending'.order, attempts |-> pending'.attempts]
        BY <2>1, <4>2
      <4>4. QueuesTyped'
        BY <1>1, <1>2, <4>3 DEF QueuesTyped
      <4>5. \A p \in Pools : Held(p) => Held(p)'
        BY <1>2, <4>3 DEF Held, Queued
      <4> QED
        BY <1>1, <1>2, <2>1, <4>4, <4>5, SinceKept, SupervisorCarries
    <3> QED
      BY <3>1, <3>2
<1> QED
  BY <1>4, <1>5, <1>6

-----------------------------------------------------------------------------
(* The poller *)

\* What the poller has not come to yet, of a pool that is not handled.
Ahead(p) ==
  /\ poll.last > 0 /\ since[p] > poll.last
  /\ p \notin Members(emitted) /\ Below(p)

LEMMA PollCarries ==
  ASSUME DiscoveryInv, Polling, TimesTyped', PollTyped', channel' \in Seq(Pools), lastGap' \in {lastGap, clock},
         Listing', \A p \in Pools : Unhandled(p)' => Ahead(p)'
  PROVE  DiscoveryInv'
<1>1. Typed /\ TimesTyped /\ StreamTyped /\ QueuesTyped
  BY DEF DiscoveryInv, Typed
<1>2. source = "geckoterminal" /\ UNCHANGED <<source, clock, stream, pending, listed, pc, left>>
  BY DEF Polling, queues, place
<1>3. StreamTyped' /\ QueuesTyped'
  BY <1>1, <1>2 DEF StreamTyped, QueuesTyped, TimesTyped, Stream
<1>4. Typed'
  BY <1>1, <1>2, <1>3 DEF Typed
<1> QED
  BY <1>2, <1>4 DEF DiscoveryInv, Excused, Ahead

LEMMA PollFacts ==
  ASSUME DiscoveryInv, Polling
  PROVE  /\ TimesTyped /\ PollTyped /\ QueuesTyped /\ Listing
         /\ clock' = clock /\ clock \in Nat /\ source = "geckoterminal"
         /\ UNCHANGED <<pending, listed>>
         /\ \A p : Queued(p)' = Queued(p)
         /\ \A p \in Pools : Unhandled(p) => Ahead(p)
<1>1. TimesTyped /\ PollTyped /\ QueuesTyped /\ Listing
  BY DEF DiscoveryInv, Typed
<1>2. clock' = clock /\ source = "geckoterminal" /\ UNCHANGED <<pending, listed>>
  BY DEF Polling, queues
<1>3. \A p : Queued(p)' = Queued(p)
  BY <1>2 DEF Queued
<1> QED
  BY <1>1, <1>2, <1>3 DEF DiscoveryInv, Excused, Ahead, TimesTyped

LEMMA PollStartsKeeps == DiscoveryInv /\ PollStarts => DiscoveryInv'
<1> SUFFICES ASSUME DiscoveryInv, PollStarts PROVE DiscoveryInv'
  OBVIOUS
<1>1. /\ Polling /\ poll.page = 0
      /\ poll' = [poll EXCEPT !.page = 1, !.start = clock, !.oldest = 0]
      /\ UNCHANGED <<wsAt, lastGap, listing, emitted, channel, since>>
  BY DEF PollStarts, history
<1>2. clock \in Nat \ {0} /\ poll \in Poll
  BY <1>1, PollFacts DEF TimesTyped, PollTyped
<1>3. poll' \in Poll /\ poll'.page = 1 /\ poll'.start = clock /\ poll'.oldest = 0 /\ poll'.last = poll.last
  BY <1>1, <1>2 DEF Poll
<1>4. TimesTyped' /\ PollTyped' /\ Listing' /\ channel' \in Seq(Pools)
  BY <1>1, <1>2, <1>3, PollFacts DEF TimesTyped, PollTyped, Listing, QueuesTyped
<1>5. ASSUME NEW p \in Pools, Unhandled(p)' PROVE Ahead(p)'
  <2>1. Unhandled(p)
    BY <1>1, <1>5, PollFacts DEF Unhandled, Held
  <2>2. Ahead(p)
    BY <1>1, <2>1, PollFacts
  <2>3. \A i \in DOMAIN listing : i >= 1
    BY <1>1, PollFacts DEF PollTyped
  <2> QED
    BY <1>1, <1>3, <2>2, <2>3 DEF Ahead, Below
<1> QED
  BY <1>1, <1>4, <1>5, PollCarries

LEMMA PageFailsKeeps == DiscoveryInv /\ PageFails => DiscoveryInv'
<1> SUFFICES ASSUME DiscoveryInv, PageFails PROVE DiscoveryInv'
  OBVIOUS
<1>1. /\ Polling /\ lastGap' = clock
      /\ poll' = [poll EXCEPT !.page = 0, !.start = 0, !.oldest = 0, !.next = clock + PollEvery]
      /\ UNCHANGED <<wsAt, listing, emitted, channel, since>>
  BY DEF PageFails, history, BetweenPolls
<1>2. clock \in Nat \ {0} /\ poll \in Poll /\ PollEvery \in Nat
  BY <1>1, PollFacts, DiscoveryAssumption DEF TimesTyped, PollTyped, DiscoveryAssumption
<1>3. poll' \in Poll /\ poll'.page = 0 /\ poll'.start = 0 /\ poll'.oldest = 0 /\ poll'.last = poll.last
  <2> DEFINE next == clock + PollEvery
  <2>1. next \in Nat /\ poll' = [poll EXCEPT !.page = 0, !.start = 0, !.oldest = 0, !.next = next]
    BY <1>1, <1>2
  <2> HIDE DEF next
  <2> QED
    BY <1>2, <2>1 DEF Poll
<1>4. TimesTyped' /\ PollTyped' /\ Listing' /\ channel' \in Seq(Pools)
  BY <1>1, <1>2, <1>3, PollFacts DEF TimesTyped, PollTyped, Listing, QueuesTyped
<1>5. \A p \in Pools : ~Unhandled(p)'
  BY <1>1, <1>2, <1>4, PollFacts DEF Unhandled, TimesTyped
<1> QED
  BY <1>1, <1>4, <1>5, PollCarries

LEMMA PollEndsKeeps == DiscoveryInv /\ PollEnds => DiscoveryInv'
<1> SUFFICES ASSUME DiscoveryInv, PollEnds PROVE DiscoveryInv'
  OBVIOUS
<1>1. /\ Polling /\ poll.page > Pages /\ wsAt' = clock
      /\ lastGap' = IF GeckoGap(poll.last, poll.oldest) THEN clock ELSE lastGap
      /\ poll' = [[poll EXCEPT !.page = 0, !.start = 0, !.oldest = 0, !.next = clock + PollEvery]
                    EXCEPT !.last = poll.start]
      /\ UNCHANGED <<listing, emitted, channel, since>>
  BY DEF PollEnds, history, BetweenPolls, PolledAt
<1>2. clock \in Nat \ {0} /\ poll \in Poll /\ PollEvery \in Nat /\ Pages \in Nat \ {0} /\ poll.start \in Nat
  BY <1>1, PollFacts, DiscoveryAssumption DEF TimesTyped, PollTyped, DiscoveryAssumption, Poll
<1>3. poll' \in Poll /\ poll'.page = 0 /\ poll'.start = 0 /\ poll'.oldest = 0 /\ poll'.last = poll.start
  <2> DEFINE next == clock + PollEvery
             between == [poll EXCEPT !.page = 0, !.start = 0, !.oldest = 0, !.next = next]
  <2>1. next \in Nat /\ poll' = [between EXCEPT !.last = poll.start]
    BY <1>1, <1>2
  <2> HIDE DEF next
  <2>2. between \in Poll /\ between.page = 0 /\ between.start = 0 /\ between.oldest = 0
    BY <1>2, <2>1 DEF Poll
  <2> HIDE DEF between
  <2> QED
    BY <1>2, <2>1, <2>2 DEF Poll
<1>4. TimesTyped' /\ PollTyped' /\ Listing' /\ channel' \in Seq(Pools)
  BY <1>1, <1>2, <1>3, PollFacts DEF TimesTyped, PollTyped, Listing, QueuesTyped
<1>5. ASSUME NEW p \in Pools, Unhandled(p)' PROVE Ahead(p)'
  <2>1. since[p] \in Nat /\ since[p] <= clock /\ since'[p] = since[p]
    BY <1>1, PollFacts DEF TimesTyped
  <2>2. lastGap' # clock
    BY <1>1, <1>5, <2>1, PollFacts DEF Unhandled
  <2>3. Unhandled(p) /\ ~GeckoGap(poll.last, poll.oldest)
    BY <1>1, <1>5, <2>2, PollFacts DEF Unhandled, Held
  <2>4. Ahead(p)
    BY <1>1, <2>3, PollFacts
  <2>5. poll.page > 1 /\ poll.page > 0 /\ poll.start > 0 /\ poll.last \in Nat /\ poll.oldest \in Nat
    BY <1>1, <1>2, PollFacts DEF PollTyped, Poll
  <2>6. since[p] > poll.start
    <3>1. CASE since[p] <= poll.start
      <4>1. poll.oldest >= since[p]
        BY <2>4, <2>5, <3>1 DEF Ahead, Below
      <4> QED
        BY <2>1, <2>3, <2>4, <2>5, <4>1 DEF Ahead, GeckoGap
    <3> QED
      BY <1>2, <2>1, <3>1
  <2>7. Below(p)'
    BY <1>1, <1>3, <2>4 DEF Ahead, Below
  <2> QED
    BY <1>1, <1>3, <2>4, <2>5, <2>6, <2>7 DEF Ahead
<1>6. lastGap' \in {lastGap, clock}
  BY <1>1
<1> QED
  BY <1>1, <1>4, <1>5, <1>6, PollCarries

\* A listing with a pool put before it.
LEMMA ListingGrows ==
  ASSUME NEW S, NEW s \in Seq(S), NEW x \in S
  PROVE  /\ <<x>> \o s \in Seq(S) /\ DOMAIN (<<x>> \o s) = 1..(Len(s) + 1)
         /\ (<<x>> \o s)[1] = x /\ DOMAIN s = 1..Len(s) /\ Len(s) \in Nat
         /\ \A i \in 1..Len(s) : (<<x>> \o s)[i + 1] = s[i]
         /\ \A i \in 2..(Len(s) + 1) : (<<x>> \o s)[i] = s[i - 1] /\ i - 1 \in 1..Len(s)
<1>1. <<x>> \in Seq(S) /\ Len(<<x>>) = 1 /\ <<x>>[1] = x /\ DOMAIN s = 1..Len(s) /\ Len(s) \in Nat
  OBVIOUS
<1> DEFINE t == <<x>>
<1>2. t \in Seq(S) /\ Len(t) = 1 /\ t[1] = x
  BY <1>1
<1> HIDE DEF t
<1>3. /\ t \o s \in Seq(S) /\ Len(t \o s) = Len(t) + Len(s)
      /\ \A i \in 1..(Len(t) + Len(s)) : (t \o s)[i] = IF i <= Len(t) THEN t[i] ELSE s[i - Len(t)]
  BY <1>2, ConcatProperties
<1> DEFINE ts == t \o s
<1>4. ts \in Seq(S) /\ Len(ts) = Len(s) + 1 /\ ts[1] = x /\ DOMAIN ts = 1..(Len(s) + 1)
  BY <1>1, <1>2, <1>3
<1>5. \A i \in 2..(Len(s) + 1) : ts[i] = s[i - 1] /\ i - 1 \in 1..Len(s)
  BY <1>1, <1>2, <1>3
<1>6. ASSUME NEW i \in 1..Len(s) PROVE ts[i + 1] = s[i]
  <2>1. i + 1 \in 2..(Len(s) + 1) /\ (i + 1) - 1 = i
    BY <1>1
  <2> QED
    BY <1>5, <2>1
<1> QED
  BY <1>1, <1>4, <1>5, <1>6 DEF t

LEMMA CreatesKeeps ==
  ASSUME DiscoveryInv, NEW q \in Pools, Creates(q)
  PROVE  DiscoveryInv'
<1> DEFINE x == [pool |-> q, created |-> clock]
           from == IF poll.last = 0 \/ clock = poll.last \/ (poll.page > 0 /\ clock = poll.start)
                   THEN 0 ELSE clock
<1>1. /\ Polling /\ \A i \in DOMAIN listing : listing[i].pool # q
      /\ listing' = <<x>> \o listing
      /\ since' = [since EXCEPT ![q] = from]
      /\ UNCHANGED <<wsAt, lastGap, poll, emitted, channel>>
  BY DEF Creates
<1>2. /\ clock \in Nat \ {0} /\ listing \in Seq(Entry) /\ since \in [Pools -> Nat]
      /\ \A p \in Pools : since[p] <= clock
      /\ poll \in Poll /\ poll.last <= clock /\ poll.start <= clock
  BY <1>1, PollFacts DEF TimesTyped, PollTyped
<1>3. x \in Entry /\ x.pool = q /\ x.created = clock
  BY <1>2 DEF Entry
<1>4. from \in {0, clock}
  OBVIOUS
<1>5. from # 0 => /\ poll.last > 0 /\ clock > poll.last
                  /\ ~(poll.page > 0 /\ clock <= poll.start)
  BY <1>2 DEF Poll
<1> HIDE DEF x, from
<1>6. /\ listing' \in Seq(Entry) /\ DOMAIN listing' = 1..(Len(listing) + 1)
      /\ listing'[1] = x /\ DOMAIN listing = 1..Len(listing) /\ Len(listing) \in Nat
      /\ \A i \in 1..Len(listing) : listing'[i + 1] = listing[i]
      /\ \A i \in 2..(Len(listing) + 1) : listing'[i] = listing[i - 1] /\ i - 1 \in 1..Len(listing)
  <2>1. /\ <<x>> \o listing \in Seq(Entry) /\ DOMAIN (<<x>> \o listing) = 1..(Len(listing) + 1)
        /\ (<<x>> \o listing)[1] = x /\ DOMAIN listing = 1..Len(listing) /\ Len(listing) \in Nat
        /\ \A i \in 1..Len(listing) : (<<x>> \o listing)[i + 1] = listing[i]
        /\ \A i \in 2..(Len(listing) + 1) :
             (<<x>> \o listing)[i] = listing[i - 1] /\ i - 1 \in 1..Len(listing)
    BY <1>2, <1>3, ListingGrows, Zenon
  <2> QED
    BY <1>1, <2>1, Zenon
<1>7. TimesTyped'
  BY <1>1, <1>2, <1>4, PollFacts DEF TimesTyped
<1>8. PollTyped' /\ channel' \in Seq(Pools)
  BY <1>1, <1>6, PollFacts DEF PollTyped, QueuesTyped
<1>9. Listing'
  <2>1. \A i \in DOMAIN listing : listing[i].created <= clock
    BY <1>1, PollFacts DEF Listing
  <2>2. \A i, j \in DOMAIN listing : i < j => listing[j].created <= listing[i].created
    BY <1>1, PollFacts DEF Listing
  <2>3. \A i \in DOMAIN listing' : listing'[i].created <= clock
    <3> TAKE i \in DOMAIN listing'
    <3>1. CASE i = 1
      BY <1>2, <1>3, <1>6, <3>1
    <3>2. CASE i # 1
      <4>1. i \in 2..(Len(listing) + 1)
        BY <1>6, <3>2
      <4> QED
        BY <1>6, <2>1, <4>1
    <3> QED
      BY <3>1, <3>2
  <2>4. ASSUME NEW i \in DOMAIN listing', NEW j \in DOMAIN listing', i < j
        PROVE  listing'[j].created <= listing'[i].created
    <3>1. j \in 2..(Len(listing) + 1)
      BY <1>6, <2>4
    <3>2. CASE i = 1
      BY <1>3, <1>6, <2>1, <3>1, <3>2
    <3>3. CASE i # 1
      <4>1. i \in 2..(Len(listing) + 1) /\ i - 1 < j - 1
        BY <1>6, <2>4, <3>3
      <4> QED
        BY <1>6, <2>2, <3>1, <4>1
    <3> QED
      BY <3>2, <3>3
  <2>5. ASSUME NEW p \in Members(emitted) PROVE \E i \in DOMAIN listing' : listing'[i].pool = p
    <3>1. PICK i \in DOMAIN listing : listing[i].pool = p
      BY <1>1, <2>5, PollFacts DEF Listing
    <3>2. i + 1 \in DOMAIN listing' /\ listing'[i + 1] = listing[i]
      BY <1>6
    <3> QED
      BY <3>1, <3>2
  <2> QED
    <3>1. clock' = clock /\ Members(emitted)' = Members(emitted)
      BY <1>1, PollFacts DEF Members
    <3> HIDE <1>1, <1>6
    <3> QED
      BY <2>3, <2>4, <2>5, <3>1 DEF Listing
<1>10. ASSUME NEW p \in Pools, Unhandled(p)' PROVE Ahead(p)'
  <2>1. CASE p = q
    <3>1. since'[q] = from /\ from = clock /\ from # 0
      BY <1>2, <1>1, <1>4, <1>10, <2>1 DEF Unhandled
    <3>2. q \notin Members(emitted)
      BY <1>1, PollFacts DEF Listing
    <3>3. 1 \in DOMAIN listing' /\ listing'[1].pool = q /\ listing'[1].created = since'[q]
      BY <1>3, <1>6, <3>1
    <3>4. Below(q)'
      BY <1>1, <1>5, <3>1, <3>3 DEF Below
    <3> QED
      BY <1>1, <1>5, <2>1, <3>1, <3>2, <3>4 DEF Ahead, Members
  <2>2. CASE p # q
    <3>1. since'[p] = since[p]
      BY <1>1, <1>2, <2>2
    <3>2. Unhandled(p)
      BY <1>1, <1>10, <3>1, PollFacts DEF Unhandled, Held
    <3>3. Ahead(p)
      BY <1>1, <3>2, PollFacts
    <3>4. PICK i \in DOMAIN listing :
            /\ listing[i].pool = p /\ listing[i].created = since[p]
            /\ poll.page > 0 /\ since[p] <= poll.start =>
                 i >= poll.page /\ (poll.page > 1 => poll.oldest >= since[p])
      BY <3>3 DEF Ahead, Below
    <3>5. i + 1 \in DOMAIN listing' /\ listing'[i + 1] = listing[i]
      BY <1>6
    <3>6. poll.page \in Nat /\ (i >= poll.page => i + 1 >= poll.page)
      BY <1>2, <1>6 DEF Poll
    <3>7. Below(p)'
      BY <1>1, <3>1, <3>4, <3>5, <3>6 DEF Below
    <3> QED
      BY <1>1, <3>1, <3>3, <3>7 DEF Ahead, Members
  <2> QED
    BY <2>1, <2>2
<1> QED
  BY <1>1, <1>7, <1>8, <1>9, <1>10, PollCarries

LEMMA RememberKeeps ==
  ASSUME NEW s \in Seq(Pools), NEW p \in Pools, NEW cap
  PROVE  Remember(s, p, cap) \in Seq(Pools) /\ Members(Remember(s, p, cap)) \subseteq Members(s) \cup {p}
<1> DEFINE longer == Append(s, p)
<1>1. longer \in Seq(Pools) /\ Members(longer) = Members(s) \cup {p}
  BY MembersAppend
<1>2. longer # <<>>
  BY AppendProperties
<1> HIDE DEF longer
<1>3. Tail(longer) \in Seq(Pools) /\ Members(Tail(longer)) \subseteq Members(longer)
  BY <1>1, <1>2, MembersTail
<1>4. Remember(s, p, cap) \in {s, longer, Tail(longer)}
  BY DEF Remember, longer
<1> QED
  BY <1>1, <1>3, <1>4

\* The poll reads a page: there is one to read.
LEMMA PageFacts ==
  ASSUME DiscoveryInv, Polling, poll.page \in 1..Pages
  PROVE  /\ poll \in Poll /\ poll.page \in Nat \ {0} /\ (poll.page <= 1 => poll.oldest = 0)
         /\ since \in [Pools -> Nat] /\ listing \in Seq(Entry)
<1>1. TimesTyped /\ PollTyped
  BY PollFacts
<1>2. poll \in Poll /\ listing \in Seq(Entry) /\ (poll.page <= 1 => poll.oldest = 0)
  BY <1>1 DEF PollTyped
<1>3. since \in [Pools -> Nat]
  BY <1>1 DEF TimesTyped
<1>4. Pages \in Nat
  BY DiscoveryAssumption
<1>5. poll.page \in Nat \ {0}
  BY <1>4
<1> QED
  BY <1>2, <1>3, <1>5

\* A page past the end of the listing: what is ahead is newer than the poll.
LEMMA NoPageKeeps ==
  ASSUME DiscoveryInv, PageRead, poll.page \notin DOMAIN listing
  PROVE  DiscoveryInv'
<1>1. /\ Polling /\ poll.page \in 1..Pages
      /\ poll' = [poll EXCEPT !.page = poll.page + 1, !.oldest = poll.oldest]
      /\ UNCHANGED <<wsAt, lastGap, listing, emitted, channel>>
      /\ since' = [p \in Pools |-> since[p]]
  BY DEF PageRead
<1>2. poll \in Poll /\ poll.page \in Nat \ {0} /\ since \in [Pools -> Nat] /\ listing \in Seq(Entry)
  BY <1>1, PageFacts
<1>3. /\ poll' \in Poll /\ poll'.page = poll.page + 1 /\ poll'.oldest = poll.oldest
      /\ poll'.start = poll.start /\ poll'.last = poll.last
  <2> DEFINE after == poll.page + 1
  <2>1. after \in Nat /\ poll' = [poll EXCEPT !.page = after, !.oldest = poll.oldest]
    BY <1>1, <1>2
  <2> HIDE DEF after
  <2>2. poll' \in Poll /\ poll'.page = after /\ poll'.oldest = poll.oldest
        /\ poll'.start = poll.start /\ poll'.last = poll.last
    BY <1>2, <2>1 DEF Poll
  <2> QED
    BY <2>2 DEF after
<1>4. since' = since
  BY <1>1, <1>2
<1>5. TimesTyped' /\ PollTyped' /\ Listing' /\ channel' \in Seq(Pools)
  BY <1>1, <1>2, <1>3, <1>4, PollFacts DEF TimesTyped, PollTyped, Listing, QueuesTyped
<1>6. ASSUME NEW p \in Pools, Unhandled(p)' PROVE Ahead(p)'
  <2>1. Unhandled(p)
    BY <1>1, <1>4, <1>6, PollFacts DEF Unhandled, Held
  <2>2. Ahead(p)
    BY <1>1, <2>1, PollFacts
  <2>3. PICK i \in DOMAIN listing :
          /\ listing[i].pool = p /\ listing[i].created = since[p]
          /\ poll.page > 0 /\ since[p] <= poll.start =>
               i >= poll.page /\ (poll.page > 1 => poll.oldest >= since[p])
    BY <2>2 DEF Ahead, Below
  <2>4. ~(since[p] <= poll.start)
    BY <1>2, <2>3
  <2>5. Below(p)'
    BY <1>1, <1>3, <1>4, <2>3, <2>4 DEF Below
  <2> QED
    BY <1>1, <1>3, <1>4, <2>2, <2>5 DEF Ahead
<1> QED
  BY <1>1, <1>5, <1>6, PollCarries

\* A page with a pool: it is handled now, and what is ahead is older than it.
LEMMA PageReadKeeps ==
  ASSUME DiscoveryInv, PageRead, poll.page \in DOMAIN listing
  PROVE  DiscoveryInv'
<1> DEFINE x == listing[poll.page]
           young == clock - x.created <= MaxAge
           fresh == young /\ x.pool \notin Members(emitted)
           oldest == IF poll.oldest = 0 \/ x.created < poll.oldest THEN x.created ELSE poll.oldest
<1>1. /\ Polling /\ poll.page \in 1..Pages
      /\ poll' = [poll EXCEPT !.page = poll.page + 1, !.oldest = oldest]
      /\ IF fresh THEN emitted' = Remember(emitted, x.pool, EmittedCap) /\ Sends(x.pool)
         ELSE UNCHANGED <<lastGap, emitted, channel>>
      /\ since' = [p \in Pools |-> IF ~young /\ x.pool = p THEN 0
                                   ELSE IF since[p] = 0 /\ fresh /\ x.pool = p THEN clock ELSE since[p]]
      /\ UNCHANGED <<wsAt, listing>>
  <2> DEFINE onPage == {x}
             youngs == {y \in onPage : clock - y.created <= MaxAge}
             freshs == {y \in youngs : y.pool \notin Members(emitted)}
  <2>1. /\ Polling /\ poll.page \in 1..Pages
        /\ poll' = [poll EXCEPT !.page = poll.page + 1,
             !.oldest = IF \E y \in onPage : poll.oldest = 0 \/ y.created < poll.oldest THEN x.created ELSE poll.oldest]
        /\ IF freshs = {} THEN UNCHANGED <<lastGap, emitted, channel>>
           ELSE \A y \in freshs : emitted' = Remember(emitted, y.pool, EmittedCap) /\ Sends(y.pool)
        /\ since' = [p \in Pools |-> IF \E y \in onPage \ youngs : y.pool = p THEN 0
                                     ELSE IF since[p] = 0 /\ (\E y \in freshs : y.pool = p) THEN clock ELSE since[p]]
        /\ UNCHANGED <<wsAt, listing>>
    BY DEF PageRead
  <2> HIDE DEF x
  <2>2. (\E y \in onPage : poll.oldest = 0 \/ y.created < poll.oldest) <=> (poll.oldest = 0 \/ x.created < poll.oldest)
    OBVIOUS
  <2>3. freshs = IF fresh THEN {x} ELSE {}
    OBVIOUS
  <2>4. \A p : (\E y \in onPage \ youngs : y.pool = p) <=> (~young /\ x.pool = p)
    OBVIOUS
  <2>5. \A p : (\E y \in freshs : y.pool = p) <=> (fresh /\ x.pool = p)
    BY <2>3
  <2> HIDE DEF onPage, youngs, freshs, young, fresh
  <2>6. since' = [p \in Pools |-> IF ~young /\ x.pool = p THEN 0
                                  ELSE IF since[p] = 0 /\ fresh /\ x.pool = p THEN clock ELSE since[p]]
    BY <2>1, <2>4, <2>5
  <2>7. poll' = [poll EXCEPT !.page = poll.page + 1, !.oldest = oldest]
    BY <2>1, <2>2
  <2>8. IF fresh THEN emitted' = Remember(emitted, x.pool, EmittedCap) /\ Sends(x.pool)
        ELSE UNCHANGED <<lastGap, emitted, channel>>
    BY <2>1, <2>3
  <2> QED
    BY <2>1, <2>6, <2>7, <2>8
<1>2. /\ poll \in Poll /\ poll.page \in Nat \ {0} /\ poll.oldest \in Nat
      /\ since \in [Pools -> Nat] /\ listing \in Seq(Entry)
      /\ x \in Entry /\ x.pool \in Pools /\ x.created \in Nat /\ clock \in Nat
      /\ emitted \in Seq(Pools) /\ lastGap \in Nat /\ lastGap <= clock
      /\ \A p \in Pools : since[p] <= clock
      /\ (poll.page <= 1 => poll.oldest = 0)
  <2>1. /\ poll \in Poll /\ poll.page \in Nat \ {0} /\ since \in [Pools -> Nat] /\ listing \in Seq(Entry)
        /\ poll.page <= 1 => poll.oldest = 0
    BY <1>1, PageFacts
  <2>2. x \in Entry
    BY <2>1
  <2>3. x.pool \in Pools /\ x.created \in Nat
    BY <2>2 DEF Entry
  <2> QED
    BY <1>1, <2>1, <2>2, <2>3, PollFacts DEF TimesTyped, PollTyped, Poll
<1> HIDE DEF x
<1>3. oldest \in Nat
  BY <1>2
<1>4. /\ poll' \in Poll /\ poll'.page = poll.page + 1 /\ poll'.oldest = oldest
      /\ poll'.start = poll.start /\ poll'.last = poll.last
  <2> DEFINE after == poll.page + 1
  <2> HIDE DEF oldest
  <2>1. after \in Nat /\ poll' = [poll EXCEPT !.page = after, !.oldest = oldest]
    BY <1>1, <1>2
  <2> HIDE DEF after
  <2>2. poll' \in Poll /\ poll'.page = after /\ poll'.oldest = oldest
        /\ poll'.start = poll.start /\ poll'.last = poll.last
    BY <1>2, <1>3, <2>1 DEF Poll
  <2> QED
    BY <2>2 DEF after
<1> HIDE DEF young
<1>5. /\ since' \in [Pools -> Nat] /\ \A p \in Pools : since'[p] <= clock
      /\ \A p \in Pools : p # x.pool => since'[p] = since[p]
      /\ since'[x.pool] = IF ~young THEN 0 ELSE IF since[x.pool] = 0 /\ fresh THEN clock ELSE since[x.pool]
  BY <1>1, <1>2
<1>6. /\ channel' \in Seq(Pools) /\ Members(channel) \subseteq Members(channel')
      /\ fresh => x.pool \in Members(channel') \/ lastGap' = clock
      /\ lastGap' \in {lastGap, clock}
  <2>1. CASE fresh
    <3>1. Typed
      BY DEF DiscoveryInv
    <3> QED
      BY <1>1, <1>2, <2>1, <3>1, SendKeeps
  <2>2. CASE ~fresh
    BY <1>1, <1>2, <2>2, PollFacts DEF QueuesTyped, Members
  <2> QED
    BY <2>1, <2>2
<1>7. emitted' \in Seq(Pools) /\ Members(emitted') \subseteq Members(emitted) \cup {x.pool}
  BY <1>1, <1>2, RememberKeeps
<1>8. TimesTyped'
  BY <1>1, <1>2, <1>5, <1>6, PollFacts DEF TimesTyped
<1>9. PollTyped'
  <2> HIDE DEF oldest
  <2> QED
    BY <1>1, <1>2, <1>3, <1>4, <1>7, PollFacts DEF PollTyped
<1>10. Listing'
  <2>1. \E i \in DOMAIN listing : listing[i].pool = x.pool
    BY DEF x
  <2>2. \A p \in Members(emitted') : \E i \in DOMAIN listing : listing[i].pool = p
    BY <1>1, <1>7, <2>1, PollFacts DEF Listing
  <2>3. clock' = clock /\ listing' = listing
    BY <1>1, PollFacts
  <2> HIDE <1>1, <1>4, <1>5, <1>6, <1>7
  <2> QED
    BY <1>1, <2>2, <2>3, PollFacts DEF Listing, Members
<1>11. ASSUME NEW p \in Pools, Unhandled(p)' PROVE Ahead(p)'
  <2>1. since'[p] \in Nat /\ since'[p] > 0 /\ since'[p] <= clock /\ lastGap' # clock /\ lastGap' = lastGap
    BY <1>2, <1>5, <1>6, <1>11 DEF Unhandled
  <2>2. p \notin Members(channel') /\ p \notin Members(channel) /\ ~Queued(p)
    BY <1>1, <1>6, <1>11, PollFacts DEF Unhandled, Held, Members
  <2>3. Unhandled(p) /\ since'[p] = since[p] /\ p # x.pool
    <3>1. CASE p = x.pool
      <4>1. young /\ ~fresh /\ since'[p] = since[p]
        BY <1>2, <1>5, <1>6, <2>1, <2>2, <3>1
      <4>2. Unhandled(p)
        BY <1>11, <2>1, <2>2, <4>1 DEF Unhandled, Held
      <4>3. p \notin Members(emitted)
        BY <1>1, <4>2, PollFacts DEF Ahead
      <4> QED
        BY <3>1, <4>1, <4>3
    <3>2. CASE p # x.pool
      BY <1>5, <1>11, <2>1, <2>2, <3>2 DEF Unhandled, Held
    <3> QED
      BY <3>1, <3>2
  <2>4. Ahead(p)
    BY <1>1, <2>3, PollFacts
  <2>5. PICK i \in DOMAIN listing :
          /\ listing[i].pool = p /\ listing[i].created = since[p]
          /\ poll.page > 0 /\ since[p] <= poll.start =>
               i >= poll.page /\ (poll.page > 1 => poll.oldest >= since[p])
    BY <2>4 DEF Ahead, Below
  <2>6. ASSUME since[p] <= poll.start PROVE i >= poll.page + 1 /\ oldest >= since[p]
    <3>1. i >= poll.page /\ (poll.page > 1 => poll.oldest >= since[p]) /\ i # poll.page /\ i \in Nat
      BY <1>2, <2>3, <2>5, <2>6 DEF x
    <3>2. since[p] <= x.created
      <4>1. \A j \in DOMAIN listing : poll.page < j => listing[j].created <= x.created
        BY <1>1, PollFacts DEF Listing, x
      <4>2. poll.page < i
        BY <1>2, <3>1
      <4> QED
        BY <2>5, <4>1, <4>2
    <3> QED
      BY <1>2, <3>1, <3>2
  <2> HIDE DEF oldest
  <2>7. Below(p)'
    BY <1>1, <1>4, <2>3, <2>5, <2>6 DEF Below
  <2>8. p \notin Members(emitted')
    BY <1>7, <2>3, <2>4 DEF Ahead
  <2> QED
    BY <1>4, <2>3, <2>4, <2>7, <2>8 DEF Ahead, Members
<1> QED
  BY <1>1, <1>6, <1>8, <1>9, <1>10, <1>11, PollCarries

LEMMA NextDiscovery == DiscoveryInv /\ [Next]_vars => DiscoveryInv'
  BY TickCarries, LogsStep, TakeSignatureKeeps, TakePoolKeeps, DrainedKeeps, NotDueKeeps,
     PoolVerifiedKeeps, PoolUnreadableKeeps, ResolvedKeeps, PollStartsKeeps, PageFailsKeeps,
     PollEndsKeeps, CreatesKeeps, NoPageKeeps, PageReadKeeps DEF Next

THEOREM DiscoveryInvariant == Spec => []DiscoveryInv
  BY InitDiscovery, NextDiscovery, PTL DEF Spec

\* While /ready answers 200, what a bound, a gap or an outage lost was lost at
\* least a gap window ago, but in a silence nobody has noticed: for any
\* capacities, pages, intervals and windows, and any order of the steps of the
\* source and the supervisor.
THEOREM ReadyCovers == Spec => []ReadyMeansCovered
<1>1. ASSUME DiscoveryInv PROVE ReadyMeansCovered
  <2> SUFFICES ASSUME Ready, NEW p \in Pools, Lost(p), ~Unnoticed(p) PROVE clock - since[p] >= GapWindow
    BY DEF ReadyMeansCovered
  <2>1. Typed /\ TimesTyped
    BY <1>1 DEF DiscoveryInv, Typed
  <2>2. ~Unhandled(p)
    BY <1>1, <2>1 DEF DiscoveryInv, Excused, Unnoticed, Typed
  <2>3. lastGap >= since[p] /\ since[p] > 0
    BY <2>1, <2>2 DEF Unhandled, Held, Lost, TimesTyped
  <2> QED
    BY <2>1, <2>3, DiscoveryAssumption DEF Ready, TimesTyped, DiscoveryAssumption
<1> QED
  BY <1>1, DiscoveryInvariant, PTL

-----------------------------------------------------------------------------
(* How often, and when, a queued announcement was read in vain *)

\* A queued signature has been read in vain as often as its entry counts, and
\* the queue holds no signature twice and none that is not known.
SignatureReads ==
  /\ pending.order \in Seq(Pools) /\ tried \in [Pools -> Nat]
  /\ \A i, j \in DOMAIN pending.order : pending.order[i] = pending.order[j] => i = j
  /\ \A i \in DOMAIN pending.order : pending.attempts[pending.order[i]] # -1
  /\ \A p \in Pools : pending.attempts[p] # -1 => tried[p] = pending.attempts[p] /\ tried[p] < MaxAttempts
  /\ pc = "pending" => left \in 1..Len(pending.order)

\* Each read but the first waited for its delay, and so will the next one.
Patient(h, ts) ==
  /\ h.failures = Len(ts) /\ Len(ts) <= Len(RetryDelays)
  /\ \A j \in 1..(Len(ts) - 1) : ts[j + 1] - ts[j] >= RetryDelays[j]
  /\ Len(ts) > 0 => h.next - ts[Len(ts)] >= RetryDelays[Len(ts)]

AllPatient(s, t) ==
  /\ s \in Seq(ListedPool) /\ t \in Seq(Seq(Nat)) /\ Len(t) = Len(s)
  /\ \A i \in 1..Len(s) : Patient(s[i], t[i])

ReadsInv == DiscoveryInv /\ SignatureReads /\ AllPatient(listed, times)

LEMMA PatientTail ==
  ASSUME NEW s, NEW t, AllPatient(s, t), s # <<>>
  PROVE  /\ AllPatient(Tail(s), Tail(t)) /\ Patient(Head(s), Head(t))
         /\ Head(t) \in Seq(Nat) /\ Head(s) \in ListedPool
<1>1. s \in Seq(ListedPool) /\ t \in Seq(Seq(Nat)) /\ Len(t) = Len(s) /\ t # <<>>
  BY DEF AllPatient
<1>2. /\ Tail(s) \in Seq(ListedPool) /\ Len(Tail(s)) = Len(s) - 1 /\ Head(s) = s[1] /\ Head(s) \in ListedPool
      /\ \A i \in 1..(Len(s) - 1) : Tail(s)[i] = s[i + 1]
      /\ Len(s) \in Nat \ {0}
  BY <1>1
<1>3. /\ Tail(t) \in Seq(Seq(Nat)) /\ Len(Tail(t)) = Len(s) - 1 /\ Head(t) = t[1] /\ Head(t) \in Seq(Nat)
      /\ \A i \in 1..(Len(s) - 1) : Tail(t)[i] = t[i + 1]
  BY <1>1
<1>4. \A i \in 1..(Len(s) - 1) : Patient(Tail(s)[i], Tail(t)[i])
  <2> TAKE i \in 1..(Len(s) - 1)
  <2>1. i + 1 \in 1..Len(s)
    BY <1>2
  <2>2. Patient(s[i + 1], t[i + 1])
    BY <2>1 DEF AllPatient
  <2> QED
    BY <1>2, <1>3, <2>2
<1>5. Patient(s[1], t[1])
  BY <1>2 DEF AllPatient
<1> QED
  BY <1>2, <1>3, <1>4, <1>5 DEF AllPatient

LEMMA PatientAppend ==
  ASSUME NEW s, NEW t, AllPatient(s, t), NEW h \in ListedPool, NEW ts \in Seq(Nat), Patient(h, ts)
  PROVE  AllPatient(Append(s, h), Append(t, ts))
<1> DEFINE s2 == Append(s, h)
           t2 == Append(t, ts)
<1>1. s \in Seq(ListedPool) /\ t \in Seq(Seq(Nat)) /\ Len(t) = Len(s) /\ Len(s) \in Nat
  BY DEF AllPatient
<1>2. /\ s2 \in Seq(ListedPool) /\ Len(s2) = Len(s) + 1 /\ s2[Len(s) + 1] = h
      /\ \A i \in 1..Len(s) : s2[i] = s[i]
  BY <1>1
<1>3. /\ t2 \in Seq(Seq(Nat)) /\ Len(t2) = Len(s) + 1 /\ t2[Len(s) + 1] = ts
      /\ \A i \in 1..Len(s) : t2[i] = t[i]
  BY <1>1
<1> HIDE DEF s2, t2
<1>4. \A i \in 1..(Len(s) + 1) : Patient(s2[i], t2[i])
  <2> TAKE i \in 1..(Len(s) + 1)
  <2>1. CASE i = Len(s) + 1
    BY <1>2, <1>3, <2>1
  <2>2. CASE i \in 1..Len(s)
    <3>1. Patient(s[i], t[i])
      BY <2>2 DEF AllPatient
    <3> QED
      BY <1>2, <1>3, <2>2, <3>1
  <2> QED
    BY <1>1, <2>1, <2>2
<1>5. AllPatient(s2, t2)
  BY <1>2, <1>3, <1>4 DEF AllPatient
<1> QED
  BY <1>5 DEF s2, t2

\* A read that fails after its delay.
LEMMA PatientRead ==
  ASSUME NEW h \in ListedPool, NEW ts \in Seq(Nat), Patient(h, ts), clock \in Nat, h.next <= clock
  PROVE  /\ Append(ts, clock) \in Seq(Nat) /\ Len(Append(ts, clock)) = h.failures + 1
         /\ h.failures <= Len(RetryDelays) /\ h.failures \in Nat
         /\ \A j \in 1..Len(ts) : Append(ts, clock)[j + 1] - Append(ts, clock)[j] >= RetryDelays[j]
         /\ Append(ts, clock)[h.failures + 1] = clock
<1> DEFINE n == Len(ts)
           a == Append(ts, clock)
<1>1. /\ a \in Seq(Nat) /\ Len(a) = n + 1 /\ a[n + 1] = clock /\ n \in Nat
      /\ \A i \in 1..n : a[i] = ts[i] /\ ts[i] \in Nat
  OBVIOUS
<1>2. h.failures = n /\ n <= Len(RetryDelays) /\ h.next \in Int
  BY DEF Patient, ListedPool
<1>3. RetryDelays \in Seq(Nat \ {0})
  BY QueueAssumption DEF QueueAssumption
<1> HIDE DEF a
<1>4. \A j \in 1..n : a[j + 1] - a[j] >= RetryDelays[j]
  <2> TAKE j \in 1..n
  <2>1. CASE j < n
    <3>1. j \in 1..(n - 1) /\ j + 1 \in 1..n
      BY <1>1, <2>1
    <3>2. ts[j + 1] - ts[j] >= RetryDelays[j]
      BY <3>1 DEF Patient
    <3> QED
      BY <1>1, <3>1, <3>2
  <2>2. CASE j = n
    <3>1. h.next - ts[n] >= RetryDelays[n] /\ n > 0
      BY <1>1, <2>2 DEF Patient
    <3>2. RetryDelays[n] \in Nat /\ ts[n] \in Nat
      BY <1>1, <1>2, <1>3, <3>1
    <3> HIDE DEF n
    <3> QED
      BY <1>1, <1>2, <2>2, <3>1, <3>2
  <2> QED
    BY <1>1, <2>1, <2>2
<1> QED
  BY <1>1, <1>2, <1>4 DEF a

\* Steps of the source, and of time.
LEMMA ReadsUntouched ==
  ASSUME ReadsInv, DiscoveryInv', UNCHANGED <<pending, listed, pc, left, tried, times>>
  PROVE  ReadsInv' /\ GivesUpStep
<1>1. SignatureReads' /\ AllPatient(listed, times)'
  BY DEF ReadsInv, SignatureReads
<1>2. Len(listed) \in Nat
  BY DEF ReadsInv, AllPatient
<1> QED
  BY <1>1, <1>2 DEF ReadsInv, GivesUpStep, Queued

\* Steps that leave the signatures alone.
LEMMA ListedStep ==
  ASSUME ReadsInv, DiscoveryInv', UNCHANGED <<pending, tried>>, pc # "pending", pc' # "pending",
         AllPatient(listed', times'),
         pc = "listed" /\ Len(listed') < Len(listed) /\ since'[Head(listed).pool] # 0 => ListedExhausted
  PROVE  ReadsInv' /\ GivesUpStep
<1>1. SignatureReads'
  BY DEF ReadsInv, SignatureReads
<1> QED
  BY <1>1 DEF ReadsInv, GivesUpStep, AllPatient, Patient

LEMMA TakePoolPatient == ReadsInv /\ TakePool => ReadsInv' /\ GivesUpStep
<1> SUFFICES ASSUME ReadsInv, TakePool PROVE ReadsInv' /\ GivesUpStep
  OBVIOUS
<1> DEFINE full == Len(listed) >= ListedCap
           s == IF full THEN Tail(listed) ELSE listed
           t == IF full THEN Tail(times) ELSE times
           x == Listed(Head(channel), 0, 0)
<1>1. DiscoveryInv' /\ QueuesTyped /\ AllPatient(listed, times)
  BY TakePoolKeeps DEF ReadsInv, DiscoveryInv, Typed
<1>2. /\ UNCHANGED <<pending, tried>> /\ pc = "drain" /\ pc' = "drain" /\ channel # <<>>
      /\ listed' = Append(s, x) /\ times' = Append(t, <<>>)
  BY DEF TakePool, place, AppendListed
<1>3. AllPatient(s, t)
  <2>1. ListedCap \in Nat \ {0} /\ listed \in Seq(ListedPool)
    BY <1>1, QueueAssumption DEF QueueAssumption, AllPatient
  <2>2. full => listed # <<>>
    BY <2>1
  <2> QED
    BY <1>1, <2>2, PatientTail
<1>4. x \in ListedPool /\ x.failures = 0
  <2>1. Head(channel) \in Pools
    BY <1>1, <1>2, MembersTail DEF QueuesTyped
  <2> QED
    BY <2>1 DEF ListedPool, Listed
<1> HIDE DEF full, s, t, x
<1>5. <<>> \in Seq(Nat) /\ Patient(x, <<>>)
  BY <1>4, QueueAssumption DEF Patient, QueueAssumption
<1>6. AllPatient(listed', times')
  BY <1>2, <1>3, <1>4, <1>5, PatientAppend
<1> QED
  BY <1>1, <1>2, <1>6, ListedStep

LEMMA NotDuePatient == ReadsInv /\ NotDue => ReadsInv' /\ GivesUpStep
<1> SUFFICES ASSUME ReadsInv, NotDue PROVE ReadsInv' /\ GivesUpStep
  OBVIOUS
<1>1. DiscoveryInv' /\ QueuesTyped /\ AllPatient(listed, times) /\ Scanning
  BY NotDueKeeps DEF ReadsInv, DiscoveryInv, Typed, NotDue
<1>2. /\ UNCHANGED <<pending, tried>> /\ pc = "listed" /\ pc' # "pending" /\ listed # <<>>
      /\ listed' = Append(Tail(listed), Head(listed)) /\ times' = Append(Tail(times), Head(times))
  BY <1>1, ScanHead DEF NotDue, Scanning, Advance
<1>3. AllPatient(listed', times')
  BY <1>1, <1>2, PatientTail, PatientAppend
<1>4. Len(listed') = Len(listed) /\ Len(listed) \in Nat
  BY <1>1, <1>2 DEF AllPatient
<1> QED
  BY <1>1, <1>2, <1>3, <1>4, ListedStep

LEMMA PoolVerifiedPatient == ReadsInv /\ PoolVerified => ReadsInv' /\ GivesUpStep
<1> SUFFICES ASSUME ReadsInv, PoolVerified PROVE ReadsInv' /\ GivesUpStep
  OBVIOUS
<1>1. DiscoveryInv' /\ TimesTyped /\ QueuesTyped /\ AllPatient(listed, times) /\ Scanning
  BY PoolVerifiedKeeps DEF ReadsInv, DiscoveryInv, Typed, PoolVerified
<1>2. /\ UNCHANGED <<pending, tried>> /\ pc = "listed" /\ pc' # "pending" /\ listed # <<>>
      /\ listed' = Tail(listed) /\ times' = Tail(times) /\ Settles(Head(listed).pool)
  BY <1>1, ScanHead DEF PoolVerified, Scanning, Advance
<1>3. AllPatient(listed', times')
  BY <1>1, <1>2, PatientTail
<1>4. since'[Head(listed).pool] = 0
  <2>1. Head(listed).pool \in Pools
    BY <1>1, ScanHead DEF ListedPool
  <2> QED
    BY <1>1, <1>2, <2>1, SettleTyped
<1> QED
  BY <1>1, <1>2, <1>3, <1>4, ListedStep

LEMMA PoolUnreadablePatient == ReadsInv /\ PoolUnreadable => ReadsInv' /\ GivesUpStep
<1> SUFFICES ASSUME ReadsInv, PoolUnreadable PROVE ReadsInv' /\ GivesUpStep
  OBVIOUS
<1> DEFINE h == Head(listed)
           ts == Head(times)
           failures == h.failures + 1
           x == Listed(h.pool, failures, clock + DelayAfter(failures))
           read == Append(ts, clock)
<1>1. DiscoveryInv' /\ TimesTyped /\ QueuesTyped /\ AllPatient(listed, times) /\ Scanning
  BY PoolUnreadableKeeps DEF ReadsInv, DiscoveryInv, Typed, PoolUnreadable
<1>2. /\ UNCHANGED <<pending, tried>> /\ pc = "listed" /\ pc' # "pending" /\ listed # <<>>
      /\ h.next <= clock /\ h \in ListedPool
      /\ IF ReadAgain(failures)
         THEN listed' = Append(Tail(listed), x) /\ times' = Append(Tail(times), read)
         ELSE listed' = Tail(listed) /\ times' = Tail(times)
  BY <1>1, ScanHead DEF PoolUnreadable, Scanning, Advance
<1>3. AllPatient(Tail(listed), Tail(times)) /\ Patient(h, ts) /\ ts \in Seq(Nat) /\ clock \in Nat
  BY <1>1, <1>2, PatientTail DEF TimesTyped
<1>4. /\ read \in Seq(Nat) /\ Len(read) = failures /\ Len(ts) = h.failures
      /\ h.failures <= Len(RetryDelays) /\ h.failures \in Nat
      /\ \A j \in 1..Len(ts) : read[j + 1] - read[j] >= RetryDelays[j]
      /\ read[failures] = clock
  BY <1>2, <1>3, PatientRead DEF Patient
<1>5. RetryDelays \in Seq(Nat \ {0}) /\ DOMAIN RetryDelays = 1..Len(RetryDelays) /\ Len(RetryDelays) \in Nat
  BY QueueAssumption DEF QueueAssumption
<1> HIDE DEF h, ts
<1>6. CASE ReadAgain(failures)
  <2>1. failures \in 1..Len(RetryDelays) /\ DelayAfter(failures) = RetryDelays[failures]
        /\ RetryDelays[failures] \in Nat
    BY <1>5, <1>6 DEF ReadAgain, DelayAfter
  <2>2. x \in ListedPool /\ x.failures = failures /\ x.next = clock + RetryDelays[failures]
    BY <1>2, <1>3, <1>4, <2>1 DEF Listed, ListedPool
  <2> HIDE DEF x, read
  <2>3. Patient(x, read)
    BY <1>3, <1>4, <2>1, <2>2 DEF Patient
  <2>4. AllPatient(listed', times')
    BY <1>2, <1>3, <1>4, <1>6, <2>2, <2>3, PatientAppend
  <2>5. Len(listed') = Len(listed) /\ Len(listed) \in Nat
    BY <1>1, <1>2, <1>6 DEF AllPatient
  <2> QED
    BY <1>1, <1>2, <2>4, <2>5, ListedStep
<1>7. CASE ~ReadAgain(failures)
  <2>1. failures = Len(RetryDelays) + 1
    BY <1>4, <1>5, <1>7 DEF ReadAgain
  <2>2. ListedExhausted
    <3>1. read = Append(Head(times), clock)
      BY DEF ts
    <3>2. Len(ts) = Len(RetryDelays)
      BY <1>4, <1>5, <2>1
    <3> HIDE DEF read
    <3>3. Len(read) = Len(RetryDelays) + 1 /\ \A i \in DOMAIN RetryDelays : read[i + 1] - read[i] >= RetryDelays[i]
      BY <1>4, <1>5, <2>1, <3>2
    <3> QED
      BY <3>1, <3>3 DEF ListedExhausted
  <2>3. AllPatient(listed', times')
    BY <1>2, <1>3, <1>7
  <2> QED
    BY <1>1, <1>2, <2>2, <2>3, ListedStep
<1> QED
  BY <1>6, <1>7

LEMMA DrainedPatient == ReadsInv /\ Drained => ReadsInv' /\ GivesUpStep
<1> SUFFICES ASSUME ReadsInv, Drained PROVE ReadsInv' /\ GivesUpStep
  OBVIOUS
<1>1. DiscoveryInv' /\ AllPatient(listed, times) /\ SignatureReads
  BY DrainedKeeps DEF ReadsInv
<1>2. UNCHANGED <<pending, listed, tried, times>> /\ pc = "drain"
  BY DEF Drained, queues, history
<1>3. pc' = "pending" => left' \in 1..Len(pending.order)
  <2>1. pending.order \in Seq(Pools) /\ Reads \in Nat \ {0}
    BY <1>1, DiscoveryAssumption DEF SignatureReads, DiscoveryAssumption
  <2>2. SUFFICES ASSUME pc' = "pending" PROVE left' \in 1..Len(pending.order)
    OBVIOUS
  <2>3. pending.order # <<>> /\ left' = IF Len(pending.order) < Reads THEN Len(pending.order) ELSE Reads
    BY <2>2 DEF Drained
  <2> QED
    BY <2>1, <2>3
<1>4. SignatureReads'
  BY <1>1, <1>2, <1>3 DEF SignatureReads
<1> QED
  BY <1>1, <1>2, <1>4 DEF ReadsInv, GivesUpStep, Queued

\* A queue of signatures without its head, or with a new one at its end.
LEMMA DistinctTail ==
  ASSUME NEW s \in Seq(Pools), s # <<>>, \A i, j \in DOMAIN s : s[i] = s[j] => i = j
  PROVE  /\ Tail(s) \in Seq(Pools) /\ Len(Tail(s)) = Len(s) - 1 /\ Head(s) \in Pools
         /\ \A i, j \in DOMAIN Tail(s) : Tail(s)[i] = Tail(s)[j] => i = j
         /\ \A i \in DOMAIN Tail(s) : Tail(s)[i] # Head(s) /\ \E j \in DOMAIN s : Tail(s)[i] = s[j]
         /\ \E j \in DOMAIN s : Head(s) = s[j]
<1>1. /\ Tail(s) \in Seq(Pools) /\ Len(Tail(s)) = Len(s) - 1 /\ Head(s) = s[1] /\ Head(s) \in Pools
      /\ \A i \in 1..(Len(s) - 1) : Tail(s)[i] = s[i + 1]
      /\ DOMAIN s = 1..Len(s) /\ DOMAIN Tail(s) = 1..(Len(s) - 1) /\ Len(s) \in Nat \ {0}
  OBVIOUS
<1>2. \A i \in 1..(Len(s) - 1) : i + 1 \in 1..Len(s) /\ i + 1 # 1 /\ i \in Nat
  BY <1>1
<1>3. \A i, j \in DOMAIN Tail(s) : Tail(s)[i] = Tail(s)[j] => i = j
  <2> TAKE i, j \in DOMAIN Tail(s)
  <2>1. i + 1 = j + 1 => i = j
    BY <1>1, <1>2
  <2> QED
    BY <1>1, <1>2, <2>1
<1>4. \A i \in DOMAIN Tail(s) : Tail(s)[i] # Head(s) /\ \E j \in DOMAIN s : Tail(s)[i] = s[j]
  BY <1>1, <1>2
<1> QED
  BY <1>1, <1>3, <1>4

LEMMA DistinctAppend ==
  ASSUME NEW s \in Seq(Pools), NEW p \in Pools,
         \A i, j \in DOMAIN s : s[i] = s[j] => i = j, \A i \in DOMAIN s : s[i] # p
  PROVE  /\ Append(s, p) \in Seq(Pools) /\ Len(Append(s, p)) = Len(s) + 1
         /\ \A i, j \in DOMAIN Append(s, p) : Append(s, p)[i] = Append(s, p)[j] => i = j
         /\ \A i \in DOMAIN Append(s, p) : Append(s, p)[i] = p \/ \E j \in DOMAIN s : Append(s, p)[i] = s[j]
<1> DEFINE t == Append(s, p)
<1>1. /\ t \in Seq(Pools) /\ Len(t) = Len(s) + 1 /\ t[Len(s) + 1] = p /\ DOMAIN s = 1..Len(s) /\ Len(s) \in Nat
      /\ \A i \in 1..Len(s) : t[i] = s[i]
      /\ DOMAIN t = 1..(Len(s) + 1)
  OBVIOUS
<1> HIDE DEF t
<1>2. \A i \in DOMAIN t : i = Len(s) + 1 \/ i \in DOMAIN s
  BY <1>1
<1>3. \A i, j \in DOMAIN t : t[i] = t[j] => i = j
  BY <1>1, <1>2
<1>4. \A i \in DOMAIN t : t[i] = p \/ \E j \in DOMAIN s : t[i] = s[j]
  BY <1>1, <1>2
<1> QED
  BY <1>1, <1>3, <1>4 DEF t

\* Steps that leave the listed pools alone.
LEMMA SignatureStep ==
  ASSUME ReadsInv, DiscoveryInv', UNCHANGED <<listed, times>>, SignatureReads',
         \A p \in Pools : pc = "pending" /\ Queued(p) /\ ~Queued(p)' /\ since'[p] # 0 => SignatureExhausted(p)
  PROVE  ReadsInv' /\ GivesUpStep
<1>1. Len(listed) \in Nat
  BY DEF ReadsInv, AllPatient
<1> QED
  BY <1>1 DEF ReadsInv, GivesUpStep, AllPatient, Patient

LEMMA TakeSignatureReads == ReadsInv /\ TakeSignature => ReadsInv' /\ GivesUpStep
<1> SUFFICES ASSUME ReadsInv, TakeSignature PROVE ReadsInv' /\ GivesUpStep
  OBVIOUS
<1> DEFINE h == Head(channel)
           order == pending.order
           a == pending.attempts
<1>1. DiscoveryInv' /\ QueuesTyped /\ SignatureReads
  BY TakeSignatureKeeps DEF ReadsInv, DiscoveryInv, Typed
<1>2. /\ UNCHANGED <<listed, times>> /\ pc = "drain" /\ pc' = "drain" /\ channel # <<>>
      /\ pending' = Push(pending, h)
      /\ tried' = [tried EXCEPT ![h] = IF a[h] = -1 THEN 0 ELSE tried[h]]
  BY DEF TakeSignature, place
<1>3. h \in Pools
  BY <1>1, <1>2, MembersTail DEF QueuesTyped
<1> HIDE DEF h
<1>4. /\ order \in Seq(Pools) /\ tried \in [Pools -> Nat] /\ a \in [Pools -> Int]
      /\ \A i, j \in DOMAIN order : order[i] = order[j] => i = j
      /\ \A i \in DOMAIN order : a[order[i]] # -1
      /\ \A p \in Pools : a[p] # -1 => tried[p] = a[p] /\ tried[p] < MaxAttempts
      /\ MaxAttempts \in Nat \ {0} /\ PendingCap \in Nat \ {0}
  BY <1>1, QueueAssumption DEF SignatureReads, QueuesTyped, QueueAssumption
<1>5. CASE a[h] # -1
  <2>1. pending' = pending /\ tried' = tried
    BY <1>2, <1>4, <1>5 DEF Push
  <2>2. SignatureReads'
    BY <1>1, <1>2, <2>1 DEF SignatureReads
  <2> QED
    BY <1>1, <1>2, <2>2, SignatureStep
<1>6. ASSUME a[h] = -1, NEW s \in Seq(Pools), NEW b \in [Pools -> Int],
             pending'.order = Append(s, h), pending'.attempts = [b EXCEPT ![h] = 0],
             \A i, j \in DOMAIN s : s[i] = s[j] => i = j,
             \A i \in DOMAIN s : s[i] # h /\ b[s[i]] # -1,
             \A p \in Pools : b[p] \in {a[p], -1}
      PROVE  ReadsInv' /\ GivesUpStep
  <2> DEFINE o == Append(s, h)
             c == [b EXCEPT ![h] = 0]
  <2>1. /\ o \in Seq(Pools) /\ \A i, j \in DOMAIN o : o[i] = o[j] => i = j
        /\ \A i \in DOMAIN o : o[i] = h \/ \E j \in DOMAIN s : o[i] = s[j]
    BY <1>3, <1>6, DistinctAppend
  <2>2. c[h] = 0 /\ \A p \in Pools : p # h => c[p] = b[p]
    BY <1>3
  <2>3. tried' \in [Pools -> Nat] /\ tried'[h] = 0 /\ \A p \in Pools : p # h => tried'[p] = tried[p]
    BY <1>2, <1>3, <1>4, <1>6
  <2>4. pending'.order = o /\ pending'.attempts = c
    BY <1>6
  <2> HIDE DEF o, c, a, order
  <2>5. \A i \in DOMAIN o : c[o[i]] # -1
    <3> TAKE i \in DOMAIN o
    <3>1. CASE o[i] = h
      BY <2>2, <3>1
    <3>2. ASSUME NEW j \in DOMAIN s, o[i] = s[j] PROVE c[o[i]] # -1
      <4>1. s[j] \in Pools /\ s[j] # h /\ b[s[j]] # -1
        BY <1>6
      <4> QED
        BY <2>2, <3>2, <4>1
    <3> QED
      BY <2>1, <3>1, <3>2
  <2>6. \A p \in Pools : c[p] # -1 => tried'[p] = c[p] /\ tried'[p] < MaxAttempts
    <3> TAKE p \in Pools
    <3>1. CASE p = h
      BY <1>4, <2>2, <2>3, <3>1
    <3>2. CASE p # h
      BY <1>4, <1>6, <2>2, <2>3, <3>2
    <3> QED
      BY <3>1, <3>2
  <2>7. SignatureReads'
    BY <1>2, <2>1, <2>3, <2>4, <2>5, <2>6 DEF SignatureReads
  <2> QED
    BY <1>1, <1>2, <2>7, SignatureStep
<1>7. CASE a[h] = -1 /\ ~PushEvicts(pending, h)
  <2>1. pending'.order = Append(order, h) /\ pending'.attempts = [a EXCEPT ![h] = 0]
    BY <1>2, <1>7 DEF Push
  <2>2. \A i \in DOMAIN order : order[i] # h
    BY <1>4, <1>7
  <2> HIDE DEF a, order
  <2> QED
    BY <1>4, <1>6, <1>7, <2>1, <2>2
<1>8. CASE PushEvicts(pending, h)
  <2> DEFINE g == Head(order)
             b == [a EXCEPT ![g] = -1]
  <2>1. a[h] = -1 /\ order # <<>>
    BY <1>4, <1>8 DEF PushEvicts
  <2>2. pending'.order = Append(Tail(order), h) /\ pending'.attempts = [b EXCEPT ![h] = 0]
    BY <1>2, <1>8, <2>1 DEF Push
  <2>3. /\ Tail(order) \in Seq(Pools) /\ g \in Pools
        /\ \A i, j \in DOMAIN Tail(order) : Tail(order)[i] = Tail(order)[j] => i = j
        /\ \A i \in DOMAIN Tail(order) : Tail(order)[i] # g /\ \E j \in DOMAIN order : Tail(order)[i] = order[j]
    BY <1>4, <2>1, DistinctTail
  <2> HIDE DEF a, order, g
  <2>4. b \in [Pools -> Int] /\ b[g] = -1 /\ \A p \in Pools : p # g => b[p] = a[p]
    BY <1>4, <2>3
  <2> HIDE DEF b
  <2>5. \A i \in DOMAIN Tail(order) : Tail(order)[i] # h /\ b[Tail(order)[i]] # -1
    <3> TAKE i \in DOMAIN Tail(order)
    <3>1. PICK j \in DOMAIN order : Tail(order)[i] = order[j]
      BY <2>3
    <3>2. a[order[j]] # -1 /\ order[j] \in Pools
      BY <1>4
    <3> QED
      BY <2>1, <2>3, <2>4, <3>1, <3>2
  <2>6. \A p \in Pools : b[p] \in {a[p], -1}
    BY <2>4
  <2> QED
    BY <1>6, <2>1, <2>2, <2>3, <2>4, <2>5, <2>6
<1> QED
  BY <1>5, <1>7, <1>8 DEF PushEvicts

\* The head of the queued signatures, in a round of reads.
LEMMA RoundHead ==
  ASSUME ReadsInv, Resolving
  PROVE  /\ pending.order \in Seq(Pools) /\ pending.order # <<>> /\ Head(pending.order) \in Pools
         /\ pc = "pending" /\ left \in 1..Len(pending.order)
         /\ pending.attempts \in [Pools -> Int] /\ tried \in [Pools -> Nat]
         /\ \A i, j \in DOMAIN pending.order : pending.order[i] = pending.order[j] => i = j
         /\ \A i \in DOMAIN pending.order : pending.attempts[pending.order[i]] # -1
         /\ pending.attempts[Head(pending.order)] # -1
         /\ \A p \in Pools : pending.attempts[p] # -1 => tried[p] = pending.attempts[p] /\ tried[p] < MaxAttempts
         /\ MaxAttempts \in Nat /\ UNCHANGED <<listed, times>>
<1>1. pc = "pending" /\ UNCHANGED <<listed, times>>
  BY DEF Resolving
<1>2. SignatureReads /\ QueuesTyped
  BY DEF ReadsInv, DiscoveryInv, Typed
<1>3. pending.order \in Seq(Pools) /\ left \in 1..Len(pending.order)
  BY <1>1, <1>2 DEF SignatureReads
<1>4. pending.order # <<>> /\ Head(pending.order) = pending.order[1] /\ 1 \in DOMAIN pending.order
      /\ Head(pending.order) \in Pools
  BY <1>3
<1> QED
  BY <1>1, <1>2, <1>3, <1>4, QueueAssumption DEF SignatureReads, QueuesTyped, QueueAssumption

\* The head leaves the queue.
LEMMA HeadLeaves ==
  ASSUME ReadsInv, Resolving, NEW h, h = Head(pending.order), NEW v \in Nat, left' = left - 1, pc' = "pending" => left' > 0,
         pending' = [order |-> Tail(pending.order), attempts |-> [pending.attempts EXCEPT ![h] = -1]],
         tried' = [tried EXCEPT ![h] = v]
  PROVE  SignatureReads'
<1> DEFINE order == pending.order
           a == pending.attempts
           c == [a EXCEPT ![h] = -1]
<1>1. /\ order \in Seq(Pools) /\ order # <<>> /\ h \in Pools /\ left \in 1..Len(order)
      /\ a \in [Pools -> Int] /\ tried \in [Pools -> Nat] /\ Len(order) \in Nat
      /\ \A i, j \in DOMAIN order : order[i] = order[j] => i = j
      /\ \A i \in DOMAIN order : a[order[i]] # -1
      /\ \A p \in Pools : a[p] # -1 => tried[p] = a[p] /\ tried[p] < MaxAttempts
  BY RoundHead
<1>2. /\ Tail(order) \in Seq(Pools) /\ Len(Tail(order)) = Len(order) - 1
      /\ \A i, j \in DOMAIN Tail(order) : Tail(order)[i] = Tail(order)[j] => i = j
      /\ \A i \in DOMAIN Tail(order) : Tail(order)[i] # h /\ \E j \in DOMAIN order : Tail(order)[i] = order[j]
  BY <1>1, DistinctTail
<1>3. pending'.order = Tail(order) /\ pending'.attempts = c
  OBVIOUS
<1>4. c[h] = -1 /\ (\A p \in Pools : p # h => c[p] = a[p])
      /\ tried' \in [Pools -> Nat] /\ \A p \in Pools : p # h => tried'[p] = tried[p]
  BY <1>1
<1> HIDE DEF order, a, c
<1>5. \A i \in DOMAIN Tail(order) : c[Tail(order)[i]] # -1
  <2> TAKE i \in DOMAIN Tail(order)
  <2>1. PICK j \in DOMAIN order : Tail(order)[i] = order[j]
    BY <1>2
  <2>2. a[order[j]] # -1 /\ order[j] \in Pools
    BY <1>1
  <2> QED
    BY <1>2, <1>4, <2>1, <2>2
<1>6. \A p \in Pools : c[p] # -1 => tried'[p] = c[p] /\ tried'[p] < MaxAttempts
  BY <1>1, <1>4
<1>7. pc' = "pending" => left' \in 1..Len(Tail(order))
  BY <1>1, <1>2
<1> QED
  BY ONLY <1>2, <1>3, <1>4, <1>5, <1>6, <1>7 DEF SignatureReads

LEMMA ResolvedReads == ReadsInv /\ Resolved => ReadsInv' /\ GivesUpStep
<1> SUFFICES ASSUME ReadsInv, Resolved PROVE ReadsInv' /\ GivesUpStep
  OBVIOUS
<1> DEFINE h == Head(pending.order)
<1>1. DiscoveryInv' /\ TimesTyped /\ QueuesTyped /\ Resolving
  BY ResolvedKeeps DEF ReadsInv, DiscoveryInv, Typed, Resolved
<1>2. /\ pending' = [order |-> Tail(pending.order), attempts |-> [pending.attempts EXCEPT ![h] = -1]]
      /\ Settles(h) /\ tried' = tried /\ left' = left - 1 /\ (pc' = "pending" => left' > 0)
  BY DEF Resolved, Done, Advance
<1>3. h \in Pools /\ tried \in [Pools -> Nat] /\ UNCHANGED <<listed, times>> /\ pending.attempts \in [Pools -> Int]
  BY <1>1, RoundHead
<1>4. tried' = [tried EXCEPT ![h] = tried[h]] /\ tried[h] \in Nat
  BY <1>2, <1>3
<1>5. SignatureReads'
  BY <1>1, <1>2, <1>4, HeadLeaves
<1>6. since'[h] = 0
  BY <1>1, <1>2, <1>3, SettleTyped
<1> HIDE DEF h
<1>7. \A p \in Pools : Queued(p) /\ ~Queued(p)' => p = h
  BY <1>2, <1>3 DEF Queued
<1> QED
  BY <1>1, <1>3, <1>5, <1>6, <1>7, SignatureStep

LEMMA UnresolvedReads == ReadsInv /\ Unresolved => ReadsInv' /\ GivesUpStep
<1> SUFFICES ASSUME ReadsInv, Unresolved PROVE ReadsInv' /\ GivesUpStep
  OBVIOUS
<1> DEFINE h == Head(pending.order)
           order == pending.order
           a == pending.attempts
<1>1. DiscoveryInv' /\ Resolving
  BY ResolvedKeeps DEF ReadsInv, Unresolved
<1>2. /\ order \in Seq(Pools) /\ order # <<>> /\ h \in Pools /\ left \in 1..Len(order)
      /\ a \in [Pools -> Int] /\ tried \in [Pools -> Nat] /\ Len(order) \in Nat
      /\ \A i, j \in DOMAIN order : order[i] = order[j] => i = j
      /\ \A i \in DOMAIN order : a[order[i]] # -1
      /\ \A p \in Pools : a[p] # -1 => tried[p] = a[p] /\ tried[p] < MaxAttempts
      /\ a[h] # -1 /\ MaxAttempts \in Nat /\ UNCHANGED <<listed, times>>
  BY <1>1, RoundHead
<1>3. /\ pending' = Retry(pending) /\ tried' = [tried EXCEPT ![h] = tried[h] + 1]
      /\ left' = left - 1 /\ (pc' = "pending" => left' > 0)
  BY DEF Unresolved, Advance
<1>4. /\ tried[h] = a[h] /\ tried[h] < MaxAttempts /\ tried[h] \in Nat
      /\ Exhausted(pending, h) <=> tried[h] = MaxAttempts - 1
  <2>1. Exhausted(pending, h) <=> a[h] + 1 >= MaxAttempts
    BY DEF Exhausted
  <2> HIDE DEF a, h, order
  <2>2. tried[h] = a[h] /\ tried[h] < MaxAttempts /\ tried[h] \in Nat
    BY <1>2
  <2> QED
    BY <1>2, <2>1, <2>2
<1>5. CASE Exhausted(pending, h)
  <2>1. pending' = [order |-> Tail(order), attempts |-> [a EXCEPT ![h] = -1]]
    BY <1>3, <1>5 DEF Retry
  <2>2. tried' = [tried EXCEPT ![h] = tried[h] + 1] /\ tried[h] + 1 \in Nat
    BY <1>3, <1>4
  <2>3. SignatureReads'
    BY <1>1, <1>3, <2>1, <2>2, HeadLeaves
  <2>4. SignatureExhausted(h)
    BY <1>4, <1>5 DEF SignatureExhausted
  <2>5. \A p \in Pools : p # h => pending'.attempts[p] = a[p]
    BY <1>2, <2>1
  <2> HIDE DEF h
  <2>6. \A p \in Pools : Queued(p) /\ ~Queued(p)' => p = h
    BY <1>2, <2>5 DEF Queued
  <2> QED
    BY <1>1, <1>2, <2>3, <2>4, <2>6, SignatureStep
<1>6. CASE ~Exhausted(pending, h)
  <2> DEFINE s == Tail(order)
             o == Append(s, h)
             v == a[h] + 1
             c == [a EXCEPT ![h] = v]
  <2>1. pending'.order = o /\ pending'.attempts = c
    BY <1>3, <1>6 DEF Retry
  <2>2. v \in Nat /\ v < MaxAttempts /\ v # -1 /\ v = tried[h] + 1
    <3> HIDE DEF a, h, order
    <3> QED
      BY <1>2, <1>4, <1>6
  <2>3. /\ s \in Seq(Pools) /\ Len(s) = Len(order) - 1
        /\ \A i, j \in DOMAIN s : s[i] = s[j] => i = j
        /\ \A i \in DOMAIN s : s[i] # h /\ \E j \in DOMAIN order : s[i] = order[j]
    BY <1>2, DistinctTail
  <2> HIDE DEF order, a, h, s, v
  <2>4. /\ o \in Seq(Pools) /\ Len(o) = Len(s) + 1 /\ \A i, j \in DOMAIN o : o[i] = o[j] => i = j
        /\ \A i \in DOMAIN o : o[i] = h \/ \E j \in DOMAIN s : o[i] = s[j]
    BY <1>2, <2>3, DistinctAppend
  <2>5. c[h] = v /\ \A p \in Pools : p # h => c[p] = a[p]
    BY <1>2
  <2>6. tried' \in [Pools -> Nat] /\ tried'[h] = v /\ \A p \in Pools : p # h => tried'[p] = tried[p]
    BY <1>2, <1>3, <1>4, <2>2
  <2> HIDE DEF o, c
  <2>7. \A i \in DOMAIN o : c[o[i]] # -1
    <3> TAKE i \in DOMAIN o
    <3>1. CASE o[i] = h
      BY <2>2, <2>5, <3>1
    <3>2. ASSUME NEW j \in DOMAIN s, o[i] = s[j] PROVE c[o[i]] # -1
      <4>1. PICK k \in DOMAIN order : s[j] = order[k]
        BY <2>3
      <4>2. a[order[k]] # -1 /\ order[k] \in Pools /\ s[j] # h
        BY <1>2, <2>3
      <4> QED
        BY <2>5, <3>2, <4>1, <4>2
    <3> QED
      BY <2>4, <3>1, <3>2
  <2>8. \A p \in Pools : c[p] # -1 => tried'[p] = c[p] /\ tried'[p] < MaxAttempts
    BY <1>2, <2>2, <2>5, <2>6
  <2>9. pc' = "pending" => left' \in 1..Len(o)
    BY <1>2, <1>3, <2>3, <2>4
  <2>10. SignatureReads'
    BY <2>1, <2>4, <2>6, <2>7, <2>8, <2>9 DEF SignatureReads
  <2>11. \A p \in Pools : Queued(p) => Queued(p)'
    <3>1. \A p \in Pools : a[p] # -1 => c[p] # -1
      BY <2>2, <2>5
    <3> QED
      BY <1>2, <2>1, <3>1 DEF Queued, a
  <2> QED
    BY <1>1, <1>2, <2>10, <2>11, SignatureStep
<1> QED
  BY <1>5, <1>6

LEMMA InitReads == Init => ReadsInv
<1> SUFFICES ASSUME Init PROVE ReadsInv
  OBVIOUS
<1>1. SignatureReads
  BY DEF Init, NoSignatures, SignatureReads
<1>2. AllPatient(listed, times)
  BY DEF Init, AllPatient
<1> QED
  BY <1>1, <1>2, InitDiscovery DEF ReadsInv

LEMMA NextReads == ReadsInv /\ [Next]_vars => ReadsInv' /\ GivesUpStep
<1> SUFFICES ASSUME ReadsInv, [Next]_vars PROVE ReadsInv' /\ GivesUpStep
  OBVIOUS
<1>1. DiscoveryInv'
  BY NextDiscovery DEF ReadsInv
<1>2. CASE TakeSignature \/ TakePool \/ Drained \/ NotDue \/ PoolVerified \/ PoolUnreadable \/ Resolved \/ Unresolved
  BY <1>2, TakeSignatureReads, TakePoolPatient, DrainedPatient, NotDuePatient, PoolVerifiedPatient,
     PoolUnreadablePatient, ResolvedReads, UnresolvedReads
<1>3. CASE Tick \/ UNCHANGED vars
  BY <1>1, <1>3, ReadsUntouched DEF Tick, vars, queues, place, history
<1>4. CASE \/ Subscribes \/ SubscribeFails \/ Chatter \/ GoesSilent \/ StreamEnds
           \/ \E p \in Pools : Delivers(p) \/ Misses(p)
  BY <1>1, <1>4, ReadsUntouched DEF Subscribes, SubscribeFails, Chatter, GoesSilent, StreamEnds, Delivers,
     Misses, Listening, queues, place, history
<1>5. CASE PollStarts \/ PageFails \/ PageRead \/ PollEnds \/ \E p \in Pools : Creates(p)
  <2>1. UNCHANGED <<pending, listed, pc, left, tried, times>>
    BY <1>5 DEF PollStarts, PageFails, PageRead, PollEnds, Creates, Polling, queues, place, history
  <2> QED
    BY <1>1, <2>1, ReadsUntouched
<1> QED
  BY <1>2, <1>3, <1>4, <1>5 DEF Next

\* A signature is given up only by the last of its attempts, and a listed pool
\* only by a read that failed after all the delays were waited for: for any
\* number of attempts, any delays, any sizes of the queues and rounds, and any
\* announcements and evictions between two reads.
THEOREM Patience == Spec => PatientReads
  BY InitReads, NextReads, PTL DEF Spec, PatientReads
=============================================================================
