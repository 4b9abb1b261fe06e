------------------------------- MODULE Discovery -------------------------------
(***************************************************************************)
(* How pool_sniper.rs learns of new pools.  A source thread, the CLMM log  *)
(* listener or the GeckoTerminal poller, hands announcements through a     *)
(* bounded channel to the supervisor, which resolves them on the chain     *)
(* and puts what they name on the watch list (PoolSupervisor goes on from  *)
(* there).  What may have been missed is not recovered: both threads leave *)
(* a time, last_gap_ms, that keeps /ready at 503 for a while.              *)
(*                                                                         *)
(* Every RPC or HTTP answer is a step, so the other thread and the clock   *)
(* move between two of them.  Every pool created is one of the wanted DEX; *)
(* a page of the listing is one pool.                                      *)
(***************************************************************************)
EXTENDS DiscoveryQueues

CONSTANTS
  Sources,        \* of {"logs", "geckoterminal"}
  ChannelCap,     \* SIGNATURE_CHANNEL_CAP
  EmittedCap,     \* of the poller's BoundedSet
  Pages, PollEvery, MaxAge,
  MaxBackoff,
  Reads,          \* reads of each kind in a pass of the supervisor
  GapWindow, SilenceLimit,
  MaxTime

ASSUME DiscoveryAssumption ==
  /\ Sources \subseteq {"logs", "geckoterminal"}
  /\ {ChannelCap, EmittedCap, Pages, PollEvery, MaxAge, MaxBackoff, Reads,
      GapWindow, SilenceLimit, MaxTime} \subseteq Nat \ {0}

VARIABLES
  source, clock,
  wsAt, lastGap,           \* Status.ws_ms, .last_gap_ms; 0 for never
  stream,     \* [is, since, backoff, wake]: of the listener
  listing,    \* on GeckoTerminal, newest first: [pool, created]
  poll,       \* [page, start, oldest, last, next]: page 0 between two polls
  emitted,    \* the poller's BoundedSet
  channel,
  pending, listed,
  pc, left, reads,         \* the supervisor's place in its pass
  since,      \* history: when the last announcement of the pool was made, or the
              \* outage began that hid it; 0: not announced, or settled since
  tried,      \* history: how often a queued signature was read in vain
  times       \* history: the times at which each listed pool was read in vain

status == <<wsAt, lastGap>>
thread == <<stream, listing, poll, emitted>>
queues == <<pending, listed>>
place == <<pc, left, reads>>
history == <<since, tried, times>>
vars == <<source, clock, status, thread, channel, queues, place, history>>

Queued(p) == pending.attempts[p] # -1 \/ \E i \in DOMAIN listed : listed[i].pool = p

Init ==
  /\ source \in Sources /\ clock = 1
  /\ wsAt = 0 /\ lastGap = 0
  /\ stream = [is |-> "starting", since |-> 0, backoff |-> 1, wake |-> 0]
  /\ listing = <<>> /\ emitted = <<>>
  /\ poll = [page |-> 0, start |-> 0, oldest |-> 0, last |-> 0, next |-> 1]
  /\ channel = <<>> /\ pending = NoSignatures /\ listed = <<>>
  /\ pc = "drain" /\ left = 0 /\ reads = 0
  /\ since = [p \in Pools |-> 0] /\ tried = [p \in Pools |-> 0] /\ times = <<>>

Tick ==
  /\ clock < MaxTime /\ clock' = clock + 1
  /\ UNCHANGED <<source, status, thread, channel, queues, place, history>>

-----------------------------------------------------------------------------
(* The log listener *)

Listening == source = "logs" /\ UNCHANGED <<source, clock, listing, poll, emitted, queues, place>>

\* try_send; an announcement that does not fit is dropped, and a gap.
Sends(p) ==
  IF Len(channel) < ChannelCap
  THEN channel' = Append(channel, p) /\ UNCHANGED lastGap
  ELSE lastGap' = clock /\ UNCHANGED channel

Subscribes ==
  /\ Listening /\ stream.is \in {"starting", "down"} /\ clock >= stream.wake
  /\ stream' = [stream EXCEPT !.is = "open", !.since = 0, !.backoff = 1, !.wake = 0]
  /\ UNCHANGED <<wsAt, lastGap, channel, history>>

SubscribeFails ==
  /\ Listening /\ stream.is \in {"starting", "down"} /\ clock >= stream.wake
  /\ lastGap' = clock
  /\ stream' = [stream EXCEPT !.wake = clock + stream.backoff,
                              !.backoff = IF 2 * @ < MaxBackoff THEN 2 * @ ELSE MaxBackoff]
  /\ UNCHANGED <<wsAt, channel, history>>

\* Other logs of the program, and failed transactions.
Chatter ==
  /\ Listening /\ stream.is = "open" /\ wsAt # clock /\ wsAt' = clock
  /\ UNCHANGED <<lastGap, stream, channel, history>>

\* The pool is created, or its signature is delivered once more.
Delivers(p) ==
  /\ Listening /\ stream.is = "open"
  /\ wsAt' = clock /\ Sends(p)
  /\ since' = [since EXCEPT ![p] = clock]
  /\ UNCHANGED <<stream, tried, times>>

\* Nothing arrives any more; the socket still looks open.
GoesSilent ==
  /\ Listening /\ stream.is = "open"
  /\ stream' = [stream EXCEPT !.is = "silent", !.since = clock]
  /\ UNCHANGED <<wsAt, lastGap, channel, history>>

\* recv_timeout fails: an error of the socket, or 120 s without a message.
StreamEnds ==
  /\ Listening /\ stream.is \in {"open", "silent"}
  /\ lastGap' = clock
  /\ stream' = [stream EXCEPT !.is = "down", !.since = IF @ = 0 THEN clock ELSE @, !.wake = clock]
  /\ UNCHANGED <<wsAt, channel, history>>

\* A pool created during an outage is never announced: there is no replay.  (A
\* pool that is settled lends its name to a new one.)
Misses(p) ==
  /\ Listening /\ stream.is \in {"silent", "down"} /\ stream.since > 0
  /\ since[p] = 0 /\ ~Queued(p) /\ p \notin Members(channel)
  /\ since' = [since EXCEPT ![p] = stream.since]
  /\ UNCHANGED <<wsAt, lastGap, stream, channel, tried, times>>

-----------------------------------------------------------------------------
(* The GeckoTerminal poller *)

Polling == source = "geckoterminal" /\ UNCHANGED <<source, clock, stream, queues, place>>

\* A pool appears on the listing.  The first poll has nothing to compare with,
\* and stamps cannot tell a pool from a poll of the same instant: no claim.
Creates(p) ==
  /\ Polling /\ \A i \in DOMAIN listing : listing[i].pool # p
  /\ listing' = <<[pool |-> p, created |-> clock]>> \o listing
  /\ since' = [since EXCEPT ![p] =
       IF poll.last = 0 \/ clock = poll.last \/ (poll.page > 0 /\ clock = poll.start) THEN 0 ELSE clock]
  /\ UNCHANGED <<wsAt, lastGap, poll, emitted, channel, tried, times>>

PollStarts ==
  /\ Polling /\ poll.page = 0 /\ clock >= poll.next
  /\ poll' = [poll EXCEPT !.page = 1, !.start = clock, !.oldest = 0]
  /\ UNCHANGED <<wsAt, lastGap, listing, emitted, channel, history>>

BetweenPolls == [poll EXCEPT !.page = 0, !.start = 0, !.oldest = 0, !.next = clock + PollEvery]

\* A page that fails, at its second answer if the first was a 429.
PageFails ==
  /\ Polling /\ poll.page \in 1..Pages
  /\ lastGap' = clock /\ poll' = BetweenPolls
  /\ UNCHANGED <<wsAt, listing, emitted, channel, history>>

\* Every pool of the page that is young enough is emitted once.  The watch time
\* of an older one would be over.
PageRead ==
  LET onPage == IF poll.page \in DOMAIN listing THEN {listing[poll.page]} ELSE {}
      young == {x \in onPage : clock - x.created <= MaxAge}
      fresh == {x \in young : x.pool \notin Members(emitted)}
  IN  /\ Polling /\ poll.page \in 1..Pages
      /\ poll' = [poll EXCEPT !.page = @ + 1,
           !.oldest = IF \E x \in onPage : @ = 0 \/ x.created < @ THEN listing[poll.page].created ELSE @]
      /\ IF fresh = {} THEN UNCHANGED <<lastGap, emitted, channel>>
         ELSE \A x \in fresh : emitted' = Remember(emitted, x.pool, EmittedCap) /\ Sends(x.pool)
      /\ since' = [p \in Pools |-> IF \E x \in onPage \ young : x.pool = p THEN 0
                                   ELSE IF since[p] = 0 /\ (\E x \in fresh : x.pool = p) THEN clock ELSE since[p]]
      /\ UNCHANGED <<wsAt, listing, tried, times>>

\* Mutant: the last poll is timed at its end.
PolledAtEnd == clock

\* The time later polls compare with: when the poll started.
PolledAt == poll.start

GeckoGap(last, oldest) == last > 0 /\ oldest > last

PollEnds ==
  /\ Polling /\ poll.page > Pages
  /\ wsAt' = clock
  /\ lastGap' = IF GeckoGap(poll.last, poll.oldest) THEN clock ELSE lastGap
  /\ poll' = [BetweenPolls EXCEPT !.last = PolledAt]
  /\ UNCHANGED <<listing, emitted, channel, history>>

-----------------------------------------------------------------------------
(* The supervisor: step 2 of its pass *)

Supervising == UNCHANGED <<source, clock, wsAt, thread>>

Settles(p) == since' = [since EXCEPT ![p] = 0]

TakeSignature ==
  LET p == Head(channel)
  IN  /\ Supervising /\ source = "logs" /\ pc = "drain" /\ channel # <<>>
      /\ channel' = Tail(channel) /\ pending' = Push(pending, p)
      /\ lastGap' = IF PushEvicts(pending, p) THEN clock ELSE lastGap
      /\ tried' = [tried EXCEPT ![p] = IF pending.attempts[p] = -1 THEN 0 ELSE @]
      /\ UNCHANGED <<listed, place, since, times>>

TakePool ==
  LET p == Head(channel)
  IN  /\ Supervising /\ source = "geckoterminal" /\ pc = "drain" /\ channel # <<>>
      /\ channel' = Tail(channel) /\ listed' = AppendListed(listed, p)
      /\ lastGap' = IF Len(listed) >= ListedCap THEN clock ELSE lastGap
      /\ times' = Append(IF Len(listed) >= ListedCap THEN Tail(times) ELSE times, <<>>)
      /\ UNCHANGED <<pending, place, since, tried>>

\* The channel is empty: one scan of the listed pools, then some signatures.
Drained ==
  /\ Supervising /\ pc = "drain" /\ channel = <<>>
  /\ \/ listed # <<>> /\ pc' = "listed" /\ left' = Len(listed)
     \/ /\ listed = <<>> /\ pending.order # <<>> /\ pc' = "pending"
        /\ left' = IF Len(pending.order) < Reads THEN Len(pending.order) ELSE Reads
  /\ reads' = 0 /\ UNCHANGED <<channel, queues, history, lastGap>>

\* After one item of a scan: the next one, or the next pass.
Advance(read) ==
  /\ left' = left - 1 /\ reads' = reads + read
  /\ pc' = IF left' > 0 /\ reads' < Reads THEN pc ELSE "drain"

Scanning == Supervising /\ pc = "listed" /\ UNCHANGED <<channel, pending, tried>>

NotDue ==
  /\ Scanning /\ Head(listed).next > clock
  /\ listed' = Append(Tail(listed), Head(listed)) /\ Advance(0)
  /\ times' = Append(Tail(times), Head(times))
  /\ UNCHANGED <<lastGap, since>>

\* The account was read: a pool for the watch list, one without wSOL, or none.
PoolVerified ==
  /\ Scanning /\ Head(listed).next <= clock
  /\ listed' = Tail(listed) /\ Settles(Head(listed).pool) /\ Advance(1)
  /\ times' = Tail(times)
  /\ UNCHANGED lastGap

\* Mutant: the delay of one failure less.
DelayBefore(failures) == RetryDelays[IF failures = 1 THEN 1 ELSE failures - 1]

\* listed_retry_delay_ms.
DelayAfter(failures) == RetryDelays[failures]

PoolUnreadable ==
  LET h == Head(listed)
      failures == h.failures + 1
  IN  /\ Scanning /\ h.next <= clock
      /\ IF ReadAgain(failures)
         THEN listed' = Append(Tail(listed), Listed(h.pool, failures, clock + DelayAfter(failures)))
              /\ times' = Append(Tail(times), Append(Head(times), clock))
              /\ UNCHANGED lastGap
         ELSE listed' = Tail(listed) /\ times' = Tail(times) /\ lastGap' = clock
      /\ Advance(1) /\ UNCHANGED since

Resolving == Supervising /\ pc = "pending" /\ UNCHANGED <<channel, listed, times>>

\* The transaction was served: its pools go to the watch list or are skipped.
Resolved ==
  /\ Resolving /\ pending' = Done(pending)
  /\ Settles(Head(pending.order)) /\ Advance(1)
  /\ UNCHANGED <<lastGap, tried>>

Unresolved ==
  LET p == Head(pending.order)
  IN  /\ Resolving /\ pending' = Retry(pending)
      /\ lastGap' = IF Exhausted(pending, p) THEN clock ELSE lastGap
      /\ tried' = [tried EXCEPT ![p] = @ + 1]
      /\ Advance(1) /\ UNCHANGED since

Next ==
  \/ \E p \in Pools : Delivers(p) \/ Misses(p) \/ Creates(p)
  \/ Tick \/ Subscribes \/ SubscribeFails \/ Chatter \/ GoesSilent \/ StreamEnds
  \/ PollStarts \/ PageFails \/ PageRead \/ PollEnds
  \/ TakeSignature \/ TakePool \/ Drained 
  \/ NotDue \/ PoolVerified \/ PoolUnreadable \/ Resolved \/ Unresolved

Spec == Init /\ [][Next]_vars

-----------------------------------------------------------------------------
(* Properties *)

\* health_verdict and ready_verdict are Ok.  A stalled loop and a discovery state that could not be
\* saved also make it an error: without them the claim below is the stronger.
Healthy == wsAt # 0 /\ clock - wsAt <= SilenceLimit

Ready ==
  /\ Healthy
  /\ lastGap = 0 \/ clock - lastGap >= GapWindow

\* Announced, or created while a source was to announce it, and nowhere.
Lost(p) == since[p] > 0 /\ ~Queued(p) /\ p \notin Members(channel)

\* The source has not noticed yet: a silent socket, a pool later than any poll.
Unnoticed(p) ==
  \/ stream.is = "silent" /\ since[p] = stream.since
  \/ source = "geckoterminal" /\ since[p] > poll.last

\* While /ready answers 200, no pool was lost, in an outage or at a bound, that
\* began less than the gap window ago, but in a silence not noticed yet: a gap
\* is reported instead of being taken for complete coverage.
ReadyMeansCovered ==
  Ready => \A p \in Pools : Lost(p) => Unnoticed(p) \/ clock - since[p] >= GapWindow

\* A queued signature is given up by its reader only after all its attempts, and
\* a listed pool only after a read that failed for each delay, every one of them
\* waited for: about the watch time, so that a pool is not lost to an RPC failure
\* that was temporary.
SignatureExhausted(p) == tried[p] = MaxAttempts - 1

ListedExhausted ==
  LET failed == Append(Head(times), clock)
  IN  /\ Len(failed) = Len(RetryDelays) + 1
      /\ \A i \in DOMAIN RetryDelays : failed[i + 1] - failed[i] >= RetryDelays[i]

GivesUpStep ==
  /\ \A p \in Pools :
       pc = "pending" /\ Queued(p) /\ ~Queued(p)' /\ since'[p] # 0 => SignatureExhausted(p)
  /\ pc = "listed" /\ Len(listed') < Len(listed) /\ since'[Head(listed).pool] # 0 => ListedExhausted

PatientReads == [][GivesUpStep]_vars
=============================================================================
