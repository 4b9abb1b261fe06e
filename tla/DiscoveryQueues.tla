---------------------------- MODULE DiscoveryQueues ----------------------------
(***************************************************************************)
(* The bounded memories of discovery (pool_discovery.rs, pool_sniper.rs)   *)
(* as operators.  Queued signatures are a record [order, attempts]:        *)
(* attempts is -1 for a signature that is not known.  A listed pool is a   *)
(* record [pool, failures, next] of a sequence.                            *)
(***************************************************************************)
EXTENDS Integers, Sequences

CONSTANTS
  Pools,        \* an announcement is named by its pool
  PendingCap,   \* PendingSignatures::MAX_LEN
  MaxAttempts,
  ListedCap,    \* LISTED_POOLS_CAP
  RetryDelays   \* LISTED_POOL_RETRY_MS, a sequence

ASSUME QueueAssumption ==
  /\ {PendingCap, MaxAttempts, ListedCap} \subseteq Nat \ {0}
  /\ RetryDelays \in Seq(Nat \ {0})

Members(s) == {s[i] : i \in DOMAIN s}

NoSignatures == [order |-> <<>>, attempts |-> [p \in Pools |-> -1]]

\* The queue is full, and the signature is a new one.
PushEvicts(q, p) == q.attempts[p] = -1 /\ Len(q.order) >= PendingCap

Push(q, p) ==
  IF q.attempts[p] # -1 THEN q
  ELSE IF PushEvicts(q, p)
  THEN [order |-> Append(Tail(q.order), p), attempts |-> [q.attempts EXCEPT ![Head(q.order)] = -1, ![p] = 0]]
  ELSE [order |-> Append(q.order, p), attempts |-> [q.attempts EXCEPT ![p] = 0]]

\* The failed fetch was the last one.
Exhausted(q, p) == q.attempts[p] + 1 >= MaxAttempts

\* pop, and the head put back after a failed fetch, or forgotten.
Retry(q) ==
  LET p == Head(q.order)
  IN  IF Exhausted(q, p)
      THEN [order |-> Tail(q.order), attempts |-> [q.attempts EXCEPT ![p] = -1]]
      ELSE [order |-> Append(Tail(q.order), p), attempts |-> [q.attempts EXCEPT ![p] = @ + 1]]

\* pop and done.
Done(q) == [order |-> Tail(q.order), attempts |-> [q.attempts EXCEPT ![Head(q.order)] = -1]]

\* Whether a listed pool is read again after so many failed reads.
ReadAgain(failures) == failures \in DOMAIN RetryDelays

Listed(p, failures, next) == [pool |-> p, failures |-> failures, next |-> next]

AppendListed(s, p) == Append(IF Len(s) >= ListedCap THEN Tail(s) ELSE s, Listed(p, 0, 0))

\* insert of a BoundedSet kept as its insertion order.
Remember(order, p, cap) ==
  LET longer == Append(order, p)
  IN  IF p \in Members(order) THEN order ELSE IF Len(longer) > cap THEN Tail(longer) ELSE longer
=============================================================================
