------------------------------ MODULE HolderGate ------------------------------
(***************************************************************************)
(* The token gates of onchain_risk.rs as operators: what the largest       *)
(* accounts say of a mint, the verdict on it, and what a mint account may  *)
(* be.  A distribution is a function from token accounts to amounts.       *)
(***************************************************************************)
EXTENDS Integers, FiniteSets, FiniteSetsExt

CONSTANTS
  Vaults,            \* token accounts of the pool
  ProgramOwned,      \* token accounts whose owner is off the curve
  Supply,
  MaxIdentical,      \* MAX_IDENTICAL_HOLDERS
  MaxSingle, MaxTop  \* in hundredths of a percent of the supply

ASSUME HolderAssumption ==
  Supply \in Nat \ {0} /\ Vaults \cap ProgramOwned = {} /\ MaxIdentical \in Nat /\ MaxSingle \in Nat /\ MaxTop \in Nat

\* Rounded to two decimals.
Percent(amount) == (20000 * amount + Supply) \div (2 * Supply)

\* Accounts that count: not the pool's, not a program's (an owner that could
\* not be read counts).
Counted(dist, readable) == DOMAIN dist \ (Vaults \cup (ProgramOwned \cap readable))

Largest(S) == IF S = {} THEN 0 ELSE CHOOSE x \in S : \A y \in S : y <= x

HolderStats(dist, readable) ==
  LET accounts == Counted(dist, readable)
      alike(a) == IF dist[a] = 0 THEN 0 ELSE Cardinality({b \in accounts : dist[b] = dist[a]})
  IN  [sampled |-> Cardinality(accounts),
       top |-> Percent(Largest({dist[a] : a \in accounts})),
       all |-> Percent(MapThenSumSet(LAMBDA a : dist[a], accounts)),
       identical |-> Largest({alike(a) : a \in accounts})]

\* holder_concentration_verdict is Ok.
Spread(stats) ==
  /\ stats.sampled > 0 /\ stats.identical < MaxIdentical
  /\ stats.top <= MaxSingle /\ stats.all <= MaxTop

\* classify_mint: classic mints under every policy; Token-2022 mints, with no
\* extension but metadata, under the paper-only policy.
Accepted(mint, policy) ==
  \/ mint.program = "classic"
  \/ mint.program = "token2022" /\ policy = "PaperToken2022" /\ mint.extensions \subseteq {"metadata"}

Risky(mint) == mint.mintAuthority \/ mint.freezeAuthority
=============================================================================
