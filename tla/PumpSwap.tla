------------------------------- MODULE PumpSwap -------------------------------
(***************************************************************************)
(* A PumpSwap dry-run (main.rs, pumpswap.rs, pumpswap_ix.rs,               *)
(* onchain_risk.rs): iterations that read the pool, pass the token gates   *)
(* with their caches, and measure a simulated buy and sell against the     *)
(* quote model.  Every RPC call is a step; between the steps others trade, *)
(* holders move their tokens, an authority is given up, and time passes.   *)
(* The paper loop reads through the same steps up to the liquidity; what   *)
(* it then does is in PaperTrading.                                        *)
(*                                                                         *)
(* The program that executes a simulated swap is not in the repository:    *)
(* CostOf and SellExactBaseIn stand for it.  One mint, one policy: the     *)
(* caches' keys are left out.                                              *)
(***************************************************************************)
EXTENDS PumpMath, HolderGate

CONSTANTS
  Pools,          \* records of PumpMath a pool may be
  Dists,          \* distributions of its token
  Mints,          \* [program, extensions, mintAuthority, freezeAuthority]
  Policy,         \* token_policy of the process
  Position, Slippage, MinLiquidity,
  Wallets,        \* wSOL balances of the payer's account
  HolderTtl, ErrorBackoff,
  MaxTime, MaxMoves

ASSUME DryRunAssumption ==
  /\ Policy \in {"ClassicOnly", "PaperToken2022"} /\ Position \in Nat \ {0}
  /\ {Slippage, MinLiquidity, ErrorBackoff} \subseteq Nat /\ HolderTtl \in Nat \ {0}
  /\ Pools \subseteq Reading /\ Wallets \subseteq Nat
  /\ \A d \in Dists : IsFiniteSet(DOMAIN d) /\ \A a \in DOMAIN d : d[a] \in Nat

VARIABLES
  clock,
  pool, dist, mint, wallet, disabled, \* the chain; which side of the program is off
  vaultsKnown,   \* the vault cache has the pool
  revoked,       \* RevokedMints has the mint
  holders,       \* holder cache: [at, stats], at = -1 for none
  failedAt,      \* holder error back-off, -1 for none
  stage, snap,   \* of the iteration; the pool as read
  quote,         \* what the model says and what was read before a simulation
  result,        \* the last measurement
  moves,         \* history: moves of the chain during the iteration
  spreadAt       \* history: when the token was last spread

chain == <<pool, dist, mint, wallet, disabled>>
caches == <<vaultsKnown, revoked, holders, failedAt>>
dryVars == <<clock, chain, caches, stage, snap, quote, result, moves, spreadAt>>

NoQuote  == [base |-> 0, out |-> 0, pre |-> 0, spent |-> 0, got |-> 0, seller |-> "none"]
NoResult == [what |-> "none", base |-> 0, out |-> 0, spent |-> 0, got |-> 0, received |-> 0]
NoHolders == [at |-> -1, stats |-> [sampled |-> 0, top |-> 0, all |-> 0, identical |-> 0]]

ReallySpread(d) == Spread(HolderStats(d, ProgramOwned))

DryInit ==
  /\ clock = 0
  /\ pool \in Pools /\ dist \in Dists /\ mint \in Mints /\ wallet \in Wallets
  /\ disabled = {}
  /\ vaultsKnown = FALSE /\ revoked = FALSE /\ holders = NoHolders /\ failedAt = -1
  /\ stage = "idle" /\ snap = pool /\ quote = NoQuote /\ result = NoResult /\ moves = 0
  /\ spreadAt = IF ReallySpread(dist) THEN 0 ELSE -HolderTtl

-----------------------------------------------------------------------------
(* The chain *)

Moving == stage # "idle" /\ moves < MaxMoves /\ moves' = moves + 1

Unmoved == UNCHANGED <<caches, stage, snap, quote, result>>

\* Others trade: reserves, fees waiting in the vault.
Trades(p) ==
  /\ Moving /\ p # pool /\ pool' = [pool EXCEPT !.base = p.base, !.vault = p.vault, !.buckets = p.buckets]
  /\ UNCHANGED <<clock, dist, mint, wallet, disabled, spreadAt>> /\ Unmoved

Redistributes(d) ==
  /\ Moving /\ d # dist /\ dist' = d
  /\ spreadAt' = IF ReallySpread(d) THEN clock ELSE spreadAt
  /\ UNCHANGED <<clock, pool, mint, wallet, disabled>> /\ Unmoved

\* An authority that is given up never comes back.
GivesUp ==
  /\ Moving /\ Risky(mint) /\ mint' = [mint EXCEPT !.mintAuthority = FALSE, !.freezeAuthority = FALSE]
  /\ UNCHANGED <<clock, pool, dist, wallet, disabled, spreadAt>> /\ Unmoved

PayerMoves(w) ==
  /\ Moving /\ w # wallet /\ wallet' = w
  /\ UNCHANGED <<clock, pool, dist, mint, disabled, spreadAt>> /\ Unmoved

Disables(side) ==
  /\ Moving /\ side \notin disabled /\ disabled' = disabled \cup {side}
  /\ UNCHANGED <<clock, pool, dist, mint, wallet, spreadAt>> /\ Unmoved

TimePasses ==
  /\ clock < MaxTime /\ clock' = clock + 1
  /\ spreadAt' = IF ReallySpread(dist) THEN clock' ELSE spreadAt
  /\ UNCHANGED <<chain, moves>> /\ Unmoved

-----------------------------------------------------------------------------
(* The iteration *)

Quiet == UNCHANGED <<clock, chain, moves, spreadAt>>

Begin ==
  /\ stage = "idle" /\ stage' = IF vaultsKnown THEN "snapshot" ELSE "vaults"
  /\ moves' = 0 /\ result' = NoResult
  /\ UNCHANGED <<clock, chain, caches, snap, quote, spreadAt>>

\* Rejected, or failed: the record of the iteration says which.
EndsWith(what) ==
  /\ stage' = "idle" /\ snap' = pool /\ quote' = NoQuote
  /\ result' = [NoResult EXCEPT !.what = what]

Fails == stage # "idle" /\ stage # "holders" /\ EndsWith("error") /\ Quiet /\ UNCHANGED caches

LearnVaults ==
  /\ stage = "vaults" /\ pool.quote = "wsol" /\ pool.canonical
  /\ stage' = "snapshot" /\ vaultsKnown' = TRUE
  /\ Quiet /\ UNCHANGED <<revoked, holders, failedAt, snap, quote, result>>

\* Pool, vaults, mint and fees in one request, then what needs no request:
\* a usable pool with a price, and the authorities of a mint seen clean.
TakeSnapshot ==
  /\ stage = "snapshot" /\ Usable(pool) /\ Priced(pool)
  /\ snap' = pool /\ stage' = IF revoked THEN "holders" ELSE "authority"
  /\ Quiet /\ UNCHANGED <<caches, quote, result>>

\* fetch_mint_authority_risk_cached, past the cache.
AuthorityPasses ==
  /\ stage = "authority" /\ Accepted(mint, Policy) /\ ~Risky(mint)
  /\ revoked' = TRUE /\ stage' = "holders"
  /\ Quiet /\ UNCHANGED <<vaultsKnown, holders, failedAt, snap, quote, result>>

AuthorityRejects ==
  /\ stage = "authority" /\ Accepted(mint, Policy) /\ Risky(mint)
  /\ EndsWith("rejected") /\ Quiet /\ UNCHANGED caches

\* Mutant: a reading is good for ever.
HoldersCachedLong(h, now) == h.at >= 0

HoldersCached(h, now) == h.at >= 0 /\ now - h.at < HolderTtl

BackingOff == failedAt >= 0 /\ clock - failedAt < ErrorBackoff

\* The verdict and the liquidity of the snapshot.
Judges(stats) ==
  IF Spread(stats) /\ RealQuote(snap) >= MinLiquidity
  THEN stage' = "config" /\ UNCHANGED <<snap, quote, result>>
  ELSE EndsWith("rejected")

UseCachedHolders ==
  /\ stage = "holders" /\ HoldersCached(holders, clock)
  /\ Judges(holders.stats) /\ Quiet /\ UNCHANGED caches

StillFailing ==
  /\ stage = "holders" /\ ~HoldersCached(holders, clock) /\ BackingOff
  /\ EndsWith("error") /\ Quiet /\ UNCHANGED caches

\* Owners that cannot be read keep their accounts counted.
ReadHolders(readable) ==
  /\ stage = "holders" /\ ~HoldersCached(holders, clock) /\ ~BackingOff
  /\ holders' = [at |-> clock, stats |-> HolderStats(dist, readable)] /\ failedAt' = -1
  /\ Judges(HolderStats(dist, readable))
  /\ Quiet /\ UNCHANGED <<vaultsKnown, revoked>>

HoldersFail ==
  /\ stage = "holders" /\ ~HoldersCached(holders, clock) /\ ~BackingOff
  /\ failedAt' = clock /\ EndsWith("error")
  /\ Quiet /\ UNCHANGED <<vaultsKnown, revoked, holders>>

\* GlobalConfig, the model's buy and the payer's balance before it; a side that
\* is disabled is an error when its instruction is built.
ReadConfig ==
  LET base == BuyExactQuoteIn(Position, snap, PoolFees(snap))
  IN  /\ stage = "config" /\ base > 0 /\ "buy" \notin disabled
      /\ stage' = "buy"
      /\ quote' = [quote EXCEPT !.base = base, !.pre = wallet,
                                !.out = SellExactBaseIn(base, snap, PoolFees(snap)),
                                !.seller = IF "sell" \in disabled THEN "disabled" ELSE "none"]
      /\ Quiet /\ UNCHANGED <<caches, snap, result>>

MaxIn == Position + (Position * Slippage) \div Bps

\* What the program charges for exactly base tokens.
CostOf(base, p) == WithFees(CeilDiv(EffectiveQuote(p) * base, p.base - base), PoolFees(p))

Executes(base) ==
  /\ "buy" \notin disabled /\ pool.base > base /\ Usable(pool) /\ CostOf(base, pool) <= MaxIn

\* swap_instructions of a buy: MaxIn is wrapped into the payer's account first.
PostBuy(base) == wallet + MaxIn - CostOf(base, pool)

\* simulate_token_accounts: the payer's wSOL and tokens after it; none if it fails.
SimulatedBuy(base) == IF Executes(base) THEN <<PostBuy(base), base>> ELSE <<>>

SimulateBuy ==
  LET after == SimulatedBuy(quote.base)
      spent == quote.pre + MaxIn - after[1]
  IN  /\ stage = "buy" /\ after # <<>> /\ spent >= 0
      /\ stage' = "seller"
      /\ quote' = [quote EXCEPT !.spent = spent, !.got = after[2]]
      /\ Quiet /\ UNCHANGED <<caches, snap, result>>

Measured(received) ==
  /\ stage' = "idle" /\ snap' = pool /\ quote' = NoQuote
  /\ result' = [what |-> "measured", base |-> quote.base, out |-> quote.out, spent |-> quote.spent,
                got |-> quote.got, received |-> received]

\* A wallet that holds what was bought; the model's sell or its instruction
\* may be an error of the whole iteration.
PickHolder(a) ==
  /\ stage = "seller" /\ a \in DOMAIN dist \ (Vaults \cup ProgramOwned) /\ dist[a] >= quote.base
  /\ quote.out >= 0 /\ quote.seller # "disabled"
  /\ stage' = "sell" /\ quote' = [quote EXCEPT !.seller = a]
  /\ Quiet /\ UNCHANGED <<caches, snap, result>>

NoHolder ==
  /\ stage = "seller"
  /\ \A a \in DOMAIN dist \ (Vaults \cup ProgramOwned) : dist[a] < quote.base
  /\ Measured(-1) /\ Quiet /\ UNCHANGED caches

Sells ==
  /\ "sell" \notin disabled /\ quote.seller \in DOMAIN dist /\ dist[quote.seller] >= quote.base
  /\ Usable(pool) /\ SellExactBaseIn(quote.base, pool, PoolFees(pool)) >= 1

SimulateSell ==
  /\ stage = "sell"
  /\ Measured(IF Sells THEN SellExactBaseIn(quote.base, pool, PoolFees(pool)) ELSE -1)
  /\ Quiet /\ UNCHANGED caches

DryNext ==
  \/ \E p \in Pools : Trades(p)
  \/ \E d \in Dists : Redistributes(d)
  \/ \E w \in Wallets : PayerMoves(w)
  \/ \E side \in {"buy", "sell"} : Disables(side)
  \/ GivesUp \/ TimePasses \/ Begin \/ Fails \/ LearnVaults \/ TakeSnapshot
  \/ AuthorityPasses \/ AuthorityRejects
  \/ UseCachedHolders \/ StillFailing \/ HoldersFail
  \/ \E readable \in {{}, ProgramOwned} : ReadHolders(readable)
  \/ ReadConfig \/ SimulateBuy \/ NoHolder \/ SimulateSell
  \/ \E a \in DOMAIN dist : PickHolder(a)

DrySpec == DryInit /\ [][DryNext]_dryVars

-----------------------------------------------------------------------------
(* Properties *)

\* Past the gates the mint is one the policy accepts, its authorities are gone,
\* and its holders were spread at a moment less than the cache's time ago:
\* neither a cached clean mint nor a cached or failed reading passes another.
GateStep ==
  stage = "holders" /\ stage' = "config" =>
    /\ Accepted(mint, Policy) /\ ~Risky(mint)
    /\ clock - spreadAt < HolderTtl

GatesAreCurrent == [][GateStep]_dryVars

\* What the sampling of the holders relies on (onchain_risk.rs, "fail-closed"):
\* owners that cannot be read never make a token pass.  A token that only
\* programs hold is the exception: with its owners read it has no holder to
\* judge, with its owners unread it may pass for a spread one.
ProgramsAloneFail == \A d \in Dists : Counted(d, ProgramOwned) = {} => ~Spread(HolderStats(d, {}))

UnreadOwnersCount == \A d \in Dists : Spread(HolderStats(d, {})) => ReallySpread(d)

\* When nothing moved during the iteration, the simulation agrees with the
\* model: the bought amount costs no more than the position with all its fees
\* rounded up, the sale brings what the model said, and the round trip loses.
MeasuresTheModel ==
  result.what = "measured" /\ moves = 0 =>
    /\ result.got = result.base /\ result.spent <= Position
    /\ result.received \in {-1, result.out} /\ result.out < Position
=============================================================================
