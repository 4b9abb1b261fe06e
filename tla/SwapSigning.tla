----------------------------- MODULE SwapSigning -----------------------------
(***************************************************************************)
(* One swap of the live process, from the resolution of its accounts to    *)
(* its signature and its fill: resolve_swap_accounts (account_resolver.rs, *)
(* rpc_util.rs), the exact quote and the entry economics (main.rs,         *)
(* sim_quote.rs), build_swap_transaction (raydium_v4.rs), the remote       *)
(* signer (hsm_server, remote_hsm.rs) and sign_and_verify (main.rs).       *)
(*                                                                         *)
(* Each read of the chain is a step, and tick arrays are opened and        *)
(* emptied between them.  The price stays where it is: the resolution      *)
(* reads it once, and what it does to the fill is the choice of the fill.  *)
(* What surrounds the swap (risk gates, records, confirmation) is in       *)
(* LiveEngine and TxSubmit; here a position is held or not.                *)
(***************************************************************************)
EXTENDS TickArrays, TradeCosts, HsmPolicy, FiniteSets

CONSTANTS
  Pin, OtherKey,     \* the wallet given by --expected-signer, and another key
  Position,          \* the lamports of an entry, at most the tokens of an exit
  Outs,              \* amounts a quote may name and a swap may deliver; 0 is none
  Liquidities,       \* what the vault read may return; 0 is unknown
  Terms,             \* the economics part of the arguments
  BaseSlippage,      \* --max-slippage-bps
  ExitMaxSlippage,   \* EXIT_MAX_SLIPPAGE_BPS
  MaxFailures,       \* exit failures counted: the slippage is at its cap from there on
  Settings,          \* [wsolFirst, cuPrice, tip]: token order of the pool and fees of a run
  Openings,          \* [tick, initialized]: the pool when the process starts
  Touched,           \* arrays opened or emptied meanwhile
  MaxMoves,          \* how many during one resolution
  MaxBatch           \* LEARNED_BATCH at the start

\* The tip account is one of the policy's, and the wallet is neither it nor an
\* account of its own.
ASSUME SwapAssumption ==
  /\ Pin # OtherKey /\ Pin \notin {"tip", Ata(Pin, "wsol")} /\ "tip" \in TipAccounts
  /\ {MaxTransfer, MaxCuPrice, BaseSlippage, ExitMaxSlippage, MaxFailures} \subseteq Nat
  /\ Settings \subseteq [wsolFirst : BOOLEAN, cuPrice : Nat, tip : Nat]
  /\ Terms \in [takeProfit : Int, feePpm : Nat, exitImpactPct : Nat, network : Nat,
                failedReserve : Nat, minEdge : Int, maxImpact : Nat, maxShare : Nat]
  /\ Outs \subseteq Nat /\ Liquidities \subseteq Nat /\ Position \in Nat \ {0}
  /\ MaxFailures * BaseSlippage >= ExitMaxSlippage
  /\ \A o \in Openings : o.tick \in Ticks /\ o.initialized \subseteq Starts
  /\ Touched \subseteq Starts /\ MaxBatch \in Nat \ {0}

VARIABLES
  chain,     \* initialized and existing tick arrays, the bitmap extension, the tick
  setting,
  serverKey, \* the key the signer holds
  batch,     \* LEARNED_BATCH
  stage,     \* of the attempt
  swap,      \* its leg, whether it empties the account, its slippage
  path,      \* candidates asked for, answers so far, and where they come from
  tx,        \* what was built and its signature
  failures,  \* exit_failures
  holding,
  moves,     \* history: chain moves during the attempt
  fill       \* history: the last attempt's fill and what it was quoted

attemptVars == <<stage, swap, path, tx, moves>>
vars == <<chain, setting, serverKey, batch, failures, holding, fill, attemptVars>>

NoSwap == [leg |-> "none", close |-> FALSE, slippage |-> 0]
NoPath == [ask |-> <<>>, got |-> <<>>, bitmap |-> FALSE, pool |-> {}, extension |-> FALSE, old |-> {}]
NoTx   == [arrays |-> <<>>, message |-> [payer |-> Pin, ixs |-> <<>>], quoted |-> 0, minOut |-> 0,
           impact |-> 0, signature |-> <<>>]
NoFill == [leg |-> "none", quoted |-> 0, out |-> 0]
Zero   == <<"zero">>  \* the all-zero signature

Idle ==
  stage' = "idle" /\ swap' = NoSwap /\ path' = NoPath /\ tx' = NoTx /\ moves' = 0

Init ==
  /\ \E o \in Openings : \E exists \in {o.initialized, o.initialized \cup Touched} :
       chain = [tick |-> o.tick, initialized |-> o.initialized, existing |-> exists,
                extension |-> \E s \in exists : ~InDefault(s)]
  /\ setting \in Settings
  /\ serverKey = Pin /\ batch = MaxBatch
  /\ stage = "idle" /\ swap = NoSwap /\ path = NoPath /\ tx = NoTx /\ moves = 0
  /\ failures = 0 /\ holding = FALSE /\ fill = NoFill

\* Selling token 0 moves the price down.
Down == (swap.leg = "entry") = setting.wsolFirst

-----------------------------------------------------------------------------
(* The chain and the signer's host *)

Moving == stage \in {"pool", "config", "arrays"} /\ moves < MaxMoves /\ moves' = moves + 1

Opened(s) ==
  /\ Moving /\ s \notin chain.initialized
  /\ chain' = [chain EXCEPT !.initialized = @ \cup {s}, !.existing = @ \cup {s},
                            !.extension = @ \/ ~InDefault(s)]
  /\ UNCHANGED <<setting, serverKey, batch, stage, swap, path, tx, failures, holding, fill>>

\* Its last tick is cleared: the bit goes, the account stays.
Emptied(s) ==
  /\ Moving /\ s \in chain.initialized
  /\ chain' = [chain EXCEPT !.initialized = @ \ {s}]
  /\ UNCHANGED <<setting, serverKey, batch, stage, swap, path, tx, failures, holding, fill>>

\* The server is started again, with the same or another HSM_KEY_B64.
ServerRestarts(k) ==
  /\ stage \in {"idle", "sign"} /\ k # serverKey /\ serverKey' = k
  /\ UNCHANGED <<chain, setting, batch, failures, holding, fill, attemptVars>>

-----------------------------------------------------------------------------
(* The attempt *)

\* Mutant: the exit tolerance grows without end.
ExitSlippageUncapped(n) == BaseSlippage * (1 + n)

\* One step wider per failed exit, capped.
ExitSlippage(n) == Least(BaseSlippage * (1 + n), Greatest(ExitMaxSlippage, BaseSlippage))

\* hsm_pubkey answers and is the pinned wallet; otherwise the loop comes back.
Begin(close) ==
  /\ stage = "idle" /\ serverKey = Pin
  /\ ~holding => ~close
  /\ stage' = "pool"
  /\ swap' = [leg |-> IF holding THEN "exit" ELSE "entry", close |-> close,
              slippage |-> IF holding THEN ExitSlippage(failures) ELSE BaseSlippage]
  /\ path' = [NoPath EXCEPT !.old = chain.existing] /\ fill' = NoFill
  /\ UNCHANGED <<chain, setting, serverKey, batch, tx, failures, holding, moves>>

\* An entry is given up (breaker tripped or entry rejected); a failed exit is counted.
GiveUp ==
  /\ failures' = IF swap.leg = "exit" THEN Least(failures + 1, MaxFailures) ELSE failures
  /\ Idle
  /\ UNCHANGED <<chain, setting, serverKey, holding, fill>>

ReadPool ==
  /\ stage = "pool" /\ stage' = "config"
  /\ path' = [path EXCEPT !.pool = DefaultBits(chain.initialized)]
  /\ UNCHANGED <<chain, setting, serverKey, batch, swap, tx, failures, holding, moves, fill>>

\* Reads AmmConfig and the bitmap extension, and looks for the arrays.
Found ==
  InitializedStarts([default |-> path.pool, loaded |-> chain.extension,
                     extension |-> IF chain.extension THEN ExtensionBits(chain.initialized) ELSE {}],
                    Start(chain.tick), Down)

BeyondDefault ==
  (\E k \in DOMAIN Found : ~InDefault(Found[k])) \/ NeedsBitmapExtension(chain.tick)

ReadConfig ==
  /\ stage = "config" /\ (chain.extension \/ ~BeyondDefault)
  /\ stage' = "arrays"
  /\ path' = [path EXCEPT !.ask = IF Found = <<>> THEN TickArrayCandidates(chain.tick, Down) ELSE Found,
                          !.bitmap = Found # <<>>, !.pool = {}, !.extension = chain.extension]
  /\ UNCHANGED <<chain, setting, serverKey, batch, swap, tx, failures, holding, moves, fill>>

Beyond == stage = "config" /\ ~chain.extension /\ BeyondDefault /\ GiveUp /\ UNCHANGED batch

\* fetch_in_batches: one request of the provider's size at a time.  The node
\* that answers may be behind, and show the accounts of the attempt's start.
Asked == Least(batch, Len(path.ask) - Len(path.got))

FetchBatch(existing) ==
  /\ stage = "arrays" /\ Len(path.got) < Len(path.ask)
  /\ LET n == Len(path.got)
     IN  path' = [path EXCEPT !.got = @ \o [k \in 1..Asked |-> path.ask[n + k] \in existing]]
  /\ UNCHANGED <<chain, setting, serverKey, batch, stage, swap, tx, failures, holding, moves, fill>>

BatchTooLarge ==
  /\ stage = "arrays" /\ Len(path.got) < Len(path.ask) /\ Asked > 1
  /\ batch' = Asked \div 2
  /\ UNCHANGED <<chain, setting, serverKey, failures, holding, fill, attemptVars>>

Selected == SelectTickArrays(path.ask, path.got)

ChooseArrays ==
  /\ stage = "arrays" /\ Len(path.got) = Len(path.ask) /\ Selected # <<>>
  /\ stage' = "quote" /\ tx' = [tx EXCEPT !.arrays = Selected]
  /\ path' = [NoPath EXCEPT !.extension = path.extension]
  /\ UNCHANGED <<chain, setting, serverKey, batch, swap, failures, holding, moves, fill>>

\* The bitmap named arrays that are not there: scan around the current tick.
ScanInstead ==
  /\ stage = "arrays" /\ Len(path.got) = Len(path.ask) /\ Selected = <<>> /\ path.bitmap
  /\ path' = [path EXCEPT !.ask = TickArrayCandidates(chain.tick, Down), !.got = <<>>, !.bitmap = FALSE]
  /\ UNCHANGED <<chain, setting, serverKey, batch, stage, swap, tx, failures, holding, moves, fill>>

NoArrays ==
  /\ stage = "arrays" /\ Len(path.got) = Len(path.ask) /\ Selected = <<>> /\ ~path.bitmap
  /\ GiveUp /\ UNCHANGED batch

\* Any read of the chain may fail.
ReadFails == stage \in {"pool", "config", "arrays"} /\ GiveUp /\ UNCHANGED batch

-----------------------------------------------------------------------------
(* Quote and build *)

Options ==
  [input  |-> IF swap.leg = "entry" THEN "wsol" ELSE "token",
   output |-> IF swap.leg = "entry" THEN "token" ELSE "wsol",
   cuPrice |-> setting.cuPrice, closeInput |-> swap.close,
   tip |-> setting.tip, tipAccount |-> "tip"]

Built(quoted, spot) ==
  [tx EXCEPT !.quoted = quoted, !.minOut = MinOut(quoted, swap.slippage),
             !.impact = IF swap.leg = "entry" THEN PriceImpact(spot, quoted) ELSE 0,
             !.message = SwapTransaction(Options, Pin, Position, MinOut(quoted, swap.slippage))]

\* exact_quote and entry_economics.
QuoteEntry(spot, sim, liquidity) ==
  /\ stage = "quote" /\ swap.leg = "entry" /\ sim > 0
  /\ EntryEconomics(Terms, spot, sim, Position, liquidity)
  /\ stage' = "sign" /\ tx' = Built(sim, spot)
  /\ UNCHANGED <<chain, setting, serverKey, batch, swap, path, failures, holding, moves, fill>>

RejectEntry(spot, sim, liquidity) ==
  /\ stage = "quote" /\ swap.leg = "entry"
  /\ sim = 0 \/ ~EntryEconomics(Terms, spot, sim, Position, liquidity)
  /\ GiveUp /\ UNCHANGED batch

\* An exit without a simulation is quoted at the spot price.
QuoteExit(spot, sim) ==
  /\ stage = "quote" /\ swap.leg = "exit"
  /\ stage' = "sign" /\ tx' = Built(IF sim > 0 THEN sim ELSE spot, spot)
  /\ UNCHANGED <<chain, setting, serverKey, batch, swap, path, failures, holding, moves, fill>>

\* No exit signal.
HoldOn ==
  /\ stage = "quote" /\ swap.leg = "exit" /\ failures' = 0 /\ Idle
  /\ UNCHANGED <<chain, setting, serverKey, batch, holding, fill>>

-----------------------------------------------------------------------------
(* Signature and fill *)

ServerSigns ==
  /\ stage = "sign" /\ tx.signature = <<>> /\ PolicyAllows(tx.message, serverKey)
  /\ tx' = [tx EXCEPT !.signature = <<serverKey, tx.message>>] /\ stage' = "verify"
  /\ UNCHANGED <<chain, setting, serverKey, batch, swap, path, failures, holding, moves, fill>>

\* HTTP 400: the attempt ends.
ServerRefuses ==
  /\ stage = "sign" /\ ~PolicyAllows(tx.message, serverKey) /\ GiveUp /\ UNCHANGED batch

\* The reply is late or lost, whether or not the server signed.
NoAnswer == stage = "sign" /\ GiveUp /\ UNCHANGED batch

\* A server that errs answers with the placeholder or with another key.
Misanswer(signature) ==
  /\ stage = "sign" /\ tx' = [tx EXCEPT !.signature = signature] /\ stage' = "verify"
  /\ UNCHANGED <<chain, setting, serverKey, batch, swap, path, failures, holding, moves, fill>>

\* Mutant: only the placeholder is refused.
VerifySignatureNonZero(t) == t.message.payer = Pin /\ t.signature # Zero

\* verify_hsm_signature: fee payer, placeholder, signature over this message.
VerifySignature(t) ==
  t.message.payer = Pin /\ t.signature # Zero /\ t.signature = <<Pin, t.message>>

Verified ==
  /\ stage = "verify" /\ VerifySignature(tx) /\ stage' = "submit"
  /\ UNCHANGED <<chain, setting, serverKey, batch, swap, path, tx, failures, holding, moves, fill>>

Unverified == stage = "verify" /\ ~VerifySignature(tx) /\ GiveUp /\ UNCHANGED batch

\* The program enforces the minimum; a refused or lost transaction does nothing.
Fills(out) ==
  /\ stage = "submit" /\ out >= tx.minOut
  /\ fill' = [leg |-> swap.leg, quoted |-> tx.quoted, out |-> out]
  /\ holding' = (swap.leg = "entry" \/ ~swap.close)
  /\ failures' = 0 /\ Idle
  /\ UNCHANGED <<chain, setting, serverKey, batch>>

DoesNotFill == stage = "submit" /\ GiveUp /\ UNCHANGED batch

Next ==
  \/ \E s \in Touched : Opened(s) \/ Emptied(s)
  \/ \E k \in {Pin, OtherKey} : ServerRestarts(k)
  \/ \E close \in BOOLEAN : Begin(close)
  \/ ReadPool \/ ReadConfig \/ Beyond \/ BatchTooLarge
  \/ \E existing \in {chain.existing, path.old} : FetchBatch(existing)
  \/ ChooseArrays \/ ScanInstead \/ NoArrays \/ ReadFails
  \/ \E spot \in Outs, sim \in Outs, l \in Liquidities : QuoteEntry(spot, sim, l) \/ RejectEntry(spot, sim, l)
  \/ \E spot \in Outs \ {0}, sim \in Outs : QuoteExit(spot, sim)
  \/ HoldOn
  \/ ServerSigns \/ ServerRefuses \/ NoAnswer
  \/ \E signature \in {Zero, <<OtherKey, tx.message>>} : Misanswer(signature)
  \/ Verified \/ Unverified \/ DoesNotFill
  \/ \E out \in Outs : Fills(out)

Spec == Init /\ [][Next]_vars

-----------------------------------------------------------------------------
(* Properties *)

\* The arrays a swap is built with exist, lie in its direction in order, and,
\* when no array changed while they were looked up and one is initialized
\* ahead, are the next initialized ones: an earlier one left out makes the
\* program reject the swap, an entry and a stop-loss sell alike.
Ahead == {s \in chain.initialized : IF Down THEN s <= Start(chain.tick) ELSE s >= Start(chain.tick)}
Before(s, t) == IF Down THEN s > t ELSE s < t

InDirection(arrays) == \A i, j \in DOMAIN arrays : i < j => Before(arrays[i], arrays[j])

Nearest(arrays) ==
  /\ \A i \in DOMAIN arrays : arrays[i] \in Ahead
  /\ \A s \in Ahead : \/ \E i \in DOMAIN arrays : arrays[i] = s
                     \/ /\ Len(arrays) = MaxSwapArrays
                        /\ \A i \in DOMAIN arrays : Before(arrays[i], s)

ArraysAreNext ==
  tx.arrays # <<>> =>
    /\ \A i \in DOMAIN tx.arrays : tx.arrays[i] \in chain.existing
    /\ InDirection(tx.arrays)
    /\ moves = 0 /\ Ahead # {} => Nearest(tx.arrays)

\* A swap that may leave the range of the pool's own bitmap, through the
\* arrays it names or by scanning from the current tick, carries the extension.
ExtensionSupplied ==
  tx.arrays # <<>> /\ (\/ \E i \in DOMAIN tx.arrays : ~InDefault(tx.arrays[i])
                       \/ \E k \in 0..ScanLength : ~InDefault(Start(chain.tick) + k * Step(Down)))
    => path.extension

\* No swap or sell is built that the program would reject for its accounts.
SwapAccountsSuffice == ArraysAreNext /\ ExtensionSupplied

\* The signer, with the wallet's key, refuses a swap of this process exactly
\* when its outlay or its compute price is past the operator's caps: a policy
\* that misses one of its instructions would leave a position unsold.
Outlay == setting.tip + (IF swap.leg = "entry" THEN Position ELSE 0)

SignsWhatItBuilds ==
  stage = "sign" /\ serverKey = Pin =>
    PolicyAllows(tx.message, Pin) = (Outlay <= MaxTransfer /\ setting.cuPrice <= MaxCuPrice)

\* What is submitted bears the wallet's signature over this very message, of a
\* signer that held the pinned key and found it within its policy.
SubmittedIsSigned ==
  stage = "submit" =>
    /\ tx.signature = <<Pin, tx.message>>
    /\ Outlay <= MaxTransfer /\ setting.cuPrice <= MaxCuPrice

\* However many exits failed before, no fill is worse than its quote by more
\* than the tolerance (the widest one, for an exit).
FillsWithinTolerance ==
  LET keep == Bps - (IF fill.leg = "exit" THEN Greatest(ExitMaxSlippage, BaseSlippage) ELSE BaseSlippage)
  IN  fill.leg # "none" => (fill.out + 1) * Bps > fill.quoted * keep

\* An entry that is built leaves a profit at the take-profit of the minimum
\* edge or more, costs taken without rounding: each of six costs is rounded
\* down by less than one basis point.
EntryPaysOff ==
  LET gain == 100 * Terms.takeProfit - 2 * Terms.feePpm - tx.impact * (100 + Greatest(Terms.exitImpactPct, 100))
      net  == 100 * Bps * Terms.network * (2 + Terms.failedReserve)
  IN  stage = "sign" /\ swap.leg = "entry" =>
        gain * Position - net > 100 * (Terms.minEdge - 6) * Position
=============================================================================
