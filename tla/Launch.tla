-------------------------------- MODULE Launch --------------------------------
(***************************************************************************)
(* How a solana-sniper process comes to run in a mode: started by an       *)
(* operator, or by pool-sniper as the child of one pool.  Its arguments    *)
(* are flags over SNIPER_* variables; the supervisor removes some of these *)
(* from the environment it hands on and sets the flags itself, but a .env  *)
(* file in the working directory is read again by the child, for every     *)
(* variable the environment does not have.  Then main() refuses or starts, *)
(* resolves the fee payer, judges the candidate, signs, and sends (live)   *)
(* or rehearses (dry-run).                                                 *)
(*                                                                         *)
(* The limits of the risk manager are in RiskManager, the quote and the    *)
(* swap in SwapSigning, the lock and the records of a live process in      *)
(* LiveEngine.                                                             *)
(***************************************************************************)
EXTENDS Naturals

CONSTANTS
  OperatorArgs,    \* the arguments an operator starts a process with
  SupervisorArgs,  \* the arguments of pool-sniper
  EnvArgs,         \* what the SNIPER_* variables alone would make of a process
  Floor,           \* MIN_LIQUIDITY_FLOOR_SOL
  WidestStop,      \* 5000 bp
  MinTip           \* MIN_TIP_LAMPORTS

VARIABLES
  supervisor,  \* its arguments, or NoSupervisor
  env,         \* [vars, dotenv] of the supervisor: whether its variables are in ./.env, or NoEnv
  args,        \* of the process, or NoArgs
  phase,       \* off, main, refused, ready, then the loop's mode
  breaker,     \* of the process
  feePayer,    \* the key an iteration builds for
  found,       \* what the iteration has read of its candidate
  tx           \* [by, tip, sent, shown]: the transaction of the iteration

launchVars == <<supervisor, env, args, phase, breaker, feePayer, found, tx>>

NoSupervisor == [mode |-> "none"]
NoArgs == [paper |-> FALSE]
NoEnv  == [dotenv |-> FALSE]
NoKey  == "none"
NoFinding == [price |-> FALSE, token |-> FALSE, onChain |-> FALSE, liquidity |-> 0, entry |-> "none"]
NoTx   == [by |-> NoKey, tip |-> FALSE, sent |-> FALSE, shown |-> FALSE]

\* The arguments that decide how a process runs.  "blank" is a variable that is
\* set to nothing; pool stands for the pool and its mints, all or part of them.
Arguments ==
  [live : BOOLEAN, dry_run : BOOLEAN, paper : BOOLEAN, confirm_live : BOOLEAN,
   hsm : {"none", "blank", "no_tls", "tls"}, expected_signer : {"none", "blank", "bad", "wallet"},
   simulate_payer : {"none", "blank", "bad", "payer"},
   jito_endpoint : BOOLEAN, jito_tip_lamports : Nat, jito_dry_run : BOOLEAN,
   pool : {"none", "blank", "part", "all"}, live_risk_data : BOOLEAN, amm : {"clmm", "pumpswap"},
   trailing_stop_bps : Nat, trailing_activation_bps : Nat, min_liquidity_sol : Nat,
   paper_token_2022 : BOOLEAN]

\* Those of pool-sniper: pollable stands for the form of the GeckoTerminal
\* arguments, counted for intervals and a daily number of pools that are not 0.
Supervisors ==
  [mode : {"paper", "dry_run", "live"}, confirm_live : BOOLEAN, amm : {"clmm", "pumpswap"},
   source : {"logs", "geckoterminal"}, pollable : BOOLEAN, counted : BOOLEAN,
   paper_token_2022 : BOOLEAN, min_liquidity_sol : Nat, discovery_min_liquidity_sol : Nat]

ASSUME ArgumentsAssumption ==
  /\ OperatorArgs \subseteq Arguments /\ EnvArgs \subseteq Arguments
  /\ SupervisorArgs \subseteq Supervisors
  /\ {Floor, WidestStop, MinTip} \subseteq Nat

\* Args::normalized: a blank value is none.
Normalized(a) ==
  [k \in DOMAIN a |->
     IF k \in {"hsm", "expected_signer", "simulate_payer", "pool"} /\ a[k] = "blank" THEN "none" ELSE a[k]]

\* The keys an HSM may answer for: the operator's, or one it fell back to.
HsmKeys == {"wallet", "other"}

-----------------------------------------------------------------------------
(* The supervisor *)

\* validate() of pool_sniper.rs.
SupervisorAccepts(s) ==
  /\ s.mode = "live" => s.confirm_live
  /\ s.amm = "pumpswap" => s.mode = "paper" /\ s.source = "geckoterminal"
  /\ s.paper_token_2022 => s.mode = "paper"
  /\ s.source = "geckoterminal" => s.pollable
  /\ s.min_liquidity_sol >= Floor /\ s.discovery_min_liquidity_sol >= 1
  /\ s.counted

\* What an unset variable makes of each argument child_args sets by a flag.
Unset == [live |-> FALSE, dry_run |-> FALSE, paper |-> FALSE, confirm_live |-> FALSE,
          live_risk_data |-> FALSE, paper_token_2022 |-> FALSE, amm |-> "clmm", pool |-> "none"]

\* Mutant: the pool program is left to the environment.
RemovedButAmm == DOMAIN Unset \ {"amm"}

\* CHILD_ENV_REMOVE.  A .env file brings back what was removed.
Removed == DOMAIN Unset

Inherits(e, mode) ==
  [k \in DOMAIN e.vars |->
     CASE e.dotenv -> e.vars[k]
       [] ~e.dotenv /\ k \in Removed -> Unset[k]
       [] ~e.dotenv /\ k = "simulate_payer" /\ mode # "dry_run" -> "none"
       [] OTHER -> e.vars[k]]

\* token_policy() of pool_sniper.rs.
HandsToken2022(s) == s.paper_token_2022 /\ s.mode = "paper"

\* child_args: a flag can set a Boolean but not clear it, and sets other values.
ChildArgs(s, e) ==
  LET i == Inherits(e, s.mode)
  IN  [i EXCEPT !.paper = @ \/ s.mode = "paper", !.dry_run = @ \/ s.mode = "dry_run",
                !.live = @ \/ s.mode = "live", !.confirm_live = @ \/ s.mode = "live",
                !.pool = "all", !.min_liquidity_sol = s.min_liquidity_sol, !.live_risk_data = TRUE,
                !.paper_token_2022 = @ \/ HandsToken2022(s),
                !.amm = IF s.amm = "pumpswap" /\ s.mode = "paper" THEN "pumpswap" ELSE @]

LaunchInit ==
  /\ supervisor = NoSupervisor /\ env = NoEnv
  /\ args = NoArgs /\ phase = "off" /\ breaker = FALSE /\ feePayer = NoKey
  /\ found = NoFinding /\ tx = NoTx

\* The supervisor reads the same variables: a Boolean that is set there is set
\* for it too.
Supervises ==
  /\ phase = "off" /\ supervisor = NoSupervisor
  /\ supervisor' \in {s \in SupervisorArgs : SupervisorAccepts(s)}
  /\ env' \in [vars : EnvArgs, dotenv : BOOLEAN]
  /\ env'.vars.paper_token_2022 => supervisor'.paper_token_2022
  /\ UNCHANGED <<args, phase, breaker, feePayer, found, tx>>

SpawnChild ==
  /\ phase = "off" /\ supervisor # NoSupervisor
  /\ args' = Normalized(ChildArgs(supervisor, env)) /\ phase' = "main"
  /\ UNCHANGED <<supervisor, env, breaker, feePayer, found, tx>>

OperatorStarts ==
  /\ phase = "off" /\ supervisor = NoSupervisor
  /\ args' \in {Normalized(a) : a \in OperatorArgs} /\ phase' = "main"
  /\ UNCHANGED <<supervisor, env, breaker, feePayer, found, tx>>

-----------------------------------------------------------------------------
(* The checks of main() before its loop *)

ValidateMinLiquidity(a) == a.min_liquidity_sol >= Floor

ValidateTrailingStop(a) ==
  a.trailing_stop_bps > 0 => a.trailing_stop_bps < WidestStop /\ a.trailing_activation_bps > 0

TokenPolicy(a) ==
  a.paper_token_2022 => ~a.live /\ (a.paper \/ (a.dry_run /\ a.amm = "pumpswap"))

ValidateAmm(a) ==
  a.amm = "pumpswap" =>
    /\ ~a.live /\ (a.paper \/ a.dry_run)
    /\ a.dry_run => a.simulate_payer # "none"

ValidatePaperArgs(a) == a.paper => a.pool = "all"

\* validate_signing_config, in its three parts.
OneMode(a)    == ~(a.live /\ a.dry_run) /\ ~(a.paper /\ (a.live \/ a.dry_run))
Armed(a)      == a.live => a.confirm_live
HsmWithTls(a) == (a.live => a.hsm # "none") /\ a.hsm # "no_tls"

\* validate_live_args, in its parts; a pin that cannot be parsed refuses any mode.
ValidateLivePool(a) == a.live => a.pool = "all" /\ a.live_risk_data
\* Mutant: a live process needs no pin.
PinnedOrNot(a) == a.expected_signer # "bad"

Pinned(a) == a.expected_signer # "bad" /\ (a.live => a.expected_signer # "none")

SimulatePayer(a) == a.simulate_payer # "none" => a.dry_run /\ a.simulate_payer # "bad"

UsesJito(a) == a.jito_endpoint /\ (a.live \/ a.dry_run) /\ ~a.jito_dry_run
EnoughTip(a) == UsesJito(a) => a.jito_tip_lamports >= MinTip

Checks(a) ==
  [liquidity |-> ValidateMinLiquidity(a), trailing |-> ValidateTrailingStop(a),
   token |-> TokenPolicy(a), amm |-> ValidateAmm(a), paper |-> ValidatePaperArgs(a),
   mode |-> OneMode(a), armed |-> Armed(a), hsm |-> HsmWithTls(a), pool |-> ValidateLivePool(a),
   pin |-> Pinned(a), payer |-> SimulatePayer(a), jito |-> EnoughTip(a)]
Refusals(a) == {c \in DOMAIN Checks(a) : ~Checks(a)[c]}

ModeOf(a) == CASE a.live -> "live" [] ~a.live /\ a.paper -> "paper"
               [] ~a.live /\ ~a.paper /\ a.dry_run -> "dry_run" [] OTHER -> "simulation"

\* A check fails; or a live process without a position on record finds the HSM
\* down, or another key in it; or the wallet file cannot be read; or a live
\* process cannot learn the tip accounts.
Refuses ==
  /\ phase = "main" /\ phase' = "refused"
  /\ \/ Refusals(args) # {}
     \/ args.live
     \/ args.dry_run /\ args.hsm = "none" /\ args.simulate_payer = "none"
  /\ UNCHANGED <<supervisor, env, args, breaker, feePayer, found, tx>>

\* A dry-run that cannot learn the tip accounts builds without a tip.
Starts(tip) ==
  /\ phase = "main" /\ Refusals(args) = {} /\ phase' = "ready"
  /\ tip => UsesJito(args)
  /\ UsesJito(args) /\ args.live => tip
  /\ tx' = [NoTx EXCEPT !.tip = tip]
  /\ UNCHANGED <<supervisor, env, args, breaker, feePayer, found>>

\* The loop does not read the environment again.
EntersLoop ==
  /\ phase = "ready" /\ ~args.paper /\ phase' = ModeOf(args) /\ env' = NoEnv
  /\ UNCHANGED <<supervisor, args, breaker, feePayer, found, tx>>

-----------------------------------------------------------------------------
(* The iteration of a live or dry-run process *)

Iterating == phase \in {"live", "dry_run"} /\ ~(phase = "dry_run" /\ args.amm = "pumpswap")

\* The iteration is over; a fault also trips the breaker.
Rejected ==
  /\ feePayer' = NoKey /\ found' = NoFinding /\ tx' = [NoTx EXCEPT !.tip = tx.tip]
  /\ UNCHANGED <<supervisor, env, args, phase, breaker>>

Trips ==
  /\ feePayer' = NoKey /\ found' = NoFinding /\ tx' = [NoTx EXCEPT !.tip = tx.tip]
  /\ breaker' = TRUE
  /\ UNCHANGED <<supervisor, env, args, phase>>

BreakerResets ==
  /\ breaker /\ breaker' = FALSE
  /\ UNCHANGED <<supervisor, env, args, phase, feePayer, found, tx>>

\* The HSM answers for key k (NoKey: it does not answer).
SignerOf(k) ==
  CASE args.simulate_payer # "none" -> args.simulate_payer
    [] args.simulate_payer = "none" /\ args.hsm = "none" -> "local"
    [] OTHER -> IF args.expected_signer \in {"none", k} THEN k ELSE NoKey

ResolvesSigner(k) ==
  /\ Iterating /\ ~breaker /\ feePayer = NoKey
  /\ \/ SignerOf(k) = NoKey /\ Trips
     \/ /\ SignerOf(k) # NoKey /\ feePayer' = SignerOf(k)
        /\ UNCHANGED <<supervisor, env, args, phase, breaker, found, tx>>

Judging == Iterating /\ feePayer # NoKey /\ found.entry = "none"

Finds(f) == found' = f /\ UNCHANGED <<supervisor, env, args, phase, breaker, feePayer, tx>>

\* The price, from the feed if it is connected and knows the pool, or else from
\* a node; a pool without its mints ends the process.
ReadsPrice(answer) ==
  /\ Judging /\ args.pool # "none" /\ ~found.price
  /\ \/ /\ args.pool = "part" /\ phase' = "refused"
        /\ UNCHANGED <<supervisor, env, args, breaker, feePayer, found, tx>>
     \/ args.pool = "all" /\ answer = "good" /\ Finds([found EXCEPT !.price = TRUE])
     \/ args.pool = "all" /\ answer = "bad" /\ Rejected   \* stale
     \/ args.pool = "all" /\ answer = "none" /\ Trips

\* The swap's accounts, and the mint and freeze authority of both mints.
ReadsToken(answer) ==
  /\ Judging /\ found.price /\ ~found.token
  /\ \/ answer = "good" /\ Finds([found EXCEPT !.token = TRUE])
     \/ answer = "bad" /\ Rejected
     \/ answer = "none" /\ Trips

\* The input vault's balance and the holders of the token.
ReadsRiskData(answer, liquidity) ==
  /\ Judging /\ found.token /\ args.live_risk_data /\ ~found.onChain
  /\ \/ answer = "good" /\ Finds([found EXCEPT !.onChain = TRUE, !.liquidity = liquidity])
     \/ answer = "bad" /\ Rejected
     \/ answer = "none" /\ Trips

CandidateRead ==
  IF args.pool = "none" THEN TRUE ELSE found.token /\ (args.live_risk_data => found.onChain)

\* SimpleSnipeStrategy::evaluate; listed: on a blocklist, or too concentrated.
StrategyAccepts(liquidity, listed) == ~listed /\ liquidity >= args.min_liquidity_sol

\* The strategy takes the candidate, on the liquidity read or the one of the
\* command line.  Without a pool a dry-run goes on in any case, to exercise
\* the signer.
Evaluates(liquidity, listed) ==
  /\ Judging /\ CandidateRead
  /\ LET l == IF found.onChain THEN found.liquidity ELSE liquidity
     IN  IF StrategyAccepts(l, listed)
         THEN Finds([found EXCEPT !.entry = "strategy"])
         ELSE IF args.pool = "none" /\ ~args.live
         THEN Finds([found EXCEPT !.entry = "smoke"])
         ELSE Rejected

\* sign_and_verify: the signature must be of the key the transaction was built for.
SignAndVerify(k) ==
  /\ Iterating /\ found.entry # "none" /\ tx.by = NoKey /\ args.simulate_payer = "none"
  /\ LET by == IF args.hsm = "tls" THEN k ELSE "local"
     IN  IF by = feePayer
         THEN tx' = [tx EXCEPT !.by = by] /\ UNCHANGED <<supervisor, env, args, phase, breaker, feePayer, found>>
         ELSE Trips

SubmitLiveTx ==
  /\ phase = "live" /\ tx.by # NoKey /\ ~tx.sent
  /\ args.live /\ args.confirm_live /\ ~args.paper /\ ~args.dry_run
  /\ tx' = [tx EXCEPT !.sent = TRUE]
  /\ UNCHANGED <<supervisor, env, args, phase, breaker, feePayer, found>>

\* Prints the transaction and simulates it, the exit, and the exit of a holder,
\* none of which a failed simulation stops.
Rehearses ==
  /\ phase = "dry_run" /\ Iterating /\ found.entry # "none" /\ ~tx.shown
  /\ tx.by # NoKey \/ args.simulate_payer # "none"
  /\ tx' = [tx EXCEPT !.shown = TRUE]
  /\ UNCHANGED <<supervisor, env, args, phase, breaker, feePayer, found>>

\* The signal gate, a cap, the risk manager or the quote refuses, or the
\* iteration is over.
NextIteration == Iterating /\ found.entry # "none" /\ Rejected

LaunchNext ==
  \/ Supervises \/ OperatorStarts \/ SpawnChild \/ Refuses \/ EntersLoop
  \/ BreakerResets \/ SubmitLiveTx \/ Rehearses \/ NextIteration
  \/ \E t \in BOOLEAN : Starts(t)
  \/ \E k \in HsmKeys \cup {NoKey} : ResolvesSigner(k) \/ SignAndVerify(k)
  \/ \E answer \in {"good", "bad", "none"} :
       \/ ReadsPrice(answer) \/ ReadsToken(answer)
       \/ \E l \in 0..Floor + 1 : ReadsRiskData(answer, l)
  \/ \E l \in 0..Floor + 1, listed \in BOOLEAN : Evaluates(l, listed)

-----------------------------------------------------------------------------
(* Properties *)

\* Only a process that everyone who had a say in armed for live sends anything:
\* the operator's flags or the supervisor's, the pinned key, a tip if it goes
\* through Jito, and an entry on the liquidity this iteration read on chain, at
\* or above their floor.  The wallet file signs for a dry-run without an HSM
\* only, and a paper or simulating process signs nothing.
OnlyArmedLiveSends ==
  /\ tx.sent =>
       /\ args.live /\ args.confirm_live /\ args.pool = "all"
       /\ found.entry = "strategy" /\ found.onChain /\ found.liquidity >= Floor
       /\ tx.by = "wallet" /\ (UsesJito(args) => tx.tip)
       /\ supervisor # NoSupervisor => 
            /\ supervisor.mode = "live" /\ supervisor.confirm_live
            /\ found.liquidity >= supervisor.min_liquidity_sol
  /\ tx.by = "local" => args.dry_run /\ args.hsm = "none"
  /\ tx.by # NoKey => ~args.paper /\ (args.live \/ args.dry_run)

\* A child that gets to its loop runs in the mode, with the token policy and
\* the liquidity floor of its supervisor; and without a .env file also on its
\* pool program, and nothing the supervisor accepted or set makes it refuse.
ChildIsAsConfigured ==
  supervisor # NoSupervisor =>
    /\ phase = "ready" =>
         /\ ModeOf(args) = supervisor.mode
         /\ args.paper_token_2022 = supervisor.paper_token_2022
         /\ args.min_liquidity_sol = supervisor.min_liquidity_sol
         /\ ~env.dotenv => args.amm = supervisor.amm
    /\ phase \in {"main", "ready", "refused"} /\ ~env.dotenv =>
         Refusals(args) \subseteq {"trailing", "hsm", "pin", "payer", "jito"}
=============================================================================
