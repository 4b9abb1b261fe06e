----------------------------- MODULE ProcessProofs -----------------------------
(***************************************************************************)
(* Theorems about a process from its start to the end of its paper loop:   *)
(* how it is armed, for any sets of arguments of operators, supervisors    *)
(* and environments, and what its paper loop decides on and books, for any *)
(* prices, liquidities, clocks, thresholds and widths of a word.           *)
(*                                                                         *)
(* The argument for the start: past main() every check has passed, so the  *)
(* mode of the loop fixes the flags; what an iteration holds (the key it   *)
(* builds for, what it read of its candidate, the transaction) was made    *)
(* under them, by that iteration.                                          *)
(***************************************************************************)
EXTENDS PaperProcess, FiniteSetTheorems, TLAPS

\* The fields of arguments that the checks and the loop read.
Typed(a) ==
  /\ {a.live, a.dry_run, a.paper, a.confirm_live, a.live_risk_data, a.paper_token_2022} \subseteq BOOLEAN
  /\ a.hsm \in {"none", "no_tls", "tls"}
  /\ a.expected_signer \in {"none", "bad", "wallet"}
  /\ a.simulate_payer \in {"none", "bad", "payer"}
  /\ a.pool \in {"none", "part", "all"} /\ a.amm \in {"clmm", "pumpswap"}
  /\ a.min_liquidity_sol \in Nat

Passed(a) ==
  /\ ValidateMinLiquidity(a) /\ ValidateTrailingStop(a) /\ TokenPolicy(a) /\ ValidateAmm(a)
  /\ ValidatePaperArgs(a) /\ OneMode(a) /\ Armed(a) /\ HsmWithTls(a) /\ ValidateLivePool(a)
  /\ Pinned(a) /\ SimulatePayer(a) /\ EnoughTip(a)

\* The child's arguments, whatever the environment.
Handed(a, s) ==
  /\ s \in Supervisors /\ SupervisorAccepts(s)
  /\ a.pool = "all" /\ a.live_risk_data /\ a.min_liquidity_sol = s.min_liquidity_sol
  /\ a.paper_token_2022 = s.paper_token_2022
  /\ s.mode = "paper" => a.paper
  /\ s.mode = "dry_run" => a.dry_run
  /\ s.mode = "live" => a.live

\* And without a .env file.
Exact(a, s) ==
  /\ a.live = (s.mode = "live") /\ a.dry_run = (s.mode = "dry_run") /\ a.paper = (s.mode = "paper")
  /\ a.confirm_live = (s.mode = "live") /\ a.amm = s.amm
  /\ a.simulate_payer # "none" => s.mode = "dry_run"

Loops == {"live", "dry_run", "simulation"}

\* How far the process is, and what it was started with.
Launched ==
  /\ phase \in {"off", "main", "refused", "ready", "paper"} \cup Loops
  /\ phase = "off" /\ supervisor # NoSupervisor =>
       /\ supervisor \in Supervisors /\ SupervisorAccepts(supervisor)
       /\ env.vars \in Arguments /\ env.dotenv \in BOOLEAN
       /\ env.vars.paper_token_2022 => supervisor.paper_token_2022
  /\ phase \notin {"off", "paper"} => Typed(args)
  /\ phase \notin {"off", "paper"} /\ supervisor # NoSupervisor => Handed(args, supervisor)
  /\ phase = "paper" => supervisor = NoSupervisor
  /\ phase \in {"ready"} \cup Loops => Refusals(args) = {}
  /\ phase = "live" => args.live
  /\ phase = "dry_run" => ~args.live /\ ~args.paper /\ args.dry_run
  /\ phase \in {"main", "ready", "refused"} /\ supervisor # NoSupervisor /\ ~env.dotenv =>
       Exact(args, supervisor) \/ Refusals(args) = {}
  /\ phase \in {"main", "ready"} /\ supervisor # NoSupervisor /\ ~env.dotenv => Exact(args, supervisor)

\* The key an iteration may build for.
RightKey(k) ==
  \/ args.simulate_payer # "none"
  \/ args.hsm = "none" /\ k = "local"
  \/ k \in HsmKeys /\ args.expected_signer \in {"none", k}

\* What the iteration holds.
Iteration ==
  /\ found \in [price : BOOLEAN, token : BOOLEAN, onChain : BOOLEAN, liquidity : Nat,
                entry : {"none", "strategy", "smoke"}]
  /\ tx \in [by : HsmKeys \cup {NoKey, "local"}, tip : BOOLEAN, sent : BOOLEAN, shown : BOOLEAN]
  /\ phase \notin {"live", "dry_run", "refused"} => feePayer = NoKey /\ found = NoFinding
  /\ phase \notin {"live", "dry_run"} => found.entry = "none"
  /\ phase \in {"ready", "live"} /\ args.live /\ UsesJito(args) => tx.tip
  /\ phase = "live" /\ found.entry # "none" =>
       /\ found.entry = "strategy" /\ found.onChain
       /\ found.liquidity >= args.min_liquidity_sol
  /\ phase \in {"live", "dry_run"} /\ feePayer # NoKey => RightKey(feePayer)
  /\ found.entry # "none" => feePayer # NoKey
  /\ found.entry = "none" => tx.by = NoKey
  /\ tx.by # NoKey => /\ tx.by = feePayer /\ args.simulate_payer = "none"
                      /\ tx.by = "local" => args.hsm = "none"
  /\ tx.sent => phase = "live" /\ tx.by # NoKey

LaunchInv == Launched /\ Iteration

-----------------------------------------------------------------------------

LEMMA NormalizedFields ==
  ASSUME NEW a \in Arguments
  PROVE  LET n == Normalized(a)
         IN  /\ Typed(n)
             /\ n.live = a.live /\ n.dry_run = a.dry_run /\ n.paper = a.paper
             /\ n.confirm_live = a.confirm_live /\ n.amm = a.amm
             /\ n.paper_token_2022 = a.paper_token_2022 /\ n.live_risk_data = a.live_risk_data
             /\ n.min_liquidity_sol = a.min_liquidity_sol
             /\ a.pool = "all" => n.pool = "all"
             /\ a.simulate_payer = "none" => n.simulate_payer = "none"
BY DEF Normalized, Arguments, Typed

\* Nothing refuses exactly when every check passes.
LEMMA PassedChecks == ASSUME NEW a, Refusals(a) = {} PROVE Passed(a)
BY DEF Refusals, Checks, Passed

\* Whatever the environment, the child gets the supervisor's pool, floor and
\* token policy, and its mode among others.
LEMMA ChildHanded ==
  ASSUME NEW s \in Supervisors, SupervisorAccepts(s), NEW e, e.vars \in Arguments, e.dotenv \in BOOLEAN,
         e.vars.paper_token_2022 => s.paper_token_2022
  PROVE  /\ ChildArgs(s, e) \in Arguments
         /\ Handed(Normalized(ChildArgs(s, e)), s)
         /\ ~e.dotenv => Exact(Normalized(ChildArgs(s, e)), s)
<1> DEFINE i == Inherits(e, s.mode)
           c == ChildArgs(s, e)
<1>1. i \in Arguments
  BY DEF Inherits, Arguments, Removed, Unset
<1>2. /\ i.paper_token_2022 => s.paper_token_2022
      /\ ~e.dotenv => /\ i.live = FALSE /\ i.dry_run = FALSE /\ i.paper = FALSE
                      /\ i.confirm_live = FALSE /\ i.paper_token_2022 = FALSE /\ i.amm = "clmm"
                      /\ s.mode # "dry_run" => i.simulate_payer = "none"
  BY DEF Inherits, Arguments, Removed, Unset
<1> DEFINE paper == i.paper \/ s.mode = "paper"    dry_run == i.dry_run \/ s.mode = "dry_run"
           live  == i.live \/ s.mode = "live"       confirm == i.confirm_live \/ s.mode = "live"
           token == i.paper_token_2022 \/ HandsToken2022(s)
           amm   == IF s.amm = "pumpswap" /\ s.mode = "paper" THEN "pumpswap" ELSE i.amm
<1>3. c = [i EXCEPT !.paper = paper, !.dry_run = dry_run, !.live = live, !.confirm_live = confirm,
                    !.pool = "all", !.min_liquidity_sol = s.min_liquidity_sol, !.live_risk_data = TRUE,
                    !.paper_token_2022 = token, !.amm = amm]
  BY DEF ChildArgs
<1> HIDE DEF i, c
<1>4. s.min_liquidity_sol \in Nat /\ s.mode \in {"paper", "dry_run", "live"} /\ s.amm \in {"clmm", "pumpswap"}
      /\ s.paper_token_2022 = HandsToken2022(s) /\ (s.amm = "pumpswap" => s.mode = "paper")
  BY DEF Supervisors, SupervisorAccepts, HandsToken2022
<1>5. /\ {paper, dry_run, live, confirm, token} \subseteq BOOLEAN /\ amm \in {"clmm", "pumpswap"}
      /\ s.mode = "paper" => paper = TRUE
      /\ s.mode = "dry_run" => dry_run = TRUE
      /\ s.mode = "live" => live = TRUE
      /\ token = s.paper_token_2022
      /\ ~e.dotenv => /\ live = (s.mode = "live") /\ dry_run = (s.mode = "dry_run")
                      /\ paper = (s.mode = "paper") /\ confirm = (s.mode = "live") /\ amm = s.amm
  <2>1. i.amm \in {"clmm", "pumpswap"} /\ i.paper_token_2022 \in BOOLEAN /\ s.paper_token_2022 \in BOOLEAN
    BY <1>1 DEF Arguments, Supervisors
  <2>2. paper \in BOOLEAN /\ dry_run \in BOOLEAN /\ live \in BOOLEAN /\ confirm \in BOOLEAN /\ token \in BOOLEAN
    OBVIOUS
  <2>3. token = s.paper_token_2022
    BY <1>2, <1>4, <2>1
  <2>4. amm \in {"clmm", "pumpswap"} /\ (~e.dotenv => amm = s.amm)
    BY <1>2, <1>4, <2>1
  <2> QED
    BY <1>2, <2>2, <2>3, <2>4
<1> HIDE DEF paper, dry_run, live, confirm, token, amm
<1>8. c \in Arguments
  <2>1. paper \in BOOLEAN /\ dry_run \in BOOLEAN /\ live \in BOOLEAN /\ confirm \in BOOLEAN /\ token \in BOOLEAN
    BY <1>5
  <2> DEFINE a == [i EXCEPT !.paper = paper, !.dry_run = dry_run]
             b == [a EXCEPT !.live = live, !.confirm_live = confirm]
             d == [b EXCEPT !.live_risk_data = TRUE, !.paper_token_2022 = token]
             f == [d EXCEPT !.pool = "all"]
             g == [f EXCEPT !.min_liquidity_sol = s.min_liquidity_sol]
  <2>2. c = [g EXCEPT !.amm = amm]
    BY <1>3
  <2>3. a \in Arguments
    BY <1>1, <2>1 DEF Arguments
  <2> HIDE DEF a
  <2>4. b \in Arguments
    BY <2>1, <2>3 DEF Arguments
  <2> HIDE DEF b
  <2>5. d \in Arguments
    BY <2>1, <2>4 DEF Arguments
  <2> HIDE DEF d
  <2>6. f \in Arguments
    BY <2>5 DEF Arguments
  <2> HIDE DEF f
  <2>7. g \in Arguments
    BY <1>4, <2>6 DEF Arguments
  <2> HIDE DEF g
  <2> QED
    BY <1>5, <2>2, <2>7 DEF Arguments
<1>6. Handed(c, s)
  BY <1>1, <1>3, <1>5 DEF Arguments, Handed
<1>7. ~e.dotenv => Exact(c, s)
  BY <1>1, <1>2, <1>3, <1>5 DEF Arguments, Exact
<1> QED
  BY <1>6, <1>7, <1>8, NormalizedFields DEF Handed, Exact, c

-----------------------------------------------------------------------------

LEMMA InitLaunch == ProcessInit => LaunchInv
BY DEF ProcessInit, LaunchInit, LaunchInv, Launched, Iteration, NoSupervisor, NoFinding, NoTx, NoKey, HsmKeys, Loops

\* The ways to a process: by an operator, or by a supervisor.
LEMMA StartKeeps ==
  ASSUME LaunchInv, Supervises \/ OperatorStarts \/ SpawnChild
  PROVE  LaunchInv'
<1> USE DEF LaunchInv, Loops
<1>1. phase = "off" /\ UNCHANGED <<feePayer, found, tx>> /\ phase' \in {"off", "main"}
  BY DEF Supervises, OperatorStarts, SpawnChild
<1>2. Iteration'
  BY <1>1 DEF Iteration, NoKey, NoTx, HsmKeys
<1>3. CASE Supervises
  <2>1. supervisor' \in Supervisors /\ SupervisorAccepts(supervisor')
        /\ env'.vars \in Arguments /\ env'.dotenv \in BOOLEAN
        /\ (env'.vars.paper_token_2022 => supervisor'.paper_token_2022) /\ phase' = "off"
    BY <1>3, ArgumentsAssumption DEF Supervises, ArgumentsAssumption
  <2> QED
    BY <1>2, <2>1 DEF Launched
<1>4. CASE OperatorStarts
  <2>1. PICK a \in Arguments : args' = Normalized(a)
    BY <1>4, ArgumentsAssumption DEF OperatorStarts, ArgumentsAssumption
  <2>2. Typed(args')
    BY <2>1, NormalizedFields
  <2> QED
    BY <1>2, <1>4, <2>2 DEF OperatorStarts, Launched
<1>5. CASE SpawnChild
  <2>1. /\ args' = Normalized(ChildArgs(supervisor, env)) /\ phase' = "main" /\ UNCHANGED <<supervisor, env>>
        /\ ChildArgs(supervisor, env) \in Arguments
        /\ Handed(args', supervisor) /\ (~env.dotenv => Exact(args', supervisor))
    BY <1>1, <1>5, ChildHanded DEF SpawnChild, Launched
  <2>2. Typed(args')
    BY <2>1, NormalizedFields
  <2> QED
    BY <1>2, <2>1, <2>2 DEF Launched
<1> QED
  BY <1>3, <1>4, <1>5

\* main() up to its loop.
LEMMA MainKeeps ==
  ASSUME LaunchInv, Refuses \/ (\E t \in BOOLEAN : Starts(t)) \/ EntersLoop \/ BeginsPaper
  PROVE  LaunchInv'
<1> USE DEF LaunchInv, Loops
<1>1. CASE Refuses
  BY <1>1 DEF Refuses, Launched, Iteration
<1>2. ASSUME NEW t \in BOOLEAN, Starts(t) PROVE LaunchInv'
  <2>1. Launched'
    BY <1>2 DEF Starts, Launched
  <2>2. UNCHANGED <<feePayer, found, args>> /\ phase = "main" /\ phase' = "ready"
        /\ tx' = [by |-> NoKey, tip |-> t, sent |-> FALSE, shown |-> FALSE]
        /\ (UsesJito(args) /\ args.live => t)
    BY <1>2 DEF Starts, NoTx
  <2>3. UsesJito(args)' = UsesJito(args)
    BY <2>2 DEF UsesJito
  <2> QED
    BY <2>1, <2>2, <2>3 DEF Iteration
<1>3. CASE EntersLoop
  <2>1. /\ phase = "ready" /\ ~args.paper /\ phase' \in Loops /\ UNCHANGED <<supervisor, args, feePayer, found, tx>>
        /\ phase' = "live" => args.live
        /\ phase' = "dry_run" => ~args.live /\ args.dry_run
    BY <1>3 DEF EntersLoop, ModeOf, Launched, Typed
  <2>2. Launched'
    BY <2>1 DEF Launched
  <2>3. UsesJito(args)' = UsesJito(args)
    BY <2>1 DEF UsesJito
  <2> QED
    BY <2>1, <2>2, <2>3 DEF Iteration, NoFinding
<1>4. CASE BeginsPaper
  BY <1>4 DEF BeginsPaper, Launched, Iteration, NoSupervisor, NoTx, NoKey, HsmKeys
<1> QED
  BY <1>1, <1>2, <1>3, <1>4

\* A step of an iteration that leaves the process as it was started.
LEMMA LoopKeeps ==
  ASSUME LaunchInv, phase \in {"live", "dry_run"}, UNCHANGED <<supervisor, env, args, phase>>
  PROVE  Launched' /\ UsesJito(args)' = UsesJito(args) /\ (\A k : RightKey(k)' = RightKey(k))
<1>1. Launched'
  BY DEF LaunchInv, Launched
<1> QED
  BY <1>1 DEF UsesJito, RightKey

\* The end of an iteration.
LEMMA OverKeeps ==
  ASSUME LaunchInv, phase \in {"live", "dry_run"}, Rejected \/ Trips
  PROVE  LaunchInv'
<1>1. /\ UNCHANGED <<supervisor, env, args, phase>> /\ feePayer' = NoKey /\ found' = NoFinding
      /\ tx' = [by |-> NoKey, tip |-> tx.tip, sent |-> FALSE, shown |-> FALSE]
  BY DEF Rejected, Trips, NoTx
<1>2. Launched' /\ UsesJito(args)' = UsesJito(args)
  BY <1>1, LoopKeeps
<1> QED
  BY <1>1, <1>2 DEF LaunchInv, Iteration, NoFinding

\* What is found about the candidate before it is judged.
LEMMA FindsKeeps ==
  ASSUME LaunchInv, Judging, NEW f, Finds(f), f.entry = "none",
         f \in [price : BOOLEAN, token : BOOLEAN, onChain : BOOLEAN, liquidity : Nat,
                entry : {"none", "strategy", "smoke"}]
  PROVE  LaunchInv'
<1>1. /\ phase \in {"live", "dry_run"} /\ feePayer # NoKey /\ found.entry = "none" /\ found' = f
      /\ UNCHANGED <<supervisor, env, args, phase, feePayer, tx>>
  BY DEF Judging, Iterating, Finds
<1>2. Launched' /\ UsesJito(args)' = UsesJito(args) /\ RightKey(feePayer)' = RightKey(feePayer)
  BY <1>1, LoopKeeps DEF RightKey
<1> QED
  BY <1>1, <1>2 DEF LaunchInv, Iteration

\* Past main() a live process has a pool, reads its risk data, is pinned and
\* signs by an HSM.
LEMMA LiveIsChecked ==
  ASSUME Launched, phase = "live"
  PROVE  /\ args.live /\ args.confirm_live /\ ~args.dry_run /\ ~args.paper /\ args.pool = "all" /\ args.live_risk_data
         /\ args.expected_signer = "wallet" /\ args.simulate_payer = "none" /\ args.hsm = "tls"
         /\ args.min_liquidity_sol >= Floor
<1>1. Typed(args) /\ Passed(args) /\ args.live
  BY PassedChecks DEF Launched, Loops
<1> QED
  BY <1>1 DEF Typed, Passed, OneMode, Armed, ValidateLivePool, Pinned, SimulatePayer, HsmWithTls, ValidateMinLiquidity

\* One step of an iteration.
LEMMA IterationKeeps ==
  ASSUME LaunchInv,
         \/ \E k \in HsmKeys \cup {NoKey} : ResolvesSigner(k) \/ SignAndVerify(k)
         \/ \E answer \in {"good", "bad", "none"} :
              \/ ReadsPrice(answer) \/ ReadsToken(answer)
              \/ \E l \in 0..Floor + 1 : ReadsRiskData(answer, l)
         \/ \E l \in 0..Floor + 1, listed \in BOOLEAN : Evaluates(l, listed)
         \/ SubmitLiveTx \/ Rehearses \/ NextIteration
  PROVE  LaunchInv'
<1>0. Floor \in Nat
  BY ArgumentsAssumption DEF ArgumentsAssumption
<1>1. ASSUME NEW k \in HsmKeys \cup {NoKey}, ResolvesSigner(k) PROVE LaunchInv'
  <2>1. phase \in {"live", "dry_run"} /\ feePayer = NoKey /\ UNCHANGED <<supervisor, env, args, phase>>
    BY <1>1 DEF ResolvesSigner, Iterating, Trips
  <2>2. CASE Trips
    BY <2>1, <2>2, OverKeeps
  <2>3. CASE feePayer' = SignerOf(k) /\ SignerOf(k) # NoKey /\ UNCHANGED <<found, tx>>
    <3>1. RightKey(SignerOf(k))
      BY <2>3 DEF SignerOf, RightKey, NoKey
    <3>2. found.entry = "none" /\ tx.by = NoKey
      BY <2>1 DEF LaunchInv, Iteration
    <3>3. Launched' /\ UsesJito(args)' = UsesJito(args) /\ RightKey(feePayer)'
      BY <2>1, <2>3, <3>1, LoopKeeps DEF RightKey
    <3> QED
      BY <2>1, <2>3, <3>2, <3>3 DEF LaunchInv, Iteration
  <2> QED
    BY <1>1, <2>2, <2>3 DEF ResolvesSigner
<1>2. ASSUME NEW answer \in {"good", "bad", "none"}, ReadsPrice(answer) PROVE LaunchInv'
  <2>1. phase \in {"live", "dry_run"} /\ Judging /\ found.entry = "none"
    BY <1>2 DEF ReadsPrice, Judging, Iterating
  <2>2. CASE phase' = "refused" /\ UNCHANGED <<supervisor, env, args, breaker, feePayer, found, tx>>
    <3>1. tx.by = NoKey /\ Refusals(args) = {}
      BY <2>1 DEF LaunchInv, Iteration, Launched, Loops
    <3> QED
      BY <2>1, <2>2, <3>1 DEF LaunchInv, Iteration, Launched, Loops
  <2>3. CASE Finds([found EXCEPT !.price = TRUE])
    BY <2>1, <2>3, FindsKeeps DEF LaunchInv, Iteration
  <2>4. CASE Rejected \/ Trips
    BY <2>1, <2>4, OverKeeps
  <2> QED
    BY <1>2, <2>2, <2>3, <2>4 DEF ReadsPrice
<1>3. ASSUME NEW answer \in {"good", "bad", "none"}, ReadsToken(answer) PROVE LaunchInv'
  <2>1. phase \in {"live", "dry_run"} /\ Judging /\ found.entry = "none"
    BY <1>3 DEF ReadsToken, Judging, Iterating
  <2>2. CASE Finds([found EXCEPT !.token = TRUE])
    BY <2>1, <2>2, FindsKeeps DEF LaunchInv, Iteration
  <2>3. CASE Rejected \/ Trips
    BY <2>1, <2>3, OverKeeps
  <2> QED
    BY <1>3, <2>2, <2>3 DEF ReadsToken
<1>4. ASSUME NEW answer \in {"good", "bad", "none"}, NEW l \in 0..Floor + 1, ReadsRiskData(answer, l)
      PROVE  LaunchInv'
  <2>1. phase \in {"live", "dry_run"} /\ Judging /\ found.entry = "none" /\ l \in Nat
    <3>1. Judging
      BY <1>4 DEF ReadsRiskData
    <3>2. l \in Nat
      BY <1>0
    <3> QED
      BY <3>1, <3>2 DEF Judging, Iterating
  <2>2. CASE Finds([found EXCEPT !.onChain = TRUE, !.liquidity = l])
    BY <2>1, <2>2, FindsKeeps DEF LaunchInv, Iteration
  <2>3. CASE Rejected \/ Trips
    BY <2>1, <2>3, OverKeeps
  <2> QED
    BY <1>4, <2>2, <2>3 DEF ReadsRiskData
<1>5. ASSUME NEW l \in 0..Floor + 1, NEW listed \in BOOLEAN, Evaluates(l, listed) PROVE LaunchInv'
  <2>1. phase \in {"live", "dry_run"} /\ Judging /\ feePayer # NoKey /\ found.entry = "none" /\ CandidateRead
    BY <1>5 DEF Evaluates, Judging, Iterating
  <2>2. CASE Rejected
    BY <2>1, <2>2, OverKeeps
  <2>3. ASSUME NEW e \in {"strategy", "smoke"}, Finds([found EXCEPT !.entry = e]),
               phase = "live" => /\ e = "strategy" /\ found.onChain
                                 /\ found.liquidity >= args.min_liquidity_sol
        PROVE  LaunchInv'
    <3>1. UNCHANGED <<supervisor, env, args, phase, feePayer, tx>> /\ found' = [found EXCEPT !.entry = e]
      BY <2>3 DEF Finds
    <3>2. Launched' /\ UsesJito(args)' = UsesJito(args) /\ RightKey(feePayer)' = RightKey(feePayer)
      BY <2>1, <3>1, LoopKeeps DEF RightKey
    <3>3. tx.by = NoKey
      BY <2>1 DEF LaunchInv, Iteration
    <3> QED
      BY <2>1, <2>3, <3>1, <3>2, <3>3 DEF LaunchInv, Iteration
  <2>4. phase = "live" => args.live /\ args.pool # "none" /\ found.onChain
    BY <2>1, LiveIsChecked DEF CandidateRead, LaunchInv
  <2>5. CASE Finds([found EXCEPT !.entry = "strategy"]) /\ (found.onChain => StrategyAccepts(found.liquidity, listed))
    BY <2>3, <2>4, <2>5 DEF StrategyAccepts
  <2>6. CASE Finds([found EXCEPT !.entry = "smoke"]) /\ args.pool = "none"
    BY <2>3, <2>4, <2>6
  <2> QED
    BY <1>5, <2>2, <2>5, <2>6 DEF Evaluates
<1>6. ASSUME NEW k \in HsmKeys \cup {NoKey}, SignAndVerify(k) PROVE LaunchInv'
  <2> DEFINE by == IF args.hsm = "tls" THEN k ELSE "local"
  <2>1. phase \in {"live", "dry_run"} /\ found.entry # "none" /\ tx.by = NoKey /\ args.simulate_payer = "none"
    BY <1>6 DEF SignAndVerify, Iterating
  <2>2. CASE Trips
    BY <2>1, <2>2, OverKeeps
  <2>3. CASE by = feePayer /\ tx' = [tx EXCEPT !.by = by] /\ UNCHANGED <<supervisor, env, args, phase, breaker, feePayer, found>>
    <3>1. Launched' /\ UsesJito(args)' = UsesJito(args) /\ RightKey(feePayer)' = RightKey(feePayer)
      BY <2>1, <2>3, LoopKeeps DEF RightKey
    <3>2. Typed(args) /\ HsmWithTls(args)
      BY <2>1, PassedChecks DEF LaunchInv, Launched, Loops, Passed
    <3>3. by = "local" => args.hsm = "none"
      BY <3>2 DEF Typed, HsmWithTls, HsmKeys, NoKey
    <3>4. by \in HsmKeys \cup {NoKey, "local"}
      OBVIOUS
    <3> HIDE DEF by
    <3> QED
      BY <2>1, <2>3, <3>1, <3>3, <3>4 DEF LaunchInv, Iteration
  <2> QED
    BY <1>6, <2>2, <2>3 DEF SignAndVerify
<1>7. CASE SubmitLiveTx \/ Rehearses
  <2>1. /\ phase \in {"live", "dry_run"} /\ UNCHANGED <<supervisor, env, args, phase, feePayer, found>>
        /\ \/ tx' = [tx EXCEPT !.sent = TRUE] /\ phase = "live" /\ tx.by # NoKey
           \/ tx' = [tx EXCEPT !.shown = TRUE]
    BY <1>7 DEF SubmitLiveTx, Rehearses
  <2>2. Launched' /\ UsesJito(args)' = UsesJito(args) /\ RightKey(feePayer)' = RightKey(feePayer)
    BY <2>1, LoopKeeps DEF RightKey
  <2> QED
    BY <2>1, <2>2 DEF LaunchInv, Iteration
<1>8. CASE NextIteration
  BY <1>8, OverKeeps DEF NextIteration, Iterating
<1> QED
  BY <1>1, <1>2, <1>3, <1>4, <1>5, <1>6, <1>7, <1>8

LEMMA ProcessKeeps == LaunchInv /\ [ProcessNext]_<<vars, launchVars>> => LaunchInv'
<1> SUFFICES ASSUME LaunchInv, [ProcessNext]_<<vars, launchVars>> PROVE LaunchInv'
  OBVIOUS
<1>1. ASSUME UNCHANGED <<supervisor, env, args, phase, feePayer, found, tx>> PROVE LaunchInv'
  BY <1>1 DEF LaunchInv, Launched, Iteration, RightKey, UsesJito
<1>2. CASE BreakerResets \/ UNCHANGED launchVars
  BY <1>1, <1>2 DEF BreakerResets, launchVars
<1> QED
  BY <1>2, StartKeeps, MainKeeps, IterationKeeps DEF ProcessNext, LaunchNext

LEMMA LaunchInvariant == ProcessSpec => []LaunchInv
BY InitLaunch, ProcessKeeps, PTL DEF ProcessSpec

\* Only a process armed for live by all who had a say sends anything, signed
\* by the pinned key, on liquidity it read itself: whatever the arguments, the
\* environment, the .env file, the HSM and the candidates are.
THEOREM ArmedLiveOnly == ProcessSpec => []OnlyArmedLiveSends
<1>1. ASSUME LaunchInv PROVE OnlyArmedLiveSends
  <2>1. ASSUME tx.sent
        PROVE  /\ args.live /\ args.confirm_live /\ args.pool = "all"
               /\ found.entry = "strategy" /\ found.onChain /\ found.liquidity >= args.min_liquidity_sol
               /\ args.min_liquidity_sol >= Floor
               /\ tx.by = "wallet" /\ (UsesJito(args) => tx.tip)
    <3>1. phase = "live" /\ tx.by # NoKey
      BY <1>1, <2>1 DEF LaunchInv, Iteration
    <3>2. tx.by = feePayer /\ RightKey(feePayer) /\ found.entry # "none"
      BY <1>1, <3>1 DEF LaunchInv, Iteration
    <3>3. args.expected_signer = "wallet" /\ args.simulate_payer = "none" /\ args.hsm = "tls" /\ args.live
      BY <1>1, <3>1, LiveIsChecked DEF LaunchInv
    <3>4. tx.by = "wallet"
      BY <3>2, <3>3 DEF RightKey
    <3> QED
      BY <1>1, <3>1, <3>2, <3>3, <3>4, LiveIsChecked DEF LaunchInv, Iteration
  <2>2. tx.sent /\ supervisor # NoSupervisor =>
          /\ supervisor.mode = "live" /\ supervisor.confirm_live
          /\ found.liquidity >= supervisor.min_liquidity_sol
    <3> SUFFICES ASSUME tx.sent, supervisor # NoSupervisor
                 PROVE  /\ supervisor.mode = "live" /\ supervisor.confirm_live
                        /\ found.liquidity >= supervisor.min_liquidity_sol
      OBVIOUS
    <3>1. phase = "live"
      BY <1>1 DEF LaunchInv, Iteration
    <3>2. Handed(args, supervisor) /\ ~args.dry_run /\ ~args.paper
      BY <1>1, <3>1, LiveIsChecked DEF LaunchInv, Launched
    <3> QED
      BY <2>1, <3>2 DEF Handed, Supervisors, SupervisorAccepts
  <2>3. tx.by # NoKey => phase \in {"live", "dry_run"} /\ ~args.paper /\ (args.live \/ args.dry_run)
    BY <1>1, LiveIsChecked DEF LaunchInv, Iteration, Launched
  <2>4. tx.by = "local" => args.dry_run /\ args.hsm = "none"
    BY <1>1, <2>3, LiveIsChecked DEF LaunchInv, Iteration, Launched, NoKey
  <2>5. tx.sent => args.min_liquidity_sol \in Nat /\ Floor \in Nat /\ found.liquidity \in Nat
    BY <1>1, ArgumentsAssumption DEF LaunchInv, Iteration, Launched, Typed, ArgumentsAssumption
  <2> QED
    BY <2>1, <2>2, <2>3, <2>4, <2>5 DEF OnlyArmedLiveSends
<1> QED
  BY <1>1, LaunchInvariant, PTL

\* A child that gets to its loop is as its supervisor meant it.
THEOREM ChildAsMeant == ProcessSpec => []ChildIsAsConfigured
<1>1. ASSUME LaunchInv PROVE ChildIsAsConfigured
  <2> SUFFICES ASSUME supervisor # NoSupervisor PROVE ChildIsAsConfigured
    BY DEF ChildIsAsConfigured
  <2>1. phase = "ready" =>
          /\ ModeOf(args) = supervisor.mode
          /\ args.paper_token_2022 = supervisor.paper_token_2022
          /\ args.min_liquidity_sol = supervisor.min_liquidity_sol
          /\ ~env.dotenv => args.amm = supervisor.amm
    <3> SUFFICES ASSUME phase = "ready"
                 PROVE  /\ ModeOf(args) = supervisor.mode
                        /\ args.paper_token_2022 = supervisor.paper_token_2022
                        /\ args.min_liquidity_sol = supervisor.min_liquidity_sol
                        /\ ~env.dotenv => args.amm = supervisor.amm
      OBVIOUS
    <3>1. Handed(args, supervisor) /\ OneMode(args)
      BY <1>1, PassedChecks DEF LaunchInv, Launched, Passed
    <3>2. ModeOf(args) = supervisor.mode
      BY <3>1 DEF Handed, OneMode, ModeOf, Supervisors
    <3>3. ~env.dotenv => args.amm = supervisor.amm
      BY <1>1 DEF LaunchInv, Launched, Exact
    <3> QED
      BY <3>1, <3>2, <3>3 DEF Handed
  <2>2. phase \in {"main", "ready", "refused"} /\ ~env.dotenv =>
          Refusals(args) \subseteq {"trailing", "hsm", "pin", "payer", "jito"}
    <3> SUFFICES ASSUME phase \in {"main", "ready", "refused"}, ~env.dotenv, Exact(args, supervisor)
                 PROVE  Refusals(args) \subseteq {"trailing", "hsm", "pin", "payer", "jito"}
      BY <1>1 DEF LaunchInv, Launched
    <3>1. Handed(args, supervisor)
      BY <1>1 DEF LaunchInv, Launched
    <3>2. /\ ValidateMinLiquidity(args) /\ TokenPolicy(args) /\ ValidatePaperArgs(args)
          /\ OneMode(args) /\ Armed(args) /\ ValidateLivePool(args) /\ ValidateAmm(args)
      BY <3>1 DEF Handed, Exact, Supervisors, SupervisorAccepts, ValidateMinLiquidity, TokenPolicy,
                  ValidatePaperArgs, OneMode, Armed, ValidateLivePool, ValidateAmm
    <3> QED
      BY <3>2 DEF Refusals, Checks
  <2> QED
    BY <2>1, <2>2 DEF ChildIsAsConfigured
<1> QED
  BY <1>1, LaunchInvariant, PTL

-----------------------------------------------------------------------------
(* The paper loop: the series of samples *)

Sample == [ts : Int, liquidity : Liquidities]

\* A series without a gap or a crowd of samples in it.
Settled(s) ==
  /\ s \in Seq(Sample) /\ Len(s) <= Cap
  /\ \A i \in 2..Len(s) : s[i].ts - s[i - 1].ts \in MinInterval..MaxGap

\* Whatever is pushed at whatever time, also after a gap and past the capacity.
LEMMA PushSettles ==
  ASSUME NEW s, Settled(s), NEW price, NEW ts \in Int, NEW liquidity \in Liquidities
  PROVE  Settled(Push(s, price, ts, liquidity))
<1> DEFINE new == [ts |-> ts, liquidity |-> liquidity]
<1>0. Cap \in Nat /\ Cap >= 2 /\ MinInterval \in Nat /\ MaxGap \in Nat
  BY SeriesAssumption DEF SeriesAssumption
<1>1. s \in Seq(Sample) /\ new \in Sample /\ Len(s) \in Nat /\ new.ts = ts
  BY DEF Settled, Sample
<1>2. \A x \in Sample : x.ts \in Int
  BY DEF Sample
<1>3. Settled(<<new>>)
  <2> HIDE DEF new
  <2>1. <<new>> \in Seq(Sample) /\ Len(<<new>>) = 1
    BY <1>1
  <2> QED
    BY <1>0, <2>1 DEF Settled
<1>4. s # <<>> => Len(s) > 0 /\ s[Len(s)] \in Sample /\ s[Len(s)].ts \in Int
  BY <1>1, <1>2
<1>5. ASSUME NEW k \in {s, Tail(s)}, s # <<>>, k = s => Len(s) < Cap,
             s[Len(s)].ts + MinInterval <= ts, ts - s[Len(s)].ts <= MaxGap
      PROVE  Settled(Append(k, new))
  <2> HIDE DEF new
  <2>1. /\ k \in Seq(Sample) /\ Len(k) \in Nat /\ Len(k) < Cap
        /\ \A i \in 2..Len(k) : k[i].ts - k[i - 1].ts \in MinInterval..MaxGap
        /\ Len(k) > 0 => k[Len(k)] = s[Len(s)]
    <3>1. CASE k = s
      BY <1>1, <1>5, <3>1 DEF Settled
    <3>2. CASE k = Tail(s)
      <4>1. k \in Seq(Sample) /\ Len(k) = Len(s) - 1 /\ \A i \in 1..Len(k) : k[i] = s[i + 1]
        BY <1>1, <1>5, <3>2
      <4>2. ASSUME NEW i \in 2..Len(k)
            PROVE  k[i].ts - k[i - 1].ts \in MinInterval..MaxGap
        <5>1. i \in 1..Len(k) /\ i - 1 \in 1..Len(k) /\ i + 1 \in 2..Len(s)
          BY <1>1, <4>1
        <5>2. k[i] = s[i + 1] /\ k[i - 1] = s[(i - 1) + 1]
          BY <4>1, <5>1
        <5>3. (i - 1) + 1 = (i + 1) - 1
          OBVIOUS
        <5>4. s[i + 1].ts - s[(i + 1) - 1].ts \in MinInterval..MaxGap
          BY <5>1 DEF Settled
        <5> QED
          BY <5>2, <5>3, <5>4
      <4>3. Len(s) <= Cap
        BY DEF Settled
      <4>4. Len(k) > 0 => k[Len(k)] = s[Len(s)]
        BY <1>1, <4>1
      <4> QED
        BY <1>0, <1>1, <4>1, <4>2, <4>3, <4>4
    <3> QED
      BY <1>5, <3>1, <3>2
  <2>2. /\ Append(k, new) \in Seq(Sample) /\ Len(Append(k, new)) = Len(k) + 1
        /\ Append(k, new)[Len(k) + 1] = new
        /\ \A i \in 1..Len(k) : Append(k, new)[i] = k[i]
    BY <1>1, <2>1
  <2>3. Len(k) > 0 => ts - k[Len(k)].ts \in MinInterval..MaxGap
    BY <1>0, <1>4, <1>5, <2>1
  <2>4. ASSUME NEW i \in 2..(Len(k) + 1)
        PROVE  Append(k, new)[i].ts - Append(k, new)[i - 1].ts \in MinInterval..MaxGap
    <3>1. CASE i = Len(k) + 1
      BY <1>1, <2>1, <2>2, <2>3, <3>1
    <3>2. CASE i \in 2..Len(k)
      <4>1. Append(k, new)[i] = k[i] /\ Append(k, new)[i - 1] = k[i - 1]
        BY <2>1, <2>2, <3>2
      <4> QED
        BY <2>1, <3>2, <4>1
    <3> QED
      BY <2>1, <3>1, <3>2
  <2> HIDE DEF Sample
  <2>5. Len(Append(k, new)) <= Cap
    BY <1>0, <2>1, <2>2
  <2> DEFINE longer == Append(k, new)
  <2>6. longer \in Seq(Sample) /\ Len(longer) <= Cap
    BY <2>2, <2>5
  <2>7. \A i \in 2..Len(longer) : longer[i].ts - longer[i - 1].ts \in MinInterval..MaxGap
    BY <2>2, <2>4
  <2> HIDE DEF longer
  <2>8. Settled(longer)
    BY <2>6, <2>7 DEF Settled
  <2> QED
    BY <2>8 DEF longer
<1> QED
  <2>1. CASE price <= 0 \/ (s # <<>> /\ ts < s[Len(s)].ts + MinInterval)
    BY <2>1 DEF Push
  <2>2. CASE ~(price <= 0) /\ s = <<>>
    <3>1. Push(s, price, ts, liquidity) = <<new>>
      BY <1>0, <2>2 DEF Push
    <3> QED
      BY <1>3, <3>1
  <2>3. CASE ~(price <= 0) /\ s # <<>> /\ ~(ts < s[Len(s)].ts + MinInterval)
    <3>1. CASE ts - s[Len(s)].ts > MaxGap
      <4>1. Push(s, price, ts, liquidity) = <<new>>
        <5> HIDE DEF new
        <5>1. Append(<<>>, new) = <<new>>
          OBVIOUS
        <5> QED
          BY <2>3, <3>1, <5>1 DEF Push, new
      <4> QED
        BY <1>3, <4>1
    <3>2. CASE ~(ts - s[Len(s)].ts > MaxGap)
      <4>1. Push(s, price, ts, liquidity) = Append(IF Len(s) = Cap THEN Tail(s) ELSE s, new)
        BY <2>3, <3>2 DEF Push
      <4>2. Len(s) = Cap \/ Len(s) < Cap
        BY <1>0, <1>1 DEF Settled
      <4>3. Len(s) = Cap => Tail(s) # s
        <5>1. Len(s) > 0 => Len(Tail(s)) = Len(s) - 1
          BY <1>1, <2>3
        <5> QED
          BY <1>0, <1>1, <5>1
      <4>4. s[Len(s)].ts + MinInterval <= ts /\ ts - s[Len(s)].ts <= MaxGap
        BY <1>0, <1>4, <2>3, <3>2
      <4> HIDE DEF new
      <4> QED
        BY <1>5, <2>3, <4>1, <4>2, <4>3, <4>4
    <3> QED
      BY <3>1, <3>2
  <2> QED
    BY <2>1, <2>2, <2>3

\* The times of the model.
TimesTyped ==
  /\ uptime \in Nat /\ behind \in 0..MaxBehind
  /\ outcome.what # "none" => stage = "sleep"

SeriesInv == TimesTyped /\ Settled(series) /\ EntersOnSettledSeries

LEMMA NowTyped == ASSUME TimesTyped PROVE Now \in Int
  BY PaperAssumption DEF PaperAssumption, TimesTyped, Now

LEMMA TickSettles ==
  ASSUME SeriesInv, NEW what, NEW l \in Liquidities, NEW gross, NEW net, Ticks(what, l, gross, net),
         what = "entry" /\ SignalGate => Passing(l) # {}
  PROVE  SeriesInv'
<1>1. /\ stage' = "sleep" /\ UNCHANGED <<uptime, behind>> /\ outcome'.what = what
      /\ series' = Push(series, quote.price, Now, l)
  BY DEF Ticks, clock
<1>2. TimesTyped' /\ Now' = Now /\ Now \in Int
  BY <1>1, NowTyped DEF SeriesInv, TimesTyped, Now
<1>3. Settled(series')
  BY <1>1, <1>2, PushSettles DEF SeriesInv
<1>4. ASSUME what = "entry", SignalGate
      PROVE  Len(series') >= Warmup /\ Now - series'[Len(series')].ts \in -Skew..MaxSampleAge
  <2>1. PICK view \in Views : Trade(series', view, Now)
    BY <1>1, <1>4 DEF Passing
  <2>2. /\ series' # <<>> /\ series'[Len(series')].ts <= Now + Skew
        /\ Now - series'[Len(series')].ts <= MaxSampleAge /\ Len(series') >= Warmup
    BY <2>1 DEF Trade
  <2>3. series'[Len(series')].ts \in Int
    <3>1. series' \in Seq(Sample)
      BY <1>3 DEF Settled
    <3>2. series'[Len(series')] \in Sample
      BY <2>2, <3>1
    <3> QED
      BY <3>2 DEF Sample
  <2>4. Skew \in Nat /\ MaxSampleAge \in Nat
    BY SeriesAssumption DEF SeriesAssumption
  <2> QED
    BY <1>2, <2>2, <2>3, <2>4
<1> QED
  BY <1>1, <1>2, <1>3, <1>4 DEF SeriesInv, EntersOnSettledSeries, Settled

LEMMA SeriesStep == SeriesInv /\ [Next]_vars => SeriesInv'
<1> SUFFICES ASSUME SeriesInv, [Next]_vars PROVE SeriesInv'
  OBVIOUS
<1>1. ASSUME outcome'.what \in {"none", "risk", "rejected", "data_error"}, UNCHANGED series, TimesTyped'
      PROVE  SeriesInv'
  BY <1>1 DEF SeriesInv, EntersOnSettledSeries
<1>2. ASSUME NEW what \in {"risk", "rejected", "data_error"}, EndsWith(what) PROVE SeriesInv'
  BY <1>1, <1>2 DEF SeriesInv, EndsWith, TimesTyped, NoOutcome, clock
<1>3. ASSUME stage # "sleep", UNCHANGED <<series, outcome>>, uptime' \in Nat, behind' \in 0..MaxBehind
      PROVE  SeriesInv'
  BY <1>1, <1>3 DEF SeriesInv, TimesTyped
<1>4. CASE Delay \/ Connects \/ Disconnects \/ Stops
  BY <1>3, <1>4 DEF SeriesInv, TimesTyped, Delay, Connects, Disconnects, Stops, clock
<1>5. ASSUME NEW n \in 1..MaxBehind, StepBack(n) PROVE SeriesInv'
  BY <1>3, <1>5, PaperAssumption DEF PaperAssumption, SeriesInv, TimesTyped, StepBack
<1>6. CASE Wake
  BY <1>1, <1>6 DEF SeriesInv, TimesTyped, Wake, NoOutcome
<1>7. ASSUME NEW p, NEW at, Reads(p, at), stage # "sleep" PROVE SeriesInv'
  BY <1>2, <1>3, <1>7 DEF SeriesInv, TimesTyped, Reads, clock
<1>8. ASSUME ReadFeed \/ \E p \in Prices : ReadRpc(p) PROVE SeriesInv'
  BY <1>7, <1>8 DEF ReadRpc, ReadFeed, Continues
<1>9. ASSUME NEW p \in Prices, NEW d \in 0..Delayed, Notifies(p, Now - d) PROVE SeriesInv'
  BY <1>3, <1>9 DEF SeriesInv, TimesTyped, Notifies, clock
<1>10. CASE ProbeRefuses \/ ReadFails \/ GateRefuses
  BY <1>2, <1>10 DEF ProbeRefuses, ReadFails, GateRefuses
<1>11. ASSUME NEW l \in Liquidities, Holds(l) \/ NoSignal(l) \/ SignalRefuses(l) \/ RiskRefuses(l)
       PROVE  SeriesInv'
  BY <1>11, TickSettles DEF Holds, NoSignal, SignalRefuses, RiskRefuses
<1>12. ASSUME NEW l \in Liquidities, NEW m \in CostModels, Closes(l, m) PROVE SeriesInv'
  <2>1. Exit(l) # "entry"
    BY DEF Exit, ExitWithPeak, ExitOnRatio
  <2> QED
    BY <1>12, <2>1, TickSettles DEF Closes
<1>13. ASSUME NEW l \in Liquidities, Enters(l) PROVE SeriesInv'
  BY <1>13, TickSettles DEF Enters, SignalPasses
<1>14. CASE UNCHANGED vars
  BY <1>14 DEF vars, SeriesInv, TimesTyped, Settled, EntersOnSettledSeries, Now
<1> QED
  <2>1. ASSUME NEW p \in Prices, ReadRpc(p) \/ \E d \in 0..Delayed : Notifies(p, Now - d)
        PROVE  SeriesInv'
    BY <1>8, <1>9, <2>1
  <2> QED
    BY <1>4, <1>5, <1>6, <1>8, <1>10, <1>11, <1>12, <1>13, <1>14, <2>1 DEF Next

LEMMA SeriesInvariant == ProcessSpec => []SeriesInv
<1>1. ProcessInit => SeriesInv
  <2> SUFFICES ASSUME ProcessInit PROVE SeriesInv
    OBVIOUS
  <2>1. TimesTyped /\ EntersOnSettledSeries
    BY PaperAssumption DEF PaperAssumption, ProcessInit, Init, TimesTyped, EntersOnSettledSeries, NoOutcome
  <2>2. Settled(<<>>)
    BY SeriesAssumption DEF SeriesAssumption, Settled
  <2> QED
    BY <2>1, <2>2 DEF ProcessInit, Init, SeriesInv
<1>2. [ProcessNext]_<<vars, launchVars>> => [Next]_vars
  BY DEF ProcessNext, BeginsPaper
<1> QED
  BY <1>1, <1>2, SeriesStep, PTL DEF ProcessSpec

\* An entry past the signal gate rests on a long enough series without gaps
\* that ends about now: for any prices, times of reads that failed, capacity and
\* limits of the series, and any step back of the clock.
THEOREM SettledEntries == ProcessSpec => []EntersOnSettledSeries
<1>1. SeriesInv => EntersOnSettledSeries
  BY DEF SeriesInv
<1> QED
  BY <1>1, SeriesInvariant, PTL

-----------------------------------------------------------------------------
(* Arithmetic.  A division and a recursion by the least counterexample, and
   the powers of two, are what the integer code of the strategy rests on. *)

LEMMA NatMinimum ==
  ASSUME NEW T \in SUBSET Nat, T # {}
  PROVE  \E m \in T : \A n \in T : m <= n
<1>1. PICK m \in T : \A n \in T : ~(<<n, m>> \in OpToRel(<, Nat))
  BY WFMin, NatLessThanWellFounded
<1>2. \A n \in T : ~(n < m)
  BY <1>1 DEF OpToRel
<1> QED
  BY <1>2

\* The powers of two, counted as subsets.
LEMMA PowersOfTwo ==
  /\ 2^0 = 1
  /\ \A n \in Nat : 2^n \in Nat \ {0} /\ 2^(n + 1) = 2 * 2^n
<1>1. \A n \in Nat : IsFiniteSet(1..n) /\ Cardinality(1..n) = n
  BY FS_Interval
<1>2. \A n \in Nat : IsFiniteSet(SUBSET (1..n)) /\ Cardinality(SUBSET (1..n)) = 2^n
  <2> TAKE n \in Nat
  <2>1. IsFiniteSet(1..n) /\ Cardinality(1..n) = n
    BY <1>1
  <2>2. IsFiniteSet(SUBSET (1..n)) /\ Cardinality(SUBSET (1..n)) = 2^Cardinality(1..n)
    BY <2>1, FS_SUBSET
  <2> QED
    BY <2>1, <2>2
<1>3. 2^0 = 1
  <2>1. SUBSET (1..0) = {{}}
    OBVIOUS
  <2>2. Cardinality({{}}) = 1
    BY FS_Singleton
  <2>3. Cardinality(SUBSET (1..0)) = 2^0
    BY <1>2
  <2> QED
    BY <2>1, <2>2, <2>3
<1>4. ASSUME NEW n \in Nat PROVE 2^(n + 1) = 2 * 2^n
  <2> DEFINE T == SUBSET (1..n)
             U == {s \cup {n + 1} : s \in T}
             f == [s \in T |-> s \cup {n + 1}]
  <2>1. SUBSET (1..(n + 1)) = T \cup U
    <3>1. ASSUME NEW s \in SUBSET (1..(n + 1)) PROVE s \in T \cup U
      <4>1. CASE n + 1 \in s
        <5>1. s \ {n + 1} \in T /\ s = (s \ {n + 1}) \cup {n + 1}
          BY <4>1
        <5> QED
          BY <5>1
      <4>2. CASE n + 1 \notin s
        BY <4>2
      <4> QED
        BY <4>1, <4>2
    <3>2. ASSUME NEW s \in T PROVE s \subseteq 1..(n + 1) /\ s \cup {n + 1} \subseteq 1..(n + 1)
      <4>1. \A i \in s : i \in 1..(n + 1)
        OBVIOUS
      <4>2. n + 1 \in 1..(n + 1)
        OBVIOUS
      <4> QED
        BY <4>1, <4>2
    <3>3. \A u \in U : \E s \in T : u = s \cup {n + 1}
      OBVIOUS
    <3>4. \A u \in T \cup U : u \in SUBSET (1..(n + 1))
      BY <3>2, <3>3
    <3> HIDE DEF T, U
    <3> QED
      BY <3>1, <3>4
  <2>2. T \cap U = {}
    <3>1. n + 1 \notin 1..n
      OBVIOUS
    <3> QED
      BY <3>1
  <2>3. ExistsBijection(T, U)
    <3>1. f \in [T -> U]
      OBVIOUS
    <3>2. ASSUME NEW s \in T, NEW t \in T, f[s] = f[t] PROVE s = t
      <4>1. n + 1 \notin s /\ n + 1 \notin t
        OBVIOUS
      <4>2. s \cup {n + 1} = t \cup {n + 1}
        BY <3>2
      <4> QED
        BY <4>1, <4>2
    <3>3. \A u \in U : \E s \in T : f[s] = u
      OBVIOUS
    <3>4. f \in Bijection(T, U)
      BY <3>1, <3>2, <3>3 DEF Bijection, Injection, Surjection, IsInjective
    <3> QED
      BY <3>4 DEF ExistsBijection
  <2>4. IsFiniteSet(T) /\ Cardinality(T) = 2^n
    BY <1>2
  <2>5. IsFiniteSet(U) /\ Cardinality(U) = 2^n
    BY <2>3, <2>4, FS_Bijection
  <2> HIDE DEF T, U
  <2>6. Cardinality(T \cup U) = Cardinality(T) + Cardinality(U) - Cardinality(T \cap U)
    BY <2>4, <2>5, FS_Union
  <2>7. Cardinality({}) = 0
    BY FS_EmptySet
  <2>8. Cardinality(T) \in Nat
    BY <2>4, FS_CardinalityType
  <2>9. Cardinality(SUBSET (1..(n + 1))) = 2^(n + 1)
    BY <1>2
  <2>10. 2^n \in Nat
    BY <2>4, <2>8
  <2>11. Cardinality(T \cup U) = 2^n + 2^n - 0
    BY <2>2, <2>4, <2>5, <2>6, <2>7
  <2>12. 2^(n + 1) = 2^n + 2^n - 0
    BY <2>1, <2>9, <2>11
  <2> QED
    BY <2>10, <2>12
<1>5. ASSUME NEW n \in Nat PROVE 2^n \in Nat \ {0}
  <2>1. {} \in SUBSET (1..n)
    OBVIOUS
  <2>2. Cardinality(SUBSET (1..n)) \in Nat /\ Cardinality(SUBSET (1..n)) # 0
    BY <1>2, <2>1, FS_CardinalityType, FS_EmptySet
  <2> QED
    BY <1>2, <2>2
<1> QED
  BY <1>3, <1>4, <1>5

-----------------------------------------------------------------------------

LEMMA IntProduct ==
  ASSUME NEW a \in Int, NEW b \in Int PROVE a * b \in Int /\ a * b = b * a
  OBVIOUS

LEMMA NatProduct ==
  ASSUME NEW a \in Nat, NEW b \in Nat PROVE a * b \in Nat
  OBVIOUS

\* A product grows with its factor.
LEMMA Grows ==
  ASSUME NEW q \in Nat, NEW a \in Int, NEW b \in Int, a <= b
  PROVE  q * a <= q * b /\ q * a \in Int /\ q * b \in Int
<1>1. q * (b - a) = q * b - q * a /\ b - a \in Nat
  OBVIOUS
<1>2. q * (b - a) \in Nat
  BY <1>1
<1> QED
  BY <1>1, <1>2

\* And a quotient, a factor cancelled, with its dividend.
LEMMA Cancels ==
  ASSUME NEW q \in Nat \ {0}, NEW a \in Int, NEW b \in Int, q * a <= q * b
  PROVE  a <= b
<1>1. SUFFICES ASSUME b + 1 <= a PROVE FALSE
  OBVIOUS
<1>2. q * (b + 1) <= q * a
  BY <1>1, Grows
<1>3. q * (b + 1) = q * b + q /\ q * b \in Int /\ q * a \in Int
  OBVIOUS
<1> QED
  BY <1>2, <1>3

\* What a quotient and its remainder are.
LEMMA Divided ==
  ASSUME NEW a \in Nat, NEW d \in Nat \ {0}
  PROVE  a \div d \in Nat /\ a % d \in 0..(d - 1) /\ a = (a \div d) * d + (a % d)
<1> DEFINE q == a \div d
           r == a % d
<1>1. q \in Nat /\ r \in 0..(d - 1)
  OBVIOUS
<1>2. r = a - d * q
  OBVIOUS
<1> HIDE DEF q, r
<1>3. d * q = q * d /\ d * q \in Nat
  BY <1>1
<1>4. a = q * d + r
  BY <1>1, <1>2, <1>3
<1> QED
  BY <1>1, <1>4, Zenon DEF q, r

LEMMA Dividing ==
  ASSUME NEW d \in Nat \ {0}, NEW q \in Nat, NEW r \in 0..(d - 1)
  PROVE  (q * d + r) \div d = q /\ (q * d + r) % d = r
<1> DEFINE a == q * d + r
           x == a \div d
           y == a % d
<1>1. a \in Nat /\ q * d \in Nat
  BY NatProduct
<1>2. x \in Nat /\ y \in 0..(d - 1) /\ a = x * d + y
  BY <1>1, Divided
<1>3. a = q * d + r
  OBVIOUS
<1> HIDE DEF a, x, y
<1>4. x * d \in Nat /\ x * d = d * x /\ q * d = d * q
  BY <1>2, NatProduct, IntProduct
<1>5. ~(x + 1 <= q)
  <2> SUFFICES ASSUME x + 1 <= q PROVE FALSE
    OBVIOUS
  <2>1. d * (x + 1) <= d * q
    BY <1>2, Grows
  <2>2. d * (x + 1) = d * x + d
    BY <1>2
  <2> QED
    BY <1>1, <1>2, <1>3, <1>4, <2>1, <2>2
<1>6. ~(q + 1 <= x)
  <2> SUFFICES ASSUME q + 1 <= x PROVE FALSE
    OBVIOUS
  <2>1. d * (q + 1) <= d * x
    BY <1>2, Grows
  <2>2. d * (q + 1) = d * q + d
    OBVIOUS
  <2> QED
    BY <1>1, <1>2, <1>3, <1>4, <2>1, <2>2
<1>7. x = q
  BY <1>2, <1>5, <1>6
<1>8. y = r
  BY <1>1, <1>2, <1>3, <1>4, <1>7
<1> QED
  BY <1>7, <1>8 DEF a, x, y

-----------------------------------------------------------------------------
(* A product of two words *)

\* Collecting the half products.
LEMMA HalfProducts ==
  ASSUME NEW h \in Nat, NEW a0 \in Nat, NEW a1 \in Nat, NEW b0 \in Nat, NEW b1 \in Nat,
         NEW q00 \in Nat, NEW r00 \in Nat, NEW q01 \in Nat, NEW r01 \in Nat,
         NEW q10 \in Nat, NEW r10 \in Nat, NEW mq \in Nat, NEW mr \in Nat,
         a0 * b0 = q00 * h + r00, a0 * b1 = q01 * h + r01, a1 * b0 = q10 * h + r10,
         q00 + r01 + r10 = mq * h + mr
  PROVE  (a1 * h + a0) * (b1 * h + b0) = (a1 * b1 + q01 + q10 + mq) * (h * h) + (r00 + mr * h)
<1>1. (a1 * h + a0) * (b1 * h + b0) = (a1 * b1) * (h * h) + (a0 * b1) * h + (a1 * b0) * h + a0 * b0
  OBVIOUS
<1>2. (a0 * b1) * h = q01 * (h * h) + r01 * h
  OBVIOUS
<1>3. (a1 * b0) * h = q10 * (h * h) + r10 * h
  OBVIOUS
<1>4. (q00 + r01 + r10) * h = mq * (h * h) + mr * h
  OBVIOUS
<1>5. (q00 + r01 + r10) * h = q00 * h + r01 * h + r10 * h
  OBVIOUS
<1>6. (a1 * b1 + q01 + q10 + mq) * (h * h) = (a1 * b1) * (h * h) + q01 * (h * h) + q10 * (h * h) + mq * (h * h)
  OBVIOUS
<1> DEFINE w == h * h
           A == (a1 * b1) * w
           B == (a0 * b1) * h
           C == (a1 * b0) * h
<1>7. A \in Int /\ B \in Int /\ C \in Int /\ a0 * b0 \in Int /\ q01 * w \in Int /\ q10 * w \in Int
      /\ mq * w \in Int /\ mr * h \in Int /\ r01 * h \in Int /\ r10 * h \in Int /\ q00 * h \in Int
  OBVIOUS
<1> QED
  BY <1>1, <1>2, <1>3, <1>4, <1>5, <1>6, <1>7

\* The halves of a word.
LEMMA Halves ==
  ASSUME NEW h \in Nat \ {0}, NEW a \in 0..(h * h - 1)
  PROVE  a % h \in 0..(h - 1) /\ a \div h \in 0..(h - 1) /\ a = (a \div h) * h + (a % h)
<1> DEFINE q == a \div h
           r == a % h
<1>1. h * h \in Nat /\ a \in Nat
  OBVIOUS
<1>2. q \in Nat /\ r \in 0..(h - 1) /\ a = q * h + r
  BY <1>1, Divided
<1> HIDE DEF q, r
<1>3. ~(h <= q)
  <2> SUFFICES ASSUME h <= q PROVE FALSE
    OBVIOUS
  <2>1. h * h <= h * q /\ h * q \in Int
    BY <1>2, Grows
  <2>2. h * q = q * h
    BY <1>2
  <2> QED
    BY <1>1, <1>2, <2>1, <2>2
<1>4. q \in 0..(h - 1)
  BY <1>2, <1>3
<1>5. r \in 0..(h - 1) /\ q \in 0..(h - 1) /\ a = q * h + r
  BY <1>2, <1>4
<1> QED
  BY <1>5, Zenon DEF q, r

\* The low half of a word that is shifted up by a half.
LEMMA Shifted ==
  ASSUME NEW h \in Nat \ {0}, NEW m \in Nat
  PROVE  (m * h) % (h * h) = (m % h) * h
<1> DEFINE q == m \div h
           r == m % h
           w == h * h
<1>1. q \in Nat /\ r \in 0..(h - 1) /\ m = q * h + r
  BY Divided
<1> HIDE DEF q, r
<1>2. m * h = q * (h * h) + r * h
  BY <1>1
<1>3. h * r <= h * (h - 1) /\ h * (h - 1) = h * h - h /\ h * r = r * h
  BY <1>1, Grows
<1>4. w \in Nat \ {0} /\ r * h \in Nat
  BY <1>1, NatProduct
<1>5. r * h \in 0..(w - 1)
  BY <1>1, <1>3, <1>4
<1>6. m * h = q * w + r * h
  BY <1>2
<1> HIDE DEF w
<1>7. (q * w + r * h) % w = r * h
  BY <1>1, <1>4, <1>5, Dividing
<1> QED
  BY <1>6, <1>7 DEF w, r

LEMMA HalfType == Half \in Nat \ {0} /\ Wide = Half * Half /\ Wide \in Nat \ {0}
<1>1. Half \in Nat \ {0}
  BY StrategyAssumption, PowersOfTwo
<1>2. Half * Half \in Nat /\ Half * Half # 0
  BY <1>1
<1> QED
  BY <1>1, <1>2 DEF Wide

\* The schoolbook product is exact and fits two words.
LEMMA ProductIsExact ==
  ASSUME NEW a \in Word, NEW b \in Word
  PROVE  /\ Product(a, b).lo \in Word /\ Product(a, b).hi \in Word
         /\ a * b = Product(a, b).hi * Wide + Product(a, b).lo
<1> DEFINE a0 == a % Half   a1 == a \div Half   b0 == b % Half   b1 == b \div Half
           q00 == (a0 * b0) \div Half   r00 == (a0 * b0) % Half
           q01 == (a0 * b1) \div Half   r01 == (a0 * b1) % Half
           q10 == (a1 * b0) \div Half   r10 == (a1 * b0) % Half
           mid == q00 + r01 + r10
           mq == mid \div Half          mr == mid % Half
           lo == r00 + mr * Half
           hi == a1 * b1 + q01 + q10 + mq
<1>1. Product(a, b) = [lo |-> r00 + ((mid * Half) % Wide), hi |-> hi]
  BY DEF Product
<1>2. /\ a0 \in 0..(Half - 1) /\ a1 \in 0..(Half - 1) /\ a = a1 * Half + a0
      /\ b0 \in 0..(Half - 1) /\ b1 \in 0..(Half - 1) /\ b = b1 * Half + b0
  <2>1. a \in 0..(Half * Half - 1) /\ b \in 0..(Half * Half - 1)
    BY HalfType DEF Word
  <2>2. Half \in Nat \ {0}
    BY HalfType
  <2>3. \A w \in 0..(Half * Half - 1) :
          w % Half \in 0..(Half - 1) /\ w \div Half \in 0..(Half - 1) /\ w = (w \div Half) * Half + (w % Half)
    BY <2>2, Halves, Zenon
  <2> QED
    BY <2>1, <2>3, Zenon
<1>3. a0 \in Nat /\ a1 \in Nat /\ b0 \in Nat /\ b1 \in Nat
  BY <1>2, HalfType
<1> HIDE DEF a0, a1, b0, b1
<1>4. a0 * b0 \in Nat /\ a0 * b1 \in Nat /\ a1 * b0 \in Nat /\ a1 * b1 \in Nat
  BY <1>3, NatProduct
<1>5. /\ q00 \in Nat /\ r00 \in 0..(Half - 1) /\ a0 * b0 = q00 * Half + r00
      /\ q01 \in Nat /\ r01 \in 0..(Half - 1) /\ a0 * b1 = q01 * Half + r01
      /\ q10 \in Nat /\ r10 \in 0..(Half - 1) /\ a1 * b0 = q10 * Half + r10
  BY <1>4, HalfType, Divided
<1>6. r00 \in Nat /\ r01 \in Nat /\ r10 \in Nat
  BY <1>5, HalfType
<1> HIDE DEF q00, r00, q01, r01, q10, r10
<1>7. mid \in Nat
  BY <1>5, <1>6
<1>8. mq \in Nat /\ mr \in 0..(Half - 1) /\ mid = mq * Half + mr
  BY <1>7, HalfType, Divided
<1>9. (mid * Half) % Wide = mr * Half
  BY <1>7, HalfType, Shifted
<1> USE DEF lo, hi
<1>10. mr \in Nat
  BY <1>8, HalfType
<1>11. mid = q00 + r01 + r10
  OBVIOUS
<1> HIDE DEF mid, mq, mr
<1>12. (a1 * Half + a0) * (b1 * Half + b0) = (a1 * b1 + q01 + q10 + mq) * (Half * Half) + (r00 + mr * Half)
  BY <1>3, <1>5, <1>6, <1>8, <1>10, <1>11, HalfType, HalfProducts
<1>13. a * b = hi * Wide + lo
  BY <1>2, <1>12, HalfType
<1>14. lo \in Word
  <2>1. mr * Half = Half * mr /\ Half * mr <= Half * (Half - 1) /\ Half * (Half - 1) = Half * Half - Half
    BY <1>8, <1>10, HalfType, Grows
  <2>2. mr * Half \in Nat /\ Half * Half \in Nat
    BY <1>10, HalfType, NatProduct
  <2>3. r00 \in Nat /\ r00 <= Half - 1
    BY <1>5, <1>6
  <2> QED
    BY <2>1, <2>2, <2>3, HalfType DEF Word
<1>15. hi \in Nat
  BY <1>4, <1>5, <1>8
<1>16. Product(a, b) = [lo |-> lo, hi |-> hi]
  BY <1>1, <1>9
<1> HIDE DEF lo, hi
<1>17. ~(Wide <= hi)
  <2> SUFFICES ASSUME Wide <= hi PROVE FALSE
    OBVIOUS
  <2>1. a \in Nat /\ b \in Nat /\ a <= Wide - 1 /\ b <= Wide - 1 /\ lo \in Nat
    BY <1>14, HalfType DEF Word
  <2>2. a * b <= a * (Wide - 1)
    BY <2>1, HalfType, Grows
  <2>3. (Wide - 1) * a <= (Wide - 1) * (Wide - 1)
    BY <2>1, HalfType, Grows
  <2>4. Wide * Wide <= Wide * hi
    BY <1>15, HalfType, Grows
  <2>5. (Wide - 1) * (Wide - 1) = Wide * Wide - 2 * Wide + 1 /\ Wide * Wide \in Nat
    BY HalfType
  <2>6. a * (Wide - 1) = (Wide - 1) * a /\ Wide * hi = hi * Wide /\ a * b \in Int /\ hi * Wide \in Int
    BY <1>15, <2>1, HalfType
  <2> QED
    BY <1>13, <2>1, <2>2, <2>3, <2>4, <2>5, <2>6, HalfType
<1>18. hi \in Word
  BY <1>15, <1>17, HalfType DEF Word
<1> QED
  BY <1>13, <1>14, <1>16, <1>18

-----------------------------------------------------------------------------
(* Long division, bit by bit *)

\* The functions that follow a recursion from s0 for n steps.
Unrolled(S, s0, G, n) ==
  {f \in [0..n -> S] : f[0] = s0 /\ \A i \in 1..n : f[i] = G[<<f[i - 1], i>>]}

\* A recursion up to n has its values.
LEMMA Iterates ==
  ASSUME NEW S, NEW s0 \in S, NEW n \in Nat, NEW G \in [S \X (1..n) -> S]
  PROVE  Unrolled(S, s0, G, n) # {}
<1> DEFINE Upto(m) == \E f \in [0..m -> S] : f[0] = s0 /\ \A i \in 1..m : f[i] = G[<<f[i - 1], i>>]
           T == {m \in 0..n : ~Upto(m)}
<1>1. SUFFICES T = {}
  <2>1. n \in 0..n
    OBVIOUS
  <2>2. T = {} => Upto(n)
    BY <2>1
  <2>3. Upto(n) => Unrolled(S, s0, G, n) # {}
    BY DEF Unrolled
  <2> HIDE DEF T, Upto
  <2> QED
    BY <2>2, <2>3
<1>2. SUFFICES ASSUME T # {} PROVE FALSE
  OBVIOUS
<1>3. PICK m \in T : \A k \in T : m <= k
  <2>1. T \subseteq Nat
    OBVIOUS
  <2> HIDE DEF T
  <2> QED
    BY <1>2, <2>1, NatMinimum
<1>4. m \in 0..n /\ ~Upto(m)
  OBVIOUS
<1>5. m # 0
  <2>1. [i \in 0..0 |-> s0] \in [0..0 -> S]
    OBVIOUS
  <2>2. [i \in 0..0 |-> s0][0] = s0 /\ 1..0 = {}
    OBVIOUS
  <2>3. Upto(0)
    BY <2>1, <2>2
  <2> QED
    BY <1>4, <2>3
<1>6. Upto(m - 1)
  <2>1. m - 1 \in 0..n /\ ~(m <= m - 1)
    BY <1>4, <1>5
  <2> HIDE DEF Upto
  <2> QED
    BY <1>3, <2>1
<1>7. PICK f \in [0..(m - 1) -> S] : f[0] = s0 /\ \A i \in 1..(m - 1) : f[i] = G[<<f[i - 1], i>>]
  BY <1>6
<1> DEFINE g == [i \in 0..m |-> IF i = m THEN G[<<f[m - 1], m>>] ELSE f[i]]
<1>8. f[m - 1] \in S /\ m \in 1..n
  BY <1>4, <1>5
<1>9. g \in [0..m -> S]
  <2>1. G[<<f[m - 1], m>>] \in S
    BY <1>8
  <2>2. \A i \in 0..m : i # m => i \in 0..(m - 1)
    BY <1>4
  <2>3. \A i \in 0..m : i # m => f[i] \in S
    BY <2>2
  <2> QED
    BY <2>1, <2>3
<1>10. g[0] = s0
  BY <1>4, <1>5, <1>7
<1>11. ASSUME NEW i \in 1..m PROVE g[i] = G[<<g[i - 1], i>>]
  <2>1. i - 1 \in 0..m /\ i - 1 # m /\ i \in 0..m
    BY <1>4
  <2>2. g[i - 1] = f[i - 1]
    BY <2>1
  <2>3. CASE i = m
    BY <2>1, <2>2, <2>3
  <2>4. CASE i # m
    <3>1. i \in 1..(m - 1) /\ g[i] = f[i]
      BY <1>4, <2>1, <2>4
    <3> QED
      BY <1>7, <2>2, <3>1
  <2> QED
    BY <2>3, <2>4
<1>12. Upto(m)
  <2> HIDE DEF g
  <2> QED
    BY <1>9, <1>10, <1>11
<1> QED
  BY <1>4, <1>12

\* Induction over a stretch of numbers, for a set that says where a fact holds.
LEMMA Everywhere ==
  ASSUME NEW n \in Nat, NEW T, 0 \in T, \A i \in 0..(n - 1) : i \in T => i + 1 \in T
  PROVE  \A i \in 0..n : i \in T
<1> DEFINE U == {i \in 0..n : i \notin T}
<1>1. SUFFICES ASSUME U # {} PROVE FALSE
  OBVIOUS
<1>2. PICK m \in U : \A k \in U : m <= k
  <2>1. U \subseteq Nat
    OBVIOUS
  <2> HIDE DEF U
  <2> QED
    BY <1>1, <2>1, NatMinimum
<1>3. m \in 0..n /\ m # 0 /\ m \notin T
  OBVIOUS
<1>4. m - 1 \in 0..(n - 1) /\ m - 1 \in 0..n /\ ~(m <= m - 1)
  BY <1>3
<1>5. m - 1 \in T
  BY <1>2, <1>4
<1>6. (m - 1) + 1 = m
  BY <1>3
<1> QED
  BY <1>3, <1>4, <1>5, <1>6

LEMMA PowerOfSum == \A m \in Nat, n \in Nat : 2^(m + n) = 2^m * 2^n
<1> SUFFICES ASSUME NEW m \in Nat, NEW n \in Nat PROVE 2^(m + n) = 2^m * 2^n
  OBVIOUS
<1> DEFINE T == {i \in Nat : 2^(m + i) = 2^m * 2^i}
<1>1. 0 \in T
  <2>1. 2^m \in Nat /\ 2^0 = 1 /\ m + 0 = m
    BY PowersOfTwo
  <2> QED
    BY <2>1
<1>2. ASSUME NEW i \in 0..(n - 1), i \in T PROVE i + 1 \in T
  <2>1. i \in Nat /\ m + i \in Nat /\ m + (i + 1) = (m + i) + 1
    OBVIOUS
  <2>2. 2^(m + i + 1) = 2 * 2^(m + i) /\ 2^(i + 1) = 2 * 2^i /\ 2^i \in Nat /\ 2^m \in Nat
    BY <2>1, PowersOfTwo
  <2>3. 2^(m + i) = 2^m * 2^i
    BY <1>2
  <2>4. 2^m * (2 * 2^i) = 2 * (2^m * 2^i)
    BY <2>2
  <2>5. 2^(m + (i + 1)) = 2 * (2^m * 2^i)
    BY <2>1, <2>2, <2>3
  <2>6. 2^(m + (i + 1)) = 2^m * 2^(i + 1)
    BY <2>2, <2>4, <2>5
  <2> QED
    BY <2>1, <2>6
<1>3. n \in 0..n
  OBVIOUS
<1> HIDE DEF T
<1>4. n \in T
  BY <1>1, <1>2, <1>3, Everywhere
<1> QED
  BY <1>4 DEF T

LEMMA PowersWide ==
  /\ 2^(2 * HalfBits) = Wide
  /\ \A i \in 0..(2 * HalfBits) : 2^i <= Wide
<1>1. HalfBits \in Nat /\ Half = 2^HalfBits
  BY StrategyAssumption
<1>2. 2^(HalfBits + HalfBits) = 2^HalfBits * 2^HalfBits
  BY <1>1, PowerOfSum
<1>3. 2 * HalfBits = HalfBits + HalfBits
  BY <1>1
<1>4. 2^(2 * HalfBits) = Wide
  BY <1>1, <1>2, <1>3 DEF Wide
<1>5. ASSUME NEW i \in 0..(2 * HalfBits) PROVE 2^i <= Wide
  <2> DEFINE k == 2 * HalfBits - i
  <2>1. i \in Nat /\ k \in Nat /\ i + k = 2 * HalfBits
    BY <1>1
  <2> HIDE DEF k
  <2>2. Wide = 2^i * 2^k
    BY <1>4, <2>1, PowerOfSum
  <2>3. 2^i \in Nat /\ 2^k \in Nat \ {0}
    BY <2>1, PowersOfTwo
  <2>4. 2^i * 1 <= 2^i * 2^k
    BY <2>3, Grows
  <2> QED
    BY <2>2, <2>3, <2>4
<1> QED
  BY <1>4, <1>5

\* The bit that a halved divisor brings down.
LEMMA BroughtDown ==
  ASSUME NEW lo \in Nat, NEW e \in Nat \ {0}
  PROVE  lo \div e = 2 * (lo \div (2 * e)) + ((lo \div e) % 2)
<1> DEFINE q == lo \div (2 * e)
           r == lo % (2 * e)
           b == r \div e
           s == r % e
<1>1. 2 * e \in Nat \ {0}
  OBVIOUS
<1>2. q \in Nat /\ r \in 0..(2 * e - 1) /\ lo = q * (2 * e) + r
  BY <1>1, Divided
<1> HIDE DEF q, r
<1>3. b \in Nat /\ s \in 0..(e - 1) /\ r = b * e + s
  <2>1. r \in Nat
    BY <1>2
  <2> QED
    BY <2>1, Divided
<1> HIDE DEF b, s
<1>4. b < 2
  <2> SUFFICES ASSUME 2 <= b PROVE FALSE
    BY <1>3
  <2>1. e * 2 <= e * b /\ e * b = b * e
    BY <1>3, Grows
  <2> QED
    BY <1>2, <1>3, <2>1
<1>5. lo = (2 * q + b) * e + s /\ 2 * q + b \in Nat
  <2>1. (2 * q + b) * e = q * (2 * e) + b * e
    BY <1>2, <1>3
  <2>2. (2 * q + b) * e \in Nat /\ q * (2 * e) \in Nat /\ b * e \in Nat
    BY <1>2, <1>3, NatProduct
  <2> QED
    BY <1>2, <1>3, <2>1, <2>2
<1> DEFINE c == 2 * q + b
<1>6. c \in Nat /\ lo = c * e + s
  BY <1>5
<1> HIDE DEF c
<1>7. (c * e + s) \div e = c
  BY <1>3, <1>6, Dividing
<1>8. c % 2 = b
  <2>1. b \in 0..(2 - 1) /\ 2 \in Nat \ {0}
    BY <1>3, <1>4
  <2>2. (q * 2 + b) % 2 = b
    BY <1>2, <2>1, Dividing
  <2>3. q * 2 + b = c
    BY <1>2, <1>3 DEF c
  <2> QED
    BY <2>2, <2>3
<1>9. lo \div e = c
  BY <1>6, <1>7
<1>10. lo \div e = 2 * q + ((lo \div e) % 2)
  BY <1>8, <1>9 DEF c
<1> QED
  BY <1>10 DEF q

\* The long division of two words is exact.
LEMMA LongDivisionIsExact ==
  ASSUME NEW d \in Word, NEW hi \in 0..(d - 1), NEW lo \in Word
  PROVE  /\ LongDivision(hi, lo, d).q \in Word /\ LongDivision(hi, lo, d).rem \in 0..(d - 1)
         /\ LongDivision(hi, lo, d).q * d + LongDivision(hi, lo, d).rem = hi * Wide + lo
<1> DEFINE bits == 2 * HalfBits
           S == [rem : Nat, q : Nat]
           Sh(p, i) == 2 * p.rem + ((lo \div 2^(bits - i)) % 2)
           Step(p, i) == IF Sh(p, i) >= d
                         THEN [rem |-> (Sh(p, i) - d) % Wide, q |-> (2 * p.q + 1) % Wide]
                         ELSE [rem |-> Sh(p, i) % Wide, q |-> (2 * p.q) % Wide]
           G == [x \in S \X (1..bits) |-> Step(x[1], x[2])]
           s0 == [rem |-> hi, q |-> 0]
           Def(g) == g = [i \in 0..bits |-> IF i = 0 THEN s0 ELSE Step(g[i - 1], i)]
           f == CHOOSE g : Def(g)
<1>1. LongDivision(hi, lo, d) = f[bits]
  BY Zenon DEF LongDivision
<1>2. /\ bits \in Nat /\ Wide \in Nat \ {0} /\ lo \in Nat /\ lo <= Wide - 1
      /\ d \in Nat \ {0} /\ d <= Wide - 1 /\ hi \in Nat /\ hi <= d - 1
  BY StrategyAssumption, HalfType DEF Word
<1>3. ASSUME NEW i \in 1..bits PROVE 2^(bits - i) \in Nat \ {0}
  <2>1. bits - i \in Nat
    BY <1>2
  <2> QED
    BY <2>1, PowersOfTwo
<1>4. ASSUME NEW i \in 1..bits PROVE (lo \div 2^(bits - i)) % 2 \in {0, 1} /\ lo \div 2^(bits - i) \in Nat
  <2>1. 2^(bits - i) \in Nat \ {0}
    BY <1>3
  <2>2. lo \div 2^(bits - i) \in Nat
    BY <1>2, <2>1, Divided
  <2>3. (lo \div 2^(bits - i)) % 2 \in 0..(2 - 1)
    BY <2>2, Divided
  <2> QED
    BY <2>2, <2>3
<1>5. ASSUME NEW p \in S, NEW i \in 1..bits PROVE Step(p, i) \in S /\ Sh(p, i) \in Nat
  <2> DEFINE b == (lo \div 2^(bits - i)) % 2
             h == Sh(p, i)
  <2>1. b \in Nat
    BY <1>4
  <2>2. p.rem \in Nat /\ p.q \in Nat
    OBVIOUS
  <2>3. h = 2 * p.rem + b
    OBVIOUS
  <2>4. Step(p, i) = IF h >= d THEN [rem |-> (h - d) % Wide, q |-> (2 * p.q + 1) % Wide]
                               ELSE [rem |-> h % Wide, q |-> (2 * p.q) % Wide]
    OBVIOUS
  <2> HIDE DEF b, h, Step, Sh
  <2>5. h \in Nat
    BY <2>1, <2>2, <2>3
  <2>6. h % Wide \in Nat /\ (2 * p.q + 1) % Wide \in Nat /\ (2 * p.q) % Wide \in Nat
    BY <1>2, <2>2, <2>5
  <2>7. h >= d => (h - d) % Wide \in Nat
    BY <1>2, <2>5
  <2>8. Step(p, i) \in S
    BY <2>4, <2>6, <2>7
  <2> QED
    BY <2>5, <2>8 DEF h
<1>6. \E g : Def(g)
  <2>1. s0 \in S
    BY <1>2
  <2>2. G \in [S \X (1..bits) -> S]
    <3> HIDE DEF Step, S
    <3>1. \A x \in S \X (1..bits) : Step(x[1], x[2]) \in S
      BY <1>5
    <3> QED
      BY <3>1
  <2>3. \A p \in S, i \in 1..bits : G[<<p, i>>] = Step(p, i)
    <3> HIDE DEF Step, S
    <3> QED
      OBVIOUS
  <2>0. bits \in Nat
    BY <1>2
  <2> HIDE DEF G, S, Step, s0, bits
  <2>3a. Unrolled(S, s0, G, bits) # {}
    BY ONLY <2>0, <2>1, <2>2, Iterates
  <2>4. PICK g \in [0..bits -> S] : g[0] = s0 /\ \A i \in 1..bits : g[i] = G[<<g[i - 1], i>>]
    BY <2>3a DEF Unrolled
  <2>5. ASSUME NEW i \in 0..bits PROVE g[i] = IF i = 0 THEN s0 ELSE Step(g[i - 1], i)
    <3>1. CASE i = 0
      BY <2>4, <3>1
    <3>2. CASE i # 0
      <4>1. i \in 1..bits /\ i - 1 \in 0..bits
        BY <1>2, <3>2
      <4>2. g[i - 1] \in S
        BY <2>4, <4>1
      <4> QED
        BY <2>3, <2>4, <3>2, <4>1, <4>2
    <3> QED
      BY <3>1, <3>2
  <2>6. g = [i \in 0..bits |-> g[i]]
    BY <2>4
  <2>7. g = [i \in 0..bits |-> IF i = 0 THEN s0 ELSE Step(g[i - 1], i)]
    BY <2>5, <2>6
  <2> QED
    BY <2>7
<1>7. Def(f)
  <2> HIDE DEF Def
  <2> QED
    BY <1>6
<1> HIDE DEF f
<1>8. f[0] = s0 /\ \A i \in 1..bits : f[i] = Step(f[i - 1], i)
  <2>1. 0 \in 0..bits
    BY <1>2
  <2>2. \A i \in 1..bits : i \in 0..bits /\ i # 0
    BY <1>2
  <2> HIDE DEF Step, s0
  <2> QED
    BY <1>7, <2>1, <2>2
<1> DEFINE Good(i) == /\ f[i] \in S /\ f[i].rem \in 0..(d - 1) /\ f[i].q \in 0..(2^i - 1)
                      /\ f[i].q * d + f[i].rem = hi * 2^i + (lo \div 2^(bits - i))
           T == {i \in 0..bits : Good(i)}
<1>9. Good(0)
  <2>1. 2^0 = 1 /\ bits - 0 = bits /\ 2^bits = Wide
    BY <1>2, PowersOfTwo, PowersWide
  <2>2. lo \div Wide = 0
    <3>1. 0 * Wide + lo = lo /\ lo \in 0..(Wide - 1)
      BY <1>2
    <3>2. (0 * Wide + lo) \div Wide = 0
      BY <1>2, <3>1, Dividing
    <3> QED
      BY <3>1, <3>2
  <2>3. f[0] = [rem |-> hi, q |-> 0]
    BY <1>8
  <2>4. f[0] \in S /\ f[0].rem = hi /\ f[0].q = 0
    BY <1>2, <2>3
  <2>5. 0 * d + hi = hi * 1 + 0 /\ hi \in 0..(d - 1) /\ 0 \in 0..(1 - 1)
    BY <1>2
  <2> HIDE DEF S
  <2> QED
    BY <2>1, <2>2, <2>4, <2>5
<1>10. ASSUME NEW i \in 0..(bits - 1), Good(i) PROVE Good(i + 1)
  <2> DEFINE e == 2^(bits - (i + 1))
             b == (lo \div e) % 2
             p == f[i]
             h == 2 * p.rem + b
  <2>1. i \in Nat /\ i + 1 \in 1..bits /\ (i + 1) - 1 = i /\ bits - (i + 1) \in Nat
        /\ bits - i = (bits - (i + 1)) + 1
    BY <1>2
  <2>2. e \in Nat \ {0} /\ 2^(bits - i) = 2 * e /\ 2^i \in Nat \ {0} /\ 2^(i + 1) = 2 * 2^i
    BY <2>1, PowersOfTwo
  <2>3. lo \div e = 2 * (lo \div (2 * e)) + b /\ b \in {0, 1} /\ lo \div (2 * e) \in Nat
    <3>1. 2 * e \in Nat \ {0}
      BY <2>2
    <3> QED
      BY <1>2, <1>4, <2>1, <2>2, <3>1, BroughtDown, Divided
  <2>4. f[i + 1] = IF h >= d THEN [rem |-> (h - d) % Wide, q |-> (2 * p.q + 1) % Wide]
                             ELSE [rem |-> h % Wide, q |-> (2 * p.q) % Wide]
    BY <1>8, <2>1
  <2>5. 2^(i + 1) <= Wide
    BY <1>2, <2>1, PowersWide
  <2>6. /\ p.rem \in Nat /\ p.rem <= d - 1 /\ p.q \in Nat /\ p.q <= 2^i - 1
        /\ p.q * d + p.rem = hi * 2^i + (lo \div (2 * e))
    <3>1. /\ f[i].rem \in 0..(d - 1) /\ f[i].q \in 0..(2^i - 1)
          /\ f[i].q * d + f[i].rem = hi * 2^i + (lo \div 2^(bits - i))
      BY <1>10
    <3>2. lo \div 2^(bits - i) = lo \div (2 * e)
      BY <2>2
    <3> HIDE DEF e
    <3>3. 2^i \in Nat
      BY <2>2
    <3> HIDE DEF Good
    <3> QED
      BY <1>2, <3>1, <3>2, <3>3
  <2> DEFINE w == 2^i
             v == lo \div (2 * e)
             v2 == lo \div e
             rem == p.rem
             q == p.q
  <2>7. /\ rem \in Nat /\ rem <= d - 1 /\ q \in Nat /\ q <= w - 1 /\ q * d + rem = hi * w + v
        /\ w \in Nat \ {0} /\ v \in Nat /\ v2 = 2 * v + b /\ b \in {0, 1} /\ 2 * w <= Wide
        /\ h = 2 * rem + b
    BY <2>2, <2>3, <2>5, <2>6
  <2>8. f[i + 1] = IF h >= d THEN [rem |-> (h - d) % Wide, q |-> (2 * q + 1) % Wide]
                             ELSE [rem |-> h % Wide, q |-> (2 * q) % Wide]
    BY <2>4
  <2>9. 2^(i + 1) = 2 * w /\ lo \div 2^(bits - (i + 1)) = v2
    BY <2>2
  <2> HIDE DEF e, b, p, h, w, v, v2, rem, q, Step, Sh
  <2>10. /\ 2 * (q * d + rem) = (2 * q) * d + 2 * rem /\ 2 * (hi * w + v) = hi * (2 * w) + 2 * v
         /\ (2 * q + 1) * d = (2 * q) * d + d /\ (2 * q) * d \in Nat /\ hi * (2 * w) \in Nat
    BY <1>2, <2>7
  <2> DEFINE rn == IF h >= d THEN h - d ELSE h
             qn == IF h >= d THEN 2 * q + 1 ELSE 2 * q
  <2>11. rn \in 0..(d - 1) /\ qn \in 0..(2 * w - 1)
    BY <1>2, <2>7
  <2>12. qn * d + rn = hi * (2 * w) + v2
    <3>1. CASE h >= d
      BY <1>2, <2>7, <2>10, <3>1
    <3>2. CASE ~(h >= d)
      BY <1>2, <2>7, <2>10, <3>2
    <3> QED
      BY <3>1, <3>2
  <2>13. \A x \in 0..(Wide - 1) : x % Wide = x
    BY <1>2
  <2>14. f[i + 1] = [rem |-> rn % Wide, q |-> qn % Wide]
    BY <2>8
  <2>15. rn \in 0..(Wide - 1) /\ qn \in 0..(Wide - 1) /\ rn \in Nat /\ qn \in Nat
    BY <1>2, <2>7, <2>11
  <2> HIDE DEF rn, qn
  <2>16. f[i + 1] = [rem |-> rn, q |-> qn]
    BY <2>13, <2>14, <2>15
  <2>17. f[i + 1] \in S /\ f[i + 1].rem = rn /\ f[i + 1].q = qn
    BY <2>15, <2>16
  <2> HIDE DEF S
  <2> QED
    BY <2>9, <2>11, <2>12, <2>17
<1>11. Good(bits)
  <2> HIDE DEF Good
  <2>1. 0 \in T /\ \A i \in 0..(bits - 1) : i \in T => i + 1 \in T
    <3>1. \A i \in 0..(bits - 1) : i + 1 \in 0..bits
      BY <1>2
    <3> QED
      BY <1>2, <1>9, <1>10, <3>1
  <2>2. bits \in 0..bits
    BY <1>2
  <2> HIDE DEF T
  <2>3. bits \in T
    BY <1>2, <2>1, <2>2, Everywhere
  <2> QED
    BY <2>3 DEF T
<1>12. 2^bits = Wide /\ bits - bits = 0 /\ 2^0 = 1 /\ lo \div 1 = lo
  BY <1>2, PowersOfTwo, PowersWide
<1> HIDE DEF S
<1>13. f[bits].rem \in 0..(d - 1) /\ f[bits].q \in 0..(Wide - 1)
       /\ f[bits].q * d + f[bits].rem = hi * Wide + lo
  BY <1>11, <1>12
<1> QED
  BY <1>1, <1>13 DEF Word

\* A quotient is exact, and missing exactly when it does not fit a word.
LEMMA MulDivIsExact ==
  ASSUME NEW a \in Word, NEW b \in Word, NEW d \in Word
  PROVE  /\ MulDiv(a, b, d).q = None <=> d = 0 \/ d * Wide <= a * b
         /\ MulDiv(a, b, d).q # None =>
              /\ MulDiv(a, b, d).q \in Word /\ MulDiv(a, b, d).rem \in 0..(d - 1)
              /\ MulDiv(a, b, d).q * d + MulDiv(a, b, d).rem = a * b
<1> DEFINE hi == Product(a, b).hi
           lo == Product(a, b).lo
           r == MulDiv(a, b, d)
           l == LongDivision(hi, lo, d)
<1>1. lo \in Word /\ hi \in Word /\ a * b = hi * Wide + lo
  BY ProductIsExact
<1>2. r = IF d = 0 \/ hi >= d THEN [q |-> None, rem |-> 0]
          ELSE IF hi = 0 THEN [q |-> lo \div d, rem |-> lo % d] ELSE l
  BY DEF MulDiv
<1>3. d # 0 /\ ~(hi >= d) => l.q \in Word /\ l.rem \in 0..(d - 1) /\ l.q * d + l.rem = hi * Wide + lo
  <2>1. ASSUME d # 0, ~(hi >= d) PROVE hi \in 0..(d - 1)
    BY <1>1, <2>1, HalfType DEF Word
  <2> HIDE DEF hi, lo
  <2> QED
    BY <1>1, <2>1, LongDivisionIsExact
<1> HIDE DEF hi, lo, r, l
<1>4. /\ Wide \in Nat \ {0} /\ lo \in Nat /\ lo <= Wide - 1 /\ hi \in Nat /\ d \in Nat /\ d <= Wide - 1
      /\ d * Wide \in Nat /\ hi * Wide \in Nat
  BY <1>1, HalfType, NatProduct DEF Word
<1>5. d <= hi <=> d * Wide <= a * b
  <2>1. ASSUME d <= hi PROVE d * Wide <= a * b
    <3>1. Wide * d <= Wide * hi /\ Wide * d = d * Wide /\ Wide * hi = hi * Wide
      BY <1>4, <2>1, Grows
    <3> QED
      BY <1>1, <1>4, <3>1
  <2>2. ASSUME ~(d <= hi) PROVE ~(d * Wide <= a * b)
    <3>1. Wide * (hi + 1) <= Wide * d /\ Wide * d = d * Wide /\ Wide * (hi + 1) = hi * Wide + Wide
      BY <1>4, <2>2, Grows
    <3> QED
      BY <1>1, <1>4, <3>1
  <2> QED
    BY <2>1, <2>2
<1>6. CASE d = 0 \/ hi >= d
  <2>1. r.q = None
    BY <1>2, <1>6
  <2> QED
    BY <1>4, <1>5, <1>6, <2>1 DEF r
<1>7. CASE d # 0 /\ ~(hi >= d) /\ hi = 0
  <2>1. lo \div d \in Nat /\ lo % d \in 0..(d - 1) /\ lo = (lo \div d) * d + (lo % d)
    BY <1>4, <1>7, Divided
  <2> DEFINE x == lo \div d
             y == lo % d
  <2>2. x \in Nat /\ y \in 0..(d - 1) /\ lo = x * d + y
    BY <2>1
  <2>3. r.q = x /\ r.rem = y
    BY <1>2, <1>7
  <2> HIDE DEF x, y
  <2>4. x <= Wide - 1
    <3>1. x * 1 <= x * d /\ x * d \in Nat
      BY <1>4, <1>7, <2>2, Grows, NatProduct
    <3> QED
      BY <1>4, <2>2, <3>1
  <2>5. x \in Word /\ x # None
    BY <1>4, <2>2, <2>4 DEF Word, None
  <2>6. a * b = x * d + y
    BY <1>1, <1>4, <1>7, <2>2
  <2>7. ~(d * Wide <= a * b) /\ d # 0
    BY <1>4, <1>5, <1>7
  <2> QED
    BY <2>2, <2>3, <2>5, <2>6, <2>7 DEF r
<1>8. CASE d # 0 /\ ~(hi >= d) /\ hi # 0
  <2>1. r = l
    BY <1>2, <1>8
  <2>2. r.q \in Word /\ r.rem \in 0..(d - 1) /\ r.q * d + r.rem = a * b
    BY <1>1, <1>3, <1>8, <2>1
  <2>3. r.q # None
    BY <2>2, HalfType DEF Word, None
  <2>4. ~(d * Wide <= a * b) /\ d # 0
    BY <1>4, <1>5, <1>8
  <2> QED
    BY <2>2, <2>3, <2>4 DEF r
<1> QED
  BY <1>6, <1>7, <1>8

-----------------------------------------------------------------------------
(* Ratios and profits are rounded against the trader *)

LEMMA ScaleType == Scale \in Nat \ {0} /\ Scale \in Word
<1>1. Half * Half = Wide /\ Scale \in 1..(Half * Half - 1)
  BY HalfType, StrategyAssumption
<1> QED
  BY <1>1, HalfType DEF Word

LEMMA Squares ==
  ASSUME NEW x \in Nat, NEW y \in Nat, x <= y PROVE x * x <= y * y
<1>1. x * x <= x * y /\ y * x <= y * y
  BY Grows
<1>2. x * y = y * x /\ x * x \in Int /\ x * y \in Int /\ y * y \in Int
  OBVIOUS
<1> QED
  BY <1>1, <1>2

\* A price ratio is rounded down, and missing only when it is too large.
LEMMA RatioRoundsDown ==
  ASSUME NEW from \in Word, NEW to \in Word, from # 0
  PROVE  /\ PriceRatio(from, to) # None =>
              PriceRatio(from, to) \in Word /\ PriceRatio(from, to) * (from * from) <= (to * to) * Scale
         /\ PriceRatio(from, to) = None => from <= to
<1> DEFINE a == MulDiv(to, Scale, from)
           root == a.q
           c == MulDiv(root, root, Scale)
           r == c.q
<1>1. PriceRatio(from, to) = IF root = None THEN None ELSE r
  BY DEF PriceRatio, MulDivFloor
<1>2. /\ Scale \in Nat \ {0} /\ Scale \in Word /\ Wide \in Nat \ {0} /\ Scale <= Wide - 1
      /\ from \in Nat \ {0} /\ to \in Nat
  BY ScaleType, HalfType DEF Word
<1>3. /\ root = None <=> from * Wide <= to * Scale
      /\ root # None => root \in Word /\ a.rem \in 0..(from - 1) /\ root * from + a.rem = to * Scale
  BY <1>2, MulDivIsExact
<1>4. ASSUME root \in Word
      PROVE  /\ r = None <=> Scale * Wide <= root * root
             /\ r # None => r \in Word /\ c.rem \in 0..(Scale - 1) /\ r * Scale + c.rem = root * root
  BY <1>2, <1>4, MulDivIsExact
<1> DEFINE arem == a.rem
           crem == c.rem
<1>5. root # None => arem \in 0..(from - 1) /\ root * from + arem = to * Scale
  BY <1>3
<1>6. root \in Word => (r # None => crem \in 0..(Scale - 1) /\ r * Scale + crem = root * root)
  BY <1>4
<1> HIDE DEF a, c, root, r, arem, crem
<1>7. ASSUME root # None PROVE root \in Nat /\ root * from <= to * Scale /\ root * from \in Nat
  <2>1. root \in Nat
    BY <1>2, <1>3, <1>7 DEF Word
  <2>2. arem \in Nat /\ root * from \in Nat /\ to * Scale \in Nat
    BY <1>2, <1>5, <1>7, <2>1, NatProduct
  <2> QED
    BY <1>5, <1>7, <2>1, <2>2
<1>8. ASSUME root # None, r # None
      PROVE  r \in Word /\ r * (from * from) <= (to * to) * Scale
  <2>1. root \in Nat /\ root * from <= to * Scale /\ r \in Nat /\ r \in Word
    BY <1>2, <1>3, <1>4, <1>7, <1>8 DEF Word
  <2>2. (root * from) * (root * from) <= (to * Scale) * (to * Scale)
    BY <1>2, <1>7, <1>8, <2>1, Squares, NatProduct
  <2>3. r * Scale <= root * root
    <3>1. crem \in Nat /\ r * Scale \in Nat /\ root * root \in Nat /\ r * Scale + crem = root * root
      BY <1>2, <1>3, <1>6, <1>8, <2>1, NatProduct
    <3> QED
      BY <3>1
  <2> DEFINE d == from * from
             n == to * to
  <2>4. d \in Nat /\ n \in Nat
    BY <1>2
  <2>5. (root * from) * (root * from) = d * (root * root)
    BY <1>2, <2>1
  <2>6. (to * Scale) * (to * Scale) = Scale * (n * Scale)
    BY <1>2
  <2> HIDE DEF d, n
  <2>7. d * (r * Scale) <= d * (root * root)
    BY <1>2, <2>1, <2>3, <2>4, Grows, NatProduct
  <2>8. d * (r * Scale) = Scale * (r * d)
    BY <1>2, <2>1, <2>4
  <2>9. r * d \in Nat /\ n * Scale \in Nat /\ root * root \in Nat
    BY <1>2, <2>1, <2>4, NatProduct
  <2>10. Scale * (r * d) \in Int /\ Scale * (n * Scale) \in Int /\ d * (root * root) \in Int
    BY <1>2, <2>4, <2>9, NatProduct
  <2>11. Scale * (r * d) <= Scale * (n * Scale)
    BY <2>2, <2>5, <2>6, <2>7, <2>8, <2>10
  <2>12. r * d <= n * Scale
    BY <1>2, <2>9, <2>11, Cancels
  <2> QED
    BY <2>1, <2>12 DEF d, n
<1>9. ASSUME root = None PROVE from <= to
  <2> SUFFICES ASSUME to <= from PROVE FALSE
    BY <1>2
  <2>1. from * Wide <= to * Scale
    BY <1>3, <1>9
  <2>2. Scale * to <= Scale * from /\ from * Scale <= from * (Wide - 1)
    BY <1>2, Grows
  <2>3. from * (Wide - 1) = from * Wide - from /\ from * Scale = Scale * from /\ Scale * to = to * Scale
        /\ from * Wide \in Int /\ to * Scale \in Int /\ from * Scale \in Int
    BY <1>2
  <2> QED
    BY <1>2, <2>1, <2>2, <2>3
<1>10. ASSUME root # None, r = None PROVE from <= to
  <2> SUFFICES ASSUME to <= from PROVE FALSE
    BY <1>2
  <2>1. root \in Nat /\ root * from <= to * Scale
    BY <1>7, <1>10
  <2>2. Scale * to <= Scale * from
    BY <1>2, Grows
  <2>3. from * root = root * from /\ Scale * to = to * Scale /\ Scale * from = from * Scale
        /\ root * from \in Int /\ to * Scale \in Int /\ from * Scale \in Int
    BY <1>2, <2>1
  <2>4. from * root <= from * Scale
    BY <2>1, <2>2, <2>3
  <2>5. root <= Scale
    BY <1>2, <2>1, <2>4, Cancels
  <2>6. root * root <= Scale * Scale
    BY <1>2, <2>1, <2>5, Squares
  <2>7. Scale * Wide <= root * root
    BY <1>3, <1>4, <1>10
  <2>8. Scale * Scale <= Scale * (Wide - 1) /\ Scale * (Wide - 1) = Scale * Wide - Scale
        /\ Scale * Scale \in Int /\ Scale * Wide \in Int /\ root * root \in Int
    BY <1>2, <2>1, Grows
  <2> QED
    BY <1>2, <2>6, <2>7, <2>8
<1> QED
  BY <1>1, <1>3, <1>8, <1>9, <1>10

LEMMA LargestType == Largest \in Int /\ Largest <= Wide - 1 /\ Largest < Half
<1>1. Half \in Nat \ {0} /\ Wide = Half * Half /\ Wide \in Nat \ {0}
  BY HalfType
<1>2. Half * 1 <= Half * Half
  BY <1>1, Grows
<1>3. Half \div 2 \in Nat /\ Half \div 2 <= Half
  BY <1>1
<1> QED
  BY <1>1, <1>2, <1>3 DEF Largest

\* A profit is rounded down, a loss up, and a loss is at most the position.
LEMMA PnlRoundsDown ==
  ASSUME NEW ratio \in Word, NEW held \in 1..Largest
  PROVE  /\ PnlFromRatio(ratio, held) \in Int
         /\ PnlFromRatio(ratio, held) * Scale <= held * (ratio - Scale)
         /\ PnlFromRatio(ratio, held) >= -held
<1>1. /\ Scale \in Nat \ {0} /\ Scale \in Word /\ Wide \in Nat \ {0} /\ Scale <= Wide - 1 /\ Largest \in Int
      /\ ratio \in Nat /\ ratio <= Wide - 1 /\ held \in Nat \ {0} /\ held <= Largest /\ held \in Word
  BY ScaleType, HalfType, LargestType DEF Word
<1>2. CASE ratio >= Scale
  <2> DEFINE x == ratio - Scale
             m == MulDiv(held, x, Scale)
             q == m.q
             rem == m.rem
             g == OrElse(q, Wide - 1)
  <2>1. x \in Nat /\ x \in Word
    BY <1>1, <1>2 DEF Word
  <2>2. /\ q = None <=> Scale * Wide <= held * x
        /\ q # None => q \in Word /\ rem \in 0..(Scale - 1) /\ q * Scale + rem = held * x
    <3> HIDE DEF x
    <3> QED
      BY <1>1, <2>1, MulDivIsExact
  <2>3. PnlFromRatio(ratio, held) = Least(g, Largest)
    BY <1>2 DEF PnlFromRatio, Gain, MulDivFloor
  <2>4. g = IF q = None THEN Wide - 1 ELSE q
    BY DEF OrElse
  <2> HIDE DEF m, q, rem, g
  <2>5. g \in Nat /\ g * Scale <= held * x
    <3>1. CASE q = None
      <4>1. Scale * Wide <= held * x /\ g = Wide - 1
        BY <2>2, <2>4, <3>1
      <4>2. (Wide - 1) * Scale = Scale * Wide - Scale /\ Scale * Wide \in Int
        BY <1>1
      <4>3. held * x \in Int
        BY <1>1, <2>1
      <4> HIDE DEF x
      <4> QED
        BY <1>1, <4>1, <4>2, <4>3
    <3>2. CASE q # None
      <4>1. g \in Nat /\ rem \in Nat /\ q \in Nat /\ q = g /\ q * Scale + rem = held * x
        BY <1>1, <2>2, <2>4, <3>2 DEF Word
      <4>2. q * Scale \in Nat /\ held * x \in Nat
        BY <1>1, <2>1, <4>1, NatProduct
      <4> HIDE DEF x
      <4> QED
        BY <4>1, <4>2
    <3> QED
      BY <3>1, <3>2
  <2>6. Least(g, Largest) \in Nat /\ Least(g, Largest) <= g
    BY <1>1, <2>5 DEF Least
  <2> DEFINE l == Least(g, Largest)
  <2>7. l \in Nat /\ l <= g
    BY <2>6
  <2> HIDE DEF l
  <2>8. Scale * l <= Scale * g /\ Scale * l = l * Scale /\ Scale * g = g * Scale
        /\ l * Scale \in Int /\ g * Scale \in Int /\ held * x \in Int
    BY <1>1, <2>1, <2>5, <2>7, Grows
  <2>9. l * Scale <= held * x
    <3> HIDE DEF x
    <3> QED
      BY <2>5, <2>8
  <2> QED
    BY <1>1, <2>3, <2>7, <2>9 DEF l
<1>3. CASE ~(ratio >= Scale)
  <2> DEFINE x == Scale - ratio
             m == MulDiv(held, x, Scale)
             q == m.q
             rem == m.rem
             c == IF q = None \/ rem = 0 THEN q ELSE IF q = Wide - 1 THEN None ELSE q + 1
             g == Least(OrElse(c, held), held)
  <2>1. x \in Nat /\ x \in Word /\ x <= Scale
    BY <1>1, <1>3 DEF Word
  <2>2. /\ q = None <=> Scale * Wide <= held * x
        /\ q # None => q \in Word /\ rem \in 0..(Scale - 1) /\ q * Scale + rem = held * x
    <3> HIDE DEF x
    <3> QED
      BY <1>1, <2>1, MulDivIsExact
  <2>3. PnlFromRatio(ratio, held) = -Least(g, Largest)
    BY <1>3 DEF PnlFromRatio, MulDivCeil
  <2>4. g = IF c = None THEN held ELSE IF c < held THEN c ELSE held
    BY DEF OrElse, Least
  <2> HIDE DEF m, q, rem, g
  <2>5. held * x <= held * Scale /\ held * x \in Nat /\ held * Scale \in Nat
        /\ held * Scale = Scale * held
    BY <1>1, <2>1, Grows, NatProduct
  <2>6. Scale * held <= Scale * (Wide - 1) /\ Scale * (Wide - 1) = Scale * Wide - Scale
        /\ Scale * Wide \in Int
    BY <1>1, LargestType, Grows
  <2> HIDE DEF x
  <2>7. q # None
    BY <1>1, <2>2, <2>5, <2>6
  <2>8. q \in Nat /\ rem \in Nat /\ rem < Scale /\ q * Scale + rem = held * x /\ q * Scale \in Nat
    BY <1>1, <2>2, <2>7, NatProduct DEF Word
  <2>9. q <= held
    <3>1. Scale * q <= Scale * held
      <4>1. Scale * q = q * Scale
        BY <1>1, <2>8
      <4> QED
        BY <2>5, <2>8, <4>1
    <3> QED
      BY <1>1, <2>8, <3>1, Cancels
  <2>10. rem # 0 => q + 1 <= held
    <3> SUFFICES ASSUME rem # 0, ~(q + 1 <= held) PROVE FALSE
      OBVIOUS
    <3>1. q = held
      BY <1>1, <2>8, <2>9
    <3>2. q * Scale = Scale * held
      BY <2>5, <3>1
    <3> QED
      BY <2>5, <2>8, <3>2
  <2> DEFINE e == IF rem = 0 THEN q ELSE q + 1
  <2>11. c = e /\ e \in Nat /\ e <= held /\ c # None
    BY <1>1, <2>7, <2>8, <2>9, <2>10, LargestType DEF None
  <2>12. e * Scale >= held * x /\ e * Scale \in Nat
    <3>1. (q + 1) * Scale = q * Scale + Scale
      BY <1>1, <2>8
    <3>2. CASE rem = 0
      BY <2>5, <2>8, <3>2
    <3>3. CASE rem # 0
      BY <1>1, <2>5, <2>8, <3>1, <3>3
    <3> QED
      BY <3>2, <3>3
  <2> HIDE DEF c, e
  <2>13. g = e
    BY <1>1, <2>4, <2>11
  <2>14. Least(g, Largest) = e
    BY <1>1, <2>11, <2>13 DEF Least
  <2>15. (-e) * Scale = -(e * Scale) /\ held * (ratio - Scale) = -(held * x)
    <3>1. ratio - Scale = -x /\ x \in Int
      BY <1>1 DEF x
    <3>2. held * (-x) = -(held * x)
      BY <1>1, <3>1
    <3> QED
      BY <1>1, <2>11, <3>1, <3>2
  <2> QED
    BY <1>1, <2>3, <2>5, <2>11, <2>12, <2>14, <2>15
<1> QED
  BY <1>2, <1>3

\* What is booked on a ratio is at most what the exact ratio n / d gives.
LEMMA BookedBelowExact ==
  ASSUME NEW g \in Int, NEW held \in Nat, NEW ratio \in Int, NEW n \in Nat, NEW d \in Nat,
         g * Scale <= held * (ratio - Scale), ratio * d <= n * Scale
  PROVE  g * d <= held * (n - d)
<1>1. Scale \in Nat \ {0}
  BY ScaleType
<1>2. d * (g * Scale) <= d * (held * (ratio - Scale))
  <2>1. g * Scale \in Int /\ held * (ratio - Scale) \in Int
    BY <1>1
  <2> QED
    BY <2>1, Grows
<1>3. d * (held * (ratio - Scale)) = held * (ratio * d - Scale * d)
  BY <1>1
<1>4. ratio * d - Scale * d <= n * Scale - Scale * d /\ ratio * d - Scale * d \in Int /\ n * Scale - Scale * d \in Int
  BY <1>1
<1>5. held * (ratio * d - Scale * d) <= held * (n * Scale - Scale * d)
  BY <1>4, Grows
<1>6. held * (n * Scale - Scale * d) = Scale * (held * (n - d)) /\ d * (g * Scale) = Scale * (g * d)
  BY <1>1
<1>7. Scale * (g * d) <= Scale * (held * (n - d))
  <2>1. /\ d * (g * Scale) \in Int /\ held * (ratio * d - Scale * d) \in Int
        /\ held * (n * Scale - Scale * d) \in Int
    BY <1>1, <1>4
  <2> QED
    BY <1>2, <1>3, <1>5, <1>6, <2>1
<1>8. g * d \in Int /\ held * (n - d) \in Int
  OBVIOUS
<1> QED
  BY <1>1, <1>7, <1>8, Cancels

\* Quotients by a positive number of numbers that are not negative.
LEMMA NatQuotient ==
  ASSUME NEW a \in Nat, NEW b \in Nat \ {0} PROVE a \div b \in Nat
  BY Divided

\* A pool without liquidity takes the whole position, whatever else a close costs.
LEMMA NothingLeft ==
  ASSUME NEW m \in CostModels, NEW held \in Nat, NEW entry \in Nat
  PROVE  PaperCost(m, held, entry, 0) \in Int /\ PaperCost(m, held, entry, 0) >= held
<1>1. Bps \in Nat \ {0} /\ Ppm \in Nat \ {0}
  BY CostAssumption
<1>2. m.feePpm \in Nat /\ m.exitImpactPct \in Nat /\ m.latencyBps \in Nat /\ m.network \in Nat
  BY PaperAssumption DEF PaperAssumption
<1> DEFINE fee == (2 * held * Least(m.feePpm, Ppm)) \div Ppm
           in == CpImpact(held, entry)
           pct == Least(Greatest(m.exitImpactPct, 100), 10000)
           out == (held * pct) \div 100
           latency == (2 * held * Least(m.latencyBps, Bps)) \div Bps
<1>3. fee \in Nat
  <2>1. Least(m.feePpm, Ppm) \in Nat
    BY <1>1, <1>2 DEF Least
  <2> QED
    BY <1>1, <2>1, NatProduct, NatQuotient
<1>4. latency \in Nat
  <2>1. Least(m.latencyBps, Bps) \in Nat
    BY <1>1, <1>2 DEF Least
  <2> QED
    BY <1>1, <2>1, NatProduct, NatQuotient
<1>5. in \in Nat
  <2>1. CASE entry = 0
    BY <2>1 DEF CpImpact
  <2>2. CASE entry # 0
    <3>1. entry + held \in Nat \ {0} /\ held * held \in Nat
      BY <2>2, NatProduct
    <3> QED
      BY <2>2, <3>1, NatQuotient DEF CpImpact
  <2> QED
    BY <2>1, <2>2
<1>6. pct \in Nat /\ pct >= 100
  BY <1>2 DEF Least, Greatest
<1>7. out \in Nat /\ out >= held
  <2> DEFINE k == pct - 100
  <2>1. k \in Nat /\ held * pct = held * 100 + held * k
    BY <1>6
  <2> HIDE DEF pct, k
  <2>2. held * k \in Nat
    BY <2>1, NatProduct
  <2> DEFINE j == held * k
  <2>3. j \in Nat /\ held * pct = held * 100 + j
    BY <2>1, <2>2
  <2> HIDE DEF j
  <2>4. (held * 100 + j) \div 100 \in Nat /\ (held * 100 + j) \div 100 >= held
    BY <2>3
  <2> QED
    BY <2>3, <2>4
<1>8. CpImpact(held, 0) = held
  BY DEF CpImpact
<1>9. PaperCost(m, held, entry, 0) = fee + (in + out) + latency + 2 * m.network
  BY <1>8 DEF PaperCost
<1> HIDE DEF fee, in, out, latency
<1> QED
  BY <1>2, <1>3, <1>4, <1>5, <1>7, <1>9

-----------------------------------------------------------------------------
(* The paper loop: what it books *)

PricesTyped ==
  /\ inputIsToken0 \in BOOLEAN
  /\ feed.price # None => feed.price \in Prices
  /\ stage = "quoted" => quote.price \in Prices
  /\ Open => position.entry \in Prices /\ position.liquidity \in Liquidities

BooksInv == PricesTyped /\ NeverOptimistic

Booked == {"stop_loss", "take_profit", "trailing_stop", "liquidity_drop", "max_hold"}

\* A close at any ratio, also one that does not fit a word.
LEMMA CloseNotOptimistic ==
  ASSUME BooksInv, NEW l \in Liquidities, NEW m \in CostModels, Closes(l, m) PROVE NeverOptimistic'
<1>1. /\ stage = "quoted" /\ Open /\ quote.price \in Prices /\ position.entry \in Prices
      /\ position.liquidity \in Nat /\ l \in Nat /\ inputIsToken0 \in BOOLEAN
  BY PaperAssumption DEF PaperAssumption, Closes, BooksInv, PricesTyped
<1>2. Position \in 1..Largest /\ Prices \subseteq Word /\ Position \in Nat \ {0}
  BY PaperAssumption, LargestType DEF PaperAssumption
<1> DEFINE gross == IF Ratio = None THEN 0 ELSE PnlFromRatio(Ratio, Position)
           net == gross - PaperCost(m, Position, position.liquidity, l)
           n == To * To
           d == From * From
<1>3. /\ outcome'.price = quote.price /\ outcome'.entry = position.entry /\ outcome'.liquidity = l
      /\ outcome'.gross = gross /\ outcome'.net = net /\ inputIsToken0' = inputIsToken0
  BY DEF Closes, Ticks
<1>4. SUFFICES ASSUME quote.price # 0, position.entry # 0
               PROVE  gross * d <= Position * (n - d) /\ gross >= -Position /\ (l = 0 => net <= gross - Position)
  <2>1. Num(outcome.price, outcome.entry)' = n /\ Den(outcome.price, outcome.entry)' = d
    BY <1>1, <1>3 DEF Num, Den, From, To
  <2> HIDE DEF gross, net, n, d
  <2> QED
    BY <1>3, <2>1 DEF NeverOptimistic
<1>5. From \in Word /\ To \in Word /\ From # 0 /\ From \in Prices /\ To \in Prices
  BY <1>1, <1>2, <1>4 DEF From, To
<1>6. Ratio = PriceRatio(From, To)
  BY <1>5 DEF Ratio, RatioOf
<1>7. /\ Ratio # None => Ratio \in Word /\ Ratio * d <= n * Scale
      /\ Ratio = None => From <= To
  BY <1>5, <1>6, RatioRoundsDown
<1>8. From \in Nat /\ To \in Nat /\ n \in Nat /\ d \in Nat
  BY <1>5, HalfType DEF Word
<1>9. gross \in Int /\ gross * d <= Position * (n - d) /\ gross >= -Position
  <2>1. CASE Ratio = None
    <3>1. From * From <= To * To
      BY <1>7, <1>8, <2>1, Squares
    <3>2. n - d \in Nat
      BY <1>8, <3>1
    <3> HIDE DEF n, d
    <3>3. Position * (n - d) \in Nat
      BY <1>2, <3>2, NatProduct
    <3>4. 0 * d = 0
      BY <1>8
    <3> QED
      BY <1>2, <2>1, <3>3, <3>4
  <2>2. CASE Ratio # None
    <3>1. Ratio \in Word /\ Ratio \in Int /\ gross = PnlFromRatio(Ratio, Position)
      BY <1>7, <2>2, HalfType DEF Word
    <3>2. gross \in Int /\ gross * Scale <= Position * (Ratio - Scale) /\ gross >= -Position
      BY <1>2, <3>1, PnlRoundsDown
    <3> HIDE DEF gross, n, d
    <3>3. gross * d <= Position * (n - d)
      BY <1>2, <1>7, <1>8, <2>2, <3>1, <3>2, BookedBelowExact
    <3> QED
      BY <3>2, <3>3
  <2> QED
    BY <2>1, <2>2
<1>10. l = 0 => net <= gross - Position
  <2> SUFFICES ASSUME l = 0 PROVE net <= gross - Position
    OBVIOUS
  <2> DEFINE cost == PaperCost(m, Position, position.liquidity, l)
  <2>1. cost \in Int /\ cost >= Position
    BY <1>1, <1>2, NothingLeft
  <2>2. net = gross - cost
    OBVIOUS
  <2> HIDE DEF cost, gross, net
  <2> QED
    BY <1>2, <1>9, <2>1, <2>2
<1> QED
  BY <1>9, <1>10

LEMMA BooksStep == BooksInv /\ [Next]_vars => BooksInv'
<1> SUFFICES ASSUME BooksInv, [Next]_vars PROVE BooksInv'
  OBVIOUS
<1>1. ASSUME outcome' = outcome, inputIsToken0' = inputIsToken0 PROVE NeverOptimistic'
  BY <1>1 DEF BooksInv, NeverOptimistic, Num, Den
<1>2. ASSUME outcome'.what \notin Booked PROVE NeverOptimistic'
  BY <1>2 DEF NeverOptimistic, Booked
<1>3. ASSUME NEW what \in {"risk", "rejected", "data_error"}, EndsWith(what) PROVE BooksInv'
  <2>1. outcome'.what = what
    BY <1>3 DEF EndsWith, NoOutcome
  <2>2. NeverOptimistic'
    BY <1>2, <2>1 DEF Booked
  <2> QED
    BY <1>3, <2>2 DEF EndsWith, BooksInv, PricesTyped, Open
<1>4. CASE Delay \/ Connects \/ Disconnects \/ Stops \/ \E n \in 1..MaxBehind : StepBack(n)
  <2>1. UNCHANGED <<outcome, inputIsToken0, quote, position>> /\ feed'.price = feed.price
        /\ (stage' = "quoted" => stage = "quoted")
    <3>1. ASSUME NEW b PROVE [feed EXCEPT !.connected = b].price = feed.price
      OBVIOUS
    <3> QED
      BY <1>4, <3>1 DEF Delay, Connects, Disconnects, Stops, StepBack, clock
  <2> QED
    BY <1>1, <2>1 DEF BooksInv, PricesTyped, Open
<1>5. CASE Wake
  <2>1. NeverOptimistic'
    BY <1>2, <1>5 DEF Wake, NoOutcome, Booked
  <2> QED
    BY <1>5, <2>1 DEF Wake, BooksInv, PricesTyped, Open
<1>6. ASSUME NEW p \in Prices, NEW at, Reads(p, at) PROVE BooksInv'
  <2>1. CASE Fresh(at)
    BY <1>1, <1>6, <2>1 DEF Reads, BooksInv, PricesTyped, Open
  <2>2. CASE ~Fresh(at)
    BY <1>3, <1>6, <2>2 DEF Reads
  <2> QED
    BY <2>1, <2>2
<1>7. CASE ReadFeed
  BY <1>6, <1>7 DEF ReadFeed, FromFeed, BooksInv, PricesTyped
<1>8. ASSUME NEW p \in Prices, ReadRpc(p) PROVE BooksInv'
  BY <1>6, <1>8 DEF ReadRpc
<1>9. ASSUME NEW p \in Prices, NEW at, Notifies(p, at) PROVE BooksInv'
  <2>1. UNCHANGED <<outcome, inputIsToken0, quote, position, stage>>
        /\ (feed'.price = p \/ feed'.price = feed.price)
    BY <1>9 DEF Notifies, clock
  <2> QED
    BY <1>1, <2>1 DEF BooksInv, PricesTyped, Open
<1>10. CASE ProbeRefuses \/ ReadFails \/ GateRefuses
  BY <1>3, <1>10 DEF ProbeRefuses, ReadFails, GateRefuses
<1>11. ASSUME NEW l \in Liquidities, NEW m \in CostModels, Closes(l, m) PROVE BooksInv'
  <2>1. NeverOptimistic'
    BY <1>11, CloseNotOptimistic
  <2> QED
    BY <1>11, <2>1 DEF Closes, Ticks, BooksInv, PricesTyped, Open, NoPosition
<1>12. ASSUME NEW what \in {"hold", "no_signal", "rejected", "entry", "risk"}, NEW l \in Liquidities,
              NEW gross, NEW net, Ticks(what, l, gross, net)
       PROVE  NeverOptimistic' /\ stage' # "quoted" /\ UNCHANGED <<inputIsToken0, feed>>
  <2>1. outcome'.what = what
    BY <1>12 DEF Ticks
  <2> QED
    BY <1>2, <1>12, <2>1 DEF Ticks, Booked
<1>13. ASSUME NEW l \in Liquidities, Holds(l) PROVE BooksInv'
  <2>1. position'.entry = position.entry /\ position'.liquidity = position.liquidity /\ Open
    BY <1>13 DEF Holds, PeakSaved
  <2> QED
    BY <1>12, <1>13, <2>1 DEF Holds, BooksInv, PricesTyped
<1>14. ASSUME NEW l \in Liquidities, NoSignal(l) \/ SignalRefuses(l) \/ RiskRefuses(l) PROVE BooksInv'
  BY <1>12, <1>14 DEF NoSignal, SignalRefuses, RiskRefuses, BooksInv, PricesTyped, Open
<1>15. ASSUME NEW l \in Liquidities, Enters(l) PROVE BooksInv'
  <2>1. position'.entry = quote.price /\ position'.liquidity = l /\ quote.price \in Prices
    BY <1>15 DEF Enters, SignalPasses, BooksInv, PricesTyped
  <2> QED
    BY <1>12, <1>15, <2>1 DEF Enters, BooksInv, PricesTyped
<1>16. CASE UNCHANGED vars
  BY <1>1, <1>16 DEF vars, BooksInv, PricesTyped, Open
<1> QED
  BY <1>4, <1>5, <1>7, <1>8, <1>9, <1>10, <1>11, <1>13, <1>14, <1>15, <1>16 DEF Next

LEMMA BooksInvariant == ProcessSpec => []BooksInv
<1>1. ProcessInit => BooksInv
  BY DEF ProcessInit, Init, BooksInv, PricesTyped, NeverOptimistic, NoOutcome, Open
<1>2. [ProcessNext]_<<vars, launchVars>> => [Next]_vars
  BY DEF ProcessNext, BeginsPaper
<1> QED
  BY <1>1, <1>2, BooksStep, PTL DEF ProcessSpec

\* A booked close is never better than the exact value of the position, in
\* either direction of the pool.
THEOREM PessimisticBooks == ProcessSpec => []NeverOptimistic
<1>1. BooksInv => NeverOptimistic
  BY DEF BooksInv
<1> QED
  BY <1>1, BooksInvariant, PTL

-----------------------------------------------------------------------------
(* How far a rounded ratio is from the exact one *)

Bp == Scale \div Bps

LEMMA BpType ==
  /\ Bps \in Nat \ {0} /\ Bps \in Word /\ Bp \in Nat \ {0} /\ Scale = Bp * Bps /\ Bp * Bps \in Nat
  /\ TakeProfit \in Nat /\ StopLoss \in Nat /\ TrailingActivation \in Nat
  /\ 3 * Bps + 2 * TakeProfit + 2 <= Scale
<1>1. Bps \in Nat \ {0} /\ Scale \in Nat \ {0} /\ Scale % Bps = 0 /\ Scale \in Word
  BY CostAssumption, StrategyAssumption, ScaleType
<1>2. Bp \in Nat /\ Scale = Bp * Bps + (Scale % Bps)
  BY <1>1, Divided DEF Bp
<1>3. Bp * Bps \in Nat
  BY <1>1, <1>2, NatProduct
<1>4. Scale = Bp * Bps
  BY <1>1, <1>2, <1>3
<1>5. Bp # 0
  <2> SUFFICES ASSUME Bp = 0 PROVE FALSE
    OBVIOUS
  <2>1. Scale = 0 * Bps
    BY <1>4
  <2> QED
    BY <1>1, <2>1
<1>6. Bps * 1 <= Bps * Bp /\ Bps * Bp = Bp * Bps
  BY <1>1, <1>2, <1>5, Grows
<1>7. Bps \in Word
  BY <1>1, <1>3, <1>4, <1>6, HalfType DEF Word
<1>8. TakeProfit \in Nat /\ StopLoss \in Nat /\ TrailingActivation \in Nat
      /\ 3 * Bps + 2 * TakeProfit + 2 <= Scale
  BY StrategyAssumption
<1> QED
  BY <1>1, <1>2, <1>3, <1>4, <1>5, <1>7, <1>8

\* The root of a ratio and the ratio, each rounded down once.
LEMMA RatioWithinOne ==
  ASSUME NEW from \in Word, NEW to \in Word, from # 0, PriceRatio(from, to) # None
  PROVE  \E root \in Nat :
           /\ PriceRatio(from, to) \in Nat
           /\ root * root < (PriceRatio(from, to) + 1) * Scale
           /\ (to * to) * (Scale * Scale) < (root + 1) * (root + 1) * (from * from)
<1> DEFINE a == MulDiv(to, Scale, from)
           root == a.q
           c == MulDiv(root, root, Scale)
           r == c.q
           arem == a.rem
           crem == c.rem
<1>1. PriceRatio(from, to) = IF root = None THEN None ELSE r
  BY DEF PriceRatio, MulDivFloor
<1>2. /\ Scale \in Nat \ {0} /\ Scale \in Word /\ Wide \in Nat \ {0} /\ from \in Nat \ {0} /\ to \in Nat
  BY ScaleType, HalfType DEF Word
<1>3. root # None /\ r # None /\ PriceRatio(from, to) = r
  BY <1>1
<1>4. root \in Word /\ arem \in 0..(from - 1) /\ root * from + arem = to * Scale
  BY <1>2, <1>3, MulDivIsExact
<1>5. r \in Word /\ crem \in 0..(Scale - 1) /\ r * Scale + crem = root * root
  BY <1>2, <1>3, <1>4, MulDivIsExact
<1> HIDE DEF a, root, c, r, arem, crem
<1>6. /\ root \in Nat /\ r \in Nat /\ arem \in Nat /\ arem < from /\ crem \in Nat /\ crem < Scale
      /\ root * from \in Nat /\ r * Scale \in Nat /\ root * root \in Nat /\ to * Scale \in Nat
  <2>1. root \in Nat /\ r \in Nat
    BY <1>2, <1>4, <1>5 DEF Word
  <2> QED
    BY <1>2, <1>4, <1>5, <2>1, NatProduct
<1>7. (r + 1) * Scale = r * Scale + Scale
  BY <1>2, <1>6
<1>8. root * root < (r + 1) * Scale
  BY <1>2, <1>5, <1>6, <1>7
<1>9. (root + 1) * from = root * from + from
  BY <1>2, <1>6
<1> DEFINE y == (root + 1) * from
           x == to * Scale
<1>10. x \in Nat /\ y \in Nat /\ x + 1 <= y
  BY <1>2, <1>4, <1>6, <1>9
<1> HIDE DEF x, y
<1>11. x * x < y * y
  <2>1. (x + 1) * (x + 1) <= y * y
    BY <1>10, Squares
  <2>2. (x + 1) * (x + 1) = x * x + 2 * x + 1 /\ x * x \in Int /\ y * y \in Int
    BY <1>10
  <2> QED
    BY <1>10, <2>1, <2>2
<1>12. x * x = (to * to) * (Scale * Scale) /\ y * y = (root + 1) * (root + 1) * (from * from)
  BY <1>2, <1>6 DEF x, y
<1> QED
  BY <1>3, <1>6, <1>8, <1>11, <1>12

\* The root of a ratio below k bps.
LEMMA RootBelow ==
  ASSUME NEW root \in Nat, NEW r \in Nat, NEW k \in Nat, Bps <= k,
         root * root < (r + 1) * Scale, r + 1 <= Bp * k
  PROVE  root + 1 <= Bp * k /\ root * root < Scale * (Bp * k)
<1> DEFINE bk == Bp * k
           t == Scale * bk
<1>1. Bps \in Nat \ {0} /\ Bp \in Nat \ {0} /\ Scale = Bp * Bps /\ Scale \in Nat \ {0}
  BY BpType, ScaleType
<1>2. bk \in Nat /\ t \in Nat
  BY <1>1, NatProduct
<1>3. (r + 1) * Scale <= t
  <2>1. Scale * (r + 1) <= Scale * bk /\ Scale * (r + 1) = (r + 1) * Scale
    BY <1>1, <1>2, Grows
  <2> QED
    BY <2>1
<1>4. root * root < t
  <2>1. root * root \in Int /\ (r + 1) * Scale \in Int
    BY <1>1
  <2> QED
    BY <1>2, <1>3, <2>1
<1>5. root + 1 <= bk
  <2> SUFFICES ASSUME bk <= root PROVE FALSE
    BY <1>2
  <2>1. bk * bk <= root * root
    BY <1>2, Squares
  <2>2. Bp * Bps <= Bp * k
    BY <1>1, Grows
  <2>3. bk * Scale <= bk * bk
    BY <1>1, <1>2, <2>2, Grows
  <2>4. bk * Scale = Scale * bk /\ bk * bk \in Int /\ root * root \in Int
    BY <1>1, <1>2
  <2> HIDE DEF bk
  <2> QED
    BY <1>2, <1>4, <2>1, <2>3, <2>4
<1> QED
  BY <1>4, <1>5

\* A ratio below k bps is below k + 1 exactly, where a bp is coarser than the rounding.
LEMMA BelowInBps ==
  ASSUME NEW from \in Word, NEW to \in Word, from # 0, PriceRatio(from, to) # None,
         NEW k \in Nat, Bps <= k, 2 * k <= Scale, PriceRatio(from, to) + 1 <= Bp * k
  PROVE  (to * to) * Bps < (from * from) * (k + 1)
<1> DEFINE r == PriceRatio(from, to)
           n == to * to
           d == from * from
<1>1. PICK root \in Nat : /\ r \in Nat /\ root * root < (r + 1) * Scale
                          /\ n * (Scale * Scale) < (root + 1) * (root + 1) * d
  BY RatioWithinOne
<1>2. /\ Bps \in Nat \ {0} /\ Bp \in Nat \ {0} /\ Scale = Bp * Bps /\ Scale \in Nat \ {0}
      /\ n \in Nat /\ d \in Nat \ {0} /\ r + 1 <= Bp * k
  <2>1. to \in Nat /\ from \in Nat /\ from # 0
    BY HalfType DEF Word
  <2>2. from * from \in Nat /\ from * from # 0 /\ to * to \in Nat
    BY <2>1
  <2> QED
    BY <2>2, BpType, ScaleType
<1> HIDE DEF r, n, d
<1> DEFINE bk == Bp * k
           t == Scale * bk
<1>3. bk \in Nat /\ t \in Nat
  BY <1>2, NatProduct
<1>5. root * root < t /\ root + 1 <= bk
  BY <1>1, <1>2, RootBelow
<1>7. (root + 1) * (root + 1) <= t + 2 * bk
  <2>1. (root + 1) * (root + 1) = root * root + 2 * root + 1 /\ root * root \in Int
    OBVIOUS
  <2> HIDE DEF bk, t
  <2> QED
    BY <1>3, <1>5, <2>1
\* ... which is at most Scale * Bp * (k + 1).
<1>8. t + 2 * bk <= Scale * (Bp * (k + 1))
  <2>1. Scale * (Bp * (k + 1)) = Scale * (Bp * k) + Scale * Bp
    BY <1>2
  <2>2. Bp * (2 * k) <= Bp * Scale
    BY <1>2, Grows
  <2>3. Bp * (2 * k) = 2 * bk /\ Bp * Scale = Scale * Bp /\ Scale * Bp \in Int
    BY <1>2
  <2> QED
    BY <1>3, <2>1, <2>2, <2>3
<1> DEFINE s == (root + 1) * (root + 1)
           u == Scale * (Bp * (k + 1))
<1>9. s \in Nat /\ u \in Nat /\ s <= u
  <2>1. s \in Nat /\ u \in Nat
    BY <1>2
  <2> HIDE DEF t, bk
  <2> QED
    BY <1>3, <1>7, <1>8, <2>1
<1>10. n * (Scale * Scale) < s * d
  BY <1>1
<1> HIDE DEF s
<1>11. d * s <= d * u /\ d * s = s * d
  BY <1>2, <1>9, Grows
<1>12. d * u = (Scale * Bp) * (d * (k + 1)) /\ n * (Scale * Scale) = (Scale * Bp) * (n * Bps)
  BY <1>2
<1>13. d * u \in Int /\ n * (Scale * Scale) \in Int /\ d * s \in Int
  BY <1>2, <1>9
<1> HIDE DEF u
<1>14. (Scale * Bp) * (n * Bps) < (Scale * Bp) * (d * (k + 1))
  BY <1>10, <1>11, <1>12, <1>13
<1>15. ~(d * (k + 1) <= n * Bps)
  <2>1. Scale * Bp \in Nat /\ d * (k + 1) \in Int /\ n * Bps \in Int
    BY <1>2
  <2> SUFFICES ASSUME d * (k + 1) <= n * Bps PROVE FALSE
    OBVIOUS
  <2>2. (Scale * Bp) * (d * (k + 1)) <= (Scale * Bp) * (n * Bps)
    BY <2>1, Grows
  <2>3. (Scale * Bp) * (d * (k + 1)) \in Int /\ (Scale * Bp) * (n * Bps) \in Int
    BY <1>2
  <2> QED
    BY <1>14, <2>2, <2>3
<1> QED
  BY <1>2, <1>15 DEF n, d

\* A ratio above the trailing floor of a peak is above it exactly, to one bp,
\* for the best price behind that peak.
LEMMA AboveTrail ==
  ASSUME NEW from \in Word, NEW to \in Word, from # 0, PriceRatio(from, to) # None,
         NEW k \in Nat, Bps <= k, Bps + 2 * k <= Scale, PriceRatio(from, to) + 1 <= Bp * k,
         NEW peak \in Nat, PriceRatio(from, to) <= peak, NEW t \in 1..(Bps - 1),
         NEW ratio \in Nat, NEW n \in Nat, NEW d \in Nat \ {0},
         ratio * d <= n * Scale, peak * t < ratio * Bps
  PROVE  (n * Bps) \div d >= ((to * to) * t) \div (from * from) - 1
<1> DEFINE r == PriceRatio(from, to)
           bn == to * to
           bd == from * from
           M == (bn * t) \div bd
           X == (n * Bps) \div d
<1>1. PICK root \in Nat : /\ r \in Nat /\ root * root < (r + 1) * Scale
                          /\ bn * (Scale * Scale) < (root + 1) * (root + 1) * bd
  BY RatioWithinOne
<1>2. /\ Bps \in Nat \ {0} /\ Bp \in Nat \ {0} /\ Scale = Bp * Bps /\ Scale \in Nat \ {0}
      /\ bn \in Nat /\ bd \in Nat \ {0} /\ r + 1 <= Bp * k /\ r <= peak /\ t \in Nat \ {0} /\ t <= Bps
  <2>1. to \in Nat /\ from \in Nat /\ from # 0
    BY HalfType DEF Word
  <2>2. from * from \in Nat /\ from * from # 0 /\ to * to \in Nat
    BY <2>1
  <2>3. Bps \in Nat \ {0} /\ Bp \in Nat \ {0} /\ Scale = Bp * Bps /\ Scale \in Nat \ {0}
    BY BpType, ScaleType
  <2>4. t \in Nat \ {0} /\ t <= Bps
    BY <2>3
  <2> QED
    BY <2>2, <2>3, <2>4
<1>3. M \in Nat /\ M * bd <= bn * t /\ M * bd \in Nat /\ bn * t \in Nat
  <2> HIDE DEF bn, bd
  <2>1. bn * t \in Nat
    BY <1>2, NatProduct
  <2>2. M \in Nat /\ (bn * t) % bd \in 0..(bd - 1) /\ bn * t = M * bd + ((bn * t) % bd)
    BY <1>2, <2>1, Divided
  <2>3. M * bd \in Nat
    BY <1>2, <2>2, NatProduct
  <2> HIDE DEF M
  <2> QED
    BY <1>2, <2>1, <2>2, <2>3
<1>4. X \in Nat /\ n * Bps < (X + 1) * d
  <2>1. n * Bps \in Nat
    BY <1>2, NatProduct
  <2>2. X \in Nat /\ (n * Bps) % d \in 0..(d - 1) /\ n * Bps = X * d + ((n * Bps) % d)
    BY <2>1, Divided
  <2>2a. X \in Nat
    BY <2>2
  <2> HIDE DEF X
  <2>3. (X + 1) * d = X * d + d /\ X * d \in Nat
    BY <2>2a
  <2> QED
    BY <2>1, <2>2, <2>3
<1>5. X >= M - 1 <=> (n * Bps) \div d >= ((to * to) * t) \div (from * from) - 1
  OBVIOUS
<1> HIDE DEF r, bn, bd, M, X
<1> DEFINE s == (root + 1) * (root + 1)
           w == Scale * Scale
<1>6. s \in Nat /\ w \in Nat /\ bn * w < s * bd
  BY <1>1, <1>2, NatProduct
<1>7. root + 1 <= Bp * k
  BY <1>1, <1>2, RootBelow
<1>8. s <= r * Scale + Scale + 2 * root
  <2>1. s = root * root + 2 * root + 1 /\ (r + 1) * Scale = r * Scale + Scale /\ root * root \in Int /\ r * Scale \in Int
    BY <1>1, <1>2
  <2> HIDE DEF s
  <2> QED
    BY <1>1, <1>2, <2>1
\* The best price's exact ratio, scaled by t, is above M.
<1> HIDE DEF s, w
<1>9. M * w < s * t
  <2> SUFFICES ASSUME s * t <= M * w PROVE FALSE
    BY <1>2, <1>3, <1>6, NatProduct
  <2>1. s * t \in Int /\ M * w \in Int
    BY <1>2, <1>3, <1>6
  <2>2. bd * (s * t) <= bd * (M * w)
    BY <1>2, <2>1, Grows
  <2>3. w * (M * bd) <= w * (bn * t)
    BY <1>3, <1>6, Grows
  <2>4. t * (bn * w) < t * (s * bd)
    <3>1. bn * w \in Int /\ s * bd \in Int /\ bn * w + 1 <= s * bd
      BY <1>2, <1>6
    <3>2. t * (bn * w + 1) <= t * (s * bd) /\ t * (bn * w + 1) = t * (bn * w) + t
      BY <1>2, <3>1, Grows
    <3>3. t * (bn * w) \in Int /\ t * (s * bd) \in Int
      BY <1>2, <3>1
    <3> QED
      BY <1>2, <3>2, <3>3
  <2>5. bd * (s * t) = t * (s * bd) /\ bd * (M * w) = w * (M * bd) /\ w * (bn * t) = t * (bn * w)
        /\ t * (s * bd) \in Int /\ w * (M * bd) \in Int /\ t * (bn * w) \in Int
    BY <1>2, <1>3, <1>6
  <2> QED
    BY <2>2, <2>3, <2>4, <2>5
<1>10. t * (Scale + 2 * root) <= w
  <2> DEFINE bk == Bp * k
             v == Scale + 2 * bk
  <2>1. bk \in Nat /\ root + 1 <= bk
    BY <1>2, <1>7, NatProduct
  <2>2. Bps * v = Scale * Bps + 2 * (Scale * k)
    <3>1. Bps * (Scale + 2 * (Bp * k)) = Scale * Bps + 2 * ((Bp * Bps) * k)
      BY <1>2
    <3> QED
      BY <1>2, <3>1
  <2>3. Scale * (Bps + 2 * k) <= Scale * Scale /\ Scale * (Bps + 2 * k) = Scale * Bps + 2 * (Scale * k)
    BY <1>2, Grows
  <2> HIDE DEF bk
  <2>4. v \in Nat /\ Scale + 2 * root <= v /\ Scale + 2 * root \in Nat
    BY <1>2, <2>1
  <2> HIDE DEF v
  <2>5. t * (Scale + 2 * root) <= t * v /\ v * t <= v * Bps /\ v * t = t * v /\ v * Bps = Bps * v
        /\ t * v \in Int /\ Bps * v \in Int /\ t * (Scale + 2 * root) \in Int
    BY <1>2, <2>4, Grows
  <2>6. Bps * v <= w
    BY <1>2, <1>6, <2>2, <2>3 DEF w
  <2> QED
    BY <1>6, <2>5, <2>6
<1>11. (M - 1) * Scale < r * t
  <2>1. t * s <= t * (r * Scale + (Scale + 2 * root))
    <3>1. s <= r * Scale + (Scale + 2 * root) /\ r * Scale + (Scale + 2 * root) \in Int
      BY <1>1, <1>2, <1>6, <1>8
    <3> QED
      BY <1>2, <1>6, <3>1, Grows
  <2>2. t * (r * Scale + (Scale + 2 * root)) = Scale * (r * t) + t * (Scale + 2 * root)
    BY <1>1, <1>2
  <2>3. t * s = s * t /\ s * t \in Int /\ M * w \in Int /\ Scale * (r * t) \in Int /\ t * (Scale + 2 * root) \in Int
    BY <1>1, <1>2, <1>3, <1>6
  <2>4. M * w < Scale * (r * t) + w
    BY <1>6, <1>9, <1>10, <2>1, <2>2, <2>3
  <2>5. M * w - w = Scale * ((M - 1) * Scale)
    BY <1>2, <1>3 DEF w
  <2>6. Scale * ((M - 1) * Scale) < Scale * (r * t)
    BY <1>6, <2>3, <2>4, <2>5
  <2>7. (M - 1) * Scale \in Int /\ r * t \in Int
    BY <1>1, <1>2, <1>3
  <2> SUFFICES ASSUME r * t <= (M - 1) * Scale PROVE FALSE
    BY <2>7
  <2>8. Scale * (r * t) <= Scale * ((M - 1) * Scale)
    BY <1>2, <2>7, Grows
  <2>9. Scale * ((M - 1) * Scale) \in Int
    BY <1>2, <2>7
  <2> QED
    BY <2>3, <2>6, <2>8, <2>9
\* An exact value two bps below it is below what the trailing floor let pass.
<1>12. X >= M - 1
  <2> SUFFICES ASSUME X + 1 <= M - 1 PROVE FALSE
    BY <1>3, <1>4
  <2>1. n * Bps < (M - 1) * d
    <3>1. d * (X + 1) <= d * (M - 1) /\ d * (X + 1) = (X + 1) * d /\ d * (M - 1) = (M - 1) * d
          /\ (X + 1) * d \in Int /\ (M - 1) * d \in Int /\ n * Bps \in Int
      BY <1>2, <1>3, <1>4, Grows
    <3> QED
      BY <1>4, <3>1
  <2>2. (ratio * d) * Bps <= Scale * (n * Bps)
    <3>1. Bps * (ratio * d) <= Bps * (n * Scale)
      <4>1. ratio * d \in Int /\ n * Scale \in Int
        BY <1>2
      <4> QED
        BY <1>2, <4>1, Grows
    <3>2. Bps * (ratio * d) = (ratio * d) * Bps /\ Bps * (n * Scale) = Scale * (n * Bps)
      BY <1>2
    <3> QED
      BY <3>1, <3>2
  <2>3. Scale * (n * Bps) <= Scale * ((M - 1) * d)
    <3>1. n * Bps \in Int /\ (M - 1) * d \in Int
      BY <1>2, <1>3
    <3> QED
      BY <1>2, <2>1, <3>1, Grows
  <2>4. Scale * ((M - 1) * d) = d * ((M - 1) * Scale)
    BY <1>2, <1>3
  <2>5. (M - 1) * Scale < ratio * Bps
    <3>1. t * r <= t * peak /\ t * r = r * t /\ t * peak = peak * t /\ r * t \in Int /\ peak * t \in Int
          /\ ratio * Bps \in Int /\ (M - 1) * Scale \in Int
      BY <1>1, <1>2, <1>3, Grows
    <3> QED
      BY <1>11, <3>1
  <2>6. d * ((M - 1) * Scale) + d <= d * (ratio * Bps)
    <3>1. (M - 1) * Scale \in Int /\ ratio * Bps \in Int
      BY <1>2, <1>3
    <3> DEFINE z == (M - 1) * Scale
               y == ratio * Bps
    <3>2. z \in Int /\ y \in Int /\ z + 1 <= y
      BY <2>5, <3>1
    <3> HIDE DEF z, y
    <3>3. d * (z + 1) <= d * y /\ d * (z + 1) = d * z + d
      BY <3>2, Grows
    <3> QED
      BY <3>3 DEF z, y
  <2>7. d * (ratio * Bps) = (ratio * d) * Bps
    BY <1>2
  <2>8. (ratio * d) * Bps \in Int /\ Scale * (n * Bps) \in Int /\ d * ((M - 1) * Scale) \in Int
    BY <1>2, <1>3
  <2> QED
    BY <2>2, <2>3, <2>4, <2>6, <2>7, <2>8
<1> QED
  BY <1>5, <1>12

\* A ratio fits its word when the exact one does.
LEMMA RatioFits ==
  ASSUME NEW from \in Word, NEW to \in Word, from # 0, (to * to) * Scale < (from * from) * Wide
  PROVE  PriceRatio(from, to) # None
<1> DEFINE a == MulDiv(to, Scale, from)
           root == a.q
           c == MulDiv(root, root, Scale)
           r == c.q
           arem == a.rem
<1>1. PriceRatio(from, to) = IF root = None THEN None ELSE r
  BY DEF PriceRatio, MulDivFloor
<1>2. /\ Scale \in Nat \ {0} /\ Scale \in Word /\ Scale < Wide /\ Wide \in Nat \ {0}
      /\ from \in Nat \ {0} /\ to \in Nat
  BY ScaleType, HalfType DEF Word
<1>3. /\ root = None <=> from * Wide <= to * Scale
      /\ root # None => root \in Word /\ arem \in 0..(from - 1) /\ root * from + arem = to * Scale
  BY <1>2, MulDivIsExact
<1>4. root \in Word => (r = None <=> Scale * Wide <= root * root)
  BY <1>2, MulDivIsExact
<1> HIDE DEF a, root, c, r, arem
<1> DEFINE d == from * from
           n == to * to
           x == from * Wide
           y == to * Scale
<1>5. d \in Nat /\ n \in Nat /\ x \in Nat /\ y \in Nat /\ n * Scale < d * Wide
  BY <1>2, NatProduct
<1>6. Scale * (n * Scale) < Scale * (d * Wide) /\ Scale * (d * Wide) \in Int /\ Scale * (n * Scale) \in Int
  <2>1. n * Scale \in Int /\ d * Wide \in Int /\ n * Scale + 1 <= d * Wide
    BY <1>2, <1>5, NatProduct
  <2> DEFINE u == n * Scale
             v == d * Wide
  <2>2. u \in Int /\ v \in Int /\ u + 1 <= v
    BY <2>1
  <2> HIDE DEF u, v
  <2>3. Scale * (u + 1) <= Scale * v /\ Scale * (u + 1) = Scale * u + Scale /\ Scale * u \in Int /\ Scale * v \in Int
    BY <1>2, <2>2, Grows
  <2>4. Scale * u < Scale * v
    BY <1>2, <2>3
  <2> QED
    BY <2>3, <2>4 DEF u, v
<1>7. root # None
  <2> SUFFICES ASSUME root = None PROVE FALSE
    OBVIOUS
  <2>1. x <= y
    BY <1>3
  <2>2. x * x <= y * y
    BY <1>5, <2>1, Squares
  <2>3. x * x = (d * Wide) * Wide /\ y * y = Scale * (n * Scale)
    BY <1>2
  <2>4. d * Wide \in Nat
    BY <1>2, <1>5, NatProduct
  <2> DEFINE v == d * Wide
  <2>5. v \in Nat /\ x * x = v * Wide /\ Scale * v = Scale * (d * Wide)
    BY <2>3, <2>4
  <2> HIDE DEF x, y, n, d, v
  <2>6. v * Scale <= v * Wide /\ v * Scale = Scale * v /\ v * Wide \in Int
    BY <1>2, <2>5, Grows
  <2> QED
    BY <1>6, <2>2, <2>3, <2>5, <2>6
<1>8. r # None
  <2> SUFFICES ASSUME r = None PROVE FALSE
    OBVIOUS
  <2>1. root \in Nat /\ root \in Word /\ root * from <= y
    <3>1. root \in Word /\ root \in Nat /\ arem \in Nat /\ root * from + arem = y
      BY <1>2, <1>3, <1>7 DEF Word
    <3>2. root * from \in Nat
      BY <1>2, <3>1, NatProduct
    <3> HIDE DEF y
    <3> QED
      BY <1>5, <3>1, <3>2
  <2>2. Scale * Wide <= root * root /\ root * root \in Nat
    BY <1>4, <2>1, NatProduct
  <2>3. (root * from) * (root * from) <= y * y
    BY <1>2, <1>5, <2>1, Squares, NatProduct
  <2>4. y * y = Scale * (n * Scale)
    BY <1>2
  <2>5. (root * from) * (root * from) = d * (root * root)
    BY <1>2, <2>1
  <2> HIDE DEF d, n
  <2>6. d * (Scale * Wide) <= d * (root * root) /\ d * (root * root) \in Int
    BY <1>2, <1>5, <2>2, Grows
  <2>7. d * (Scale * Wide) = Scale * (d * Wide)
    BY <1>2, <1>5
  <2> QED
    BY <1>6, <2>3, <2>4, <2>5, <2>6, <2>7
<1> QED
  BY <1>1, <1>7, <1>8

\* A price against itself.
LEMMA RatioOfSame ==
  ASSUME NEW p \in Word, p # 0
  PROVE  PriceRatio(p, p) # None /\ PriceRatio(p, p) \in Word /\ PriceRatio(p, p) <= Scale
<1>1. /\ Scale \in Nat \ {0} /\ Scale < Wide /\ Wide \in Nat \ {0} /\ p \in Nat \ {0}
  BY ScaleType, HalfType DEF Word
<1> DEFINE d == p * p
<1>2. d \in Nat \ {0}
  BY <1>1
<1> HIDE DEF d
<1>3. d * Scale < d * Wide
  <2>1. d * (Scale + 1) <= d * Wide /\ d * (Scale + 1) = d * Scale + d /\ d * Scale \in Int /\ d * Wide \in Int
    BY <1>1, <1>2, Grows
  <2> QED
    BY <1>2, <2>1
<1>4. PriceRatio(p, p) # None
  BY <1>3, RatioFits DEF d
<1>5. PriceRatio(p, p) \in Word /\ PriceRatio(p, p) * d <= d * Scale
  BY <1>4, RatioRoundsDown DEF d
<1>6. PriceRatio(p, p) \in Nat
  BY <1>5, HalfType DEF Word
<1>7. d * PriceRatio(p, p) <= d * Scale
  BY <1>2, <1>5, <1>6
<1> QED
  BY <1>1, <1>2, <1>4, <1>5, <1>6, <1>7, Cancels

\* Above the floor that is taken of a peak, in whole words.
LEMMA AboveFloor ==
  ASSUME NEW ratio \in Word, NEW peak \in Word, TrailingStop \in 1..(Bps - 1),
         peak >= Scale + Scaled(TrailingActivation), ~TrailingTriggered(ratio, peak)
  PROVE  peak * (Bps - TrailingStop) < ratio * Bps
<1> DEFINE t == Bps - TrailingStop
           m == MulDiv(peak, t, Bps)
           q == m.q
           rem == m.rem
<1>1. /\ Bps \in Nat \ {0} /\ Bps \in Word /\ t \in Nat \ {0} /\ t \in Word /\ t < Bps /\ ratio \in Nat
      /\ peak \in Nat /\ peak <= Wide - 1 /\ Wide \in Nat \ {0} /\ Bps <= Wide - 1
  BY BpType, HalfType DEF Word
<1>2. ratio > OrElse(q, 0)
  <2>1. q \in Int
    <3> HIDE DEF t
    <3>1. q = None \/ q \in Word
      BY <1>1, MulDivIsExact
    <3> QED
      BY <3>1, HalfType DEF None, Word
  <2>2. ~(ratio <= OrElse(q, 0))
    BY DEF TrailingTriggered, MulDivFloor
  <2> HIDE DEF q
  <2> QED
    BY <1>1, <2>1, <2>2 DEF OrElse
<1>3. /\ q = None <=> Bps * Wide <= peak * t
      /\ q # None => q \in Word /\ rem \in 0..(Bps - 1) /\ q * Bps + rem = peak * t
  <2> HIDE DEF t
  <2> QED
    BY <1>1, MulDivIsExact
<1> HIDE DEF t, m, q, rem
<1>4. peak * t \in Nat /\ Bps * Wide \in Nat
  BY <1>1, NatProduct
<1>5. q # None
  <2> SUFFICES ASSUME Bps * Wide <= peak * t PROVE FALSE
    BY <1>3
  <2>1. peak * t <= peak * Bps /\ Bps * peak <= Bps * (Wide - 1) /\ peak * Bps = Bps * peak
        /\ Bps * (Wide - 1) = Bps * Wide - Bps /\ Bps * peak \in Int
    BY <1>1, Grows
  <2> QED
    BY <1>1, <1>4, <2>1
<1>6. q \in Nat /\ rem \in Nat /\ rem < Bps /\ q * Bps + rem = peak * t /\ q + 1 <= ratio
  BY <1>1, <1>2, <1>3, <1>5, HalfType DEF Word, OrElse
<1>7. Bps * (q + 1) <= Bps * ratio /\ Bps * (q + 1) = q * Bps + Bps /\ Bps * ratio = ratio * Bps
      /\ q * Bps \in Int /\ ratio * Bps \in Int
  BY <1>1, <1>6, Grows
<1> QED
  BY <1>1, <1>4, <1>6, <1>7 DEF t

\* What the thresholds leave.
LEMMA InsideThresholds ==
  ASSUME NEW ratio \in Word, ExitOnRatio(ratio) = "hold"
  PROVE  /\ ratio + 1 <= Bp * (Bps + TakeProfit)
         /\ ratio >= Scale \/ Bp * (Bps - StopLoss) < ratio
<1>1. /\ ratio \in Nat /\ Bp \in Nat \ {0} /\ Scale = Bp * Bps /\ Bps \in Nat \ {0} /\ TakeProfit \in Nat
      /\ StopLoss \in Nat /\ Bp * Bps \in Nat
  BY BpType, HalfType DEF Word
<1>2. Scaled(TakeProfit) = Bp * TakeProfit /\ Scaled(StopLoss) = Bp * StopLoss
      /\ Bp * TakeProfit \in Nat /\ Bp * StopLoss \in Nat
  <2>1. \A x \in Nat : Scaled(x) = x * Bp
    BY DEF Scaled, Bp
  <2>2. \A x \in Nat : x * Bp = Bp * x /\ Bp * x \in Nat
    BY <1>1, NatProduct, IntProduct
  <2> QED
    BY <1>1, <2>1, <2>2
<1>3. ~(ratio >= Scale /\ ratio - Scale >= Scaled(TakeProfit))
      /\ ~(ratio < Scale /\ Scale - ratio >= Scaled(StopLoss))
  BY DEF ExitOnRatio
<1>4. Bp * (Bps + TakeProfit) = Bp * Bps + Bp * TakeProfit /\ Bp * (Bps - StopLoss) = Bp * Bps - Bp * StopLoss
  BY <1>1
<1> QED
  BY <1>1, <1>2, <1>3, <1>4

-----------------------------------------------------------------------------
(* The paper loop: what it holds *)

RatioAt(p, entry) == PriceRatio(IF inputIsToken0 THEN p ELSE entry, IF inputIsToken0 THEN entry ELSE p)

Positions == [entry : Prices, liquidity : Liquidities, openedAt : Int, peak : Word]

\* The best price decided on was inside take profit, and is behind the peak.
PeakInv ==
  Open =>
    /\ position \in Positions
    /\ position.entry # 0 =>
         /\ best \in Prices \ {0} /\ RatioAt(best, position.entry) # None
         /\ RatioAt(best, position.entry) <= position.peak
         /\ RatioAt(best, position.entry) + 1 <= Bp * (Bps + TakeProfit + 1)

HoldInv == PeakInv /\ HoldsOnlyInside

LEMMA PriceType ==
  /\ \A p \in Prices : p \in Word /\ p \in Nat /\ p # None
  /\ \A l \in Liquidities : l \in Nat
<1>1. Prices \subseteq Word /\ Liquidities \subseteq Nat
  BY PaperAssumption DEF PaperAssumption
<1> QED
  BY <1>1, HalfType DEF Word, None

LEMMA RatioIsAt ==
  ASSUME PricesTyped, Open, stage = "quoted", position.entry \in Prices
  PROVE  /\ Ratio = RatioAt(quote.price, position.entry)
         /\ From \in Word /\ To \in Word /\ From \in Prices /\ To \in Prices
<1>1. quote.price \in Prices
  BY DEF PricesTyped
<1>2. From \in Prices /\ To \in Prices
  BY <1>1 DEF From, To
<1>3. RatioOf[From][To] = PriceRatio(From, To)
  BY <1>2 DEF RatioOf
<1> QED
  BY <1>2, <1>3, PriceType DEF Ratio, RatioAt, From, To

LEMMA RatioType ==
  ASSUME NEW from \in Word, NEW to \in Word
  PROVE  PriceRatio(from, to) = None \/ (PriceRatio(from, to) \in Word /\ PriceRatio(from, to) \in Nat /\ from # 0)
<1>1. CASE from = 0
  <2>1. MulDiv(to, Scale, from).q = None
    BY <1>1, ScaleType, MulDivIsExact
  <2> QED
    BY <2>1 DEF PriceRatio, MulDivFloor
<1>2. CASE from # 0
  <2>1. PriceRatio(from, to) # None => PriceRatio(from, to) \in Word
    BY <1>2, RatioRoundsDown
  <2> QED
    BY <1>2, <2>1, HalfType DEF Word
<1> QED
  BY <1>1, <1>2

\* What an iteration that holds has seen.
LEMMA HoldSeen ==
  ASSUME NEW l \in Liquidities, Exit(l) = "hold"
  PROVE  /\ Ratio # None => ExitOnRatio(Ratio) = "hold" /\ ~TrailingTriggered(Ratio, Greatest(position.peak, Ratio))
         /\ ~LiquidityDropped(position.liquidity, l)
         /\ ~(MaxHold > 0 /\ Greatest(Now - position.openedAt, 0) >= MaxHold)
<1> DEFINE byPrice == IF Ratio = None THEN "hold" ELSE ExitWithPeak(Ratio, Greatest(position.peak, Ratio))
           drop == LiquidityDropped(position.liquidity, l)
           long == MaxHold > 0 /\ Greatest(Now - position.openedAt, 0) >= MaxHold
<1>1. Exit(l) = CASE byPrice # "hold" -> byPrice
                  [] byPrice = "hold" /\ drop -> "liquidity_drop"
                  [] byPrice = "hold" /\ ~drop /\ long -> "max_hold"
                  [] OTHER -> "hold"
  BY DEF Exit
<1> HIDE DEF byPrice, drop, long
<1>2. byPrice = "hold"
  BY <1>1
<1>3. ~drop
  BY <1>1, <1>2
<1>4. ~long
  BY <1>1, <1>2, <1>3
<1>5. Ratio # None => ExitWithPeak(Ratio, Greatest(position.peak, Ratio)) = "hold"
  BY <1>2 DEF byPrice
<1>6. Ratio # None => ExitOnRatio(Ratio) = "hold" /\ ~TrailingTriggered(Ratio, Greatest(position.peak, Ratio))
  BY <1>5 DEF ExitWithPeak
<1> QED
  BY <1>3, <1>4, <1>6 DEF drop, long

LEMMA LiquidityKept ==
  ASSUME NEW a \in Nat \ {0}, NEW l \in Nat, ~LiquidityDropped(a, l)
  PROVE  l * Bps > a * (Bps - DropExit)
<1>1. Bps \in Nat \ {0} /\ DropExit \in 0..Bps
  BY CostAssumption, StrategyAssumption
<1> DEFINE k == Bps - DropExit
           x == (a * k) \div Bps
<1>2. k \in Nat /\ ~(l <= x)
  BY <1>1 DEF LiquidityDropped
<1> HIDE DEF k
<1>3. a * k \in Nat
  BY <1>2, NatProduct
<1>4. x \in Nat /\ (a * k) % Bps \in 0..(Bps - 1) /\ a * k = x * Bps + ((a * k) % Bps)
  BY <1>1, <1>3, Divided
<1>5. ~(l <= x)
  BY <1>2
<1> HIDE DEF x
<1>6. Bps * (x + 1) <= Bps * l /\ Bps * (x + 1) = x * Bps + Bps /\ Bps * l = l * Bps /\ x * Bps \in Int /\ l * Bps \in Int
  BY <1>1, <1>4, <1>5, Grows
<1> QED
  BY <1>1, <1>3, <1>4, <1>6 DEF k

\* The exact value at a price that an iteration holds at.
LEMMA ValueInside ==
  ASSUME NEW from \in Word, NEW to \in Word, from # 0, PriceRatio(from, to) # None,
         ExitOnRatio(PriceRatio(from, to)) = "hold"
  PROVE  /\ to * to >= from * from \/ (to * to) * Bps > (from * from) * (Bps - StopLoss)
         /\ (to * to) * Bps < (from * from) * (Bps + TakeProfit + 1)
<1> DEFINE r == PriceRatio(from, to)
           n == to * to
           d == from * from
<1>1. r \in Word /\ r \in Nat /\ r * d <= n * Scale
  BY RatioRoundsDown, RatioType
<1>2. /\ r + 1 <= Bp * (Bps + TakeProfit)
      /\ r >= Scale \/ Bp * (Bps - StopLoss) < r
  BY <1>1, InsideThresholds
<1>3. /\ Bps \in Nat \ {0} /\ Bp \in Nat \ {0} /\ Scale = Bp * Bps /\ TakeProfit \in Nat /\ StopLoss \in Nat
      /\ 3 * Bps + 2 * TakeProfit + 2 <= Scale /\ Scale \in Nat \ {0}
  BY BpType, ScaleType
<1>4. n * Bps < d * (Bps + TakeProfit + 1)
  <2>1. Bps + TakeProfit \in Nat /\ Bps <= Bps + TakeProfit /\ 2 * (Bps + TakeProfit) <= Scale
    BY <1>3
  <2> QED
    BY <1>2, <2>1, BelowInBps
<1>5. n \in Nat /\ d \in Nat \ {0}
  <2>1. to \in Nat /\ from \in Nat /\ from # 0
    BY HalfType DEF Word
  <2>2. from * from \in Nat /\ from * from # 0 /\ to * to \in Nat
    BY <2>1
  <2> QED
    BY <2>2
<1> HIDE DEF r, n, d
<1>6. CASE r >= Scale
  <2>1. d * Scale <= d * r /\ d * r = r * d /\ d * Scale = Scale * d /\ n * Scale = Scale * n
        /\ r * d \in Int /\ Scale * d \in Int /\ Scale * n \in Int
    BY <1>1, <1>3, <1>5, <1>6, Grows
  <2>2. Scale * d <= Scale * n
    BY <1>1, <2>1
  <2>3. d <= n
    BY <1>3, <1>5, <2>2, Cancels
  <2> QED
    BY <1>4, <1>5, <2>3 DEF n, d
<1>7. CASE Bp * (Bps - StopLoss) < r
  <2> DEFINE k == Bps - StopLoss
  <2>1. k \in Int /\ Bp * k < r
    BY <1>3, <1>7
  <2> HIDE DEF k
  <2>2. Bp * k \in Int /\ Bp * k + 1 <= r
    BY <1>1, <1>3, <2>1
  <2>3. d * (Bp * k + 1) <= d * r
    BY <1>1, <1>5, <2>2, Grows
  <2>4. d * (Bp * k + 1) = Bp * (d * k) + d /\ d * r = r * d /\ n * Scale = Bp * (n * Bps)
        /\ Bp * (d * k) \in Int /\ r * d \in Int /\ Bp * (n * Bps) \in Int
    BY <1>1, <1>3, <1>5, <2>1
  <2>5. Bp * (d * k) < Bp * (n * Bps)
    BY <1>1, <1>5, <2>3, <2>4
  <2>6. d * k \in Int /\ n * Bps \in Int
    BY <1>3, <1>5, <2>1
  <2>7. ~(n * Bps <= d * k)
    <3> SUFFICES ASSUME n * Bps <= d * k PROVE FALSE
      OBVIOUS
    <3>1. Bp * (n * Bps) <= Bp * (d * k)
      BY <1>3, <2>6, Grows
    <3> QED
      BY <2>4, <2>5, <3>1
  <2>8. n * Bps > d * k
    BY <2>6, <2>7
  <2> QED
    BY <1>4, <2>8 DEF n, d, k
<1> QED
  BY <1>2, <1>6, <1>7

\* And the value at the best price, when it armed the trailing stop.
LEMMA PeakArms ==
  ASSUME NEW from \in Word, NEW to \in Word, from # 0, PriceRatio(from, to) # None,
         PriceRatio(from, to) + 1 <= Bp * (Bps + TakeProfit + 1),
         (to * to) * Bps >= (from * from) * (Bps + TrailingActivation + 1)
  PROVE  PriceRatio(from, to) >= Scale + Scaled(TrailingActivation)
<1> DEFINE r == PriceRatio(from, to)
           n == to * to
           d == from * from
           k == Bps + TrailingActivation
<1>1. r \in Nat
  BY RatioType
<1>2. /\ Bps \in Nat \ {0} /\ Bp \in Nat \ {0} /\ Scale = Bp * Bps /\ TakeProfit \in Nat
      /\ TrailingActivation \in Nat /\ 3 * Bps + 2 * TakeProfit + 2 <= Scale /\ Scale \in Nat \ {0}
  BY BpType, ScaleType
<1>3. n \in Nat /\ d \in Nat \ {0}
  <2>1. to \in Nat /\ from \in Nat /\ from # 0
    BY HalfType DEF Word
  <2>2. from * from \in Nat /\ from * from # 0 /\ to * to \in Nat
    BY <2>1
  <2> QED
    BY <2>2
<1>4. Scale + Scaled(TrailingActivation) = Bp * k
  <2>1. Scaled(TrailingActivation) = TrailingActivation * Bp
    BY DEF Scaled, Bp
  <2> QED
    BY <1>2, <2>1
<1>5. CASE TrailingActivation <= TakeProfit + 1
  <2>1. k \in Nat /\ Bps <= k /\ 2 * k <= Scale
    BY <1>2, <1>5
  <2>2. ~(r + 1 <= Bp * k)
    <3> SUFFICES ASSUME r + 1 <= Bp * k PROVE FALSE
      OBVIOUS
    <3>1. n * Bps < d * (k + 1)
      BY <2>1, BelowInBps
    <3>2. n * Bps >= d * (k + 1)
      OBVIOUS
    <3>3. n * Bps \in Int /\ d * (k + 1) \in Int
      BY <1>2, <1>3
    <3> HIDE DEF n, d, k
    <3> QED
      BY <3>1, <3>2, <3>3
  <2>3. Bp * k \in Int
    BY <1>2, <2>1
  <2> HIDE DEF r, k
  <2>4. r >= Bp * k
    BY <1>1, <2>2, <2>3
  <2> QED
    BY <1>4, <2>4 DEF r
<1>6. CASE TrailingActivation > TakeProfit + 1
  <2> DEFINE j == Bps + TakeProfit + 1
  <2>1. j \in Nat /\ Bps <= j /\ 2 * j <= Scale /\ j + 1 <= k + 1
    BY <1>2, <1>6
  <2>2. n * Bps < d * (j + 1)
    BY <2>1, BelowInBps
  <2>3. d * (j + 1) <= d * (k + 1)
    BY <1>2, <1>3, <2>1, Grows
  <2>4. n * Bps >= d * (k + 1)
    OBVIOUS
  <2>5. n * Bps \in Int /\ d * (k + 1) \in Int /\ d * (j + 1) \in Int
    BY <1>2, <1>3, <2>1
  <2> HIDE DEF n, d, k, j
  <2> QED
    BY <2>2, <2>3, <2>4, <2>5
<1> QED
  BY <1>2, <1>5, <1>6

LEMMA EnterPeaks ==
  ASSUME SeriesInv, BooksInv, NEW l \in Liquidities, Enters(l)
  PROVE  PeakInv' /\ HoldsOnlyInside'
<1>1. /\ position' = [entry |-> quote.price, liquidity |-> l, openedAt |-> Now, peak |-> Scale]
      /\ best' = quote.price /\ outcome'.what = "entry" /\ inputIsToken0' = inputIsToken0
      /\ quote.price \in Prices
  BY DEF Enters, SignalPasses, Ticks, BooksInv, PricesTyped
<1>2. Now \in Int /\ Scale \in Word /\ quote.price \in Word
  BY <1>1, NowTyped, ScaleType, PriceType DEF SeriesInv
<1>3. position' \in Positions /\ position'.entry = quote.price /\ position'.peak = Scale
  BY <1>1, <1>2 DEF Positions
<1>4. ASSUME quote.price # 0
      PROVE  /\ RatioAt(best, position.entry)' # None
             /\ RatioAt(best, position.entry)' <= position'.peak
             /\ RatioAt(best, position.entry)' + 1 <= Bp * (Bps + TakeProfit + 1)
  <2> DEFINE r == PriceRatio(quote.price, quote.price)
  <2>1. RatioAt(best, position.entry)' = r
    BY <1>1, <1>3 DEF RatioAt
  <2>2. r # None /\ r \in Word /\ r <= Scale /\ r \in Nat
    BY <1>2, <1>4, RatioOfSame, HalfType DEF Word
  <2> HIDE DEF r
  <2>3. Bp * (Bps + TakeProfit + 1) = Bp * Bps + Bp * TakeProfit + Bp /\ Bp * TakeProfit \in Nat
    BY BpType, NatProduct
  <2>4. Scale = Bp * Bps /\ Scale \in Nat /\ Bp \in Nat \ {0}
    BY BpType, ScaleType
  <2>5. r + 1 <= Bp * (Bps + TakeProfit + 1)
    BY <2>2, <2>3, <2>4
  <2> QED
    BY <1>3, <2>1, <2>2, <2>5
<1>5. PeakInv'
  BY <1>1, <1>3, <1>4 DEF PeakInv
<1>6. HoldsOnlyInside'
  BY <1>1 DEF HoldsOnlyInside
<1> QED
  BY <1>5, <1>6

LEMMA HoldPeaks ==
  ASSUME SeriesInv, BooksInv, HoldInv, NEW l \in Liquidities, Holds(l)
  PROVE  PeakInv' /\ position'.entry = position.entry /\ position'.liquidity = position.liquidity
         /\ position'.openedAt = position.openedAt /\ position'.peak = Greatest(position.peak, Ratio) /\ Open'
<1>1. /\ stage = "quoted" /\ Open /\ quote.price \in Prices /\ position \in Positions
      /\ position' = PeakSaved /\ best' = Best /\ inputIsToken0' = inputIsToken0 /\ inputIsToken0 \in BOOLEAN
  BY DEF Holds, Ticks, BooksInv, PricesTyped, HoldInv, PeakInv
<1>2. /\ position.entry \in Prices /\ position.liquidity \in Liquidities /\ position.openedAt \in Int
      /\ position.peak \in Word /\ position.peak \in Nat
  BY <1>1, HalfType DEF Positions, Word
<1>3. Ratio = RatioAt(quote.price, position.entry) /\ From \in Word /\ To \in Word
  BY <1>1, <1>2, RatioIsAt DEF BooksInv
<1>4. Ratio = PriceRatio(From, To)
  BY <1>3 DEF RatioAt, From, To
<1>5. Ratio = None \/ (Ratio \in Word /\ Ratio \in Nat /\ From # 0)
  BY <1>3, <1>4, RatioType
<1> DEFINE pk == Greatest(position.peak, Ratio)
<1>6. pk \in Word /\ pk >= position.peak /\ (Ratio # None => pk >= Ratio)
  BY <1>2, <1>5 DEF Greatest, None
<1>7. /\ position'.entry = position.entry /\ position'.liquidity = position.liquidity
      /\ position'.openedAt = position.openedAt /\ position'.peak = pk
      /\ position' = [entry |-> position.entry, liquidity |-> position.liquidity,
                      openedAt |-> position.openedAt, peak |-> pk]
  BY <1>1 DEF PeakSaved, Positions
<1> HIDE DEF pk
<1>8. position' \in Positions
  BY <1>2, <1>6, <1>7 DEF Positions
<1>9. ASSUME position.entry # 0
      PROVE  /\ best' \in Prices \ {0} /\ RatioAt(best', position.entry) # None
             /\ RatioAt(best', position.entry) <= pk
             /\ RatioAt(best', position.entry) + 1 <= Bp * (Bps + TakeProfit + 1)
  <2> DEFINE old == RatioAt(best, position.entry)
  <2>1. /\ best \in Prices \ {0} /\ old # None /\ old <= position.peak
        /\ old + 1 <= Bp * (Bps + TakeProfit + 1)
    BY <1>1, <1>9 DEF HoldInv, PeakInv
  <2>2. old \in Nat
    <3>1. best \in Word /\ position.entry \in Word
      BY <1>2, <2>1, PriceType
    <3>2. old = None \/ old \in Nat
      BY <3>1, RatioType DEF RatioAt
    <3> QED
      BY <2>1, <3>2
  <2>3. CASE best' = best
    <3>1. old <= pk
      BY <1>2, <1>6, <2>1, <2>2, HalfType DEF Word
    <3> QED
      BY <2>1, <2>3, <3>1
  <2>4. CASE best' # best
    <3>1. Ratio # None /\ best' = quote.price
      BY <1>1, <2>4 DEF Best, Better
    <3>2. ExitOnRatio(Ratio) = "hold"
      BY <3>1, HoldSeen DEF Holds
    <3>3. Ratio \in Word /\ Ratio \in Nat
      BY <1>5, <3>1
    <3>4. Ratio + 1 <= Bp * (Bps + TakeProfit)
      BY <3>2, <3>3, InsideThresholds
    <3>5. /\ Bp * (Bps + TakeProfit + 1) = Bp * (Bps + TakeProfit) + Bp /\ Bp \in Nat
          /\ Bp * (Bps + TakeProfit) \in Nat
      <4>1. Bp \in Nat /\ Bps + TakeProfit \in Nat
        BY BpType
      <4> QED
        BY <4>1, NatProduct
    <3>6. quote.price # 0
      <4>1. CASE inputIsToken0
        BY <1>5, <3>1, <4>1 DEF From
      <4>2. CASE ~inputIsToken0
        <5>1. ~(quote.price < best)
          BY <1>1, <2>4, <3>1, <4>2 DEF Best, Better
        <5>2. quote.price \in Nat /\ best \in Nat /\ best # 0
          BY <1>1, <2>1, PriceType
        <5> QED
          BY <5>1, <5>2
      <4> QED
        BY <4>1, <4>2
    <3>7. Ratio + 1 <= Bp * (Bps + TakeProfit + 1) /\ Ratio <= pk
      BY <1>6, <3>1, <3>3, <3>4, <3>5, HalfType DEF Word
    <3> QED
      BY <1>1, <1>3, <3>1, <3>6, <3>7
  <2> QED
    BY <2>3, <2>4
<1>10. Open'
  BY <1>2, <1>7, PriceType DEF Open, NoPosition
<1>11. RatioAt(best, position.entry)' = RatioAt(best', position.entry)
  BY <1>1, <1>7 DEF RatioAt
<1>12. PeakInv'
  BY <1>7, <1>8, <1>9, <1>11 DEF PeakInv
<1> QED
  BY <1>7, <1>10, <1>12 DEF pk

LEMMA HoldInside ==
  ASSUME SeriesInv, BooksInv, HoldInv, NEW l \in Liquidities, Holds(l)
  PROVE  HoldsOnlyInside'
<1>1. /\ PeakInv' /\ Open' /\ position'.entry = position.entry /\ position'.liquidity = position.liquidity
      /\ position'.openedAt = position.openedAt /\ position'.peak = Greatest(position.peak, Ratio)
  BY HoldPeaks
<1>2. /\ outcome'.price = quote.price /\ outcome'.liquidity = l /\ outcome'.entry = position.entry
      /\ inputIsToken0' = inputIsToken0 /\ inputIsToken0 \in BOOLEAN
      /\ stage = "quoted" /\ Open /\ quote.price \in Prices /\ position \in Positions
      /\ UNCHANGED <<uptime, behind>>
  BY DEF Holds, Ticks, clock, BooksInv, PricesTyped, HoldInv, PeakInv
<1>3. Exit(l) = "hold"
  BY DEF Holds
<1>4. /\ position.entry \in Prices /\ position.liquidity \in Nat /\ position.openedAt \in Int /\ l \in Nat
      /\ position' \in Positions
  BY <1>1, <1>2, PriceType DEF Positions, PeakInv
<1>5. MaxHold > 0 => Now' - position'.openedAt < MaxHold
  <2>1. Now \in Int /\ Now' = Now /\ MaxHold \in Nat
    BY <1>2, NowTyped, PaperAssumption DEF SeriesInv, Now, PaperAssumption
  <2>2. ~(MaxHold > 0 /\ Greatest(Now - position.openedAt, 0) >= MaxHold)
    BY <1>3, HoldSeen
  <2> QED
    BY <1>1, <1>4, <2>1, <2>2 DEF Greatest
<1>6. position'.liquidity # 0 => outcome'.liquidity * Bps > position'.liquidity * (Bps - DropExit)
  <2>1. ~LiquidityDropped(position.liquidity, l)
    BY <1>3, HoldSeen
  <2> QED
    BY <1>1, <1>2, <1>4, <2>1, LiquidityKept
<1>7. ASSUME quote.price # 0, position.entry # 0, (To * To) * Scale < (From * From) * Wide
      PROVE  LET n == To * To
                 d == From * From
                 bn == Num(best, outcome.entry)'
                 bd == Den(best, outcome.entry)'
             IN  /\ n >= d \/ n * Bps > d * (Bps - StopLoss)
                 /\ n * Bps < d * (Bps + TakeProfit + 1)
                 /\ TrailingStop \in 1..(Bps - 1) /\ bn * Bps >= bd * (Bps + TrailingActivation + 1)
                      => (n * Bps) \div d >= (bn * (Bps - TrailingStop)) \div bd - 1
  <2>1. Ratio = RatioAt(quote.price, position.entry) /\ From \in Word /\ To \in Word /\ Ratio = PriceRatio(From, To)
    BY <1>2, <1>4, RatioIsAt DEF BooksInv, RatioAt, From, To
  <2>2. From # 0
    BY <1>7 DEF From
  <2>3. Ratio # None
    BY <1>7, <2>1, <2>2, RatioFits
  <2>4. Ratio \in Word /\ Ratio \in Nat
    BY <2>1, <2>3, RatioType
  <2>5. ExitOnRatio(Ratio) = "hold" /\ ~TrailingTriggered(Ratio, position'.peak)
    BY <1>1, <1>3, <2>3, HoldSeen
  <2>6. /\ To * To >= From * From \/ (To * To) * Bps > (From * From) * (Bps - StopLoss)
        /\ (To * To) * Bps < (From * From) * (Bps + TakeProfit + 1)
    BY <2>1, <2>2, <2>3, <2>5, ValueInside
  <2> DEFINE bf == IF inputIsToken0 THEN best' ELSE position.entry
             bt == IF inputIsToken0 THEN position.entry ELSE best'
             r == PriceRatio(bf, bt)
             bn == bt * bt
             bd == bf * bf
  <2>7. Num(best, outcome.entry)' = bn /\ Den(best, outcome.entry)' = bd
    BY <1>2 DEF Num, Den
  <2>8. /\ best' \in Prices \ {0} /\ r # None /\ r <= position'.peak
        /\ r + 1 <= Bp * (Bps + TakeProfit + 1)
    <3>1. RatioAt(best, position.entry)' = r
      BY <1>1, <1>2 DEF RatioAt
    <3>2. /\ best' \in Prices \ {0} /\ RatioAt(best, position.entry)' # None
          /\ RatioAt(best, position.entry)' <= position'.peak
          /\ RatioAt(best, position.entry)' + 1 <= Bp * (Bps + TakeProfit + 1)
      BY <1>1, <1>7 DEF PeakInv
    <3> HIDE DEF r
    <3> QED
      BY <3>1, <3>2
  <2>9. bf \in Word /\ bt \in Word /\ bf # 0
    BY <1>4, <1>7, <2>8, PriceType
  <2>10. position'.peak \in Word /\ position'.peak \in Nat
    BY <1>4, HalfType DEF Positions, Word
  <2> DEFINE k == Bps + TakeProfit + 1
  <2>11. k \in Nat /\ Bps <= k /\ Bps + 2 * k <= Scale /\ r + 1 <= Bp * k
    BY <2>8, BpType
  <2> HIDE DEF bf, bt
  <2>12. ASSUME TrailingStop \in 1..(Bps - 1), bn * Bps >= bd * (Bps + TrailingActivation + 1)
         PROVE  ((To * To) * Bps) \div (From * From) >= (bn * (Bps - TrailingStop)) \div bd - 1
    <3>1. r >= Scale + Scaled(TrailingActivation)
      BY <2>8, <2>9, <2>12, PeakArms
    <3>2. position'.peak >= Scale + Scaled(TrailingActivation)
      <4>1. r \in Nat
        BY <2>8, <2>9, RatioType
      <4>2. Scale + Scaled(TrailingActivation) \in Nat
        <5>1. Scaled(TrailingActivation) = TrailingActivation * Bp
          BY DEF Scaled, Bp
        <5>2. TrailingActivation * Bp \in Nat /\ Scale \in Nat
          BY BpType, ScaleType, NatProduct
        <5> QED
          BY <5>1, <5>2
      <4> HIDE DEF r
      <4> QED
        BY <2>8, <2>10, <3>1, <4>1, <4>2
    <3> DEFINE t == Bps - TrailingStop
    <3>3. position'.peak * t < Ratio * Bps
      BY <2>4, <2>5, <2>10, <2>12, <3>2, AboveFloor
    <3>4. t \in 1..(Bps - 1)
      BY <2>12, BpType
    <3> DEFINE n == To * To
               d == From * From
    <3>5. n \in Nat /\ d \in Nat \ {0}
      <4>1. To \in Nat /\ From \in Nat /\ From # 0
        BY <2>1, <2>2, HalfType DEF Word
      <4>2. From * From \in Nat /\ From * From # 0 /\ To * To \in Nat
        BY <4>1
      <4> QED
        BY <4>2
    <3>6. Ratio * d <= n * Scale
      BY <2>1, <2>2, <2>3, RatioRoundsDown
    <3> HIDE DEF t, n, d, k
    <3>7. (n * Bps) \div d >= ((bt * bt) * t) \div (bf * bf) - 1
      BY <2>4, <2>8, <2>9, <2>10, <2>11, <3>3, <3>4, <3>5, <3>6, AboveTrail
    <3> QED
      BY <3>7 DEF t, n, d
  <2> HIDE DEF bn, bd
  <2> QED
    BY <2>6, <2>7, <2>12
<1>8. Num(outcome.price, outcome.entry)' = To * To /\ Den(outcome.price, outcome.entry)' = From * From
  BY <1>2 DEF Num, Den, From, To
<1> QED
  BY <1>1, <1>2, <1>5, <1>6, <1>7, <1>8 DEF HoldsOnlyInside

LEMMA HoldStep == SeriesInv /\ BooksInv /\ HoldInv /\ [Next]_vars => HoldInv'
<1> SUFFICES ASSUME SeriesInv, BooksInv, HoldInv, [Next]_vars PROVE HoldInv'
  OBVIOUS
<1>1. ASSUME UNCHANGED <<position, best, inputIsToken0>> PROVE PeakInv'
  BY <1>1 DEF HoldInv, PeakInv, Open, RatioAt
<1>2. ASSUME outcome'.what # "hold" PROVE HoldsOnlyInside'
  BY <1>2 DEF HoldsOnlyInside
<1>3. stage # "sleep" => outcome.what = "none"
  BY DEF SeriesInv, TimesTyped
<1>4. ASSUME NEW what \in {"risk", "rejected", "data_error"}, EndsWith(what) PROVE HoldInv'
  BY <1>1, <1>2, <1>4 DEF HoldInv, EndsWith, NoOutcome
<1>5. CASE Delay \/ Connects \/ Disconnects \/ Stops \/ \E n \in 1..MaxBehind : StepBack(n)
  <2>1. UNCHANGED <<position, best, inputIsToken0, outcome>> /\ stage # "sleep"
    BY <1>5 DEF Delay, Connects, Disconnects, Stops, StepBack
  <2> QED
    BY <1>1, <1>2, <1>3, <2>1 DEF HoldInv
<1>6. CASE Wake
  BY <1>1, <1>2, <1>6 DEF Wake, HoldInv, NoOutcome
<1>7. ASSUME NEW p, NEW at, Reads(p, at), stage # "sleep" PROVE HoldInv'
  <2>1. CASE Fresh(at)
    BY <1>1, <1>2, <1>3, <1>7, <2>1 DEF Reads, HoldInv
  <2>2. CASE ~Fresh(at)
    BY <1>4, <1>7, <2>2 DEF Reads
  <2> QED
    BY <2>1, <2>2
<1>8. CASE ReadFeed
  BY <1>7, <1>8 DEF ReadFeed, Continues
<1>9. ASSUME NEW p \in Prices, ReadRpc(p) PROVE HoldInv'
  BY <1>7, <1>9 DEF ReadRpc, Continues
<1>10. ASSUME NEW p \in Prices, NEW at, Notifies(p, at) PROVE HoldInv'
  BY <1>1, <1>2, <1>3, <1>10 DEF Notifies, HoldInv
<1>11. CASE ProbeRefuses \/ ReadFails \/ GateRefuses
  BY <1>4, <1>11 DEF ProbeRefuses, ReadFails, GateRefuses
<1>12. ASSUME NEW l \in Liquidities, Holds(l) PROVE HoldInv'
  BY <1>12, HoldPeaks, HoldInside DEF HoldInv
<1>13. ASSUME NEW l \in Liquidities, NoSignal(l) \/ SignalRefuses(l) \/ RiskRefuses(l) PROVE HoldInv'
  <2>1. UNCHANGED <<position, best, inputIsToken0>> /\ outcome'.what # "hold"
    BY <1>13 DEF NoSignal, SignalRefuses, RiskRefuses, Ticks
  <2> QED
    BY <1>1, <1>2, <2>1 DEF HoldInv
<1>14. ASSUME NEW l \in Liquidities, NEW m \in CostModels, Closes(l, m) PROVE HoldInv'
  <2>1. position' = NoPosition /\ outcome'.what # "hold"
    BY <1>14 DEF Closes, Ticks
  <2> QED
    BY <1>2, <2>1 DEF HoldInv, PeakInv, Open
<1>15. ASSUME NEW l \in Liquidities, Enters(l) PROVE HoldInv'
  BY <1>15, EnterPeaks DEF HoldInv
<1>16. CASE UNCHANGED vars
  BY <1>16 DEF vars, HoldInv, PeakInv, Open, RatioAt, HoldsOnlyInside, Now, Num, Den
<1> QED
  BY <1>5, <1>6, <1>8, <1>9, <1>10, <1>11, <1>12, <1>13, <1>14, <1>15, <1>16 DEF Next

LEMMA HoldInvariant == ProcessSpec => []HoldInv
<1>1. ProcessInit => HoldInv
  BY DEF ProcessInit, Init, HoldInv, PeakInv, Open, HoldsOnlyInside, NoOutcome
<1>2. [ProcessNext]_<<vars, launchVars>> => [Next]_vars
  BY DEF ProcessNext, BeginsPaper
<1> QED
  BY <1>1, <1>2, SeriesInvariant, BooksInvariant, HoldStep, PTL DEF ProcessSpec

\* An iteration that holds leaves nothing to exit for.
THEOREM NothingMissed == ProcessSpec => []HoldsOnlyInside
<1>1. HoldInv => HoldsOnlyInside
  BY DEF HoldInv
<1> QED
  BY <1>1, HoldInvariant, PTL
=============================================================================
