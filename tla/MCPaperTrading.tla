---------------------------- MODULE MCPaperTrading ----------------------------
(***************************************************************************)
(* A small instance of a process and its paper loop for TLC: words of 14   *)
(* bits, one bp is a percent, sqrt prices around 100.  Arguments that      *)
(* some check reads together are combined in full, the others vary around  *)
(* a configuration that starts.                                            *)
(***************************************************************************)
EXTENDS PaperProcess

MCCostModels == {[feePpm |-> 25, exitImpactPct |-> 300, latencyBps |-> 1, network |-> 1],
                 [feePpm |-> 100, exitImpactPct |-> 300, latencyBps |-> 1, network |-> 1]}

MCModes == {[live |-> l, dry_run |-> d, paper |-> p, confirm_live |-> c] :
              l \in BOOLEAN, d \in BOOLEAN, p \in BOOLEAN, c \in BOOLEAN}

MCArgs(modes, amms, tokens, hsms, pins, payers, pools, risks, trails, floors, jitos) ==
  {[live |-> m.live, dry_run |-> m.dry_run, paper |-> m.paper, confirm_live |-> m.confirm_live,
    amm |-> a, paper_token_2022 |-> t, hsm |-> h, expected_signer |-> k, simulate_payer |-> y,
    pool |-> p, live_risk_data |-> r, trailing_stop_bps |-> s[1], trailing_activation_bps |-> s[2],
    min_liquidity_sol |-> f, jito_endpoint |-> j[1], jito_tip_lamports |-> j[2], jito_dry_run |-> j[3]] :
     m \in modes, a \in amms, t \in tokens, h \in hsms, k \in pins, y \in payers,
     p \in pools, r \in risks, s \in trails, f \in floors, j \in jitos}

MCNoStop == {<<0, 1>>}
MCStops  == MCNoStop \cup {<<1, 1>>, <<1, 0>>, <<2, 1>>}
MCNoJito == {<<FALSE, 0, FALSE>>}
MCJitos  == MCNoJito \cup {<<TRUE, 0, FALSE>>, <<TRUE, 1, FALSE>>, <<TRUE, 0, TRUE>>}
MCAmms   == {"clmm", "pumpswap"}
MCHsms   == {"none", "no_tls", "tls"}
MCPins   == {"none", "bad", "wallet"}
MCPayers == {"none", "bad", "payer"}

MCOperatorArgs ==
       MCArgs(MCModes, MCAmms, BOOLEAN, MCHsms, MCPins, MCPayers, {"all"}, {TRUE}, MCNoStop, {2}, MCNoJito)
  \cup MCArgs(MCModes, {"clmm"}, {FALSE}, {"tls"}, {"wallet"}, {"none"},
              {"none", "blank", "part", "all"}, BOOLEAN, MCStops, {1, 2}, MCJitos)
MCUnset == {[live |-> FALSE, dry_run |-> FALSE, paper |-> FALSE, confirm_live |-> FALSE]}
MCEnvArgs ==
       MCArgs(MCModes, MCAmms, BOOLEAN, {"tls"}, {"wallet"}, {"none", "payer"}, {"none"}, {FALSE}, MCNoStop, {2}, MCNoJito)
  \cup MCArgs(MCUnset, {"clmm"}, {FALSE}, MCHsms, MCPins, MCPayers, {"none"}, {FALSE}, MCNoStop, {2}, MCNoJito)
  \cup MCArgs(MCUnset, {"clmm"}, {FALSE}, {"tls"}, {"wallet"}, {"none"}, {"none"}, {FALSE}, MCStops, {1}, MCJitos)
  \cup MCArgs(MCUnset, {"clmm"}, {FALSE}, {"blank", "tls"}, {"blank", "wallet"}, {"blank", "none"},
              {"blank"}, {FALSE}, MCNoStop, {2}, MCNoJito)
MCSupervisorArgs ==
  [mode : {"paper", "dry_run", "live"}, confirm_live : BOOLEAN, amm : MCAmms,
   source : {"logs", "geckoterminal"}, pollable : BOOLEAN, counted : BOOLEAN,
   paper_token_2022 : BOOLEAN, min_liquidity_sol : {1, 2, 3}, discovery_min_liquidity_sol : {0, 1}]
=============================================================================
