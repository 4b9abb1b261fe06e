------------------------------ MODULE MCPumpSwap ------------------------------
(***************************************************************************)
(* A small instance of the dry-run for TLC: one bp is a percent, two fee   *)
(* tiers, one locker and three wallets beside the pool.                    *)
(***************************************************************************)
EXTENDS PumpSwap

Rates(l, p, c) == [lp |-> l, protocol |-> p, creator |-> c]
MCFeeTiers == <<[threshold |-> 40, fees |-> Rates(2, 1, 3)], [threshold |-> 120, fees |-> Rates(2, 3, 0)]>>
MCFlatFees == Rates(2, 1, 0)

Coin(canonical, mayhem, pays, creator, bps) ==
  [canonical |-> canonical, mayhem |-> mayhem, quote |-> pays, coinCreator |-> creator,
   creatorBps |-> bps, supply |-> 100]
Reserves(c, base, vault, virtual, buckets) ==
  [base |-> base, vault |-> vault, virtual |-> virtual, buckets |-> buckets,
   canonical |-> c.canonical, mayhem |-> c.mayhem, quote |-> c.quote, coinCreator |-> c.coinCreator,
   creatorBps |-> c.creatorBps, supply |-> c.supply]

\* Reserves on both sides of the tiers, a nearly drained vault, and pools that are refused.
MCPools ==
  {Reserves(Coin(TRUE, FALSE, "wsol", TRUE, 4), 37, 47, -2, 0),
   Reserves(Coin(TRUE, FALSE, "wsol", TRUE, 4), 91, 20, -2, 9),
   Reserves(Coin(TRUE, FALSE, "wsol", FALSE, 0), 60, 47, 3, 0),
   Reserves(Coin(TRUE, FALSE, "wsol", TRUE, 0), 60, 5, 40, 0),
   Reserves(Coin(TRUE, TRUE, "wsol", TRUE, 0), 60, 47, 0, 0)}

Held(l, a, b, c) ==
  [x \in {"vault", "locker", "w1", "w2", "w3"} |->
     CASE x = "locker" -> l [] x = "w1" -> a [] x = "w2" -> b [] x = "w3" -> c
       [] OTHER -> 100 - l - a - b - c]
MCDists == {Held(20, 25, 15, 10), Held(0, 98, 1, 1), Held(4, 12, 12, 12), [x \in {"vault", "locker"} |-> 50]}

MCMints ==
  {[program |-> "classic", extensions |-> {}, mintAuthority |-> TRUE, freezeAuthority |-> FALSE],
   [program |-> "token2022", extensions |-> {"metadata"}, mintAuthority |-> FALSE, freezeAuthority |-> FALSE],
   [program |-> "token2022", extensions |-> {"metadata", "transferHook"},
    mintAuthority |-> FALSE, freezeAuthority |-> FALSE]}

ASSUME DistsAssumption == ProgramsAloneFail /\ UnreadOwnersCount
=============================================================================
