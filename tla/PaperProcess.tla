----------------------------- MODULE PaperProcess -----------------------------
(***************************************************************************)
(* A process from its start (Launch) to the end of its paper loop          *)
(* (PaperTrading): the loop begins when main() has accepted a paper        *)
(* configuration.  A process in another mode goes on in Launch.            *)
(***************************************************************************)
EXTENDS PaperTrading, Launch

ProcessInit == Init /\ LaunchInit

\* What started the process, and its other arguments, the paper loop does not
\* read: they are dropped here.
BeginsPaper ==
  /\ phase = "ready" /\ args.paper /\ phase' = "paper"
  /\ supervisor' = NoSupervisor /\ env' = NoEnv
  /\ args' = NoArgs /\ tx' = NoTx
  /\ UNCHANGED <<breaker, feePayer, found, vars>>

ProcessNext ==
  \/ LaunchNext /\ UNCHANGED vars
  \/ BeginsPaper
  \/ phase = "paper" /\ Next /\ UNCHANGED launchVars

ProcessSpec == ProcessInit /\ [][ProcessNext]_<<vars, launchVars>>
=============================================================================
