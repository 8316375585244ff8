---------------------------- MODULE MCRelayServer ----------------------------
(* The relay server with four nodes, and a table that changes with an epoch.   *)
EXTENDS RelayServer, TLC

CONSTANTS a, b, c, f

\* Node a leaves with the table of epoch 5, and b has more stake in it.
MCStake ==
  0 :> [n \in Node |-> 1] @@
  5 :> (a :> 0 @@ b :> 2 @@ c :> 1 @@ f :> 1)
=============================================================================
