---------------------------- MODULE MCDeployment ----------------------------
(* A small instance of Deployment for TLC. *)
EXTENDS Deployment, TLC

\* testmagnet has no contracts; a request sent by hand can reach mainnet.
MCMaxVersions ==
  [n \in Networks |-> IF n = "testmagnet" THEN 0 ELSE 1]

Symmetry == Permutations(Operators) \cup Permutations(Clients)
=============================================================================
