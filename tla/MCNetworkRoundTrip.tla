-------------------------- MODULE MCNetworkRoundTrip --------------------------
(***************************************************************************)
(* Up to three agents, edited between saves and reloads.                    *)
(***************************************************************************)
EXTENDS NetworkRoundTrip, TLC

AgentSymmetry == Permutations(Agents)
===============================================================================
