----------------------------- MODULE MCMonitor -----------------------------
(* Agents are interchangeable, and so are windows. *)
EXTENDS Monitor, TLC

AnyAgentAndWindow == Permutations(Agents) \union Permutations(Windows)

=============================================================================
