------------------------------ MODULE MCTunnel ------------------------------
(* Invocations, and pids, are interchangeable. *)
EXTENDS Tunnel, TLC

Interchangeable == Permutations(Runs) \union Permutations(Pids)

=============================================================================
