----------------------------- MODULE MCSettings -----------------------------
(* Runs that do the same are interchangeable. *)
EXTENDS Settings, TLC

AnyRun == Permutations(Runs)

=============================================================================
