--------------------------- MODULE MCCloudControl ---------------------------
(* What ccxctl is asked to do in the run. *)
EXTENDS CloudControl

EveryCommand == Commands

=============================================================================
