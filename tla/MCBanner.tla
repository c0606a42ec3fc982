------------------------------ MODULE MCBanner ------------------------------
(* The collectors that ask something outside, with the numbers of motd.py.  *)
EXTENDS Banner, TLC

Asking == ("instance" :> 7) @@ ("services" :> 4) @@ ("system" :> 0)
Patience == ("instance" :> 2) @@ ("services" :> 3) @@ ("system" :> 1)

=============================================================================
