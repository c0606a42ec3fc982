------------------------------- MODULE MCIngest -------------------------------
(* Instances of Ingest for TLC. *)
EXTENDS Ingest, TLC

CONSTANTS f1, f2, d1, d2

(* How long the transcripts may get. *)
LongAndShort == (f1 :> 3) @@ (f2 :> 1)

(* The lines that raise are in the short transcript: those of the other one *)
(* are lost with the batch.                                                 *)
SomeRaise == (f1 :> {"turn", "skip"}) @@ (f2 :> {"turn", "binary", "array"})

(* The transcripts' directories. *)
OneEach == (f1 :> d1) @@ (f2 :> d2)
=============================================================================
