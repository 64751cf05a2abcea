------------------------------ MODULE MCStartup ------------------------------
(* Instances of Startup for TLC: an older binary, the current one, and one *)
(* started twice.                                                          *)
EXTENDS Startup, TLC

CONSTANTS old, new, twin

MCEmbeds == old :> {1} @@ new :> {1, 2} @@ twin :> {1, 2}
=============================================================================
