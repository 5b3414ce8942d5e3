------------------------- MODULE MCMarionetteClient -------------------------
(* Instances of MarionetteClient for TLC. *)
EXTENDS MarionetteClient
CONSTANTS c1, c2, c3
=============================================================================
