----------------------------- MODULE MCSurfaces -----------------------------
(* Instances of Surfaces for TLC: session 2 is an Android session. *)
EXTENDS Surfaces
MCSessions == 1..2
MCAndroid == {2}
=============================================================================
