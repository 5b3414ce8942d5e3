--------------------------- MODULE MCSessionStart ---------------------------
(***************************************************************************)
(* Instances of SessionStart for TLC: two launchers, two display numbers,  *)
(* so that both launchers can probe the same free number, one of them can  *)
(* find all numbers taken, and a stale lock can occupy one.                *)
(***************************************************************************)
EXTENDS SessionStart
CONSTANTS s1, s2
MCSessions == {s1, s2}
MCPrivileged == {s2}
=============================================================================
