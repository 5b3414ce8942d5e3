-------------------------- MODULE MCServedSessions --------------------------
(***************************************************************************)
(* Instances of ServedSessions for TLC.  Calls and sessions are symmetric. *)
(***************************************************************************)
EXTENDS ServedSessions
MCSymmetry == Permutations(Calls) \cup Permutations(Sessions)
=============================================================================
