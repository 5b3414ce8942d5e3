--------------------------- MODULE MCMcpDispatch ---------------------------
(***************************************************************************)
(* Instances of McpDispatch for TLC.  Calls and sessions are symmetric.    *)
(***************************************************************************)
EXTENDS McpDispatch
MCSymmetry == Permutations(Calls) \cup Permutations(Sessions)
MCHung == {Global}
=============================================================================
