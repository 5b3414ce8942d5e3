--------------------------- MODULE MCOperationLog ---------------------------
(***************************************************************************)
(* Instances of OperationLog for TLC.  The log of earlier commands is full *)
(* already, so that the next record makes it rotate.                       *)
(***************************************************************************)
EXTENDS OperationLog
CONSTANTS o1, o2
MCOld == <<o1, o2>>
MCSymmetry == Permutations(Writers)
=============================================================================
