------------------------------- MODULE MCWaits -------------------------------
(* Small instances of Waits for TLC.                                       *)
EXTENDS Waits

Node(i, s, r, n, a) == [id |-> i, stable |-> s, role |-> r, name |-> n, app |-> a]

(* An empty screen; the target; the target and a second one that also      *)
(* matches, under one stable id; something else in the target's place, of  *)
(* another role and under another name, with the target moved to another   *)
(* app and number.                                                         *)
MCScreens == {{},
              {Node("1", "k", "button", "t", "a")},
              {Node("1", "k", "button", "t", "a"), Node("2", "k", "button", "t", "a")},
              {Node("1", "", "text", "o", "a"), Node("2", "k", "button", "t", "b")}}
==============================================================================
