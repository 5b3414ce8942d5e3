---------------------------- MODULE SerialServer ----------------------------
(***************************************************************************)
(* What a client of the MCP server may count on while it cancels nothing:  *)
(* the calls that were accepted for one key (a session, or the server as a *)
(* whole) are served one after the other, in the order they arrived, and   *)
(* calls for different keys do not wait for each other's order.            *)
(*                                                                         *)
(* McpDispatch implements this module.                                     *)
(***************************************************************************)
EXTENDS Sequences

CONSTANTS Calls, Keys

VARIABLES stage,  \* "new", "accepted", "running", "ran" or "answered"
          queue   \* of each key: the calls accepted and not answered

vars == <<stage, queue>>

Init ==
  /\ stage = [c \in Calls |-> "new"]
  /\ queue = [k \in Keys |-> <<>>]

Becomes(c, new) == stage' = [stage EXCEPT ![c] = new]

Accept(c, k) ==
  /\ stage[c] = "new"
  /\ Becomes(c, "accepted")
  /\ queue' = [queue EXCEPT ![k] = Append(@, c)]

\* The call is answered at once: it is wrong, or its session cannot be found.
Refuse(c) ==
  /\ stage[c] = "new"
  /\ Becomes(c, "answered")
  /\ UNCHANGED queue

\* Only the oldest call of a key is ever served.
IsNext(c, k) == queue[k] # <<>> /\ Head(queue[k]) = c

Begin(c, k) ==
  /\ IsNext(c, k)
  /\ stage[c] = "accepted"
  /\ Becomes(c, "running")
  /\ UNCHANGED queue

End(c, k) ==
  /\ IsNext(c, k)
  /\ stage[c] = "running"
  /\ Becomes(c, "ran")
  /\ UNCHANGED queue

Answer(c, k) ==
  /\ IsNext(c, k)
  /\ stage[c] = "ran"
  /\ Becomes(c, "answered")
  /\ queue' = [queue EXCEPT ![k] = Tail(@)]

Next == \E c \in Calls :
          \/ Refuse(c)
          \/ \E k \in Keys : Accept(c, k) \/ Begin(c, k) \/ End(c, k) \/ Answer(c, k)

Spec == Init /\ [][Next]_vars
=============================================================================
