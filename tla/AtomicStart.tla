---------------------------- MODULE AtomicStart ----------------------------
(***************************************************************************)
(* What `session start` promises its caller, without saying how: a start   *)
(* either commits, and then it owns everything its kind of session needs,  *)
(* or it is refused, and then it owns nothing (except a process the host   *)
(* does not let it signal).  A launcher that is killed, or that fails      *)
(* before it entered its guarded region, promises nothing.                 *)
(*                                                                         *)
(* SessionStart implements this module step by step.                       *)
(***************************************************************************)
EXTENDS FiniteSets

CONSTANTS Sessions,    \* session ids, one launcher each
          Resources,   \* what a launcher can own
          Stubborn     \* [Sessions -> SUBSET Resources]: what it may fail to release

VARIABLES phase,       \* how far the start of each session has come
          need,        \* what a committed session of this kind owns
          held         \* what the launcher (later: the session) owns now

vars == <<phase, need, held>>

Phases == {"idle", "running", "started", "refused", "abandoned"}

TypeOK ==
  /\ phase \in [Sessions -> Phases]
  /\ need \in [Sessions -> SUBSET Resources]
  /\ held \in [Sessions -> SUBSET Resources]

Init ==
  /\ phase = [s \in Sessions |-> "idle"]
  /\ need = [s \in Sessions |-> {}]
  /\ held = [s \in Sessions |-> {}]

\* A caller asks for a session; a request that is refused outright owns nothing.
Begin(s) ==
  /\ phase[s] = "idle"
  /\ \E n \in SUBSET Resources : need' = [need EXCEPT ![s] = n]
  /\ \E p \in {"running", "refused"} : phase' = [phase EXCEPT ![s] = p]
  /\ UNCHANGED held

\* The launcher gains or gives back resources, one or several at a time.
Work(s) ==
  /\ phase[s] = "running"
  /\ \E h \in SUBSET Resources : held' = [held EXCEPT ![s] = h]
  /\ UNCHANGED <<phase, need>>

Commit(s) ==
  /\ phase[s] = "running"
  /\ held[s] = need[s]
  /\ phase' = [phase EXCEPT ![s] = "started"]
  /\ UNCHANGED <<need, held>>

Refuse(s) ==
  /\ phase[s] = "running"
  /\ \E h \in SUBSET Stubborn[s] : held' = [held EXCEPT ![s] = h]
  /\ phase' = [phase EXCEPT ![s] = "refused"]
  /\ UNCHANGED need

Abandon(s) ==
  /\ phase[s] = "running"
  /\ \E h \in SUBSET Resources : held' = [held EXCEPT ![s] = h]
  /\ phase' = [phase EXCEPT ![s] = "abandoned"]
  /\ UNCHANGED need

Next == \E s \in Sessions :
          Begin(s) \/ Work(s) \/ Commit(s) \/ Refuse(s) \/ Abandon(s)

Spec == Init /\ [][Next]_vars
=============================================================================
