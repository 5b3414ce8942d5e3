--------------------------- MODULE ServedSessions ---------------------------
(***************************************************************************)
(* The MCP server with the sessions it serves: McpDispatch composed with   *)
(* what its use cases do to the sessions.  A call that names no session is *)
(* given the newest active one when it arrives; it runs when the lock of   *)
(* that session and a thread are free, and by then other calls may have    *)
(* stopped the session and started another on its display.  A session may  *)
(* also end by itself, or by another program.                              *)
(*                                                                         *)
(* "use" stands for the tools that drive or capture the display of their   *)
(* session: keys, mouse, typing, screenshots, resize.                      *)
(***************************************************************************)
EXTENDS McpDispatch

CONSTANTS Displays,  \* display numbers
          MaxLost    \* bound: how many sessions end otherwise than by a call

ASSUME ServedAssumption ==
  IsFiniteSet(Displays) /\ Displays \subseteq Nat \ {0} /\ MaxLost \in Nat

VARIABLES
  tool,     \* of each call: "none", "use", "stop", "start"
  at,       \* of each call: how far its use case has come
  chosen,   \* of each start: the session id and the display it has picked
  born,     \* the sessions with a session.json, in the order of started_at
  display,  \* the display in the session.json of each session
  alive,    \* its processes that run
  hit,      \* history: whose display each call drove
  due,      \* history: its session was whole and not about to be stopped
            \* when the call arrived
  sole,     \* history: it was the only active one
  lost      \* history: the sessions that ended otherwise than by a call

sessions == <<born, display, alive>>
work_ == <<at, chosen>>
remarks == <<due, sole>>
served == <<tool, work_, sessions, hit, remarks, lost>>
allVars == <<vars, served>>

Whole == {"app_pid", "xvfb_pid"}
NoStart == [session |-> Global, display |-> 0]

ServedTypeOK ==
  /\ TypeOK
  /\ tool \in [Calls -> {"none", "use", "stop", "start"}]
  /\ at \in [Calls -> {"begun", "failed", "driven", "half", "stopped", "probed", "started"}]
  /\ chosen \in [Calls -> [session : Keys, display : Displays \cup {0}]]
  /\ born \in Seq(Sessions)
  /\ display \in [Sessions -> Displays \cup {0}]
  /\ alive \in [Sessions -> SUBSET Whole]
  /\ hit \in [Calls -> SUBSET Sessions]
  /\ due \in [Calls -> BOOLEAN] /\ sole \in [Calls -> BOOLEAN]
  /\ lost \subseteq Sessions

\* One session is there when the server starts.
ServedInit ==
  /\ Init
  /\ tool = [c \in Calls |-> "none"]
  /\ at = [c \in Calls |-> "begun"]
  /\ chosen = [c \in Calls |-> NoStart]
  /\ \E s \in Sessions, d \in Displays :
       /\ born = <<s>>
       /\ display = [t \in Sessions |-> IF t = s THEN d ELSE 0]
       /\ alive = [t \in Sessions |-> IF t = s THEN Whole ELSE {}]
  /\ hit = [c \in Calls |-> {}]
  /\ due = [c \in Calls |-> FALSE] /\ sole = [c \in Calls |-> FALSE]
  /\ lost = {}

(***************************************************************************)
(* Arrival: the session is resolved before the lock is awaited.            *)
(***************************************************************************)
Active == {s \in ToSet(born) : alive[s] = Whole}

Newest == born[Max({i \in DOMAIN born : born[i] \in Active})]

\* A stop that has arrived and may still kill processes of the session.
StopPending(s) ==
  \E d \in Calls : /\ tool[d] = "stop" /\ session[d] = s
                   /\ pc[d] \in {"waiting", "working"} \/ work[d] = "running"

\* Any recorded session may be named, whether it is active or not.
ArriveOn(c, what) ==
  /\ \E raw \in ToSet(born) \cup {NoId} :
       /\ raw = NoId => Active # {}
       /\ LET s == IF raw = NoId THEN Newest ELSE raw IN
            /\ ArriveBound(c)
            /\ session'[c] = s
            /\ due' = [due EXCEPT ![c] = s \in Active /\ ~StopPending(s)]
       /\ sole' = [sole EXCEPT ![c] = raw # NoId \/ Cardinality(Active) = 1]
  /\ tool' = [tool EXCEPT ![c] = what]
  /\ UNCHANGED <<work_, sessions, hit, lost>>

ArriveToStart(c) ==
  /\ ArriveGlobal(c)
  /\ tool' = [tool EXCEPT ![c] = "start"]
  /\ UNCHANGED <<work_, sessions, hit, remarks, lost>>

NoneActive(c) ==
  /\ Active = {}
  /\ ResolveFails(c)
  /\ UNCHANGED served

(***************************************************************************)
(* The use cases, step by step.                                            *)
(***************************************************************************)
Runs(c, what) == work[c] = "running" /\ tool[c] = what

Reaches(c, step) == at' = [at EXCEPT ![c] = step]

\* The sessions whose X server has the display now: one at most.
Shown(d) == {s \in Sessions : display[s] = d /\ "xvfb_pid" \in alive[s]}

\* session.json is loaded, and its display driven, whoever has it now.
Drive(c) ==
  /\ Runs(c, "use") /\ at[c] = "begun"
  /\ LET owners == Shown(display[session[c]]) IN
       /\ Reaches(c, IF owners = {} THEN "failed" ELSE "driven")
       /\ hit' = [hit EXCEPT ![c] = owners]
  /\ UNCHANGED <<vars, tool, chosen, sessions, remarks, lost>>

\* session.json is kept: the session can still be named.
KillApp(c) ==
  /\ Runs(c, "stop") /\ at[c] = "begun"
  /\ Reaches(c, "half")
  /\ alive' = [alive EXCEPT ![session[c]] = @ \ {"app_pid"}]
  /\ UNCHANGED <<vars, tool, chosen, born, display, hit, remarks, lost>>

KillXvfb(c) ==
  /\ Runs(c, "stop") /\ at[c] = "half"
  /\ Reaches(c, "stopped")
  /\ alive' = [alive EXCEPT ![session[c]] = @ \ {"xvfb_pid"}]
  /\ UNCHANGED <<vars, tool, chosen, born, display, hit, remarks, lost>>

\* The first display without a server, and a new session id.
Probe(c) ==
  /\ Runs(c, "start") /\ at[c] = "begun"
  /\ LET free == {d \in Displays : Shown(d) = {}} IN
       IF free = {}
         THEN Reaches(c, "failed") /\ UNCHANGED chosen
         ELSE /\ Reaches(c, "probed")
              /\ \E s \in Sessions \ (ToSet(born) \cup {chosen[d].session : d \in Calls}) :
                   chosen' = [chosen EXCEPT ![c] = [session |-> s, display |-> Min(free)]]
  /\ UNCHANGED <<vars, tool, sessions, hit, remarks, lost>>

\* A display that was taken meanwhile fails the start.
Spawn(c) ==
  /\ Runs(c, "start") /\ at[c] = "probed"
  /\ LET s == chosen[c].session IN
       IF Shown(chosen[c].display) # {}
         THEN Reaches(c, "failed") /\ UNCHANGED sessions
         ELSE /\ Reaches(c, "started")
              /\ born' = Append(born, s)
              /\ display' = [display EXCEPT ![s] = chosen[c].display]
              /\ alive' = [alive EXCEPT ![s] = Whole]
  /\ UNCHANGED <<vars, tool, chosen, hit, remarks, lost>>

\* A use case may raise at any step but succeeds only when it is through.
EndWork(c) ==
  /\ End(c)
  /\ work'[c] = "ok" => at[c] \in {"driven", "stopped", "started"}
  /\ UNCHANGED served

\* The processes of a session die, or are stopped from the command line.
Dies(s) ==
  /\ alive[s] # {} /\ Cardinality(lost) < MaxLost
  /\ alive' = [alive EXCEPT ![s] = {}]
  /\ lost' = lost \cup {s}
  /\ UNCHANGED <<vars, tool, work_, born, display, hit, remarks>>

-----------------------------------------------------------------------------
ArriveServed(c) ==
  ArriveOn(c, "use") \/ ArriveOn(c, "stop") \/ ArriveToStart(c) \/ NoneActive(c)

Dispatched(c) ==
  (Acquire(c) \/ Finish(c) \/ CancelWaiting(c) \/ CancelWorking(c) \/ Begin(c)) /\ UNCHANGED served

UseCase(c) == Drive(c) \/ KillApp(c) \/ KillXvfb(c) \/ Probe(c) \/ Spawn(c) \/ EndWork(c)

ServedNext ==
  \/ \E c \in Calls : ArriveServed(c) \/ Dispatched(c) \/ UseCase(c)
  \/ \E s \in Sessions : Dies(s)

ServedSpec == ServedInit /\ [][ServedNext]_allVars

-----------------------------------------------------------------------------
(***************************************************************************)
(* Properties.                                                             *)
(***************************************************************************)

\* A call that arrives while its session is whole, and before any stop of that
\* session, drives the display of that session: it waits for the lock and for
\* a thread in front of every later stop, named or not.  A call that its client
\* gave up has no such promise, nor one whose session ends otherwise.
DueIsServed ==
  \A c \in Calls :
    due[c] /\ tool[c] = "use" /\ reply[c] # "cancelled" /\ session[c] \notin lost =>
      at[c] # "failed" /\ hit[c] \subseteq {session[c]}

\* No call drives a session of which a stop has killed the application and not
\* yet the display, unless the client of one of the two has given it up.
NeverHalfStopped ==
  [][\A c, d \in Calls :
       at[c] # "driven" /\ at'[c] = "driven" /\ at[d] = "half" /\ session[c] = session[d] =>
         "cancelled" \in {reply[c], reply[d]} \/ work[d] # "running"]_allVars

\* "A session is an isolated environment" (docs/manual.md:29): what a call
\* drives is its own session.  False of the code: the session.json of a stopped
\* session still names its display, which the next start is given.
DrivesOwnDisplay == \A c \in Calls : hit[c] \subseteq {session[c]}

\* "Raises on zero or multiple active sessions without explicit session_id"
\* (session_stop.py:54).  False of the server, which resolves the id first.
StopNeedsSole ==
  \A c \in Calls : tool[c] = "stop" /\ at[c] \in {"half", "stopped"} => sole[c]

(***************************************************************************)
(* The inductive invariant behind DueIsServed.  A use case makes its steps *)
(* while it runs; displays of live X servers are apart, and so are the     *)
(* session ids that starts have picked and not recorded.  A call to which  *)
(* a whole session is owed still has it, and no stop of that session runs, *)
(* holds its lock or waits for it in front of the call.                    *)
(***************************************************************************)
Before(d, c, k) ==
  \E i, j \in DOMAIN waiters[k] : i < j /\ waiters[k][i] = d /\ waiters[k][j] = c

StopAhead(c) ==
  \E d \in Calls : /\ tool[d] = "stop" /\ session[d] = session[c]
                   /\ \/ work[d] = "running" \/ pc[d] = "working"
                      \/ Before(d, c, session[c])

Owed(c) ==
  /\ due[c] /\ tool[c] = "use" /\ session[c] \notin lost
  /\ pc[c] \in {"waiting", "working"} /\ at[c] = "begun"

StepAt(c) ==
  /\ pc[c] \in {"idle", "waiting"} => at[c] = "begun"
  /\ at[c] = "begun" => hit[c] = {}
  /\ at[c] = "probed" => chosen[c].session \in Sessions \ ToSet(born)
  /\ Owed(c) => session[c] \in Active /\ ~StopAhead(c)

DisplaysApart ==
  \A s, t \in Sessions :
     "xvfb_pid" \in alive[s] \cap alive[t] /\ display[s] = display[t] => s = t

StartsApart ==
  \A c, d \in Calls :
     at[c] = "probed" /\ at[d] = "probed" /\ chosen[c].session = chosen[d].session => c = d

ServedInvariant ==
  /\ ServedTypeOK /\ LockInvariant
  /\ \A c \in Calls : StepAt(c)
  /\ DisplaysApart /\ StartsApart /\ DueIsServed
=============================================================================
