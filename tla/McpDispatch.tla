---------------------------- MODULE McpDispatch ----------------------------
(***************************************************************************)
(* call_tool_handler of the MCP server.  One event loop runs the handlers  *)
(* of all calls; between two awaits a handler is atomic.  A handler awaits *)
(* twice: for the lock of its key, and for the worker thread that executes *)
(* the use case.  A client may cancel a call at either await.              *)
(***************************************************************************)
EXTENDS Naturals, FiniteSets, Sequences, SequencesExt

CONSTANTS Calls,     \* the calls that clients make
          Sessions,  \* session ids
          Global,    \* the key of the global lock and of the _global log
          NoId,      \* a call without session_id
          Nobody,    \* holds a lock that is free
          Workers,   \* threads of the event loop's default executor
          Faults,    \* "cancel": clients cancel calls; "log": appends may fail
          Hung       \* keys whose use cases may never return

Keys == Sessions \cup {Global}

ASSUME KeyAssumption == Global \notin Sessions /\ NoId \notin Keys
ASSUME NobodyAssumption == Nobody \notin Calls
ASSUME WorkersAssumption == Workers \in Nat \ {0}
ASSUME DispatchFaultsAssumption == Faults \subseteq {"cancel", "log"}
ASSUME HungAssumption == Hung \subseteq Keys

VARIABLES
  pc,       \* of each handler: "idle", "waiting" (for its lock), "working", "ended"
  session,  \* its local session_id; Global stands for the empty string
  key,      \* the key of the lock it uses
  owner,    \* of each lock: the call that holds it, or Nobody
  waiters,  \* of each lock: the calls that wait for it, first come first served
  work,     \* of each call: what has become of its use case
  backlog,  \* use cases submitted to the executor that no thread has taken yet
  reply,    \* what the client got
  log,      \* of each key: its operation log
  started   \* history: of each session, the calls whose use case has begun

locks == <<owner, waiters>>
threads == <<work, backlog, started>>
handlers == <<pc, session, key>>
vars == <<handlers, locks, threads, reply, log>>

Works == {"none", "queued", "running", "ok", "error", "dropped"}
Replies == {"none", "ok", "error", "cancelled"}
Records == [call : Calls, exit : {0, 1}]

TypeOK ==
  /\ pc \in [Calls -> {"idle", "waiting", "working", "ended"}]
  /\ session \in [Calls -> Keys]
  /\ key \in [Calls -> Keys]
  /\ owner \in [Keys -> Calls \cup {Nobody}]
  /\ waiters \in [Keys -> Seq(Calls)]
  /\ work \in [Calls -> Works]
  /\ backlog \in Seq(Calls)
  /\ reply \in [Calls -> Replies]
  /\ log \in [Keys -> Seq(Records)]
  /\ started \in [Keys -> Seq(Calls)]

Init ==
  /\ pc = [c \in Calls |-> "idle"]
  /\ session = [c \in Calls |-> Global]
  /\ key = [c \in Calls |-> Global]
  /\ owner = [k \in Keys |-> Nobody]
  /\ waiters = [k \in Keys |-> <<>>]
  /\ work = [c \in Calls |-> "none"]
  /\ backlog = <<>>
  /\ reply = [c \in Calls |-> "none"]
  /\ log = [k \in Keys |-> <<>>]
  /\ started = [k \in Keys |-> <<>>]

Goto(c, step) == pc' = [pc EXCEPT ![c] = step]
Reply(c, what) == reply' = [reply EXCEPT ![c] = what]

\* The operation log swallows its own errors.
Log(c, k, code) ==
  \/ log' = [log EXCEPT ![k] = Append(@, [call |-> c, exit |-> code])]
  \/ "log" \in Faults /\ UNCHANGED log

(***************************************************************************)
(* The handler, from its first statement to its first await.               *)
(***************************************************************************)
\* asyncio.to_thread: the use case goes to the executor.
Submit(c) ==
  /\ work' = [work EXCEPT ![c] = "queued"]
  /\ backlog' = Append(backlog, c)
  /\ UNCHANGED started

\* Mutation: a call without session_id is taken for a session-less one.
BugLockKey(raw, s) == IF raw = NoId THEN Global ELSE s

\* The lock is looked up by the resolved id, whatever the client wrote.
LockKey(raw, s) == s

\* async with lock: at once if it is free and nobody waits for it.
Enter(c, s, k) ==
  /\ session' = [session EXCEPT ![c] = s]
  /\ key' = [key EXCEPT ![c] = k]
  /\ IF owner[k] = Nobody /\ waiters[k] = <<>>
       THEN /\ owner' = [owner EXCEPT ![k] = c]
            /\ Submit(c)
            /\ Goto(c, "working")
            /\ UNCHANGED waiters
       ELSE /\ waiters' = [waiters EXCEPT ![k] = Append(@, c)]
            /\ Goto(c, "waiting")
            /\ UNCHANGED <<owner, threads>>
  /\ UNCHANGED <<reply, log>>

\* A tool of class "bound": the given session, or the one that is newest now.
ArriveBound(c) ==
  /\ pc[c] = "idle"
  /\ \E s \in Sessions, raw \in Sessions \cup {NoId} :
       /\ raw # NoId => s = raw
       /\ Enter(c, s, LockKey(raw, s))

\* A tool of class "creating" or "less".
ArriveGlobal(c) ==
  /\ pc[c] = "idle"
  /\ Enter(c, Global, Global)

\* There is no active session.
ResolveFails(c) ==
  /\ pc[c] = "idle"
  /\ Goto(c, "ended")
  /\ Reply(c, "error")
  /\ Log(c, Global, 1)
  /\ UNCHANGED <<session, key, locks, threads>>

\* An unknown tool, or an error of the store that the handler does not catch.
Refuse(c) ==
  /\ pc[c] = "idle"
  /\ Goto(c, "ended")
  /\ Reply(c, "error")
  /\ UNCHANGED <<session, key, locks, threads, log>>

(***************************************************************************)
(* The handler after an await.                                             *)
(***************************************************************************)
\* Mutation: any waiter may take a lock that is free.
BugAcquire(c) ==
  /\ pc[c] = "waiting"
  /\ LET k == key[c] IN
       /\ owner[k] = Nobody
       /\ owner' = [owner EXCEPT ![k] = c]
       /\ waiters' = [waiters EXCEPT ![k] = SelectSeq(@, LAMBDA d : d # c)]
  /\ Submit(c)
  /\ Goto(c, "working")
  /\ UNCHANGED <<session, key, reply, log>>

\* The lock wakes the first of its waiters, and no later caller overtakes it.
Acquire(c) ==
  /\ pc[c] = "waiting"
  /\ LET k == key[c] IN
       /\ owner[k] = Nobody
       /\ waiters[k] # <<>> /\ Head(waiters[k]) = c
       /\ owner' = [owner EXCEPT ![k] = c]
       /\ waiters' = [waiters EXCEPT ![k] = Tail(@)]
  /\ Submit(c)
  /\ Goto(c, "working")
  /\ UNCHANGED <<session, key, reply, log>>

Release(c) ==
  /\ owner' = [owner EXCEPT ![key[c]] = Nobody]
  /\ UNCHANGED waiters

\* Mutation: an exception of the use case leaves the lock locked.
BugFinishHolds(c) ==
  /\ pc[c] = "working"
  /\ work[c] \in {"ok", "error"}
  /\ Reply(c, work[c])
  /\ Log(c, session[c], IF work[c] = "ok" THEN 0 ELSE 1)
  /\ IF work[c] = "ok" THEN Release(c) ELSE UNCHANGED locks
  /\ Goto(c, "ended")
  /\ UNCHANGED <<session, key, threads>>

\* Mutation: the except branch forgets the exit code.
BugFinishCode(c) ==
  /\ pc[c] = "working"
  /\ work[c] \in {"ok", "error"}
  /\ Reply(c, work[c])
  /\ Log(c, session[c], 0)
  /\ Release(c)
  /\ Goto(c, "ended")
  /\ UNCHANGED <<session, key, threads>>

\* The thread has returned or raised: answer, log, leave the lock.
Finish(c) ==
  /\ pc[c] = "working"
  /\ work[c] \in {"ok", "error"}
  /\ Reply(c, work[c])
  /\ Log(c, session[c], IF work[c] = "ok" THEN 0 ELSE 1)
  /\ Release(c)
  /\ Goto(c, "ended")
  /\ UNCHANGED <<session, key, threads>>

(***************************************************************************)
(* Cancellation.  CancelledError is no Exception: the except branch is     *)
(* skipped, the finally block is not.                                      *)
(***************************************************************************)
\* In front of the lock, the guarded region has not been entered.
CancelWaiting(c) ==
  /\ "cancel" \in Faults
  /\ pc[c] = "waiting"
  /\ LET k == key[c] IN
       \E i \in DOMAIN waiters[k] :
         /\ waiters[k][i] = c
         /\ waiters' = [waiters EXCEPT ![k] = RemoveAt(@, i)]
  /\ Reply(c, "cancelled")
  /\ Goto(c, "ended")
  /\ UNCHANGED <<session, key, owner, threads, log>>

\* In front of the thread: a use case that no thread has taken yet is dropped,
\* one that runs goes on running.  Either way the record says exit code 0.
CancelWorking(c) ==
  /\ "cancel" \in Faults
  /\ pc[c] = "working"
  /\ \/ /\ work[c] = "queued"
        /\ work' = [work EXCEPT ![c] = "dropped"]
        /\ \E i \in DOMAIN backlog : backlog[i] = c /\ backlog' = RemoveAt(backlog, i)
        /\ UNCHANGED started
     \/ /\ work[c] # "queued"
        /\ UNCHANGED threads
  /\ Reply(c, "cancelled")
  /\ Log(c, session[c], 0)
  /\ Release(c)
  /\ Goto(c, "ended")
  /\ UNCHANGED <<session, key>>

(***************************************************************************)
(* The threads of the executor.                                            *)
(***************************************************************************)
RunningCalls == {c \in Calls : work[c] = "running"}

Begin(c) ==
  /\ backlog # <<>> /\ Head(backlog) = c
  /\ Cardinality(RunningCalls) < Workers
  /\ backlog' = Tail(backlog)
  /\ work' = [work EXCEPT ![c] = "running"]
  /\ started' = [started EXCEPT ![session[c]] = Append(@, c)]
  /\ UNCHANGED <<handlers, locks, reply, log>>

End(c) ==
  /\ work[c] = "running"
  /\ \E result \in {"ok", "error"} : work' = [work EXCEPT ![c] = result]
  /\ UNCHANGED <<handlers, locks, backlog, started, reply, log>>

-----------------------------------------------------------------------------
Arrive(c) == ArriveBound(c) \/ ArriveGlobal(c) \/ ResolveFails(c) \/ Refuse(c)
Resume(c) == Acquire(c) \/ Finish(c)
Cancel(c) == CancelWaiting(c) \/ CancelWorking(c)

Next == \E c \in Calls : Arrive(c) \/ Resume(c) \/ Cancel(c) \/ Begin(c) \/ End(c)

\* What happens while no client gives up: the steps of Next when Faults holds
\* no "cancel".
QuietNext == \E c \in Calls : Arrive(c) \/ Resume(c) \/ Begin(c) \/ End(c)

\* The event loop runs what is ready, an idle thread takes the next use case,
\* and use cases return: their adapters have timeouts, except under Hung.
Fairness == \A c \in Calls :
              /\ WF_vars(Resume(c))
              /\ WF_vars(Begin(c))
              /\ WF_vars(End(c) /\ session[c] \notin Hung)

Spec == Init /\ [][Next]_vars
FairSpec == Init /\ [][QuietNext]_vars /\ Fairness

-----------------------------------------------------------------------------
(***************************************************************************)
(* Properties.                                                             *)
(***************************************************************************)

(***************************************************************************)
(* At most one use case runs on a session at a time, whether its caller    *)
(* named the session or left it to be resolved: "Concurrent calls to the   *)
(* same session are serialized" (tests/test_aiyes23_mcp_server.py:684).    *)
(* The steps of a scenario_run are not among them: it is a call without a  *)
(* session here, under the global lock, whatever sessions it then drives.  *)
(***************************************************************************)
SessionSerial ==
  \A c, d \in Calls :
     work[c] = "running" /\ work[d] = "running" /\ session[c] = session[d] => c = d

(***************************************************************************)
(* The log of a session tells what was done to it in the order in which it *)
(* was done: the record is written before the lock is released.            *)
(***************************************************************************)
LogInOrder ==
  \A k \in Keys : \A i, j \in DOMAIN log[k], p, q \in DOMAIN started[k] :
     started[k][p] = log[k][i].call /\ started[k][q] = log[k][j].call => (i < j <=> p < q)

(***************************************************************************)
(* A call that is answered has one record, in the log of its session; the  *)
(* record, the answer and the outcome of the use case agree.               *)
(***************************************************************************)
RecordOf(c) == {r \in UNION {ToSet(log[k]) : k \in Keys} : r.call = c}

AnswerIsTrue ==
  \A c \in Calls : reply[c] \in {"ok", "error"} /\ work[c] # "none" =>
     /\ reply[c] = work[c]
     /\ RecordOf(c) = {[call |-> c, exit |-> IF work[c] = "ok" THEN 0 ELSE 1]}
     /\ Cardinality({i \in DOMAIN log[session[c]] : log[session[c]][i].call = c}) = 1

(***************************************************************************)
(* "asyncio.to_thread runs the sync use case to completion.  Even if the   *)
(* caller cancels, the sync thread finishes" (mcp_server.py:471): what was *)
(* handed to the executor is never taken back.                             *)
(***************************************************************************)
SubmittedWorkRuns == \A c \in Calls : work[c] # "dropped"

(***************************************************************************)
(* A use case that never returns holds up the calls on its own key only:   *)
(* every other call is answered.                                           *)
(***************************************************************************)
OthersAreAnswered ==
  \A c \in Calls : pc[c] # "idle" /\ session[c] \notin Hung ~> pc[c] = "ended"

(***************************************************************************)
(* Refinement: without cancellation the handlers are a serial server.      *)
(***************************************************************************)
Stage(c) == CASE pc[c] = "idle"    -> "new"
              [] pc[c] = "ended"   -> "answered"
              [] pc[c] = "waiting" -> "accepted"
              [] OTHER             -> CASE work[c] = "running"         -> "running"
                                        [] work[c] \in {"ok", "error"} -> "ran"
                                        [] OTHER                       -> "accepted"

Promise == INSTANCE SerialServer WITH
  stage <- [c \in Calls |-> Stage(c)],
  queue <- [k \in Keys |-> (IF owner[k] = Nobody THEN <<>> ELSE <<owner[k]>>) \o waiters[k]]

KeepsOrder == Promise!Spec

(***************************************************************************)
(* The inductive invariant behind SessionSerial: without cancellation a    *)
(* use case that has not been answered has its call hold its session's     *)
(* lock, and a call is in the backlog at most once, and only when queued.  *)
(***************************************************************************)
InBacklog(c) == \E i \in DOMAIN backlog : backlog[i] = c
HoldsLock(c) == pc[c] = "working" /\ key[c] = session[c] /\ owner[key[c]] = c

CallAt(c) ==
  /\ pc[c] = "idle" => work[c] = "none"
  /\ pc[c] = "waiting" => work[c] = "none" /\ key[c] = session[c]
  /\ pc[c] = "working" => owner[key[c]] = c
  /\ work[c] \in {"queued", "running"} => HoldsLock(c)
  /\ InBacklog(c) => work[c] = "queued"

NoRepeats == \A i, j \in DOMAIN backlog : backlog[i] = backlog[j] => i = j

DispatchInvariant == TypeOK /\ NoRepeats /\ \A c \in Calls : CallAt(c)

(***************************************************************************)
(* The inductive invariant behind AnswerIsTrue, when every append works:   *)
(* nothing is answered or recorded before its handler ends, what is        *)
(* answered has ended for good, and its record is in one place.            *)
(***************************************************************************)
Unrecorded(c) == \A k \in Keys : \A i \in DOMAIN log[k] : log[k][i].call # c

RecordedOnce(c, code) ==
  \E i \in DOMAIN log[session[c]] :
    /\ log[session[c]][i] = [call |-> c, exit |-> code]
    /\ \A k \in Keys : \A j \in DOMAIN log[k] :
         log[k][j].call = c => k = session[c] /\ j = i

AnswerAt(c) ==
  /\ pc[c] \in {"idle", "waiting"} => work[c] = "none"
  /\ pc[c] # "ended" => reply[c] = "none" /\ Unrecorded(c)
  /\ InBacklog(c) => work[c] = "queued"
  /\ reply[c] \in {"ok", "error"} /\ work[c] # "none" =>
       reply[c] = work[c] /\ RecordedOnce(c, IF work[c] = "ok" THEN 0 ELSE 1)

AnswerInvariant == TypeOK /\ NoRepeats /\ \A c \in Calls : AnswerAt(c)

(***************************************************************************)
(* The inductive invariant of the locks, whoever cancels: a handler that   *)
(* works holds the lock of its session, and only such a handler does; who  *)
(* waits is in the queue of that lock, once.  A use case is under way      *)
(* without the lock only when its client has given it up.                  *)
(***************************************************************************)
InLine(c, k) == \E i \in DOMAIN waiters[k] : waiters[k][i] = c

LockAt(c) ==
  /\ pc[c] \in {"idle", "waiting"} => work[c] = "none"
  /\ pc[c] # "ended" => reply[c] = "none"
  /\ pc[c] \in {"waiting", "working"} => key[c] = session[c]
  /\ pc[c] = "waiting" => InLine(c, key[c])
  /\ pc[c] = "working" => owner[key[c]] = c
  /\ work[c] = "queued" => pc[c] = "working"
  /\ work[c] = "running" => pc[c] = "working" \/ reply[c] = "cancelled"
  /\ InBacklog(c) => work[c] = "queued"
  /\ \A k \in Keys : /\ owner[k] = c => pc[c] = "working" /\ key[c] = k
                     /\ InLine(c, k) => pc[c] = "waiting" /\ key[c] = k

LockInvariant ==
  /\ TypeOK /\ NoRepeats
  /\ \A k \in Keys : \A i, j \in DOMAIN waiters[k] : waiters[k][i] = waiters[k][j] => i = j
  /\ \A c \in Calls : LockAt(c)

(***************************************************************************)
(* What LogInOrder needs besides: a use case begins once, on the session   *)
(* of its call, before its record is written; and as long as its handler   *)
(* holds the lock no other begins on that session.                         *)
(***************************************************************************)
OrderAt(c) ==
  /\ pc[c] # "ended" => Unrecorded(c)
  /\ \A k \in Keys : \A p \in DOMAIN started[k] : started[k][p] = c =>
       /\ k = session[c] /\ work[c] \in {"running", "ok", "error"}
       /\ pc[c] = "working" => p = Len(started[k])
       /\ \A q \in DOMAIN started[k] : started[k][q] = c => p = q

OrderInvariant == LockInvariant /\ LogInOrder /\ \A c \in Calls : OrderAt(c)
=============================================================================
