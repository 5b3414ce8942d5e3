----------------------------- MODULE ScenarioRun -----------------------------
(***************************************************************************)
(* Runs of release scenarios in one server process.  A run executes the    *)
(* steps of its document and, once it has tried to start a session, the    *)
(* cleanup steps.  All runs of a process use the same executor, which      *)
(* remembers the session it started last and the output of every step.     *)
(* The dispatcher's global lock keeps the runs apart (Serial) unless a     *)
(* client cancels its call: the lock is released then and the run goes on. *)
(* A process of the command line is a server with one run.                 *)
(*                                                                         *)
(* A step takes time: its use case is called with what the executor knows  *)
(* then, and its outcome is recorded when it returns.                      *)
(***************************************************************************)
EXTENDS Naturals, Sequences, FiniteSets

CONSTANTS Runs,       \* the calls of scenario run
          Sessions,   \* session ids
          Ids,        \* ids of steps
          Scenarios,  \* the documents that are run
          Other,      \* whoever else starts sessions on the machine
          None,       \* no session, no call, no document
          Serial      \* no client cancels its call

(***************************************************************************)
(* Documents.  "input" stands for inspect, type_text, key, screenshot,     *)
(* navigate and the mouse and gesture steps, which need a session and may  *)
(* fail; "wait" for the three kinds of wait.  A strict step is a required  *)
(* find, or a wait without allow_timeout.                                  *)
(***************************************************************************)
Bound == {"find", "action", "scroll_into_view", "wait", "input"}
Kinds == Bound \cup {"start_session", "stop_session", "sleep", "assert"}
Steps == [id : Ids, kind : Kinds, source : Ids, strict : BOOLEAN]

Has(steps, kind) == \E i \in DOMAIN steps : steps[i].kind = kind

Valid(d) ==
  /\ d.steps \in Seq(Steps) /\ d.cleanup \in Seq(Steps)
  /\ Has(d.steps, "start_session") => Has(d.steps \o d.cleanup, "stop_session")

ASSUME ScenariosAssumption == \A d \in Scenarios : Valid(d)
ASSUME NamesAssumption == /\ None \notin Sessions \cup Runs \cup Scenarios \cup {Other}
                          /\ Other \notin Runs
                          /\ {"absent", "empty"} \cap Sessions = {}
ASSUME SerialAssumption == Serial \in BOOLEAN

VARIABLES
  phase,    \* of each run: "idle", "steps", "cleanup", "ended", "raised"
  doc,      \* its document
  at,       \* the index of its step
  call,     \* the use case it is waiting for, or None
  started,  \* session_started
  context,  \* ids of the steps whose output assertions can read
  results,  \* what it reports of its steps
  status,   \* what it reports of itself
  session,  \* executor: _session_id, or None for ""
  outputs,  \* executor: of each id, the session whose node the output holds
  owner,    \* history: who started a session
  alive     \* the sessions whose processes are alive

run == <<phase, doc, at, call, started, context, results, status>>
executor == <<session, outputs>>
world == <<owner, alive>>
vars == <<run, executor, world>>

Verdicts == {"passed", "with_errors", "failed"}
Records == [step : Steps, verdict : Verdicts, cleanup : BOOLEAN]
CallsOf == [session : Sessions \cup {None}, node : Sessions \cup {None}, sole : BOOLEAN]

TypeOK ==
  /\ phase \in [Runs -> {"idle", "steps", "cleanup", "ended", "raised"}]
  /\ doc \in [Runs -> Scenarios \cup {None}]
  /\ at \in [Runs -> Nat \ {0}]
  /\ call \in [Runs -> CallsOf \cup {None}]
  /\ started \in [Runs -> BOOLEAN]
  /\ context \in [Runs -> SUBSET Ids]
  /\ results \in [Runs -> Seq(Records)]
  /\ status \in [Runs -> {"none", "passed", "failed", "skipped"}]
  /\ session \in Sessions \cup {None}
  /\ outputs \in [Ids -> {"absent", "empty"} \cup Sessions]
  /\ owner \in [Sessions -> Runs \cup {Other, None}]
  /\ alive \in SUBSET Sessions

Init ==
  /\ phase = [r \in Runs |-> "idle"]
  /\ doc = [r \in Runs |-> None]
  /\ at = [r \in Runs |-> 1]
  /\ call = [r \in Runs |-> None]
  /\ started = [r \in Runs |-> FALSE]
  /\ context = [r \in Runs |-> {}]
  /\ results = [r \in Runs |-> <<>>]
  /\ status = [r \in Runs |-> "none"]
  /\ session = None
  /\ outputs = [i \in Ids |-> "absent"]
  /\ owner = [s \in Sessions |-> None]
  /\ alive = {}

(***************************************************************************)
(* A run from its call to its result.                                      *)
(***************************************************************************)
Turn(r, how) == phase' = [phase EXCEPT ![r] = how]

Admitted(r) ==
  /\ phase[r] = "idle"
  /\ Serial => \A q \in Runs : phase[q] \notin {"steps", "cleanup"}

\* The call begins and all prerequisites are met.
Begin(r) ==
  /\ Admitted(r)
  /\ \E d \in Scenarios : doc' = [doc EXCEPT ![r] = d]
  /\ Turn(r, "steps")
  /\ status' = [status EXCEPT ![r] = "passed"]
  /\ UNCHANGED <<at, call, started, context, results, executor, world>>

\* A prerequisite is not met: nothing is executed, no session is touched.
Skip(r) ==
  /\ Admitted(r)
  /\ Turn(r, "ended")
  /\ status' = [status EXCEPT ![r] = "skipped"]
  /\ UNCHANGED <<doc, at, call, started, context, results, executor, world>>

List(r) == IF phase[r] = "steps" THEN doc[r].steps ELSE doc[r].cleanup
Current(r) == List(r)[at[r]]
Running(r) == phase[r] \in {"steps", "cleanup"} /\ call[r] = None

\* Mutation: a step that fails ends the run without cleanup.
BugStepsDone(r) ==
  /\ Running(r) /\ phase[r] = "steps" /\ at[r] > Len(doc[r].steps)
  /\ Turn(r, IF started[r] /\ status[r] = "passed" THEN "cleanup" ELSE "ended")
  /\ at' = [at EXCEPT ![r] = 1]
  /\ UNCHANGED <<doc, call, started, context, results, status, executor, world>>

\* The last step passed, or a step failed.
StepsDone(r) ==
  /\ Running(r) /\ phase[r] = "steps" /\ at[r] > Len(doc[r].steps)
  /\ Turn(r, IF started[r] THEN "cleanup" ELSE "ended")
  /\ at' = [at EXCEPT ![r] = 1]
  /\ UNCHANGED <<doc, call, started, context, results, status, executor, world>>

CleanupDone(r) ==
  /\ Running(r) /\ phase[r] = "cleanup" /\ at[r] > Len(doc[r].cleanup)
  /\ Turn(r, "ended")
  /\ UNCHANGED <<doc, at, call, started, context, results, status, executor, world>>

(***************************************************************************)
(* The outcome of the current step; sid is the session id in it.  A step   *)
(* that fails skips the rest; the verdicts of cleanup steps change nothing.*)
(***************************************************************************)
Conclude(r, verdict, sid) ==
  LET step == Current(r)
      record == [step |-> step, verdict |-> verdict, cleanup |-> phase[r] = "cleanup"]
  IN /\ results' = [results EXCEPT ![r] = Append(@, record)]
     /\ call' = [call EXCEPT ![r] = None]
     /\ IF phase[r] = "steps"
          THEN /\ context' = [context EXCEPT ![r] = @ \cup {step.id}]
               /\ started' = [started EXCEPT ![r] =
                                @ \/ sid # None \/ step.kind = "start_session"]
               /\ at' = [at EXCEPT ![r] =
                           IF verdict = "failed" THEN Len(doc[r].steps) + 1 ELSE @ + 1]
               /\ status' = [status EXCEPT ![r] = IF verdict = "failed" THEN "failed" ELSE @]
          ELSE /\ at' = [at EXCEPT ![r] = @ + 1]
               /\ UNCHANGED <<context, started, status>>
     /\ UNCHANGED <<phase, doc>>

\* The use case raised: the result carries the executor's session.
Raised(r) == Conclude(r, "failed", session) /\ UNCHANGED <<executor, world>>

Ready(r, kinds) == Running(r) /\ at[r] <= Len(List(r)) /\ Current(r).kind \in kinds
Calling(r, kinds) == call[r] # None /\ Current(r).kind \in kinds

Output(r, what) == outputs' = [outputs EXCEPT ![Current(r).id] = what]

(***************************************************************************)
(* Steps up to the call of their use case.                                 *)
(***************************************************************************)
Call(r, s, node, sole) ==
  /\ call' = [call EXCEPT ![r] = [session |-> s, node |-> node, sole |-> sole]]
  /\ UNCHANGED <<phase, doc, at, started, context, results, status, executor, world>>

SourceOutput(r) == outputs[Current(r).source]

\* An action whose source step ran and gave no node fails before anything else.
ConsumedEmpty(r) ==
  /\ Ready(r, {"action"}) /\ SourceOutput(r) = "empty"
  /\ Output(r, "empty")
  /\ Conclude(r, "failed", session)
  /\ UNCHANGED <<session, world>>

\* There is no session, or no step with the id of the source has run.
CannotCall(r) ==
  /\ Ready(r, Bound)
  /\ Current(r).kind = "action" => SourceOutput(r) # "empty"
  /\ session = None \/ (Current(r).kind = "action" /\ SourceOutput(r) = "absent")
  /\ Raised(r)

CallBound(r) ==
  /\ Ready(r, Bound \ {"action"}) /\ session # None
  /\ Call(r, session, None, FALSE)

CallAction(r) ==
  /\ Ready(r, {"action"}) /\ session # None
  /\ SourceOutput(r) \in Sessions
  /\ Call(r, session, SourceOutput(r), FALSE)

CallStart(r) == Ready(r, {"start_session"}) /\ Call(r, None, None, FALSE)

\* Without a session of its own the executor stops the sole active session.
CallStop(r) ==
  /\ Ready(r, {"stop_session"})
  /\ \/ session # None /\ Call(r, session, None, FALSE)
     \/ session = None /\ \E s \in Sessions : alive = {s} /\ Call(r, s, None, TRUE)
     \/ session = None /\ Cardinality(alive) # 1 /\ Raised(r)

Sleep(r) ==
  /\ Ready(r, {"sleep"})
  /\ Output(r, "empty")
  /\ Conclude(r, "passed", None)
  /\ UNCHANGED <<session, world>>

\* The run evaluates assertions among the steps, the executor those of the
\* cleanup; both need the output of the source.
EvaluateAssertion(r) ==
  /\ Ready(r, {"assert"})
  /\ \E verdict \in {"passed", "failed"} :
       /\ verdict = "passed" =>
            IF phase[r] = "steps" THEN Current(r).source \in context[r]
                                  ELSE SourceOutput(r) # "absent"
       /\ Conclude(r, verdict, None)
  /\ IF phase[r] = "steps" THEN UNCHANGED outputs ELSE Output(r, "empty")
  /\ UNCHANGED <<session, world>>

(***************************************************************************)
(* Use cases that return.                                                  *)
(***************************************************************************)
\* Mutation: a session that the executor remembers already is kept.
BugReturnStart(r) ==
  /\ Calling(r, {"start_session"})
  /\ \/ \E s \in Sessions :
          /\ owner[s] = None
          /\ owner' = [owner EXCEPT ![s] = r]
          /\ alive' = alive \cup {s}
          /\ session' = IF session = None THEN s ELSE session
          /\ Output(r, "empty")
          /\ Conclude(r, "passed", s)
     \/ Raised(r)

ReturnStart(r) ==
  /\ Calling(r, {"start_session"})
  /\ \/ \E s \in Sessions :
          /\ owner[s] = None
          /\ owner' = [owner EXCEPT ![s] = r]
          /\ alive' = alive \cup {s}
          /\ session' = s
          /\ Output(r, "empty")
          /\ Conclude(r, "passed", s)
     \/ Raised(r)

\* Mutation: the output of an earlier step with the same id is kept.
BugReturnFindKeeps(r) ==
  /\ Calling(r, {"find"})
  /\ IF outputs[Current(r).id] \in Sessions THEN UNCHANGED outputs
                                       ELSE Output(r, call[r].session)
  /\ Conclude(r, "passed", None)
  /\ UNCHANGED <<session, world>>

ReturnFind(r) ==
  /\ Calling(r, {"find"})
  /\ \/ /\ call[r].session \in alive
        /\ Output(r, call[r].session)
        /\ Conclude(r, "passed", None)
        /\ UNCHANGED <<session, world>>
     \/ /\ Output(r, "empty")
        /\ Conclude(r, IF Current(r).strict THEN "failed" ELSE "passed", None)
        /\ UNCHANGED <<session, world>>
     \/ Raised(r)

\* scroll_into_view catches nothing: what find or swipe raise ends the run
\* without a result and without cleanup.
ReturnScroll(r) ==
  /\ Calling(r, {"scroll_into_view"})
  /\ \/ /\ call[r].session \in alive
        /\ Output(r, call[r].session)
        /\ Conclude(r, "passed", None)
     \/ /\ Output(r, "empty")
        /\ Conclude(r, "failed", None)
     \/ /\ Turn(r, "raised")
        /\ call' = [call EXCEPT ![r] = None]
        /\ UNCHANGED <<doc, at, started, context, results, status, outputs>>
  /\ UNCHANGED <<session, world>>

\* The last disjuncts: a strict wait that timed out; a use case that raised.
ReturnOther(r) ==
  /\ Calling(r, {"action", "input", "wait"})
  /\ \/ /\ Output(r, "empty")
        /\ \/ Conclude(r, "passed", None)
           \/ /\ Current(r).kind = "wait" /\ Current(r).strict
              /\ Conclude(r, "failed", None)
        /\ UNCHANGED <<session, world>>
     \/ Raised(r)

\* Mutation: the errors of a stop are not reported.
BugReturnStop(r) ==
  /\ Calling(r, {"stop_session"})
  /\ session' = None
  /\ Output(r, "empty")
  /\ Conclude(r, "passed", None)
  /\ \/ alive' = alive \ {call[r].session}
     \/ UNCHANGED alive
  /\ UNCHANGED owner

\* A stop that could not stop everything passes, and says so.  It raises when
\* the record of the given session is gone: a session that was pruned.
ReturnStop(r) ==
  /\ Calling(r, {"stop_session"})
  /\ \/ /\ session' = None
        /\ Output(r, "empty")
        /\ \/ Conclude(r, "passed", None) /\ alive' = alive \ {call[r].session}
           \/ Conclude(r, "with_errors", None) /\ UNCHANGED alive
        /\ UNCHANGED owner
     \/ ~call[r].sole /\ call[r].session \notin alive /\ Raised(r)

(***************************************************************************)
(* Everybody else: other clients start sessions; sessions end.             *)
(***************************************************************************)
OtherStarts(s) ==
  /\ owner[s] = None
  /\ owner' = [owner EXCEPT ![s] = Other]
  /\ alive' = alive \cup {s}
  /\ UNCHANGED <<run, executor>>

Exits(s) ==
  /\ s \in alive
  /\ alive' = alive \ {s}
  /\ UNCHANGED <<run, executor, owner>>

Step(r) ==
  \/ Begin(r) \/ Skip(r) \/ StepsDone(r) \/ CleanupDone(r)
  \/ ConsumedEmpty(r) \/ CannotCall(r) \/ CallBound(r) \/ CallAction(r)
  \/ CallStart(r) \/ CallStop(r) \/ Sleep(r) \/ EvaluateAssertion(r)
  \/ ReturnStart(r) \/ ReturnFind(r) \/ ReturnScroll(r) \/ ReturnOther(r) \/ ReturnStop(r)

Next == (\E r \in Runs : Step(r)) \/ (\E s \in Sessions : OtherStarts(s) \/ Exits(s))

Spec == Init /\ [][Next]_vars

-----------------------------------------------------------------------------
Mine(r) == {s \in Sessions : owner[s] = r}
Reported(r, kind) == {i \in DOMAIN results[r] : results[r][i].step.kind = kind}

\* A document that starts one session, and stops it in its cleanup.
Disciplined(d) ==
  /\ Cardinality({i \in DOMAIN d.steps : d.steps[i].kind = "start_session"}) = 1
  /\ Has(d.cleanup, "stop_session") /\ ~Has(d.cleanup, "start_session")

\* A run that ended has executed its steps up to the first that failed and,
\* if one of them was to start a session, each cleanup step once whatever the
\* others did; it failed exactly if a step did (ScenarioRunUseCase.execute).
RunsAsDeclared ==
  \A r \in Runs : phase[r] = "ended" /\ status[r] # "skipped" =>
    LET n == Cardinality({i \in DOMAIN results[r] : ~results[r][i].cleanup})
        done == [i \in DOMAIN results[r] |-> results[r][i].step]
        tail == SubSeq(done, n + 1, Len(done))
    IN /\ SubSeq(done, 1, n) = SubSeq(doc[r].steps, 1, n)
       /\ \A i \in 1..n : results[r][i].verdict = "failed" <=> i = n /\ status[r] = "failed"
       /\ status[r] = "passed" => n = Len(doc[r].steps)
       /\ tail \in {<<>>, doc[r].cleanup}
       /\ (\E i \in 1..n : done[i].kind = "start_session") => tail = doc[r].cleanup

\* If a run of a disciplined document ended and its session is alive, a stop
\* step reports it: failed, or stopped with errors.  Nothing leaks silently.
LeakIsReported ==
  \A r \in Runs :
    (phase[r] = "ended" /\ status[r] # "skipped" /\ Disciplined(doc[r])
       /\ Mine(r) \cap alive # {})
      => \E i \in Reported(r, "stop_session") : results[r][i].verdict # "passed"

\* From the start of its session to its first stop, every step of a run acts
\* on that session, whatever earlier runs have left in the executor.
OwnSession ==
  \A r \in Runs :
    (Calling(r, Bound \cup {"stop_session"}) /\ Mine(r) # {}
       /\ \A i \in Reported(r, "stop_session") : results[r][i].verdict = "failed")
      => call[r].session \in Mine(r)

\* The results of a run since its last start or stop of a session.
Recent(r) == {i \in DOMAIN results[r] :
                \A j \in i..Len(results[r]) :
                  results[r][j].step.kind \notin {"start_session", "stop_session"}}

Gave(r, id) == \E i \in Recent(r) : /\ results[r][i].step.id = id
                                    /\ results[r][i].step.kind # "assert"
                                    /\ results[r][i].verdict = "passed"

\* An action whose source passed in this run, with no start or stop since, is
\* given a node of the session that it acts on (_resolve_node_id).  A source
\* that raised is no such step: it leaves the output that it found.
ActsOnWhatItFound ==
  \A r \in Runs :
    Calling(r, {"action"}) /\ Gave(r, Current(r).source) => call[r].node = call[r].session

(***************************************************************************)
(* What the code does not keep.                                            *)
(***************************************************************************)
\* "Execute declared steps in order, then cleanup any started session": a
\* scenario stops no session but its own.
StopsOnlyItsOwn ==
  \A r \in Runs : Calling(r, {"stop_session"}) => call[r].session \in Mine(r)

\* The same sentence: no session that a run started outlives the run, unless
\* a stop step says that it could not stop it.
StartedIsStopped ==
  \A r \in Runs : phase[r] \in {"ended", "raised"} /\ Mine(r) \cap alive # {} =>
    \E i \in Reported(r, "stop_session") : results[r][i].verdict # "passed"

\* A run of the server has the result of a run of the command line: no action
\* uses the output of a step that this run has not executed.
UsesItsOwnOutputs ==
  \A r \in Runs : Calling(r, {"action"}) => Current(r).source \in context[r]
=============================================================================
